------------------------ MODULE SegmentStreamProofs -------------------------
(***************************************************************************)
(* The logs of SegmentStream are ordered, and only grow.                   *)
(***************************************************************************)
EXTENDS SegmentStream, TLAPS

StreamTyped ==
    /\ ready \in BOOLEAN
    /\ accepted \in [Track -> Nat]
    /\ waiting \in [Track -> Seq(Nat)]
    /\ log \in [Track -> Seq(Nat)]

StreamInv == StreamTyped /\ StreamInOrder

(* A sequence of numbers that is strictly increasing and bounded by n.     *)
Ordered(s, n) ==
    /\ \A k \in 1..Len(s) : s[k] \in 1..n
    /\ \A j, k \in 1..Len(s) : j < k => s[j] < s[k]

(* The number accepted next may follow an ordered sequence.                *)
LEMMA OrderedAppend ==
    ASSUME NEW s \in Seq(Nat), NEW n \in Nat, Ordered(s, n)
    PROVE  Ordered(Append(s, n + 1), n + 1) /\ Ordered(s, n + 1)
  <1>1. Ordered(s, n + 1)
    BY DEF Ordered
  <1>2. \A k \in 1..Len(s) : Append(s, n + 1)[k] = s[k]
    OBVIOUS
  <1>3. Len(Append(s, n + 1)) = Len(s) + 1
        /\ Append(s, n + 1)[Len(s) + 1] = n + 1
    OBVIOUS
  <1>4. Ordered(Append(s, n + 1), n + 1)
    BY <1>2, <1>3 DEF Ordered
  <1> QED
    BY <1>1, <1>4

(* Concatenation with an appended or with an empty sequence.               *)
LEMMA ConcatFacts ==
    ASSUME NEW a \in Seq(Nat), NEW b \in Seq(Nat), NEW x \in Nat
    PROVE  /\ a \o b \in Seq(Nat)
           /\ a \o Append(b, x) = Append(a \o b, x)
           /\ (a \o b) \o <<>> = a \o b
           /\ (a \o b) \o <<x>> = Append(a \o b, x)
  OBVIOUS

(* What one track's log and waiting list may become.                       *)
LEMMA TrackStep ==
    ASSUME NEW a \in Seq(Nat), NEW b \in Seq(Nat), NEW n \in Nat,
           Ordered(a \o b, n)
    PROVE  /\ Ordered((a \o b) \o <<>>, n)
           /\ Ordered(a \o Append(b, n + 1), n + 1)
           /\ Ordered((a \o Append(b, n + 1)) \o <<>>, n + 1)
           /\ Ordered((a \o b) \o <<n + 1>>, n + 1)
           /\ Ordered(a \o b, n + 1)
  <1>1. a \o b \in Seq(Nat)
    OBVIOUS
  <1>2. Ordered(Append(a \o b, n + 1), n + 1) /\ Ordered(a \o b, n + 1)
    BY <1>1, OrderedAppend
  <1>3. /\ a \o Append(b, n + 1) = Append(a \o b, n + 1)
        /\ (a \o b) \o <<>> = a \o b
        /\ (a \o b) \o <<n + 1>> = Append(a \o b, n + 1)
        /\ (a \o Append(b, n + 1)) \o <<>> = a \o Append(b, n + 1)
    BY ConcatFacts
  <1> QED
    BY <1>2, <1>3

LEMMA StreamOrderedDef ==
    StreamInOrder <=> \A t \in Track : Ordered(log[t] \o waiting[t], accepted[t])
  BY DEF StreamInOrder, Ordered

LEMMA StreamInitInv == StreamInit => StreamInv
  <1> SUFFICES ASSUME StreamInit PROVE StreamInv
    OBVIOUS
  <1>1. StreamTyped
    <2>1. <<>> \in Seq(Nat)
      OBVIOUS
    <2>2. Nothing \in [Track -> Seq(Nat)] /\ [t \in Track |-> 0] \in [Track -> Nat]
      BY <2>1 DEF Nothing
    <2> QED
      BY <2>2 DEF StreamInit, StreamTyped
  <1>2. \A t \in Track : log[t] = <<>> /\ waiting[t] = <<>> /\ accepted[t] = 0
    BY DEF StreamInit, Nothing
  <1>3. <<>> \o <<>> = <<>> /\ Ordered(<<>>, 0)
    BY DEF Ordered
  <1>4. StreamInOrder
    BY <1>2, <1>3, StreamOrderedDef
  <1> QED
    BY <1>1, <1>4 DEF StreamInv

(* Each way an accept can go keeps the types and the order.                *)
LEMMA AcceptInv ==
    ASSUME StreamInv, NEW t \in Track, Accept(t)
    PROVE  StreamInv'
  <1> DEFINE n == accepted[t]
  <1>1. /\ n \in Nat
        /\ accepted' = [accepted EXCEPT ![t] = n + 1] /\ ready' = ready
        /\ accepted' \in [Track -> Nat]
    BY DEF Accept, StreamInv, StreamTyped
  <1>2. Joined(t) \in [Track -> Seq(Nat)]
    BY <1>1 DEF Joined, StreamInv, StreamTyped
  <1>3. \A u \in Track : /\ log[u] \in Seq(Nat) /\ waiting[u] \in Seq(Nat)
                         /\ accepted[u] \in Nat
                         /\ Ordered(log[u] \o waiting[u], accepted[u])
    BY StreamOrderedDef DEF StreamInv, StreamTyped
  <1>4. \A u \in Track : accepted'[u] = IF u = t THEN n + 1 ELSE accepted[u]
    BY <1>1, <1>3 DEF StreamInv, StreamTyped
  <1>5. \A u \in Track : Joined(t)[u] = IF u = t THEN Append(waiting[u], n + 1)
                                        ELSE waiting[u]
    BY DEF Joined, StreamInv, StreamTyped
  <1>6. SUFFICES
          /\ waiting' \in [Track -> Seq(Nat)] /\ log' \in [Track -> Seq(Nat)]
          /\ \A u \in Track : Ordered(log'[u] \o waiting'[u], accepted'[u])
    BY <1>1 DEF StreamInv, StreamTyped, StreamInOrder, Ordered
  <1>7. CASE waiting' = Joined(t) /\ UNCHANGED log
    <2>1. \A u \in Track : Ordered(log'[u] \o waiting'[u], accepted'[u])
      BY <1>3, <1>4, <1>5, <1>7, TrackStep
    <2> QED
      BY <2>1, <1>2, <1>7 DEF StreamInv, StreamTyped
  <1>8. CASE waiting' = Nothing /\ log' = Extended(Joined(t))
    <2>1. waiting' \in [Track -> Seq(Nat)] /\ log' \in [Track -> Seq(Nat)]
      BY <1>2, <1>8 DEF Nothing, Extended, StreamInv, StreamTyped
    <2>2. \A u \in Track : log'[u] = log[u] \o Joined(t)[u] /\ waiting'[u] = <<>>
      BY <1>8 DEF Nothing, Extended
    <2>3. \A u \in Track : Ordered(log'[u] \o waiting'[u], accepted'[u])
      BY <2>2, <1>3, <1>4, <1>5, TrackStep, ZenonT(60), SMTT(30)
    <2> QED
      BY <2>1, <2>3
  <1>9. CASE /\ t = Anchor
             /\ waiting' = [Nothing EXCEPT ![Anchor] = <<n + 1>>]
             /\ log' = Extended(waiting)
    <2>1. waiting' \in [Track -> Seq(Nat)] /\ log' \in [Track -> Seq(Nat)]
      <3>1. <<n + 1>> \in Seq(Nat) /\ <<>> \in Seq(Nat)
        BY <1>1
      <3>2. waiting' \in [Track -> Seq(Nat)]
        BY <3>1, <1>9 DEF Nothing
      <3>3. log' \in [Track -> Seq(Nat)]
        BY <1>3, <1>9 DEF Extended
      <3> QED
        BY <3>2, <3>3
    <2>2. \A u \in Track : /\ log'[u] = log[u] \o waiting[u]
                           /\ waiting'[u] = IF u = t THEN <<n + 1>> ELSE <<>>
      BY <1>9 DEF Nothing, Extended
    <2>3. \A u \in Track : Ordered(log'[u] \o waiting'[u], accepted'[u])
      BY <2>2, <1>3, <1>4, TrackStep
    <2> QED
      BY <2>1, <2>3
  <1>10. CASE UNCHANGED <<waiting, log>>
    <2>1. \A u \in Track : Ordered(log'[u] \o waiting'[u], accepted'[u])
      BY <1>10, <1>3, <1>4, TrackStep
    <2> QED
      BY <2>1, <1>10 DEF StreamInv, StreamTyped
  <1> QED
    BY <1>7, <1>8, <1>9, <1>10 DEF Accept

LEMMA PublishInv ==
    ASSUME StreamInv, Publish
    PROVE  StreamInv'
  <1>1. \A u \in Track : /\ log[u] \in Seq(Nat) /\ waiting[u] \in Seq(Nat)
                         /\ accepted[u] \in Nat
                         /\ Ordered(log[u] \o waiting[u], accepted[u])
    BY StreamOrderedDef DEF StreamInv, StreamTyped
  <1>2. \A u \in Track : log'[u] = log[u] \o waiting[u] /\ waiting'[u] = <<>>
    BY DEF Publish, Nothing, Extended
  <1>3. \A u \in Track : Ordered(log'[u] \o waiting'[u], accepted[u])
    BY <1>1, <1>2, TrackStep
  <1>4. StreamTyped'
    BY DEF Publish, Nothing, Extended, StreamInv, StreamTyped
  <1> QED
    BY <1>3, <1>4 DEF Publish, StreamInv, StreamInOrder, Ordered

(* Whatever a caller does, each track's log and waiting list stay in the   *)
(* order of acceptance.                                                    *)
THEOREM StreamIsOrdered == StreamSpec => []StreamInOrder
  <1>1. StreamInit => StreamInv
    BY StreamInitInv
  <1>2. StreamInv /\ [StreamNext]_streamVars => StreamInv'
    <2> SUFFICES ASSUME StreamInv, [StreamNext]_streamVars PROVE StreamInv'
      OBVIOUS
    <2>1. CASE Open
      BY <2>1 DEF Open, StreamInv, StreamTyped, StreamInOrder
    <2>2. CASE Publish
      BY <2>2, PublishInv
    <2>3. CASE \E t \in Track : Accept(t)
      BY <2>3, AcceptInv
    <2>4. CASE UNCHANGED streamVars
      BY <2>4 DEF streamVars, StreamInv, StreamTyped, StreamInOrder
    <2> QED
      BY <2>1, <2>2, <2>3, <2>4 DEF StreamNext
  <1>3. StreamInv => StreamInOrder
    BY DEF StreamInv
  <1> QED
    BY <1>1, <1>2, <1>3, PTL DEF StreamSpec

(* What is published stays published: a log is only ever extended.         *)
THEOREM StreamLogGrows == StreamSpec => LogGrows
  <1> DEFINE Grows == \A t \in Track :
                        /\ Len(log[t]) <= Len(log'[t])
                        /\ \A k \in 1..Len(log[t]) : log'[t][k] = log[t][k]
  <1>1. StreamInit => StreamTyped
    BY StreamInitInv DEF StreamInv
  <1>2. ASSUME StreamTyped, [StreamNext]_streamVars
        PROVE  StreamTyped' /\ [Grows]_streamVars
    <2>1. \A t \in Track : log[t] \in Seq(Nat) /\ waiting[t] \in Seq(Nat)
      BY <1>2 DEF StreamTyped
    <2>2. ASSUME NEW w \in [Track -> Seq(Nat)], log' = Extended(w)
          PROVE  log' \in [Track -> Seq(Nat)] /\ Grows
      <3>1. \A t \in Track : log'[t] = log[t] \o w[t] /\ w[t] \in Seq(Nat)
        BY <2>2 DEF Extended
      <3>2. \A a, b \in Seq(Nat) : /\ a \o b \in Seq(Nat) /\ Len(a) <= Len(a \o b)
                                  /\ \A k \in 1..Len(a) : (a \o b)[k] = a[k]
        OBVIOUS
      <3>3. Grows
        BY <2>1, <3>1, <3>2
      <3>4. log' \in [Track -> Seq(Nat)]
        BY <2>1, <2>2, <3>2 DEF Extended
      <3> QED
        BY <3>3, <3>4
    <2>3. ASSUME UNCHANGED log PROVE log' \in [Track -> Seq(Nat)] /\ Grows
      BY <1>2, <2>1, <2>3 DEF StreamTyped
    <2>4. CASE Open
      BY <1>2, <2>3, <2>4 DEF Open, StreamTyped
    <2>5. CASE Publish
      <3>1. waiting' \in [Track -> Seq(Nat)]
        BY <2>5 DEF Publish, Nothing
      <3> QED
        BY <1>2, <2>2, <2>5, <3>1 DEF Publish, StreamTyped
    <2>6. ASSUME NEW t \in Track, Accept(t)
          PROVE  StreamTyped' /\ [Grows]_streamVars
      <3> DEFINE n == accepted[t]
      <3>1. n \in Nat /\ accepted' \in [Track -> Nat] /\ ready' \in BOOLEAN
        BY <1>2, <2>6 DEF Accept, StreamTyped
      <3>2. Joined(t) \in [Track -> Seq(Nat)]
        BY <1>2, <3>1 DEF Joined, StreamTyped
      <3>3. <<n + 1>> \in Seq(Nat) /\ <<>> \in Seq(Nat)
        BY <3>1
      <3>4. /\ Nothing \in [Track -> Seq(Nat)]
            /\ [Nothing EXCEPT ![Anchor] = <<n + 1>>] \in [Track -> Seq(Nat)]
        BY <3>3 DEF Nothing
      <3>5. waiting' \in [Track -> Seq(Nat)]
        BY <1>2, <2>6, <3>2, <3>4 DEF Accept, StreamTyped
      <3>6. \/ log' = Extended(Joined(t)) \/ log' = Extended(waiting)
            \/ UNCHANGED log
        BY <2>6 DEF Accept
      <3>7. log' \in [Track -> Seq(Nat)] /\ Grows
        BY <1>2, <2>2, <2>3, <3>2, <3>6 DEF StreamTyped
      <3> QED
        BY <3>1, <3>5, <3>7 DEF StreamTyped
    <2>7. CASE UNCHANGED streamVars
      BY <1>2, <2>7 DEF streamVars, StreamTyped
    <2> QED
      BY <1>2, <2>4, <2>5, <2>6, <2>7 DEF StreamNext
  <1> QED
    BY <1>1, <1>2, PTL DEF StreamSpec, LogGrows
=============================================================================
