---------------------------- MODULE SegmentStream ---------------------------
(***************************************************************************)
(* What a caller of the fragmented muxer may rely on, with every box and   *)
(* every clock left out: each track is a log.  A packet is accepted into   *)
(* the track's waiting list; now and then everything that waits, on all    *)
(* tracks at once, moves to the logs.  The newest packet of the anchor     *)
(* track may be held back for the next time, and is lost if publishing the *)
(* others fails.                                                           *)
(*                                                                         *)
(* The n-th packet of a track is the number n.                             *)
(***************************************************************************)
EXTENDS Naturals, Sequences

CONSTANTS Track, Anchor

VARIABLES
    ready,     \* packets are accepted
    accepted,  \* per track: packets accepted
    waiting,   \* per track: accepted and not yet published
    log        \* per track: published

streamVars == <<ready, accepted, waiting, log>>

Nothing == [t \in Track |-> <<>>]

StreamInit ==
    /\ ready = FALSE
    /\ accepted = [t \in Track |-> 0]
    /\ waiting = Nothing
    /\ log = Nothing

Open == ~ready /\ ready' = TRUE /\ UNCHANGED <<accepted, waiting, log>>

(* Packet number accepted[t] + 1 joins the ones that wait. *)
Joined(t) == [waiting EXCEPT ![t] = Append(@, accepted[t] + 1)]

(* The logs after everything in w is published. *)
Extended(w) == [u \in Track |-> log[u] \o w[u]]

Accept(t) ==
    /\ ready
    /\ accepted' = [accepted EXCEPT ![t] = @ + 1]
    /\ UNCHANGED ready
    /\ \/ waiting' = Joined(t) /\ UNCHANGED log
       \/ waiting' = Nothing /\ log' = Extended(Joined(t))
       \/ /\ t = Anchor
          /\ waiting' = [Nothing EXCEPT ![Anchor] = <<accepted[t] + 1>>]
          /\ log' = Extended(waiting)
       \/ t = Anchor /\ UNCHANGED <<waiting, log>>

Publish ==
    /\ waiting' = Nothing
    /\ log' = Extended(waiting)
    /\ UNCHANGED <<ready, accepted>>

StreamNext == Open \/ Publish \/ \E t \in Track : Accept(t)

StreamSpec == StreamInit /\ [][StreamNext]_streamVars

(* Each log, and what waits behind it, is in the order of acceptance,      *)
(* without repetition.                                                     *)
StreamInOrder ==
    \A t \in Track :
        LET all == log[t] \o waiting[t]
        IN  /\ \A k \in 1..Len(all) : all[k] \in 1..accepted[t]
            /\ \A j, k \in 1..Len(all) : j < k => all[j] < all[k]

(* A log only grows. *)
LogGrows ==
    [][\A t \in Track :
          /\ Len(log[t]) <= Len(log'[t])
          /\ \A k \in 1..Len(log[t]) : log'[t][k] = log[t][k]]_streamVars
=============================================================================
