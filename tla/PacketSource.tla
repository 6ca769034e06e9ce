---------------------------- MODULE PacketSource -----------------------------
(***************************************************************************)
(* What an open demuxer is to its caller: a list of packets and a place in *)
(* it.  Reading passes one packet, which is handed over or reported lost,  *)
(* and never stays where it is; a seek goes to a sync sample of the track  *)
(* it names; nothing else moves the place.                                 *)
(***************************************************************************)
EXTENDS Integers, Sequences

VARIABLES
    packets,   \* the packets, as they are in the file; never changes
    place,     \* how many of them have been passed
    got        \* the answer to the last call

source == <<packets, place, got>>

Init == place = 0 /\ got = [what |-> "ready"]

Deliver ==
    /\ place < Len(packets)
    /\ place' = place + 1
    /\ got' = [what |-> "packet", packet |-> packets[place + 1]]
Lose ==
    /\ place < Len(packets)
    /\ place' = place + 1
    /\ got' = [what |-> "lost"]
End ==
    /\ place = Len(packets)
    /\ got' = [what |-> "eof"]
    /\ UNCHANGED place
Read == (Deliver \/ Lose \/ End) /\ UNCHANGED packets

Seek ==
    \E k \in DOMAIN packets :
        /\ packets[k].keyframe
        /\ place' = k - 1
        /\ got' = [what |-> "sought", track |-> packets[k].track, pts |-> packets[k].pts]
        /\ UNCHANGED packets

Other == got' = [what |-> "other"] /\ UNCHANGED <<packets, place>>

Next == Read \/ Seek \/ Other
Spec == Init /\ [][Next]_source
=============================================================================
