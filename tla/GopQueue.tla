------------------------------ MODULE GopQueue ------------------------------
(***************************************************************************)
(* What the packet queue between the network thread and the decoder        *)
(* promises, with neither threads nor clock nor codec: packets leave in    *)
(* the order they were accepted, each at most once; the queue may lose     *)
(* packets that are not key packets; and once it has lost one, it delivers *)
(* nothing before the next key packet, because what follows refers to the  *)
(* picture that is missing.                                                *)
(*                                                                         *)
(* DecodeQueue (mediacodec.cpp) is shown to implement this module.         *)
(***************************************************************************)
EXTENDS Naturals, Sequences

VARIABLES
    offered,       \* how many packets were offered so far
    pending,       \* [id, key] accepted and not yet delivered or lost
    delivered,     \* what the decoder was given, oldest first
    broken         \* a packet was lost since the last key packet delivered

gopVars == <<offered, pending, delivered, broken>>

Init ==
    /\ offered = 0
    /\ pending = <<>>
    /\ delivered = <<>>
    /\ broken = FALSE

Accept ==
    \E key \in BOOLEAN :
        /\ offered' = offered + 1
        /\ pending' = Append(pending, [id |-> offered + 1, key |-> key])
        /\ UNCHANGED <<delivered, broken>>

\* A packet is turned away before it enters the queue.
Refuse ==
    /\ offered' = offered + 1
    /\ UNCHANGED <<pending, delivered, broken>>

Lose ==
    /\ pending # <<>>
    /\ ~Head(pending).key
    /\ pending' = Tail(pending)
    /\ broken' = TRUE
    /\ UNCHANGED <<offered, delivered>>

Deliver ==
    /\ pending # <<>>
    /\ Head(pending).key \/ ~broken
    /\ pending' = Tail(pending)
    /\ delivered' = Append(delivered, Head(pending))
    /\ broken' = (broken /\ ~Head(pending).key)
    /\ UNCHANGED offered

Next == Accept \/ Refuse \/ Lose \/ Deliver

Spec == Init /\ [][Next]_gopVars
=============================================================================
