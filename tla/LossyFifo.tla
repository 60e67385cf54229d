----------------------------- MODULE LossyFifo -----------------------------
(***************************************************************************)
(* What the sender thread promises the player about the decoded frames it  *)
(* is given: each is shown at most once, they are shown in the order they  *)
(* were given, and some may never be shown.                                *)
(***************************************************************************)
EXTENDS Naturals, Sequences

VARIABLES
    given,         \* frames given, numbered from 1
    shown          \* the numbers of the frames shown

Init == given = 0 /\ shown = <<>>

Give == given' = given + 1 /\ UNCHANGED shown

Show ==
    /\ \E n \in 1 .. given :
          /\ \A i \in DOMAIN shown : shown[i] < n
          /\ shown' = Append(shown, n)
    /\ UNCHANGED given

Next == Give \/ Show

Spec == Init /\ [][Next]_<<given, shown>>
=============================================================================
