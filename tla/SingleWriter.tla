---------------------------- MODULE SingleWriter ----------------------------
(***************************************************************************)
(* What a fenced singleton role promises while Redis loses nothing: claims *)
(* are numbered in the order they are made, and whatever is written under  *)
(* the fence is written by the last claim.                                 *)
(***************************************************************************)
EXTENDS Naturals

VARIABLES
    epoch,   \* the number of the last claim
    writer   \* the claim that wrote last (0: nobody wrote)

Init == epoch = 0 /\ writer = 0

Claim == epoch' = epoch + 1 /\ UNCHANGED writer

Write == epoch > 0 /\ writer' = epoch /\ UNCHANGED epoch

Next == Claim \/ Write

Spec == Init /\ [][Next]_<<epoch, writer>>
=============================================================================
