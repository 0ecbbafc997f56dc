---------------------------- MODULE MCFIFOController ---------------------------
(* FIFOController with the group size of the code. *)
EXTENDS FIFOController

SeveralGroups == {0, 1, 9, 10, 11, 20, 21, 25}
TwoGroups == {11}

=============================================================================
