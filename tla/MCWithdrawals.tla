--------------------------- MODULE MCWithdrawals ---------------------------
(* Small instances of Withdrawals for TLC. *)
EXTENDS Withdrawals, TLC

CONSTANTS p1, p2, p3, ann, bob, w1, w2

OneWorkspace == ann :> w1 @@ bob :> w1
TwoWorkspaces == ann :> w1 @@ bob :> w2
OneUser == ann :> w1

Funds == [u \in Users |-> 3]

HandlerSymmetry == Permutations(Handlers)
=============================================================================
