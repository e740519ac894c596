--------------------------- MODULE MCTurnProtocol ---------------------------
(* TurnProtocol with the threads other than the leader interchangeable.    *)
EXTENDS TurnProtocol, TLC

Others == Permutations(Tids \ {Leader})
=============================================================================
