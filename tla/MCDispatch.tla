----------------------------- MODULE MCDispatch -----------------------------
EXTENDS CommandDispatch, TLC

(* Moves are alike, and so are RMF tasks.                                  *)
Symmetry == Permutations(Move) \cup Permutations(RmfTask)
=============================================================================
