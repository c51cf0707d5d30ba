--------------------------- MODULE PackageHandoff ---------------------------
(***************************************************************************)
(* What the mission layer promises about packages, without robots moving,  *)
(* tasks, leases or commands: a package goes from the source, on the       *)
(* upstream robot, through the transfer zone, on the downstream robot, to  *)
(* the destination; it never goes back, skips a place or vanishes; and a   *)
(* robot carries, and the zone holds, at most one package.                 *)
(***************************************************************************)
CONSTANT Package

VARIABLE where   \* where[p]: the place or the robot that has package p

FollowingPlace ==
  [source |-> "tb3_1", tb3_1 |-> "transfer", transfer |-> "tb3_2", tb3_2 |-> "destination"]

HasRoom(x) == x = "destination" \/ \A p \in Package : where[p] # x

Init == where = [p \in Package |-> "source"]

Forward(p) ==
  /\ where[p] # "destination"
  /\ HasRoom(FollowingPlace[where[p]])
  /\ where' = [where EXCEPT ![p] = FollowingPlace[where[p]]]

Next == \E p \in Package : Forward(p)

Spec == Init /\ [][Next]_where

(* As long as a package can go forward, some package does.                 *)
FairSpec == Spec /\ WF_where(Next)
=============================================================================
