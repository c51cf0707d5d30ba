------------------------- MODULE MissionDefinition -------------------------
(***************************************************************************)
(* The fixed two-robot package handoff mission: its robots, waypoints,     *)
(* packages and transport tasks (mission_definition.py, mission_tasks.py   *)
(* and the construction of the mission in MissionManager.create_default).  *)
(*                                                                         *)
(* Every package is carried in two legs, each a task of its own:           *)
(*   <<p, "source_to_transfer">>       by tb3_1, the upstream robot,       *)
(*   <<p, "transfer_to_destination">>  by tb3_2, the downstream robot.     *)
(* "transfer" is the only managed resource of the mission.                 *)
(***************************************************************************)
EXTENDS Integers

CONSTANT NumPackages   \* the node parameter total_packages

(* SortKey below orders package numbers of one or two digits.              *)
ASSUME PackagesAssumption == NumPackages \in 1 .. 99

UpstreamRobot == "tb3_1"
DownstreamRobot == "tb3_2"
Robot == {UpstreamRobot, DownstreamRobot}
NoRobot == "none"

Zone == "transfer"
Waypoint == {"source", Zone, "upstream_exit", "downstream_exit",
             "destination", "robot1_home", "robot2_home"}

Item == 1 .. NumPackages
NoItem == 0

Inbound == "source_to_transfer"
Outbound == "transfer_to_destination"
Leg == {Inbound, Outbound}
Task == Item \X Leg
NoTask == <<0, "none">>

ItemOf(t) == t[1]
LegOf(t) == t[2]
RobotOf(t) == IF LegOf(t) = Inbound THEN UpstreamRobot ELSE DownstreamRobot
PickupOf(t) == IF LegOf(t) = Inbound THEN "source" ELSE Zone
DropoffOf(t) == IF LegOf(t) = Inbound THEN Zone ELSE "destination"

HomeOf(r) == IF r = UpstreamRobot THEN "robot1_home" ELSE "robot2_home"

(* transfer_side_waypoint(robot): where a robot goes when it leaves the    *)
(* zone. The mission definition makes it the waiting place as well.        *)
ExitOf(r) == IF r = UpstreamRobot THEN "upstream_exit" ELSE "downstream_exit"
WaitWaypointOf(r) == ExitOf(r)

-----------------------------------------------------------------------------
(* Life of a task. A stage is the child of the behaviour tree at which the *)
(* task waits between two callbacks. The children that never wait          *)
(* (MarkResourceOccupied, UpdateResourceAfterHandling,                     *)
(* ReleaseResourceIfManaged, ReleaseRobot, MarkTaskSucceeded) run in the   *)
(* same tick as the child that follows or precedes them.                   *)

TaskStatus == {"PENDING", "RUNNING", "BLOCKED", "SUCCEEDED", "FAILED", "CANCELLED"}

Stage == {"ClaimRobot",
          "RequestPickup", "MoveToPickup", "Load", "VacatePickup",
          "RequestDropoff", "MoveToDropoff", "Unload", "VacateDropoff",
          "Done"}

MissionStatus == {"READY", "RUNNING", "PAUSED", "COMPLETED", "ABORTED", "FAILED"}

-----------------------------------------------------------------------------
(* Two orders on tasks. The tasks dictionary is iterated in insertion      *)
(* order: by package number, the leg into the zone first. sorted(tasks)    *)
(* compares the task ids as strings, and there "P10:" < "P1:" < "P2:",     *)
(* because the digits are below the colon.                                 *)

InboundFirst(t, u) == LegOf(t) = Inbound \/ LegOf(u) = Outbound

DictBefore(t, u) ==
  \/ ItemOf(t) < ItemOf(u)
  \/ ItemOf(t) = ItemOf(u) /\ InboundFirst(t, u)

(* Position of "P<p>:" among such strings: the first digit, then the       *)
(* second digit, a missing second digit (the colon) above every digit.     *)
SortKey(p) == IF p < 10 THEN 11 * p + 10 ELSE 11 * (p \div 10) + (p % 10)

SortedBefore(t, u) ==
  \/ SortKey(ItemOf(t)) < SortKey(ItemOf(u))
  \/ SortKey(ItemOf(t)) = SortKey(ItemOf(u)) /\ InboundFirst(t, u)

FirstInDict(S) == CHOOSE t \in S : \A u \in S : DictBefore(t, u)
FirstInSorted(S) == CHOOSE t \in S : \A u \in S : SortedBefore(t, u)
=============================================================================
