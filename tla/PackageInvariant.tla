-------------------------- MODULE PackageInvariant --------------------------
(***************************************************************************)
(* The second layer of the inductive invariant, on top of WorldInv: what   *)
(* the places of the packages, the books of the zone, the blockers and the *)
(* commands under way have to do with the stages of the tasks. The         *)
(* properties about packages, the dashboard and the two refinements rest   *)
(* on it. As WorldInv it is about a state w of the mission and a set V of  *)
(* robots that may be inside the zone.                                     *)
(***************************************************************************)
EXTENDS MissionInvariant

(* The stages in which a task asks for the zone and drives out of it.      *)
RequestStage(t) == IF LegOf(t) = Inbound THEN "RequestDropoff" ELSE "RequestPickup"
VacateStage(t) == IF LegOf(t) = Inbound THEN "VacateDropoff" ELSE "VacatePickup"

(* How far package p is on its way: 0 at the source, 1 on the upstream     *)
(* robot, 2 in the zone, 3 on the downstream robot, 4 at the destination.  *)
Position(w, p) ==
  IF w.carrier[p] = UpstreamRobot THEN 1
  ELSE IF w.carrier[p] = DownstreamRobot THEN 3
  ELSE IF w.place[p] = "source" THEN 0
  ELSE IF w.place[p] = Zone THEN 2
  ELSE 4

(* A package lies nowhere but at the three places of its way, and one that *)
(* is carried is booked where it was taken from.                           *)
OnTheWay(w, p) ==
  /\ w.place[p] \in {"source", Zone, "destination"}
  /\ w.carrier[p] = UpstreamRobot => w.place[p] = "source"
  /\ w.carrier[p] = DownstreamRobot => w.place[p] = Zone

(* The position of its package at which a task starts its work.            *)
Origin(t) == IF LegOf(t) = Inbound THEN 0 ELSE 2

(* Where its package can be, at n, when a task that takes it from position *)
(* o to o + 2 stands at stage s.                                           *)
StageFits(s, o, n) ==
  /\ s \in {"ClaimRobot", "RequestPickup"} => n <= o
  /\ s = "MoveToPickup" => n = o
  /\ s = "Load" => n \in {o, o + 1}
  /\ s \in {"VacatePickup", "RequestDropoff", "MoveToDropoff"} => n = o + 1
  /\ s = "Unload" => n \in {o + 1, o + 2}
  /\ s = "VacateDropoff" => n = o + 2
  /\ s = "Done" => n >= o + 2

(* A task handles its package where the package is handled, is marked      *)
(* inside the zone from its arrival there, and is blocked only while its   *)
(* robot stands at the waiting place with nothing to do.                   *)
TaskFits(w, t) ==
  LET r == RobotOf(t)
  IN  /\ StageFits(w.stage[t], Origin(t), Position(w, ItemOf(t)))
      /\ w.stage[t] = "Load" => w.loc[r] = PickupOf(t)
      /\ w.stage[t] = "Unload" => w.loc[r] = DropoffOf(t)
      /\ w.stage[t] \in ZoneStages(t) \ {ApproachStage(t)} => r \in w.zone.occ
      /\ w.stage[t] = "Done" <=> w.status[t] = "SUCCEEDED"
      /\ w.status[t] = "BLOCKED" =>
           /\ w.stage[t] = RequestStage(t)
           /\ w.loc[r] = WaitWaypointOf(r)
           /\ w.active[t] = NoCommand
      /\ w.stage[t] = RequestStage(t) /\ w.active[t] # NoCommand =>
           w.loc[r] # WaitWaypointOf(r)

(* What can block a task: the other robot's lease, the package it is to    *)
(* fetch, or another package where it is to leave its own.                 *)
BlocksTask(t, b) ==
  \/ b.reason = "WAITING_FOR_TRANSFER_LEASE" /\ b.robot # RobotOf(t)
  \/ b.reason = "PACKAGE_NOT_AVAILABLE" /\ PickupOf(t) = Zone
  \/ b.reason = "TRANSFER_PACKAGE_FULL" /\ DropoffOf(t) = Zone /\ b.item # ItemOf(t)

(* A blocker is kept only while the task asks for the zone, and a failure  *)
(* only by a task that is over and has no command.                         *)
BlockerFits(w, t) ==
  /\ w.blocker[t].reason = "command_failed" =>
       w.status[t] \in {"FAILED", "CANCELLED"} /\ w.active[t] = NoCommand
  /\ \/ w.blocker[t] = BlockedByNothing
     \/ w.blocker[t].reason = "command_failed"
     \/ w.stage[t] = RequestStage(t)
  /\ w.status[t] = "BLOCKED" => BlocksTask(t, w.blocker[t])

(* The buffer of the zone holds the packages that were brought and not     *)
(* fetched yet, one at most, and none while another is being brought or    *)
(* the one that was there has just been taken.                             *)
BroughtStages == {"VacateDropoff", "Done"}
UnfetchedStages == {"ClaimRobot", "RequestPickup", "MoveToPickup", "Load"}

IsBuffered(w, p) ==
  /\ w.stage[<<p, Inbound>>] \in BroughtStages
  /\ w.stage[<<p, Outbound>>] \in UnfetchedStages

EmptyBufferStages(t) ==
  IF LegOf(t) = Inbound THEN {"MoveToDropoff", "Unload"} ELSE {"VacatePickup"}

BufferFits(w) ==
  /\ \A p \in Item : p \in w.zone.buf <=> IsBuffered(w, p)
  /\ \A p, q \in w.zone.buf : p = q
  /\ \A t \in Task : w.stage[t] \in EmptyBufferStages(t) => w.zone.buf = {}

(* A command under way is the one the stage of its task asks for. A robot  *)
(* on its way to its waiting place may find the zone granted meanwhile:    *)
(* then its task already stands where it drives into the zone.             *)
MoveFits(w, t, x) ==
  \/ w.stage[t] \in {RequestStage(t), ApproachStage(t)} /\ x = WaitWaypointOf(RobotOf(t))
  \/ w.stage[t] = "MoveToPickup" /\ x = PickupOf(t)
  \/ w.stage[t] = "MoveToDropoff" /\ x = DropoffOf(t)
  \/ w.stage[t] = VacateStage(t) /\ x = ExitOf(RobotOf(t))

CommandFits(w, c) ==
  /\ c.kind = "load" => w.stage[c.task] = "Load"
  /\ c.kind = "unload" => w.stage[c.task] = "Unload"
  /\ c.kind = "move" => MoveFits(w, c.task, c.target)

(* The mission is completed only with all its tasks, and failed by a task  *)
(* that still owns its robot.                                              *)
HasFailed(w, t) ==
  /\ w.status[t] = "FAILED"
  /\ w.blocker[t].reason = "command_failed"
  /\ Engaged(w, t)

MissionFits(w) ==
  /\ w.mission = "COMPLETED" => AllSucceeded(w)
  /\ w.mission = "FAILED" => \E t \in Task : HasFailed(w, t)

(* Whoever is in the zone is counted among its visitors, and a robot that  *)
(* still drives to its waiting place is not.                               *)
IsWaitMove(w, c) ==
  /\ c.kind = "move"
  /\ c.target = WaitWaypointOf(RobotOf(c.task))
  /\ w.stage[c.task] \in {RequestStage(c.task), ApproachStage(c.task)}

VisitorsFit(w, V) ==
  /\ \A r \in Robot : w.loc[r] = Zone => r \in V
  /\ \A c \in w.live : IsWaitMove(w, c) => RobotOf(c.task) \notin V

PackageInv(w, V) ==
  /\ \A p \in Item : OnTheWay(w, p)
  /\ \A t \in Task : TaskFits(w, t) /\ BlockerFits(w, t)
  /\ BufferFits(w)
  /\ \A c \in w.live : CommandFits(w, c)
  /\ MissionFits(w)
  /\ VisitorsFit(w, V)

(* Between two callbacks a robot commanded into the zone is a visitor. The *)
(* following is inductive together with Inv.                               *)
PackagesInv ==
  /\ PackageInv(world, visitors)
  /\ \A c \in world.live : IsZoneMove(c) => RobotOf(c.task) \in visitors
=============================================================================
