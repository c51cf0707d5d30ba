--------------------------- MODULE MissionSnapshot ---------------------------
(***************************************************************************)
(* The read model (mission_serializer.py): what the operator's dashboard   *)
(* is shown of a state w of the mission. Every callback that changes the   *)
(* state ends with the publication of this view of it, so the view is a    *)
(* function of the state. Labels, wording, timestamps and the debug dump   *)
(* of the same objects are left out.                                       *)
(***************************************************************************)
EXTENDS MissionManager, FiniteSets

-----------------------------------------------------------------------------
(* Tasks.                                                                  *)

(* TransportItemTask.phase between two callbacks: each child sets it in    *)
(* the tick in which the task stops there. A task that asks for the zone   *)
(* is on its way to the waiting place until its robot waits.               *)
Phase(w, t) ==
  CASE w.stage[t] = "ClaimRobot" -> "NOT_STARTED"
    [] w.stage[t] \in {"RequestPickup", "RequestDropoff"} ->
         IF w.duty[RobotOf(t)] = "WAITING" THEN "WAIT_FOR_RESOURCE" ELSE "MOVE_TO_WAIT_POINT"
    [] w.stage[t] = "MoveToPickup"  -> "MOVE_TO_PICKUP"
    [] w.stage[t] = "Load"          -> "LOAD_ITEM"
    [] w.stage[t] = "MoveToDropoff" -> "MOVE_TO_DROPOFF"
    [] w.stage[t] = "Unload"        -> "UNLOAD_ITEM"
    [] w.stage[t] \in {"VacatePickup", "VacateDropoff"} -> "MOVE_TO_TRANSFER_EXIT"
    [] w.stage[t] = "Done"          -> "DONE"

(* waiting_resource_id is set while the task asks for the zone in vain.    *)
WaitsForResource(w, t) == w.stage[t] \in {"RequestPickup", "RequestDropoff"}

NextExpectedEvents ==
  [PACKAGE_NOT_AVAILABLE      |-> "upstream robot unloads package at transfer",
   TRANSFER_PACKAGE_FULL      |-> "downstream robot loads package from transfer",
   TRANSFER_ROBOT_OCCUPIED    |-> "robot exits transfer",
   WAITING_FOR_TRANSFER_LEASE |-> "active transfer lease released"]

(* What has to happen next for task t.                                     *)
NextExpectedEvent(w, t) ==
  CASE w.status[t] = "FAILED" -> "operator intervention"
    [] w.status[t] \notin {"FAILED", "RUNNING", "BLOCKED"} -> "none"
    [] w.status[t] \in {"RUNNING", "BLOCKED"} ->
         IF RobotOf(t) \in w.paused THEN "operator resumes robot"
         ELSE IF w.mission = "PAUSED" THEN "operator resume"
         ELSE IF w.blocker[t].reason \in AccessReason
         THEN NextExpectedEvents[w.blocker[t].reason]
         ELSE "none"

Notes(w, t) ==
  IF w.blocker[t].reason # "none" THEN w.blocker[t].reason ELSE NextExpectedEvent(w, t)

Dependencies(t) == IF PickupOf(t) = Zone THEN {<<ItemOf(t), Inbound>>} ELSE {}

ActiveTasks(w) == {t \in Task : w.status[t] \in {"RUNNING", "BLOCKED"}}

(* The task whose phase is shown as the mission's.                         *)
ActiveTask(w) == IF ActiveTasks(w) = {} THEN NoTask ELSE FirstInDict(ActiveTasks(w))

-----------------------------------------------------------------------------
(* The mission.                                                            *)

(* The phases that have a name of their own on the dashboard.              *)
PhaseForTask(w, t) ==
  LET intoZone == DropoffOf(t) = Zone
  IN  CASE Phase(w, t) = "MOVE_TO_PICKUP" -> "moving_to_pickup"
        [] Phase(w, t) = "LOAD_ITEM" -> "loading"
        [] Phase(w, t) \in {"MOVE_TO_WAIT_POINT", "WAIT_FOR_RESOURCE"} ->
             "waiting_at_transfer_zone"
        [] Phase(w, t) = "MOVE_TO_DROPOFF" ->
             IF intoZone THEN "moving_to_transfer_zone" ELSE "moving_to_dropoff"
        [] Phase(w, t) = "UNLOAD_ITEM" ->
             IF intoZone THEN "transfer_complete" ELSE "dropoff_reached"
        [] Phase(w, t) = "MOVE_TO_TRANSFER_EXIT" -> "transfer_complete"
        [] Phase(w, t) = "DONE" -> "mission_complete"
        [] OTHER -> Phase(w, t)

MissionPhase(w) ==
  CASE ActiveTasks(w) # {} ->
         IF w.status[ActiveTask(w)] = "BLOCKED" THEN "waiting_at_transfer_zone"
         ELSE PhaseForTask(w, ActiveTask(w))
    [] ActiveTasks(w) = {} -> IF AllSucceeded(w) THEN "mission_complete" ELSE "idle"

CurrentStep(w) ==
  LET done == Cardinality({t \in Task : w.status[t] = "SUCCEEDED"})
  IN  IF done < Cardinality(Task) THEN done + 1 ELSE done

CurrentBlocker(w) ==
  LET blocked == {t \in Task : w.status[t] = "BLOCKED"}
  IN  IF blocked = {} THEN "none" ELSE w.blocker[FirstInDict(blocked)].reason

(* What comes next: an event, else the phase of the active task, else the  *)
(* next pending task.                                                      *)
NextStep(w) ==
  LET pending == {t \in Task : w.status[t] = "PENDING"}
  IN  CASE ActiveTasks(w) # {} ->
             IF NextExpectedEvent(w, ActiveTask(w)) # "none"
             THEN NextExpectedEvent(w, ActiveTask(w)) ELSE Phase(w, ActiveTask(w))
        [] ActiveTasks(w) = {} ->
             IF pending = {} THEN "none" ELSE "pending task"

BlockedTaskCount(w) == Cardinality({t \in Task : WaitsForResource(w, t)})

ActiveCommandCount(w) == Cardinality(w.live)

-----------------------------------------------------------------------------
(* Packages, robots and the transfer zone.                                 *)

PackageStatus(w, p) ==
  IF w.carrier[p] # NoRobot THEN "carried"
  ELSE CASE w.place[p] = "destination" -> "delivered"
         [] w.place[p] = Zone -> "at_transfer"
         [] w.place[p] = "source" -> "at_source"
         [] OTHER -> "in_transit"

DeliveredCount(w) == Cardinality({p \in Item : IsItemAt(w, p, "destination")})

IsMoving(w, t) == \E c \in w.live : c.task = t /\ c.kind = "move"

(* mission_state of robot r.                                               *)
RobotState(w, r) ==
  IF r \in w.paused THEN "paused"
  ELSE IF w.claim[r] = NoTask THEN "idle"
  ELSE IF w.status[w.claim[r]] = "BLOCKED" THEN "waiting"
  ELSE IF IsMoving(w, w.claim[r]) THEN "moving"
  ELSE "assigned"

RobotIssue(w, r) == IF w.claim[r] = NoTask THEN "none" ELSE Notes(w, w.claim[r])

ZoneStatus(w) == IF w.zone.occ # {} \/ w.zone.buf # {} THEN "occupied" ELSE "available"

LeaseOwner(w) == IF w.zone.lease = NoTask THEN NoRobot ELSE RobotOf(w.zone.lease)
=============================================================================
