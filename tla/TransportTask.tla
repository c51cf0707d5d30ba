---------------------------- MODULE TransportTask ----------------------------
(***************************************************************************)
(* The behaviour tree of one transport task (behavior_tree.py,             *)
(* transport_task_runner.py).                                              *)
(*                                                                         *)
(* MemorySequence resumes at the child it stopped at and goes on with the  *)
(* next child while children succeed. Each operator below ticks the tree   *)
(* of task t from the child it is named for, so a child that succeeds is   *)
(* the operator of the next child applied to the updated state: one tick   *)
(* runs as far as the code does. The operators are defined from the last   *)
(* child to the first.                                                     *)
(***************************************************************************)
EXTENDS MissionWorld

(* A faulty variant of Drive: the command under way is not looked at.      *)
DriveAgain(w, t, target) == CreateMove(SetStatus(w, t, "RUNNING"), t, target)

(* MoveTo with the robot elsewhere: wait for the command under way, or     *)
(* command the move.                                                       *)
Drive(w, t, target) ==
  IF w.active[t] # NoCommand THEN w
  ELSE CreateMove(SetStatus(w, t, "RUNNING"), t, target)

(* HandleItem with the item not handled yet.                               *)
Handle(w, t, kind) ==
  IF w.active[t] # NoCommand THEN w
  ELSE CreateHandling(SetStatus(w, t, "RUNNING"), t, kind)

(* The children that update the zone do nothing unless the endpoint is the *)
(* zone and the task has acquired it.                                      *)
MarkOccupied(w, t, endpoint) ==
  IF endpoint # Zone \/ t \notin w.acquired THEN w
  ELSE [w EXCEPT !.zone = Occupy(@, RobotOf(t))]

(* A faulty variant of UpdateAfterLoad: the zone's books are not updated.  *)
UpdateAfterLoadForgotten(w, t) == w

UpdateAfterLoad(w, t) ==
  IF PickupOf(t) # Zone \/ t \notin w.acquired THEN w
  ELSE [w EXCEPT !.zone = ReleaseItem(@, ItemOf(t))]

UpdateAfterUnload(w, t) ==
  IF DropoffOf(t) # Zone \/ t \notin w.acquired THEN w
  ELSE [w EXCEPT !.zone = BufferItem(@, ItemOf(t))]

ReleaseResource(w, t, endpoint) ==
  IF endpoint # Zone \/ t \notin w.acquired THEN w
  ELSE [w EXCEPT !.zone = Release(@, RobotOf(t)), !.acquired = @ \ {t}]

(* A faulty variant of MustVacate: the comparison is the wrong way round.  *)
MustVacateAtExit(w, t, endpoint) ==
  endpoint = Zone /\ w.loc[RobotOf(t)] = ExitOf(RobotOf(t))

(* VacateResourceIfManaged: the robot has to drive out of the zone first.  *)
MustVacate(w, t, endpoint) ==
  endpoint = Zone /\ w.loc[RobotOf(t)] # ExitOf(RobotOf(t))

(* Drive to the waiting place, or wait there as a blocked task.            *)
WaitAtWaypoint(w, t) ==
  LET r == RobotOf(t)
  IN  IF w.loc[r] # WaitWaypointOf(r)
      THEN Drive(SetStatus(w, t, "RUNNING"), t, WaitWaypointOf(r))
      ELSE MarkRobotWaiting(SetStatus(w, t, "BLOCKED"), t)

(* RequestResourceAccess when the zone is not to be had now.               *)
WaitAtResourceWaypoint(w, t, purpose) ==
  WaitAtWaypoint(SetBlocker(w, t, Denial(w.zone, t, purpose)), t)

(* A faulty variant of Unblocked: what blocked the task is not forgotten.  *)
StillBlocked(w, t) == w

(* _clear_blocked_details.                                                 *)
Unblocked(w, t) == SetBlocker(w, t, BlockedByNothing)

(* RequestResourceAccess when it is granted.                               *)
Acquire(w, t) ==
  [AssignRobot(SetStatus(w, t, "RUNNING"), t) EXCEPT
     !.zone = GrantLease(@, t), !.acquired = @ \cup {t}]

-----------------------------------------------------------------------------
(* The second half of the tree: deliver the package.                       *)

MarkTaskSucceeded(w, t) == AtStage(SetStatus(w, t, "SUCCEEDED"), t, "Done")

VacateDropoff(w, t) ==
  IF MustVacate(w, t, DropoffOf(t)) THEN Drive(w, t, ExitOf(RobotOf(t)))
  ELSE MarkTaskSucceeded(ReleaseRobot(ReleaseResource(w, t, DropoffOf(t)), t), t)

IsUnloaded(w, t) == IsItemAt(w, ItemOf(t), DropoffOf(t))

Unload(w, t) ==
  IF ~ IsUnloaded(w, t) THEN Handle(w, t, "unload")
  ELSE VacateDropoff(AtStage(UpdateAfterUnload(w, t), t, "VacateDropoff"), t)

MoveToDropoff(w, t) ==
  IF w.loc[RobotOf(t)] # DropoffOf(t) THEN Drive(w, t, DropoffOf(t))
  ELSE Unload(AtStage(MarkOccupied(w, t, DropoffOf(t)), t, "Unload"), t)

RequestDropoff(w, t) ==
  IF DropoffOf(t) # Zone \/ t \in w.acquired
  THEN MoveToDropoff(AtStage(w, t, "MoveToDropoff"), t)
  ELSE IF Granted(w.zone, t, "dropoff")
  THEN MoveToDropoff(AtStage(Acquire(Unblocked(w, t), t), t, "MoveToDropoff"), t)
  ELSE WaitAtResourceWaypoint(w, t, "dropoff")

(* The first half of the tree: fetch the package.                          *)

VacatePickup(w, t) ==
  IF MustVacate(w, t, PickupOf(t)) THEN Drive(w, t, ExitOf(RobotOf(t)))
  ELSE RequestDropoff(AtStage(ReleaseResource(w, t, PickupOf(t)), t, "RequestDropoff"), t)

IsLoaded(w, t) == w.carrier[ItemOf(t)] = RobotOf(t)

Load(w, t) ==
  IF ~ IsLoaded(w, t) THEN Handle(w, t, "load")
  ELSE VacatePickup(AtStage(UpdateAfterLoad(w, t), t, "VacatePickup"), t)

MoveToPickup(w, t) ==
  IF w.loc[RobotOf(t)] # PickupOf(t) THEN Drive(w, t, PickupOf(t))
  ELSE Load(AtStage(MarkOccupied(w, t, PickupOf(t)), t, "Load"), t)

RequestPickup(w, t) ==
  IF PickupOf(t) # Zone \/ t \in w.acquired
  THEN MoveToPickup(AtStage(w, t, "MoveToPickup"), t)
  ELSE IF Granted(w.zone, t, "pickup")
  THEN MoveToPickup(AtStage(Acquire(Unblocked(w, t), t), t, "MoveToPickup"), t)
  ELSE WaitAtResourceWaypoint(w, t, "pickup")

ClaimRobot(w, t) ==
  IF w.claim[RobotOf(t)] = t THEN RequestPickup(AtStage(w, t, "RequestPickup"), t)
  ELSE IF w.duty[RobotOf(t)] # "IDLE" THEN w
  ELSE RequestPickup(AtStage(AssignRobot(SetStatus(w, t, "RUNNING"), t), t, "RequestPickup"), t)

-----------------------------------------------------------------------------
(* TransportTaskRunner.                                                    *)

(* advance: tick the tree from the child the task stopped at.              *)
Tick(w, t) ==
  CASE w.stage[t] = "ClaimRobot"     -> ClaimRobot(w, t)
    [] w.stage[t] = "RequestPickup"  -> RequestPickup(w, t)
    [] w.stage[t] = "MoveToPickup"   -> MoveToPickup(w, t)
    [] w.stage[t] = "Load"           -> Load(w, t)
    [] w.stage[t] = "VacatePickup"   -> VacatePickup(w, t)
    [] w.stage[t] = "RequestDropoff" -> RequestDropoff(w, t)
    [] w.stage[t] = "MoveToDropoff"  -> MoveToDropoff(w, t)
    [] w.stage[t] = "Unload"         -> Unload(w, t)
    [] w.stage[t] = "VacateDropoff"  -> VacateDropoff(w, t)
    [] OTHER                         -> w

Start(w, t) == Tick(SetStatus(w, t, "RUNNING"), t)

IsActiveCommand(w, c) == w.active[c.task] = c.id

(* apply_command_success, for a command that is the active one of its task.*)
CommandEffect(w, c) ==
  LET r == RobotOf(c.task)
      p == ItemOf(c.task)
  IN  CASE c.kind = "move"   -> MoveRobot(w, r, c.target)
        [] c.kind = "load"   -> LoadItem(w, r, p)
        [] c.kind = "unload" -> UnloadItem(w, r, p, DropoffOf(c.task))

ApplyCommandSuccess(w, c) ==
  IF IsActiveCommand(w, c) THEN CommandEffect(ForgetCommand(w, c.task), c) ELSE w
=============================================================================
