---------------------------- MODULE TaskScheduler ----------------------------
(***************************************************************************)
(* TransportTaskScheduler (scheduler.py): which pending task is started    *)
(* next.                                                                   *)
(***************************************************************************)
EXTENDS TransportTask

(* A faulty variant of CanWaitForPickup: whether the package is on its way *)
(* is not looked at.                                                       *)
CanWaitForAnyPickup(w, t) == PickupOf(t) = Zone

(* A robot may be sent ahead to wait for a package that is on its way,     *)
(* where the pickup is a resource with a waiting place for the robot.      *)
CanWaitForPickup(w, t) == PickupOf(t) = Zone /\ w.carrier[ItemOf(t)] # NoRobot

ManagedPickupAvailable(w, t) ==
  PickupOf(t) = Zone =>
    /\ w.zone.lease = NoTask
    /\ RobotSlotAvailable(w.zone)
    /\ ItemOf(t) \in w.zone.buf

IsReady(w, t) ==
  /\ w.status[t] = "PENDING"
  /\ IsRobotAvailable(w, RobotOf(t))
  /\ IF IsItemAt(w, ItemOf(t), PickupOf(t))
     THEN ManagedPickupAvailable(w, t)
     ELSE CanWaitForPickup(w, t)

ReadyTasks(w) == {t \in Task : IsReady(w, t)}

(* next_ready_task and the start of the task it returns, if any.           *)
StartNextReady(w) ==
  IF ReadyTasks(w) = {} THEN w ELSE Start(w, FirstInSorted(ReadyTasks(w)))
=============================================================================
