-------------------------- MODULE ProgressInvariant --------------------------
(***************************************************************************)
(* The third layer of the inductive invariant, on top of WorldInv and      *)
(* PackageInv: why a mission that runs has something to do. It says in     *)
(* what order the packages are brought to the transfer zone, that a robot  *)
(* waits in front of the zone only for the package that comes next, and    *)
(* which cancellations can be open in which status of the mission.         *)
(***************************************************************************)
EXTENDS PackageInvariant

(* A mission that has neither ended nor been given up.                     *)
IsGoing(w) == w.mission \in {"READY", "RUNNING", "PAUSED"}

NothingGivenUp(w) == \A t \in Task : w.status[t] \notin {"FAILED", "CANCELLED"}

UnclaimedIsIdle(w) == \A r \in Robot : w.claim[r] = NoTask => w.duty[r] = "IDLE"

(* The upstream robot takes the packages one after the other, in the order *)
(* in which the scheduler sees their ids.                                  *)
BroughtInOrder(w) ==
  \A p, q \in Item :
    SortKey(p) < SortKey(q) /\ w.stage[<<q, Inbound>>] # "ClaimRobot" =>
      w.stage[<<p, Inbound>>] = "Done"

(* The downstream robot is sent ahead only for a package that is on its    *)
(* way to the zone or there already, and no other lies in the zone then.   *)
SentForTheNext(w) ==
  \A p \in Item :
    w.stage[<<p, Outbound>>] = "RequestPickup" =>
      Position(w, p) >= 1 /\ w.zone.buf \subseteq {p}

(* It fetches them in the order in which they are brought.                 *)
FetchedInOrder(w) ==
  \A p, q \in Item :
    SortKey(p) < SortKey(q) /\ w.stage[<<q, Outbound>>] # "ClaimRobot" =>
      w.stage[<<p, Outbound>>] = "Done"

(* So a blocked task names a robot that holds the zone, or its own package *)
(* if that is missing there, or the one brought before, which fills it.    *)
IsPredecessor(q, p) ==
  /\ q \in Item /\ SortKey(q) < SortKey(p)
  /\ \A i \in Item : SortKey(i) < SortKey(p) => SortKey(i) <= SortKey(q)

NamesObstacle(b, t) ==
  /\ b.reason = "WAITING_FOR_TRANSFER_LEASE" => b.robot \in Robot
  /\ b.reason = "PACKAGE_NOT_AVAILABLE" => b.item = ItemOf(t)
  /\ b.reason = "TRANSFER_PACKAGE_FULL" => IsPredecessor(b.item, ItemOf(t))

ObstaclesAreNamed(w) ==
  \A t \in Task : w.status[t] = "BLOCKED" => NamesObstacle(w.blocker[t], t)

OrderInv(w) ==
  IsGoing(w) =>
    /\ NothingGivenUp(w)
    /\ UnclaimedIsIdle(w)
    /\ BroughtInOrder(w)
    /\ SentForTheNext(w)
    /\ FetchedInOrder(w)
    /\ ObstaclesAreNamed(w)

(* Between two callbacks a running mission with no robot paused has a task *)
(* in work until all have succeeded.                                       *)
HasTask(w) ==
  w.mission = "RUNNING" /\ w.paused = {} => AllSucceeded(w) \/ ActiveTasks(w) # {}

(* Nothing is under way before the start, and what an abort asked to be    *)
(* cancelled is cancelled in a mission that is over.                       *)
ReadyIsQuiet == world.mission = "READY" => world.live = {} /\ cancels = {}

AbortIsOver ==
  \A q \in cancels : q.reason = "operator_abort" => world.mission \in {"ABORTED", "FAILED"}

(* Inductive together with Inv and PackagesInv, whatever the operator does.*)
MissionProgressInv ==
  /\ OrderInv(world)
  /\ HasTask(world)
  /\ ReadyIsQuiet
  /\ AbortIsOver

-----------------------------------------------------------------------------
(* With operators that resume the mission only when the cancellations its  *)
(* pause asked for were answered, if ever.                                 *)
ResumesArePatient ==
  PatientOperator \/ "pause" \notin OperatorCommands \/ "resume" \notin OperatorCommands

HasWork(w) ==
  w.mission = "RUNNING" /\ w.paused = {} /\ ~ AllSucceeded(w) => w.live # {}

(* What a pause asked to be cancelled is cancelled by the time the mission *)
(* runs again. Inductive with the above if ResumesArePatient.              *)
WorkInv ==
  /\ HasWork(world)
  /\ world.mission = "RUNNING" => \A q \in cancels : q.reason # "operator_pause"
  /\ world.mission = "PAUSED" => "pause" \in OperatorCommands

-----------------------------------------------------------------------------
(* Without pauses.                                                         *)
NeverPaused == "pause" \notin OperatorCommands /\ "pause_robot" \notin OperatorCommands

(* A task that runs waits for a command, so that no tick but the one of a  *)
(* result can finish it.                                                   *)
RunnersAreCommanded(w) ==
  /\ w.mission = "RUNNING" => ~ AllSucceeded(w)
  /\ w.mission \in {"READY", "RUNNING"} =>
       \A t \in Task : w.status[t] = "RUNNING" => w.active[t] # NoCommand

(* Inductive with the above if NeverPaused.                                *)
UnpausedInv ==
  /\ RunnersAreCommanded(world)
  /\ world.mission # "PAUSED" /\ world.paused = {}
  /\ \A q \in cancels : q.reason = "operator_abort"

-----------------------------------------------------------------------------
(* With so few packages that the order in which tasks are looked at is the *)
(* one in which they start: what a task that is left blocked waits for is  *)
(* part of a task that is not finished.                                    *)
FewPackages == NumPackages < 10

WaitsForWork(w, t) ==
  LET b == w.blocker[t]
  IN  /\ b.reason = "WAITING_FOR_TRANSFER_LEASE" => w.claim[b.robot] # NoTask
      /\ b.reason = "PACKAGE_NOT_AVAILABLE" => w.status[<<b.item, Inbound>>] # "SUCCEEDED"
      /\ b.reason = "TRANSFER_PACKAGE_FULL" => w.status[<<b.item, Outbound>>] # "SUCCEEDED"

BlockersWait(w) == \A t \in Task : w.status[t] = "BLOCKED" => WaitsForWork(w, t)

(* Inductive with MissionProgressInv if FewPackages.                       *)
UnpausedBlockersWait(w) == w.mission = "RUNNING" /\ w.paused = {} => BlockersWait(w)

BlockersInv == UnpausedBlockersWait(world)
=============================================================================
