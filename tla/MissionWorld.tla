---------------------------- MODULE MissionWorld ----------------------------
(***************************************************************************)
(* The in-memory state of one mission run and the primitive updates the    *)
(* mission layer makes to it: MissionRuntime with its tasks, MissionWorld  *)
(* (world.py) and the commands of the ExecutionManager                     *)
(* (execution_manager.py).                                                 *)
(*                                                                         *)
(* The state is one record, as it is one object graph in the program, and  *)
(* every operator below maps a state w to the state after the update.      *)
(*   mission      MissionRuntime.status                                    *)
(*   status       TransportItemTask.status                                 *)
(*   stage        the behaviour-tree index kept on the task's blackboard   *)
(*   active       TransportItemTask.active_command_id, NoCommand for None  *)
(*   acquired     the tasks whose blackboard says that they hold the zone  *)
(*   retries      the blackboard's arrival_retry counters, by target       *)
(*   blocker      blocked_reason and blocked_by of the task                *)
(*   loc, duty, claim, paused                                              *)
(*                RobotState.location, .status, .active_task_id, .paused   *)
(*   place, carrier                                                        *)
(*                PackageState.location, .carried_by                       *)
(*   zone         the ResourceState of the transfer zone                   *)
(*   live         the commands that are not in a terminal status; nothing  *)
(*                in the mission layer tells a terminal command from an    *)
(*                unknown one                                              *)
(*   next         the number the next command gets (ExecutionManager's     *)
(*                counter)                                                 *)
(***************************************************************************)
EXTENDS ResourceManager

NoCommand == 0
NoTarget == "none"

Kind == {"move", "load", "unload"}
Command == [id : Nat, task : Task, kind : Kind, target : Waypoint \cup {NoTarget}]

World ==
  [mission  : MissionStatus,
   status   : [Task -> TaskStatus],
   stage    : [Task -> Stage],
   active   : [Task -> Nat],
   acquired : SUBSET Task,
   retries  : [Task -> [Waypoint -> Nat]],
   blocker  : [Task -> Blocker],
   loc      : [Robot -> Waypoint],
   duty     : [Robot -> {"IDLE", "BUSY", "WAITING"}],
   claim    : [Robot -> Task \cup {NoTask}],
   paused   : SUBSET Robot,
   place    : [Item -> Waypoint],
   carrier  : [Item -> Robot \cup {NoRobot}],
   zone     : ZoneState,
   live     : SUBSET Command,
   next     : Nat]

(* create_default: robots at home, packages at the source, nothing begun.  *)
InitialWorld ==
  [mission  |-> "READY",
   status   |-> [t \in Task |-> "PENDING"],
   stage    |-> [t \in Task |-> "ClaimRobot"],
   active   |-> [t \in Task |-> NoCommand],
   acquired |-> {},
   retries  |-> [t \in Task |-> [x \in Waypoint |-> 0]],
   blocker  |-> [t \in Task |-> BlockedByNothing],
   loc      |-> [r \in Robot |-> HomeOf(r)],
   duty     |-> [r \in Robot |-> "IDLE"],
   claim    |-> [r \in Robot |-> NoTask],
   paused   |-> {},
   place    |-> [p \in Item |-> "source"],
   carrier  |-> [p \in Item |-> NoRobot],
   zone     |-> EmptyZone,
   live     |-> {},
   next     |-> 1]

-----------------------------------------------------------------------------
(* MissionWorld: robots and packages.                                      *)

(* A faulty variant of IsRobotAvailable: only pauses count.                *)
IsRobotUnpaused(w, r) == r \notin w.paused

IsRobotAvailable(w, r) == w.duty[r] = "IDLE" /\ r \notin w.paused

IsItemAt(w, p, x) == w.place[p] = x /\ w.carrier[p] = NoRobot

AssignRobot(w, t) ==
  [w EXCEPT !.duty[RobotOf(t)] = "BUSY", !.claim[RobotOf(t)] = t]

(* A faulty variant of ReleaseRobot: active_task_id is not reset.          *)
ReleaseRobotKeepingTask(w, t) == [w EXCEPT !.duty[RobotOf(t)] = "IDLE"]

ReleaseRobot(w, t) ==
  [w EXCEPT !.duty[RobotOf(t)] = "IDLE", !.claim[RobotOf(t)] = NoTask]

(* A faulty variant of MarkRobotWaiting: the waiting robot looks idle.     *)
MarkRobotIdle(w, t) ==
  [w EXCEPT !.duty[RobotOf(t)] = "IDLE", !.claim[RobotOf(t)] = t]

MarkRobotWaiting(w, t) ==
  [w EXCEPT !.duty[RobotOf(t)] = "WAITING", !.claim[RobotOf(t)] = t]

MoveRobot(w, r, x) == [w EXCEPT !.loc[r] = x]

LoadItem(w, r, p) == [w EXCEPT !.carrier[p] = r, !.place[p] = w.loc[r]]

UnloadItem(w, r, p, x) ==
  [w EXCEPT !.carrier[p] = IF @ = r THEN NoRobot ELSE @, !.place[p] = x]

-----------------------------------------------------------------------------
(* Tasks and commands.                                                     *)

SetStatus(w, t, s) == [w EXCEPT !.status[t] = s]

SetBlocker(w, t, b) == [w EXCEPT !.blocker[t] = b]

AtStage(w, t, s) == [w EXCEPT !.stage[t] = s]

AddCommand(w, t, kind, target) ==
  [w EXCEPT !.live = @ \cup {[id |-> w.next, task |-> t, kind |-> kind, target |-> target]},
            !.active[t] = w.next,
            !.next = @ + 1]

CreateMove(w, t, target) == AddCommand(w, t, "move", target)

(* A faulty variant of CreateHandling: the wrong kind of command.          *)
CreateHandlingAsMove(w, t, kind) == AddCommand(w, t, "move", NoTarget)

CreateHandling(w, t, kind) == AddCommand(w, t, kind, NoTarget)

(* _mark_terminal of a command that is not terminal yet.                   *)
MarkTerminal(w, c) == [w EXCEPT !.live = @ \ {c}]

ForgetCommand(w, t) == [w EXCEPT !.active[t] = NoCommand]

(* A handler that creates a command returns it, and the node dispatches    *)
(* every command a handler returns: emitting is creating.                  *)
Emitted(w, v) == v.next # w.next
=============================================================================
