----------------------------- MODULE MissionNode -----------------------------
(***************************************************************************)
(* The mission manager node (mission_manager_node.py) and the robots it    *)
(* commands. rclpy.spin runs one callback at a time, so an action is a     *)
(* whole callback: the checks of the node, the handler of MissionManager   *)
(* and the dispatch of what the handler returned.                          *)
(*                                                                         *)
(* Outside src/ are the robots' executors (Free Fleet, Nav2 and the        *)
(* handling simulation). Of them the model says only that a command that   *)
(* is under way may at any time get any of the results the node accepts,   *)
(* and that a result of reason R cancels a move only after the node asked  *)
(* for a cancellation for that reason. A second result of the same command *)
(* finds it terminal and is dropped by the node, so a command is answered  *)
(* once.                                                                   *)
(***************************************************************************)
EXTENDS MissionManager

CONSTANTS
  OperatorCommands,   \* the operator commands that a behaviour may contain
  Outcomes,           \* the results, beside success, that a command may get
  PatientOperator,    \* TRUE: no resume while a pause's cancellation is open
  MaxPauses           \* bound: how many pauses a behaviour may contain

ASSUME NodeAssumption ==
  /\ OperatorCommands \subseteq
       {"start", "pause", "resume", "abort", "pause_robot", "resume_robot"}
  /\ Outcomes \subseteq {"arrival_not_verified", "failed", "cancelled"}
  /\ PatientOperator \in BOOLEAN
  /\ MaxPauses \in Nat

VARIABLES
  world,      \* the mission's state, a record of World
  cancels,    \* cancel requests the node published and nobody answered yet
  visitors,   \* the robots that may physically be in the zone: commanded
              \* into it and not seen to arrive anywhere else since
  pauses      \* how many pauses there were; counted for MaxPauses only

vars == <<world, cancels, visitors, pauses>>

CancelReason == {"operator_pause", "operator_robot_pause", "operator_abort"}
CancelRequest == [id : Nat, reason : CancelReason]

-----------------------------------------------------------------------------
(* What becomes of the variables when a callback turns the state into v.   *)

CommandedIntoZone(v) ==
  {RobotOf(c.task) : c \in {d \in v.live : d.kind = "move" /\ d.target = Zone}}

StillOpen(requests, v) == {q \in requests : \E c \in v.live : c.id = q.id}

(* arrived is the set of robots verified to be at a place outside the zone.*)
Becomes(v, requests, arrived) ==
  /\ world' = v
  /\ cancels' = StillOpen(requests, v)
  /\ visitors' = (visitors \ arrived) \cup CommandedIntoZone(v)

(* _request_active_move_cancellations.                                     *)
MoveCancellations(v, reason, robots) ==
  {[id |-> c.id, reason |-> reason] :
     c \in {d \in v.live : d.kind = "move" /\ RobotOf(d.task) \in robots}}

-----------------------------------------------------------------------------
(* Operator commands (_handle_operator_command). A pause, an abort and a   *)
(* robot's pause ask for the cancellation of the moves under way after the *)
(* event was handled, whether or not the event changed anything.           *)

CountPause == pauses < MaxPauses /\ pauses' = pauses + 1

OperatorStart ==
  /\ "start" \in OperatorCommands
  /\ Becomes(HandleStart(world), cancels, {})
  /\ UNCHANGED pauses

OperatorPause ==
  /\ "pause" \in OperatorCommands
  /\ CountPause
  /\ LET v == HandlePause(world)
     IN  Becomes(v, cancels \cup MoveCancellations(v, "operator_pause", Robot), {})

OperatorResume ==
  /\ "resume" \in OperatorCommands
  /\ PatientOperator => \A q \in cancels : q.reason # "operator_pause"
  /\ Becomes(HandleResume(world), cancels, {})
  /\ UNCHANGED pauses

OperatorAbort ==
  /\ "abort" \in OperatorCommands
  /\ LET v == HandleAbort(world)
     IN  Becomes(v, cancels \cup MoveCancellations(v, "operator_abort", Robot), {})
  /\ UNCHANGED pauses

OperatorRobotPause(r) ==
  /\ "pause_robot" \in OperatorCommands
  /\ CountPause
  /\ LET v == HandleRobotPause(world, r)
     IN  Becomes(v, cancels \cup MoveCancellations(v, "operator_robot_pause", {r}), {})

OperatorRobotResume(r) ==
  /\ "resume_robot" \in OperatorCommands
  /\ Becomes(HandleRobotResume(world, r), cancels, {})
  /\ UNCHANGED pauses

-----------------------------------------------------------------------------
(* Execution results (_handle_execution_result) of a command under way.    *)

LeavesZone(c) == c.kind = "move" /\ c.target # Zone

(* SUCCEEDED; for a move, from a Nav2 source and with a verified arrival.  *)
ResultSucceeded(c) ==
  Becomes(HandleCompleted(world, c), cancels,
          IF LeavesZone(c) THEN {RobotOf(c.task)} ELSE {})

(* SUCCEEDED, but _move_completion_failure turns it into a failure.        *)
ResultUnverified(c) ==
  /\ "arrival_not_verified" \in Outcomes
  /\ c.kind = "move"
  /\ Becomes(HandleFailed(world, c, "arrival_not_verified"), cancels, {})

(* FAILED, or a move's SUCCEEDED from an unsupported source.               *)
ResultFailed(c) ==
  /\ "failed" \in Outcomes
  /\ Becomes(HandleFailed(world, c, "failed"), cancels, {})

(* CANCELLED for the reason of one of the node's requests.                 *)
ResultCancelled(c) ==
  \E q \in cancels :
    /\ q.id = c.id
    /\ Becomes(HandleCancelled(world, c, q.reason), cancels, {})

(* CANCELLED for a reason of the executor's own.                           *)
ResultCancelledElsewhere(c) ==
  /\ "cancelled" \in Outcomes
  /\ Becomes(HandleCancelled(world, c, "cancelled"), cancels, {})

Result(c) ==
  /\ UNCHANGED pauses
  /\ \/ ResultSucceeded(c)
     \/ ResultUnverified(c)
     \/ ResultFailed(c)
     \/ ResultCancelled(c)
     \/ ResultCancelledElsewhere(c)

-----------------------------------------------------------------------------
Init ==
  /\ world = InitialWorld
  /\ cancels = {}
  /\ visitors = {}
  /\ pauses = 0

Next ==
  \/ OperatorStart
  \/ OperatorPause
  \/ OperatorResume
  \/ OperatorAbort
  \/ \E r \in Robot : OperatorRobotPause(r)
  \/ \E r \in Robot : OperatorRobotResume(r)
  \/ \E c \in world.live : Result(c)

Spec == Init /\ [][Next]_vars

-----------------------------------------------------------------------------
(* Weak fairness. A robot's executor answers every command it was given: a *)
(* result of a command under way is always possible, so "enabled" is       *)
(* CommandOpen, and weak fairness is written with that condition in the    *)
(* place of ENABLED, which TLC cannot evaluate for a whole callback in any *)
(* useful time. And the mission is started (auto_start, or the first start *)
(* of an operator); no other operator command is ever sure to come.        *)
CommandOpen(r) == \E c \in world.live : RobotOf(c.task) = r

Answered(r) == \E c \in world.live : RobotOf(c.task) = r /\ c \notin world'.live

FirstStart == world.mission = "READY" /\ OperatorStart

Fairness ==
  /\ \A r \in Robot : []<> ~ CommandOpen(r) \/ []<><<Answered(r)>>_vars
  /\ WF_vars(FirstStart)

FairSpec == Spec /\ Fairness
=============================================================================
