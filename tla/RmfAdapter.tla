----------------------------- MODULE RmfAdapter -----------------------------
(***************************************************************************)
(* RmfAdapter (rmf_adapter.py): which mission command an RMF request and   *)
(* an RMF task belong to. Its state is a record with                       *)
(*   requests   the commands with a request that RMF has not decided on;   *)
(*              a request id is the mission id and the command id, so the  *)
(*              table command_id_by_request_id is the set of its commands  *)
(*   taskOf     command_id_by_rmf_task_id, NoCommand where it has no entry *)
(*   completed  completed_rmf_task_ids                                     *)
(* A response of RMF is a record of its type, the command of its request   *)
(* id, and the id of the task RMF booked, NoTask if it rejected the        *)
(* request or if the response names no task. One whose text is no JSON     *)
(* closes its request like a rejection; then json.loads raises and, as     *)
(* nothing catches it, the node ends: a behaviour that takes no more steps.*)
(***************************************************************************)
CONSTANTS Move, RmfTask, NoCommand, NoTask

ASSUME AdapterAssumption == NoCommand \notin Move /\ NoTask \notin RmfTask

Adapter ==
  [requests : SUBSET Move, taskOf : [RmfTask -> Move \cup {NoCommand}], completed : SUBSET RmfTask]

Response ==
  [type : {"ACKNOWLEDGE", "RESPONDING"}, command : Move, task : RmfTask \cup {NoTask}]

NewAdapter ==
  [requests |-> {}, taskOf |-> [x \in RmfTask |-> NoCommand], completed |-> {}]

SubmitCommand(a, c) == [a EXCEPT !.requests = @ \cup {c}]

(* Only a responding message to a known request is looked at.              *)
Decides(a, m) == m.type = "RESPONDING" /\ m.command \in a.requests

(* A faulty variant of HandleResponse: every message closes its request.   *)
HandleAnyResponse(a, m) ==
  IF m.task = NoTask THEN [a EXCEPT !.requests = @ \ {m.command}]
  ELSE IF ~ Decides(a, m) THEN a
  ELSE [a EXCEPT !.requests = @ \ {m.command}, !.taskOf[m.task] = m.command]

(* handle_api_response: the state afterwards ...                           *)
HandleResponse(a, m) ==
  IF ~ Decides(a, m) THEN a
  ELSE IF m.task = NoTask THEN [a EXCEPT !.requests = @ \ {m.command}]
  ELSE [a EXCEPT !.requests = @ \ {m.command}, !.taskOf[m.task] = m.command]

(* ... and whether it answers with the command, which then was accepted.   *)
Accepts(a, m) == Decides(a, m) /\ m.task # NoTask

(* command_from_completed_task answers with a command.                     *)
NewlyCompleted(a, x) == x \notin a.completed /\ a.taskOf[x] # NoCommand

(* A faulty variant of CompleteTask: the command in the place of the task. *)
CompleteTaskByCommand(a, x) ==
  IF NewlyCompleted(a, x) THEN [a EXCEPT !.completed = @ \cup {a.taskOf[x]}] ELSE a

CompleteTask(a, x) == IF NewlyCompleted(a, x) THEN [a EXCEPT !.completed = @ \cup {x}] ELSE a
=============================================================================
