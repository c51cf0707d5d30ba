-------------------------- MODULE CommandDispatch --------------------------
(***************************************************************************)
(* The way of execution commands through the node and back: dispatch to    *)
(* RMF and to the execution side channel, RMF's responses and task         *)
(* summaries, and execution results (mission_manager_node.py,              *)
(* execution_manager.py, rmf_adapter.py).                                  *)
(*                                                                         *)
(* MissionNode is about what a result means for the mission, and has each  *)
(* command answered once. Here the mission is left out, it may dispatch a  *)
(* new command at any time, and the channels are modelled: RMF's responses *)
(* and the executors' results come in any order, results more than once    *)
(* and with contradicting outcomes (a success crossing a cancellation).    *)
(***************************************************************************)
EXTENDS RmfAdapter, Integers

CONSTANT Handling   \* the commands that load or unload; Move are the others

ASSUME DispatchAssumption == Move \cap Handling = {}

Command == Move \cup Handling
Terminal == {"SUCCEEDED", "FAILED", "CANCELLED"}
Status == {"NEW", "SUBMITTED", "RUNNING"} \cup Terminal

VARIABLES
  status,      \* ExecutionCommand.status; NEW before the command exists
  adapter,     \* the RmfAdapter
  acted,       \* acted[c]: how often the mission handled a result of c
  recorded,    \* recorded[x]: how often the completion of RMF task x was recorded
  booked,      \* outside: booked[x] is the command RMF made task x for
  decided,     \* outside: the requests RMF has answered for good
  responses,   \* in flight: RMF's responses
  results      \* in flight: results <<command, outcome>>, for ever

vars == <<status, adapter, acted, recorded, booked, decided, responses, results>>
external == <<booked, decided, responses, results>>

(* A faulty variant of IsTerminal: CANCELLED is missing from the set.      *)
IsTerminalUnlessCancelled(c) == status[c] \in {"SUCCEEDED", "FAILED"}

(* ExecutionCommand.is_terminal.                                           *)
IsTerminal(c) == status[c] \in Terminal

Init ==
  /\ status = [c \in Command |-> "NEW"]
  /\ adapter = NewAdapter
  /\ acted = [c \in Command |-> 0]
  /\ recorded = [x \in RmfTask |-> 0]
  /\ booked = [x \in RmfTask |-> NoCommand]
  /\ decided = {}
  /\ responses = {}
  /\ results = {}

-----------------------------------------------------------------------------
(* _dispatch_commands, for one command of the list.                        *)

DispatchMove(c) ==
  /\ status[c] = "NEW"
  /\ status' = [status EXCEPT ![c] = "SUBMITTED"]
  /\ adapter' = SubmitCommand(adapter, c)
  /\ UNCHANGED <<acted, recorded, external>>

DispatchHandling(c) ==
  /\ status[c] = "NEW"
  /\ status' = [status EXCEPT ![c] = "RUNNING"]
  /\ UNCHANGED <<adapter, acted, recorded, external>>

(* A faulty variant of MarkRunning: an accepted command runs, ended or not.*)
MarkRunningAlways(m) == [status EXCEPT ![m.command] = "RUNNING"]

(* What _handle_api_response does to the command RMF accepted.             *)
MarkRunning(m) ==
  IF IsTerminal(m.command) THEN status ELSE [status EXCEPT ![m.command] = "RUNNING"]

(* _handle_api_response.                                                   *)
HandleApiResponse(m) ==
  /\ responses' = responses \ {m}
  /\ adapter' = HandleResponse(adapter, m)
  /\ status' = IF Accepts(adapter, m) THEN MarkRunning(m) ELSE status
  /\ UNCHANGED <<acted, recorded, booked, decided, results>>

(* _handle_task_summaries, for one completed task.                         *)
HandleTaskSummary(x) ==
  /\ booked[x] # NoCommand
  /\ adapter' = CompleteTask(adapter, x)
  /\ recorded' = [recorded EXCEPT ![x] = @ + IF NewlyCompleted(adapter, x) THEN 1 ELSE 0]
  /\ UNCHANGED <<status, acted, external>>

(* _handle_execution_result: a result of a command that ended is dropped,  *)
(* any other is handed to the mission, which ends the command.             *)
HandleExecutionResult(c, outcome) ==
  /\ <<c, outcome>> \in results
  /\ ~ IsTerminal(c)
  /\ status' = [status EXCEPT ![c] = outcome]
  /\ acted' = [acted EXCEPT ![c] = @ + 1]
  /\ UNCHANGED <<adapter, recorded, external>>

-----------------------------------------------------------------------------
(* Outside. RMF acknowledges a request, and decides on it once; it may     *)
(* acknowledge late. An executor may answer a command it was sent.         *)

Acknowledge(c) ==
  /\ status[c] # "NEW"
  /\ responses' = responses \cup {[type |-> "ACKNOWLEDGE", command |-> c, task |-> NoTask]}
  /\ UNCHANGED <<status, adapter, acted, recorded, booked, decided, results>>

Accept(c, x) ==
  /\ status[c] # "NEW" /\ c \notin decided /\ booked[x] = NoCommand
  /\ booked' = [booked EXCEPT ![x] = c]
  /\ decided' = decided \cup {c}
  /\ responses' = responses \cup {[type |-> "RESPONDING", command |-> c, task |-> x]}
  /\ UNCHANGED <<status, adapter, acted, recorded, results>>

Reject(c) ==
  /\ status[c] # "NEW" /\ c \notin decided
  /\ decided' = decided \cup {c}
  /\ responses' = responses \cup {[type |-> "RESPONDING", command |-> c, task |-> NoTask]}
  /\ UNCHANGED <<status, adapter, acted, recorded, booked, results>>

Answer(c, outcome) ==
  /\ status[c] # "NEW"
  /\ results' = results \cup {<<c, outcome>>}
  /\ UNCHANGED <<status, adapter, acted, recorded, booked, decided, responses>>

-----------------------------------------------------------------------------
Next ==
  \/ \E c \in Move : DispatchMove(c) \/ Acknowledge(c) \/ Reject(c)
  \/ \E c \in Move, x \in RmfTask : Accept(c, x)
  \/ \E c \in Handling : DispatchHandling(c)
  \/ \E c \in Command, o \in Terminal : Answer(c, o) \/ HandleExecutionResult(c, o)
  \/ \E m \in responses : HandleApiResponse(m)
  \/ \E x \in RmfTask : HandleTaskSummary(x)

Spec == Init /\ [][Next]_vars

-----------------------------------------------------------------------------
(* Properties.                                                             *)

(* Every piece of the state has its type.                                  *)
TypeOK ==
  /\ status \in [Command -> Status]
  /\ adapter \in Adapter
  /\ acted \in [Command -> Nat]
  /\ recorded \in [RmfTask -> Nat]
  /\ booked \in [RmfTask -> Move \cup {NoCommand}]
  /\ decided \subseteq Move
  /\ responses \subseteq Response
  /\ results \subseteq Command \X Terminal

(* A command is opened and closed once, with one outcome, however late     *)
(* RMF's response comes and however many results there are: this is what   *)
(* MissionNode relies on.                                                  *)
Life == [c \in Command |-> IF status[c] = "RUNNING" THEN "SUBMITTED" ELSE status[c]]

Lifecycle == INSTANCE CommandLife WITH
  Outcome <- Terminal, Unopened <- "NEW", Open <- "SUBMITTED", life <- Life

ImplementsCommandLife == Lifecycle!Spec

(* The mission handles exactly one result of a command that ended and none *)
(* of any other, and the completion of an RMF task is recorded once at     *)
(* most, and only when RMF had accepted a command with it.                 *)
ActedOnce ==
  /\ \A c \in Command : acted[c] = IF IsTerminal(c) THEN 1 ELSE 0
  /\ \A x \in RmfTask : recorded[x] = IF x \in adapter.completed THEN 1 ELSE 0
  /\ \A x \in adapter.completed : booked[x] # NoCommand /\ adapter.taskOf[x] = booked[x]

(* The adapter knows an RMF task under the command RMF booked it for, and  *)
(* loses no decision: once the response that accepts a command is no       *)
(* longer in flight the task is known, and the command runs or has ended.  *)
(* A request is open as long as RMF has not decided or its decision is in  *)
(* flight.                                                                 *)
InFlight(c) == \E m \in responses : m.command = c /\ m.type = "RESPONDING"

DecisionsArrive ==
  /\ \A x \in RmfTask : adapter.taskOf[x] \in {NoCommand, booked[x]}
  /\ \A x \in RmfTask : booked[x] # NoCommand /\ ~ InFlight(booked[x]) =>
       adapter.taskOf[x] = booked[x] /\ status[booked[x]] # "SUBMITTED"
  /\ \A c \in Move : c \in adapter.requests <=>
       status[c] # "NEW" /\ (c \in decided => InFlight(c))

-----------------------------------------------------------------------------
(* The inductive invariant behind these. What is in flight belongs to      *)
(* commands that exist, RMF decides once on each, and its decision agrees  *)
(* with what it booked.                                                    *)
InFlightInv ==
  /\ \A p \in results : status[p[1]] # "NEW"
  /\ \A c \in decided : status[c] # "NEW"
  /\ \A m \in responses : status[m.command] # "NEW"
  /\ \A m \in responses : m.type = "RESPONDING" =>
       /\ m.command \in decided
       /\ m.task # NoTask => booked[m.task] = m.command
       /\ m.task = NoTask => \A x \in RmfTask : booked[x] # m.command
  /\ \A m, n \in responses :
       m.type = "RESPONDING" /\ n.type = "RESPONDING" /\ m.command = n.command => m = n

BookingInv ==
  /\ \A x \in RmfTask : booked[x] # NoCommand => booked[x] \in decided
  /\ \A x, y \in RmfTask : booked[x] = booked[y] /\ booked[x] # NoCommand => x = y

DispatchInv ==
  /\ TypeOK
  /\ ActedOnce
  /\ DecisionsArrive
  /\ InFlightInv
  /\ BookingInv
=============================================================================
