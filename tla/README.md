# Verification of the MACMOI mission layer

MACMOI lets two TurtleBots hand packages over to each other: the upstream robot
`tb3_1` carries a package from the source to a transfer zone, the downstream
robot `tb3_2` from there to the destination. The zone has room for one robot
and one package. The program's own logic is the *mission layer*, the ROS 2
package `src/rmf_ws/src/mission_manager`; it decides which robot does what
next, and leaves driving to Open-RMF, Free Fleet and Nav2. This directory
specifies that layer in TLA+, checks it with TLC, and proves its main safety
properties with TLAPS. Paths below are relative to
`src/rmf_ws/src/mission_manager/mission_manager/` unless they begin with
`docs/`. The project falls into three specifications: the mission
(`MissionNode`), the way of its commands to RMF and the robots and back
(`CommandDispatch`), and the control of speeds (`SpeedScale`).

## 1. The system

### Components

| Component | State | Operations | What makes it correct |
|---|---|---|---|
| Mission definition (`mission_definition.py`, `mission_tasks.py`, `MissionManager.create_default`) | robots, waypoints, two tasks per package | construction | every package has a leg into the zone and one out of it |
| Resource manager (`resources.py`, `resource_manager.py`) | per zone: active lease, robots inside, buffered packages | `request_access`, `occupy`, `release`, `buffer_item`, `release_item` | one robot inside, with the lease; the books agree with the world |
| World (`world.py`) | robots: place, duty, claimed task, paused; packages: place, carrier | `assign`, `release`, `mark waiting`, `move`, `load`, `unload` | a package is in one place, a robot carries one |
| Execution manager (`execution_manager.py`) | commands and their status, a counter | create, mark submitted / running / terminal | one command per robot, ended once |
| Behaviour tree (`behavior_tree.py`, `transport_task_runner.py`) | per task: index of the child, acquired flags, retry counters | `start`, `advance`, `apply_command_success` | children run in order, once; nothing is handled where it cannot be |
| Scheduler (`scheduler.py`) | none | `next_ready_task` | an idle robot gets work that can be done |
| Mission manager (`mission_manager.py`) | mission status | nine event handlers, `_advance` | the mission ends, holds when paused, and is not stranded |
| Node (`mission_manager_node.py`) | the manager, pending speed-scale requests, the last 20 events | one callback per ROS topic | turns commands and results into events and dispatches what they return |
| RMF adapter (`rmf_adapter.py`) | requests and RMF task ids by command, completed RMF tasks | `submit_command`, `handle_api_response`, `command_from_completed_task` | a response is matched to its command, a completion recorded once |
| Speed scales (in the node and `RobotState`) | requested and confirmed speed, pending requests | `_handle_speed_scale_command`, `_handle_speed_scale_result` | the speed shown is the speed driven |
| Read model (`mission_serializer.py`) | none | state to JSON | what is shown as free is free, a failure is shown, progress shown never goes back |

Launch files, Free Fleet configuration, maps, navigation graphs and scripts
hold no logic of the program.

### How they interact

`rclpy.spin` runs one callback of the node at a time. A callback parses its
message, calls `MissionManager.handle_event`, and dispatches the execution
commands the handler returned: a move to RMF and to the execution side channel,
a load or unload to the side channel only. Results come back on
`mission_execution_results` at any later time. An operator starts, pauses,
resumes and aborts the mission, and pauses and resumes single robots, on
`mission_commands`. Pauses and aborts are asynchronous: the node *asks* for the
cancellation of the moves under way, and the robot's answer, which may be a
success, a failure or a cancellation, comes in a later callback, after any
other events. That is where the difficulty lies:

- a robot finishes, fails or misses its target while the mission, or it, is
  paused, or after the mission was aborted or failed;
- a cancellation arrives after the resume, or after another operator command;
- both robots compete for the zone; a robot may physically be inside although
  its move was cancelled or its arrival not verified;
- nothing has a timer: if a callback forgets to go on, the mission waits for
  ever, so each callback has to leave the mission able to continue.

- RMF's response to a move may come after the move's result, and results may
  come more than once.

There are no threads, so there is no data race to model. Nothing is persisted:
after a restart a new mission begins, and what is left of the previous run are
its messages and the robots. For speeds that is modelled (`Restart` in
`SpeedScale`). The command ids of the previous run are used again, which the
documents accept ("Command IDs reset on process restart"); `CommandDispatch`
covers one run of the node, and the case is listed as a hazard and in the plan.

## 2. The modules

| Module | Models |
|---|---|
| `MissionDefinition` | the mission's constants; the two orders on tasks (dictionary, and sorted ids, where `P10:` comes before `P1:`) |
| `ResourceManager` | the transfer zone: `Granted`, `GrantLease`, `Occupy`, `Release`, `BufferItem`, `ReleaseItem` |
| `MissionWorld` | the whole in-memory state as one record `w`, `InitialWorld`, the primitive updates of robots, packages, tasks and commands |
| `TransportTask` | the behaviour tree: one operator per child, `Tick`, `Start`, `ApplyCommandSuccess` |
| `TaskScheduler` | `ReadyTasks`, `StartNextReady` |
| `MissionManager` | the event handlers `HandleStart` ... `HandleAbort`, `Advance` |
| `MissionNode` | the specification: variables, one action per callback, fairness |
| `MissionSnapshot` | the read model: what the dashboard shows, as operators on a state `w` |
| `PackageHandoff` | an abstract specification: packages move source, `tb3_1`, transfer, `tb3_2`, destination; `FairSpec` adds that they keep moving |
| `TransferZone` | an abstract specification: who may be in the zone, when it may enter and when it may leave |
| `MissionProperties` | all properties, and the two refinement mappings |
| `MissionInvariant` | the inductive invariant `Inv` |
| `PackageInvariant` | its second layer `PackagesInv`: packages, books, blockers, commands |
| `ProgressInvariant` | its third layer: `MissionProgressInv`, `WorkInv` and `UnpausedInv` for operators that use pauses with care, or not at all, and `BlockersInv` for fewer than ten packages |
| `MCMission` | the module the TLC runs use |
| `MissionLemmas`, `TransportTaskProofs`, `MissionProofs` | the proofs about `Inv` |
| `PackageProofs`, `PackageTheorems` | the proofs about `PackagesInv`, and what rests on it: for the children of the tree, and for handlers and callbacks |
| `ProgressProofs` | the proofs about the third layer: why a running mission has something to do |
| `RmfAdapter` | the adapter's three tables as a record, its operations as operators on it |
| `CommandDispatch` | the specification of the dispatch: status of commands, adapter, RMF and executors; its properties and its invariant |
| `CommandLife` | the abstract specification: a command is opened once and closed once, with one outcome |
| `MCDispatch`, `DispatchProofs` | its TLC run, its proofs |
| `SpeedScale` | the control of speeds, its property and its invariant |
| `MCSpeed`, `SpeedProofs` | its TLC run, its proofs |

The first six modules, and `MissionSnapshot`, hold no variables. In the program one callback changes
the state in many small steps that nobody observes, so each function of the
code is an operator from a state to a state, named like the function, and an
action of `MissionNode` is the composition a callback runs. Each of them
EXTENDS the one above it in the table, as the code imports it. `MissionSnapshot`
EXTENDS `MissionManager`.

`MissionNode` and `CommandDispatch` look at the same callback
`_handle_execution_result` from two sides. `MissionNode` says what a result does
to the mission, and takes for granted that each command is answered once.
`CommandDispatch` leaves the mission out (any command may be dispatched at any
time) and shows why that may be taken for granted: through duplicated and
contradicting results and late RMF responses, the mission sees what
`CommandLife` says.

### Correspondence of the state

| Variable, field | Code |
|---|---|
| `world.mission` | `MissionRuntime.status` |
| `world.status`, `.active` | `TransportItemTask.status`, `.active_command_id` |
| `world.stage` | `bt_blackboard["transport_item.index"]`, restricted to children at which a tick can end |
| `world.acquired` | `bt_blackboard["pickup_resource_acquired"]` and `"dropoff_..."`; a task has one managed endpoint |
| `world.retries` | `bt_blackboard["arrival_retry:<target>"]` |
| `world.loc`, `.duty`, `.claim`, `.paused` | `RobotState.location`, `.status`, `.active_task_id`, `.paused` |
| `world.place`, `.carrier` | `PackageState.location`, `.carried_by` |
| `world.zone` | `ResourceState` of `transfer` |
| `world.live`, `.next` | the non-terminal `ExecutionManager.commands`, and its counter |
| `cancels` | cancel requests published and not answered yet (outside the program) |
| `visitors` | robots that may physically be in the zone (auxiliary): commanded into it and not verified to have arrived anywhere else since |
| `pauses` | counts the pauses for the bound `MaxPauses` (auxiliary) |
| `world.blocker` | `TransportItemTask.blocked_reason`, `.blocked_by` |

The mission layer never reads `blocked_reason`, `blocked_by`, `phase`,
`waiting_at` and `waiting_resource_id`; only the read model does. The first two
are kept (`world.blocker`), because they may be older than the state around
them. The other three follow from the child a task stands at and its robot's
duty (`Phase`, `WaitsForResource` in `MissionSnapshot`). Every callback that
changes the state ends with `_publish_mission_state`, so what is shown is a
function of the state and needs no variable.

| Variable, field of `CommandDispatch` | Code |
|---|---|
| `status` | `ExecutionCommand.status`; NEW stands for a command not created yet (PENDING is left in the callback that creates it) |
| `adapter.requests`, `.taskOf`, `.completed` | `command_id_by_request_id` (a request id is the mission's id and the command's), `command_id_by_rmf_task_id`, `completed_rmf_task_ids` |
| `acted` | how often `_process_execution_event` ran for a command (auxiliary) |
| `recorded` | how often `RmfTaskSummaryCompleted` was recorded for an RMF task (auxiliary) |
| `booked`, `decided` | which task RMF made for which request, which requests it decided (outside) |
| `responses`, `results` | messages in flight, as sets: any order, results again and again (outside) |

| Variable of `SpeedScale` | Code |
|---|---|
| `requested`, `confirmed` | `RobotState.requested_speed_scale`, `.speed_scale`, in hundredths |
| `pending`, `issued` | `pending_speed_scale_requests`, and the number of `uuid4` ids drawn |
| `known` | robots that confirmed a speed to the node that runs now (auxiliary); initially all, since robots start with the speed the node assumes |
| `restarts` | counts the restarts for the bound `MaxRestarts` (auxiliary) |
| `inbox`, `reports`, `received`, `actual` | the side channel and the robot (outside) |

### Correspondence of the actions

| Action | Callback |
|---|---|
| `OperatorStart` ... `OperatorRobotResume` | `_handle_operator_command` with that command, including `_request_active_move_cancellations` after a pause, a robot's pause or an abort |
| `ResultSucceeded` | `_handle_execution_result`, SUCCEEDED; for a move with a Nav2 source and a verified arrival |
| `ResultUnverified` | SUCCEEDED turned into the failure `arrival_not_verified` by `_move_completion_failure` |
| `ResultFailed` | FAILED, or a move's success from another source |
| `ResultCancelled` | CANCELLED with the reason of a request of the node |
| `ResultCancelledElsewhere` | CANCELLED for any other reason |

A result for a command that is unknown or terminal is dropped by the node
(`mission_manager_node.py:269-271`): a duplicate is a stuttering step here, and
an explicit message in `CommandDispatch`. Results with malformed JSON or
another mission id change nothing either. A response of RMF with malformed JSON
does: the request is taken out of the table (`rmf_adapter.py:82`) before
`json.loads` raises (`:86`), and since nothing catches that, `rclpy.spin` ends
and the node with it. In `CommandDispatch` this is a response that closes its
request like a rejection, in a behaviour that then takes no more steps; as the
module assumes no fairness, its properties hold up to that point, and what a
node that starts again would do is not modelled (section 6).

| Action of `CommandDispatch`, `SpeedScale` | Callback |
|---|---|
| `DispatchMove`, `DispatchHandling` | `_dispatch_commands` for one command. A callback may dispatch two; as separate steps they allow more interleavings than the code |
| `HandleApiResponse` | `_handle_api_response`, with the adapter's `handle_api_response` and `mark_running` |
| `HandleTaskSummary` | `_handle_task_summaries` for one completed task; a message with several is several steps, and may repeat at any time |
| `HandleExecutionResult` | `_handle_execution_result` up to the terminal status its event leads to |
| `Acknowledge`, `Accept`, `Reject`, `Answer` | outside: RMF and the executors |
| `RequestScale`, `ReceiveReport` | `_handle_speed_scale_command`, `_handle_speed_scale_result` |
| `Restart` | the node ends and `main` creates it anew, with default speeds and no pending request; messages and robots stay as they are |
| `TakeRequest`, `LoseRequest`, `LoseReport`, `RepeatReport` | outside: the robot, and a channel that keeps the order, loses messages, and repeats what came |

## 3. What is checked

The runs of the mission use `MCMission`, the others `MCDispatch` and `MCSpeed`.
Only `speed` switches the deadlock check off: the bound on its requests, not
the code, lets a behaviour stop.

| Run | Bounds | What it shows |
|---|---|---|
| `one_package` | 1 package, 1 retry, 2 pauses, all operator commands, all outcomes | `TypeOK`, the inductive invariant `Inv`, `ZoneExclusive`, `OneCommandPerRobot`, `HeldRobotOnlyRetries` (185 000 states) |
| `two_packages` | 2 packages, no retry, 2 pauses, all operator commands, failures and foreign cancellations | `ZoneBooksAgree`, `ActiveTaskOwnsRobot`, `HandlingIsPossible`, `SucceededLeavesNothing`, `CarrierOwnsPackage`; what the operator is shown (below); `StandstillIsCurable`; the refinements `ImplementsHandoff`, `ImplementsTransferZone`; and the second and the third layer of the inductive invariant, `PackagesInv` and `MissionProgressInv` (105 000) |
| `faulty_robots` | 2 packages, 1 retry, no operator after the start | `RunningMissionHasWork`, the inductive invariant `UnpausedInv`, and `MissionEnds` under fairness (315 000) |
| `long_mission` | 11 packages, robots that do what they are told | `MissionCompletes` and the refinement with progress `ImplementsFairHandoff`, under fairness; `CompletesWithItsTasks` (23 000) |
| `pauses` | 2 packages, 3 pauses of the mission or of robots, the mission resumed once the cancellations came, a robot at any time | `RunningMissionHasWork`, and `ResumedMissionFinishes` under fairness (52 000) |
| `dispatch` | 2 moves, 1 handling, 2 RMF tasks; every message in every order | `TypeOK`, `ActedOnce`, `DecisionsArrive`, and the refinement `ImplementsCommandLife` (612 000, with symmetry) |
| `speed` | 2 robots, 3 requests, 1 restart, scales at, within, below and above the limits | `TypeOK`, `ConfirmedIsActual`, the inductive invariant `Inv` (200 000) |

The bounds are large enough for the cases that matter: one package already
brings both robots to the zone at the same time (the downstream robot is sent
ahead while the package is on its way), so every contention of leases occurs;
two packages make the upstream robot wait for room in the buffer while the
downstream robot fetches the first package, and a third behaves like the
second; one retry reaches both the retry and the exhausted counter; two pauses
reach a pause during another pause's open cancellation, and a third adds a
robot's pause on top of two resumes; eleven packages is the smallest number for
which ids as strings (`P10`, `P11`, `P1`, `P2`, ...) order two packages before
`P1`. In `dispatch`, two moves and two RMF tasks are enough for a response or a
summary to be taken for another command's, and one handling for the other way
of dispatching. Three speed requests give one robot a refused, a lost and a
successful one in any order, or two robots requests at the same time, and one
restart leaves requests and reports of an earlier run among those of the next. Moves,
and RMF tasks, are interchangeable, and `dispatch` checks safety only, so
symmetry is sound there. The mission's robots are not interchangeable and its
packages are ordered: no symmetry there.

### What the operator is shown

The snapshot is drawn from the mission's books, while the physical world and the
blockers may be behind or ahead of them. Seven properties of `two_packages` say
what an operator may rely on all the same, whatever fails or is paused, resumed
or aborted:

| Property | What may be relied on |
|---|---|
| `DashboardIsTruthful` | a robot shown idle has no command, no package and is not in the zone; a zone shown available and unowned is empty; a robot shown waiting stands where it waits |
| `BlockersAreTruthful` | a blocked task shows a reason, and the right robot or package; a task let into the zone shows none |
| `BlockedWaitsForWork` | what a blocked task is shown to wait for belongs to work that is not finished. The reason itself may be out of date (it is written when the task asks, which the documents acknowledge); the end of that work asks again. For fewer than ten packages (below), and for these a theorem (section 4) |
| `FailureIsShown` | a failed mission shows a robot with the failure |
| `DependenciesAreKept` | the dependency shown for a second leg holds, although no code enforces it |
| `PhaseIsTruthful` | a mission shown complete is complete, one with work left is not shown idle |
| `ProgressNeverGoesBack` | neither the step nor the number of deliveries shown decreases, through late cancellations, resumes and aborts |

From ten packages on `BlockedWaitsForWork` fails. Tasks start in the order of
their ids as strings, `P10` before `P1`, but `_advance` looks at them in the
order of the dictionary and stops at the first that emits a command, where
`docs/mission-layer-architecture-1.md:538` says that it ticks all. With ten
packages, a start, a pause, a resume, and a pause and resume of a robot bring
about that the downstream task of `P1` emits while that of `P10` is still shown
to wait for what has come meanwhile, until the next event looks at it. With
fewer packages the two orders agree, and the task that emits is never the later
one's obstacle.

### Fairness

`Fairness` says that each robot's executor answers: it is not the case that a
robot has a command under way from some time on and none of its commands is
ever answered. It also says that the mission is started. The first is the
contract of the execution side channel, on which the code relies (it has no
timeouts); the second is `auto_start` or an operator. Neither the order of the
answers, nor the time, nor which answer it is, is restricted, and nothing is
assumed of the operator but what a property says (that nothing is paused from some time on).
No fairness is assumed in `CommandDispatch` and `SpeedScale`, which state safety
only. The start is `WF_vars(FirstStart)`. The executors' answers are weak
fairness too, written out: a command under way can always be answered, so
`CommandOpen(r)` stands for `ENABLED Answered(r)`, which TLC would evaluate by
running every callback once more in every state.

`PackageHandoff!FairSpec` asks for `WF_where(Next)`: as long as a package can go
forward, one does. It is implemented (`ImplementsFairHandoff`) where robots do
what they are told; with failures only `PackageHandoff!Spec` is.

### Where program and documentation disagree

Five runs expect a violation. Each property quotes what a document says, and the
run shows a behaviour of the code that contradicts it.

| Run | Document | What the code does |
|---|---|---|
| `v_retry_while_paused` | `docs/legacy-mission-layer-refactor-plan.md:390`, a paused mission does not dispatch new work | the retry of an unverified arrival is dispatched while the mission is paused (`mission_manager.py:177`) |
| `v_completion_missed` | `docs/mission-layer-architecture-1.md:788`, the mission completes when every task has succeeded | the last command completes during a pause; the resume checks for completion *before* it ticks the task that then succeeds (`:354`), and no event follows: the mission stays RUNNING |
| `v_resume_strands` | `docs/mission-layer-presentation-questions-and-justifications.md:555`, resume advances the mission | a resume before the pause's cancellation has come emits nothing, and the late cancellation returns `[]` (`:214-219`): the running mission has nothing under way. For a robot's pause the code does handle this order |
| `v_abort_undone` | `docs/mission-layer-architecture-1.md:699`, abort marks unfinished tasks CANCELLED | the cancellation of an earlier pause sets its task to RUNNING after the abort (`:215`) |
| `v_abort_overwritten` | `docs/mission-layer-architecture-1.md:172-178`, nothing leaves ABORTED | the move that was under way at the abort fails before the cancellation that the abort asked for comes, and the mission becomes FAILED (`:237`) |

`CompletesWithItsTasks` and `RunningMissionHasWork` hold in the passing runs
because these exclude the case: `long_mission` has no pauses, and `pauses`
resumes the mission only after the cancellations came. Under exactly these
conditions they are theorems (section 4), so they say nothing of an operator who
resumes too early, or of a completion during a pause. `StandstillIsCurable`
does: it is checked with impatient operators (`two_packages`) and proved for all
of them. A running mission that has lost its last command, as in
`v_resume_strands` or `v_completion_missed`, is not lost: no task waits for a
command that is gone, and a start, or a pause and a resume, gives a robot
something to do or, by the next start, completes the mission. None of the
disagreements is one of safety in the zone: `ZoneExclusive` holds through all of
them.

## 4. What is proved

`MissionProofs` proves, for every number of packages (1 to 99), of retries and
of pauses, every set of operator commands and of outcomes:

| Theorem | States |
|---|---|
| `Invariance` | `Spec => []Inv` |
| `TypeCorrect` | `Spec => []TypeOK` |
| `MutualExclusion` | `Spec => []ZoneExclusive` |
| `CommandsMatchTasks` | `Spec => []OneCommandPerRobot` |
| `TasksOwnRobots` | `Spec => []ActiveTaskOwnsRobot` |

and `PackageTheorems`, as generally,

| Theorem | States |
|---|---|
| `PackageInvariance` | `Spec => []PackagesInv` |
| `CarriersOwnPackages` | `Spec => []CarrierOwnsPackage` |
| `PackagesAreHandled` | `Spec => []HandlingIsPossible` |
| `BooksAreKept` | `Spec => []ZoneBooksAgree` |
| `SuccessLeavesNothing` | `Spec => []SucceededLeavesNothing` |
| `DependenciesHold` | `Spec => []DependenciesAreKept` |
| `FailuresAreShown` | `Spec => []FailureIsShown` |
| `BlockersHold` | `Spec => []BlockersAreTruthful` |
| `DashboardHolds` | `Spec => []DashboardIsTruthful` |
| `HeldRobotsOnlyRetry` | `Spec => HeldRobotOnlyRetries` |
| `ProgressIsKept` | `Spec => ProgressNeverGoesBack` |
| `MissionImplementsHandoff` | `Spec => ImplementsHandoff` |
| `MissionImplementsTransferZone` | `Spec => ImplementsTransferZone` |

They assume what the modules assume of the constants (`PackagesAssumption`,
`RetriesAssumption`, `NodeAssumption`) and nothing else.

**The invariant.** `ZoneExclusive` alone is not inductive: that the visitor
holds the lease depends on why it is there. `Inv` says of the state `w` of the
mission and the set `V` of visitors

- `TaskInv`: a task is between claiming and releasing its robot exactly when
  the robot's claim names it, tasks that run or are blocked are there, pending
  ones at the first child, idle robots unclaimed, and a robot is claimed only by
  a task of its own leg;
- `ZoneInv`: a task has acquired the zone exactly when it has the lease and
  stands at a child between acquiring and releasing; robots marked or located
  inside hold the lease;
- `CommandInv`: commands have different numbers below the counter, a command
  under way is its task's active one and vice versa, a move into the zone is
  under way only for a task at the child that drives in, and a task with a
  command stands at a child that has *not* reached its goal, so that a tick
  caused by the other robot's result cannot carry it past its own command;
- `VisitorInv`: a visitor is located in the zone, or its task stands at the
  child that drives into it. Cancelled and unverified moves leave the task
  there, which is why a robot that is half way in keeps its lease.

**The argument.** A callback is a composition, so the invariant is one about
states (`WorldInv(w, V)`), and the proof follows the code: `MissionLemmas`
shows that creating a command (`EmissionInv`) and an update that concerns a
single task (`UpdateInv`) keep it; `TransportTaskProofs` gives one lemma per
child of the tree, from the last to the first, up to `TickInv` and `StartInv`;
`MissionProofs` one lemma per handler and one step per
action, then the temporal conclusion. Before it was proved, `Inv` was checked by
TLC, and it still is (`one_package`).

**The second layer.** `Inv` knows nothing of packages. `PackageInv(w, V)` adds

- `OnTheWay` and `TaskFits`: a package lies only at the three places of its way,
  and how far it is (`Position`, 0 to 4) fits the child its two tasks stand at
  (`StageFits`). Only Load and Unload allow two positions: the command's success
  moves the package, and the child goes on in the same callback or, if the
  mission or the robot is held, in a later one;
- `BlockerFits`: a blocker belongs to a task that asks for the zone, and can
  block that task; a failure belongs to a task that is over;
- `BufferFits`: the zone's buffer holds exactly the packages whose first task is
  past Unload and whose second is not past Load, one at most, and none while
  another is brought or just after one was taken;
- `CommandFits`: a command under way is the one the child asks for, or the drive
  to the waiting place of a task that was let in meanwhile;
- `MissionFits`: a completed mission has only succeeded tasks, a failed one a
  failed task that still owns its robot;
- `VisitorsFit`: a robot located in the zone is a visitor, and one that still
  drives to its waiting place is not.

It is inductive together with `Inv`, and proved the same way: `UpdateFits` and
`EmissionFits` (`PackageProofs`) are the counterparts of `UpdateInv` and
`EmissionInv`, followed by one lemma per child of the tree and, in
`PackageTheorems`, one per handler and callback. The books and the world
disagree between the success of a handling and the tick that notes it; this is
why `BufferFits` speaks of stages and not of packages, and `LyingFacts` derives
from it what lies in the zone.

**Steps.** The action properties and the two refinements need to know what a
callback can do to the packages and the visitors. `NextFits` says it once:
every callback either leaves the packages alone, and only adds visitors (`QuietStep`), or is the success
of one command and changes what that command changes (`SuccessStep`); either
way no finished task is undone (`DoneKept`) and a held robot gets nothing but a
retry (`OnlyRetries`). From there

- `HandoffStep`: a load or unload is `Forward` of its package, with room on the
  robot (`RoomToLoad`) or in the zone (`RoomToUnload`); all else stutters;
- `ZoneStep`: a success outside takes a visitor away only when it has nothing
  left to do in the zone (`LeavesAfterBusiness`); whoever is sent in has
  (`ComesForBusiness`), and finds nobody there, or exchanges with the robot
  that leaves in the same callback (`VisitorAlone`);
- `ProgressIsKept` follows from `NothingUndone`: the sets of succeeded tasks and
  of delivered packages only grow, and are finite.

**The third layer.** The first two say what a mission never does; that a running
mission has something to do is a matter of what `_advance` leaves behind.
`ProgressProofs` proves

| Theorem | States |
|---|---|
| `ProgressInvariance` | `Spec => []MissionProgressInv` |
| `PhaseHolds` | `Spec => []PhaseIsTruthful` |
| `NoDeadlock` | `ResumesArePatient => (Spec => []RunningMissionHasWork)` |
| `StandstillHasCure` | `Spec => []StandstillIsCurable` |
| `UnpausedInvariance` | `NeverPaused => (Spec => []UnpausedInv)` |
| `CompletionIsSeen` | `NeverPaused => (Spec => []CompletesWithItsTasks)` |
| `BlockersInvariance` | `FewPackages => (Spec => []BlockersInv)` |
| `NoTaskWaitsInVain` | `FewPackages => (Spec => []BlockedWaitsForWork)` |

The hypotheses are the conditions under which the runs check the same
properties, and they cannot be dropped: `v_resume_strands` and
`v_completion_missed` show what happens without the first two, and from ten
packages on (`FewPackages` is `NumPackages < 10`) section 3 tells how a task
comes to wait for what has happened. `ResumesArePatient` says
that the mission is not paused, not resumed, or resumed only when the
cancellations of its pause came; robots may be paused and resumed at any time.

`MissionProgressInv` adds, for a mission that has neither ended nor been aborted
(`OrderInv`):

- the upstream robot brings the packages one after the other
  (`BroughtInOrder`), in the order of their ids as strings;
- the downstream robot is sent ahead only for a package on its way or in the
  zone, with no other there (`SentForTheNext`), and fetches them in the same
  order (`FetchedInOrder`);
- so a blocked task names a robot that holds the zone, its own package if that
  is missing there, or the package just before its own, which fills the zone
  (`ObstaclesAreNamed`);
- no task failed or was cancelled, and an unclaimed robot is idle;

that a running mission without pauses has a task in work until all succeeded
(`HasTask`), that nothing is under way before the start (`ReadyIsQuiet`), and
that what an abort asked to cancel is cancelled in a mission that is over
(`AbortIsOver`). The argument has two parts. A tick ends in one of three ways
(`TickOutcome`): the task has a command (`Working`), it was refused the zone and
is blocked (`Refused`), or it delivered (`Delivered`), and the reason of a
refusal holds (`Denial`). So if `_advance` emits nothing, every task it looked at was refused or delivered
(`TickRunnableOrder`); if all were refused, the order in which packages are
brought shows that the other robot is free and its next task can start
(`OnlyBringersWait`, `SomethingIsReady`), and it starts with a command
(`StartsSomething`). `AdvanceOrder` puts the two together.

`NoDeadlock` rests on the invariant `WorkInv` (lemma `WorkInvariance`), which
turns "a task in work" into "a command under way" (`HasWork`): a task
may be in work without a command only between a pause and the answer to its
cancellation, which is why the resume has to wait for the answers. For
`StandstillHasCure` it need not: whatever was lost, an advance of the mission
leaves work behind (`AdvanceOrder`), and a start is one. `UnpausedInv`
says that without pauses a running task has a command (`RunnersAreCommanded`),
so that no task succeeds in a tick after `_advance` looked whether all have.

`BlockersInv` speaks of what a refusal leaves behind. A refusal of this very
tick is right when it is written (`DeniedWaits`), and one step keeps an older
one right unless it finishes what the task waits for (`StepKeepsWaiting`). So
only a task that `_advance` does not look at, because one before it emitted,
can be left behind (`UntickedWaits`). With fewer than ten packages the tasks
are looked at in the order in which they were started (`OrdersAgree`), and then
the task that emits is either the obstacle itself or comes before it. Nor does
a task that is looked at later in the same advance finish what an earlier one
was refused for: it is about a later package (`NoLateDelivery`, `NoLateFetch`). The handlers that tick one task, or none,
keep the rest by `KeptWaiting`; an operator's event either advances the mission
(`AdvanceWaits`) or leaves it not running, or a robot paused.

**Dispatch.** `DispatchProofs` proves, for every set of moves, handlings and RMF
tasks:

| Theorem | States |
|---|---|
| `DispatchTypeCorrect` | `Spec => []TypeOK` |
| `EveryResultOnce` | `Spec => []ActedOnce` |
| `NoDecisionLost` | `Spec => []DecisionsArrive` |
| `DispatchImplementsLife` | `Spec => ImplementsCommandLife` |

They assume that a move is no handling and that `NoCommand` and `NoTask` are
none (`DispatchAssumption`, `AdapterAssumption`). `ActedOnce` and
`DecisionsArrive` need facts about what is in flight: messages belong to
commands that exist, RMF decides once on a command and its decision agrees with
its booking (`InFlightInv`), and no two tasks are booked for one command
(`BookingInv`). The refinement maps SUBMITTED and RUNNING to open; a late
response is then a stutter because it may change one into the other and
nothing else.

**Speeds.** `SpeedProofs` proves, for any robots, any scales asked for and any
numbers of requests and restarts:

| Theorem | States |
|---|---|
| `SpeedInvariance` | `Spec => []Inv` |
| `SpeedTypeCorrect` | `Spec => []TypeOK` |
| `SpeedShownIsDriven` | `Spec => []ConfirmedIsActual` |

They assume `SpeedAssumption` only. `ConfirmedIsActual` speaks of states in which
nothing is pending, so it says nothing about how these are reached. `Inv` does:

- `OrderInv`: what is under way between node and robot is in the order of the
  requests, and what is still to be taken is newer than what was reported;
- `PendingInv`: a report for a pending request comes from the right robot and
  has not come before, and a request in an inbox newer than a pending one is
  pending itself, so after the first confirmation no request of an earlier run
  can follow;
- `SpeedInv`: if shown and driven speed differ, the request that the robot
  applied last is pending, and every report that will still be believed is
  older than its own, or its own.

The ids never being used again (`IdsUsed`) is what carries these through a
restart; that a report is believed once (`pop` of the pending request) is what
carries them through its repetition. Each has its mutant.

**Only model-checked.** All liveness properties, with `ImplementsFairHandoff`: fairness is out of the prover's reach.
And the five disagreements of section 3, which are behaviours and not theorems.

## 5. Abstractions, and what is not modelled

- In the mission's model PENDING, SUBMITTED and RUNNING commands are one state:
  nothing in the mission layer distinguishes them. `CommandDispatch` does.
- RMF accepts or rejects a request once; a rejection and a response without a
  task id are one case, as the adapter treats them alike. A rejected move is
  not failed by the code, which the documents acknowledge: it stays SUBMITTED
  until an executor answers.
- In `SpeedScale` a robot takes its requests in order, and a report that comes
  again has come before. A report that is lost first and arrives after a newer
  one would make the speed shown wrong; the channel (reliable ROS topics, or
  nothing) does not do that.
- A command that ended is forgotten; the code keeps it only to recognise it as
  terminal.
- `request_access` can answer BLOCKED in general, not in this mission: both
  robots have a waiting place and every task an item.
- The loop of `_advance` visits two tasks at most, since a running or blocked
  task owns its robot (proved: `TasksOwnRobots`).
- The robots are outside `src/`. A command may get any accepted result at any
  time. That a verified arrival is where the robot is, is an assumption of
  `visitors`, as it is one of the program.
- In `MissionSnapshot` the text of a failure is one value, `command_failed`: the
  node never passes on an empty one. `TRANSFER_ROBOT_OCCUPIED` is modelled but
  never is the reason: a robot inside holds the lease, which is asked for
  first. Labels, wording, timestamps and the dump of all objects for debugging
  are left out, and so is the list of the last 20 events, which is shown as text.
- Not modelled: packaging, launch files, the configuration of Free Fleet, maps,
  navigation graphs and scripts. They have no state of their own, or configure
  programs outside this repository. Of the node, only the history of events is
  left out; of the robot executors, everything but what they may answer.

## 6. Plan

What is left:

1. A restart in `CommandDispatch`: a node that begins its command ids again while
   results of the previous run are in flight.
