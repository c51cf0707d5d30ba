-------------------------- MODULE MissionProperties --------------------------
(***************************************************************************)
(* What the mission layer is meant to guarantee, about the states and the  *)
(* steps of MissionNode.                                                   *)
(***************************************************************************)
EXTENDS MissionNode, MissionSnapshot

(* Every piece of the state has its type.                                  *)
TypeOK ==
  /\ world \in World
  /\ cancels \subseteq CancelRequest
  /\ visitors \subseteq Robot
  /\ pauses \in Nat

-----------------------------------------------------------------------------
(* The transfer zone.                                                      *)

HoldsLease(w, r) == w.zone.lease # NoTask /\ RobotOf(w.zone.lease) = r

(* Mutual exclusion in the transfer zone, in the physical world: a robot   *)
(* that was ever sent into the zone, and has not been verified to have     *)
(* arrived somewhere else since, holds the zone's one lease, whatever was  *)
(* cancelled, retried, paused, failed or aborted in between.               *)
ZoneExclusive == \A r \in visitors : HoldsLease(world, r)

(* The zone's books agree with the world whenever nobody holds the lease:  *)
(* no robot is marked inside, and the buffered packages are exactly those  *)
(* that lie in the zone, one at most. While the lease is held, only its    *)
(* holder is marked inside.                                                *)
LyingInZone(w) == {p \in Item : IsItemAt(w, p, Zone)}

ZoneBooksAgree ==
  /\ world.zone.occ \subseteq {r \in Robot : HoldsLease(world, r)}
  /\ world.zone.lease = NoTask => world.zone.buf = LyingInZone(world)
  /\ \A p, q \in LyingInZone(world) : p = q

-----------------------------------------------------------------------------
(* Commands and tasks.                                                     *)

(* A robot has at most one command under way, and it is the one its task   *)
(* waits for: no retry, cancellation or resume leaves an orphan behind or  *)
(* lets a task wait for a command that will not be answered.               *)
OneCommandPerRobot ==
  /\ \A c, d \in world.live : RobotOf(c.task) = RobotOf(d.task) => c = d
  /\ \A c \in world.live : world.active[c.task] = c.id
  /\ \A t \in Task : world.active[t] # NoCommand =>
       \E c \in world.live : c.id = world.active[t] /\ c.task = t

(* A task that is running or blocked, or has a command under way, owns its *)
(* robot; so no robot works for two tasks, even after tasks were cancelled *)
(* or came back from a cancellation.                                       *)
ActiveTaskOwnsRobot ==
  \A t \in Task :
    world.status[t] \in {"RUNNING", "BLOCKED"} \/ world.active[t] # NoCommand
      => world.claim[RobotOf(t)] = t

(* A package is handled only where it can be: a load is under way only     *)
(* with the robot at the pickup and the package lying there, an unload     *)
(* only with the robot at the dropoff and carrying the package; in the     *)
(* zone the robot is marked inside, and the buffer has the package to load *)
(* or is empty for the one to unload.                                      *)
HandlingIsPossible ==
  \A c \in world.live :
    LET r == RobotOf(c.task)
        p == ItemOf(c.task)
    IN  /\ c.kind = "load" =>
             /\ world.loc[r] = PickupOf(c.task)
             /\ IsItemAt(world, p, PickupOf(c.task))
             /\ PickupOf(c.task) = Zone => r \in world.zone.occ /\ p \in world.zone.buf
        /\ c.kind = "unload" =>
             /\ world.loc[r] = DropoffOf(c.task)
             /\ world.carrier[p] = r
             /\ DropoffOf(c.task) = Zone => r \in world.zone.occ /\ world.zone.buf = {}

(* A task that succeeded has let go of everything: its robot, the zone and *)
(* its commands, and its package is past the task's dropoff for good. A    *)
(* completed mission leaves nothing in the zone and nothing under way.     *)
SucceededLeavesNothing ==
  /\ \A t \in Task : world.status[t] = "SUCCEEDED" =>
       /\ world.claim[RobotOf(t)] # t /\ world.zone.lease # t /\ t \notin world.acquired
       /\ world.active[t] = NoCommand
       /\ world.place[ItemOf(t)] \in {Zone, "destination"}
       /\ world.carrier[ItemOf(t)] # RobotOf(t)
  /\ world.mission = "COMPLETED" =>
       /\ \A p \in Item : IsItemAt(world, p, "destination")
       /\ world.zone = EmptyZone
       /\ world.live = {}

(* A package that is carried is carried by the robot whose claimed task is *)
(* about that package, so a robot never carries two.                       *)
CarrierOwnsPackage ==
  \A p \in Item : world.carrier[p] # NoRobot =>
    ItemOf(world.claim[world.carrier[p]]) = p

-----------------------------------------------------------------------------
(* Steps.                                                                  *)

Held(w, r) == w.mission \in {"PAUSED", "ABORTED"} \/ r \in w.paused

NewCommands == world'.live \ world.live

(* While the mission is paused or aborted, or a robot is paused, the only  *)
(* command the robot can get is the retry of the move it was already       *)
(* making: the same task to the same target.                               *)
HeldRobotOnlyRetries ==
  [][\A d \in NewCommands :
       Held(world, RobotOf(d.task)) /\ Held(world', RobotOf(d.task)) =>
         \E c \in world.live \ world'.live :
           c.task = d.task /\ c.kind = "move" /\ d.kind = "move" /\ c.target = d.target]_vars

(* The packages' way through the mission is the one PackageHandoff         *)
(* promises.                                                               *)
PackageWhere ==
  [p \in Item |-> IF world.carrier[p] # NoRobot THEN world.carrier[p] ELSE world.place[p]]

Handoff == INSTANCE PackageHandoff WITH Package <- Item, where <- PackageWhere

ImplementsHandoff == Handoff!Spec

(* With robots that do what they are told the promise is kept with its     *)
(* progress: as long as a package can go forward, one does.                *)
ImplementsFairHandoff == Handoff!FairSpec

(* The robots' comings and goings in the zone, and the packages that lie   *)
(* there, are those that TransferZone promises.                            *)
TransferArea ==
  INSTANCE TransferZone WITH
    Package <- Item, Upstream <- UpstreamRobot, Downstream <- DownstreamRobot,
    inside <- visitors, contents <- LyingInZone(world)

ImplementsTransferZone == TransferArea!Spec

-----------------------------------------------------------------------------
(* Progress.                                                               *)

(* A running mission with no robot paused and a task unfinished always has *)
(* a command under way: otherwise no result can ever come to advance it.   *)
RunningMissionHasWork ==
  world.mission = "RUNNING" /\ world.paused = {} /\ ~ AllSucceeded(world)
    => world.live # {}

(* A running mission may lose its last command all the same: to the        *)
(* cancellation of a pause that was resumed too early, or when its last    *)
(* command completes during a pause and completion is looked for before    *)
(* the task is ticked. Then it is not lost: no task keeps waiting for the  *)
(* command that is gone, and the operator's start, or a pause and a        *)
(* resume, gives a robot something to do or, by the next start, completes  *)
(* the mission.                                                            *)
StandstillIsCurable ==
  world.mission = "RUNNING" /\ world.paused = {} /\ world.live = {} =>
    \A v \in {HandleStart(world), HandleResume(HandlePause(world))} :
      v.live # {} \/ HandleStart(v).mission = "COMPLETED"

(* With robots that do what they are told, every package is delivered and  *)
(* the mission completed, in whatever order the answers come.              *)
MissionCompletes ==
  <>(world.mission = "COMPLETED" /\ \A p \in Item : IsItemAt(world, p, "destination"))

(* With robots that fail or miss their targets a started mission still     *)
(* comes to an end: no retry goes on for ever and no task waits for one    *)
(* that is not to come.                                                    *)
MissionEnds == <>(world.mission \in {"COMPLETED", "FAILED"})

(* Pauses of the mission and of single robots, however they overlap, do    *)
(* not stop it for good: if from some time on nothing is paused, every     *)
(* task succeeds.                                                          *)
ResumedMissionFinishes ==
  <>[](world.mission # "PAUSED" /\ world.paused = {}) => <>AllSucceeded(world)

-----------------------------------------------------------------------------
(* What the operator is shown.                                             *)

CommandsOf(r) == {c \in world.live : RobotOf(c.task) = r}

(* What the dashboard shows as free is free in the physical world: a robot *)
(* shown idle has no command, carries nothing and is not in the zone, and  *)
(* a zone shown available and unowned is empty. A robot shown waiting      *)
(* stands at its waiting place, and one shown assigned does not move.      *)
DashboardIsTruthful ==
  /\ \A r \in Robot :
       /\ RobotState(world, r) = "idle" =>
            /\ CommandsOf(r) = {} /\ r \notin visitors
            /\ \A p \in Item : world.carrier[p] # r
       /\ RobotState(world, r) = "waiting" =>
            /\ CommandsOf(r) = {} /\ r \notin visitors
            /\ world.loc[r] = WaitWaypointOf(r)
       /\ RobotState(world, r) = "assigned" => \A c \in CommandsOf(r) : c.kind # "move"
  /\ ZoneStatus(world) = "available" /\ LeaseOwner(world) = NoRobot =>
       visitors = {} /\ LyingInZone(world) = {}

(* A blocker is shown as long as it blocks, and is the right one: a        *)
(* blocked task waits for the lease of the other robot, for its package or *)
(* for the room another package takes, and a task let into the zone shows  *)
(* no blocker any more.                                                    *)
BlockersAreTruthful ==
  /\ \A t \in Task : world.status[t] = "BLOCKED" =>
       /\ WaitsForResource(world, t)
       /\ \/ /\ world.blocker[t].reason = "WAITING_FOR_TRANSFER_LEASE"
             /\ world.blocker[t].robot # RobotOf(t)
          \/ /\ world.blocker[t].reason = "PACKAGE_NOT_AVAILABLE"
             /\ PickupOf(t) = Zone
          \/ /\ world.blocker[t].reason = "TRANSFER_PACKAGE_FULL"
             /\ world.blocker[t].item # ItemOf(t)
             /\ world.carrier[ItemOf(t)] = RobotOf(t)
  /\ \A t \in ActiveTasks(world) :
       ~ WaitsForResource(world, t) => world.blocker[t] = BlockedByNothing
  /\ \A t \in Task : world.status[t] = "BLOCKED" => CurrentBlocker(world) \in AccessReason

(* Blocked tasks are looked at again only when something else advances the *)
(* mission, so what a blocked task is shown to wait for may be over. In a  *)
(* running mission it is still part of a task that is not finished, the    *)
(* end of which looks at the blocked task again: the robot that held the   *)
(* lease is at a task, the missing package has not been delivered to the   *)
(* zone, nor the one that fills it to the destination.                     *)
(* That holds for fewer than ten packages only: from ten on tasks start in *)
(* another order than that in which they are looked at, and a resume may   *)
(* stop at one before it comes to the blocked one.                         *)
BlockedWaitsForWork ==
  \A t \in Task :
    LET b == world.blocker[t]
    IN  world.mission = "RUNNING" /\ world.paused = {} /\ world.status[t] = "BLOCKED" =>
          /\ b.reason = "WAITING_FOR_TRANSFER_LEASE" => world.claim[b.robot] # NoTask
          /\ b.reason = "PACKAGE_NOT_AVAILABLE" =>
               world.status[<<b.item, Inbound>>] # "SUCCEEDED"
          /\ b.reason = "TRANSFER_PACKAGE_FULL" =>
               world.status[<<b.item, Outbound>>] # "SUCCEEDED"

(* A failed mission shows which robot failed, and that robot is still the  *)
(* failed task's, with nothing under way, whatever else came afterwards.   *)
FailureIsShown ==
  world.mission = "FAILED" =>
    \E r \in Robot :
      /\ RobotIssue(world, r) = "command_failed"
      /\ NextExpectedEvent(world, world.claim[r]) = "operator intervention"
      /\ CommandsOf(r) = {}

(* The dependency shown for a task is kept: a robot is in the zone for a   *)
(* package, or past it, only when the task that brought the package is     *)
(* shown completed.                                                        *)
DependenciesAreKept ==
  \A t \in Task :
    Phase(world, t) # "NOT_STARTED" /\ ~ WaitsForResource(world, t) =>
      \A d \in Dependencies(t) : world.status[d] = "SUCCEEDED"

(* A mission shown complete has delivered everything and has nothing under *)
(* way, and a mission shown idle, or without a next step, is not one that  *)
(* runs with tasks unfinished and no robot paused.                         *)
PhaseIsTruthful ==
  /\ MissionPhase(world) = "mission_complete" =>
       /\ DeliveredCount(world) = NumPackages
       /\ \A p \in Item : PackageStatus(world, p) = "delivered"
       /\ ActiveCommandCount(world) = 0 /\ BlockedTaskCount(world) = 0
       /\ \A r \in Robot : RobotState(world, r) \in {"idle", "paused"}
  /\ world.mission = "RUNNING" /\ world.paused = {} /\ ~ AllSucceeded(world) =>
       MissionPhase(world) # "idle" /\ NextStep(world) # "none"

(* The progress shown never goes back: no step once done and no package    *)
(* once delivered is taken back, whatever comes late.                      *)
ProgressNeverGoesBack ==
  [][/\ CurrentStep(world') >= CurrentStep(world)
     /\ DeliveredCount(world') >= DeliveredCount(world)]_vars

-----------------------------------------------------------------------------
(* What the documentation says of the program and the program does not do. *)

(* docs/legacy-mission-layer-refactor-plan.md:390 "a paused mission does   *)
(* not dispatch new work".                                                 *)
PausedMissionDispatchesNothing ==
  [][world.mission = "PAUSED" /\ world'.mission = "PAUSED" => NewCommands = {}]_vars

(* docs/mission-layer-architecture-1.md:788 "The mission completes when    *)
(* every transport task has succeeded".                                    *)
CompletesWithItsTasks == world.mission = "RUNNING" => ~ AllSucceeded(world)

(* docs/mission-layer-architecture-1.md:699, aborting "marks unfinished    *)
(* tasks CANCELLED".                                                       *)
AbortedTasksStayCancelled ==
  world.mission = "ABORTED" =>
    \A t \in Task : world.status[t] \in {"SUCCEEDED", "CANCELLED"}

(* docs/mission-layer-architecture-1.md:172-178: no way leads out of       *)
(* ABORTED.                                                                *)
AbortIsFinal == [][world.mission = "ABORTED" => world'.mission = "ABORTED"]_vars
=============================================================================
