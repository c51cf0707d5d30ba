--------------------------- MODULE PackageProofs ---------------------------
(***************************************************************************)
(* A tick of a task's behaviour tree keeps the second layer PackageInv of  *)
(* the inductive invariant and touches nothing but the task's own affairs. *)
(* The lemmas follow the operators of TransportTask, from the last child   *)
(* to the first, as those of TransportTaskProofs do for WorldInv.          *)
(***************************************************************************)
EXTENDS MissionProofs, PackageInvariant

(* The other robot is as busy as before.                                   *)
OtherDutiesKept(w, v, t) == \A r \in Robot \ {RobotOf(t)} : v.duty[r] = w.duty[r]

(* What a tick of task t leaves as it is: robots, packages, pauses, the    *)
(* mission and the other tasks; and it takes no command back.              *)
TaskStep(w, v, t) ==
  /\ v.loc = w.loc /\ v.place = w.place /\ v.carrier = w.carrier
  /\ v.paused = w.paused /\ v.mission = w.mission
  /\ \A u \in Task \ {t} :
       /\ v.status[u] = w.status[u] /\ v.stage[u] = w.stage[u]
       /\ v.active[u] = w.active[u] /\ v.blocker[u] = w.blocker[u]
  /\ OtherDutiesKept(w, v, t)
  /\ w.live \subseteq v.live
  /\ \A c \in v.live : c \in w.live \/ c.task = t

LEMMA TaskStepTransitive ==
  ASSUME NEW u, NEW v, NEW w, NEW t, TaskStep(u, v, t), TaskStep(v, w, t)
  PROVE  TaskStep(u, w, t)
BY DEF TaskStep, OtherDutiesKept

LEMMA TaskStepReflexive ==
  ASSUME NEW w, NEW t
  PROVE  TaskStep(w, w, t)
BY DEF TaskStep, OtherDutiesKept

(* What a task at work, which is neither over nor shown as failed, has to  *)
(* do with the packages.                                                   *)
AtWork(w, t) == w.stage[t] # "Done" /\ w.blocker[t].reason # "command_failed"

(* A step of task t keeps PackageInv if it keeps what PackageInv says of   *)
(* that task, of its commands and of the buffer.                           *)
LEMMA UpdateFits ==
  ASSUME NEW w, NEW V, WorldInv(w, V), PackageInv(w, V),
         NEW t \in Task, AtWork(w, t), NEW v, TaskStep(w, v, t),
         \A r \in w.zone.occ : r \in v.zone.occ \/ (r = RobotOf(t) /\ Engaged(w, t)),
         TaskFits(v, t), BlockerFits(v, t), BufferFits(v),
         \A c \in v.live : c.task = t =>
            CommandFits(v, c) /\ (IsWaitMove(v, c) => RobotOf(t) \notin V)
  PROVE  PackageInv(v, V)
<1>1. TaskInv(w)
  BY DEF WorldInv
<1>2. \A p \in Item : OnTheWay(v, p) /\ Position(v, p) = Position(w, p)
  BY DEF PackageInv, OnTheWay, Position, TaskStep
<1>3. ASSUME NEW u \in Task \ {t} PROVE TaskFits(v, u) /\ BlockerFits(v, u)
  <2>1. TaskFits(w, u) /\ BlockerFits(w, u) /\ ItemOf(u) \in Item
    BY TaskFacts DEF PackageInv
  <2>2. /\ v.status[u] = w.status[u] /\ v.stage[u] = w.stage[u]
        /\ v.active[u] = w.active[u] /\ v.blocker[u] = w.blocker[u]
        /\ v.loc = w.loc
    BY DEF TaskStep
  <2>3. w.stage[u] \in ZoneStages(u) \ {ApproachStage(u)} => RobotOf(u) \in v.zone.occ
    <3>1. SUFFICES ASSUME w.stage[u] \in ZoneStages(u) \ {ApproachStage(u)}
                   PROVE  RobotOf(u) \in v.zone.occ
      OBVIOUS
    <3>2. RobotOf(u) \in w.zone.occ /\ Engaged(w, u)
      BY <2>1, <3>1 DEF TaskFits, Engaged, ZoneStages
    <3>3. ~ (RobotOf(u) = RobotOf(t) /\ Engaged(w, t))
      BY <1>1, <3>2, EngagedAlone
    <3> QED
      BY <3>2, <3>3
  <2>4. Position(v, ItemOf(u)) = Position(w, ItemOf(u))
    BY <1>2, <2>1
  <2>5. TaskFits(v, u)
    BY <2>1, <2>2, <2>3, <2>4 DEF TaskFits
  <2>6. BlockerFits(v, u)
    BY <2>1, <2>2 DEF BlockerFits
  <2> QED
    BY <2>5, <2>6
<1>4. ASSUME NEW c \in v.live
      PROVE  CommandFits(v, c) /\ (IsWaitMove(v, c) => RobotOf(c.task) \notin V)
  <2>1. CASE c.task = t
    BY <2>1
  <2>2. CASE c.task # t
    <3>1. c \in w.live
      BY <2>2 DEF TaskStep
    <3>2. c.task \in Task \ {t}
      BY <2>2, <3>1, LiveCommandFacts
    <3>3. v.stage[c.task] = w.stage[c.task]
      BY <3>2 DEF TaskStep
    <3>4. CommandFits(w, c) /\ (IsWaitMove(w, c) => RobotOf(c.task) \notin V)
      BY <3>1 DEF PackageInv, VisitorsFit
    <3> QED
      BY <3>3, <3>4 DEF CommandFits, MoveFits, IsWaitMove
  <2> QED
    BY <2>1, <2>2
<1>5. MissionFits(v)
  <2>1. v.mission = w.mission /\ MissionFits(w)
    BY DEF TaskStep, PackageInv
  <2>2. w.status[t] # "SUCCEEDED"
    BY DEF AtWork, PackageInv, TaskFits
  <2>3. w.mission # "COMPLETED"
    BY <2>1, <2>2 DEF MissionFits, AllSucceeded
  <2>4. ASSUME w.mission = "FAILED" PROVE \E x \in Task : HasFailed(v, x)
    <3>1. PICK x \in Task : HasFailed(w, x)
      BY <2>1, <2>4 DEF MissionFits
    <3>2. x # t
      BY <3>1 DEF HasFailed, AtWork
    <3>3. HasFailed(v, x)
      BY <3>1, <3>2 DEF HasFailed, TaskStep, Engaged
    <3> QED
      BY <3>3
  <2> QED
    BY <2>1, <2>3, <2>4 DEF MissionFits
<1>6. VisitorsFit(v, V)
  BY <1>4 DEF VisitorsFit, PackageInv, TaskStep
<1> QED
  BY <1>2, <1>3, <1>4, <1>5, <1>6 DEF PackageInv

(* The buffer keeps fitting while nothing is put in or taken out, by the   *)
(* books as by the stages.                                                 *)
LEMMA BufferKept ==
  ASSUME NEW w, BufferFits(w), NEW t \in Task, NEW v, v.zone.buf = w.zone.buf,
         \A u \in Task \ {t} : v.stage[u] = w.stage[u],
         LegOf(t) = Inbound => (v.stage[t] \in BroughtStages <=> w.stage[t] \in BroughtStages),
         LegOf(t) = Outbound => (v.stage[t] \in UnfetchedStages <=> w.stage[t] \in UnfetchedStages),
         v.stage[t] \in EmptyBufferStages(t) => w.zone.buf = {}
  PROVE  BufferFits(v)
<1>1. ASSUME NEW p \in Item PROVE IsBuffered(v, p) <=> IsBuffered(w, p)
  <2>1. /\ <<p, Inbound>> \in Task /\ LegOf(<<p, Inbound>>) = Inbound
        /\ <<p, Outbound>> \in Task /\ LegOf(<<p, Outbound>>) = Outbound
    BY DEF Task, Leg, LegOf
  <2> QED
    BY <2>1 DEF IsBuffered
<1>2. \A u \in Task : v.stage[u] \in EmptyBufferStages(u) => v.zone.buf = {}
  BY DEF BufferFits
<1> QED
  BY <1>1, <1>2 DEF BufferFits

(* A task without a command has none under way.                            *)
LEMMA IdleHasNoCommand ==
  ASSUME NEW w, NEW V, WorldInv(w, V), NEW t \in Task, w.active[t] = NoCommand
  PROVE  \A c \in w.live : c.task # t
BY DEF WorldInv, CommandInv

(* The affairs of a task are what Reshape gives new values to.             *)
LEMMA ReshapeStep ==
  ASSUME NEW w \in World, NEW t \in Task, NEW st \in TaskStatus, NEW sg \in Stage,
         NEW dt \in {"IDLE", "BUSY", "WAITING"}, NEW cl \in {t, NoTask},
         NEW z \in ZoneState, NEW acq \in SUBSET Task, NEW v,
         v = Reshape(w, t, st, sg, dt, cl, z, acq)
  PROVE  /\ TaskStep(w, v, t)
         /\ v.live = w.live /\ v.active = w.active /\ v.blocker = w.blocker
         /\ v.zone = z /\ v.acquired = acq /\ v.status[t] = st /\ v.stage[t] = sg
         /\ \A u \in Task \ {t} : v.stage[u] = w.stage[u]
<1>1. v.blocker = w.blocker /\ v.paused = w.paused /\ v.mission = w.mission
  BY DEF Reshape, World
<1>2. /\ v.live = w.live /\ v.active = w.active
      /\ v.loc = w.loc /\ v.place = w.place /\ v.carrier = w.carrier
      /\ v.zone = z /\ v.acquired = acq /\ v.status[t] = st /\ v.stage[t] = sg
      /\ \A u \in Task \ {t} : v.status[u] = w.status[u] /\ v.stage[u] = w.stage[u]
      /\ OtherDutiesKept(w, v, t)
  BY ReshapeFields DEF OtherDutiesKept
<1> QED
  BY <1>1, <1>2 DEF TaskStep

(* A task at work gets a command that its stage asks for.                  *)
LEMMA EmissionFits ==
  ASSUME NEW w, NEW V, WorldInv(w, V), PackageInv(w, V),
         NEW t \in Task, AtWork(w, t), Engaged(w, t), w.active[t] = NoCommand,
         NEW kind \in Kind, NEW target \in Waypoint \cup {NoTarget},
         kind = "load" => w.stage[t] = "Load",
         kind = "unload" => w.stage[t] = "Unload",
         kind = "move" => MoveFits(w, t, target),
         kind = "move" /\ target = WaitWaypointOf(RobotOf(t))
           /\ w.stage[t] \in {RequestStage(t), ApproachStage(t)} => RobotOf(t) \notin V,
         w.stage[t] = RequestStage(t) => w.loc[RobotOf(t)] # WaitWaypointOf(RobotOf(t)),
         NEW v, v = AddCommand(SetStatus(w, t, "RUNNING"), t, kind, target)
  PROVE  PackageInv(v, V) /\ TaskStep(w, v, t)
<1> DEFINE c == [id |-> w.next, task |-> t, kind |-> kind, target |-> target]
<1>1. w \in World
  BY DEF WorldInv
<1>2. /\ v.status = [w.status EXCEPT ![t] = "RUNNING"]
      /\ v.live = w.live \cup {c}
      /\ v.active = [w.active EXCEPT ![t] = w.next]
      /\ v.stage = w.stage /\ v.zone = w.zone /\ v.blocker = w.blocker
      /\ v.loc = w.loc /\ v.place = w.place /\ v.carrier = w.carrier
      /\ v.paused = w.paused /\ v.mission = w.mission
      /\ OtherDutiesKept(w, v, t)
  BY <1>1 DEF AddCommand, SetStatus, World, OtherDutiesKept
<1>3. c.task = t /\ c.kind = kind /\ c.target = target
  OBVIOUS
<1> HIDE DEF c
<1>4. /\ v.status[t] = "RUNNING"
      /\ \A u \in Task \ {t} : v.status[u] = w.status[u] /\ v.active[u] = w.active[u]
  BY <1>1, <1>2, WorldFields
<1>5. TaskStep(w, v, t)
  BY <1>2, <1>3, <1>4 DEF TaskStep
<1>6. TaskFits(w, t) /\ BlockerFits(w, t) /\ BufferFits(w)
  BY DEF PackageInv
<1>7. TaskFits(v, t)
  <2>1. Position(v, ItemOf(t)) = Position(w, ItemOf(t))
    BY <1>2 DEF Position
  <2>2. w.stage[t] # "Done"
    BY DEF AtWork
  <2> QED
    BY <1>2, <1>4, <1>6, <2>1, <2>2 DEF TaskFits
<1>8. BlockerFits(v, t)
  BY <1>2, <1>4, <1>6 DEF BlockerFits, AtWork
<1>9. BufferFits(v)
  BY <1>2, <1>6 DEF BufferFits, IsBuffered
<1>10. ASSUME NEW d \in v.live, d.task = t
       PROVE  CommandFits(v, d) /\ (IsWaitMove(v, d) => RobotOf(t) \notin V)
  <2>1. d = c
    BY <1>2, <1>10, IdleHasNoCommand
  <2> QED
    BY <1>2, <1>3, <2>1 DEF CommandFits, MoveFits, IsWaitMove
<1> QED
  BY <1>2, <1>5, <1>7, <1>8, <1>9, <1>10, UpdateFits

(* MoveTo: nothing, or the move to where the stage sends the robot.        *)
LEMMA DriveFits ==
  ASSUME NEW w, NEW V, WorldInv(w, V), PackageInv(w, V),
         NEW t \in Task, AtWork(w, t), Engaged(w, t),
         NEW target \in Waypoint, MoveFits(w, t, target),
         target = WaitWaypointOf(RobotOf(t))
           /\ w.stage[t] \in {RequestStage(t), ApproachStage(t)} => RobotOf(t) \notin V,
         w.stage[t] = RequestStage(t) => w.loc[RobotOf(t)] # WaitWaypointOf(RobotOf(t))
  PROVE  PackageInv(Drive(w, t, target), V) /\ TaskStep(w, Drive(w, t, target), t)
<1>1. CASE w.active[t] # NoCommand
  BY <1>1, TaskStepReflexive DEF Drive
<1>2. CASE w.active[t] = NoCommand
  <2>1. "move" \in Kind
    BY DEF Kind
  <2> QED
    BY <1>2, <2>1, EmissionFits DEF Drive, CreateMove
<1> QED
  BY <1>1, <1>2

(* HandleItem: nothing, or the load or unload the stage is for.            *)
LEMMA HandleFits ==
  ASSUME NEW w, NEW V, WorldInv(w, V), PackageInv(w, V),
         NEW t \in Task, AtWork(w, t), NEW kind,
         \/ kind = "load" /\ w.stage[t] = "Load"
         \/ kind = "unload" /\ w.stage[t] = "Unload"
  PROVE  PackageInv(Handle(w, t, kind), V) /\ TaskStep(w, Handle(w, t, kind), t)
<1>1. CASE w.active[t] # NoCommand
  BY <1>1, TaskStepReflexive DEF Handle
<1>2. CASE w.active[t] = NoCommand
  <2>1. /\ kind \in Kind /\ kind # "move" /\ Engaged(w, t)
        /\ w.stage[t] # RequestStage(t)
    BY DEF Kind, Engaged, RequestStage
  <2>2. NoTarget \in Waypoint \cup {NoTarget}
    OBVIOUS
  <2> HIDE DEF Handle
  <2>3. PackageInv(AddCommand(SetStatus(w, t, "RUNNING"), t, kind, NoTarget), V)
        /\ TaskStep(w, AddCommand(SetStatus(w, t, "RUNNING"), t, kind, NoTarget), t)
    BY <1>2, <2>1, <2>2, EmissionFits
  <2> QED
    BY <1>2, <2>3 DEF Handle, CreateHandling
<1> QED
  BY <1>1, <1>2

-----------------------------------------------------------------------------
(* How far its package is, told by what a task looks at.                   *)
LEMMA PositionFacts ==
  ASSUME NEW w, NEW V, WorldInv(w, V), PackageInv(w, V), NEW t \in Task
  PROVE  /\ IsItemAt(w, ItemOf(t), PickupOf(t)) <=> Position(w, ItemOf(t)) = Origin(t)
         /\ IsLoaded(w, t) <=> Position(w, ItemOf(t)) = Origin(t) + 1
         /\ IsUnloaded(w, t) <=> Position(w, ItemOf(t)) = Origin(t) + 2
         /\ StageFits(w.stage[t], Origin(t), Position(w, ItemOf(t)))
<1>1. /\ OnTheWay(w, ItemOf(t)) /\ w.carrier[ItemOf(t)] \in Robot \cup {NoRobot}
      /\ StageFits(w.stage[t], Origin(t), Position(w, ItemOf(t)))
  BY TaskFacts, WorldFields DEF WorldInv, PackageInv, TaskFits
<1>2. /\ UpstreamRobot # DownstreamRobot /\ NoRobot \notin Robot
      /\ Inbound # Outbound /\ Zone # "source" /\ Zone # "destination"
  BY DEF Robot, UpstreamRobot, DownstreamRobot, NoRobot, Inbound, Outbound, Zone
<1>3. CASE LegOf(t) = Inbound
  BY <1>1, <1>2, <1>3, TaskFacts
     DEF IsItemAt, IsLoaded, IsUnloaded, Position, OnTheWay, Origin, Robot
<1>4. CASE LegOf(t) = Outbound
  BY <1>1, <1>2, <1>4, TaskFacts
     DEF IsItemAt, IsLoaded, IsUnloaded, Position, OnTheWay, Origin, Robot
<1> QED
  BY <1>1, <1>3, <1>4, TaskFacts

(* A task at work that does not ask for the zone shows no blocker and is   *)
(* not blocked.                                                            *)
LEMMA Unhindered ==
  ASSUME NEW w, NEW V, PackageInv(w, V), NEW t \in Task, AtWork(w, t),
         w.stage[t] # RequestStage(t)
  PROVE  w.blocker[t] = BlockedByNothing /\ w.status[t] # "BLOCKED"
BY DEF PackageInv, TaskFits, BlockerFits, AtWork

(* The new values of the zone and of who has acquired it.                  *)
WithZone(w, z) == [w EXCEPT !.zone = z]
WithAccess(w, z, acq) == [w EXCEPT !.zone = z, !.acquired = acq]

(* The new values of a stage and of the zone.                              *)
LEMMA StageStep ==
  ASSUME NEW w \in World, NEW t \in Task, NEW sg, NEW z, NEW v,
         v = AtStage(WithZone(w, z), t, sg)
  PROVE  /\ TaskStep(w, v, t)
         /\ v.live = w.live /\ v.active = w.active /\ v.blocker = w.blocker
         /\ v.zone = z /\ v.acquired = w.acquired /\ v.status = w.status
         /\ v.stage[t] = sg /\ \A u \in Task \ {t} : v.stage[u] = w.stage[u]
<1>1. /\ v.live = w.live /\ v.active = w.active /\ v.blocker = w.blocker
      /\ v.zone = z /\ v.acquired = w.acquired /\ v.status = w.status
      /\ v.loc = w.loc /\ v.place = w.place /\ v.carrier = w.carrier
      /\ v.paused = w.paused /\ v.mission = w.mission
      /\ OtherDutiesKept(w, v, t)
      /\ v.stage = [w.stage EXCEPT ![t] = sg]
  BY DEF AtStage, WithZone, World, OtherDutiesKept
<1>2. v.stage[t] = sg /\ \A u \in Task \ {t} : v.stage[u] = w.stage[u]
  BY <1>1, WorldFields
<1> QED
  BY <1>1, <1>2 DEF TaskStep

(* A task without a command and without a blocker goes on to another stage *)
(* that its package and its robot are ready for.                           *)
LEMMA GoOnFits ==
  ASSUME NEW w, NEW V, WorldInv(w, V), PackageInv(w, V),
         NEW t \in Task, AtWork(w, t), w.active[t] = NoCommand,
         w.stage[t] # RequestStage(t),
         NEW v, TaskStep(w, v, t),
         v.live = w.live, v.active = w.active, v.blocker = w.blocker,
         v.status[t] # "BLOCKED", v.stage[t] = "Done" <=> v.status[t] = "SUCCEEDED",
         StageFits(v.stage[t], Origin(t), Position(w, ItemOf(t))),
         v.stage[t] = "Load" => w.loc[RobotOf(t)] = PickupOf(t),
         v.stage[t] = "Unload" => w.loc[RobotOf(t)] = DropoffOf(t),
         v.stage[t] \in ZoneStages(t) \ {ApproachStage(t)} => RobotOf(t) \in v.zone.occ,
         \A r \in w.zone.occ : r \in v.zone.occ \/ (r = RobotOf(t) /\ Engaged(w, t)),
         BufferFits(v)
  PROVE  PackageInv(v, V) /\ (v.stage[t] # "Done" => AtWork(v, t))
<1>1. w.blocker[t] = BlockedByNothing
  BY Unhindered
<1>2. Position(v, ItemOf(t)) = Position(w, ItemOf(t)) /\ v.loc = w.loc
  BY DEF Position, TaskStep
<1>3. TaskFits(v, t)
  BY <1>2 DEF TaskFits
<1>4. BlockerFits(v, t)
  BY <1>1 DEF BlockerFits, BlockedByNothing
<1>5. \A c \in v.live : c.task # t
  BY IdleHasNoCommand
<1>6. PackageInv(v, V)
  BY <1>3, <1>4, <1>5, UpdateFits
<1> QED
  BY <1>1, <1>6 DEF AtWork, BlockedByNothing

(* The same while the task holds as much of the zone as before.            *)
LEMMA ProgressFits ==
  ASSUME NEW w, NEW V, WorldInv(w, V), PackageInv(w, V),
         NEW t \in Task, AtWork(w, t), Engaged(w, t), w.active[t] = NoCommand,
         w.stage[t] # RequestStage(t),
         NEW sg \in Stage \ {"ClaimRobot", "Done"},
         w.stage[t] \in ZoneStages(t) <=> sg \in ZoneStages(t),
         w.stage[t] = ApproachStage(t) => w.loc[RobotOf(t)] = Zone,
         StageFits(sg, Origin(t), Position(w, ItemOf(t))),
         sg = "Load" => w.loc[RobotOf(t)] = PickupOf(t),
         sg = "Unload" => w.loc[RobotOf(t)] = DropoffOf(t),
         NEW z \in ZoneState, z.lease = w.zone.lease, w.zone.occ \subseteq z.occ,
         z.occ \subseteq w.zone.occ \cup (IF t \in w.acquired THEN {RobotOf(t)} ELSE {}),
         sg \in ZoneStages(t) \ {ApproachStage(t)} => RobotOf(t) \in z.occ,
         NEW v, v = AtStage(WithZone(w, z), t, sg), BufferFits(v)
  PROVE  /\ WorldInv(v, V) /\ PackageInv(v, V) /\ AtWork(v, t) /\ TaskStep(w, v, t)
         /\ v.stage[t] = sg
<1>1. w \in World
  BY DEF WorldInv
<1>2. /\ TaskStep(w, v, t)
      /\ v.live = w.live /\ v.active = w.active /\ v.blocker = w.blocker
      /\ v.zone = z /\ v.status = w.status /\ v.stage[t] = sg
  BY <1>1, StageStep
<1>3. WorldInv(v, V)
  BY ProgressInv DEF WithZone
<1>4. w.status[t] # "BLOCKED" /\ w.status[t] # "SUCCEEDED"
  BY Unhindered DEF PackageInv, TaskFits, AtWork
<1>5. PackageInv(v, V) /\ (v.stage[t] # "Done" => AtWork(v, t))
  BY <1>2, <1>4, GoOnFits
<1> QED
  BY <1>2, <1>3, <1>5

(* One task at most is between entering the zone and leaving it.           *)
LEMMA AloneInZone ==
  ASSUME NEW w, NEW V, WorldInv(w, V), NEW t \in Task, NEW u \in Task,
         w.stage[t] \in ZoneStages(t), w.stage[u] \in ZoneStages(u)
  PROVE  t = u
<1>1. t \in w.acquired /\ u \in w.acquired
  BY DEF WorldInv, ZoneInv
<1> QED
  BY <1>1, HolderFacts

(* The stages in the zone of a task that picks up or drops off there.      *)
LEMMA ZoneStageFacts ==
  ASSUME NEW t \in Task
  PROVE  /\ PickupOf(t) = Zone =>
              /\ ZoneStages(t) = {"MoveToPickup", "Load", "VacatePickup"}
              /\ ApproachStage(t) = "MoveToPickup"
              /\ RequestStage(t) = "RequestPickup" /\ VacateStage(t) = "VacatePickup"
              /\ EmptyBufferStages(t) = {"VacatePickup"}
              /\ LegOf(t) = Outbound /\ LegOf(t) # Inbound /\ DropoffOf(t) # Zone
         /\ DropoffOf(t) = Zone =>
              /\ ZoneStages(t) = {"MoveToDropoff", "Unload", "VacateDropoff"}
              /\ ApproachStage(t) = "MoveToDropoff"
              /\ RequestStage(t) = "RequestDropoff" /\ VacateStage(t) = "VacateDropoff"
              /\ EmptyBufferStages(t) = {"MoveToDropoff", "Unload"}
              /\ LegOf(t) = Inbound /\ LegOf(t) # Outbound /\ PickupOf(t) # Zone
         /\ PickupOf(t) = Zone \/ DropoffOf(t) = Zone
<1>1. LegOf(t) \in {Inbound, Outbound} /\ Inbound # Outbound /\ Zone # "source" /\ Zone # "destination"
  BY TaskFacts DEF Inbound, Outbound, Zone
<1>2. CASE LegOf(t) = Inbound
  BY <1>1, <1>2 DEF PickupOf, DropoffOf, ZoneStages, ApproachStage, RequestStage,
                    VacateStage, EmptyBufferStages
<1>3. CASE LegOf(t) = Outbound
  BY <1>1, <1>3 DEF PickupOf, DropoffOf, ZoneStages, ApproachStage, RequestStage,
                    VacateStage, EmptyBufferStages
<1> QED
  BY <1>1, <1>2, <1>3

(* The other leg of a package.                                             *)
LEMMA LegFacts ==
  ASSUME NEW p \in Item
  PROVE  /\ <<p, Inbound>> \in Task /\ <<p, Outbound>> \in Task
         /\ ItemOf(<<p, Inbound>>) = p /\ ItemOf(<<p, Outbound>>) = p
         /\ LegOf(<<p, Inbound>>) = Inbound /\ LegOf(<<p, Outbound>>) = Outbound
         /\ DropoffOf(<<p, Inbound>>) = Zone /\ PickupOf(<<p, Outbound>>) = Zone
         /\ Origin(<<p, Inbound>>) = 0 /\ Origin(<<p, Outbound>>) = 2
BY DEF Task, Leg, LegOf, ItemOf, DropoffOf, PickupOf, Origin, Inbound, Outbound

LEMMA LegIdentity ==
  ASSUME NEW t \in Task
  PROVE  /\ LegOf(t) = Inbound => t = <<ItemOf(t), Inbound>>
         /\ LegOf(t) = Outbound => t = <<ItemOf(t), Outbound>>
BY DEF Task, LegOf, ItemOf

(* A package that was just left in the zone is the only one there.         *)
LEMMA BufferedFits ==
  ASSUME NEW w, NEW V, WorldInv(w, V), PackageInv(w, V), NEW t \in Task,
         LegOf(t) = Inbound, w.stage[t] = "Unload", IsUnloaded(w, t),
         NEW v, v.zone.buf = w.zone.buf \cup {ItemOf(t)}, v.stage[t] = "VacateDropoff",
         \A u \in Task \ {t} : v.stage[u] = w.stage[u]
  PROVE  BufferFits(v)
<1> DEFINE p == ItemOf(t)
<1>1. p \in Item /\ t = <<p, Inbound>> /\ Inbound # Outbound /\ DropoffOf(t) = Zone
  BY TaskFacts, LegIdentity DEF Inbound, Outbound, Zone
<1>2. BufferFits(w) /\ w.zone.buf = {}
  <2>1. w.stage[t] \in EmptyBufferStages(t)
    BY DEF EmptyBufferStages
  <2> QED
    BY <2>1 DEF PackageInv, BufferFits
<1>3. v.zone.buf = {p}
  BY <1>2
<1>4. w.stage[<<p, Outbound>>] \in UnfetchedStages
  <2>1. <<p, Outbound>> \in Task /\ ItemOf(<<p, Outbound>>) = p /\ Origin(<<p, Outbound>>) = 2
    BY <1>1, LegFacts
  <2>2. Position(w, p) = 2
    <3>1. Origin(t) = 0
      BY DEF Origin
    <3> QED
      BY <3>1, PositionFacts
  <2>3. StageFits(w.stage[<<p, Outbound>>], 2, 2)
    BY <2>1, <2>2, PositionFacts
  <2>4. w.stage[<<p, Outbound>>] \in Stage
    BY <2>1, WorldFields DEF WorldInv
  <2> QED
    BY <2>3, <2>4 DEF StageFits, UnfetchedStages, Stage
<1>5. ASSUME NEW q \in Item PROVE q \in v.zone.buf <=> IsBuffered(v, q)
  <2>1. /\ <<q, Inbound>> \in Task /\ <<q, Outbound>> \in Task
        /\ <<q, Outbound>> # t /\ (<<q, Inbound>> = t <=> q = p)
    BY <1>1, LegFacts
  <2>2. CASE q = p
    BY <1>1, <1>3, <1>4, <2>1, <2>2 DEF IsBuffered, BroughtStages
  <2>3. CASE q # p
    <3>1. ~ IsBuffered(w, q)
      BY <1>2 DEF BufferFits
    <3> QED
      BY <1>3, <2>1, <2>3, <3>1 DEF IsBuffered
  <2> QED
    BY <2>2, <2>3
<1>6. ASSUME NEW u \in Task PROVE v.stage[u] \notin EmptyBufferStages(u)
  <2>1. w.stage[t] \in ZoneStages(t)
    BY DEF ZoneStages
  <2>2. CASE u = t
    BY <2>2 DEF EmptyBufferStages
  <2>3. CASE u # t
    <3>1. EmptyBufferStages(u) \subseteq ZoneStages(u)
      BY DEF EmptyBufferStages, ZoneStages
    <3> QED
      BY <2>1, <2>3, <3>1, AloneInZone
  <2> QED
    BY <2>2, <2>3
<1> QED
  BY <1>3, <1>5, <1>6 DEF BufferFits

(* A package that was just taken from the zone leaves it empty.            *)
LEMMA FetchedFits ==
  ASSUME NEW w, NEW V, WorldInv(w, V), PackageInv(w, V), NEW t \in Task,
         LegOf(t) = Outbound, w.stage[t] = "Load", IsLoaded(w, t),
         NEW v, v.zone.buf = w.zone.buf \ {ItemOf(t)}, v.stage[t] = "VacatePickup",
         \A u \in Task \ {t} : v.stage[u] = w.stage[u]
  PROVE  BufferFits(v)
<1> DEFINE p == ItemOf(t)
<1>1. p \in Item /\ t = <<p, Outbound>> /\ Inbound # Outbound
  BY TaskFacts, LegIdentity DEF Inbound, Outbound
<1>2. BufferFits(w)
  BY DEF PackageInv
<1>3. w.stage[<<p, Inbound>>] \in BroughtStages
  <2>1. <<p, Inbound>> \in Task /\ ItemOf(<<p, Inbound>>) = p /\ Origin(<<p, Inbound>>) = 0
    BY <1>1, LegFacts
  <2>2. Position(w, p) = 3
    <3>1. Origin(t) = 2
      BY <1>1 DEF Origin
    <3> QED
      BY <3>1, PositionFacts
  <2>3. StageFits(w.stage[<<p, Inbound>>], 0, 3)
    BY <2>1, <2>2, PositionFacts
  <2>4. w.stage[<<p, Inbound>>] \in Stage
    BY <2>1, WorldFields DEF WorldInv
  <2> QED
    BY <2>3, <2>4 DEF StageFits, BroughtStages, Stage
<1>4. p \in w.zone.buf
  BY <1>1, <1>2, <1>3 DEF BufferFits, IsBuffered, UnfetchedStages
<1>5. v.zone.buf = {}
  BY <1>2, <1>4 DEF BufferFits
<1>6. ASSUME NEW q \in Item PROVE ~ IsBuffered(v, q)
  <2>1. /\ <<q, Inbound>> \in Task /\ <<q, Outbound>> \in Task
        /\ <<q, Inbound>> # t /\ (<<q, Outbound>> = t <=> q = p)
    BY <1>1, LegFacts
  <2>2. CASE q = p
    BY <1>1, <2>1, <2>2 DEF IsBuffered, UnfetchedStages
  <2>3. CASE q # p
    <3>1. ~ IsBuffered(w, q)
      BY <1>2, <1>4, <2>3 DEF BufferFits
    <3> QED
      BY <2>1, <2>3, <3>1 DEF IsBuffered
  <2> QED
    BY <2>2, <2>3
<1> QED
  BY <1>5, <1>6 DEF BufferFits

-----------------------------------------------------------------------------
(* The children of the tree, from the last to the first.                   *)

(* What is released on leaving the zone is the task's own robot.           *)
LEMMA ReleaseFacts ==
  ASSUME NEW w, NEW V, WorldInv(w, V), NEW t \in Task, Engaged(w, t), NEW endpoint,
         endpoint = Zone /\ t \in w.acquired => w.loc[RobotOf(t)] # Zone
  PROVE  \E z \in ZoneState, acq \in SUBSET Task :
            /\ ReleaseResource(w, t, endpoint) = WithAccess(w, z, acq)
            /\ z.buf = w.zone.buf
            /\ \A r \in w.zone.occ : r \in z.occ \/ r = RobotOf(t)
<1>1. w \in World /\ w.zone \in ZoneState /\ w.acquired \in SUBSET Task
  BY WorldFields DEF WorldInv
<1>2. CASE endpoint # Zone \/ t \notin w.acquired
  <2>1. ReleaseResource(w, t, endpoint) = WithAccess(w, w.zone, w.acquired)
    BY <1>1, <1>2 DEF ReleaseResource, WithAccess, World
  <2> QED
    BY <1>1, <2>1
<1>3. CASE endpoint = Zone /\ t \in w.acquired
  <2> DEFINE z == Release(w.zone, RobotOf(t))
             acq == w.acquired \ {t}
  <2>1. ReleaseResource(w, t, endpoint) = WithAccess(w, z, acq)
    BY <1>1, <1>3 DEF ReleaseResource, WithAccess, World
  <2>2. z \in ZoneState
    BY <1>3, ReleasedZone
  <2>3. z.buf = w.zone.buf /\ z.occ = w.zone.occ \ {RobotOf(t)}
    BY <1>1 DEF Release, ZoneState
  <2>4. acq \in SUBSET Task
    BY <1>1
  <2> HIDE DEF z, acq
  <2> QED
    BY <2>1, <2>2, <2>3, <2>4
<1> QED
  BY <1>2, <1>3

(* VacateResourceIfManaged for the dropoff, and the end of the task.       *)
LEMMA VacateDropoffFits ==
  ASSUME NEW w, NEW V, WorldInv(w, V), PackageInv(w, V), NEW t \in Task, AtWork(w, t),
         w.stage[t] = "VacateDropoff"
  PROVE  PackageInv(VacateDropoff(w, t), V) /\ TaskStep(w, VacateDropoff(w, t), t)
<1>1. Engaged(w, t) /\ w \in World /\ RobotOf(t) \in Robot
  BY TaskFacts DEF Engaged, WorldInv
<1>2. w.stage[t] # RequestStage(t) /\ w.stage[t] # ApproachStage(t)
  BY DEF RequestStage, ApproachStage
<1>3. CASE MustVacate(w, t, DropoffOf(t))
  <2>1. w.stage[t] = VacateStage(t)
    BY <1>3, ZoneStageFacts DEF MustVacate
  <2>2. ExitOf(RobotOf(t)) \in Waypoint
    BY <1>1, ExitFacts
  <2>3. MoveFits(w, t, ExitOf(RobotOf(t)))
    BY <2>1 DEF MoveFits
  <2> QED
    BY <1>1, <1>2, <1>3, <2>2, <2>3, DriveFits DEF VacateDropoff
<1>4. CASE ~ MustVacate(w, t, DropoffOf(t))
  <2>1. w.active[t] = NoCommand
    BY <1>4, FinishedIsIdle DEF Unfinished
  <2>2. DropoffOf(t) = Zone /\ t \in w.acquired => w.loc[RobotOf(t)] # Zone
    BY <1>1, <1>4, ExitFacts DEF MustVacate
  <2>3. PICK z \in ZoneState, acq \in SUBSET Task :
          /\ ReleaseResource(w, t, DropoffOf(t)) = WithAccess(w, z, acq)
          /\ z.buf = w.zone.buf
          /\ \A r \in w.zone.occ : r \in z.occ \/ r = RobotOf(t)
    BY <1>1, <2>2, ReleaseFacts
  <2> DEFINE v == MarkTaskSucceeded(ReleaseRobot(ReleaseResource(w, t, DropoffOf(t)), t), t)
  <2>4. v = Reshape(w, t, "SUCCEEDED", "Done", "IDLE", NoTask, z, acq)
    BY <1>1, <2>3 DEF MarkTaskSucceeded, ReleaseRobot, AtStage, SetStatus, Reshape, WithAccess, World
  <2>5. "SUCCEEDED" \in TaskStatus /\ "Done" \in Stage
    BY DEF TaskStatus, Stage
  <2> HIDE DEF v
  <2>6. /\ TaskStep(w, v, t)
        /\ v.live = w.live /\ v.active = w.active /\ v.blocker = w.blocker
        /\ v.zone = z /\ v.status[t] = "SUCCEEDED" /\ v.stage[t] = "Done"
        /\ \A u \in Task \ {t} : v.stage[u] = w.stage[u]
    BY <1>1, <2>4, <2>5, ReshapeStep
  <2>7. StageFits("Done", Origin(t), Position(w, ItemOf(t)))
    BY PositionFacts DEF StageFits, Origin
  <2>8. BufferFits(v)
    <3>1. BufferFits(w)
      BY DEF PackageInv
    <3>2. v.stage[t] \notin EmptyBufferStages(t)
      BY <2>6 DEF EmptyBufferStages
    <3> QED
      BY <2>3, <2>6, <3>1, <3>2, BufferKept DEF BroughtStages, UnfetchedStages
  <2>9. v.stage[t] \notin ZoneStages(t)
    BY <2>6 DEF ZoneStages
  <2>10. PackageInv(v, V)
    BY <1>1, <1>2, <2>1, <2>3, <2>6, <2>7, <2>8, <2>9, GoOnFits
  <2> QED
    BY <1>4, <2>6, <2>10 DEF VacateDropoff, v
<1> QED
  BY <1>3, <1>4

(* HandleItem with an unload, and the children behind it.                  *)
LEMMA UnloadFits ==
  ASSUME NEW w, NEW V, WorldInv(w, V), PackageInv(w, V), NEW t \in Task, AtWork(w, t),
         w.stage[t] = "Unload"
  PROVE  PackageInv(Unload(w, t), V) /\ TaskStep(w, Unload(w, t), t)
<1>1. Engaged(w, t) /\ w \in World /\ w.zone \in ZoneState
  BY WorldFields DEF Engaged, WorldInv
<1>2. CASE ~ IsUnloaded(w, t)
  BY <1>2, HandleFits DEF Unload
<1>3. CASE IsUnloaded(w, t)
  <2> DEFINE z == UpdateAfterUnload(w, t).zone
             v == AtStage(UpdateAfterUnload(w, t), t, "VacateDropoff")
  <2>1. UpdateAfterUnload(w, t) = WithZone(w, z)
    BY <1>1 DEF UpdateAfterUnload, WithZone, World
  <2>2. v = AtStage(WithZone(w, z), t, "VacateDropoff")
    BY <2>1
  <2>3. DropoffOf(t) = Zone => t \in w.acquired
    BY ZoneStageFacts DEF WorldInv, ZoneInv
  <2>4. z = IF DropoffOf(t) = Zone THEN BufferItem(w.zone, ItemOf(t)) ELSE w.zone
    BY <1>1, <2>3 DEF UpdateAfterUnload, WithZone, World
  <2>5. /\ z \in ZoneState /\ z.lease = w.zone.lease /\ z.occ = w.zone.occ
        /\ z.buf = IF DropoffOf(t) = Zone THEN w.zone.buf \cup {ItemOf(t)} ELSE w.zone.buf
    <3>1. ItemOf(t) \in Item
      BY TaskFacts
    <3> QED
      BY <1>1, <2>4, <3>1 DEF BufferItem, ZoneState
  <2> HIDE DEF z, v
  <2>6. /\ TaskStep(w, v, t)
        /\ v.live = w.live /\ v.active = w.active /\ v.blocker = w.blocker
        /\ v.zone = z /\ v.acquired = w.acquired /\ v.status = w.status
        /\ v.stage[t] = "VacateDropoff" /\ \A u \in Task \ {t} : v.stage[u] = w.stage[u]
    BY <1>1, <2>2, StageStep
  <2>7. BufferFits(v)
    <3>1. CASE DropoffOf(t) = Zone
      <4>1. LegOf(t) = Inbound
        BY <3>1, ZoneStageFacts
      <4> QED
        BY <1>3, <2>5, <2>6, <3>1, <4>1, BufferedFits
    <3>2. CASE DropoffOf(t) # Zone
      <4>1. BufferFits(w)
        BY DEF PackageInv
      <4>2. LegOf(t) = Outbound /\ LegOf(t) # Inbound
        BY <3>2, ZoneStageFacts
      <4>3. v.stage[t] \notin EmptyBufferStages(t)
        BY <2>6 DEF EmptyBufferStages
      <4> QED
        BY <2>5, <2>6, <3>2, <4>1, <4>2, <4>3, BufferKept DEF UnfetchedStages
    <3> QED
      BY <3>1, <3>2
  <2>8. /\ w.active[t] = NoCommand
        /\ w.stage[t] # RequestStage(t) /\ w.stage[t] # ApproachStage(t)
    BY <1>3, FinishedIsIdle DEF Unfinished, RequestStage, ApproachStage
  <2>9. /\ "VacateDropoff" \in Stage \ {"ClaimRobot", "Done"}
        /\ w.stage[t] \in ZoneStages(t) <=> "VacateDropoff" \in ZoneStages(t)
    BY DEF Stage, ZoneStages
  <2>10. StageFits("VacateDropoff", Origin(t), Position(w, ItemOf(t)))
    BY <1>3, PositionFacts DEF StageFits
  <2>11. "VacateDropoff" \in ZoneStages(t) \ {ApproachStage(t)} => RobotOf(t) \in z.occ
    BY <2>5, <2>8, <2>9 DEF PackageInv, TaskFits
  <2>12. /\ WorldInv(v, V) /\ PackageInv(v, V) /\ AtWork(v, t)
    BY <1>1, <2>2, <2>5, <2>7, <2>8, <2>9, <2>10, <2>11, ProgressFits
  <2>13. PackageInv(VacateDropoff(v, t), V) /\ TaskStep(v, VacateDropoff(v, t), t)
    BY <2>6, <2>12, VacateDropoffFits
  <2>14. TaskStep(w, VacateDropoff(v, t), t)
    BY <2>6, <2>13, TaskStepTransitive
  <2> QED
    BY <1>3, <2>13, <2>14 DEF Unload, v
<1> QED
  BY <1>2, <1>3

(* A robot is marked inside the zone and nothing else changes.             *)
LEMMA OccupiedFacts ==
  ASSUME NEW w, NEW V, WorldInv(w, V), NEW t \in Task, NEW endpoint,
         endpoint = Zone => t \in w.acquired, NEW z, z = MarkOccupied(w, t, endpoint).zone
  PROVE  /\ MarkOccupied(w, t, endpoint) = WithZone(w, z)
         /\ z \in ZoneState /\ z.lease = w.zone.lease /\ z.buf = w.zone.buf
         /\ w.zone.occ \subseteq z.occ
         /\ z.occ \subseteq w.zone.occ \cup (IF t \in w.acquired THEN {RobotOf(t)} ELSE {})
         /\ endpoint = Zone => RobotOf(t) \in z.occ
<1>1. w \in World /\ w.zone \in ZoneState /\ RobotOf(t) \in Robot
  BY WorldFields, TaskFacts DEF WorldInv
<1>2. MarkOccupied(w, t, endpoint) = WithZone(w, z)
  BY <1>1 DEF MarkOccupied, WithZone, World
<1>3. z = IF endpoint = Zone THEN Occupy(w.zone, RobotOf(t)) ELSE w.zone
  BY <1>1 DEF MarkOccupied, World
<1> QED
  BY <1>1, <1>2, <1>3 DEF Occupy, ZoneState

(* MoveTo the dropoff, and the children behind it.                         *)
LEMMA MoveToDropoffFits ==
  ASSUME NEW w, NEW V, WorldInv(w, V), PackageInv(w, V), NEW t \in Task, AtWork(w, t),
         w.stage[t] = "MoveToDropoff"
  PROVE  PackageInv(MoveToDropoff(w, t), V) /\ TaskStep(w, MoveToDropoff(w, t), t)
<1>1. Engaged(w, t) /\ w \in World
  BY DEF Engaged, WorldInv
<1>2. CASE w.loc[RobotOf(t)] # DropoffOf(t)
  <2>1. DropoffOf(t) \in Waypoint /\ MoveFits(w, t, DropoffOf(t))
    BY TaskFacts DEF MoveFits
  <2>2. w.stage[t] = ApproachStage(t) => DropoffOf(t) # WaitWaypointOf(RobotOf(t))
    BY TaskFacts, ExitFacts, ZoneStageFacts
  <2>3. w.stage[t] # RequestStage(t)
    BY DEF RequestStage
  <2> QED
    BY <1>1, <1>2, <2>1, <2>2, <2>3, DriveFits DEF MoveToDropoff
<1>3. CASE w.loc[RobotOf(t)] = DropoffOf(t)
  <2> DEFINE z == MarkOccupied(w, t, DropoffOf(t)).zone
             v == AtStage(MarkOccupied(w, t, DropoffOf(t)), t, "Unload")
  <2>1. DropoffOf(t) = Zone => t \in w.acquired
    BY ZoneStageFacts DEF WorldInv, ZoneInv
  <2>2. /\ MarkOccupied(w, t, DropoffOf(t)) = WithZone(w, z)
        /\ z \in ZoneState /\ z.lease = w.zone.lease /\ z.buf = w.zone.buf
        /\ w.zone.occ \subseteq z.occ
        /\ z.occ \subseteq w.zone.occ \cup (IF t \in w.acquired THEN {RobotOf(t)} ELSE {})
        /\ DropoffOf(t) = Zone => RobotOf(t) \in z.occ
    BY <2>1, OccupiedFacts
  <2>3. v = AtStage(WithZone(w, z), t, "Unload")
    BY <2>2
  <2> HIDE DEF z, v
  <2>4. /\ TaskStep(w, v, t) /\ v.zone = z /\ v.stage[t] = "Unload"
        /\ \A u \in Task \ {t} : v.stage[u] = w.stage[u]
    BY <1>1, <2>3, StageStep
  <2>5. BufferFits(v)
    <3>1. BufferFits(w)
      BY DEF PackageInv
    <3>2. v.stage[t] \in EmptyBufferStages(t) => w.stage[t] \in EmptyBufferStages(t)
      BY <2>4 DEF EmptyBufferStages
    <3>3. v.stage[t] \in EmptyBufferStages(t) => w.zone.buf = {}
      BY <3>1, <3>2 DEF BufferFits
    <3> QED
      BY <2>2, <2>4, <3>1, <3>3, BufferKept DEF BroughtStages, UnfetchedStages
  <2>6. /\ w.active[t] = NoCommand /\ w.stage[t] # RequestStage(t)
        /\ w.stage[t] = ApproachStage(t) => DropoffOf(t) = Zone
        /\ "Unload" \in ZoneStages(t) \ {ApproachStage(t)} => DropoffOf(t) = Zone
    BY <1>3, FinishedIsIdle, ZoneStageFacts DEF Unfinished, RequestStage
  <2>7. /\ "Unload" \in Stage \ {"ClaimRobot", "Done"}
        /\ w.stage[t] \in ZoneStages(t) <=> "Unload" \in ZoneStages(t)
    BY DEF Stage, ZoneStages
  <2>8. StageFits("Unload", Origin(t), Position(w, ItemOf(t)))
    BY PositionFacts DEF StageFits
  <2>9. WorldInv(v, V) /\ PackageInv(v, V) /\ AtWork(v, t)
    BY <1>1, <1>3, <2>2, <2>3, <2>5, <2>6, <2>7, <2>8, ProgressFits
  <2>10. PackageInv(Unload(v, t), V) /\ TaskStep(v, Unload(v, t), t)
    BY <2>4, <2>9, UnloadFits
  <2>11. TaskStep(w, Unload(v, t), t)
    BY <2>4, <2>10, TaskStepTransitive
  <2> QED
    BY <1>3, <2>10, <2>11 DEF MoveToDropoff, v
<1> QED
  BY <1>2, <1>3

(* A task at work gets a new status and a new blocker.                     *)
LEMMA StatusFits ==
  ASSUME NEW w, NEW V, WorldInv(w, V), PackageInv(w, V), NEW t \in Task, AtWork(w, t),
         NEW st \in TaskStatus \ {"SUCCEEDED"}, NEW b, b.reason # "command_failed",
         b = BlockedByNothing \/ w.stage[t] = RequestStage(t),
         st = "BLOCKED" => /\ w.stage[t] = RequestStage(t)
                           /\ w.loc[RobotOf(t)] = WaitWaypointOf(RobotOf(t))
                           /\ BlocksTask(t, b),
         NEW v, v.live = w.live, v.stage = w.stage, v.active = w.active, v.zone = w.zone,
         v.loc = w.loc, v.place = w.place, v.carrier = w.carrier,
         v.paused = w.paused, v.mission = w.mission,
         OtherDutiesKept(w, v, t),
         v.status = [w.status EXCEPT ![t] = st], v.blocker = [w.blocker EXCEPT ![t] = b]
  PROVE  PackageInv(v, V) /\ AtWork(v, t) /\ TaskStep(w, v, t)
<1>1. /\ v.status[t] = st /\ v.blocker[t] = b
      /\ \A u \in Task \ {t} : v.status[u] = w.status[u] /\ v.blocker[u] = w.blocker[u]
  BY WorldFields DEF WorldInv
<1>2. TaskStep(w, v, t)
  BY <1>1 DEF TaskStep
<1>3. TaskFits(w, t) /\ BufferFits(w) /\ w.stage[t] # "Done"
  BY DEF PackageInv, AtWork
<1>4. Position(v, ItemOf(t)) = Position(w, ItemOf(t))
  BY DEF Position
<1>5. TaskFits(v, t)
  BY <1>1, <1>3, <1>4 DEF TaskFits
<1>6. BlockerFits(v, t)
  BY <1>1 DEF BlockerFits
<1>7. BufferFits(v)
  BY <1>3 DEF BufferFits, IsBuffered
<1>8. ASSUME NEW c \in v.live, c.task = t
      PROVE  CommandFits(v, c) /\ (IsWaitMove(v, c) => RobotOf(t) \notin V)
  <2>1. c \in w.live /\ CommandFits(w, c) /\ (IsWaitMove(w, c) => RobotOf(c.task) \notin V)
    BY DEF PackageInv, VisitorsFit
  <2> QED
    BY <1>8, <2>1 DEF CommandFits, MoveFits, IsWaitMove
<1>9. PackageInv(v, V)
  BY <1>2, <1>5, <1>6, <1>7, <1>8, UpdateFits
<1> QED
  BY <1>1, <1>2, <1>3, <1>9 DEF AtWork

(* What is waited for can only be the other robot's lease, or the package  *)
(* that is to be fetched, or the one that lies where another is to go.     *)
LEMMA DenialBlocks ==
  ASSUME NEW w, NEW V, WorldInv(w, V), PackageInv(w, V), NEW t \in Task,
         w.stage[t] = RequestStage(t), NEW purpose,
         purpose = IF LegOf(t) = Inbound THEN "dropoff" ELSE "pickup",
         ~ Granted(w.zone, t, purpose)
  PROVE  /\ BlocksTask(t, Denial(w.zone, t, purpose))
         /\ Denial(w.zone, t, purpose) \in Blocker
         /\ Denial(w.zone, t, purpose).reason # "command_failed"
<1> DEFINE z == w.zone
<1>1. /\ w \in World /\ z.lease \in Task \cup {NoTask} /\ z.occ \in SUBSET Robot
      /\ z.buf \in SUBSET Item /\ z \in ZoneState
  BY WorldFields DEF WorldInv, ZoneState
<1>2. Engaged(w, t) /\ t \notin w.acquired
  BY DEF RequestStage, Engaged, WorldInv, ZoneInv, ZoneStages
<1>3. ~ HoldsLease(w, RobotOf(t)) /\ \A r \in z.occ : HoldsLease(w, r)
  BY <1>2, OutsiderFacts DEF WorldInv, ZoneInv
<1>4. Denial(z, t, purpose) \in Blocker
  BY <1>1, DenialType
<1>5. CASE LeasedToOther(z, RobotOf(t))
  BY <1>4, <1>5 DEF Denial, LeasedToOther, BlockedByRobot, BlocksTask
<1>6. CASE ~ LeasedToOther(z, RobotOf(t))
  <2>1. RobotSlotAvailable(z)
    BY <1>1, <1>3, <1>6 DEF RobotSlotAvailable, LeasedToOther, HoldsLease
  <2>2. CASE LegOf(t) = Inbound
    <3>1. z.buf # {}
      BY <1>6, <2>1, <2>2 DEF Granted, PackageSlotAvailable
    <3> DEFINE p == CHOOSE p \in z.buf : TRUE
    <3>2. p \in z.buf /\ p \in Item
      BY <1>1, <3>1
    <3>3. Denial(z, t, purpose) = BlockedByItem("TRANSFER_PACKAGE_FULL", p)
      BY <1>6, <2>1, <2>2 DEF Denial
    <3> HIDE DEF p
    <3>4. w.stage[<<p, Inbound>>] \in BroughtStages
      BY <3>2 DEF PackageInv, BufferFits, IsBuffered
    <3>5. p # ItemOf(t)
      BY <2>2, <3>4, LegIdentity DEF BroughtStages, RequestStage
    <3> QED
      BY <1>4, <2>2, <3>3, <3>5 DEF BlocksTask, BlockedByItem, DropoffOf
  <2>3. CASE LegOf(t) # Inbound
    <3>1. Denial(z, t, purpose) = BlockedByItem("PACKAGE_NOT_AVAILABLE", ItemOf(t))
      BY <1>6, <2>1, <2>3 DEF Denial
    <3>2. PickupOf(t) = Zone
      BY <2>3, ZoneStageFacts
    <3> QED
      BY <1>4, <3>1, <3>2 DEF BlocksTask, BlockedByItem
  <2> QED
    BY <2>2, <2>3
<1> QED
  BY <1>5, <1>6

(* Drive to the waiting place, or wait there as a blocked task.            *)
LEMMA WaitAtWaypointFits ==
  ASSUME NEW w, NEW V, WorldInv(w, V), PackageInv(w, V), NEW t \in Task, AtWork(w, t),
         w.stage[t] = RequestStage(t), BlocksTask(t, w.blocker[t])
  PROVE  PackageInv(WaitAtWaypoint(w, t), V) /\ TaskStep(w, WaitAtWaypoint(w, t), t)
<1> DEFINE r == RobotOf(t)
           x == WaitWaypointOf(r)
           b == w.blocker[t]
<1>1. w \in World /\ r \in Robot /\ x \in Waypoint /\ Engaged(w, t) /\ t \notin w.acquired
  BY TaskFacts, ExitFacts DEF RequestStage, Engaged, WorldInv, ZoneInv, ZoneStages
<1>2. /\ b.reason # "command_failed" /\ w.blocker = [w.blocker EXCEPT ![t] = b]
      /\ {"RUNNING", "BLOCKED"} \subseteq TaskStatus \ {"SUCCEEDED"}
  BY <1>1, WorldFields DEF AtWork, TaskStatus
<1>3. CASE w.loc[r] # x
  <2> DEFINE v == SetStatus(w, t, "RUNNING")
  <2>1. /\ v.status = [w.status EXCEPT ![t] = "RUNNING"] /\ v.blocker = w.blocker
        /\ v.live = w.live /\ v.stage = w.stage /\ v.active = w.active /\ v.zone = w.zone
        /\ v.loc = w.loc /\ v.place = w.place /\ v.carrier = w.carrier
        /\ v.paused = w.paused /\ v.mission = w.mission
        /\ OtherDutiesKept(w, v, t)
    BY <1>1 DEF SetStatus, World, OtherDutiesKept
  <2>2. WorldInv(v, V)
    BY <1>1, StatusInv
  <2> HIDE DEF v
  <2>3. PackageInv(v, V) /\ AtWork(v, t) /\ TaskStep(w, v, t)
    BY <1>2, <2>1, StatusFits
  <2>4. /\ Engaged(v, t) /\ MoveFits(v, t, x) /\ v.loc[r] # x /\ r \notin V
    BY <1>1, <1>3, <2>1, OutsiderFacts DEF Engaged, MoveFits
  <2>5. PackageInv(Drive(v, t, x), V) /\ TaskStep(v, Drive(v, t, x), t)
    BY <1>1, <2>2, <2>3, <2>4, DriveFits
  <2>6. TaskStep(w, Drive(v, t, x), t)
    BY <2>3, <2>5, TaskStepTransitive
  <2> QED
    BY <1>3, <2>5, <2>6 DEF WaitAtWaypoint, v
<1>4. CASE w.loc[r] = x
  <2> DEFINE v == MarkRobotWaiting(SetStatus(w, t, "BLOCKED"), t)
  <2>1. /\ v.status = [w.status EXCEPT ![t] = "BLOCKED"] /\ v.blocker = w.blocker
        /\ v.live = w.live /\ v.stage = w.stage /\ v.active = w.active /\ v.zone = w.zone
        /\ v.loc = w.loc /\ v.place = w.place /\ v.carrier = w.carrier
        /\ v.paused = w.paused /\ v.mission = w.mission
        /\ v.duty = [w.duty EXCEPT ![r] = "WAITING"]
    BY <1>1 DEF SetStatus, MarkRobotWaiting, World
  <2> HIDE DEF v
  <2>2. OtherDutiesKept(w, v, t)
    BY <1>1, <2>1, WorldFields DEF OtherDutiesKept
  <2>3. PackageInv(v, V) /\ TaskStep(w, v, t)
    BY <1>2, <1>4, <2>1, <2>2, StatusFits
  <2> QED
    BY <1>4, <2>3 DEF WaitAtWaypoint, v
<1> QED
  BY <1>3, <1>4

(* RequestResourceAccess when the zone is not to be had now.               *)
LEMMA WaitFits ==
  ASSUME NEW w, NEW V, WorldInv(w, V), PackageInv(w, V), NEW t \in Task, AtWork(w, t),
         w.stage[t] = RequestStage(t), NEW purpose,
         purpose = IF LegOf(t) = Inbound THEN "dropoff" ELSE "pickup",
         ~ Granted(w.zone, t, purpose)
  PROVE  /\ PackageInv(WaitAtResourceWaypoint(w, t, purpose), V)
         /\ TaskStep(w, WaitAtResourceWaypoint(w, t, purpose), t)
<1> DEFINE b == Denial(w.zone, t, purpose)
           v == SetBlocker(w, t, b)
<1>1. BlocksTask(t, b) /\ b \in Blocker /\ b.reason # "command_failed"
  BY DenialBlocks
<1> HIDE DEF b
<1>2. w \in World
  BY DEF WorldInv
<1>3. /\ v.status = w.status /\ v.blocker = [w.blocker EXCEPT ![t] = b]
      /\ v.live = w.live /\ v.stage = w.stage /\ v.active = w.active /\ v.zone = w.zone
      /\ v.loc = w.loc /\ v.place = w.place /\ v.carrier = w.carrier
      /\ v.paused = w.paused /\ v.mission = w.mission
      /\ OtherDutiesKept(w, v, t)
  BY <1>2 DEF SetBlocker, World, OtherDutiesKept
<1>4. WorldInv(v, V)
  BY <1>1, SetBlockerInv
<1> HIDE DEF v
<1>5. w.status = [w.status EXCEPT ![t] = w.status[t]] /\ w.status[t] \in TaskStatus \ {"SUCCEEDED"}
  BY <1>2, WorldFields DEF PackageInv, TaskFits, AtWork
<1>6. w.status[t] = "BLOCKED" => w.loc[RobotOf(t)] = WaitWaypointOf(RobotOf(t))
  BY DEF PackageInv, TaskFits
<1>7. PackageInv(v, V) /\ AtWork(v, t) /\ TaskStep(w, v, t)
  BY <1>1, <1>3, <1>5, <1>6, StatusFits
<1>8. v.stage[t] = RequestStage(t) /\ v.blocker[t] = b
  BY <1>2, <1>3, WorldFields
<1>9. PackageInv(WaitAtWaypoint(v, t), V) /\ TaskStep(v, WaitAtWaypoint(v, t), t)
  BY <1>1, <1>4, <1>7, <1>8, WaitAtWaypointFits
<1>10. TaskStep(w, WaitAtWaypoint(v, t), t)
  BY <1>7, <1>9, TaskStepTransitive
<1> QED
  BY <1>9, <1>10 DEF WaitAtResourceWaypoint, v, b

(* RequestResourceAccess when the zone is granted: the package to fetch is *)
(* there, or there is room for the one to be left.                         *)
LEMMA GrantFits ==
  ASSUME NEW w, NEW V, WorldInv(w, V), PackageInv(w, V), NEW t \in Task, AtWork(w, t),
         w.stage[t] = RequestStage(t), NEW purpose,
         purpose = IF LegOf(t) = Inbound THEN "dropoff" ELSE "pickup",
         Granted(w.zone, t, purpose),
         NEW v, v = AtStage(Acquire(Unblocked(w, t), t), t, ApproachStage(t))
  PROVE  /\ WorldInv(v, V) /\ PackageInv(v, V) /\ AtWork(v, t) /\ TaskStep(w, v, t)
         /\ v.stage[t] = ApproachStage(t)
<1>1. w \in World /\ Engaged(w, t) /\ t \notin w.acquired /\ RobotOf(t) \in Robot
  BY TaskFacts DEF RequestStage, Engaged, WorldInv, ZoneInv, ZoneStages
<1>2. WorldInv(v, V)
  BY <1>1, AcquireUnblockedInv
<1>3. /\ v.status = [w.status EXCEPT ![t] = "RUNNING"]
      /\ v.stage = [w.stage EXCEPT ![t] = ApproachStage(t)]
      /\ v.blocker = [w.blocker EXCEPT ![t] = BlockedByNothing]
      /\ v.zone = GrantLease(w.zone, t)
      /\ v.duty = [w.duty EXCEPT ![RobotOf(t)] = "BUSY"]
      /\ v.live = w.live /\ v.active = w.active
      /\ v.loc = w.loc /\ v.place = w.place /\ v.carrier = w.carrier
      /\ v.paused = w.paused /\ v.mission = w.mission
  BY <1>1 DEF AtStage, Acquire, AssignRobot, SetStatus, Unblocked, SetBlocker, World
<1>4. /\ v.status[t] = "RUNNING" /\ v.stage[t] = ApproachStage(t)
      /\ v.blocker[t] = BlockedByNothing
      /\ \A u \in Task \ {t} : /\ v.status[u] = w.status[u] /\ v.stage[u] = w.stage[u]
                               /\ v.blocker[u] = w.blocker[u]
      /\ OtherDutiesKept(w, v, t)
  BY <1>1, <1>3, WorldFields DEF OtherDutiesKept
<1>5. TaskStep(w, v, t)
  BY <1>3, <1>4 DEF TaskStep
<1>6. v.zone.occ = w.zone.occ /\ v.zone.buf = w.zone.buf
  BY <1>1, <1>3, WorldFields DEF GrantLease, ZoneState
<1>7. /\ purpose = "dropoff" => w.zone.buf = {}
      /\ purpose = "pickup" => ItemOf(t) \in w.zone.buf
  <2>1. RobotOf(t) \notin w.zone.occ
    BY <1>1, OutsiderFacts
  <2> QED
    BY <2>1 DEF Granted, PackageSlotAvailable
<1>8. StageFits(ApproachStage(t), Origin(t), Position(w, ItemOf(t)))
  <2>1. StageFits(w.stage[t], Origin(t), Position(w, ItemOf(t)))
    BY PositionFacts
  <2>2. CASE LegOf(t) = Inbound
    BY <2>1, <2>2 DEF StageFits, RequestStage, ApproachStage
  <2>3. CASE LegOf(t) # Inbound
    <3> DEFINE p == ItemOf(t)
    <3>1. p \in Item /\ p \in w.zone.buf /\ Origin(t) = 2
      BY <1>7, <2>3, TaskFacts DEF Origin
    <3>2. w.stage[<<p, Inbound>>] \in BroughtStages
      BY <3>1 DEF PackageInv, BufferFits, IsBuffered
    <3>3. StageFits(w.stage[<<p, Inbound>>], 0, Position(w, p))
      <4>1. <<p, Inbound>> \in Task /\ ItemOf(<<p, Inbound>>) = p /\ Origin(<<p, Inbound>>) = 0
        BY <3>1, LegFacts
      <4>2. StageFits(w.stage[<<p, Inbound>>], Origin(<<p, Inbound>>),
                      Position(w, ItemOf(<<p, Inbound>>)))
        BY <4>1, PositionFacts
      <4> QED
        BY <4>1, <4>2
    <3>4. Position(w, p) \in 0..4
      BY DEF Position
    <3>5. Position(w, p) >= 2
      BY <3>2, <3>3, <3>4 DEF StageFits, BroughtStages
    <3>6. Position(w, p) <= 2
      BY <2>1, <2>3, <3>1 DEF StageFits, RequestStage
    <3> QED
      BY <2>3, <3>1, <3>4, <3>5, <3>6 DEF StageFits, ApproachStage
  <2> QED
    BY <2>2, <2>3
<1>9. TaskFits(v, t)
  <2>1. Position(v, ItemOf(t)) = Position(w, ItemOf(t))
    BY <1>3 DEF Position
  <2>2. /\ ApproachStage(t) \notin {"Load", "Unload", "Done"}
        /\ ApproachStage(t) # RequestStage(t)
    BY DEF ApproachStage, RequestStage
  <2> QED
    BY <1>4, <1>8, <2>1, <2>2 DEF TaskFits
<1>10. BlockerFits(v, t)
  BY <1>4 DEF BlockerFits, BlockedByNothing
<1>11. BufferFits(v)
  <2>1. BufferFits(w)
    BY DEF PackageInv
  <2>2. ApproachStage(t) \in EmptyBufferStages(t) => w.zone.buf = {}
    BY <1>7 DEF ApproachStage, EmptyBufferStages
  <2> QED
    BY <1>4, <1>6, <2>1, <2>2, BufferKept
       DEF BroughtStages, UnfetchedStages, ApproachStage, RequestStage, Inbound, Outbound
<1>12. ASSUME NEW c \in v.live, c.task = t
       PROVE  CommandFits(v, c) /\ (IsWaitMove(v, c) => RobotOf(t) \notin V)
  <2>1. c \in w.live /\ CommandFits(w, c) /\ RobotOf(t) \notin V
    BY <1>1, <1>3, <1>12, OutsiderFacts DEF PackageInv
  <2>2. /\ c.kind # "load" /\ c.kind # "unload"
        /\ c.kind = "move" => c.target = WaitWaypointOf(RobotOf(t))
    BY <1>12, <2>1 DEF CommandFits, MoveFits, RequestStage, VacateStage
  <2> QED
    BY <1>4, <1>12, <2>1, <2>2 DEF CommandFits, MoveFits
<1>13. PackageInv(v, V)
  BY <1>5, <1>6, <1>9, <1>10, <1>11, <1>12, UpdateFits
<1>14. AtWork(v, t)
  BY <1>4 DEF AtWork, BlockedByNothing, ApproachStage
<1> QED
  BY <1>2, <1>4, <1>5, <1>13, <1>14

(* RequestResourceAccess for the dropoff, and the children behind it.      *)
LEMMA RequestDropoffFits ==
  ASSUME NEW w, NEW V, WorldInv(w, V), PackageInv(w, V), NEW t \in Task, AtWork(w, t),
         w.stage[t] = "RequestDropoff"
  PROVE  PackageInv(RequestDropoff(w, t), V) /\ TaskStep(w, RequestDropoff(w, t), t)
<1>1. Engaged(w, t) /\ w \in World /\ w.zone \in ZoneState /\ t \notin w.acquired
  BY WorldFields DEF Engaged, WorldInv, ZoneInv, ZoneStages
<1>2. CASE DropoffOf(t) # Zone
  <2> DEFINE v == AtStage(w, t, "MoveToDropoff")
  <2>1. v = AtStage(WithZone(w, w.zone), t, "MoveToDropoff")
    BY <1>1 DEF WithZone, World
  <2>2. LegOf(t) # Inbound /\ ApproachStage(t) = "MoveToPickup"
        /\ RequestStage(t) = "RequestPickup"
    BY <1>2, ZoneStageFacts
  <2>3. /\ "MoveToDropoff" \in Stage \ {"ClaimRobot", "Done"}
        /\ w.stage[t] \in ZoneStages(t) <=> "MoveToDropoff" \in ZoneStages(t)
        /\ "MoveToDropoff" \notin ZoneStages(t) /\ w.stage[t] # ApproachStage(t)
        /\ w.stage[t] # RequestStage(t)
    BY <2>2 DEF Stage, ZoneStages
  <2>4. w.active[t] = NoCommand
    BY <1>2, FinishedIsIdle DEF Unfinished
  <2> HIDE DEF v
  <2>5. /\ TaskStep(w, v, t) /\ v.zone = w.zone /\ v.stage[t] = "MoveToDropoff"
        /\ \A u \in Task \ {t} : v.stage[u] = w.stage[u]
    BY <1>1, <2>1, StageStep
  <2>6. BufferFits(v)
    <3>1. BufferFits(w) /\ v.stage[t] \notin EmptyBufferStages(t)
      BY <2>2, <2>5 DEF PackageInv, EmptyBufferStages
    <3> QED
      BY <2>5, <3>1, BufferKept DEF BroughtStages, UnfetchedStages
  <2>7. StageFits("MoveToDropoff", Origin(t), Position(w, ItemOf(t)))
    BY PositionFacts DEF StageFits
  <2>8. WorldInv(v, V) /\ PackageInv(v, V) /\ AtWork(v, t)
    BY <1>1, <2>1, <2>3, <2>4, <2>6, <2>7, ProgressFits
  <2>9. PackageInv(MoveToDropoff(v, t), V) /\ TaskStep(v, MoveToDropoff(v, t), t)
    BY <2>5, <2>8, MoveToDropoffFits
  <2>10. TaskStep(w, MoveToDropoff(v, t), t)
    BY <2>5, <2>9, TaskStepTransitive
  <2> QED
    BY <1>2, <2>9, <2>10 DEF RequestDropoff, v
<1>3. ASSUME DropoffOf(t) = Zone
      PROVE  /\ LegOf(t) = Inbound /\ ApproachStage(t) = "MoveToDropoff"
             /\ w.stage[t] = RequestStage(t)
  BY <1>3, ZoneStageFacts
<1>4. CASE DropoffOf(t) = Zone /\ Granted(w.zone, t, "dropoff")
  <2> DEFINE v == AtStage(Acquire(Unblocked(w, t), t), t, "MoveToDropoff")
  <2> HIDE DEF v
  <2>1. /\ WorldInv(v, V) /\ PackageInv(v, V) /\ AtWork(v, t) /\ TaskStep(w, v, t)
        /\ v.stage[t] = "MoveToDropoff"
    BY <1>3, <1>4, GrantFits DEF v
  <2>2. PackageInv(MoveToDropoff(v, t), V) /\ TaskStep(v, MoveToDropoff(v, t), t)
    BY <2>1, MoveToDropoffFits
  <2>3. TaskStep(w, MoveToDropoff(v, t), t)
    BY <2>1, <2>2, TaskStepTransitive
  <2> QED
    BY <1>1, <1>4, <2>2, <2>3 DEF RequestDropoff, v
<1>5. CASE DropoffOf(t) = Zone /\ ~ Granted(w.zone, t, "dropoff")
  <2>1. /\ PackageInv(WaitAtResourceWaypoint(w, t, "dropoff"), V)
        /\ TaskStep(w, WaitAtResourceWaypoint(w, t, "dropoff"), t)
    BY <1>3, <1>5, WaitFits
  <2> QED
    BY <1>1, <1>5, <2>1 DEF RequestDropoff
<1> QED
  BY <1>2, <1>4, <1>5

(* VacateResourceIfManaged for the pickup, and the children behind it.     *)
LEMMA VacatePickupFits ==
  ASSUME NEW w, NEW V, WorldInv(w, V), PackageInv(w, V), NEW t \in Task, AtWork(w, t),
         w.stage[t] = "VacatePickup"
  PROVE  PackageInv(VacatePickup(w, t), V) /\ TaskStep(w, VacatePickup(w, t), t)
<1>1. Engaged(w, t) /\ w \in World /\ RobotOf(t) \in Robot
  BY TaskFacts DEF Engaged, WorldInv
<1>2. w.stage[t] # RequestStage(t) /\ w.stage[t] # ApproachStage(t)
  BY DEF RequestStage, ApproachStage
<1>3. CASE MustVacate(w, t, PickupOf(t))
  <2>1. w.stage[t] = VacateStage(t)
    BY <1>3, ZoneStageFacts DEF MustVacate
  <2>2. ExitOf(RobotOf(t)) \in Waypoint
    BY <1>1, ExitFacts
  <2>3. MoveFits(w, t, ExitOf(RobotOf(t)))
    BY <2>1 DEF MoveFits
  <2> QED
    BY <1>1, <1>2, <1>3, <2>2, <2>3, DriveFits DEF VacatePickup
<1>4. CASE ~ MustVacate(w, t, PickupOf(t))
  <2>1. w.active[t] = NoCommand
    BY <1>4, FinishedIsIdle DEF Unfinished
  <2>2. PickupOf(t) = Zone /\ t \in w.acquired => w.loc[RobotOf(t)] # Zone
    BY <1>1, <1>4, ExitFacts DEF MustVacate
  <2>3. PICK z \in ZoneState, acq \in SUBSET Task :
          /\ ReleaseResource(w, t, PickupOf(t)) = WithAccess(w, z, acq)
          /\ z.buf = w.zone.buf
          /\ \A r \in w.zone.occ : r \in z.occ \/ r = RobotOf(t)
    BY <1>1, <2>2, ReleaseFacts
  <2> DEFINE v == AtStage(ReleaseResource(w, t, PickupOf(t)), t, "RequestDropoff")
  <2>4. WorldInv(v, V)
    BY <1>4, <2>1, VacatedPickupInv
  <2>5. /\ v.live = w.live /\ v.active = w.active /\ v.blocker = w.blocker
        /\ v.zone = z /\ v.status = w.status
        /\ v.loc = w.loc /\ v.place = w.place /\ v.carrier = w.carrier
        /\ v.paused = w.paused /\ v.mission = w.mission
        /\ OtherDutiesKept(w, v, t)
        /\ v.stage = [w.stage EXCEPT ![t] = "RequestDropoff"]
    BY <1>1, <2>3 DEF AtStage, WithAccess, World, OtherDutiesKept
  <2> HIDE DEF v
  <2>6. /\ v.stage[t] = "RequestDropoff"
        /\ \A u \in Task \ {t} : v.stage[u] = w.stage[u]
    BY <1>1, <2>5, WorldFields
  <2>7. TaskStep(w, v, t)
    BY <2>5, <2>6 DEF TaskStep
  <2>8. StageFits("RequestDropoff", Origin(t), Position(w, ItemOf(t)))
    BY PositionFacts DEF StageFits
  <2>9. BufferFits(v)
    <3>1. BufferFits(w)
      BY DEF PackageInv
    <3>2. v.stage[t] \notin EmptyBufferStages(t)
      BY <2>6 DEF EmptyBufferStages
    <3>3. v.zone.buf = w.zone.buf
      BY <2>3, <2>5
    <3> QED
      BY <2>6, <3>1, <3>2, <3>3, BufferKept DEF BroughtStages, UnfetchedStages
  <2>10. v.stage[t] \notin ZoneStages(t)
    BY <2>6 DEF ZoneStages
  <2>11. w.status[t] # "BLOCKED" /\ w.status[t] # "SUCCEEDED"
    BY <1>2, Unhindered DEF PackageInv, TaskFits, AtWork
  <2>12. PackageInv(v, V) /\ AtWork(v, t)
    BY <1>1, <1>2, <2>1, <2>3, <2>5, <2>6, <2>7, <2>8, <2>9, <2>10, <2>11, GoOnFits
  <2>13. PackageInv(RequestDropoff(v, t), V) /\ TaskStep(v, RequestDropoff(v, t), t)
    BY <2>4, <2>6, <2>12, RequestDropoffFits
  <2>14. TaskStep(w, RequestDropoff(v, t), t)
    BY <2>7, <2>13, TaskStepTransitive
  <2> QED
    BY <1>4, <2>13, <2>14 DEF VacatePickup, v
<1> QED
  BY <1>3, <1>4

(* HandleItem with a load, and the children behind it.                     *)
LEMMA LoadFits ==
  ASSUME NEW w, NEW V, WorldInv(w, V), PackageInv(w, V), NEW t \in Task, AtWork(w, t),
         w.stage[t] = "Load"
  PROVE  PackageInv(Load(w, t), V) /\ TaskStep(w, Load(w, t), t)
<1>1. Engaged(w, t) /\ w \in World /\ w.zone \in ZoneState
  BY WorldFields DEF Engaged, WorldInv
<1>2. CASE ~ IsLoaded(w, t)
  BY <1>2, HandleFits DEF Load
<1>3. CASE IsLoaded(w, t)
  <2> DEFINE z == UpdateAfterLoad(w, t).zone
             v == AtStage(UpdateAfterLoad(w, t), t, "VacatePickup")
  <2>1. UpdateAfterLoad(w, t) = WithZone(w, z)
    BY <1>1 DEF UpdateAfterLoad, WithZone, World
  <2>2. v = AtStage(WithZone(w, z), t, "VacatePickup")
    BY <2>1
  <2>3. PickupOf(t) = Zone => t \in w.acquired
    BY ZoneStageFacts DEF WorldInv, ZoneInv
  <2>4. z = IF PickupOf(t) = Zone THEN ReleaseItem(w.zone, ItemOf(t)) ELSE w.zone
    BY <1>1, <2>3 DEF UpdateAfterLoad, World
  <2>5. /\ z \in ZoneState /\ z.lease = w.zone.lease /\ z.occ = w.zone.occ
        /\ z.buf = IF PickupOf(t) = Zone THEN w.zone.buf \ {ItemOf(t)} ELSE w.zone.buf
    BY <1>1, <2>4 DEF ReleaseItem, ZoneState
  <2> HIDE DEF z, v
  <2>6. /\ TaskStep(w, v, t) /\ v.zone = z /\ v.stage[t] = "VacatePickup"
        /\ \A u \in Task \ {t} : v.stage[u] = w.stage[u]
    BY <1>1, <2>2, StageStep
  <2>7. BufferFits(v)
    <3>1. CASE PickupOf(t) = Zone
      <4>1. LegOf(t) = Outbound
        BY <3>1, ZoneStageFacts
      <4> QED
        BY <1>3, <2>5, <2>6, <3>1, <4>1, FetchedFits
    <3>2. CASE PickupOf(t) # Zone
      <4>1. BufferFits(w)
        BY DEF PackageInv
      <4>2. LegOf(t) = Inbound /\ LegOf(t) # Outbound
        BY <3>2, ZoneStageFacts
      <4>3. v.stage[t] \notin EmptyBufferStages(t)
        BY <2>6, <4>2 DEF EmptyBufferStages
      <4> QED
        BY <2>5, <2>6, <3>2, <4>1, <4>2, <4>3, BufferKept DEF BroughtStages
    <3> QED
      BY <3>1, <3>2
  <2>8. /\ w.active[t] = NoCommand
        /\ w.stage[t] # RequestStage(t) /\ w.stage[t] # ApproachStage(t)
    BY <1>3, FinishedIsIdle DEF Unfinished, RequestStage, ApproachStage
  <2>9. /\ "VacatePickup" \in Stage \ {"ClaimRobot", "Done"}
        /\ w.stage[t] \in ZoneStages(t) <=> "VacatePickup" \in ZoneStages(t)
    BY DEF Stage, ZoneStages
  <2>10. StageFits("VacatePickup", Origin(t), Position(w, ItemOf(t)))
    BY <1>3, PositionFacts DEF StageFits
  <2>11. "VacatePickup" \in ZoneStages(t) \ {ApproachStage(t)} => RobotOf(t) \in z.occ
    BY <2>5, <2>8, <2>9 DEF PackageInv, TaskFits
  <2>12. /\ WorldInv(v, V) /\ PackageInv(v, V) /\ AtWork(v, t)
    BY <1>1, <2>2, <2>5, <2>7, <2>8, <2>9, <2>10, <2>11, ProgressFits
  <2>13. PackageInv(VacatePickup(v, t), V) /\ TaskStep(v, VacatePickup(v, t), t)
    BY <2>6, <2>12, VacatePickupFits
  <2>14. TaskStep(w, VacatePickup(v, t), t)
    BY <2>6, <2>13, TaskStepTransitive
  <2> QED
    BY <1>3, <2>13, <2>14 DEF Load, v
<1> QED
  BY <1>2, <1>3

(* MoveTo the pickup, and the children behind it.                          *)
LEMMA MoveToPickupFits ==
  ASSUME NEW w, NEW V, WorldInv(w, V), PackageInv(w, V), NEW t \in Task, AtWork(w, t),
         w.stage[t] = "MoveToPickup"
  PROVE  PackageInv(MoveToPickup(w, t), V) /\ TaskStep(w, MoveToPickup(w, t), t)
<1>1. Engaged(w, t) /\ w \in World
  BY DEF Engaged, WorldInv
<1>2. CASE w.loc[RobotOf(t)] # PickupOf(t)
  <2>1. PickupOf(t) \in Waypoint /\ MoveFits(w, t, PickupOf(t))
    BY TaskFacts DEF MoveFits
  <2>2. w.stage[t] = ApproachStage(t) => PickupOf(t) # WaitWaypointOf(RobotOf(t))
    BY TaskFacts, ExitFacts, ZoneStageFacts
  <2>3. w.stage[t] # RequestStage(t)
    BY DEF RequestStage
  <2> QED
    BY <1>1, <1>2, <2>1, <2>2, <2>3, DriveFits DEF MoveToPickup
<1>3. CASE w.loc[RobotOf(t)] = PickupOf(t)
  <2> DEFINE z == MarkOccupied(w, t, PickupOf(t)).zone
             v == AtStage(MarkOccupied(w, t, PickupOf(t)), t, "Load")
  <2>1. PickupOf(t) = Zone => t \in w.acquired
    BY ZoneStageFacts DEF WorldInv, ZoneInv
  <2>2. /\ MarkOccupied(w, t, PickupOf(t)) = WithZone(w, z)
        /\ z \in ZoneState /\ z.lease = w.zone.lease /\ z.buf = w.zone.buf
        /\ w.zone.occ \subseteq z.occ
        /\ z.occ \subseteq w.zone.occ \cup (IF t \in w.acquired THEN {RobotOf(t)} ELSE {})
        /\ PickupOf(t) = Zone => RobotOf(t) \in z.occ
    BY <2>1, OccupiedFacts
  <2>3. v = AtStage(WithZone(w, z), t, "Load")
    BY <2>2
  <2> HIDE DEF z, v
  <2>4. /\ TaskStep(w, v, t) /\ v.zone = z /\ v.stage[t] = "Load"
        /\ \A u \in Task \ {t} : v.stage[u] = w.stage[u]
    BY <1>1, <2>3, StageStep
  <2>5. BufferFits(v)
    <3>1. BufferFits(w) /\ v.stage[t] \notin EmptyBufferStages(t)
      BY <2>4 DEF PackageInv, EmptyBufferStages
    <3> QED
      BY <2>2, <2>4, <3>1, BufferKept DEF BroughtStages, UnfetchedStages
  <2>6. /\ w.active[t] = NoCommand /\ w.stage[t] # RequestStage(t)
        /\ w.stage[t] = ApproachStage(t) => PickupOf(t) = Zone
        /\ "Load" \in ZoneStages(t) \ {ApproachStage(t)} => PickupOf(t) = Zone
    BY <1>3, FinishedIsIdle, ZoneStageFacts DEF Unfinished, RequestStage
  <2>7. /\ "Load" \in Stage \ {"ClaimRobot", "Done"}
        /\ w.stage[t] \in ZoneStages(t) <=> "Load" \in ZoneStages(t)
    BY DEF Stage, ZoneStages
  <2>8. StageFits("Load", Origin(t), Position(w, ItemOf(t)))
    BY PositionFacts DEF StageFits
  <2>9. WorldInv(v, V) /\ PackageInv(v, V) /\ AtWork(v, t)
    BY <1>1, <1>3, <2>2, <2>3, <2>5, <2>6, <2>7, <2>8, ProgressFits
  <2>10. PackageInv(Load(v, t), V) /\ TaskStep(v, Load(v, t), t)
    BY <2>4, <2>9, LoadFits
  <2>11. TaskStep(w, Load(v, t), t)
    BY <2>4, <2>10, TaskStepTransitive
  <2> QED
    BY <1>3, <2>10, <2>11 DEF MoveToPickup, v
<1> QED
  BY <1>2, <1>3

(* RequestResourceAccess for the pickup, and the children behind it.       *)
LEMMA RequestPickupFits ==
  ASSUME NEW w, NEW V, WorldInv(w, V), PackageInv(w, V), NEW t \in Task, AtWork(w, t),
         w.stage[t] = "RequestPickup"
  PROVE  PackageInv(RequestPickup(w, t), V) /\ TaskStep(w, RequestPickup(w, t), t)
<1>1. Engaged(w, t) /\ w \in World /\ w.zone \in ZoneState /\ t \notin w.acquired
  BY WorldFields DEF Engaged, WorldInv, ZoneInv, ZoneStages
<1>2. CASE PickupOf(t) # Zone
  <2> DEFINE v == AtStage(w, t, "MoveToPickup")
  <2>1. v = AtStage(WithZone(w, w.zone), t, "MoveToPickup")
    BY <1>1 DEF WithZone, World
  <2>2. LegOf(t) = Inbound /\ ApproachStage(t) = "MoveToDropoff"
        /\ LegOf(t) # Outbound /\ RequestStage(t) = "RequestDropoff"
    BY <1>2, ZoneStageFacts
  <2>3. /\ "MoveToPickup" \in Stage \ {"ClaimRobot", "Done"}
        /\ w.stage[t] \in ZoneStages(t) <=> "MoveToPickup" \in ZoneStages(t)
        /\ "MoveToPickup" \notin ZoneStages(t) /\ w.stage[t] # ApproachStage(t)
        /\ w.stage[t] # RequestStage(t)
    BY <2>2 DEF Stage, ZoneStages
  <2>4. w.active[t] = NoCommand
    BY <1>2, FinishedIsIdle DEF Unfinished
  <2> HIDE DEF v
  <2>5. /\ TaskStep(w, v, t) /\ v.zone = w.zone /\ v.stage[t] = "MoveToPickup"
        /\ \A u \in Task \ {t} : v.stage[u] = w.stage[u]
    BY <1>1, <2>1, StageStep
  <2>6. BufferFits(v)
    <3>1. BufferFits(w) /\ v.stage[t] \notin EmptyBufferStages(t)
      BY <2>2, <2>5 DEF PackageInv, EmptyBufferStages
    <3> QED
      BY <2>2, <2>5, <3>1, BufferKept DEF BroughtStages
  <2>7. StageFits("MoveToPickup", Origin(t), Position(w, ItemOf(t)))
    <3>1. Origin(t) = 0 /\ Position(w, ItemOf(t)) \in 0..4
      BY <2>2 DEF Origin, Position
    <3>2. Position(w, ItemOf(t)) <= 0
      BY <3>1, PositionFacts DEF StageFits
    <3> QED
      BY <3>1, <3>2 DEF StageFits
  <2>8. WorldInv(v, V) /\ PackageInv(v, V) /\ AtWork(v, t)
    BY <1>1, <2>1, <2>3, <2>4, <2>6, <2>7, ProgressFits
  <2>9. PackageInv(MoveToPickup(v, t), V) /\ TaskStep(v, MoveToPickup(v, t), t)
    BY <2>5, <2>8, MoveToPickupFits
  <2>10. TaskStep(w, MoveToPickup(v, t), t)
    BY <2>5, <2>9, TaskStepTransitive
  <2> QED
    BY <1>2, <2>9, <2>10 DEF RequestPickup, v
<1>3. ASSUME PickupOf(t) = Zone
      PROVE  /\ LegOf(t) # Inbound /\ ApproachStage(t) = "MoveToPickup"
             /\ w.stage[t] = RequestStage(t)
  BY <1>3, ZoneStageFacts
<1>4. CASE PickupOf(t) = Zone /\ Granted(w.zone, t, "pickup")
  <2> DEFINE v == AtStage(Acquire(Unblocked(w, t), t), t, "MoveToPickup")
  <2> HIDE DEF v
  <2>1. /\ WorldInv(v, V) /\ PackageInv(v, V) /\ AtWork(v, t) /\ TaskStep(w, v, t)
        /\ v.stage[t] = "MoveToPickup"
    BY <1>3, <1>4, GrantFits DEF v
  <2>2. PackageInv(MoveToPickup(v, t), V) /\ TaskStep(v, MoveToPickup(v, t), t)
    BY <2>1, MoveToPickupFits
  <2>3. TaskStep(w, MoveToPickup(v, t), t)
    BY <2>1, <2>2, TaskStepTransitive
  <2> QED
    BY <1>1, <1>4, <2>2, <2>3 DEF RequestPickup, v
<1>5. CASE PickupOf(t) = Zone /\ ~ Granted(w.zone, t, "pickup")
  <2>1. /\ PackageInv(WaitAtResourceWaypoint(w, t, "pickup"), V)
        /\ TaskStep(w, WaitAtResourceWaypoint(w, t, "pickup"), t)
    BY <1>3, <1>5, WaitFits
  <2> QED
    BY <1>1, <1>5, <2>1 DEF RequestPickup
<1> QED
  BY <1>2, <1>4, <1>5

(* Claiming an idle robot, before the children behind it.                  *)
LEMMA ClaimFits ==
  ASSUME NEW w, NEW V, WorldInv(w, V), PackageInv(w, V), NEW t \in Task, AtWork(w, t),
         w.stage[t] = "ClaimRobot", w.duty[RobotOf(t)] = "IDLE",
         NEW v, v = AtStage(AssignRobot(SetStatus(w, t, "RUNNING"), t), t, "RequestPickup")
  PROVE  /\ WorldInv(v, V) /\ PackageInv(v, V) /\ AtWork(v, t) /\ TaskStep(w, v, t)
         /\ v.stage[t] = "RequestPickup"
<1>1. /\ w \in World /\ w.active[t] = NoCommand
      /\ w.stage[t] # RequestStage(t) /\ RobotOf(t) \in Robot
  BY TaskFacts DEF WorldInv, CommandInv, Engaged, RequestStage
<1>2. WorldInv(v, V)
  BY ClaimInv
<1>3. /\ v.status = [w.status EXCEPT ![t] = "RUNNING"]
      /\ v.stage = [w.stage EXCEPT ![t] = "RequestPickup"]
      /\ v.live = w.live /\ v.active = w.active /\ v.blocker = w.blocker /\ v.zone = w.zone
      /\ v.loc = w.loc /\ v.place = w.place /\ v.carrier = w.carrier
      /\ v.paused = w.paused /\ v.mission = w.mission
      /\ v.duty = [w.duty EXCEPT ![RobotOf(t)] = "BUSY"]
  BY <1>1 DEF AtStage, AssignRobot, SetStatus, World
<1>4. /\ v.status[t] = "RUNNING" /\ v.stage[t] = "RequestPickup"
      /\ \A u \in Task \ {t} : v.status[u] = w.status[u] /\ v.stage[u] = w.stage[u]
      /\ OtherDutiesKept(w, v, t)
  BY <1>1, <1>3, WorldFields DEF OtherDutiesKept
<1>5. TaskStep(w, v, t)
  BY <1>3, <1>4 DEF TaskStep
<1>6. StageFits("RequestPickup", Origin(t), Position(w, ItemOf(t)))
  BY PositionFacts DEF StageFits
<1>7. BufferFits(v)
  <2>1. BufferFits(w) /\ v.stage[t] \notin EmptyBufferStages(t) /\ v.zone.buf = w.zone.buf
    BY <1>3, <1>4 DEF PackageInv, EmptyBufferStages
  <2> QED
    BY <1>4, <2>1, BufferKept DEF BroughtStages, UnfetchedStages
<1>8. v.stage[t] \notin ZoneStages(t)
  BY <1>4 DEF ZoneStages
<1>9. PackageInv(v, V) /\ AtWork(v, t)
  BY <1>1, <1>3, <1>4, <1>5, <1>6, <1>7, <1>8, GoOnFits
<1> QED
  BY <1>2, <1>4, <1>5, <1>9

(* ClaimRobot, and the children behind it.                                 *)
LEMMA ClaimRobotFits ==
  ASSUME NEW w, NEW V, WorldInv(w, V), PackageInv(w, V), NEW t \in Task, AtWork(w, t),
         w.stage[t] = "ClaimRobot"
  PROVE  PackageInv(ClaimRobot(w, t), V) /\ TaskStep(w, ClaimRobot(w, t), t)
<1>1. w.claim[RobotOf(t)] # t
  BY DEF WorldInv, TaskInv, Engaged
<1>2. CASE w.duty[RobotOf(t)] # "IDLE"
  BY <1>1, <1>2, TaskStepReflexive DEF ClaimRobot
<1>3. CASE w.duty[RobotOf(t)] = "IDLE"
  <2> DEFINE v == AtStage(AssignRobot(SetStatus(w, t, "RUNNING"), t), t, "RequestPickup")
  <2> HIDE DEF v
  <2>1. /\ WorldInv(v, V) /\ PackageInv(v, V) /\ AtWork(v, t) /\ TaskStep(w, v, t)
        /\ v.stage[t] = "RequestPickup"
    BY <1>3, ClaimFits DEF v
  <2>2. PackageInv(RequestPickup(v, t), V) /\ TaskStep(v, RequestPickup(v, t), t)
    BY <2>1, RequestPickupFits
  <2>3. TaskStep(w, RequestPickup(v, t), t)
    BY <2>1, <2>2, TaskStepTransitive
  <2> QED
    BY <1>1, <1>3, <2>2, <2>3 DEF ClaimRobot, v
<1> QED
  BY <1>2, <1>3

-----------------------------------------------------------------------------
(* A tick of a task at work keeps the packages in order, and so does the   *)
(* start of a pending task.                                                *)
LEMMA TickFits ==
  ASSUME NEW w, NEW V, WorldInv(w, V), PackageInv(w, V), NEW t \in Task, AtWork(w, t)
  PROVE  PackageInv(Tick(w, t), V) /\ TaskStep(w, Tick(w, t), t)
<1>1. w.stage[t] \in Stage /\ w.stage[t] # "Done"
  BY WorldFields DEF WorldInv, AtWork
<1>2. CASE w.stage[t] = "ClaimRobot"
  BY <1>2, ClaimRobotFits DEF Tick
<1>3. CASE w.stage[t] = "RequestPickup"
  BY <1>3, RequestPickupFits DEF Tick
<1>4. CASE w.stage[t] = "MoveToPickup"
  BY <1>4, MoveToPickupFits DEF Tick
<1>5. CASE w.stage[t] = "Load"
  BY <1>5, LoadFits DEF Tick
<1>6. CASE w.stage[t] = "VacatePickup"
  BY <1>6, VacatePickupFits DEF Tick
<1>7. CASE w.stage[t] = "RequestDropoff"
  BY <1>7, RequestDropoffFits DEF Tick
<1>8. CASE w.stage[t] = "MoveToDropoff"
  BY <1>8, MoveToDropoffFits DEF Tick
<1>9. CASE w.stage[t] = "Unload"
  BY <1>9, UnloadFits DEF Tick
<1>10. CASE w.stage[t] = "VacateDropoff"
  BY <1>10, VacateDropoffFits DEF Tick
<1> QED
  BY <1>1, <1>2, <1>3, <1>4, <1>5, <1>6, <1>7, <1>8, <1>9, <1>10 DEF Stage

LEMMA StartFits ==
  ASSUME NEW w, NEW V, WorldInv(w, V), PackageInv(w, V), NEW t \in Task,
         w.status[t] = "PENDING", w.duty[RobotOf(t)] = "IDLE"
  PROVE  PackageInv(Start(w, t), V) /\ TaskStep(w, Start(w, t), t)
<1>1. w \in World /\ w.stage[t] = "ClaimRobot" /\ w.claim[RobotOf(t)] # t
  BY TaskFacts DEF WorldInv, TaskInv, Engaged
<1>2. AtWork(w, t)
  BY <1>1 DEF AtWork, PackageInv, BlockerFits
<1> DEFINE s == SetStatus(w, t, "RUNNING")
           v == AtStage(AssignRobot(s, t), t, "RequestPickup")
<1>3. /\ s.stage = w.stage /\ s.claim = w.claim /\ s.duty = w.duty
      /\ SetStatus(s, t, "RUNNING") = s
  BY <1>1, WorldFields DEF SetStatus, World
<1>4. /\ WorldInv(v, V) /\ PackageInv(v, V) /\ AtWork(v, t) /\ TaskStep(w, v, t)
      /\ v.stage[t] = "RequestPickup"
  BY <1>1, <1>2, ClaimFits
<1> HIDE DEF s
<1>5. Tick(s, t) = RequestPickup(v, t)
  BY <1>1, <1>3 DEF Tick, ClaimRobot
<1> HIDE DEF v
<1>6. PackageInv(RequestPickup(v, t), V) /\ TaskStep(v, RequestPickup(v, t), t)
  BY <1>4, RequestPickupFits
<1>7. TaskStep(w, RequestPickup(v, t), t)
  BY <1>4, <1>6, TaskStepTransitive
<1> QED
  BY <1>5, <1>6, <1>7 DEF Start, s
=============================================================================
