-------------------------- MODULE PackageTheorems --------------------------
(***************************************************************************)
(* The handlers of mission events and the callbacks of the node keep the   *)
(* second layer PackageInv of the inductive invariant, and the theorems    *)
(* that rest on it: what the node guarantees about packages, about the     *)
(* zone's books and about what is shown, and that the mission implements   *)
(* what it promises about packages and about the transfer zone.            *)
(***************************************************************************)
EXTENDS PackageProofs, FiniteSetTheorems

(* Updates of the mission's status, of the pauses, and of the status and   *)
(* the blockers of tasks.                                                  *)
LEMMA AdministrationFits ==
  ASSUME NEW w, NEW V, WorldInv(w, V), PackageInv(w, V), NEW v, SameWork(w, v),
         \A t \in Task :
           /\ w.stage[t] = "Done" <=> v.status[t] = "SUCCEEDED"
           /\ v.status[t] = "BLOCKED" =>
                w.status[t] = "BLOCKED" /\ v.blocker[t] = w.blocker[t]
           /\ \/ /\ v.blocker[t] = w.blocker[t]
                 /\ w.blocker[t].reason = "command_failed" =>
                      v.status[t] \in {"FAILED", "CANCELLED"}
              \/ /\ v.blocker[t].reason = "command_failed"
                 /\ v.status[t] = "FAILED" /\ w.active[t] = NoCommand,
         MissionFits(v)
  PROVE  PackageInv(v, V)
<1>1. /\ v.live = w.live /\ v.stage = w.stage /\ v.active = w.active /\ v.zone = w.zone
      /\ v.loc = w.loc /\ v.place = w.place /\ v.carrier = w.carrier
  BY DEF SameWork
<1>2. \A p \in Item : OnTheWay(v, p) /\ Position(v, p) = Position(w, p)
  BY <1>1 DEF PackageInv, OnTheWay, Position
<1>3. ASSUME NEW t \in Task PROVE TaskFits(v, t) /\ BlockerFits(v, t)
  <2>1. TaskFits(w, t) /\ BlockerFits(w, t) /\ ItemOf(t) \in Item
    BY TaskFacts DEF PackageInv
  <2>2. TaskFits(v, t)
    BY <1>1, <1>2, <2>1 DEF TaskFits
  <2>3. BlockerFits(v, t)
    BY <1>1, <2>1 DEF BlockerFits
  <2> QED
    BY <2>2, <2>3
<1>4. BufferFits(v)
  BY <1>1 DEF PackageInv, BufferFits, IsBuffered
<1>5. \A c \in v.live : CommandFits(v, c)
  BY <1>1 DEF PackageInv, CommandFits, MoveFits
<1>6. VisitorsFit(v, V)
  BY <1>1 DEF PackageInv, VisitorsFit, IsWaitMove
<1> QED
  BY <1>2, <1>3, <1>4, <1>5, <1>6 DEF PackageInv

(* Any other status of the mission than "FAILED"; completed it may only be *)
(* with all its tasks.                                                     *)
LEMMA SetMissionFits ==
  ASSUME NEW w, NEW V, WorldInv(w, V), PackageInv(w, V),
         NEW s, s # "FAILED", s = "COMPLETED" => AllSucceeded(w)
  PROVE  PackageInv(SetMission(w, s), V)
<1> DEFINE v == SetMission(w, s)
<1>1. w \in World
  BY DEF WorldInv
<1>2. SameWork(w, v) /\ v.mission = s /\ v.status = w.status /\ v.blocker = w.blocker
  BY <1>1 DEF SetMission, SameWork, World
<1> HIDE DEF v
<1>3. MissionFits(v)
  BY <1>2 DEF MissionFits, AllSucceeded
<1>4. ASSUME NEW t \in Task
      PROVE  /\ w.stage[t] = "Done" <=> w.status[t] = "SUCCEEDED"
             /\ w.blocker[t].reason = "command_failed" => w.status[t] \in {"FAILED", "CANCELLED"}
  BY DEF PackageInv, TaskFits, BlockerFits
<1>5. PackageInv(v, V)
  BY <1>2, <1>3, <1>4, AdministrationFits
<1> QED
  BY <1>5 DEF v

(* The pauses of robots.                                                   *)
LEMMA SetPausedFits ==
  ASSUME NEW w, NEW V, WorldInv(w, V), PackageInv(w, V), NEW P,
         NEW v, v = [w EXCEPT !.paused = P]
  PROVE  PackageInv(v, V)
<1>1. w \in World
  BY DEF WorldInv
<1>2. SameWork(w, v) /\ v.mission = w.mission /\ v.status = w.status /\ v.blocker = w.blocker
  BY <1>1 DEF SameWork, World
<1>3. MissionFits(v)
  <2>1. v.stage = w.stage
    BY <1>2 DEF SameWork
  <2> QED
    BY <1>2, <2>1 DEF PackageInv, MissionFits, AllSucceeded, HasFailed, Engaged
<1>4. ASSUME NEW t \in Task
      PROVE  /\ w.stage[t] = "Done" <=> w.status[t] = "SUCCEEDED"
             /\ w.blocker[t].reason = "command_failed" => w.status[t] \in {"FAILED", "CANCELLED"}
  BY DEF PackageInv, TaskFits, BlockerFits
<1> QED
  BY <1>2, <1>3, <1>4, AdministrationFits

(* The status of a task at work.                                           *)
LEMMA SetStatusFits ==
  ASSUME NEW w, NEW V, WorldInv(w, V), PackageInv(w, V), NEW t \in Task, AtWork(w, t),
         NEW st \in TaskStatus \ {"SUCCEEDED", "BLOCKED"},
         NEW v, v = SetStatus(w, t, st)
  PROVE  PackageInv(v, V) /\ AtWork(v, t)
<1>1. w \in World
  BY DEF WorldInv
<1>2. /\ v.status = [w.status EXCEPT ![t] = st] /\ v.blocker = w.blocker
      /\ v.live = w.live /\ v.stage = w.stage /\ v.active = w.active /\ v.zone = w.zone
      /\ v.loc = w.loc /\ v.place = w.place /\ v.carrier = w.carrier
      /\ v.paused = w.paused /\ v.mission = w.mission
      /\ OtherDutiesKept(w, v, t)
  BY <1>1 DEF SetStatus, World, OtherDutiesKept
<1>3. w.blocker = [w.blocker EXCEPT ![t] = w.blocker[t]]
  BY <1>1, WorldFields
<1>4. w.blocker[t] = BlockedByNothing \/ w.stage[t] = RequestStage(t)
  BY DEF PackageInv, BlockerFits, AtWork
<1>5. w.blocker[t].reason # "command_failed"
  BY DEF AtWork
<1> QED
  BY <1>2, <1>3, <1>4, <1>5, StatusFits

(* The failure of a task at work that has no command, with its mission.    *)
LEMMA FailTaskFits ==
  ASSUME NEW w, NEW V, WorldInv(w, V), PackageInv(w, V), NEW t \in Task, AtWork(w, t),
         Engaged(w, t), w.active[t] = NoCommand
  PROVE  PackageInv(FailTask(w, t), V)
<1> DEFINE b == BlockedByRobot("command_failed", RobotOf(t))
           v == FailTask(w, t)
<1>1. w \in World
  BY DEF WorldInv
<1>2. /\ SameWork(w, v) /\ v.mission = "FAILED"
      /\ v.status = [w.status EXCEPT ![t] = "FAILED"]
      /\ v.blocker = [w.blocker EXCEPT ![t] = b]
  BY <1>1 DEF FailTask, SetMission, SetBlocker, SetStatus, SameWork, World
<1>3. /\ v.status[t] = "FAILED" /\ v.blocker[t] = b
      /\ \A u \in Task \ {t} : v.status[u] = w.status[u] /\ v.blocker[u] = w.blocker[u]
  BY <1>1, <1>2, WorldFields
<1>4. b.reason = "command_failed"
  BY DEF BlockedByRobot
<1> HIDE DEF v, b
<1>5. MissionFits(v)
  <2>1. HasFailed(v, t)
    BY <1>2, <1>3, <1>4 DEF HasFailed, Engaged, SameWork
  <2> QED
    BY <1>2, <2>1 DEF MissionFits
<1>6. ASSUME NEW u \in Task
      PROVE  /\ w.stage[u] = "Done" <=> w.status[u] = "SUCCEEDED"
             /\ w.blocker[u].reason = "command_failed" => w.status[u] \in {"FAILED", "CANCELLED"}
  BY DEF PackageInv, TaskFits, BlockerFits
<1>7. w.stage[t] # "Done"
  BY DEF AtWork
<1>8. SameWork(w, v)
  BY <1>2
<1>9. ASSUME NEW u \in Task
      PROVE  /\ w.stage[u] = "Done" <=> v.status[u] = "SUCCEEDED"
             /\ v.status[u] = "BLOCKED" =>
                  w.status[u] = "BLOCKED" /\ v.blocker[u] = w.blocker[u]
             /\ \/ /\ v.blocker[u] = w.blocker[u]
                   /\ w.blocker[u].reason = "command_failed" =>
                        v.status[u] \in {"FAILED", "CANCELLED"}
                \/ /\ v.blocker[u].reason = "command_failed"
                   /\ v.status[u] = "FAILED" /\ w.active[u] = NoCommand
  <2>1. CASE u = t
    BY <1>3, <1>4, <1>7, <2>1
  <2>2. CASE u # t
    BY <1>3, <1>6, <2>2
  <2> QED
    BY <2>1, <2>2
<1>10. PackageInv(v, V)
  BY <1>5, <1>8, <1>9, AdministrationFits
<1> QED
  BY <1>10 DEF v

(* An abort cancels what is not finished.                                  *)
LEMMA AbortFits ==
  ASSUME NEW w, NEW V, WorldInv(w, V), PackageInv(w, V)
  PROVE  PackageInv(SetMission(CancelUnfinished(w), "ABORTED"), V)
<1> DEFINE v == SetMission(CancelUnfinished(w), "ABORTED")
<1>1. w \in World
  BY DEF WorldInv
<1>2. /\ SameWork(w, v) /\ v.mission = "ABORTED" /\ v.blocker = w.blocker
      /\ v.status = [t \in Task |-> IF w.status[t] = "SUCCEEDED" THEN w.status[t] ELSE "CANCELLED"]
  BY <1>1 DEF CancelUnfinished, SetMission, SameWork, World
<1> HIDE DEF v
<1>3. \A t \in Task : v.status[t] = IF w.status[t] = "SUCCEEDED" THEN "SUCCEEDED" ELSE "CANCELLED"
  BY <1>2
<1>4. MissionFits(v)
  BY <1>2 DEF MissionFits
<1>5. ASSUME NEW u \in Task
      PROVE  /\ w.stage[u] = "Done" <=> w.status[u] = "SUCCEEDED"
             /\ w.blocker[u].reason = "command_failed" => w.status[u] \in {"FAILED", "CANCELLED"}
  BY DEF PackageInv, TaskFits, BlockerFits
<1>6. PackageInv(v, V)
  BY <1>2, <1>3, <1>4, <1>5, AdministrationFits
<1> QED
  BY <1>6 DEF v

-----------------------------------------------------------------------------
(* Results of commands.                                                    *)

(* A task with a command under way is at work.                             *)
LEMMA CommandedTaskAtWork ==
  ASSUME NEW w, NEW V, WorldInv(w, V), PackageInv(w, V), NEW c \in w.live
  PROVE  /\ c.task \in Task /\ Engaged(w, c.task) /\ AtWork(w, c.task)
         /\ w.active[c.task] # NoCommand /\ w.status[c.task] # "BLOCKED"
         /\ CommandFits(w, c)
<1>1. c.task \in Task /\ Engaged(w, c.task) /\ w.active[c.task] # NoCommand
  BY LiveCommandFacts DEF IsActiveCommand
<1>2. TaskFits(w, c.task) /\ BlockerFits(w, c.task) /\ CommandFits(w, c)
  BY <1>1 DEF PackageInv
<1> QED
  BY <1>1, <1>2 DEF AtWork, Engaged, TaskFits, BlockerFits

(* A command that is answered is dropped, with its task still at work.     *)
LEMMA DropFits ==
  ASSUME NEW w, NEW V, WorldInv(w, V), PackageInv(w, V), NEW c \in w.live,
         NEW v, v = ForgetCommand(MarkTerminal(w, c), c.task)
  PROVE  /\ WorldInv(v, V) /\ PackageInv(v, V) /\ AtWork(v, c.task) /\ Engaged(v, c.task)
         /\ v.active[c.task] = NoCommand /\ v.live = w.live \ {c}
         /\ v.stage = w.stage /\ v.loc = w.loc /\ v.place = w.place /\ v.carrier = w.carrier
         /\ v.zone = w.zone /\ v.status = w.status
         /\ v.paused = w.paused /\ v.mission = w.mission
<1>1. w \in World
  BY DEF WorldInv
<1>2. /\ v.live = w.live \ {c} /\ v.active = [w.active EXCEPT ![c.task] = NoCommand]
      /\ v.stage = w.stage /\ v.zone = w.zone /\ v.status = w.status /\ v.blocker = w.blocker
      /\ v.loc = w.loc /\ v.place = w.place /\ v.carrier = w.carrier
      /\ v.paused = w.paused /\ v.mission = w.mission
  BY <1>1 DEF ForgetCommand, MarkTerminal, World
<1>3. WorldInv(v, V) /\ v.active[c.task] = NoCommand
  BY DropInv
<1>4. c.task \in Task /\ AtWork(v, c.task) /\ Engaged(v, c.task)
  BY <1>2, CommandedTaskAtWork DEF AtWork, Engaged
<1>5. \A t \in Task : v.active[t] \in {w.active[t], NoCommand}
  BY <1>1, <1>2, WorldFields
<1>6. \A p \in Item : OnTheWay(v, p) /\ Position(v, p) = Position(w, p)
  BY <1>2 DEF PackageInv, OnTheWay, Position
<1>7. ASSUME NEW t \in Task PROVE TaskFits(v, t) /\ BlockerFits(v, t)
  <2>1. TaskFits(w, t) /\ BlockerFits(w, t) /\ ItemOf(t) \in Item
    BY TaskFacts DEF PackageInv
  <2>2. TaskFits(v, t)
    BY <1>2, <1>5, <1>6, <2>1 DEF TaskFits
  <2>3. BlockerFits(v, t)
    BY <1>2, <1>5, <2>1 DEF BlockerFits
  <2> QED
    BY <2>2, <2>3
<1>8. BufferFits(v)
  BY <1>2 DEF PackageInv, BufferFits, IsBuffered
<1>9. \A d \in v.live : CommandFits(v, d)
  BY <1>2 DEF PackageInv, CommandFits, MoveFits
<1>10. MissionFits(v)
  <2>1. MissionFits(w)
    BY DEF PackageInv
  <2> QED
    BY <1>2, <2>1 DEF MissionFits, AllSucceeded, HasFailed, Engaged
<1>11. VisitorsFit(v, V)
  BY <1>2 DEF PackageInv, VisitorsFit, IsWaitMove
<1>12. PackageInv(v, V)
  BY <1>6, <1>7, <1>8, <1>9, <1>10, <1>11 DEF PackageInv
<1> QED
  BY <1>2, <1>3, <1>4, <1>12

(* A move commanded once more, to the same target.                         *)
LEMMA RetryFits ==
  ASSUME NEW w, NEW V, WorldInv(w, V), PackageInv(w, V), NEW c,
         c.task \in Task, AtWork(w, c.task), Engaged(w, c.task), w.active[c.task] = NoCommand,
         c.kind = "move", c.target \in Waypoint, MoveFits(w, c.task, c.target),
         c.target = WaitWaypointOf(RobotOf(c.task))
           /\ w.stage[c.task] \in {RequestStage(c.task), ApproachStage(c.task)}
             => RobotOf(c.task) \notin V,
         w.stage[c.task] = RequestStage(c.task) =>
           w.loc[RobotOf(c.task)] # WaitWaypointOf(RobotOf(c.task))
  PROVE  /\ PackageInv(RetryMove(w, c), V) /\ TaskStep(w, RetryMove(w, c), c.task)
         /\ \A e \in RetryMove(w, c).live \ w.live :
              /\ e.id = w.next /\ e.task = c.task
              /\ e.kind = "move" /\ e.target = c.target
<1> DEFINE t == c.task
           counters == [w.retries EXCEPT ![t][c.target] = @ + 1]
           v == [w EXCEPT !.retries = counters]
<1>1. w \in World /\ "move" \in Kind /\ c.target \in Waypoint \cup {NoTarget}
  BY DEF WorldInv, Kind
<1>2. counters \in [Task -> [Waypoint -> Nat]]
  <2>1. w.retries[t] \in [Waypoint -> Nat]
    BY <1>1, WorldFields
  <2>2. [w.retries[t] EXCEPT ![c.target] = @ + 1] \in [Waypoint -> Nat]
    BY <2>1
  <2> QED
    BY <1>1, <2>2, WorldFields
<1>3. /\ v \in World /\ SameWork(w, v)
      /\ v.status = w.status /\ v.blocker = w.blocker
      /\ v.paused = w.paused /\ v.mission = w.mission
  <2> HIDE DEF counters
  <2>1. v \in World
    BY <1>1, <1>2 DEF World
  <2> QED
    BY <1>1, <2>1 DEF SameWork, World
<1>4. [SetStatus(w, t, "RUNNING") EXCEPT !.retries[t][c.target] = @ + 1]
        = SetStatus(v, t, "RUNNING")
  BY <1>1 DEF SetStatus, World
<1> HIDE DEF v
<1>5. WorldInv(v, V)
  BY <1>3, SameWorkInv
<1>6. /\ v.live = w.live /\ v.stage = w.stage /\ v.active = w.active /\ v.loc = w.loc
      /\ v.zone = w.zone /\ v.place = w.place /\ v.carrier = w.carrier /\ v.next = w.next
  BY <1>3 DEF SameWork
<1>7. MissionFits(v)
  BY <1>3, <1>6 DEF PackageInv, MissionFits, AllSucceeded, HasFailed, Engaged
<1>8. ASSUME NEW u \in Task
      PROVE  /\ w.stage[u] = "Done" <=> w.status[u] = "SUCCEEDED"
             /\ w.blocker[u].reason = "command_failed" => w.status[u] \in {"FAILED", "CANCELLED"}
  BY DEF PackageInv, TaskFits, BlockerFits
<1>9. PackageInv(v, V)
  BY <1>3, <1>7, <1>8, AdministrationFits
<1>10. TaskStep(w, v, t)
  BY <1>3, <1>6 DEF TaskStep, SameWork, OtherDutiesKept
<1>11. AtWork(v, t) /\ Engaged(v, t) /\ MoveFits(v, t, c.target)
  BY <1>3, <1>6 DEF AtWork, Engaged, MoveFits
<1> DEFINE x == AddCommand(SetStatus(v, t, "RUNNING"), t, "move", c.target)
<1>12. x.live = v.live \cup {[id |-> v.next, task |-> t, kind |-> "move", target |-> c.target]}
  BY <1>3 DEF AddCommand, SetStatus, World
<1> HIDE DEF x
<1>13. PackageInv(x, V) /\ TaskStep(v, x, t)
  <2>1. /\ v.stage[t] = RequestStage(t) => v.loc[RobotOf(t)] # WaitWaypointOf(RobotOf(t))
        /\ c.target = WaitWaypointOf(RobotOf(t))
             /\ v.stage[t] \in {RequestStage(t), ApproachStage(t)} => RobotOf(t) \notin V
        /\ v.active[t] = NoCommand
    BY <1>6
  <2> QED
    BY <1>1, <1>5, <1>9, <1>11, <2>1, EmissionFits DEF x
<1>14. TaskStep(w, x, t)
  BY <1>10, <1>13, TaskStepTransitive
<1>15. RetryMove(w, c) = x
  BY <1>4 DEF RetryMove, CreateMove, x
<1> QED
  BY <1>6, <1>12, <1>13, <1>14, <1>15

(* The robot arrived. Elsewhere than in the zone, it is no visitor then.   *)
LEMMA ArrivalFits ==
  ASSUME NEW w, NEW V, WorldInv(w, V), PackageInv(w, V), NEW t \in Task, AtWork(w, t),
         Engaged(w, t), w.active[t] = NoCommand, w.status[t] # "BLOCKED",
         NEW x \in Waypoint, MoveFits(w, t, x), x = Zone => RobotOf(t) \in V,
         NEW v, v = MoveRobot(w, RobotOf(t), x)
  PROVE  PackageInv(v, IF x = Zone THEN V ELSE V \ {RobotOf(t)})
<1> DEFINE r == RobotOf(t)
           W == IF x = Zone THEN V ELSE V \ {r}
<1>1. w \in World /\ r \in Robot /\ TaskInv(w)
  BY TaskFacts DEF WorldInv
<1>2. /\ v.loc = [w.loc EXCEPT ![r] = x]
      /\ v.live = w.live /\ v.stage = w.stage /\ v.active = w.active /\ v.zone = w.zone
      /\ v.place = w.place /\ v.carrier = w.carrier
      /\ v.status = w.status /\ v.blocker = w.blocker
      /\ v.paused = w.paused /\ v.mission = w.mission
  BY <1>1 DEF MoveRobot, World
<1>3. v.loc[r] = x /\ \A q \in Robot \ {r} : v.loc[q] = w.loc[q]
  BY <1>1, <1>2, WorldFields
<1>4. \A p \in Item : OnTheWay(v, p) /\ Position(v, p) = Position(w, p)
  BY <1>2 DEF PackageInv, OnTheWay, Position
<1>5. ASSUME NEW u \in Task PROVE TaskFits(v, u) /\ BlockerFits(v, u)
  <2>1. TaskFits(w, u) /\ BlockerFits(w, u) /\ ItemOf(u) \in Item /\ RobotOf(u) \in Robot
    BY TaskFacts DEF PackageInv
  <2>2. BlockerFits(v, u)
    BY <1>2, <2>1 DEF BlockerFits
  <2>3. CASE u = t
    <3>1. w.stage[t] \notin {"Load", "Unload"}
      BY DEF MoveFits, RequestStage, ApproachStage, VacateStage
    <3> QED
      BY <1>2, <1>4, <2>1, <2>2, <2>3, <3>1 DEF TaskFits
  <2>4. CASE u # t /\ RobotOf(u) = r
    <3>1. ~ Engaged(w, u)
      BY <1>1, <2>4, EngagedAlone
    <3>2. w.stage[u] \notin {"Load", "Unload"} /\ w.stage[u] # RequestStage(u)
      BY <3>1 DEF Engaged, RequestStage
    <3>3. w.status[u] # "BLOCKED"
      BY <2>1, <3>2 DEF TaskFits
    <3> QED
      BY <1>2, <1>4, <2>1, <2>2, <3>2, <3>3 DEF TaskFits
  <2>5. CASE RobotOf(u) # r
    <3>1. v.loc[RobotOf(u)] = w.loc[RobotOf(u)]
      BY <1>3, <2>1, <2>5
    <3> QED
      BY <1>2, <1>4, <2>1, <2>2, <3>1 DEF TaskFits
  <2> QED
    BY <2>3, <2>4, <2>5
<1>6. BufferFits(v)
  BY <1>2 DEF PackageInv, BufferFits, IsBuffered
<1>7. \A c \in v.live : CommandFits(v, c)
  BY <1>2 DEF PackageInv, CommandFits, MoveFits
<1>8. MissionFits(v)
  BY <1>2 DEF PackageInv, MissionFits, AllSucceeded, HasFailed, Engaged
<1>9. VisitorsFit(v, W)
  <2>1. VisitorsFit(w, V) /\ W \subseteq V
    BY DEF PackageInv
  <2>2. \A q \in Robot : v.loc[q] = Zone => q \in W
    BY <1>3, <2>1 DEF VisitorsFit
  <2>3. \A c \in v.live : IsWaitMove(v, c) => IsWaitMove(w, c)
    BY <1>2 DEF IsWaitMove
  <2> QED
    BY <1>2, <2>1, <2>2, <2>3 DEF VisitorsFit
<1> QED
  BY <1>4, <1>5, <1>6, <1>7, <1>8, <1>9 DEF PackageInv

(* A package changes its place, and the tasks about it are where they can  *)
(* be then.                                                                *)
LEMMA PlacedFits ==
  ASSUME NEW w, NEW V, PackageInv(w, V), NEW p \in Item,
         NEW v, v.live = w.live, v.stage = w.stage, v.active = w.active, v.zone = w.zone,
         v.loc = w.loc, v.status = w.status, v.blocker = w.blocker, v.mission = w.mission,
         \A q \in Item \ {p} : v.place[q] = w.place[q] /\ v.carrier[q] = w.carrier[q],
         OnTheWay(v, p),
         \A u \in Task : ItemOf(u) = p => StageFits(w.stage[u], Origin(u), Position(v, p))
  PROVE  PackageInv(v, V)
<1>1. \A q \in Item : OnTheWay(v, q) /\ (q # p => Position(v, q) = Position(w, q))
  BY DEF PackageInv, OnTheWay, Position
<1>2. ASSUME NEW u \in Task PROVE TaskFits(v, u) /\ BlockerFits(v, u)
  <2>1. TaskFits(w, u) /\ BlockerFits(w, u) /\ ItemOf(u) \in Item
    BY TaskFacts DEF PackageInv
  <2>2. StageFits(v.stage[u], Origin(u), Position(v, ItemOf(u)))
    BY <1>1, <2>1 DEF TaskFits
  <2>3. TaskFits(v, u)
    BY <2>1, <2>2 DEF TaskFits
  <2>4. BlockerFits(v, u)
    BY <2>1 DEF BlockerFits
  <2> QED
    BY <2>3, <2>4
<1>3. BufferFits(v)
  BY DEF PackageInv, BufferFits, IsBuffered
<1>4. \A c \in v.live : CommandFits(v, c)
  BY DEF PackageInv, CommandFits, MoveFits
<1>5. MissionFits(v)
  BY DEF PackageInv, MissionFits, AllSucceeded, HasFailed, Engaged
<1>6. VisitorsFit(v, V)
  BY DEF PackageInv, VisitorsFit, IsWaitMove
<1> QED
  BY <1>1, <1>2, <1>3, <1>4, <1>5, <1>6 DEF PackageInv

(* The two tasks of a package are at most at its handling at a time.       *)
LEMMA LoadedFits ==
  ASSUME NEW w, NEW V, WorldInv(w, V), PackageInv(w, V), NEW t \in Task,
         w.stage[t] = "Load", ~ IsLoaded(w, t),
         NEW v, v = LoadItem(w, RobotOf(t), ItemOf(t))
  PROVE  /\ PackageInv(v, V)
         /\ IsItemAt(w, ItemOf(t), PickupOf(t))
         /\ v.carrier = [w.carrier EXCEPT ![ItemOf(t)] = RobotOf(t)]
         /\ v.place = w.place
<1> DEFINE p == ItemOf(t)
           r == RobotOf(t)
           o == Origin(t)
<1>1. w \in World /\ p \in Item /\ r \in Robot
  BY TaskFacts DEF WorldInv
<1>2. w.loc[r] = PickupOf(t) /\ StageFits(w.stage[t], o, Position(w, p))
  BY DEF PackageInv, TaskFits
<1>3. Position(w, p) = o /\ IsItemAt(w, p, PickupOf(t))
  BY <1>2, PositionFacts DEF StageFits
<1>4. /\ v.carrier = [w.carrier EXCEPT ![p] = r] /\ v.place = [w.place EXCEPT ![p] = w.loc[r]]
      /\ v.live = w.live /\ v.stage = w.stage /\ v.active = w.active /\ v.zone = w.zone
      /\ v.loc = w.loc /\ v.status = w.status /\ v.blocker = w.blocker
      /\ v.mission = w.mission
  BY <1>1 DEF LoadItem, World
<1>5. v.place = w.place
  BY <1>1, <1>2, <1>3, <1>4, WorldFields DEF IsItemAt
<1>6. v.carrier[p] = r /\ \A q \in Item \ {p} : v.carrier[q] = w.carrier[q]
  BY <1>1, <1>4, WorldFields
<1>7. /\ OnTheWay(v, p) /\ Position(v, p) = o + 1
  <2>1. w.place[p] = PickupOf(t)
    BY <1>3 DEF IsItemAt
  <2>2. UpstreamRobot # DownstreamRobot /\ Inbound # Outbound /\ Zone # "source"
    BY DEF UpstreamRobot, DownstreamRobot, Inbound, Outbound, Zone
  <2> QED
    BY <1>5, <1>6, <2>1, <2>2, TaskFacts DEF OnTheWay, Position, Origin
<1>8. ASSUME NEW u \in Task, ItemOf(u) = p
      PROVE  StageFits(w.stage[u], Origin(u), Position(v, p))
  <2>1. StageFits(w.stage[u], Origin(u), Position(w, p))
    BY <1>8, PositionFacts
  <2>2. CASE u = t
    BY <1>7, <2>2 DEF StageFits
  <2>3. CASE u # t
    <3>1. \/ o = 0 /\ Origin(u) = 2
          \/ o = 2 /\ Origin(u) = 0
      <4>1. LegOf(t) # LegOf(u) /\ Inbound # Outbound
        BY <1>8, <2>3, LegIdentity, TaskFacts DEF Inbound, Outbound
      <4> QED
        BY <4>1, TaskFacts DEF Origin
    <3>2. CASE o = 0 /\ Origin(u) = 2
      BY <1>3, <1>7, <2>1, <3>2 DEF StageFits
    <3>3. CASE o = 2 /\ Origin(u) = 0
      <4>1. w.stage[u] \notin {"Unload", "VacateDropoff"}
        <5>1. LegOf(u) = Inbound /\ LegOf(t) # Inbound
          BY <3>3, TaskFacts DEF Origin
        <5>2. w.stage[t] \in ZoneStages(t)
          BY <5>1 DEF ZoneStages
        <5>3. w.stage[u] \in {"Unload", "VacateDropoff"} => w.stage[u] \in ZoneStages(u)
          BY <5>1 DEF ZoneStages
        <5> QED
          BY <2>3, <5>2, <5>3, AloneInZone
      <4> QED
        BY <1>3, <1>7, <2>1, <3>3, <4>1 DEF StageFits
    <3> QED
      BY <3>1, <3>2, <3>3
  <2> QED
    BY <2>2, <2>3
<1>9. PackageInv(v, V)
  BY <1>1, <1>4, <1>5, <1>6, <1>7, <1>8, PlacedFits
<1> QED
  BY <1>3, <1>4, <1>5, <1>9

LEMMA UnloadedFits ==
  ASSUME NEW w, NEW V, WorldInv(w, V), PackageInv(w, V), NEW t \in Task,
         w.stage[t] = "Unload", ~ IsUnloaded(w, t),
         NEW v, v = UnloadItem(w, RobotOf(t), ItemOf(t), DropoffOf(t))
  PROVE  /\ PackageInv(v, V)
         /\ IsLoaded(w, t)
         /\ v.carrier = [w.carrier EXCEPT ![ItemOf(t)] = NoRobot]
         /\ v.place = [w.place EXCEPT ![ItemOf(t)] = DropoffOf(t)]
<1> DEFINE p == ItemOf(t)
           r == RobotOf(t)
           o == Origin(t)
<1>1. w \in World /\ p \in Item /\ r \in Robot
  BY TaskFacts DEF WorldInv
<1>2. Position(w, p) = o + 1 /\ IsLoaded(w, t)
  <2>1. StageFits(w.stage[t], o, Position(w, p))
    BY PositionFacts
  <2> QED
    BY <2>1, PositionFacts DEF StageFits
<1>3. /\ v.carrier = [w.carrier EXCEPT ![p] = NoRobot]
      /\ v.place = [w.place EXCEPT ![p] = DropoffOf(t)]
      /\ v.live = w.live /\ v.stage = w.stage /\ v.active = w.active /\ v.zone = w.zone
      /\ v.loc = w.loc /\ v.status = w.status /\ v.blocker = w.blocker
      /\ v.mission = w.mission
  BY <1>1, <1>2 DEF UnloadItem, IsLoaded, World
<1>4. /\ v.carrier[p] = NoRobot /\ v.place[p] = DropoffOf(t)
      /\ \A q \in Item \ {p} : v.carrier[q] = w.carrier[q] /\ v.place[q] = w.place[q]
  BY <1>1, <1>3, WorldFields
<1>5. /\ OnTheWay(v, p) /\ Position(v, p) = o + 2
  <2>1. /\ NoRobot # UpstreamRobot /\ NoRobot # DownstreamRobot /\ Inbound # Outbound
        /\ Zone # "source" /\ Zone # "destination"
    BY DEF UpstreamRobot, DownstreamRobot, NoRobot, Inbound, Outbound, Zone
  <2> QED
    BY <1>4, <2>1, TaskFacts DEF OnTheWay, Position, Origin
<1>6. ASSUME NEW u \in Task, ItemOf(u) = p
      PROVE  StageFits(w.stage[u], Origin(u), Position(v, p))
  <2>1. StageFits(w.stage[u], Origin(u), Position(w, p))
    BY <1>6, PositionFacts
  <2>2. CASE u = t
    BY <1>5, <2>2 DEF StageFits
  <2>3. CASE u # t
    <3>1. \/ o = 0 /\ Origin(u) = 2
          \/ o = 2 /\ Origin(u) = 0
      <4>1. LegOf(t) # LegOf(u) /\ Inbound # Outbound
        BY <1>6, <2>3, LegIdentity, TaskFacts DEF Inbound, Outbound
      <4> QED
        BY <4>1, TaskFacts DEF Origin
    <3> QED
      BY <1>2, <1>5, <2>1, <3>1 DEF StageFits
  <2> QED
    BY <2>2, <2>3
<1>7. PackageInv(v, V)
  BY <1>1, <1>3, <1>4, <1>5, <1>6, PlacedFits
<1> QED
  BY <1>2, <1>3, <1>7

-----------------------------------------------------------------------------
(* Advancing the mission.                                                  *)

(* What ticks leave as it is, and whom they command: no robot moves, no    *)
(* package is handled, no finished task is taken up again, and no robot    *)
(* that is held gets a command.                                            *)
Onward(w, v) ==
  /\ v.loc = w.loc /\ v.place = w.place /\ v.carrier = w.carrier
  /\ v.paused = w.paused /\ v.mission \in {w.mission, "COMPLETED"}
  /\ \A t \in Task : w.stage[t] = "Done" => v.stage[t] = "Done"
  /\ \A c \in v.live \ w.live : ~ Held(v, RobotOf(c.task))

LEMMA OnwardReflexive ==
  ASSUME NEW w
  PROVE  Onward(w, w)
BY DEF Onward

LEMMA OnwardTransitive ==
  ASSUME NEW u, NEW v, NEW w, Onward(u, v), Onward(v, w)
  PROVE  Onward(u, w)
<1>1. ASSUME NEW c \in w.live \ u.live PROVE ~ Held(w, RobotOf(c.task))
  <2>1. CASE c \in v.live
    <3>1. ~ Held(v, RobotOf(c.task))
      BY <1>1, <2>1 DEF Onward
    <3> QED
      BY <3>1 DEF Onward, Held
  <2>2. CASE c \notin v.live
    BY <1>1, <2>2 DEF Onward
  <2> QED
    BY <2>1, <2>2
<1> QED
  BY <1>1 DEF Onward

LEMMA TaskStepOnward ==
  ASSUME NEW w, NEW v, NEW t \in Task, TaskStep(w, v, t), w.stage[t] # "Done",
         ~ Held(w, RobotOf(t))
  PROVE  Onward(w, v)
BY DEF TaskStep, Onward, Held

(* The tick of a task at work, and the start of a pending one.             *)
LEMMA TickOnward ==
  ASSUME NEW w, NEW V, WorldInv(w, V), PackageInv(w, V), NEW t \in Task, AtWork(w, t),
         ~ Held(w, RobotOf(t))
  PROVE  /\ WorldInv(Tick(w, t), V) /\ PackageInv(Tick(w, t), V) /\ Onward(w, Tick(w, t))
         /\ TaskStep(w, Tick(w, t), t)
<1>1. WorldInv(Tick(w, t), V)
  BY TickInv
<1>2. PackageInv(Tick(w, t), V) /\ TaskStep(w, Tick(w, t), t)
  BY TickFits
<1>3. Onward(w, Tick(w, t))
  BY <1>2, TaskStepOnward DEF AtWork
<1> QED
  BY <1>1, <1>2, <1>3

LEMMA StartNextReadyFits ==
  ASSUME NEW w, NEW V, WorldInv(w, V), PackageInv(w, V),
         w.mission \notin {"PAUSED", "ABORTED"}
  PROVE  PackageInv(StartNextReady(w), V) /\ Onward(w, StartNextReady(w))
<1>1. CASE ReadyTasks(w) = {}
  BY <1>1, OnwardReflexive DEF StartNextReady
<1>2. CASE ReadyTasks(w) # {}
  <2> DEFINE t == FirstInSorted(ReadyTasks(w))
  <2>1. t \in ReadyTasks(w)
    BY <1>2, FirstInSortedMember DEF ReadyTasks
  <2> HIDE DEF t
  <2>2. /\ t \in Task /\ w.status[t] = "PENDING" /\ w.duty[RobotOf(t)] = "IDLE"
        /\ ~ Held(w, RobotOf(t))
    BY <2>1 DEF ReadyTasks, IsReady, IsRobotAvailable, Held
  <2>3. w.stage[t] # "Done"
    BY <2>2 DEF PackageInv, TaskFits
  <2>4. PackageInv(Start(w, t), V) /\ TaskStep(w, Start(w, t), t)
    BY <2>2, StartFits
  <2>5. Onward(w, Start(w, t))
    BY <2>2, <2>3, <2>4, TaskStepOnward
  <2> QED
    BY <1>2, <2>4, <2>5 DEF StartNextReady, t
<1> QED
  BY <1>1, <1>2

(* A task that may be ticked is at work, and its robot is not held.        *)
LEMMA RunnableAtWork ==
  ASSUME NEW w, NEW V, WorldInv(w, V), PackageInv(w, V), NEW t \in Runnable(w),
         w.mission \notin {"PAUSED", "ABORTED"}
  PROVE  t \in Task /\ AtWork(w, t) /\ Engaged(w, t) /\ ~ Held(w, RobotOf(t))
<1>1. /\ t \in Task /\ w.status[t] \in {"RUNNING", "BLOCKED"}
      /\ RobotOf(t) \notin w.paused
  BY DEF Runnable
<1>2. Engaged(w, t)
  BY <1>1 DEF WorldInv, TaskInv
<1>3. w.blocker[t].reason # "command_failed"
  BY <1>1 DEF PackageInv, BlockerFits
<1> QED
  BY <1>1, <1>2, <1>3 DEF AtWork, Engaged, Held

(* The loop of _advance: the second task it ticks is still as it was.      *)
LEMMA TickRunnableFits ==
  ASSUME NEW w, NEW V, WorldInv(w, V), PackageInv(w, V), w.mission \notin {"PAUSED", "ABORTED"}
  PROVE  /\ PackageInv(TickRunnable(w), V) /\ Onward(w, TickRunnable(w))
         /\ TickRunnable(w).mission = w.mission
<1> DEFINE first  == FirstInDict(Runnable(w))
           ticked == Tick(w, first)
           others == Runnable(w) \ {first}
           second == FirstInDict(others)
<1>1. CASE Runnable(w) = {}
  BY <1>1, OnwardReflexive DEF TickRunnable
<1>2. CASE Runnable(w) # {}
  <2>1. first \in Runnable(w)
    BY <1>2, FirstInDictMember DEF Runnable
  <2>2. others \in SUBSET Task
    BY DEF Runnable
  <2> HIDE DEF first
  <2>3. first \in Task /\ AtWork(w, first) /\ ~ Held(w, RobotOf(first))
    BY <2>1, RunnableAtWork
  <2>4. /\ WorldInv(ticked, V) /\ PackageInv(ticked, V) /\ Onward(w, ticked)
        /\ TaskStep(w, ticked, first)
    BY <2>3, TickOnward
  <2>5. ticked.mission = w.mission
    BY <2>4 DEF TaskStep
  <2> HIDE DEF ticked
  <2>6. ASSUME others # {}
        PROVE  /\ PackageInv(Tick(ticked, second), V) /\ Onward(ticked, Tick(ticked, second))
               /\ Tick(ticked, second).mission = ticked.mission
    <3>1. second \in others
      BY <2>2, <2>6, FirstInDictMember
    <3> HIDE DEF second
    <3>2. second \in Task \ {first} /\ second \in Runnable(w)
      BY <3>1 DEF Runnable
    <3>3. second \in Runnable(ticked)
      BY <2>4, <3>2 DEF TaskStep, Runnable
    <3>4. second \in Task /\ AtWork(ticked, second) /\ ~ Held(ticked, RobotOf(second))
      BY <2>4, <2>5, <3>3, RunnableAtWork
    <3> QED
      BY <2>4, <3>4, TickOnward DEF TaskStep
  <2> HIDE DEF others, second
  <2>7. ASSUME others # {} PROVE Onward(w, Tick(ticked, second))
    BY <2>4, <2>6, <2>7, OnwardTransitive
  <2> QED
    BY <1>2, <2>4, <2>5, <2>6, <2>7 DEF TickRunnable, first, ticked, others, second
<1> QED
  BY <1>1, <1>2

(* _advance.                                                               *)
LEMMA AdvanceFits ==
  ASSUME NEW w, NEW V, WorldInv(w, V), PackageInv(w, V)
  PROVE  PackageInv(Advance(w), V) /\ Onward(w, Advance(w))
<1>1. CASE w.mission # "RUNNING"
  BY <1>1, OnwardReflexive DEF Advance
<1>2. CASE w.mission = "RUNNING" /\ AllSucceeded(w)
  <2> DEFINE v == SetMission(w, "COMPLETED")
  <2>1. PackageInv(v, V)
    BY <1>2, SetMissionFits
  <2>2. Onward(w, v)
    <3>1. /\ v.loc = w.loc /\ v.place = w.place /\ v.carrier = w.carrier
          /\ v.paused = w.paused /\ v.mission = "COMPLETED"
          /\ v.stage = w.stage /\ v.live = w.live
      BY DEF SetMission, WorldInv, World
    <3> HIDE DEF v
    <3> QED
      BY <3>1 DEF Onward
  <2> QED
    BY <1>2, <2>1, <2>2 DEF Advance
<1>3. CASE w.mission = "RUNNING" /\ ~ AllSucceeded(w)
  <2> DEFINE v == TickRunnable(w)
  <2> HIDE DEF v
  <2>1. PackageInv(v, V) /\ Onward(w, v) /\ v.mission = "RUNNING" /\ WorldInv(v, V)
    BY <1>3, TickRunnableFits, TickRunnableInv DEF v
  <2>2. PackageInv(StartNextReady(v), V) /\ Onward(v, StartNextReady(v))
    BY <2>1, StartNextReadyFits
  <2>3. Onward(w, StartNextReady(v))
    BY <2>1, <2>2, OnwardTransitive
  <2> QED
    BY <1>3, <2>2, <2>3 DEF Advance, v
<1> QED
  BY <1>1, <1>2, <1>3

-----------------------------------------------------------------------------
(* The handlers of results.                                                *)

(* What the success of command c makes of the packages.                    *)
PackagesAfter(w, c, v) ==
  LET p == ItemOf(c.task)
  IN  /\ c.kind = "move" => v.carrier = w.carrier /\ v.place = w.place
      /\ c.kind = "load" =>
           /\ w.stage[c.task] = "Load" /\ IsItemAt(w, p, PickupOf(c.task))
           /\ v.carrier = [w.carrier EXCEPT ![p] = RobotOf(c.task)]
           /\ v.place = w.place
      /\ c.kind = "unload" =>
           /\ w.stage[c.task] = "Unload" /\ IsLoaded(w, c.task)
           /\ v.carrier = [w.carrier EXCEPT ![p] = NoRobot]
           /\ v.place = [w.place EXCEPT ![p] = DropoffOf(c.task)]

(* apply_command_success; whoever is commanded into the zone is one of V.  *)
LEMMA AppliedFits ==
  ASSUME NEW w, NEW V, WorldInv(w, V), PackageInv(w, V), NEW c \in w.live,
         IsZoneMove(c) => RobotOf(c.task) \in V,
         NEW v, v = ApplyCommandSuccess(MarkTerminal(w, c), c)
  PROVE  /\ PackageInv(v, LeftInside(V, c)) /\ AtWork(v, c.task)
         /\ PackagesAfter(w, c, v)
         /\ v.stage = w.stage /\ v.live = w.live \ {c}
         /\ v.paused = w.paused /\ v.mission = w.mission
<1> DEFINE d == ForgetCommand(MarkTerminal(w, c), c.task)
           t == c.task
<1>1. /\ w \in World /\ t \in Task /\ c.kind \in Kind
      /\ IsActiveCommand(w, c) /\ Engaged(w, t) /\ Unfinished(w, t)
      /\ c.kind = "move" => c.target \in Waypoint
  BY LiveCommandFacts DEF WorldInv
<1>2. IsActiveCommand(MarkTerminal(w, c), c)
  BY <1>1 DEF IsActiveCommand, MarkTerminal, World
<1>3. v = CommandEffect(d, c)
  BY <1>2 DEF ApplyCommandSuccess
<1>4. CommandFits(w, c) /\ w.status[t] # "BLOCKED"
  BY CommandedTaskAtWork
<1>5. /\ WorldInv(d, V) /\ PackageInv(d, V) /\ AtWork(d, t) /\ Engaged(d, t)
      /\ d.active[t] = NoCommand /\ d.live = w.live \ {c}
      /\ d.stage = w.stage /\ d.loc = w.loc /\ d.place = w.place /\ d.carrier = w.carrier
      /\ d.zone = w.zone /\ d.status = w.status
      /\ d.paused = w.paused /\ d.mission = w.mission
  BY DropFits
<1>6. d \in World
  BY <1>5 DEF WorldInv
<1> HIDE DEF d
<1>7. CASE c.kind = "move"
  <2>1. v = MoveRobot(d, RobotOf(t), c.target)
    BY <1>3, <1>7 DEF CommandEffect
  <2>2. MoveFits(d, t, c.target)
    BY <1>4, <1>5, <1>7 DEF CommandFits, MoveFits
  <2>3. PackageInv(v, IF c.target = Zone THEN V ELSE V \ {RobotOf(t)})
    BY <1>1, <1>4, <1>5, <1>7, <2>1, <2>2, ArrivalFits DEF IsZoneMove
  <2>4. LeftInside(V, c) = IF c.target = Zone THEN V ELSE V \ {RobotOf(t)}
    BY <1>7 DEF LeftInside, LeavesZone
  <2>5. /\ v.stage = d.stage /\ v.live = d.live /\ v.paused = d.paused
        /\ v.mission = d.mission /\ v.carrier = d.carrier /\ v.place = d.place
        /\ v.blocker = d.blocker
    BY <1>6, <2>1 DEF MoveRobot, World
  <2>6. AtWork(v, t)
    BY <1>5, <2>5 DEF AtWork
  <2> QED
    BY <1>5, <1>7, <2>3, <2>4, <2>5, <2>6 DEF PackagesAfter
<1>8. CASE c.kind = "load"
  <2>1. v = LoadItem(d, RobotOf(t), ItemOf(t))
    BY <1>3, <1>8 DEF CommandEffect
  <2>2. w.stage[t] = "Load" /\ ~ IsLoaded(d, t)
    BY <1>1, <1>4, <1>5, <1>8 DEF CommandFits, Unfinished, IsLoaded
  <2>3. /\ PackageInv(v, V) /\ IsItemAt(d, ItemOf(t), PickupOf(t))
        /\ v.carrier = [d.carrier EXCEPT ![ItemOf(t)] = RobotOf(t)] /\ v.place = d.place
    BY <1>1, <1>5, <2>1, <2>2, LoadedFits
  <2>4. LeftInside(V, c) = V
    BY <1>8 DEF LeftInside, LeavesZone
  <2>5. /\ v.stage = d.stage /\ v.live = d.live /\ v.paused = d.paused
        /\ v.mission = d.mission /\ v.blocker = d.blocker
    BY <1>6, <2>1 DEF LoadItem, World
  <2>6. AtWork(v, t)
    BY <1>5, <2>5 DEF AtWork
  <2>7. IsItemAt(w, ItemOf(t), PickupOf(t))
    BY <1>5, <2>3 DEF IsItemAt
  <2> QED
    BY <1>5, <1>8, <2>2, <2>3, <2>4, <2>5, <2>6, <2>7 DEF PackagesAfter
<1>9. CASE c.kind = "unload"
  <2>1. v = UnloadItem(d, RobotOf(t), ItemOf(t), DropoffOf(t))
    BY <1>3, <1>9 DEF CommandEffect
  <2>2. w.stage[t] = "Unload" /\ ~ IsUnloaded(d, t)
    BY <1>1, <1>4, <1>5, <1>9 DEF CommandFits, Unfinished, IsUnloaded, IsItemAt
  <2>3. /\ PackageInv(v, V) /\ IsLoaded(d, t)
        /\ v.carrier = [d.carrier EXCEPT ![ItemOf(t)] = NoRobot]
        /\ v.place = [d.place EXCEPT ![ItemOf(t)] = DropoffOf(t)]
    BY <1>1, <1>5, <2>1, <2>2, UnloadedFits
  <2>4. LeftInside(V, c) = V
    BY <1>9 DEF LeftInside, LeavesZone
  <2>5. /\ v.stage = d.stage /\ v.live = d.live /\ v.paused = d.paused
        /\ v.mission = d.mission /\ v.blocker = d.blocker
    BY <1>6, <2>1 DEF UnloadItem, World
  <2>6. AtWork(v, t)
    BY <1>5, <2>5 DEF AtWork
  <2>7. IsLoaded(w, t)
    BY <1>5, <2>3 DEF IsLoaded
  <2> QED
    BY <1>5, <1>9, <2>2, <2>3, <2>4, <2>5, <2>6, <2>7 DEF PackagesAfter
<1> QED
  BY <1>1, <1>7, <1>8, <1>9 DEF Kind

(* No finished task is taken up again.                                     *)
DoneKept(w, v) == \A t \in Task : w.stage[t] = "Done" => v.stage[t] = "Done"

(* A robot that is held gets no new command but to retry the move it was   *)
(* making.                                                                 *)
OnlyRetries(w, v) ==
  \A d \in v.live \ w.live :
    \/ ~ Held(v, RobotOf(d.task))
    \/ \E c \in w.live \ v.live :
         c.task = d.task /\ c.kind = "move" /\ d.kind = "move" /\ c.target = d.target

(* A completed command, in any status of the mission.                      *)
LEMMA HandleCompletedFits ==
  ASSUME NEW w, NEW V, WorldInv(w, V), PackageInv(w, V), NEW c \in w.live,
         IsZoneMove(c) => RobotOf(c.task) \in V
  PROVE  /\ PackageInv(HandleCompleted(w, c), LeftInside(V, c))
         /\ PackagesAfter(w, c, HandleCompleted(w, c))
         /\ DoneKept(w, HandleCompleted(w, c)) /\ OnlyRetries(w, HandleCompleted(w, c))
<1> DEFINE applied == ApplyCommandSuccess(MarkTerminal(w, c), c)
           t == c.task
           ticked  == Tick(applied, t)
           kept    == IF w.mission = "PAUSED" \/ RobotOf(t) \in w.paused
                      THEN "RUNNING" ELSE "CANCELLED"
           W == LeftInside(V, c)
<1>1. t \in Task /\ IsActiveCommand(w, c)
  BY LiveCommandFacts
<1>2. WorldInv(applied, W)
  BY AppliedInv
<1>3. /\ PackageInv(applied, W) /\ AtWork(applied, t) /\ PackagesAfter(w, c, applied)
      /\ applied.stage = w.stage /\ applied.live = w.live \ {c}
      /\ applied.paused = w.paused /\ applied.mission = w.mission
  BY AppliedFits
<1> HIDE DEF applied, W
<1>4. ASSUME NEW v, Onward(applied, v)
      PROVE  PackagesAfter(w, c, v) /\ DoneKept(w, v) /\ OnlyRetries(w, v)
  <2>1. PackagesAfter(w, c, v)
    BY <1>3, <1>4 DEF PackagesAfter, Onward
  <2>2. DoneKept(w, v)
    BY <1>3, <1>4 DEF DoneKept, Onward
  <2>3. OnlyRetries(w, v)
    BY <1>3, <1>4 DEF OnlyRetries, Onward
  <2> QED
    BY <2>1, <2>2, <2>3
<1>5. CASE IsHeld(w, RobotOf(t))
  <2> DEFINE v == SetStatus(applied, t, kept)
  <2>1. kept \in TaskStatus \ {"SUCCEEDED", "BLOCKED"}
    BY DEF TaskStatus
  <2> HIDE DEF kept
  <2>2. PackageInv(v, W)
    BY <1>1, <1>2, <1>3, <2>1, SetStatusFits
  <2>3. /\ v.loc = applied.loc /\ v.place = applied.place /\ v.carrier = applied.carrier
        /\ v.paused = applied.paused /\ v.mission = applied.mission
        /\ v.stage = applied.stage /\ v.live = applied.live
    BY <1>2 DEF SetStatus, WorldInv, World
  <2> HIDE DEF v
  <2>4. Onward(applied, v)
    BY <2>3 DEF Onward
  <2>5. HandleCompleted(w, c) = v
    BY <1>5 DEF HandleCompleted, applied, v, kept
  <2> QED
    BY <1>4, <2>2, <2>4, <2>5 DEF W
<1>6. CASE ~ IsHeld(w, RobotOf(t))
  <2>1. ~ Held(applied, RobotOf(t)) /\ applied.mission \notin {"PAUSED", "ABORTED"}
    BY <1>3, <1>6 DEF Held, IsHeld
  <2>2. /\ WorldInv(ticked, W) /\ PackageInv(ticked, W) /\ Onward(applied, ticked)
        /\ TaskStep(applied, ticked, t)
    BY <1>1, <1>2, <1>3, <2>1, TickOnward
  <2>3. ticked.mission \notin {"PAUSED", "ABORTED"}
    BY <2>1, <2>2 DEF TaskStep
  <2> HIDE DEF ticked
  <2>4. PackageInv(StartNextReady(ticked), W) /\ Onward(applied, StartNextReady(ticked))
    BY <2>2, <2>3, StartNextReadyFits, OnwardTransitive
  <2>5. PackageInv(Advance(ticked), W) /\ Onward(applied, Advance(ticked))
    BY <2>2, AdvanceFits, OnwardTransitive
  <2>6. HandleCompleted(w, c) \in {StartNextReady(ticked), Advance(ticked)}
    BY <1>1, <1>6 DEF HandleCompleted, applied, ticked
  <2> QED
    BY <1>4, <2>4, <2>5, <2>6 DEF W
<1> QED
  BY <1>5, <1>6

(* The packages stay where they are.                                       *)
PackagesStay(w, v) == v.carrier = w.carrier /\ v.place = w.place

(* A failed command, whether it is retried or not.                         *)
LEMMA HandleFailedFits ==
  ASSUME NEW w, NEW V, WorldInv(w, V), PackageInv(w, V), NEW c \in w.live, NEW error
  PROVE  /\ PackageInv(HandleFailed(w, c, error), V)
         /\ PackagesStay(w, HandleFailed(w, c, error))
         /\ DoneKept(w, HandleFailed(w, c, error))
         /\ OnlyRetries(w, HandleFailed(w, c, error))
<1> DEFINE d == ForgetCommand(MarkTerminal(w, c), c.task)
           t == c.task
<1>1. /\ t \in Task /\ IsActiveCommand(w, c) /\ w.active[t] # NoCommand
      /\ c.kind = "move" => c.target \in Waypoint
      /\ w \in World /\ c.id # w.next
  <2>1. w \in World /\ c \in Command /\ c.id < w.next
    BY LiveCommandFacts DEF WorldInv, CommandInv
  <2>2. c.id \in Nat /\ w.next \in Nat
    BY <2>1, WorldFields DEF Command
  <2> QED
    BY <2>1, <2>2, LiveCommandFacts DEF IsActiveCommand
<1>2. CommandFits(w, c) /\ TaskFits(w, t)
  BY <1>1 DEF PackageInv
<1>3. IsWaitMove(w, c) => RobotOf(t) \notin V
  BY DEF PackageInv, VisitorsFit
<1>4. /\ WorldInv(d, V) /\ PackageInv(d, V) /\ AtWork(d, t) /\ Engaged(d, t)
      /\ d.active[t] = NoCommand /\ d.live = w.live \ {c}
      /\ d.stage = w.stage /\ d.loc = w.loc /\ d.place = w.place /\ d.carrier = w.carrier
  BY DropFits
<1>5. d.next = w.next
  BY <1>1 DEF ForgetCommand, MarkTerminal, World
<1> HIDE DEF d
<1>6. ASSUME c.kind = "move"
      PROVE  /\ PackageInv(RetryMove(d, c), V) /\ PackagesStay(w, RetryMove(d, c))
             /\ DoneKept(w, RetryMove(d, c)) /\ OnlyRetries(w, RetryMove(d, c))
  <2> DEFINE v == RetryMove(d, c)
  <2>1. MoveFits(d, t, c.target)
    BY <1>2, <1>4, <1>6 DEF CommandFits, MoveFits
  <2>2. c.target = WaitWaypointOf(RobotOf(t)) /\ d.stage[t] \in {RequestStage(t), ApproachStage(t)}
          => RobotOf(t) \notin V
    BY <1>3, <1>4, <1>6 DEF IsWaitMove
  <2>3. d.stage[t] = RequestStage(t) => d.loc[RobotOf(t)] # WaitWaypointOf(RobotOf(t))
    BY <1>1, <1>2, <1>4 DEF TaskFits
  <2>4. /\ PackageInv(v, V) /\ TaskStep(d, v, t)
        /\ \A e \in v.live \ d.live :
             e.id = d.next /\ e.task = t /\ e.kind = "move" /\ e.target = c.target
    BY <1>1, <1>4, <1>6, <2>1, <2>2, <2>3, RetryFits
  <2> HIDE DEF v
  <2>5. c \in w.live \ v.live
    BY <1>1, <1>4, <1>5, <2>4
  <2>6. OnlyRetries(w, v)
    BY <1>4, <1>6, <2>4, <2>5 DEF OnlyRetries
  <2>7. DoneKept(w, v)
    BY <1>4, <2>4 DEF DoneKept, TaskStep, AtWork
  <2>8. PackagesStay(w, v)
    BY <1>4, <2>4 DEF PackagesStay, TaskStep
  <2> QED
    BY <2>4, <2>6, <2>7, <2>8 DEF v
<1>7. /\ PackageInv(FailTask(d, t), V) /\ PackagesStay(w, FailTask(d, t))
      /\ DoneKept(w, FailTask(d, t)) /\ OnlyRetries(w, FailTask(d, t))
  <2> DEFINE v == FailTask(d, t)
  <2>1. PackageInv(v, V)
    BY <1>1, <1>4, FailTaskFits
  <2>2. v.stage = d.stage /\ v.live = d.live /\ v.place = d.place /\ v.carrier = d.carrier
    BY <1>4 DEF FailTask, SetMission, SetBlocker, SetStatus, WorldInv, World
  <2> HIDE DEF v
  <2>3. DoneKept(w, v) /\ OnlyRetries(w, v) /\ PackagesStay(w, v)
    BY <1>4, <2>2 DEF DoneKept, OnlyRetries, PackagesStay
  <2> QED
    BY <2>1, <2>3 DEF v
<1>8. \/ HandleFailed(w, c, error) = FailTask(d, t)
      \/ HandleFailed(w, c, error) = RetryMove(d, c) /\ c.kind = "move"
  <2>1. CanRetry(w, c) => c.kind = "move"
    BY DEF CanRetry
  <2> QED
    BY <1>1, <2>1 DEF HandleFailed, d
<1> QED
  BY <1>6, <1>7, <1>8

(* A cancelled command, for whatever reason and however late.              *)
LEMMA HandleCancelledFits ==
  ASSUME NEW w, NEW V, WorldInv(w, V), PackageInv(w, V), NEW c \in w.live, NEW reason
  PROVE  /\ PackageInv(HandleCancelled(w, c, reason), V)
         /\ PackagesStay(w, HandleCancelled(w, c, reason))
         /\ DoneKept(w, HandleCancelled(w, c, reason))
         /\ OnlyRetries(w, HandleCancelled(w, c, reason))
<1> DEFINE d == ForgetCommand(MarkTerminal(w, c), c.task)
           t == c.task
           kept == SetStatus(d, t, "RUNNING")
           cancelled == SetStatus(d, t, "CANCELLED")
           failed == FailTask(d, t)
<1>1. t \in Task /\ IsActiveCommand(w, c)
  BY LiveCommandFacts
<1>2. /\ WorldInv(d, V) /\ PackageInv(d, V) /\ AtWork(d, t) /\ Engaged(d, t)
      /\ d.active[t] = NoCommand /\ d.live = w.live \ {c}
      /\ d.stage = w.stage /\ d.place = w.place /\ d.carrier = w.carrier
  BY DropFits
<1> HIDE DEF d
<1>3. d \in World /\ "RUNNING" \in TaskStatus \ {"SUCCEEDED", "BLOCKED"}
      /\ "CANCELLED" \in TaskStatus \ {"SUCCEEDED", "BLOCKED"}
  BY <1>2 DEF WorldInv, TaskStatus
<1>4. PackageInv(kept, V) /\ PackageInv(cancelled, V) /\ PackageInv(failed, V)
  BY <1>1, <1>2, <1>3, SetStatusFits, FailTaskFits
<1>5. \A v \in {kept, cancelled, failed} :
        v.stage = d.stage /\ v.live = d.live /\ v.place = d.place /\ v.carrier = d.carrier
  BY <1>3 DEF FailTask, SetMission, SetBlocker, SetStatus, World
<1>6. WorldInv(kept, V)
  BY <1>1, <1>2, SetStatusInv
<1>7. /\ HandleCancelled(w, c, reason) \in {kept, Advance(kept), cancelled, failed}
  BY <1>1 DEF HandleCancelled, d
<1> HIDE DEF kept, cancelled, failed
<1>8. PackageInv(Advance(kept), V) /\ Onward(kept, Advance(kept))
  BY <1>4, <1>6, AdvanceFits
<1>9. ASSUME NEW v \in {kept, cancelled, failed}
      PROVE  DoneKept(w, v) /\ OnlyRetries(w, v) /\ PackagesStay(w, v)
  BY <1>2, <1>5 DEF DoneKept, OnlyRetries, PackagesStay
<1>10. /\ DoneKept(w, Advance(kept)) /\ OnlyRetries(w, Advance(kept))
       /\ PackagesStay(w, Advance(kept))
  BY <1>2, <1>5, <1>8 DEF DoneKept, OnlyRetries, PackagesStay, Onward
<1> QED
  BY <1>4, <1>7, <1>8, <1>9, <1>10

-----------------------------------------------------------------------------
(* The operator's events.                                                  *)

(* What no event of an operator and no failed or cancelled command does.   *)
NothingHandled(w, v) == PackagesStay(w, v) /\ DoneKept(w, v) /\ OnlyRetries(w, v)

LEMMA OnwardHandlesNothing ==
  ASSUME NEW w, NEW x, x.stage = w.stage, x.live = w.live,
         x.place = w.place, x.carrier = w.carrier, NEW v, Onward(x, v)
  PROVE  NothingHandled(w, v)
BY DEF NothingHandled, PackagesStay, DoneKept, OnlyRetries, Onward

LEMMA OperatorFits ==
  ASSUME NEW w, NEW V, WorldInv(w, V), PackageInv(w, V), NEW v,
         \/ v \in {HandleStart(w), HandlePause(w), HandleResume(w), HandleAbort(w)}
         \/ \E r \in Robot : v \in {HandleRobotPause(w, r), HandleRobotResume(w, r)}
  PROVE  PackageInv(v, V) /\ NothingHandled(w, v)
<1>1. w \in World
  BY DEF WorldInv
<1> DEFINE running == SetMission(w, "RUNNING")
           paused == SetMission(w, "PAUSED")
           aborted == SetMission(CancelUnfinished(w), "ABORTED")
<1>2. /\ WorldInv(running, V) /\ PackageInv(running, V)
      /\ PackageInv(paused, V) /\ PackageInv(aborted, V)
  BY SetMissionInv, SetMissionFits, AbortFits DEF MissionStatus
<1>3. \A x \in {w, running, paused, aborted} :
        x.stage = w.stage /\ x.live = w.live /\ x.place = w.place /\ x.carrier = w.carrier
  BY <1>1 DEF SetMission, CancelUnfinished, World
<1>4. w.paused \in SUBSET Robot
  BY <1>1, WorldFields
<1> HIDE DEF running, paused, aborted
<1>5. /\ PackageInv(Advance(w), V) /\ NothingHandled(w, Advance(w))
      /\ PackageInv(Advance(running), V) /\ NothingHandled(w, Advance(running))
  BY <1>2, <1>3, AdvanceFits, OnwardHandlesNothing
<1>6. NothingHandled(w, w) /\ NothingHandled(w, paused) /\ NothingHandled(w, aborted)
  BY <1>3, OnwardReflexive, OnwardHandlesNothing
<1>7. CASE v \in {HandleStart(w), HandlePause(w), HandleResume(w), HandleAbort(w)}
  <2>1. v \in {w, paused, aborted, Advance(w), Advance(running)}
    BY <1>7 DEF HandleStart, HandlePause, HandleResume, HandleAbort, running, paused, aborted
  <2> QED
    BY <1>2, <1>5, <1>6, <2>1
<1>8. ASSUME NEW r \in Robot, v = HandleRobotPause(w, r) PROVE PackageInv(v, V) /\ NothingHandled(w, v)
  <2> DEFINE P == w.paused \cup {r}
  <2>1. v = [w EXCEPT !.paused = P]
    BY <1>8 DEF HandleRobotPause
  <2>2. PackageInv(v, V)
    BY <2>1, SetPausedFits
  <2>3. v.stage = w.stage /\ v.live = w.live /\ v.place = w.place /\ v.carrier = w.carrier
    BY <1>1, <2>1 DEF World
  <2> QED
    BY <2>2, <2>3, OnwardReflexive, OnwardHandlesNothing
<1>9. ASSUME NEW r \in Robot, v = HandleRobotResume(w, r) PROVE PackageInv(v, V) /\ NothingHandled(w, v)
  <2> DEFINE P == w.paused \ {r}
             x == [w EXCEPT !.paused = P]
  <2>1. P \in SUBSET Robot
    BY <1>4
  <2>2. WorldInv(x, V) /\ PackageInv(x, V)
    BY <2>1, SetPausedInv, SetPausedFits
  <2>3. x.stage = w.stage /\ x.live = w.live /\ x.place = w.place /\ x.carrier = w.carrier
    BY <1>1 DEF World
  <2>4. v \in {w, Advance(x)}
    BY <1>9 DEF HandleRobotResume
  <2> HIDE DEF x
  <2>5. PackageInv(Advance(x), V) /\ NothingHandled(w, Advance(x))
    BY <2>2, <2>3, AdvanceFits, OnwardHandlesNothing
  <2> QED
    BY <1>6, <2>4, <2>5
<1> QED
  BY <1>7, <1>8, <1>9

-----------------------------------------------------------------------------
(* The callbacks of the node.                                              *)

(* A robot commanded into the zone is on its way nowhere else.             *)
LEMMA CommandedFits ==
  ASSUME NEW v, NEW V, WorldInv(v, V), PackageInv(v, V)
  PROVE  PackageInv(v, V \cup CommandedIntoZone(v))
<1>1. ASSUME NEW c \in v.live, IsWaitMove(v, c) PROVE RobotOf(c.task) \notin CommandedIntoZone(v)
  <2> SUFFICES ASSUME NEW d \in v.live, d.kind = "move", d.target = Zone,
                      RobotOf(d.task) = RobotOf(c.task)
               PROVE  FALSE
    BY DEF CommandedIntoZone
  <2>1. /\ c.task \in Task /\ d.task \in Task /\ Engaged(v, c.task) /\ Engaged(v, d.task)
        /\ v.active[c.task] = c.id /\ v.active[d.task] = d.id
    BY LiveCommandFacts DEF IsActiveCommand
  <2>2. c.task = d.task
    BY <2>1, EngagedAlone DEF WorldInv
  <2>3. c = d
    BY <2>1, <2>2 DEF WorldInv, CommandInv
  <2> QED
    BY <1>1, <2>1, <2>3, TaskFacts, ExitFacts DEF IsWaitMove
<1>2. VisitorsFit(v, V \cup CommandedIntoZone(v))
  BY <1>1 DEF PackageInv, VisitorsFit
<1> QED
  BY <1>2 DEF PackageInv

LEMMA BecomesFits ==
  ASSUME NEW v, NEW requests, NEW arrived,
         WorldInv(v, visitors \ arrived), PackageInv(v, visitors \ arrived),
         Becomes(v, requests, arrived)
  PROVE  PackagesInv'
<1>1. PackageInv(v, (visitors \ arrived) \cup CommandedIntoZone(v))
  BY CommandedFits
<1>2. world' = v /\ visitors' = (visitors \ arrived) \cup CommandedIntoZone(v)
  BY DEF Becomes
<1>3. \A c \in v.live : IsZoneMove(c) => RobotOf(c.task) \in visitors'
  BY <1>2 DEF IsZoneMove, CommandedIntoZone
<1> QED
  BY <1>1, <1>2, <1>3 DEF PackagesInv

(* A callback either handles no package and lets the visitors only come,   *)
(* or has the effect of one successful command.                            *)
QuietStep ==
  /\ NothingHandled(world, world')
  /\ visitors' = visitors \cup CommandedIntoZone(world')

SuccessStep(c) ==
  /\ PackagesAfter(world, c, world')
  /\ DoneKept(world, world') /\ OnlyRetries(world, world')
  /\ visitors' = LeftInside(visitors, c) \cup CommandedIntoZone(world')

(* The initial mission.                                                    *)
LEMMA InitFits == Init => PackagesInv
<1> SUFFICES ASSUME Init PROVE PackagesInv
  OBVIOUS
<1> DEFINE w == InitialWorld
<1>1. /\ \A t \in Task : /\ w.stage[t] = "ClaimRobot" /\ w.status[t] = "PENDING"
                         /\ w.blocker[t] = BlockedByNothing
      /\ \A r \in Robot : w.loc[r] = HomeOf(r)
      /\ \A p \in Item : w.place[p] = "source" /\ w.carrier[p] = NoRobot
      /\ w.zone.buf = {} /\ w.live = {} /\ w.mission = "READY"
  BY DEF InitialWorld, EmptyZone
<1> HIDE DEF w
<1>2. NoRobot # UpstreamRobot /\ NoRobot # DownstreamRobot
  BY DEF NoRobot, UpstreamRobot, DownstreamRobot
<1>3. \A p \in Item : OnTheWay(w, p) /\ Position(w, p) = 0
  BY <1>1, <1>2 DEF OnTheWay, Position
<1>4. ASSUME NEW t \in Task PROVE TaskFits(w, t) /\ BlockerFits(w, t)
  <2>1. StageFits(w.stage[t], Origin(t), Position(w, ItemOf(t)))
    BY <1>1, <1>3, TaskFacts DEF StageFits, Origin
  <2>2. w.stage[t] \notin ZoneStages(t) /\ w.stage[t] # RequestStage(t)
    BY <1>1 DEF ZoneStages, RequestStage
  <2> QED
    BY <1>1, <2>1, <2>2 DEF TaskFits, BlockerFits, BlockedByNothing
<1>5. BufferFits(w)
  BY <1>1, LegFacts DEF BufferFits, IsBuffered, BroughtStages
<1>6. \A r \in Robot : w.loc[r] # Zone
  BY <1>1 DEF HomeOf, Zone
<1>7. PackageInv(w, {})
  BY <1>1, <1>3, <1>4, <1>5, <1>6 DEF PackageInv, MissionFits, VisitorsFit
<1> QED
  BY <1>1, <1>7 DEF Init, PackagesInv, w

(* Every callback keeps the second layer, and is a step of one of the two  *)
(* kinds.                                                                  *)
LEMMA NextFits ==
  ASSUME Inv, PackagesInv, Next
  PROVE  PackagesInv' /\ (QuietStep \/ \E c \in world.live : SuccessStep(c))
<1>1. WorldInv(world, visitors) /\ PackageInv(world, visitors) /\ visitors \ {} = visitors
  BY DEF Inv, PackagesInv
<1>2. ASSUME NEW v, NEW requests, Becomes(v, requests, {}),
             WorldInv(v, visitors), PackageInv(v, visitors), NothingHandled(world, v)
      PROVE  PackagesInv' /\ QuietStep
  <2>1. PackagesInv'
    BY <1>1, <1>2, BecomesFits
  <2>2. QuietStep
    BY <1>2 DEF Becomes, QuietStep
  <2> QED
    BY <2>1, <2>2
<1>3. ASSUME NEW v, NEW requests, Becomes(v, requests, {}),
             \/ v \in {HandleStart(world), HandlePause(world),
                       HandleResume(world), HandleAbort(world)}
             \/ \E r \in Robot : v \in {HandleRobotPause(world, r), HandleRobotResume(world, r)}
      PROVE  PackagesInv' /\ QuietStep
  <2>1. WorldInv(v, visitors)
    BY <1>1, <1>3, OperatorInv
  <2>2. PackageInv(v, visitors) /\ NothingHandled(world, v)
    BY <1>1, <1>3, OperatorFits
  <2> QED
    BY <1>2, <1>3, <2>1, <2>2
<1>4. CASE OperatorStart
  BY <1>3, <1>4 DEF OperatorStart
<1>5. CASE OperatorPause
  BY <1>3, <1>5 DEF OperatorPause
<1>6. CASE OperatorResume
  BY <1>3, <1>6 DEF OperatorResume
<1>7. CASE OperatorAbort
  BY <1>3, <1>7 DEF OperatorAbort
<1>8. CASE \E r \in Robot : OperatorRobotPause(r)
  BY <1>3, <1>8 DEF OperatorRobotPause
<1>9. CASE \E r \in Robot : OperatorRobotResume(r)
  BY <1>3, <1>9 DEF OperatorRobotResume
<1>10. ASSUME NEW c \in world.live, Result(c)
       PROVE  PackagesInv' /\ (QuietStep \/ SuccessStep(c))
  <2>1. ASSUME NEW error, Becomes(HandleFailed(world, c, error), cancels, {})
        PROVE  PackagesInv' /\ QuietStep
    <3>1. /\ WorldInv(HandleFailed(world, c, error), visitors)
          /\ PackageInv(HandleFailed(world, c, error), visitors)
          /\ NothingHandled(world, HandleFailed(world, c, error))
      BY <1>1, HandleFailedInv, HandleFailedFits DEF NothingHandled
    <3> QED
      BY <1>2, <2>1, <3>1
  <2>2. ASSUME NEW reason, Becomes(HandleCancelled(world, c, reason), cancels, {})
        PROVE  PackagesInv' /\ QuietStep
    <3>1. /\ WorldInv(HandleCancelled(world, c, reason), visitors)
          /\ PackageInv(HandleCancelled(world, c, reason), visitors)
          /\ NothingHandled(world, HandleCancelled(world, c, reason))
      BY <1>1, HandleCancelledInv, HandleCancelledFits DEF NothingHandled
    <3> QED
      BY <1>2, <2>2, <3>1
  <2>3. CASE ResultSucceeded(c)
    <3> DEFINE v == HandleCompleted(world, c)
               arrived == IF LeavesZone(c) THEN {RobotOf(c.task)} ELSE {}
    <3>1. IsZoneMove(c) => RobotOf(c.task) \in visitors
      BY DEF PackagesInv
    <3>2. visitors \ arrived = LeftInside(visitors, c) /\ Becomes(v, cancels, arrived)
      BY <2>3 DEF LeftInside, ResultSucceeded
    <3> HIDE DEF arrived
    <3>3. WorldInv(v, visitors \ arrived)
      BY <1>1, <3>2, HandleCompletedInv
    <3>4. /\ PackageInv(v, visitors \ arrived) /\ PackagesAfter(world, c, v)
          /\ DoneKept(world, v) /\ OnlyRetries(world, v)
      BY <1>1, <3>1, <3>2, HandleCompletedFits
    <3> HIDE DEF v
    <3>5. PackagesInv'
      BY <3>2, <3>3, <3>4, BecomesFits
    <3>6. SuccessStep(c)
      BY <3>2, <3>4 DEF Becomes, SuccessStep
    <3> QED
      BY <3>5, <3>6
  <2> QED
    BY <1>10, <2>1, <2>2, <2>3
       DEF Result, ResultUnverified, ResultFailed, ResultCancelled, ResultCancelledElsewhere
<1> QED
  BY <1>4, <1>5, <1>6, <1>7, <1>8, <1>9, <1>10 DEF Next

(* Both layers hold in every reachable state.                              *)
THEOREM PackageInvariance == Spec => []PackagesInv
<1>1. Inv /\ PackagesInv /\ [Next]_vars => PackagesInv'
  <2>1. CASE Next
    BY <2>1, NextFits
  <2>2. CASE UNCHANGED vars
    BY <2>2 DEF vars, PackagesInv
  <2> QED
    BY <2>1, <2>2
<1> QED
  BY <1>1, InitFits, Invariance, PTL DEF Spec

-----------------------------------------------------------------------------
(* What the two layers say about packages that are carried, that lie in    *)
(* the zone and that were delivered.                                       *)

(* The task about a package that is carried is between loading and         *)
(* unloading it.                                                           *)
CarryingStages == {"Load", "VacatePickup", "RequestDropoff", "MoveToDropoff", "Unload"}

LEMMA CarriedFacts ==
  ASSUME NEW w, NEW V, WorldInv(w, V), PackageInv(w, V),
         NEW p \in Item, w.carrier[p] # NoRobot
  PROVE  \E t \in Task : /\ ItemOf(t) = p /\ RobotOf(t) = w.carrier[p]
                         /\ w.stage[t] \in CarryingStages /\ w.claim[RobotOf(t)] = t
<1>1. w.carrier[p] \in {UpstreamRobot, DownstreamRobot} /\ UpstreamRobot # DownstreamRobot
  BY WorldFields DEF WorldInv, Robot, UpstreamRobot, DownstreamRobot
<1>2. PICK t \in Task : ItemOf(t) = p /\ RobotOf(t) = w.carrier[p]
  <2>1. RobotOf(<<p, Inbound>>) = UpstreamRobot /\ RobotOf(<<p, Outbound>>) = DownstreamRobot
    BY LegFacts DEF RobotOf, Inbound, Outbound
  <2> QED
    BY <1>1, <2>1, LegFacts
<1>3. IsLoaded(w, t)
  BY <1>2 DEF IsLoaded
<1>4. StageFits(w.stage[t], Origin(t), Origin(t) + 1) /\ Origin(t) \in Nat /\ w.stage[t] \in Stage
  BY <1>3, PositionFacts, WorldFields DEF Origin, WorldInv
<1>5. w.stage[t] \in CarryingStages
  BY <1>4 DEF StageFits, CarryingStages, Stage
<1>6. w.claim[RobotOf(t)] = t
  BY <1>5 DEF WorldInv, TaskInv, Engaged, CarryingStages
<1> QED
  BY <1>2, <1>5, <1>6

(* A package lies in the zone when its first task has left it there and    *)
(* its second has not taken it; it is in the buffer then, or about to be   *)
(* put there.                                                              *)
LEMMA LyingFacts ==
  ASSUME NEW w, NEW V, WorldInv(w, V), PackageInv(w, V), NEW p \in Item
  PROVE  /\ IsItemAt(w, p, Zone) <=> Position(w, p) = 2
         /\ IsItemAt(w, p, Zone) =>
              \/ p \in w.zone.buf
              \/ w.stage[<<p, Inbound>>] = "Unload" /\ w.zone.buf = {}
         /\ p \in w.zone.buf =>
              IsItemAt(w, p, Zone) \/ w.stage[<<p, Outbound>>] = "Load"
<1> DEFINE t == <<p, Inbound>>
           u == <<p, Outbound>>
<1>1. /\ t \in Task /\ u \in Task /\ ItemOf(t) = p /\ ItemOf(u) = p
      /\ Origin(t) = 0 /\ Origin(u) = 2 /\ PickupOf(u) = Zone
      /\ LegOf(t) = Inbound /\ LegOf(u) = Outbound
  BY LegFacts
<1>2. IsItemAt(w, p, Zone) <=> Position(w, p) = 2
  BY <1>1, PositionFacts
<1>3. /\ StageFits(w.stage[t], 0, Position(w, p)) /\ StageFits(w.stage[u], 2, Position(w, p))
      /\ w.stage[t] \in Stage /\ w.stage[u] \in Stage
  BY <1>1, PositionFacts, WorldFields DEF WorldInv
<1> HIDE DEF t, u
<1>4. BufferFits(w) /\ (p \in w.zone.buf <=> IsBuffered(w, p))
  BY DEF PackageInv, BufferFits
<1>5. ASSUME Position(w, p) = 2
      PROVE  p \in w.zone.buf \/ (w.stage[t] = "Unload" /\ w.zone.buf = {})
  <2>1. w.stage[u] \in UnfetchedStages /\ w.stage[t] \in {"Unload", "VacateDropoff", "Done"}
    BY <1>3, <1>5 DEF StageFits, Stage, UnfetchedStages
  <2>2. w.stage[t] = "Unload" => w.zone.buf = {}
    BY <1>1, <1>4 DEF BufferFits, EmptyBufferStages
  <2> QED
    BY <1>4, <2>1, <2>2 DEF IsBuffered, BroughtStages, t, u
<1>6. ASSUME p \in w.zone.buf PROVE Position(w, p) = 2 \/ w.stage[u] = "Load"
  <2>1. w.stage[t] \in {"VacateDropoff", "Done"} /\ w.stage[u] \in UnfetchedStages
    BY <1>4, <1>6 DEF IsBuffered, BroughtStages, t, u
  <2>2. Position(w, p) \in 0 .. 4
    BY DEF Position
  <2> QED
    BY <1>3, <2>1, <2>2 DEF StageFits, UnfetchedStages
<1> QED
  BY <1>2, <1>5, <1>6 DEF t, u

(* One package at most lies in the zone.                                   *)
LEMMA LyingAlone ==
  ASSUME NEW w, NEW V, WorldInv(w, V), PackageInv(w, V),
         NEW p \in LyingInZone(w), NEW q \in LyingInZone(w)
  PROVE  p = q
<1>1. p \in Item /\ q \in Item /\ IsItemAt(w, p, Zone) /\ IsItemAt(w, q, Zone)
  BY DEF LyingInZone
<1>2. CASE p \in w.zone.buf
  <2>1. q \in w.zone.buf
    BY <1>1, <1>2, LyingFacts
  <2> QED
    BY <1>2, <2>1 DEF PackageInv, BufferFits
<1>3. CASE p \notin w.zone.buf
  <2>1. w.stage[<<p, Inbound>>] = "Unload" /\ w.zone.buf = {}
    BY <1>1, <1>3, LyingFacts
  <2>2. w.stage[<<q, Inbound>>] = "Unload"
    BY <1>1, <2>1, LyingFacts
  <2>3. /\ w.stage[<<p, Inbound>>] \in ZoneStages(<<p, Inbound>>)
        /\ w.stage[<<q, Inbound>>] \in ZoneStages(<<q, Inbound>>)
    BY <1>1, <2>1, <2>2, LegFacts DEF ZoneStages
  <2>4. <<p, Inbound>> = <<q, Inbound>>
    BY <1>1, <2>3, LegFacts, AloneInZone
  <2> QED
    BY <2>4
<1> QED
  BY <1>2, <1>3

(* Past its pickup in the zone, or inside it, a task finds the task that   *)
(* brought its package done.                                               *)
LEMMA BroughtBefore ==
  ASSUME NEW w, NEW V, WorldInv(w, V), PackageInv(w, V), NEW u \in Task, PickupOf(u) = Zone,
         w.stage[u] \notin {"ClaimRobot", "RequestPickup"}
  PROVE  w.stage[<<ItemOf(u), Inbound>>] = "Done"
<1> DEFINE p == ItemOf(u)
           t == <<p, Inbound>>
           n == Position(w, p)
<1>1. /\ t \in Task /\ ItemOf(t) = p /\ Origin(t) = 0 /\ LegOf(t) = Inbound
      /\ Origin(u) = 2 /\ LegOf(u) = Outbound /\ DropoffOf(t) = Zone
  BY LegFacts, TaskFacts, ZoneStageFacts DEF Origin
<1>2. StageFits(w.stage[t], 0, n) /\ StageFits(w.stage[u], 2, n) /\ n \in 0 .. 4
  BY <1>1, PositionFacts DEF Position
<1>3. w.stage[t] \in Stage /\ w.stage[u] \in Stage
  BY <1>1, WorldFields DEF WorldInv
<1>4. w.stage[u] \in {"MoveToPickup", "Load"} => w.stage[t] \notin {"Unload", "VacateDropoff"}
  <2>1. w.stage[u] \in {"MoveToPickup", "Load"} => w.stage[u] \in ZoneStages(u)
    BY ZoneStageFacts
  <2>2. w.stage[t] \in {"Unload", "VacateDropoff"} => w.stage[t] \in ZoneStages(t)
    BY <1>1, ZoneStageFacts
  <2>3. t # u
    BY <1>1 DEF Inbound, Outbound
  <2> QED
    BY <1>1, <2>1, <2>2, <2>3, AloneInZone
<1> HIDE DEF n, t
<1>5. CASE n = 2
  <2>1. w.stage[u] \in {"MoveToPickup", "Load"} /\ w.stage[t] \in {"Unload", "VacateDropoff", "Done"}
    BY <1>2, <1>3, <1>5 DEF StageFits, Stage
  <2> QED
    BY <1>4, <2>1 DEF t
<1>6. CASE n # 2
  <2>1. n \in {3, 4}
    BY <1>2, <1>3, <1>6 DEF StageFits, Stage
  <2>2. w.stage[t] = "Done"
    BY <1>2, <1>3, <2>1 DEF StageFits, Stage
  <2> QED
    BY <2>2 DEF t
<1> QED
  BY <1>5, <1>6

(* A visitor of the zone is the robot of the one task that has acquired it *)
(* and not released it yet.                                                *)
LEMMA VisitorFacts ==
  ASSUME NEW w, NEW V, WorldInv(w, V), NEW r \in V, r \in Robot
  PROVE  \E t \in Task : /\ RobotOf(t) = r /\ w.claim[r] = t
                         /\ w.stage[t] \in ZoneStages(t) /\ w.zone.lease = t
<1>1. w \in World /\ TaskInv(w) /\ ZoneInv(w) /\ VisitorInv(w, V)
  BY DEF WorldInv
<1>2. \A t \in Task : w.stage[t] \in ZoneStages(t) => w.claim[RobotOf(t)] = t /\ w.zone.lease = t
  BY <1>1 DEF TaskInv, ZoneInv, Engaged, ZoneStages
<1>3. CASE w.loc[r] = Zone
  <2>1. w.zone.lease \in Task /\ RobotOf(w.zone.lease) = r
    BY <1>1, <1>3, WorldFields DEF ZoneInv, HoldsLease, ZoneState
  <2>2. w.stage[w.zone.lease] \in ZoneStages(w.zone.lease)
    BY <1>1, <2>1 DEF ZoneInv
  <2> QED
    BY <1>2, <2>1, <2>2
<1>4. CASE w.loc[r] # Zone
  <2>1. PICK t \in Task : RobotOf(t) = r /\ w.stage[t] = ApproachStage(t)
    BY <1>1, <1>4 DEF VisitorInv
  <2>2. w.stage[t] \in ZoneStages(t)
    BY <2>1 DEF ApproachStage, ZoneStages
  <2> QED
    BY <1>2, <2>1, <2>2
<1> QED
  BY <1>3, <1>4

-----------------------------------------------------------------------------
(* A robot never carries two packages, and carries one only for the task   *)
(* it is claimed by.                                                       *)
THEOREM CarriersOwnPackages == Spec => []CarrierOwnsPackage
<1>1. Inv /\ PackagesInv => CarrierOwnsPackage
  <2> SUFFICES ASSUME Inv, PackagesInv, NEW p \in Item, world.carrier[p] # NoRobot
               PROVE  ItemOf(world.claim[world.carrier[p]]) = p
    BY DEF CarrierOwnsPackage
  <2> QED
    BY CarriedFacts DEF Inv, PackagesInv
<1> QED
  BY <1>1, Invariance, PackageInvariance, PTL

(* Whoever handles a package stands where the package is, and in the zone  *)
(* the books know of both.                                                 *)
THEOREM PackagesAreHandled == Spec => []HandlingIsPossible
<1>1. Inv /\ PackagesInv => HandlingIsPossible
  <2> SUFFICES ASSUME Inv, PackagesInv, NEW c \in world.live
               PROVE  LET r == RobotOf(c.task)
                          p == ItemOf(c.task)
                      IN  /\ c.kind = "load" =>
                               /\ world.loc[r] = PickupOf(c.task)
                               /\ IsItemAt(world, p, PickupOf(c.task))
                               /\ PickupOf(c.task) = Zone =>
                                    r \in world.zone.occ /\ p \in world.zone.buf
                          /\ c.kind = "unload" =>
                               /\ world.loc[r] = DropoffOf(c.task)
                               /\ world.carrier[p] = r
                               /\ DropoffOf(c.task) = Zone =>
                                    r \in world.zone.occ /\ world.zone.buf = {}
    BY DEF HandlingIsPossible
  <2> DEFINE t == c.task
             p == ItemOf(t)
             n == Position(world, p)
  <2>1. WorldInv(world, visitors) /\ PackageInv(world, visitors)
    BY DEF Inv, PackagesInv
  <2>2. /\ t \in Task /\ p \in Item /\ Unfinished(world, t)
        /\ CommandFits(world, c) /\ TaskFits(world, t) /\ BufferFits(world)
    BY <2>1, LiveCommandFacts, TaskFacts DEF PackageInv
  <2>3. /\ IsItemAt(world, p, PickupOf(t)) <=> n = Origin(t)
        /\ IsLoaded(world, t) <=> n = Origin(t) + 1
        /\ IsUnloaded(world, t) <=> n = Origin(t) + 2
        /\ StageFits(world.stage[t], Origin(t), n)
    BY <2>1, <2>2, PositionFacts
  <2> HIDE DEF n
  <2>4. ASSUME c.kind = "load"
        PROVE  /\ world.loc[RobotOf(t)] = PickupOf(t)
               /\ IsItemAt(world, p, PickupOf(t))
               /\ PickupOf(t) = Zone => RobotOf(t) \in world.zone.occ /\ p \in world.zone.buf
    <3>1. world.stage[t] = "Load" /\ ~ IsLoaded(world, t)
      BY <2>2, <2>4 DEF CommandFits, Unfinished
    <3>2. world.loc[RobotOf(t)] = PickupOf(t) /\ IsItemAt(world, p, PickupOf(t))
      BY <2>2, <2>3, <3>1 DEF TaskFits, StageFits
    <3>3. ASSUME PickupOf(t) = Zone PROVE RobotOf(t) \in world.zone.occ /\ p \in world.zone.buf
      <4>1. world.stage[t] \in ZoneStages(t) \ {ApproachStage(t)}
        BY <2>2, <3>1, <3>3, ZoneStageFacts
      <4>2. world.stage[<<p, Inbound>>] = "Done"
        BY <2>1, <2>2, <3>1, <3>3, BroughtBefore
      <4>3. t = <<p, Outbound>>
        BY <2>2, <3>3, ZoneStageFacts, LegIdentity
      <4>4. IsBuffered(world, p)
        BY <3>1, <4>2, <4>3 DEF IsBuffered, BroughtStages, UnfetchedStages
      <4> QED
        BY <2>2, <4>1, <4>4 DEF TaskFits, BufferFits
    <3> QED
      BY <3>2, <3>3
  <2>5. ASSUME c.kind = "unload"
        PROVE  /\ world.loc[RobotOf(t)] = DropoffOf(t)
               /\ world.carrier[p] = RobotOf(t)
               /\ DropoffOf(t) = Zone => RobotOf(t) \in world.zone.occ /\ world.zone.buf = {}
    <3>1. world.stage[t] = "Unload" /\ ~ IsUnloaded(world, t)
      BY <2>2, <2>5 DEF CommandFits, Unfinished
    <3>2. IsLoaded(world, t)
      BY <2>3, <3>1 DEF StageFits
    <3>3. ASSUME DropoffOf(t) = Zone
          PROVE  RobotOf(t) \in world.zone.occ /\ world.zone.buf = {}
      <4>1. /\ world.stage[t] \in ZoneStages(t) \ {ApproachStage(t)}
            /\ world.stage[t] \in EmptyBufferStages(t)
        BY <2>2, <3>1, <3>3, ZoneStageFacts
      <4> QED
        BY <2>2, <4>1 DEF TaskFits, BufferFits
    <3> QED
      BY <2>2, <3>1, <3>2, <3>3 DEF TaskFits, IsLoaded
  <2> QED
    BY <2>4, <2>5
<1> QED
  BY <1>1, Invariance, PackageInvariance, PTL

(* The zone's books agree with the world whenever the lease is free.       *)
THEOREM BooksAreKept == Spec => []ZoneBooksAgree
<1>1. Inv /\ PackagesInv => ZoneBooksAgree
  <2> SUFFICES ASSUME Inv, PackagesInv PROVE ZoneBooksAgree
    OBVIOUS
  <2>1. WorldInv(world, visitors) /\ PackageInv(world, visitors)
    BY DEF Inv, PackagesInv
  <2>2. world.zone.occ \subseteq {r \in Robot : HoldsLease(world, r)}
    BY <2>1, WorldFields DEF WorldInv, ZoneInv, ZoneState
  <2>3. ASSUME world.zone.lease = NoTask, NEW p \in Item
        PROVE  p \in world.zone.buf <=> IsItemAt(world, p, Zone)
    <3>1. \A t \in Task : world.stage[t] \notin ZoneStages(t)
      BY <2>1, <2>3, TaskFacts DEF WorldInv, ZoneInv
    <3>2. world.stage[<<p, Inbound>>] # "Unload" /\ world.stage[<<p, Outbound>>] # "Load"
      BY <3>1, LegFacts, ZoneStageFacts
    <3> QED
      BY <2>1, <3>2, LyingFacts
  <2>4. world.zone.buf \subseteq Item
    BY <2>1, WorldFields DEF WorldInv, ZoneState
  <2>5. world.zone.lease = NoTask => world.zone.buf = LyingInZone(world)
    BY <2>3, <2>4 DEF LyingInZone
  <2>6. \A p, q \in LyingInZone(world) : p = q
    BY <2>1, LyingAlone
  <2> QED
    BY <2>2, <2>5, <2>6 DEF ZoneBooksAgree
<1> QED
  BY <1>1, Invariance, PackageInvariance, PTL

(* The dependency shown for a task is kept.                                *)
THEOREM DependenciesHold == Spec => []DependenciesAreKept
<1>1. Inv /\ PackagesInv => DependenciesAreKept
  <2> SUFFICES ASSUME Inv, PackagesInv, NEW t \in Task, Phase(world, t) # "NOT_STARTED",
                      ~ WaitsForResource(world, t), NEW d \in Dependencies(t)
               PROVE  world.status[d] = "SUCCEEDED"
    BY DEF DependenciesAreKept
  <2>1. WorldInv(world, visitors) /\ PackageInv(world, visitors)
    BY DEF Inv, PackagesInv
  <2>2. world.stage[t] # "ClaimRobot"
    BY DEF Phase
  <2>3. world.stage[t] # "RequestPickup"
    BY DEF WaitsForResource
  <2>4. PickupOf(t) = Zone /\ d = <<ItemOf(t), Inbound>>
    BY DEF Dependencies
  <2>5. world.stage[d] = "Done" /\ d \in Task
    BY <2>1, <2>2, <2>3, <2>4, BroughtBefore, LegFacts, TaskFacts
  <2> QED
    BY <2>1, <2>5 DEF PackageInv, TaskFits
<1> QED
  BY <1>1, Invariance, PackageInvariance, PTL

(* A failed mission shows who failed.                                      *)
THEOREM FailuresAreShown == Spec => []FailureIsShown
<1>1. Inv /\ PackagesInv => FailureIsShown
  <2> SUFFICES ASSUME Inv, PackagesInv, world.mission = "FAILED"
               PROVE  \E r \in Robot :
                        /\ RobotIssue(world, r) = "command_failed"
                        /\ NextExpectedEvent(world, world.claim[r]) = "operator intervention"
                        /\ CommandsOf(r) = {}
    BY DEF FailureIsShown
  <2>1. WorldInv(world, visitors) /\ PackageInv(world, visitors)
    BY DEF Inv, PackagesInv
  <2>2. PICK t \in Task : HasFailed(world, t)
    BY <2>1 DEF PackageInv, MissionFits
  <2>3. /\ world.status[t] = "FAILED" /\ world.blocker[t].reason = "command_failed"
        /\ world.claim[RobotOf(t)] = t /\ t # NoTask /\ RobotOf(t) \in Robot
        /\ Engaged(world, t)
    BY <2>1, <2>2, TaskFacts DEF HasFailed, WorldInv, TaskInv
  <2>4. world.active[t] = NoCommand
    BY <2>1, <2>3 DEF PackageInv, BlockerFits
  <2>5. CommandsOf(RobotOf(t)) = {}
    <3> SUFFICES ASSUME NEW c \in world.live, RobotOf(c.task) = RobotOf(t) PROVE FALSE
      BY DEF CommandsOf
    <3>1. c.task \in Task /\ Engaged(world, c.task) /\ world.active[c.task] # NoCommand
      BY <2>1, LiveCommandFacts DEF IsActiveCommand
    <3>2. c.task = t
      BY <2>1, <2>3, <3>1, EngagedAlone DEF WorldInv
    <3> QED
      BY <2>4, <3>1, <3>2
  <2>6. RobotIssue(world, RobotOf(t)) = "command_failed"
    BY <2>3 DEF RobotIssue, Notes
  <2>7. NextExpectedEvent(world, t) = "operator intervention"
    BY <2>3 DEF NextExpectedEvent
  <2> QED
    BY <2>3, <2>5, <2>6, <2>7
<1> QED
  BY <1>1, Invariance, PackageInvariance, PTL

(* A task that is over has let go of everything.                           *)
THEOREM SuccessLeavesNothing == Spec => []SucceededLeavesNothing
<1>1. Inv /\ PackagesInv => SucceededLeavesNothing
  <2> SUFFICES ASSUME Inv, PackagesInv PROVE SucceededLeavesNothing
    OBVIOUS
  <2>1. /\ WorldInv(world, visitors) /\ PackageInv(world, visitors)
        /\ world \in World /\ TaskInv(world) /\ ZoneInv(world) /\ CommandInv(world)
    BY DEF Inv, PackagesInv, WorldInv
  <2>2. ASSUME NEW t \in Task, world.status[t] = "SUCCEEDED"
        PROVE  /\ world.claim[RobotOf(t)] # t /\ world.zone.lease # t /\ t \notin world.acquired
               /\ world.active[t] = NoCommand
               /\ world.place[ItemOf(t)] \in {Zone, "destination"}
               /\ world.carrier[ItemOf(t)] # RobotOf(t)
               /\ Position(world, ItemOf(t)) >= Origin(t) + 2
    <3> DEFINE n == Position(world, ItemOf(t))
    <3>1. world.stage[t] = "Done"
      BY <2>1, <2>2 DEF PackageInv, TaskFits
    <3>2. ~ Engaged(world, t) /\ world.stage[t] \notin ZoneStages(t)
      BY <3>1 DEF Engaged, ZoneStages
    <3>3. /\ world.claim[RobotOf(t)] # t /\ world.zone.lease # t /\ t \notin world.acquired
          /\ world.active[t] = NoCommand
      BY <2>1, <3>2 DEF TaskInv, ZoneInv, CommandInv
    <3>4. /\ n >= Origin(t) + 2 /\ n \in 0 .. 4 /\ Origin(t) \in {0, 2}
          /\ IsLoaded(world, t) <=> n = Origin(t) + 1
      BY <2>1, <3>1, PositionFacts DEF StageFits, Position, Origin
    <3>5. world.carrier[ItemOf(t)] # RobotOf(t)
      BY <3>4 DEF IsLoaded
    <3>6. n >= 2
      BY <3>4
    <3>7. world.place[ItemOf(t)] \in {Zone, "destination"}
      <4>1. OnTheWay(world, ItemOf(t))
        BY <2>1, TaskFacts DEF PackageInv
      <4> QED
        BY <3>6, <4>1 DEF Position, OnTheWay
    <3> QED
      BY <3>3, <3>4, <3>5, <3>7
  <2>3. ASSUME world.mission = "COMPLETED"
        PROVE  /\ \A p \in Item : IsItemAt(world, p, "destination")
               /\ world.zone = EmptyZone
               /\ world.live = {}
    <3>1. \A t \in Task : world.status[t] = "SUCCEEDED"
      BY <2>1, <2>3 DEF PackageInv, MissionFits, AllSucceeded
    <3>2. \A t \in Task : world.stage[t] = "Done"
      BY <2>1, <3>1 DEF PackageInv, TaskFits
    <3>3. ASSUME NEW p \in Item PROVE IsItemAt(world, p, "destination") /\ p \notin world.zone.buf
      <4> DEFINE u == <<p, Outbound>>
      <4>1. /\ u \in Task /\ ItemOf(u) = p /\ Origin(u) = 2 /\ DropoffOf(u) = "destination"
        BY LegFacts, TaskFacts, ZoneStageFacts
      <4>2. world.stage[u] = "Done"
        BY <3>2, <4>1
      <4>3. Position(world, p) >= 4 /\ Position(world, p) \in 0 .. 4
        BY <3>1, <2>2, <4>1 DEF Position
      <4>4. IsUnloaded(world, u)
        BY <2>1, <4>1, <4>3, PositionFacts
      <4>5. p \notin world.zone.buf
        BY <2>1, <4>2 DEF PackageInv, BufferFits, IsBuffered, UnfetchedStages
      <4> QED
        BY <4>1, <4>4, <4>5 DEF IsUnloaded
    <3>4. world.zone \in ZoneState
      BY <2>1, WorldFields
    <3>5. world.zone.lease = NoTask
      BY <3>1, <2>2, <3>4 DEF ZoneState
    <3>6. world.zone.occ = {}
      BY <2>1, <3>5 DEF ZoneInv, HoldsLease
    <3>7. world.zone.buf = {}
      BY <3>3, <3>4 DEF ZoneState
    <3>8. world.zone = EmptyZone
      BY <3>4, <3>5, <3>6, <3>7 DEF ZoneState, EmptyZone
    <3>9. world.live = {}
      BY <2>1, <3>2, LiveCommandFacts DEF Engaged
    <3> QED
      BY <3>3, <3>8, <3>9
  <2> QED
    BY <2>2, <2>3 DEF SucceededLeavesNothing
<1> QED
  BY <1>1, Invariance, PackageInvariance, PTL

(* What blocks a task is shown, is the right thing, and is shown no longer *)
(* than it blocks.                                                         *)
THEOREM BlockersHold == Spec => []BlockersAreTruthful
<1>1. Inv /\ PackagesInv => BlockersAreTruthful
  <2> SUFFICES ASSUME Inv, PackagesInv PROVE BlockersAreTruthful
    OBVIOUS
  <2>1. WorldInv(world, visitors) /\ PackageInv(world, visitors)
    BY DEF Inv, PackagesInv
  <2>2. ASSUME NEW t \in Task, world.status[t] = "BLOCKED"
        PROVE  WaitsForResource(world, t) /\ BlocksTask(t, world.blocker[t])
               /\ (DropoffOf(t) = Zone => world.carrier[ItemOf(t)] = RobotOf(t))
    <3>1. world.stage[t] = RequestStage(t) /\ BlocksTask(t, world.blocker[t])
      BY <2>1, <2>2 DEF PackageInv, TaskFits, BlockerFits
    <3>2. ASSUME DropoffOf(t) = Zone PROVE IsLoaded(world, t)
      <4>1. world.stage[t] = "RequestDropoff"
        BY <3>1, <3>2, ZoneStageFacts
      <4> QED
        BY <2>1, <4>1, PositionFacts DEF StageFits
    <3> QED
      BY <3>1, <3>2 DEF WaitsForResource, RequestStage, IsLoaded
  <2>3. ASSUME NEW t \in ActiveTasks(world), ~ WaitsForResource(world, t)
        PROVE  world.blocker[t] = BlockedByNothing
    <3>1. t \in Task /\ world.status[t] \in {"RUNNING", "BLOCKED"}
      BY DEF ActiveTasks
    <3>2. world.stage[t] # RequestStage(t)
      BY <2>3 DEF WaitsForResource, RequestStage
    <3> QED
      BY <2>1, <3>1, <3>2 DEF PackageInv, BlockerFits
  <2>4. ASSUME NEW t \in Task, world.status[t] = "BLOCKED"
        PROVE  CurrentBlocker(world) \in AccessReason
    <3> DEFINE blocked == {u \in Task : world.status[u] = "BLOCKED"}
               first == FirstInDict(blocked)
    <3>1. blocked # {}
      BY <2>4
    <3>2. first \in blocked
      BY <3>1, FirstInDictMember
    <3> HIDE DEF first
    <3>3. first \in Task /\ BlocksTask(first, world.blocker[first])
      BY <2>2, <3>2
    <3>4. world.blocker[first].reason \in AccessReason
      BY <3>3 DEF BlocksTask, AccessReason
    <3> QED
      BY <3>1, <3>4 DEF CurrentBlocker, first
  <2> QED
    BY <2>2, <2>3, <2>4 DEF BlockersAreTruthful, BlocksTask
<1> QED
  BY <1>1, Invariance, PackageInvariance, PTL

(* What is shown as free is free.                                          *)
THEOREM DashboardHolds == Spec => []DashboardIsTruthful
<1>1. Inv /\ PackagesInv => DashboardIsTruthful
  <2> SUFFICES ASSUME Inv, PackagesInv PROVE DashboardIsTruthful
    OBVIOUS
  <2>1. /\ WorldInv(world, visitors) /\ PackageInv(world, visitors) /\ visitors \subseteq Robot
        /\ world \in World /\ TaskInv(world) /\ ZoneInv(world)
    BY DEF Inv, PackagesInv, WorldInv
  <2>2. \A t \in Task : Engaged(world, t) => world.claim[RobotOf(t)] = t /\ t # NoTask
    BY <2>1, TaskFacts DEF TaskInv
  <2>3. ASSUME NEW c \in world.live
        PROVE  /\ c.task \in Task /\ world.claim[RobotOf(c.task)] = c.task
               /\ world.active[c.task] # NoCommand /\ c.task # NoTask
    BY <2>1, LiveCommandFacts, TaskFacts DEF IsActiveCommand
  <2>4. ASSUME NEW r \in visitors
        PROVE  \E t \in Task : /\ RobotOf(t) = r /\ world.claim[r] = t
                               /\ world.stage[t] \in ZoneStages(t) /\ world.zone.lease = t
    BY <2>1, VisitorFacts
  <2>5. ASSUME NEW r \in Robot, RobotState(world, r) = "idle"
        PROVE  /\ CommandsOf(r) = {} /\ r \notin visitors
               /\ \A p \in Item : world.carrier[p] # r
    <3>1. world.claim[r] = NoTask
      BY <2>5 DEF RobotState
    <3>2. CommandsOf(r) = {}
      BY <2>3, <3>1 DEF CommandsOf
    <3>3. r \notin visitors
      BY <2>4, <3>1, TaskFacts
    <3>4. \A p \in Item : world.carrier[p] # r
      <4>1. r # NoRobot
        BY DEF Robot, UpstreamRobot, DownstreamRobot, NoRobot
      <4> QED
        BY <2>1, <3>1, <4>1, CarriedFacts, TaskFacts
    <3> QED
      BY <3>2, <3>3, <3>4
  <2>6. ASSUME NEW r \in Robot, RobotState(world, r) = "waiting"
        PROVE  /\ CommandsOf(r) = {} /\ r \notin visitors
               /\ world.loc[r] = WaitWaypointOf(r)
    <3> DEFINE t == world.claim[r]
    <3>1. t # NoTask /\ world.status[t] = "BLOCKED"
      BY <2>6 DEF RobotState
    <3>2. t \in Task /\ RobotOf(t) = r
      BY <2>1, <3>1, WorldFields DEF TaskInv
    <3>3. /\ world.stage[t] = RequestStage(t) /\ world.loc[r] = WaitWaypointOf(r)
          /\ world.active[t] = NoCommand
      BY <2>1, <3>1, <3>2 DEF PackageInv, TaskFits
    <3>4. CommandsOf(r) = {}
      BY <2>3, <3>2, <3>3 DEF CommandsOf
    <3>5. world.stage[t] \notin ZoneStages(t)
      BY <3>3 DEF RequestStage, ZoneStages
    <3>6. r \notin visitors
      BY <2>4, <3>5
    <3> QED
      BY <3>3, <3>4, <3>6
  <2>7. ASSUME NEW r \in Robot, RobotState(world, r) = "assigned", NEW c \in CommandsOf(r)
        PROVE  c.kind # "move"
    <3>1. c \in world.live /\ RobotOf(c.task) = r
      BY DEF CommandsOf
    <3>2. world.claim[r] = c.task
      BY <2>3, <3>1
    <3>3. ~ IsMoving(world, world.claim[r])
      BY <2>7 DEF RobotState
    <3> QED
      BY <3>1, <3>2, <3>3 DEF IsMoving
  <2>8. ASSUME ZoneStatus(world) = "available", LeaseOwner(world) = NoRobot
        PROVE  visitors = {} /\ LyingInZone(world) = {}
    <3>1. world.zone.buf = {} /\ world.zone.occ = {}
      BY <2>8 DEF ZoneStatus
    <3>2. world.zone.lease = NoTask
      <4>1. world.zone.lease \in Task => RobotOf(world.zone.lease) # NoRobot
        BY TaskFacts DEF Robot, UpstreamRobot, DownstreamRobot, NoRobot
      <4> QED
        BY <2>1, <2>8, <4>1, WorldFields DEF LeaseOwner, ZoneState
    <3>3. visitors = {}
      BY <2>4, <3>2, TaskFacts
    <3>4. ASSUME NEW p \in LyingInZone(world) PROVE FALSE
      <4>1. p \in Item /\ world.stage[<<p, Inbound>>] = "Unload"
        BY <2>1, <3>1, LyingFacts DEF LyingInZone
      <4>2. <<p, Inbound>> \in Task /\ world.stage[<<p, Inbound>>] \in ZoneStages(<<p, Inbound>>)
        BY <4>1, LegFacts, ZoneStageFacts
      <4> QED
        BY <2>1, <3>2, <4>2, TaskFacts DEF ZoneInv
    <3> QED
      BY <3>3, <3>4
  <2> QED
    BY <2>5, <2>6, <2>7, <2>8 DEF DashboardIsTruthful
<1> QED
  BY <1>1, Invariance, PackageInvariance, PTL

-----------------------------------------------------------------------------
(* Steps.                                                                  *)

(* A robot that is held gets no new command but to retry the move it was   *)
(* making, whatever is answered, paused, resumed or aborted meanwhile.     *)
THEOREM HeldRobotsOnlyRetry == Spec => HeldRobotOnlyRetries
<1>1. Inv /\ PackagesInv /\ [Next]_vars =>
        [\A d \in NewCommands :
           Held(world, RobotOf(d.task)) /\ Held(world', RobotOf(d.task)) =>
             \E c \in world.live \ world'.live :
               c.task = d.task /\ c.kind = "move" /\ d.kind = "move" /\ c.target = d.target]_vars
  <2> SUFFICES ASSUME Inv, PackagesInv, Next
               PROVE  OnlyRetries(world, world')
    BY DEF OnlyRetries, NewCommands
  <2> QED
    BY NextFits DEF QuietStep, SuccessStep, NothingHandled
<1> QED
  BY <1>1, Invariance, PackageInvariance, PTL DEF Spec, HeldRobotOnlyRetries

(* The places of a package's way, one after the other.                     *)
LEMMA FollowingPlaces ==
  ASSUME NEW t \in Task
  PROVE  /\ Handoff!FollowingPlace[PickupOf(t)] = RobotOf(t)
         /\ Handoff!FollowingPlace[RobotOf(t)] = DropoffOf(t)
         /\ RobotOf(t) \notin {"source", Zone, "destination", NoRobot}
         /\ PickupOf(t) \notin {"destination", NoRobot}
         /\ DropoffOf(t) # "destination" => DropoffOf(t) = Zone
<1>1. /\ Handoff!FollowingPlace["source"] = "tb3_1"
      /\ Handoff!FollowingPlace["tb3_1"] = "transfer"
      /\ Handoff!FollowingPlace["transfer"] = "tb3_2"
      /\ Handoff!FollowingPlace["tb3_2"] = "destination"
  BY DEF Handoff!FollowingPlace
<1> QED
  BY <1>1, TaskFacts DEF UpstreamRobot, DownstreamRobot, Zone, NoRobot

(* Before a load nobody else has a package on that robot, and before an    *)
(* unload in the zone no package lies there.                               *)
LEMMA RoomToLoad ==
  ASSUME Inv, PackagesInv, NEW t \in Task, world.stage[t] = "Load",
         IsItemAt(world, ItemOf(t), PickupOf(t))
  PROVE  \A q \in Item : PackageWhere[q] # RobotOf(t)
<1> SUFFICES ASSUME NEW q \in Item, PackageWhere[q] = RobotOf(t) PROVE FALSE
  OBVIOUS
<1>1. WorldInv(world, visitors) /\ PackageInv(world, visitors)
  BY DEF Inv, PackagesInv
<1>2. world.place[q] # RobotOf(t)
  BY <1>1, FollowingPlaces DEF PackageInv, OnTheWay
<1>3. world.carrier[q] = RobotOf(t) /\ world.carrier[q] # NoRobot
  BY <1>2, FollowingPlaces DEF PackageWhere
<1>4. PICK u \in Task : /\ ItemOf(u) = q /\ RobotOf(u) = RobotOf(t)
                        /\ world.claim[RobotOf(u)] = u
  BY <1>1, <1>3, CarriedFacts
<1>5. world.claim[RobotOf(t)] = t
  BY <1>1 DEF WorldInv, TaskInv, Engaged
<1>6. world.carrier[ItemOf(t)] = NoRobot
  BY DEF IsItemAt
<1> QED
  BY <1>3, <1>4, <1>5, <1>6

LEMMA RoomToUnload ==
  ASSUME Inv, PackagesInv, NEW t \in Task, world.stage[t] = "Unload",
         IsLoaded(world, t), DropoffOf(t) = Zone
  PROVE  LyingInZone(world) = {}
<1> SUFFICES ASSUME NEW q \in Item, IsItemAt(world, q, Zone) PROVE FALSE
  BY DEF LyingInZone
<1>1. WorldInv(world, visitors) /\ PackageInv(world, visitors) /\ BufferFits(world)
  BY DEF Inv, PackagesInv, PackageInv
<1>2. world.stage[t] \in EmptyBufferStages(t) /\ world.stage[t] \in ZoneStages(t)
  BY ZoneStageFacts
<1>3. world.stage[<<q, Inbound>>] = "Unload"
  BY <1>1, <1>2, LyingFacts DEF BufferFits
<1>4. <<q, Inbound>> \in Task /\ world.stage[<<q, Inbound>>] \in ZoneStages(<<q, Inbound>>)
  BY <1>3, LegFacts, ZoneStageFacts
<1>5. t = <<q, Inbound>> /\ ItemOf(t) = q
  BY <1>1, <1>2, <1>4, AloneInZone, LegFacts
<1>6. world.carrier[q] = RobotOf(t)
  BY <1>5 DEF IsLoaded
<1> QED
  BY <1>6, FollowingPlaces DEF IsItemAt

LEMMA HandoffInit == Init => Handoff!Init
  BY DEF Init, InitialWorld, Handoff!Init, PackageWhere

(* A package goes forward when a load or an unload succeeds, and never     *)
(* otherwise.                                                              *)
LEMMA HandoffStep == Inv /\ PackagesInv /\ [Next]_vars => [Handoff!Next]_PackageWhere
<1> SUFFICES ASSUME Inv, PackagesInv, [Next]_vars
             PROVE  Handoff!Next \/ PackageWhere' = PackageWhere
  OBVIOUS
<1>1. ASSUME PackagesStay(world, world') PROVE PackageWhere' = PackageWhere
  BY <1>1 DEF PackagesStay, PackageWhere
<1>2. CASE UNCHANGED vars
  BY <1>2 DEF vars, PackageWhere
<1>3. CASE QuietStep
  BY <1>1, <1>3 DEF QuietStep, NothingHandled
<1>4. ASSUME NEW c \in world.live, SuccessStep(c)
      PROVE  Handoff!Next \/ PackageWhere' = PackageWhere
  <2> DEFINE t == c.task
             p == ItemOf(t)
             r == RobotOf(t)
  <2>1. /\ t \in Task /\ p \in Item /\ c.kind \in Kind /\ world \in World
        /\ PackagesAfter(world, c, world')
    BY <1>4, LiveCommandFacts, TaskFacts DEF Inv, WorldInv, SuccessStep
  <2>2. /\ world.carrier \in [Item -> Robot \cup {NoRobot}]
        /\ world.place \in [Item -> Waypoint]
    BY <2>1, WorldFields
  <2>3. CASE c.kind = "move"
    BY <1>1, <2>1, <2>3 DEF PackagesAfter, PackagesStay
  <2>4. CASE c.kind = "load"
    <3>1. /\ world.stage[t] = "Load" /\ IsItemAt(world, p, PickupOf(t))
          /\ world'.carrier = [world.carrier EXCEPT ![p] = r] /\ world'.place = world.place
      BY <2>1, <2>4 DEF PackagesAfter
    <3>2. PackageWhere[p] = PickupOf(t)
      BY <2>1, <3>1 DEF IsItemAt, PackageWhere
    <3>3. \A q \in Item : PackageWhere[q] # r
      BY <2>1, <3>1, RoomToLoad
    <3>4. PackageWhere' = [PackageWhere EXCEPT ![p] = r]
      BY <2>1, <2>2, <3>1, FollowingPlaces DEF PackageWhere
    <3>5. Handoff!FollowingPlace[PackageWhere[p]] = r /\ PackageWhere[p] # "destination"
      BY <2>1, <3>2, FollowingPlaces
    <3>6. Handoff!Forward(p)
      BY <3>3, <3>4, <3>5 DEF Handoff!Forward, Handoff!HasRoom
    <3> QED
      BY <2>1, <3>6 DEF Handoff!Next
  <2>5. CASE c.kind = "unload"
    <3>1. /\ world.stage[t] = "Unload" /\ IsLoaded(world, t)
          /\ world'.carrier = [world.carrier EXCEPT ![p] = NoRobot]
          /\ world'.place = [world.place EXCEPT ![p] = DropoffOf(t)]
      BY <2>1, <2>5 DEF PackagesAfter
    <3>2. PackageWhere[p] = r /\ r # "destination"
      BY <2>1, <3>1, FollowingPlaces DEF IsLoaded, PackageWhere
    <3>3. \A q \in Item : DropoffOf(t) = Zone => PackageWhere[q] # Zone
      <4> SUFFICES ASSUME NEW q \in Item, DropoffOf(t) = Zone, PackageWhere[q] = Zone
                   PROVE  FALSE
        OBVIOUS
      <4>1. Zone \notin Robot
        BY DEF Zone, Robot, UpstreamRobot, DownstreamRobot
      <4>2. world.carrier[q] = NoRobot /\ world.place[q] = Zone
        BY <2>2, <4>1 DEF PackageWhere
      <4>3. q \in LyingInZone(world)
        BY <4>2 DEF LyingInZone, IsItemAt
      <4> QED
        BY <2>1, <3>1, <4>3, RoomToUnload
    <3>4. PackageWhere' = [PackageWhere EXCEPT ![p] = DropoffOf(t)]
      BY <2>1, <2>2, <3>1 DEF PackageWhere
    <3>5. Handoff!FollowingPlace[PackageWhere[p]] = DropoffOf(t)
      BY <2>1, <3>2, FollowingPlaces
    <3>6. Handoff!HasRoom(DropoffOf(t))
      BY <2>1, <3>3, FollowingPlaces DEF Handoff!HasRoom
    <3>7. Handoff!Forward(p)
      BY <3>2, <3>4, <3>5, <3>6 DEF Handoff!Forward
    <3> QED
      BY <2>1, <3>7 DEF Handoff!Next
  <2> QED
    BY <2>1, <2>3, <2>4, <2>5 DEF Kind
<1> QED
  BY <1>2, <1>3, <1>4, NextFits

(* The mission implements what it promises about packages.                 *)
THEOREM MissionImplementsHandoff == Spec => ImplementsHandoff
<1> QED
  BY Invariance, PackageInvariance, HandoffInit, HandoffStep, PTL
     DEF Spec, ImplementsHandoff, Handoff!Spec

-----------------------------------------------------------------------------
(* The transfer zone.                                                      *)

(* What lies in the zone when a task comes to it and when it goes.         *)
LEMMA ComingAndGoing ==
  ASSUME NEW w, NEW V, WorldInv(w, V), PackageInv(w, V), NEW t \in Task
  PROVE  /\ w.stage[t] = ApproachStage(t) =>
              (LyingInZone(w) = {} <=> RobotOf(t) = UpstreamRobot)
         /\ w.stage[t] = VacateStage(t) =>
              (LyingInZone(w) = {} <=> RobotOf(t) # UpstreamRobot)
<1>1. UpstreamRobot # DownstreamRobot /\ ItemOf(t) \in Item
  BY TaskFacts DEF UpstreamRobot, DownstreamRobot
<1>2. ASSUME w.stage[t] \in EmptyBufferStages(t), w.stage[t] # "Unload" PROVE LyingInZone(w) = {}
  <2> SUFFICES ASSUME NEW q \in Item, IsItemAt(w, q, Zone) PROVE FALSE
    BY DEF LyingInZone
  <2>1. w.zone.buf = {} /\ w.stage[t] \in ZoneStages(t)
    BY <1>2 DEF PackageInv, BufferFits, EmptyBufferStages, ZoneStages
  <2>2. w.stage[<<q, Inbound>>] = "Unload"
    BY <2>1, LyingFacts
  <2>3. <<q, Inbound>> \in Task /\ w.stage[<<q, Inbound>>] \in ZoneStages(<<q, Inbound>>)
    BY <2>2, LegFacts, ZoneStageFacts
  <2> QED
    BY <1>2, <2>1, <2>2, <2>3, AloneInZone
<1>3. ASSUME IsItemAt(w, ItemOf(t), Zone) PROVE LyingInZone(w) # {}
  BY <1>1, <1>3 DEF LyingInZone
<1>4. StageFits(w.stage[t], Origin(t), Position(w, ItemOf(t)))
  BY PositionFacts
<1>5. CASE LegOf(t) = Inbound
  <2>1. RobotOf(t) = UpstreamRobot /\ DropoffOf(t) = Zone
    <3>1. Inbound # Outbound
      BY DEF Inbound, Outbound
    <3> QED
      BY <1>5, <3>1, TaskFacts
  <2>2. /\ ApproachStage(t) = "MoveToDropoff" /\ VacateStage(t) = "VacateDropoff"
        /\ EmptyBufferStages(t) = {"MoveToDropoff", "Unload"}
    BY <1>5 DEF ApproachStage, VacateStage, EmptyBufferStages
  <2>3. w.stage[t] = "VacateDropoff" => IsUnloaded(w, t)
    BY <1>4, PositionFacts DEF StageFits
  <2>4. w.stage[t] = "VacateDropoff" => IsItemAt(w, ItemOf(t), Zone)
    BY <2>1, <2>3 DEF IsUnloaded
  <2> QED
    BY <1>1, <1>2, <1>3, <2>1, <2>2, <2>4
<1>6. CASE LegOf(t) # Inbound
  <2>1. /\ ApproachStage(t) = "MoveToPickup" /\ VacateStage(t) = "VacatePickup"
        /\ EmptyBufferStages(t) = {"VacatePickup"}
        /\ RobotOf(t) = DownstreamRobot /\ Origin(t) = 2
    BY <1>6, TaskFacts DEF ApproachStage, VacateStage, EmptyBufferStages, Origin
  <2>2. w.stage[t] = "MoveToPickup" => IsItemAt(w, ItemOf(t), Zone)
    BY <1>1, <1>4, <2>1, LyingFacts DEF StageFits
  <2> QED
    BY <1>1, <1>2, <1>3, <2>1, <2>2
<1> QED
  BY <1>5, <1>6

(* One robot at most is in the zone.                                       *)
LEMMA VisitorAlone ==
  ASSUME NEW w, NEW V, WorldInv(w, V), V \subseteq Robot, NEW r \in V
  PROVE  V = {r} /\ r \in Robot
<1>1. ASSUME NEW q \in V PROVE q = RobotOf(w.zone.lease)
  BY <1>1, VisitorFacts
<1> QED
  BY <1>1

(* HasBusiness of TransferZone, in a state w of the mission.               *)
BusinessIn(w, r) ==
  IF r = UpstreamRobot THEN LyingInZone(w) = {} ELSE LyingInZone(w) # {}

(* A robot that is sent in has business there.                             *)
LEMMA ComesForBusiness ==
  ASSUME NEW w, NEW V, WorldInv(w, V), PackageInv(w, V), NEW r \in CommandedIntoZone(w)
  PROVE  BusinessIn(w, r) /\ r \in Robot
<1>1. PICK c \in w.live : IsZoneMove(c) /\ r = RobotOf(c.task)
  BY DEF CommandedIntoZone, IsZoneMove
<1>2. c.task \in Task /\ w.stage[c.task] = ApproachStage(c.task)
  BY <1>1, LiveCommandFacts
<1> QED
  BY <1>1, <1>2, ComingAndGoing, TaskFacts DEF BusinessIn

(* A robot that arrives outside, and was in the zone, has none any more.   *)
LEMMA LeavesAfterBusiness ==
  ASSUME Inv, PackagesInv, NEW c \in world.live, LeavesZone(c), RobotOf(c.task) \in visitors
  PROVE  ~ BusinessIn(world, RobotOf(c.task))
<1> DEFINE t == c.task
           r == RobotOf(t)
<1>1. WorldInv(world, visitors) /\ PackageInv(world, visitors) /\ visitors \subseteq Robot
  BY DEF Inv, PackagesInv
<1>2. /\ t \in Task /\ world.claim[r] = t /\ c.kind = "move" /\ c.target # Zone
      /\ MoveFits(world, t, c.target)
  BY <1>1, LiveCommandFacts DEF LeavesZone, PackageInv, CommandFits
<1>3. world.stage[t] \in ZoneStages(t)
  BY <1>1, <1>2, VisitorFacts
<1>4. ~ IsWaitMove(world, c)
  BY <1>1 DEF PackageInv, VisitorsFit
<1>5. world.stage[t] = VacateStage(t)
  <2>1. ~ (world.stage[t] \in {RequestStage(t), ApproachStage(t)} /\ c.target = WaitWaypointOf(r))
    BY <1>2, <1>4 DEF IsWaitMove
  <2>2. ~ (world.stage[t] = "MoveToPickup" /\ c.target = PickupOf(t))
    BY <1>2, <1>3, ZoneStageFacts
  <2>3. ~ (world.stage[t] = "MoveToDropoff" /\ c.target = DropoffOf(t))
    BY <1>2, <1>3, ZoneStageFacts
  <2> QED
    BY <1>2, <2>1, <2>2, <2>3 DEF MoveFits
<1> QED
  BY <1>1, <1>2, <1>5, ComingAndGoing DEF BusinessIn

LEMMA ZoneInit == Init => TransferArea!Init
<1> SUFFICES ASSUME Init PROVE visitors = {} /\ LyingInZone(world) = {}
  BY DEF TransferArea!Init
<1>1. \A p \in Item : world.place[p] = "source"
  BY DEF Init, InitialWorld
<1> QED
  BY <1>1 DEF Init, LyingInZone, IsItemAt, Zone

(* What lies in the zone after a command has succeeded.                    *)
LEMMA LyingAfter ==
  ASSUME NEW w, NEW V, WorldInv(w, V), PackageInv(w, V),
         NEW c \in w.live, NEW v, PackagesAfter(w, c, v)
  PROVE  LET t == c.task
             p == ItemOf(t)
         IN  /\ c.kind = "move" => LyingInZone(v) = LyingInZone(w)
             /\ c.kind = "load" =>
                  IF PickupOf(t) = Zone
                  THEN LyingInZone(w) = {p} /\ LyingInZone(v) = {}
                  ELSE LyingInZone(v) = LyingInZone(w)
             /\ c.kind = "unload" =>
                  LyingInZone(v) = IF DropoffOf(t) = Zone THEN LyingInZone(w) \cup {p}
                                   ELSE LyingInZone(w)
<1> DEFINE t == c.task
           p == ItemOf(t)
           r == RobotOf(t)
<1>1. /\ t \in Task /\ p \in Item /\ r \in Robot /\ w \in World
  BY LiveCommandFacts, TaskFacts DEF WorldInv
<1>2. /\ w.carrier \in [Item -> Robot \cup {NoRobot}]
      /\ w.place \in [Item -> Waypoint] /\ NoRobot \notin Robot
  BY <1>1, WorldFields DEF NoRobot, Robot, UpstreamRobot, DownstreamRobot
<1>3. CASE c.kind = "move"
  BY <1>3 DEF PackagesAfter, LyingInZone, IsItemAt
<1>4. CASE c.kind = "load"
  <2>1. /\ w.place[p] = PickupOf(t) /\ w.carrier[p] = NoRobot
        /\ v.carrier = [w.carrier EXCEPT ![p] = r] /\ v.place = w.place
    BY <1>4 DEF PackagesAfter, IsItemAt
  <2>2. LyingInZone(v) = LyingInZone(w) \ {p}
    BY <1>1, <1>2, <2>1 DEF LyingInZone, IsItemAt
  <2>3. p \in LyingInZone(w) <=> PickupOf(t) = Zone
    BY <1>1, <2>1 DEF LyingInZone, IsItemAt
  <2>4. PickupOf(t) = Zone => LyingInZone(w) = {p}
    BY <2>3, LyingAlone
  <2> QED
    BY <1>4, <2>2, <2>3, <2>4
<1>5. CASE c.kind = "unload"
  <2>1. /\ w.carrier[p] = r
        /\ v.carrier = [w.carrier EXCEPT ![p] = NoRobot]
        /\ v.place = [w.place EXCEPT ![p] = DropoffOf(t)]
    BY <1>5 DEF PackagesAfter, IsLoaded
  <2>2. p \notin LyingInZone(w)
    BY <1>1, <1>2, <2>1 DEF LyingInZone, IsItemAt
  <2>3. ASSUME NEW q \in Item, q # p
        PROVE  q \in LyingInZone(v) <=> q \in LyingInZone(w)
    BY <1>1, <1>2, <2>1, <2>3 DEF LyingInZone, IsItemAt
  <2>4. p \in LyingInZone(v) <=> DropoffOf(t) = Zone
    BY <1>1, <1>2, <2>1 DEF LyingInZone, IsItemAt
  <2>5. LyingInZone(v) \subseteq Item /\ LyingInZone(w) \subseteq Item
    BY DEF LyingInZone
  <2> QED
    BY <1>1, <1>5, <2>2, <2>3, <2>4, <2>5
<1> QED
  BY <1>3, <1>4, <1>5, LiveCommandFacts DEF Kind, WorldInv

(* Whoever handles a package in the zone is in the zone.                   *)
LEMMA HandlesInside ==
  ASSUME NEW w, NEW V, WorldInv(w, V), PackageInv(w, V), V \subseteq Robot, NEW t \in Task,
         \/ w.stage[t] = "Load" /\ PickupOf(t) = Zone
         \/ w.stage[t] = "Unload" /\ DropoffOf(t) = Zone
  PROVE  V = {RobotOf(t)}
<1>1. w.loc[RobotOf(t)] = Zone
  BY DEF PackageInv, TaskFits
<1>2. RobotOf(t) \in V
  BY <1>1, TaskFacts DEF PackageInv, VisitorsFit
<1> QED
  BY <1>2, VisitorAlone

(* As long as nobody leaves and no package is handled in the zone, a robot *)
(* may only enter, and only an empty zone.                                 *)
LEMMA OnlyEntering ==
  ASSUME Inv, Inv', PackagesInv', LyingInZone(world') = LyingInZone(world),
         visitors' = visitors \cup CommandedIntoZone(world')
  PROVE  TransferArea!Next \/ TransferArea!vars' = TransferArea!vars
<1>1. /\ WorldInv(world', visitors') /\ PackageInv(world', visitors')
      /\ visitors' \subseteq Robot
  BY DEF Inv, PackagesInv
<1>2. CASE visitors' = visitors
  BY <1>2 DEF TransferArea!vars
<1>3. CASE visitors' # visitors
  <2>1. PICK r \in CommandedIntoZone(world') : r \notin visitors
    BY <1>3
  <2>2. visitors' = {r} /\ visitors = {}
    BY <1>1, <2>1, VisitorAlone
  <2>3. BusinessIn(world', r) /\ r \in Robot
    BY <1>1, ComesForBusiness
  <2>4. TransferArea!HasBusiness(r)
    BY <2>3 DEF BusinessIn, TransferArea!HasBusiness
  <2>5. TransferArea!Enter(r) /\ r \in TransferArea!Robot
    BY <2>2, <2>3, <2>4 DEF TransferArea!Enter, TransferArea!Robot, Robot
  <2> QED
    BY <2>5 DEF TransferArea!Next
<1> QED
  BY <1>2, <1>3

(* Every step of the mission is one that TransferZone allows.              *)
LEMMA ZoneStep ==
  Inv /\ PackagesInv /\ [Next]_vars => [TransferArea!Next]_<<visitors, LyingInZone(world)>>
<1> SUFFICES ASSUME Inv, PackagesInv, [Next]_vars
             PROVE  TransferArea!Next \/ TransferArea!vars' = TransferArea!vars
  BY DEF TransferArea!vars
<1>1. Inv'
  BY NextInv
<1>2. CASE UNCHANGED vars
  BY <1>2 DEF vars, TransferArea!vars
<1>3. ASSUME QuietStep, PackagesInv'
      PROVE  TransferArea!Next \/ TransferArea!vars' = TransferArea!vars
  <2>1. LyingInZone(world') = LyingInZone(world)
    BY <1>3 DEF QuietStep, NothingHandled, PackagesStay, LyingInZone, IsItemAt
  <2> QED
    BY <1>1, <1>3, <2>1, OnlyEntering DEF QuietStep
<1>4. ASSUME NEW c \in world.live, SuccessStep(c), PackagesInv'
      PROVE  TransferArea!Next \/ TransferArea!vars' = TransferArea!vars
  <2> DEFINE t == c.task
             p == ItemOf(t)
             r == RobotOf(t)
  <2>1. /\ WorldInv(world, visitors) /\ PackageInv(world, visitors) /\ visitors \subseteq Robot
        /\ WorldInv(world', visitors') /\ PackageInv(world', visitors') /\ visitors' \subseteq Robot
    BY <1>1, <1>4 DEF Inv, PackagesInv
  <2>2. /\ t \in Task /\ p \in Item /\ r \in Robot /\ c.kind \in Kind
        /\ PackagesAfter(world, c, world')
        /\ visitors' = LeftInside(visitors, c) \cup CommandedIntoZone(world')
    BY <1>4, <2>1, LiveCommandFacts, TaskFacts DEF SuccessStep
  <2>3. ASSUME LyingInZone(world') = LyingInZone(world), LeftInside(visitors, c) = visitors
        PROVE  TransferArea!Next \/ TransferArea!vars' = TransferArea!vars
    BY <1>1, <1>4, <2>2, <2>3, OnlyEntering
  <2>4. ~ (LeavesZone(c) /\ r \in visitors) => LeftInside(visitors, c) = visitors
    BY DEF LeftInside
  <2>5. CASE c.kind = "move"
    <3>1. LyingInZone(world') = LyingInZone(world)
      BY <2>1, <2>2, <2>5, LyingAfter
    <3>2. CASE ~ (LeavesZone(c) /\ r \in visitors)
      BY <2>3, <2>4, <3>1, <3>2
    <3>3. CASE LeavesZone(c) /\ r \in visitors
      <4>1. visitors = {r}
        BY <2>1, <3>3, VisitorAlone
      <4>2. visitors' = CommandedIntoZone(world')
        BY <2>2, <3>3, <4>1 DEF LeftInside
      <4>3. ~ TransferArea!HasBusiness(r)
        BY <3>3, LeavesAfterBusiness DEF TransferArea!HasBusiness, BusinessIn
      <4>4. CASE visitors' = {}
        <5>1. TransferArea!Leave(r) /\ r \in TransferArea!Robot
          BY <2>2, <3>1, <4>1, <4>3, <4>4 DEF TransferArea!Leave, TransferArea!Robot, Robot
        <5> QED
          BY <5>1 DEF TransferArea!Next
      <4>5. CASE visitors' # {}
        <5>1. PICK q \in visitors' : TRUE
          BY <4>5
        <5>2. visitors' = {q} /\ BusinessIn(world', q) /\ q \in Robot
          BY <2>1, <4>2, <5>1, VisitorAlone, ComesForBusiness
        <5>3. TransferArea!HasBusiness(q)
          BY <3>1, <5>2 DEF TransferArea!HasBusiness, BusinessIn
        <5>4. /\ TransferArea!Exchange(r, q)
              /\ r \in TransferArea!Robot /\ q \in TransferArea!Robot
          BY <2>2, <3>1, <4>1, <4>3, <5>2, <5>3
             DEF TransferArea!Exchange, TransferArea!Robot, Robot
        <5> QED
          BY <5>4 DEF TransferArea!Next
      <4> QED
        BY <4>4, <4>5
    <3> QED
      BY <3>2, <3>3
  <2>6. CASE c.kind # "move"
    <3>1. LeftInside(visitors, c) = visitors
      BY <2>4, <2>6 DEF LeavesZone
    <3>2. ASSUME visitors = {r} PROVE visitors' = visitors
      <4>1. r \in visitors'
        BY <2>2, <3>1, <3>2
      <4> QED
        BY <2>1, <3>2, <4>1, VisitorAlone
    <3>3. CASE c.kind = "load" /\ PickupOf(t) = Zone
      <4>1. LyingInZone(world) = {p} /\ LyingInZone(world') = {}
        BY <2>1, <2>2, <3>3, LyingAfter
      <4>2. visitors = {r}
        BY <2>1, <2>2, <3>3, HandlesInside DEF PackagesAfter
      <4>3. r = DownstreamRobot
        BY <2>2, <3>3, TaskFacts DEF Zone
      <4>4. TransferArea!Remove(p)
        BY <3>2, <4>1, <4>2, <4>3 DEF TransferArea!Remove
      <4> QED
        BY <2>2, <4>4 DEF TransferArea!Next
    <3>4. CASE c.kind = "unload" /\ DropoffOf(t) = Zone
      <4>1. LyingInZone(world) = {}
        BY <2>2, <3>4, RoomToUnload DEF PackagesAfter
      <4>2. LyingInZone(world') = {p}
        BY <2>1, <2>2, <3>4, <4>1, LyingAfter
      <4>3. visitors = {r}
        BY <2>1, <2>2, <3>4, HandlesInside DEF PackagesAfter
      <4>4. r = UpstreamRobot
        BY <2>2, <3>4, TaskFacts DEF Zone
      <4>5. TransferArea!Deposit(p)
        BY <3>2, <4>1, <4>2, <4>3, <4>4 DEF TransferArea!Deposit
      <4> QED
        BY <2>2, <4>5 DEF TransferArea!Next
    <3>5. CASE \/ c.kind = "load" /\ PickupOf(t) # Zone
               \/ c.kind = "unload" /\ DropoffOf(t) # Zone
      <4>1. LyingInZone(world') = LyingInZone(world)
        BY <2>1, <2>2, <3>5, LyingAfter
      <4> QED
        BY <2>3, <3>1, <4>1
    <3> QED
      BY <2>2, <2>6, <3>3, <3>4, <3>5 DEF Kind
  <2> QED
    BY <2>5, <2>6
<1> QED
  BY <1>2, <1>3, <1>4, NextFits

(* The robots' comings and goings in the zone, and the packages that lie   *)
(* there, are those that TransferZone promises.                            *)
THEOREM MissionImplementsTransferZone == Spec => ImplementsTransferZone
<1>1. TransferArea!vars = <<visitors, LyingInZone(world)>>
  BY DEF TransferArea!vars
<1> QED
  BY <1>1, Invariance, PackageInvariance, ZoneInit, ZoneStep, PTL
     DEF Spec, ImplementsTransferZone, TransferArea!Spec, TransferArea!vars

-----------------------------------------------------------------------------
(* Progress.                                                               *)

LEMMA GrowingSets ==
  ASSUME NEW S, IsFiniteSet(S), NEW B \in SUBSET S, NEW A \in SUBSET B
  PROVE  /\ Cardinality(A) \in Nat /\ Cardinality(B) \in Nat /\ Cardinality(S) \in Nat
         /\ Cardinality(A) <= Cardinality(B) /\ Cardinality(B) <= Cardinality(S)
<1>1. IsFiniteSet(B) /\ Cardinality(B) <= Cardinality(S)
  BY FS_Subset
<1>2. IsFiniteSet(A) /\ Cardinality(A) <= Cardinality(B)
  BY <1>1, FS_Subset
<1> QED
  BY <1>1, <1>2, FS_CardinalityType

LEMMA FinitelyMuchToDo == IsFiniteSet(Item) /\ IsFiniteSet(Task)
<1>1. IsFiniteSet(Item)
  BY PackagesAssumption, FS_Interval DEF Item
<1>2. IsFiniteSet(Leg)
  <2>1. IsFiniteSet({} \cup {Inbound})
    BY FS_EmptySet, FS_AddElement
  <2>2. IsFiniteSet(({} \cup {Inbound}) \cup {Outbound})
    BY <2>1, FS_AddElement
  <2>3. Leg = ({} \cup {Inbound}) \cup {Outbound}
    BY DEF Leg
  <2> QED
    BY <2>2, <2>3
<1> QED
  BY <1>1, <1>2, FS_Product DEF Task

(* What is done stays done, and what is delivered stays delivered.         *)
LEMMA NothingUndone ==
  ASSUME Inv, PackagesInv, Next
  PROVE  /\ \A t \in Task : world.status[t] = "SUCCEEDED" => world'.status[t] = "SUCCEEDED"
         /\ \A p \in Item : IsItemAt(world, p, "destination") =>
              IsItemAt(world', p, "destination")
<1>1. PackagesInv' /\ (QuietStep \/ \E c \in world.live : SuccessStep(c))
  BY NextFits
<1>2. WorldInv(world, visitors) /\ PackageInv(world, visitors) /\ PackageInv(world', visitors')
  BY <1>1 DEF Inv, PackagesInv
<1>3. DoneKept(world, world')
  BY <1>1 DEF QuietStep, NothingHandled, SuccessStep
<1>4. ASSUME NEW t \in Task, world.status[t] = "SUCCEEDED" PROVE world'.status[t] = "SUCCEEDED"
  <2>1. world.stage[t] = "Done"
    BY <1>2, <1>4 DEF PackageInv, TaskFits
  <2>2. world'.stage[t] = "Done"
    BY <1>3, <2>1 DEF DoneKept
  <2> QED
    BY <1>2, <2>2 DEF PackageInv, TaskFits
<1>5. ASSUME NEW q \in Item, IsItemAt(world, q, "destination")
      PROVE  IsItemAt(world', q, "destination")
  <2>1. CASE QuietStep
    BY <1>5, <2>1 DEF QuietStep, NothingHandled, PackagesStay, IsItemAt
  <2>2. ASSUME NEW c \in world.live, SuccessStep(c) PROVE IsItemAt(world', q, "destination")
    <3> DEFINE t == c.task
               p == ItemOf(t)
    <3>1. /\ t \in Task /\ p \in Item /\ RobotOf(t) \in Robot /\ c.kind \in Kind
          /\ world \in World /\ PackagesAfter(world, c, world')
      BY <1>2, <2>2, LiveCommandFacts, TaskFacts DEF SuccessStep, WorldInv
    <3>2. /\ world.carrier \in [Item -> Robot \cup {NoRobot}]
          /\ world.place \in [Item -> Waypoint]
      BY <3>1, WorldFields
    <3>3. world.place[q] = "destination" /\ world.carrier[q] = NoRobot
      BY <1>5 DEF IsItemAt
    <3>4. CASE c.kind = "move"
      BY <3>1, <3>3, <3>4 DEF PackagesAfter, IsItemAt
    <3>5. CASE c.kind = "load"
      <4>1. q # p
        BY <3>1, <3>3, <3>5, FollowingPlaces DEF PackagesAfter, IsItemAt
      <4> QED
        BY <3>1, <3>2, <3>3, <3>5, <4>1 DEF PackagesAfter, IsItemAt
    <3>6. CASE c.kind = "unload"
      <4>1. q # p
        BY <3>1, <3>3, <3>6, FollowingPlaces DEF PackagesAfter, IsLoaded
      <4> QED
        BY <3>1, <3>2, <3>3, <3>6, <4>1 DEF PackagesAfter, IsItemAt
    <3> QED
      BY <3>1, <3>4, <3>5, <3>6 DEF Kind
  <2> QED
    BY <1>1, <2>1, <2>2
<1> QED
  BY <1>4, <1>5

(* The progress the dashboard shows never goes back, whatever comes late.  *)
THEOREM ProgressIsKept == Spec => ProgressNeverGoesBack
<1> DEFINE Forward == /\ CurrentStep(world') >= CurrentStep(world)
                      /\ DeliveredCount(world') >= DeliveredCount(world)
<1>1. Inv /\ PackagesInv /\ [Next]_vars => [Forward]_vars
  <2> SUFFICES ASSUME Inv, PackagesInv, Next PROVE Forward
    OBVIOUS
  <2> DEFINE done(w) == {t \in Task : w.status[t] = "SUCCEEDED"}
             delivered(w) == {p \in Item : IsItemAt(w, p, "destination")}
  <2>1. /\ done(world) \in SUBSET done(world') /\ done(world') \in SUBSET Task
        /\ delivered(world) \in SUBSET delivered(world')
        /\ delivered(world') \in SUBSET Item
    BY NothingUndone
  <2>2. DeliveredCount(world') >= DeliveredCount(world)
    <3>1. DeliveredCount(world') = Cardinality(delivered(world'))
      BY DEF DeliveredCount
    <3>2. DeliveredCount(world) = Cardinality(delivered(world))
      BY DEF DeliveredCount
    <3> HIDE DEF delivered
    <3> QED
      BY <2>1, <3>1, <3>2, GrowingSets, FinitelyMuchToDo
  <2>3. CurrentStep(world') >= CurrentStep(world)
    <3> DEFINE n(w) == Cardinality(done(w))
    <3>1. CurrentStep(world') = IF n(world') < Cardinality(Task) THEN n(world') + 1 ELSE n(world')
      BY DEF CurrentStep
    <3>2. CurrentStep(world) = IF n(world) < Cardinality(Task) THEN n(world) + 1 ELSE n(world)
      BY DEF CurrentStep
    <3>3. /\ n(world) \in Nat /\ n(world') \in Nat /\ Cardinality(Task) \in Nat
          /\ n(world) <= n(world') /\ n(world') <= Cardinality(Task)
      <4> HIDE DEF done
      <4> QED
        BY <2>1, GrowingSets, FinitelyMuchToDo
    <3> HIDE DEF n
    <3> QED
      BY <3>1, <3>2, <3>3
  <2> QED
    BY <2>2, <2>3
<1> QED
  BY <1>1, Invariance, PackageInvariance, PTL DEF Spec, ProgressNeverGoesBack
=============================================================================
