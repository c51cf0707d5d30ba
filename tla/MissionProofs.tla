---------------------------- MODULE MissionProofs ----------------------------
(***************************************************************************)
(* Every handler of the mission manager keeps the inductive invariant      *)
(* WorldInv, and the theorems about the mission node that rest on it, for  *)
(* every number of packages, every limit of retries and every set of       *)
(* operator commands and outcomes.                                         *)
(***************************************************************************)
EXTENDS TransportTaskProofs

-----------------------------------------------------------------------------
(* Updates of what the invariant hardly looks at (SameWork).               *)

(* The status of the mission is no part of the invariant but for its type. *)
LEMMA SetMissionInv ==
  ASSUME NEW w, NEW V, WorldInv(w, V), NEW s \in MissionStatus
  PROVE  WorldInv(SetMission(w, s), V)
<1>1. w \in World
  BY DEF WorldInv
<1>2. SetMission(w, s) \in World
  BY <1>1 DEF SetMission, World
<1>3. SameWork(w, SetMission(w, s)) /\ SetMission(w, s).status = w.status
  BY <1>1 DEF SetMission, SameWork, World
<1> QED
  BY <1>2, <1>3, SameWorkInv

(* One task runs while engaged, or ends.                                   *)
LEMMA SetStatusInv ==
  ASSUME NEW w, NEW V, WorldInv(w, V), NEW t \in Task,
         NEW st \in {"RUNNING", "FAILED", "CANCELLED"}, st = "RUNNING" => Engaged(w, t)
  PROVE  WorldInv(SetStatus(w, t, st), V)
<1> DEFINE v == SetStatus(w, t, st)
<1>1. w \in World /\ st \in TaskStatus
  BY DEF WorldInv, TaskStatus
<1>2. v = [w EXCEPT !.status = [w.status EXCEPT ![t] = st]]
  BY <1>1 DEF SetStatus, World
<1>3. [w.status EXCEPT ![t] = st] \in [Task -> TaskStatus]
  BY <1>1, WorldFields
<1>4. v \in World
  BY <1>1, <1>2, <1>3 DEF World
<1>5. SameWork(w, v) /\ v.status = [w.status EXCEPT ![t] = st]
  BY <1>1, <1>2 DEF SameWork, World
<1> HIDE DEF v
<1>6. v.status[t] = st /\ \A u \in Task \ {t} : v.status[u] = w.status[u]
  BY <1>1, <1>5, WorldFields
<1>7. WorldInv(v, V)
  BY <1>4, <1>5, <1>6, SameWorkInv
<1> QED
  BY <1>7 DEF v

(* _fail_task keeps the invariant.                                         *)
LEMMA FailTaskInv ==
  ASSUME NEW w, NEW V, WorldInv(w, V), NEW t \in Task
  PROVE  WorldInv(FailTask(w, t), V)
<1>1. WorldInv(SetStatus(w, t, "FAILED"), V)
  BY SetStatusInv
<1>2. BlockedByRobot("command_failed", RobotOf(t)) \in Blocker
  BY TaskFacts DEF BlockedByRobot, Blocker
<1>3. WorldInv(SetBlocker(SetStatus(w, t, "FAILED"), t,
                          BlockedByRobot("command_failed", RobotOf(t))), V)
  BY <1>1, <1>2, SetBlockerInv
<1>4. "FAILED" \in MissionStatus
  BY DEF MissionStatus
<1> QED
  BY <1>3, <1>4, SetMissionInv DEF FailTask

(* So do the pauses and resumes of robots.                                 *)
LEMMA SetPausedInv ==
  ASSUME NEW w, NEW V, WorldInv(w, V), NEW P \in SUBSET Robot
  PROVE  WorldInv([w EXCEPT !.paused = P], V)
<1> DEFINE v == [w EXCEPT !.paused = P]
<1>1. w \in World
  BY DEF WorldInv
<1>2. v \in World
  BY <1>1 DEF World
<1>3. SameWork(w, v) /\ v.status = w.status
  BY <1>1 DEF SameWork, World
<1> HIDE DEF v
<1>4. WorldInv(v, V)
  BY <1>2, <1>3, SameWorkInv
<1> QED
  BY <1>4 DEF v

(* Cancelling the unfinished tasks leaves robots and zone as they are.     *)
LEMMA CancelUnfinishedInv ==
  ASSUME NEW w, NEW V, WorldInv(w, V)
  PROVE  WorldInv(CancelUnfinished(w), V)
<1> DEFINE v == CancelUnfinished(w)
           st == [t \in Task |-> IF w.status[t] = "SUCCEEDED" THEN w.status[t] ELSE "CANCELLED"]
<1>1. w \in World
  BY DEF WorldInv
<1>2. st \in [Task -> TaskStatus]
  BY <1>1, WorldFields DEF TaskStatus
<1>3. v = [w EXCEPT !.status = st]
  BY <1>1 DEF CancelUnfinished, World
<1>4. \A t \in Task : st[t] = w.status[t] \/ st[t] = "CANCELLED"
  OBVIOUS
<1> HIDE DEF st, v
<1>5. v \in World
  BY <1>1, <1>2, <1>3 DEF World
<1>6. SameWork(w, v) /\ v.status = st
  BY <1>1, <1>3 DEF SameWork, World
<1>7. WorldInv(v, V)
  BY <1>4, <1>5, <1>6, SameWorkInv
<1> QED
  BY <1>7 DEF v

-----------------------------------------------------------------------------
(* _advance.                                                               *)

LEMMA StartNextReadyInv ==
  ASSUME NEW w, NEW V, WorldInv(w, V)
  PROVE  WorldInv(StartNextReady(w), V)
<1>1. CASE ReadyTasks(w) = {}
  BY <1>1 DEF StartNextReady
<1>2. CASE ReadyTasks(w) # {}
  <2> DEFINE t == FirstInSorted(ReadyTasks(w))
  <2>1. t \in ReadyTasks(w)
    BY <1>2, FirstInSortedMember DEF ReadyTasks
  <2>2. t \in Task /\ w.status[t] = "PENDING" /\ w.duty[RobotOf(t)] = "IDLE"
    BY <2>1 DEF ReadyTasks, IsReady, IsRobotAvailable
  <2> HIDE DEF t
  <2>3. WorldInv(Start(w, t), V)
    BY <2>2, StartInv
  <2> QED
    BY <1>2, <2>3 DEF StartNextReady, t
<1> QED
  BY <1>1, <1>2

(* The loop of _advance ticks at most two tasks.                           *)
LEMMA TickRunnableInv ==
  ASSUME NEW w, NEW V, WorldInv(w, V)
  PROVE  WorldInv(TickRunnable(w), V)
<1> DEFINE first  == FirstInDict(Runnable(w))
           ticked == Tick(w, first)
           others == Runnable(w) \ {first}
<1>1. CASE Runnable(w) = {}
  BY <1>1 DEF TickRunnable
<1>2. CASE Runnable(w) # {}
  <2>1. first \in Task
    BY <1>2, FirstInDictMember DEF Runnable
  <2>2. others \in SUBSET Task
    BY DEF Runnable
  <2> HIDE DEF first
  <2>3. WorldInv(ticked, V)
    BY <2>1, TickInv
  <2> HIDE DEF ticked, others
  <2>4. ASSUME others # {} PROVE WorldInv(Tick(ticked, FirstInDict(others)), V)
    <3>1. FirstInDict(others) \in Task
      BY <2>2, <2>4, FirstInDictMember
    <3> QED
      BY <2>3, <3>1, TickInv
  <2> QED
    BY <1>2, <2>3, <2>4 DEF TickRunnable, first, ticked, others
<1> QED
  BY <1>1, <1>2

(* _advance keeps the invariant.                                           *)
LEMMA AdvanceInv ==
  ASSUME NEW w, NEW V, WorldInv(w, V)
  PROVE  WorldInv(Advance(w), V)
<1>1. WorldInv(SetMission(w, "COMPLETED"), V)
  BY SetMissionInv DEF MissionStatus
<1>2. WorldInv(StartNextReady(TickRunnable(w)), V)
  BY TickRunnableInv, StartNextReadyInv
<1> QED
  BY <1>1, <1>2 DEF Advance

-----------------------------------------------------------------------------
(* Results of commands.                                                    *)

(* What the invariant says of a command under way.                         *)
LEMMA LiveCommandFacts ==
  ASSUME NEW w, NEW V, WorldInv(w, V), NEW c \in w.live
  PROVE  /\ c \in Command /\ c.task \in Task /\ c.kind \in Kind
         /\ IsActiveCommand(w, c) /\ c.id # NoCommand
         /\ Engaged(w, c.task) /\ Unfinished(w, c.task)
         /\ w.claim[RobotOf(c.task)] = c.task
         /\ c.kind = "move" => c.target \in Waypoint
         /\ IsZoneMove(c) => w.stage[c.task] = ApproachStage(c.task)
<1>1. w \in World /\ TaskInv(w) /\ CommandInv(w)
  BY DEF WorldInv
<1>2. c \in Command /\ c.task \in Task /\ c.kind \in Kind
  BY <1>1, WorldFields DEF Command
<1>3. w.active[c.task] = c.id /\ c.id # NoCommand
  BY <1>1 DEF CommandInv
<1> QED
  BY <1>1, <1>2, <1>3 DEF CommandInv, TaskInv, IsActiveCommand

(* A command that ended and is forgotten by its task.                      *)
LEMMA DropInv ==
  ASSUME NEW w, NEW V, WorldInv(w, V), NEW c \in w.live,
         NEW v, v = ForgetCommand(MarkTerminal(w, c), c.task)
  PROVE  /\ WorldInv(v, V)
         /\ v.active[c.task] = NoCommand
         /\ v.stage = w.stage /\ v.loc = w.loc /\ v.place = w.place /\ v.carrier = w.carrier
         /\ v.retries = w.retries
<1>1. w \in World /\ TaskInv(w) /\ ZoneInv(w) /\ CommandInv(w) /\ VisitorInv(w, V)
  BY DEF WorldInv
<1>2. c.task \in Task /\ w.active[c.task] = c.id
  BY LiveCommandFacts DEF IsActiveCommand
<1>3. v = [w EXCEPT !.live = w.live \ {c}, !.active = [w.active EXCEPT ![c.task] = NoCommand]]
  BY <1>1 DEF ForgetCommand, MarkTerminal, World
<1>4. /\ w.live \ {c} \in SUBSET Command
      /\ [w.active EXCEPT ![c.task] = NoCommand] \in [Task -> Nat]
  BY <1>1, WorldFields DEF NoCommand
<1>5. v \in World
  BY <1>1, <1>3, <1>4 DEF World
<1>6. /\ v.next = w.next /\ v.status = w.status /\ v.retries = w.retries
      /\ v.stage = w.stage /\ v.acquired = w.acquired /\ v.zone = w.zone
      /\ v.loc = w.loc /\ v.duty = w.duty /\ v.claim = w.claim
      /\ v.place = w.place /\ v.carrier = w.carrier
      /\ v.live = w.live \ {c}
      /\ v.active = [w.active EXCEPT ![c.task] = NoCommand]
  BY <1>1, <1>3 DEF World
<1>7. /\ v.active[c.task] = NoCommand
      /\ \A u \in Task \ {c.task} : v.active[u] = w.active[u]
  BY <1>1, <1>2, <1>6, WorldFields
<1>8. \A t \in Task : /\ Engaged(v, t) <=> Engaged(w, t)
                      /\ Unfinished(v, t) <=> Unfinished(w, t)
  BY <1>6 DEF Engaged, Unfinished, IsLoaded, IsUnloaded, IsItemAt, MustVacate
<1>9. CommandInv(v)
  <2>1. ASSUME NEW d \in v.live PROVE d \in w.live /\ d.task \in Task /\ d.task # c.task
    <3>1. d \in w.live /\ d # c /\ d.task \in Task
      BY <1>1, <1>6, WorldFields DEF Command
    <3> QED
      BY <1>1, <1>2, <3>1 DEF CommandInv
  <2>2. ASSUME NEW u \in Task, v.active[u] # NoCommand
        PROVE  /\ Engaged(v, u) /\ Unfinished(v, u)
               /\ \E d \in v.live : d.id = v.active[u] /\ d.task = u
    <3>1. u # c.task /\ v.active[u] = w.active[u]
      BY <1>7, <2>2
    <3>2. PICK d \in w.live : d.id = w.active[u] /\ d.task = u
      BY <1>1, <2>2, <3>1 DEF CommandInv
    <3>3. d \in v.live
      BY <1>6, <3>1, <3>2
    <3> QED
      BY <1>1, <1>8, <2>2, <3>1, <3>2, <3>3 DEF CommandInv
  <2> QED
    BY <1>1, <1>6, <1>7, <2>1, <2>2 DEF CommandInv
<1>10. TaskInv(v)
  BY <1>1, <1>6, <1>8 DEF TaskInv
<1>11. ZoneInv(v)
  BY <1>1, <1>6 DEF ZoneInv, HoldsLease
<1>12. VisitorInv(v, V)
  BY <1>1, <1>6 DEF VisitorInv
<1> QED
  BY <1>5, <1>6, <1>7, <1>9, <1>10, <1>11, <1>12 DEF WorldInv

(* A move commanded once more for a task that has no command any longer.   *)
LEMMA RetryMoveInv ==
  ASSUME NEW w, NEW V, WorldInv(w, V), NEW c \in Command, c.kind = "move",
         c.target \in Waypoint, Engaged(w, c.task), Unfinished(w, c.task),
         w.active[c.task] = NoCommand,
         c.target = Zone => w.stage[c.task] = ApproachStage(c.task)
  PROVE  WorldInv(RetryMove(w, c), V)
<1>1. w \in World /\ c.task \in Task
  BY DEF WorldInv, Command
<1> DEFINE counters == [w.retries EXCEPT ![c.task][c.target] = @ + 1]
           v == [w EXCEPT !.retries = counters]
<1>2. counters \in [Task -> [Waypoint -> Nat]]
  <2>1. w.retries[c.task] \in [Waypoint -> Nat]
    BY <1>1, WorldFields
  <2>2. [w.retries[c.task] EXCEPT ![c.target] = @ + 1] \in [Waypoint -> Nat]
    BY <2>1
  <2> QED
    BY <1>1, <2>2, WorldFields
<1>3. v \in World /\ SameWork(w, v) /\ v.status = w.status
  <2> HIDE DEF counters
  <2>1. v \in World
    BY <1>1, <1>2 DEF World
  <2> QED
    BY <1>1, <2>1 DEF SameWork, World
<1>4. [SetStatus(w, c.task, "RUNNING") EXCEPT !.retries[c.task][c.target] = @ + 1]
        = SetStatus(v, c.task, "RUNNING")
  BY <1>1 DEF SetStatus, World
<1> HIDE DEF v
<1>5. WorldInv(v, V)
  BY <1>3, SameWorkInv
<1>6. Engaged(v, c.task) /\ Unfinished(v, c.task)
  BY <1>3 DEF SameWork, Engaged, Unfinished, IsLoaded, IsUnloaded, IsItemAt, MustVacate
<1>7. v.active = w.active /\ v.stage = w.stage /\ "move" \in Kind
  BY <1>3 DEF SameWork, Kind
<1>8. WorldInv(AddCommand(SetStatus(v, c.task, "RUNNING"), c.task, "move", c.target), V)
  BY <1>1, <1>5, <1>6, <1>7, EmissionInv
<1> QED
  BY <1>4, <1>8 DEF RetryMove, CreateMove

-----------------------------------------------------------------------------
(* What a successful command did.                                          *)

(* The robot arrived. Elsewhere than in the zone, it is no visitor then.   *)
LEMMA ArrivalInv ==
  ASSUME NEW w, NEW V, WorldInv(w, V), NEW t \in Task, Engaged(w, t),
         w.active[t] = NoCommand, NEW x \in Waypoint,
         x = Zone => w.stage[t] = ApproachStage(t),
         NEW v, v = MoveRobot(w, RobotOf(t), x)
  PROVE  WorldInv(v, IF x = Zone THEN V ELSE V \ {RobotOf(t)})
<1> DEFINE r == RobotOf(t)
<1>1. w \in World /\ TaskInv(w) /\ ZoneInv(w) /\ CommandInv(w) /\ VisitorInv(w, V)
  BY DEF WorldInv
<1>2. r \in Robot
  BY TaskFacts
<1>3. v = [w EXCEPT !.loc = [w.loc EXCEPT ![r] = x]] /\ [w.loc EXCEPT ![r] = x] \in [Robot -> Waypoint]
  BY <1>1, <1>2, WorldFields DEF MoveRobot, World
<1>4. v \in World
  BY <1>1, <1>3 DEF World
<1>5. /\ v.live = w.live /\ v.next = w.next /\ v.active = w.active
      /\ v.status = w.status /\ v.stage = w.stage
      /\ v.acquired = w.acquired /\ v.zone = w.zone
      /\ v.duty = w.duty /\ v.claim = w.claim
      /\ v.place = w.place /\ v.carrier = w.carrier
      /\ v.loc = [w.loc EXCEPT ![r] = x]
  BY <1>1, <1>3 DEF World
<1>6. v.loc[r] = x /\ \A q \in Robot \ {r} : v.loc[q] = w.loc[q]
  BY <1>1, <1>2, <1>5, WorldFields
<1>7. \A u \in Task : Engaged(v, u) <=> Engaged(w, u)
  BY <1>5 DEF Engaged
<1>8. TaskInv(v)
  BY <1>1, <1>5, <1>7 DEF TaskInv
<1>9. ZoneInv(v)
  <2>1. \A q \in Robot : HoldsLease(v, q) <=> HoldsLease(w, q)
    BY <1>5 DEF HoldsLease
  <2>2. x = Zone => HoldsLease(w, r)
    <3>1. x = Zone => t \in w.acquired
      BY <1>1 DEF ZoneInv, ApproachStage, ZoneStages
    <3> QED
      BY <3>1, HolderFacts
  <2>3. \A q \in w.zone.occ : q \in Robot
    BY <1>1, WorldFields DEF ZoneState
  <2> QED
    BY <1>1, <1>5, <1>6, <2>1, <2>2, <2>3 DEF ZoneInv
<1>10. CommandInv(v)
  <2>1. ASSUME NEW u \in Task, w.active[u] # NoCommand PROVE Unfinished(v, u)
    <3>1. Engaged(w, u) /\ Unfinished(w, u)
      BY <1>1, <2>1 DEF CommandInv
    <3>2. RobotOf(u) \in Robot \ {r}
      BY <1>1, <2>1, <3>1, EngagedAlone, TaskFacts
    <3>3. v.loc[RobotOf(u)] = w.loc[RobotOf(u)]
      BY <1>6, <3>2
    <3> QED
      BY <1>5, <3>1, <3>3 DEF Unfinished, IsLoaded, IsUnloaded, IsItemAt, MustVacate
  <2> QED
    BY <1>1, <1>5, <1>7, <2>1 DEF CommandInv
<1>11. VisitorInv(v, IF x = Zone THEN V ELSE V \ {r})
  <2> SUFFICES ASSUME NEW q \in V, q # r \/ x = Zone
               PROVE  v.loc[q] = Zone
                        \/ \E u \in Task : RobotOf(u) = q /\ v.stage[u] = ApproachStage(u)
    BY DEF VisitorInv
  <2>1. CASE q = r
    BY <1>6, <2>1
  <2>2. CASE q # r /\ w.loc[q] = Zone
    <3>1. CASE q \in Robot
      BY <1>6, <2>2, <3>1
    <3>2. CASE q \notin Robot
      BY <1>1, <1>2, <1>5, <2>2, <3>2, WorldFields
    <3> QED
      BY <3>1, <3>2
  <2>3. CASE q # r /\ w.loc[q] # Zone
    BY <1>1, <1>5, <2>3 DEF VisitorInv
  <2> QED
    BY <2>1, <2>2, <2>3
<1> QED
  BY <1>4, <1>8, <1>9, <1>10, <1>11 DEF WorldInv

(* The package was loaded, or unloaded at the dropoff.                     *)
LEMMA HandledInv ==
  ASSUME NEW w, NEW V, WorldInv(w, V), NEW t \in Task, Engaged(w, t),
         w.active[t] = NoCommand,
         NEW v, \/ v = LoadItem(w, RobotOf(t), ItemOf(t))
                \/ v = UnloadItem(w, RobotOf(t), ItemOf(t), DropoffOf(t))
  PROVE  WorldInv(v, V)
<1> DEFINE r == RobotOf(t)
           p == ItemOf(t)
<1>1. w \in World /\ TaskInv(w) /\ ZoneInv(w) /\ CommandInv(w) /\ VisitorInv(w, V)
  BY DEF WorldInv
<1>2. r \in Robot /\ p \in Item /\ DropoffOf(t) \in Waypoint /\ r # NoRobot
  BY TaskFacts DEF Robot, UpstreamRobot, DownstreamRobot, NoRobot
<1>3. w.loc[r] \in Waypoint /\ w.carrier[p] \in Robot \cup {NoRobot}
  BY <1>1, <1>2, WorldFields
<1>4. PICK a \in Robot \cup {NoRobot}, x \in Waypoint :
        /\ v = [w EXCEPT !.carrier[p] = a, !.place[p] = x]
        /\ \/ a = r
           \/ a \in {NoRobot, w.carrier[p]} /\ x = DropoffOf(t)
  <2>1. CASE v = LoadItem(w, r, p)
    BY <1>2, <1>3, <2>1 DEF LoadItem
  <2>2. CASE v = UnloadItem(w, r, p, DropoffOf(t))
    <3> DEFINE a == IF w.carrier[p] = r THEN NoRobot ELSE w.carrier[p]
    <3>1. v = [w EXCEPT !.carrier[p] = a, !.place[p] = DropoffOf(t)]
      BY <1>1, <2>2 DEF UnloadItem, World
    <3>2. a \in Robot \cup {NoRobot} /\ a \in {NoRobot, w.carrier[p]}
      BY <1>3
    <3> HIDE DEF a
    <3> QED
      BY <1>2, <3>1, <3>2
  <2> QED
    BY <2>1, <2>2
<1>5. /\ v = [w EXCEPT !.carrier = [w.carrier EXCEPT ![p] = a], !.place = [w.place EXCEPT ![p] = x]]
      /\ [w.carrier EXCEPT ![p] = a] \in [Item -> Robot \cup {NoRobot}]
      /\ [w.place EXCEPT ![p] = x] \in [Item -> Waypoint]
  <2>1. v = [w EXCEPT !.carrier = [w.carrier EXCEPT ![p] = a], !.place = [w.place EXCEPT ![p] = x]]
    BY <1>1, <1>4 DEF World
  <2> QED
    BY <1>1, <1>2, <2>1, WorldFields
<1>6. v \in World
  BY <1>1, <1>5 DEF World
<1>7. /\ v.live = w.live /\ v.next = w.next /\ v.active = w.active
      /\ v.status = w.status /\ v.stage = w.stage
      /\ v.acquired = w.acquired /\ v.zone = w.zone
      /\ v.duty = w.duty /\ v.claim = w.claim /\ v.loc = w.loc
      /\ v.carrier = [w.carrier EXCEPT ![p] = a] /\ v.place = [w.place EXCEPT ![p] = x]
  BY <1>1, <1>5 DEF World
<1>8. /\ v.carrier[p] = a /\ v.place[p] = x
      /\ \A o \in Item \ {p} : v.carrier[o] = w.carrier[o] /\ v.place[o] = w.place[o]
  BY <1>1, <1>2, <1>7, WorldFields
<1>9. \A u \in Task : Engaged(v, u) <=> Engaged(w, u)
  BY <1>7 DEF Engaged
<1>10. CommandInv(v)
  <2>1. ASSUME NEW u \in Task, w.active[u] # NoCommand PROVE Unfinished(v, u)
    <3>1. Engaged(w, u) /\ Unfinished(w, u)
      BY <1>1, <2>1 DEF CommandInv
    <3>2. RobotOf(u) # r /\ RobotOf(u) \in Robot /\ RobotOf(u) # NoRobot
      BY <1>1, <2>1, <3>1, EngagedAlone, TaskFacts DEF Robot, UpstreamRobot, DownstreamRobot, NoRobot
    <3>3. DropoffOf(u) # DropoffOf(t)
      BY <3>2, TaskFacts DEF Zone
    <3>4. /\ w.stage[u] = "Load" => ~ IsLoaded(v, u)
          /\ w.stage[u] = "Unload" => ~ IsUnloaded(v, u)
      <4>1. CASE ItemOf(u) # p
        BY <1>8, <3>1, <4>1, TaskFacts DEF Unfinished, IsLoaded, IsUnloaded, IsItemAt
      <4>2. CASE ItemOf(u) = p
        <5>1. w.stage[u] = "Load" => w.carrier[p] # RobotOf(u)
          BY <3>1, <4>2 DEF Unfinished, IsLoaded
        <5>2. CASE a = r
          BY <1>2, <1>8, <3>2, <4>2, <5>2 DEF IsLoaded, IsUnloaded, IsItemAt
        <5>3. CASE a \in {NoRobot, w.carrier[p]} /\ x = DropoffOf(t)
          BY <1>8, <3>2, <3>3, <4>2, <5>1, <5>3 DEF IsLoaded, IsUnloaded, IsItemAt
        <5> QED
          BY <1>4, <5>2, <5>3
      <4> QED
        BY <4>1, <4>2
    <3> QED
      BY <1>7, <3>1, <3>4 DEF Unfinished, MustVacate
  <2> QED
    BY <1>1, <1>7, <1>9, <2>1 DEF CommandInv
<1>11. TaskInv(v)
  BY <1>1, <1>7, <1>9 DEF TaskInv
<1>12. ZoneInv(v)
  BY <1>1, <1>7 DEF ZoneInv, HoldsLease
<1>13. VisitorInv(v, V)
  BY <1>1, <1>7 DEF VisitorInv
<1> QED
  BY <1>6, <1>10, <1>11, <1>12, <1>13 DEF WorldInv

-----------------------------------------------------------------------------
(* The handlers.                                                           *)

(* The robots that may be inside once command c is known to have ended     *)
(* successfully.                                                           *)
LeftInside(V, c) == V \ (IF LeavesZone(c) THEN {RobotOf(c.task)} ELSE {})

(* apply_command_success of the command its task waits for; a robot that   *)
(* arrived outside the zone is then no visitor any longer.                 *)
LEMMA AppliedInv ==
  ASSUME NEW w, NEW V, WorldInv(w, V), NEW c \in w.live,
         NEW v, v = ApplyCommandSuccess(MarkTerminal(w, c), c)
  PROVE  WorldInv(v, LeftInside(V, c)) /\ Engaged(v, c.task)
<1> DEFINE d == ForgetCommand(MarkTerminal(w, c), c.task)
           t == c.task
<1>1. /\ w \in World /\ t \in Task /\ c.kind \in Kind
      /\ IsActiveCommand(w, c) /\ Engaged(w, t)
      /\ c.kind = "move" => c.target \in Waypoint
      /\ IsZoneMove(c) => w.stage[t] = ApproachStage(t)
  BY LiveCommandFacts DEF WorldInv
<1>2. IsActiveCommand(MarkTerminal(w, c), c)
  BY <1>1 DEF IsActiveCommand, MarkTerminal, World
<1>3. v = CommandEffect(d, c)
  BY <1>2 DEF ApplyCommandSuccess
<1>4. WorldInv(d, V) /\ d.active[t] = NoCommand /\ d.stage = w.stage
  BY DropInv
<1>5. Engaged(d, t) /\ d \in World
  BY <1>1, <1>4 DEF Engaged, WorldInv
<1> HIDE DEF d
<1>6. CASE c.kind = "move"
  <2>1. v = MoveRobot(d, RobotOf(t), c.target)
    BY <1>3, <1>6 DEF CommandEffect
  <2>2. c.target = Zone => d.stage[t] = ApproachStage(t)
    BY <1>1, <1>4, <1>6 DEF IsZoneMove
  <2>3. WorldInv(v, IF c.target = Zone THEN V ELSE V \ {RobotOf(t)})
    BY <1>1, <1>4, <1>5, <1>6, <2>1, <2>2, ArrivalInv
  <2>4. LeftInside(V, c) = IF c.target = Zone THEN V ELSE V \ {RobotOf(t)}
    BY <1>6 DEF LeftInside, LeavesZone
  <2>5. v.stage = d.stage
    BY <1>5, <2>1 DEF MoveRobot, World
  <2> QED
    BY <1>5, <2>3, <2>4, <2>5 DEF Engaged
<1>7. CASE c.kind # "move"
  <2>1. \/ v = LoadItem(d, RobotOf(t), ItemOf(t))
        \/ v = UnloadItem(d, RobotOf(t), ItemOf(t), DropoffOf(t))
    BY <1>1, <1>3, <1>7 DEF CommandEffect, Kind
  <2>2. WorldInv(v, V)
    BY <1>1, <1>4, <1>5, <2>1, HandledInv
  <2>3. LeftInside(V, c) = V
    BY <1>7 DEF LeftInside, LeavesZone
  <2>4. v.stage = d.stage
    BY <1>5, <2>1 DEF LoadItem, UnloadItem, World
  <2> QED
    BY <1>5, <2>2, <2>3, <2>4 DEF Engaged
<1> QED
  BY <1>6, <1>7

(* A completed command, in any status of the mission.                      *)
LEMMA HandleCompletedInv ==
  ASSUME NEW w, NEW V, WorldInv(w, V), NEW c \in w.live
  PROVE  WorldInv(HandleCompleted(w, c), LeftInside(V, c))
<1> DEFINE applied == ApplyCommandSuccess(MarkTerminal(w, c), c)
           ticked  == Tick(applied, c.task)
           kept    == IF w.mission = "PAUSED" \/ RobotOf(c.task) \in w.paused
                      THEN "RUNNING" ELSE "CANCELLED"
           W == LeftInside(V, c)
<1>1. c.task \in Task /\ IsActiveCommand(w, c)
  BY LiveCommandFacts
<1>2. WorldInv(applied, W) /\ Engaged(applied, c.task)
  BY AppliedInv
<1> HIDE DEF applied, W
<1>3. WorldInv(ticked, W)
  BY <1>1, <1>2, TickInv
<1> HIDE DEF ticked
<1>4. WorldInv(StartNextReady(ticked), W) /\ WorldInv(Advance(ticked), W)
  BY <1>3, StartNextReadyInv, AdvanceInv
<1>5. kept \in {"RUNNING", "FAILED", "CANCELLED"}
  OBVIOUS
<1> HIDE DEF kept
<1>6. WorldInv(SetStatus(applied, c.task, kept), W)
  BY <1>1, <1>2, <1>5, SetStatusInv
<1> QED
  BY <1>1, <1>4, <1>6 DEF HandleCompleted, applied, ticked, kept, W

(* A failed command, whether it is retried or not.                         *)
LEMMA HandleFailedInv ==
  ASSUME NEW w, NEW V, WorldInv(w, V), NEW c \in w.live, NEW error
  PROVE  WorldInv(HandleFailed(w, c, error), V)
<1> DEFINE d == ForgetCommand(MarkTerminal(w, c), c.task)
<1>1. /\ c \in Command /\ c.task \in Task
      /\ IsActiveCommand(w, c) /\ Engaged(w, c.task) /\ Unfinished(w, c.task)
      /\ c.kind = "move" => c.target \in Waypoint
      /\ IsZoneMove(c) => w.stage[c.task] = ApproachStage(c.task)
  BY LiveCommandFacts
<1>2. /\ WorldInv(d, V) /\ d.active[c.task] = NoCommand
      /\ d.stage = w.stage /\ d.loc = w.loc /\ d.place = w.place /\ d.carrier = w.carrier
  BY DropInv
<1> HIDE DEF d
<1>3. WorldInv(FailTask(d, c.task), V)
  BY <1>1, <1>2, FailTaskInv
<1>4. ASSUME c.kind = "move" PROVE WorldInv(RetryMove(d, c), V)
  <2>1. Engaged(d, c.task) /\ Unfinished(d, c.task)
    BY <1>1, <1>2 DEF Engaged, Unfinished, IsLoaded, IsUnloaded, IsItemAt, MustVacate
  <2>2. c.target = Zone => d.stage[c.task] = ApproachStage(c.task)
    BY <1>1, <1>2, <1>4 DEF IsZoneMove
  <2> QED
    BY <1>1, <1>2, <1>4, <2>1, <2>2, RetryMoveInv
<1>5. CanRetry(d, c) \/ CanRetry(w, c) => c.kind = "move"
  BY DEF CanRetry
<1> QED
  BY <1>1, <1>3, <1>4, <1>5 DEF HandleFailed, d

(* A cancelled command, for whatever reason and however late.              *)
LEMMA HandleCancelledInv ==
  ASSUME NEW w, NEW V, WorldInv(w, V), NEW c \in w.live, NEW reason
  PROVE  WorldInv(HandleCancelled(w, c, reason), V)
<1> DEFINE d == ForgetCommand(MarkTerminal(w, c), c.task)
           kept == SetStatus(d, c.task, "RUNNING")
<1>1. c.task \in Task /\ IsActiveCommand(w, c) /\ Engaged(w, c.task)
  BY LiveCommandFacts
<1>2. WorldInv(d, V) /\ d.stage = w.stage
  BY DropInv
<1>3. Engaged(d, c.task)
  BY <1>1, <1>2 DEF Engaged
<1> HIDE DEF d
<1>4. WorldInv(kept, V)
  BY <1>1, <1>2, <1>3, SetStatusInv
<1> HIDE DEF kept
<1>5. WorldInv(Advance(kept), V)
  BY <1>4, AdvanceInv
<1>6. WorldInv(SetStatus(d, c.task, "CANCELLED"), V) /\ WorldInv(FailTask(d, c.task), V)
  BY <1>1, <1>2, SetStatusInv, FailTaskInv
<1> QED
  BY <1>1, <1>4, <1>5, <1>6 DEF HandleCancelled, d, kept

(* The operator's events.                                                  *)
LEMMA OperatorInv ==
  ASSUME NEW w, NEW V, WorldInv(w, V)
  PROVE  /\ WorldInv(HandleStart(w), V)
         /\ WorldInv(HandlePause(w), V)
         /\ WorldInv(HandleResume(w), V)
         /\ WorldInv(HandleAbort(w), V)
         /\ \A r \in Robot : /\ WorldInv(HandleRobotPause(w, r), V)
                             /\ WorldInv(HandleRobotResume(w, r), V)
<1>1. \A s \in MissionStatus : WorldInv(SetMission(w, s), V)
  BY SetMissionInv
<1>2. WorldInv(SetMission(w, "RUNNING"), V) /\ WorldInv(SetMission(w, "PAUSED"), V)
  BY <1>1 DEF MissionStatus
<1>3. WorldInv(Advance(w), V) /\ WorldInv(Advance(SetMission(w, "RUNNING")), V)
  BY <1>2, AdvanceInv
<1>4. WorldInv(SetMission(CancelUnfinished(w), "ABORTED"), V)
  BY CancelUnfinishedInv, SetMissionInv DEF MissionStatus
<1>5. ASSUME NEW r \in Robot
      PROVE  WorldInv(HandleRobotPause(w, r), V) /\ WorldInv(HandleRobotResume(w, r), V)
  <2>1. w.paused \cup {r} \in SUBSET Robot /\ w.paused \ {r} \in SUBSET Robot
    BY WorldFields DEF WorldInv
  <2>2. /\ WorldInv([w EXCEPT !.paused = w.paused \cup {r}], V)
        /\ WorldInv([w EXCEPT !.paused = w.paused \ {r}], V)
    BY <2>1, SetPausedInv
  <2>3. WorldInv(Advance([w EXCEPT !.paused = w.paused \ {r}]), V)
    BY <2>2, AdvanceInv
  <2> QED
    BY <2>2, <2>3 DEF HandleRobotPause, HandleRobotResume
<1> QED
  BY <1>2, <1>3, <1>4, <1>5 DEF HandleStart, HandlePause, HandleResume, HandleAbort

-----------------------------------------------------------------------------
(* The callbacks of the node.                                              *)

(* A robot commanded into the zone by a command under way may be counted   *)
(* among the visitors: its task is driving into the zone.                  *)
LEMMA CommandedInv ==
  ASSUME NEW v, NEW V, WorldInv(v, V)
  PROVE  /\ WorldInv(v, V \cup CommandedIntoZone(v))
         /\ CommandedIntoZone(v) \subseteq Robot
<1>1. ASSUME NEW r \in CommandedIntoZone(v)
      PROVE  r \in Robot /\ \E t \in Task : RobotOf(t) = r /\ v.stage[t] = ApproachStage(t)
  <2>1. PICK c \in v.live : IsZoneMove(c) /\ r = RobotOf(c.task)
    BY <1>1 DEF CommandedIntoZone, IsZoneMove
  <2>2. c.task \in Task /\ v.stage[c.task] = ApproachStage(c.task)
    BY <2>1, LiveCommandFacts
  <2> QED
    BY <2>1, <2>2, TaskFacts
<1>2. VisitorInv(v, V \cup CommandedIntoZone(v))
  BY <1>1 DEF WorldInv, VisitorInv
<1> QED
  BY <1>1, <1>2 DEF WorldInv

(* A callback keeps the invariant when its handler keeps WorldInv.         *)
LEMMA BecomesInv ==
  ASSUME Inv, NEW v, NEW requests \in SUBSET CancelRequest, NEW arrived,
         WorldInv(v, visitors \ arrived), Becomes(v, requests, arrived), pauses' \in Nat
  PROVE  Inv'
<1>1. WorldInv(v, (visitors \ arrived) \cup CommandedIntoZone(v)) /\ CommandedIntoZone(v) \subseteq Robot
  BY CommandedInv
<1>2. WorldInv(world', visitors')
  BY <1>1 DEF Becomes
<1>3. cancels' \subseteq CancelRequest /\ visitors' \subseteq Robot
  BY <1>1 DEF Becomes, StillOpen, Inv
<1> QED
  BY <1>2, <1>3 DEF Inv

(* What the node asks to cancel are commands with an id.                   *)
LEMMA CancellationsAreRequests ==
  ASSUME NEW w, NEW V, WorldInv(w, V), NEW reason \in CancelReason, NEW robots
  PROVE  MoveCancellations(w, reason, robots) \subseteq CancelRequest
<1>1. \A c \in w.live : c.id \in Nat
  BY WorldFields DEF WorldInv, Command
<1> QED
  BY <1>1 DEF MoveCancellations, CancelRequest

(* The initial mission satisfies the invariant.                            *)
LEMMA InitInv == Init => Inv
<1> SUFFICES ASSUME Init PROVE Inv
  OBVIOUS
<1> DEFINE w == InitialWorld
<1>1. EmptyZone \in ZoneState
  BY DEF EmptyZone, ZoneState
<1>2. w \in World
  <2>1. /\ [t \in Task |-> "PENDING"] \in [Task -> TaskStatus]
        /\ [t \in Task |-> "ClaimRobot"] \in [Task -> Stage]
        /\ [t \in Task |-> NoCommand] \in [Task -> Nat]
        /\ [t \in Task |-> [x \in Waypoint |-> 0]] \in [Task -> [Waypoint -> Nat]]
        /\ [t \in Task |-> BlockedByNothing] \in [Task -> Blocker]
        /\ [r \in Robot |-> HomeOf(r)] \in [Robot -> Waypoint]
        /\ [r \in Robot |-> "IDLE"] \in [Robot -> {"IDLE", "BUSY", "WAITING"}]
        /\ [r \in Robot |-> NoTask] \in [Robot -> Task \cup {NoTask}]
        /\ [p \in Item |-> "source"] \in [Item -> Waypoint]
        /\ [p \in Item |-> NoRobot] \in [Item -> Robot \cup {NoRobot}]
        /\ "READY" \in MissionStatus
    BY DEF TaskStatus, Stage, NoCommand, HomeOf, Waypoint, MissionStatus,
           BlockedByNothing, Blocker
  <2> QED
    BY <1>1, <2>1 DEF InitialWorld, World
<1>3. /\ \A t \in Task : w.stage[t] = "ClaimRobot" /\ w.status[t] = "PENDING" /\ w.active[t] = NoCommand
      /\ \A r \in Robot : w.claim[r] = NoTask /\ w.loc[r] = HomeOf(r)
      /\ w.acquired = {} /\ w.zone.lease = NoTask /\ w.zone.occ = {}
      /\ w.live = {} /\ w.next = 1
  BY DEF InitialWorld, EmptyZone
<1> HIDE DEF w
<1>4. TaskInv(w)
  BY <1>3, TaskFacts DEF TaskInv, Engaged
<1>5. ZoneInv(w)
  <2>1. \A r \in Robot : w.loc[r] # Zone
    BY <1>3 DEF HomeOf, Zone
  <2>2. \A t \in Task : w.stage[t] \notin ZoneStages(t) /\ w.zone.lease # t
    BY <1>3, TaskFacts DEF ZoneStages
  <2> QED
    BY <1>3, <2>1, <2>2 DEF ZoneInv
<1>6. CommandInv(w)
  BY <1>3 DEF CommandInv, NoCommand
<1>7. VisitorInv(w, {})
  BY DEF VisitorInv
<1> QED
  BY <1>2, <1>4, <1>5, <1>6, <1>7 DEF Init, Inv, WorldInv, w

(* Every callback keeps the invariant.                                     *)
LEMMA NextInv == Inv /\ [Next]_vars => Inv'
<1> SUFFICES ASSUME Inv, [Next]_vars PROVE Inv'
  OBVIOUS
<1>1. /\ WorldInv(world, visitors) /\ cancels \in SUBSET CancelRequest
      /\ visitors \subseteq Robot /\ pauses \in Nat /\ visitors \ {} = visitors
  BY DEF Inv
<1>2. ASSUME NEW reason \in CancelReason, NEW v, NEW V, WorldInv(v, V), NEW robots
      PROVE  cancels \cup MoveCancellations(v, reason, robots) \in SUBSET CancelRequest
  BY <1>1, <1>2, CancellationsAreRequests
<1>3. CountPause => pauses' \in Nat
  BY <1>1 DEF CountPause
<1>4. CASE OperatorStart
  BY <1>1, <1>4, OperatorInv, BecomesInv DEF OperatorStart
<1>5. CASE OperatorPause
  <2>1. WorldInv(HandlePause(world), visitors)
    BY <1>1, OperatorInv
  <2>2. cancels \cup MoveCancellations(HandlePause(world), "operator_pause", Robot)
          \in SUBSET CancelRequest
    BY <2>1, <1>2 DEF CancelReason
  <2> QED
    BY <1>1, <1>3, <1>5, <2>1, <2>2, BecomesInv DEF OperatorPause
<1>6. CASE OperatorResume
  BY <1>1, <1>6, OperatorInv, BecomesInv DEF OperatorResume
<1>7. CASE OperatorAbort
  <2>1. WorldInv(HandleAbort(world), visitors)
    BY <1>1, OperatorInv
  <2>2. cancels \cup MoveCancellations(HandleAbort(world), "operator_abort", Robot)
          \in SUBSET CancelRequest
    BY <2>1, <1>2 DEF CancelReason
  <2> QED
    BY <1>1, <1>7, <2>1, <2>2, BecomesInv DEF OperatorAbort
<1>8. ASSUME NEW r \in Robot, OperatorRobotPause(r) PROVE Inv'
  <2>1. WorldInv(HandleRobotPause(world, r), visitors)
    BY <1>1, OperatorInv
  <2>2. cancels \cup MoveCancellations(HandleRobotPause(world, r), "operator_robot_pause", {r})
          \in SUBSET CancelRequest
    BY <2>1, <1>2 DEF CancelReason
  <2> QED
    BY <1>1, <1>3, <1>8, <2>1, <2>2, BecomesInv DEF OperatorRobotPause
<1>9. ASSUME NEW r \in Robot, OperatorRobotResume(r) PROVE Inv'
  BY <1>1, <1>9, OperatorInv, BecomesInv DEF OperatorRobotResume
<1>10. ASSUME NEW c \in world.live, Result(c) PROVE Inv'
  <2>1. pauses' \in Nat
    BY <1>1, <1>10 DEF Result
  <2>2. CASE ResultSucceeded(c)
    <3>1. WorldInv(HandleCompleted(world, c), LeftInside(visitors, c))
      BY <1>1, HandleCompletedInv
    <3> QED
      BY <1>1, <2>1, <2>2, <3>1, BecomesInv DEF ResultSucceeded, LeftInside
  <2>3. CASE ResultUnverified(c)
    BY <1>1, <2>1, <2>3, HandleFailedInv, BecomesInv DEF ResultUnverified
  <2>4. CASE ResultFailed(c)
    BY <1>1, <2>1, <2>4, HandleFailedInv, BecomesInv DEF ResultFailed
  <2>5. CASE ResultCancelled(c)
    BY <1>1, <2>1, <2>5, HandleCancelledInv, BecomesInv DEF ResultCancelled
  <2>6. CASE ResultCancelledElsewhere(c)
    BY <1>1, <2>1, <2>6, HandleCancelledInv, BecomesInv DEF ResultCancelledElsewhere
  <2> QED
    BY <1>10, <2>2, <2>3, <2>4, <2>5, <2>6 DEF Result
<1>11. CASE UNCHANGED vars
  BY <1>11 DEF vars, Inv
<1> QED
  BY <1>4, <1>5, <1>6, <1>7, <1>8, <1>9, <1>10, <1>11 DEF Next

-----------------------------------------------------------------------------
(* The invariant holds in every reachable state.                           *)
THEOREM Invariance == Spec => []Inv
<1> QED
  BY InitInv, NextInv, PTL DEF Spec

(* Type correctness.                                                       *)
THEOREM TypeCorrect == Spec => []TypeOK
<1>1. Inv => TypeOK
  BY DEF Inv, WorldInv, TypeOK
<1> QED
  BY <1>1, Invariance, PTL

(* Mutual exclusion in the transfer zone: whoever may be inside holds the  *)
(* lease, whatever operators do and executors answer.                      *)
THEOREM MutualExclusion == Spec => []ZoneExclusive
<1>1. Inv => ZoneExclusive
  <2> SUFFICES ASSUME Inv, NEW r \in visitors PROVE HoldsLease(world, r)
    BY DEF ZoneExclusive
  <2>1. r \in Robot /\ ZoneInv(world) /\ VisitorInv(world, visitors)
    BY DEF Inv, WorldInv
  <2>2. CASE world.loc[r] = Zone
    BY <2>1, <2>2 DEF ZoneInv
  <2>3. CASE world.loc[r] # Zone
    <3>1. PICK t \in Task : RobotOf(t) = r /\ world.stage[t] = ApproachStage(t)
      BY <2>1, <2>3 DEF VisitorInv
    <3>2. t \in world.acquired
      BY <2>1, <3>1 DEF ZoneInv, ZoneStages, ApproachStage
    <3> QED
      BY <2>1, <3>1, <3>2, TaskFacts DEF ZoneInv, HoldsLease
  <2> QED
    BY <2>2, <2>3
<1> QED
  BY <1>1, Invariance, PTL

(* Tasks and commands match: a robot has one command at most, the one its  *)
(* task waits for, and no task waits for a command that does not exist.    *)
THEOREM CommandsMatchTasks == Spec => []OneCommandPerRobot
<1>1. Inv => OneCommandPerRobot
  <2> SUFFICES ASSUME Inv PROVE OneCommandPerRobot
    OBVIOUS
  <2>1. WorldInv(world, visitors) /\ TaskInv(world) /\ CommandInv(world)
    BY DEF Inv, WorldInv
  <2>2. \A c \in world.live : c.task \in Task /\ Engaged(world, c.task)
    BY <2>1, LiveCommandFacts
  <2>3. ASSUME NEW c \in world.live, NEW d \in world.live, RobotOf(c.task) = RobotOf(d.task)
        PROVE  c = d
    <3>1. c.task = d.task
      BY <2>1, <2>2, <2>3, EngagedAlone
    <3> QED
      BY <2>1, <3>1 DEF CommandInv
  <2> QED
    BY <2>1, <2>3 DEF OneCommandPerRobot, CommandInv
<1> QED
  BY <1>1, Invariance, PTL

(* Every task at work owns its robot.                                      *)
THEOREM TasksOwnRobots == Spec => []ActiveTaskOwnsRobot
<1>1. Inv => ActiveTaskOwnsRobot
  BY DEF Inv, WorldInv, TaskInv, CommandInv, ActiveTaskOwnsRobot
<1> QED
  BY <1>1, Invariance, PTL
=============================================================================
