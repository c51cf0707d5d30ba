------------------------- MODULE TransportTaskProofs -------------------------
(***************************************************************************)
(* A tick of a task's behaviour tree keeps the inductive invariant         *)
(* WorldInv, from whatever child it starts. The lemmas follow the          *)
(* operators of TransportTask, from the last child to the first.           *)
(***************************************************************************)
EXTENDS MissionLemmas

(* The state w with new values in the fields that a tick sets for task t.  *)
Reshape(w, t, st, sg, dt, cl, z, acq) ==
  [w EXCEPT !.status[t] = st, !.stage[t] = sg,
            !.duty[RobotOf(t)] = dt, !.claim[RobotOf(t)] = cl,
            !.zone = z, !.acquired = acq]

(* The fields of a reshaped state.                                         *)
LEMMA ReshapeFields ==
  ASSUME NEW w \in World, NEW t \in Task, NEW st \in TaskStatus, NEW sg \in Stage,
         NEW dt \in {"IDLE", "BUSY", "WAITING"}, NEW cl \in {t, NoTask},
         NEW z \in ZoneState, NEW acq \in SUBSET Task, NEW v,
         v = Reshape(w, t, st, sg, dt, cl, z, acq)
  PROVE  /\ v \in World
         /\ v.live = w.live /\ v.next = w.next /\ v.active = w.active
         /\ v.loc = w.loc /\ v.place = w.place /\ v.carrier = w.carrier
         /\ v.zone = z /\ v.acquired = acq
         /\ v.status[t] = st /\ v.stage[t] = sg
         /\ v.duty[RobotOf(t)] = dt /\ v.claim[RobotOf(t)] = cl
         /\ \A u \in Task \ {t} : v.status[u] = w.status[u] /\ v.stage[u] = w.stage[u]
         /\ \A r \in Robot \ {RobotOf(t)} : v.duty[r] = w.duty[r] /\ v.claim[r] = w.claim[r]
<1>1. RobotOf(t) \in Robot
  BY TaskFacts
<1>2. /\ [w.status EXCEPT ![t] = st] \in [Task -> TaskStatus]
      /\ [w.stage EXCEPT ![t] = sg] \in [Task -> Stage]
      /\ [w.duty EXCEPT ![RobotOf(t)] = dt] \in [Robot -> {"IDLE", "BUSY", "WAITING"}]
      /\ [w.claim EXCEPT ![RobotOf(t)] = cl] \in [Robot -> Task \cup {NoTask}]
  BY <1>1, WorldFields
<1>3. v = [w EXCEPT !.status = [w.status EXCEPT ![t] = st],
                    !.stage = [w.stage EXCEPT ![t] = sg],
                    !.duty = [w.duty EXCEPT ![RobotOf(t)] = dt],
                    !.claim = [w.claim EXCEPT ![RobotOf(t)] = cl],
                    !.zone = z, !.acquired = acq]
  BY DEF Reshape, World
<1>4. v \in World
  BY <1>2, <1>3 DEF World
<1>5. /\ v.status = [w.status EXCEPT ![t] = st]
      /\ v.stage = [w.stage EXCEPT ![t] = sg]
      /\ v.duty = [w.duty EXCEPT ![RobotOf(t)] = dt]
      /\ v.claim = [w.claim EXCEPT ![RobotOf(t)] = cl]
      /\ v.zone = z /\ v.acquired = acq
      /\ v.live = w.live /\ v.next = w.next /\ v.active = w.active
      /\ v.loc = w.loc /\ v.place = w.place /\ v.carrier = w.carrier
  BY <1>3 DEF World
<1> QED
  BY <1>1, <1>4, <1>5, WorldFields

(* A task that has acquired the zone holds the lease, and no other robot   *)
(* is inside.                                                              *)
LEMMA HolderFacts ==
  ASSUME NEW w, NEW V, WorldInv(w, V), NEW t \in Task, t \in w.acquired
  PROVE  /\ w.zone.lease = t
         /\ HoldsLease(w, RobotOf(t))
         /\ \A q \in w.zone.occ : q = RobotOf(t)
         /\ \A q \in Robot : w.loc[q] = Zone => q = RobotOf(t)
BY TaskFacts DEF WorldInv, ZoneInv, HoldsLease

(* The robot of an engaged task that has not acquired the zone is outside. *)
LEMMA OutsiderFacts ==
  ASSUME NEW w, NEW V, WorldInv(w, V), NEW t \in Task, Engaged(w, t), t \notin w.acquired
  PROVE  /\ RobotOf(t) \notin w.zone.occ
         /\ w.loc[RobotOf(t)] # Zone
         /\ RobotOf(t) \notin V
         /\ w.zone.lease # t
         /\ ~ HoldsLease(w, RobotOf(t))
<1>1. w \in World /\ TaskInv(w) /\ ZoneInv(w) /\ CommandInv(w) /\ VisitorInv(w, V)
  BY DEF WorldInv
<1>2. ~ HoldsLease(w, RobotOf(t))
  BY <1>1, LeaseHolder
<1>3. w.loc[RobotOf(t)] # Zone /\ RobotOf(t) \notin w.zone.occ /\ w.zone.lease # t
  BY <1>1, <1>2, TaskFacts DEF ZoneInv
<1>4. ASSUME NEW u \in Task, RobotOf(u) = RobotOf(t) PROVE w.stage[u] # ApproachStage(u)
  <2>1. SUFFICES ASSUME w.stage[u] = ApproachStage(u) PROVE FALSE
    OBVIOUS
  <2>2. Engaged(w, u) /\ w.stage[u] \in ZoneStages(u)
    BY <2>1 DEF ApproachStage, Engaged, ZoneStages
  <2>3. u = t
    BY <1>1, <1>4, <2>2, EngagedAlone
  <2> QED
    BY <1>1, <2>2, <2>3 DEF ZoneInv
<1> QED
  BY <1>1, <1>2, <1>3, <1>4 DEF VisitorInv

(* A robot outside the zone and not on its way in is not counted inside.   *)
LEMMA NotVisiting ==
  ASSUME NEW w, NEW V, WorldInv(w, V), NEW t \in Task, Engaged(w, t),
         w.stage[t] # ApproachStage(t), w.loc[RobotOf(t)] # Zone
  PROVE  RobotOf(t) \notin V
<1>1. ASSUME NEW u \in Task, RobotOf(u) = RobotOf(t), w.stage[u] = ApproachStage(u)
      PROVE  FALSE
  <2>1. Engaged(w, u)
    BY <1>1 DEF ApproachStage, Engaged
  <2>2. u = t
    BY <1>1, <2>1, EngagedAlone DEF WorldInv
  <2> QED
    BY <1>1, <2>2
<1> QED
  BY <1>1 DEF WorldInv, VisitorInv

-----------------------------------------------------------------------------
(* What the children do to the state, one kind of update at a time.        *)

(* Going on to another child while holding as much of the zone as before,  *)
(* possibly with new marks of the robot and the package in the zone.       *)
LEMMA ProgressInv ==
  ASSUME NEW w, NEW V, WorldInv(w, V), NEW t \in Task, Engaged(w, t),
         w.active[t] = NoCommand,
         NEW sg \in Stage \ {"ClaimRobot", "Done"},
         w.stage[t] \in ZoneStages(t) <=> sg \in ZoneStages(t),
         w.stage[t] = ApproachStage(t) => w.loc[RobotOf(t)] = Zone,
         NEW z \in ZoneState, z.lease = w.zone.lease,
         z.occ \subseteq w.zone.occ \cup (IF t \in w.acquired THEN {RobotOf(t)} ELSE {}),
         NEW v, v = AtStage([w EXCEPT !.zone = z], t, sg)
  PROVE  WorldInv(v, V) /\ v.stage[t] = sg /\ v.active = w.active
<1>1. w \in World /\ TaskInv(w) /\ ZoneInv(w) /\ CommandInv(w) /\ VisitorInv(w, V)
  BY DEF WorldInv
<1>2. RobotOf(t) \in Robot /\ w.claim[RobotOf(t)] = t
  BY <1>1, TaskFacts DEF TaskInv
<1>3. /\ w.status[t] \in TaskStatus /\ w.duty[RobotOf(t)] \in {"IDLE", "BUSY", "WAITING"}
      /\ w.acquired \in SUBSET Task
  BY <1>1, <1>2, WorldFields
<1>4. v = [w EXCEPT !.stage = [w.stage EXCEPT ![t] = sg], !.zone = z]
  BY <1>1 DEF AtStage, World
<1>5. /\ v \in World
      /\ v.live = w.live /\ v.next = w.next /\ v.active = w.active
      /\ v.loc = w.loc /\ v.place = w.place /\ v.carrier = w.carrier
      /\ v.zone = z /\ v.acquired = w.acquired
      /\ v.status = w.status /\ v.duty = w.duty /\ v.claim = w.claim
      /\ v.stage[t] = sg /\ \A u \in Task \ {t} : v.stage[u] = w.stage[u]
  <2>1. [w.stage EXCEPT ![t] = sg] \in [Task -> Stage]
    BY <1>1, WorldFields
  <2>2. v \in World
    BY <1>1, <1>4, <2>1 DEF World
  <2>3. /\ v.live = w.live /\ v.next = w.next /\ v.active = w.active
        /\ v.loc = w.loc /\ v.place = w.place /\ v.carrier = w.carrier
        /\ v.zone = z /\ v.acquired = w.acquired
        /\ v.status = w.status /\ v.duty = w.duty /\ v.claim = w.claim
        /\ v.stage = [w.stage EXCEPT ![t] = sg]
    BY <1>1, <1>4 DEF World
  <2> QED
    BY <1>1, <2>2, <2>3, WorldFields
<1>6. OnlyTaskChanges(w, v, t)
  BY <1>5 DEF OnlyTaskChanges
<1>7. \A c \in v.live : c.task # t
  BY <1>1, <1>5 DEF CommandInv
<1>8. RobotOf(t) \in V => w.loc[RobotOf(t)] = Zone
  BY NotVisiting
<1>9. TaskIsConsistent(v, V, t)
  <2>1. Engaged(v, t)
    BY <1>5 DEF Engaged
  <2>2. /\ v.status[t] # "PENDING" /\ v.duty[RobotOf(t)] # "IDLE"
    BY <1>1, <1>2, <1>5, TaskFacts DEF TaskInv, Engaged
  <2>3. t \in v.acquired <=> v.zone.lease = t
    BY <1>1, <1>5 DEF ZoneInv
  <2>4. t \in v.acquired <=> v.stage[t] \in ZoneStages(t)
    BY <1>1, <1>5 DEF ZoneInv
  <2> QED
    BY <1>2, <1>5, <1>7, <1>8, <2>1, <2>2, <2>3, <2>4 DEF TaskIsConsistent
<1>10. ZoneIsHeld(v)
  <2>1. \A q \in Robot : HoldsLease(v, q) <=> HoldsLease(w, q)
    BY <1>5 DEF HoldsLease
  <2>2. \A q \in z.occ : q \in Robot
    BY DEF ZoneState
  <2>3. t \in w.acquired => HoldsLease(w, RobotOf(t))
    BY HolderFacts
  <2> QED
    BY <1>1, <1>5, <2>1, <2>2, <2>3 DEF ZoneIsHeld, ZoneInv
<1> QED
  BY <1>2, <1>5, <1>6, <1>9, <1>10, UpdateInv

(* Acquiring the zone and going on to drive into it.                       *)
LEMMA AcquireInv ==
  ASSUME NEW w, NEW V, WorldInv(w, V), NEW t \in Task, Engaged(w, t),
         t \notin w.acquired, NEW purpose, Granted(w.zone, t, purpose),
         NEW v, v = AtStage(Acquire(w, t), t, ApproachStage(t))
  PROVE  WorldInv(v, V) /\ v.stage[t] = ApproachStage(t) /\ v.active = w.active
<1>1. w \in World /\ TaskInv(w) /\ ZoneInv(w) /\ CommandInv(w) /\ VisitorInv(w, V)
  BY DEF WorldInv
<1>2. RobotOf(t) \in Robot /\ w.claim[RobotOf(t)] = t /\ t # NoTask
  BY <1>1, TaskFacts DEF TaskInv
<1>3. /\ RobotOf(t) \notin w.zone.occ /\ w.loc[RobotOf(t)] # Zone
      /\ ~ HoldsLease(w, RobotOf(t))
  BY OutsiderFacts
<1>4. w.zone.lease = NoTask
  BY <1>3 DEF Granted, LeasedToOther, HoldsLease
<1>5. w.zone.occ = {} /\ \A q \in Robot : w.loc[q] # Zone
  BY <1>1, <1>4 DEF ZoneInv, HoldsLease
<1> DEFINE z == [w.zone EXCEPT !.lease = t]
           acq == w.acquired \cup {t}
<1>6. z \in ZoneState /\ z.lease = t /\ z.occ = {} /\ acq \in SUBSET Task
  BY <1>1, <1>5, WorldFields DEF ZoneState
<1>7. v = Reshape(w, t, "RUNNING", ApproachStage(t), "BUSY", t, z, acq)
  BY <1>1, <1>2, <1>3, <1>4
     DEF AtStage, Acquire, AssignRobot, SetStatus, GrantLease, Reshape, World
<1>8. t \in acq /\ \A u \in Task \ {t} : u \in acq <=> u \in w.acquired
  OBVIOUS
<1> HIDE DEF z, acq
<1>9. ApproachStage(t) \in Stage /\ "RUNNING" \in TaskStatus
  BY DEF ApproachStage, Stage, TaskStatus
<1>10. /\ v \in World
       /\ v.live = w.live /\ v.next = w.next /\ v.active = w.active
       /\ v.loc = w.loc /\ v.place = w.place /\ v.carrier = w.carrier
       /\ v.zone = z /\ v.acquired = acq
       /\ v.status[t] = "RUNNING" /\ v.stage[t] = ApproachStage(t)
       /\ v.duty[RobotOf(t)] = "BUSY" /\ v.claim[RobotOf(t)] = t
       /\ \A u \in Task \ {t} : v.status[u] = w.status[u] /\ v.stage[u] = w.stage[u]
       /\ \A r \in Robot \ {RobotOf(t)} : v.duty[r] = w.duty[r] /\ v.claim[r] = w.claim[r]
  BY <1>1, <1>6, <1>7, <1>9, ReshapeFields
<1>11. OnlyTaskChanges(w, v, t)
  <2>1. \A u \in Task \ {t} : w.zone.lease # u /\ z.lease # u
    BY <1>4, <1>6, TaskFacts
  <2> QED
    BY <1>8, <1>10, <2>1 DEF OnlyTaskChanges
<1>12. TaskIsConsistent(v, V, t)
  <2>1. Engaged(v, t) /\ ApproachStage(t) \in ZoneStages(t)
    BY <1>10 DEF Engaged, ApproachStage, ZoneStages
  <2>2. Unfinished(v, t)
    <3>1. \/ v.stage[t] = "MoveToDropoff" /\ DropoffOf(t) = Zone
          \/ v.stage[t] = "MoveToPickup" /\ PickupOf(t) = Zone
      BY <1>10, TaskFacts DEF ApproachStage, Inbound, Outbound
    <3>2. v.loc[RobotOf(t)] # Zone
      BY <1>3, <1>10
    <3> QED
      BY <3>1, <3>2 DEF Unfinished
  <2> QED
    BY <1>6, <1>8, <1>10, <2>1, <2>2 DEF TaskIsConsistent
<1>13. ZoneIsHeld(v)
  BY <1>5, <1>6, <1>10 DEF ZoneIsHeld
<1> QED
  BY <1>2, <1>10, <1>11, <1>12, <1>13, UpdateInv

(* The same with what blocked the task forgotten before.                   *)
LEMMA AcquireUnblockedInv ==
  ASSUME NEW w, NEW V, WorldInv(w, V), NEW t \in Task, Engaged(w, t),
         t \notin w.acquired, NEW purpose, Granted(w.zone, t, purpose),
         NEW v, v = AtStage(Acquire(Unblocked(w, t), t), t, ApproachStage(t))
  PROVE  WorldInv(v, V) /\ v.stage[t] = ApproachStage(t) /\ v.active = w.active
<1> DEFINE u == Unblocked(w, t)
<1>1. BlockedByNothing \in Blocker
  BY DEF BlockedByNothing, Blocker
<1>2. WorldInv(u, V) /\ SameWork(w, u)
  BY <1>1, SetBlockerInv DEF Unblocked
<1> HIDE DEF u
<1>3. /\ Engaged(u, t) /\ t \notin u.acquired
      /\ Granted(u.zone, t, purpose) /\ u.active = w.active
  BY <1>2 DEF SameWork, Engaged
<1>4. v = AtStage(Acquire(u, t), t, ApproachStage(t))
  BY DEF u
<1> QED
  BY <1>2, <1>3, <1>4, AcquireInv

(* Leaving the zone for good: the lease is returned, nobody is inside.     *)
LEMMA ReleasedZone ==
  ASSUME NEW w, NEW V, WorldInv(w, V), NEW t \in Task, t \in w.acquired,
         w.loc[RobotOf(t)] # Zone, NEW z, z = Release(w.zone, RobotOf(t))
  PROVE  /\ z \in ZoneState /\ z.lease = NoTask /\ z.occ = {}
         /\ \A q \in Robot : w.loc[q] # Zone
<1>1. w \in World
  BY DEF WorldInv
<1>2. /\ w.zone.lease = t
      /\ \A q \in w.zone.occ : q = RobotOf(t)
      /\ \A q \in Robot : w.loc[q] = Zone => q = RobotOf(t)
  BY HolderFacts
<1>3. w.zone \in ZoneState
  BY <1>1, WorldFields
<1>4. ~ LeasedToOther(w.zone, RobotOf(t))
  BY <1>2 DEF LeasedToOther
<1>5. z = [w.zone EXCEPT !.occ = w.zone.occ \ {RobotOf(t)}, !.lease = NoTask]
  BY <1>3, <1>4 DEF Release, ZoneState
<1>6. w.zone.occ \ {RobotOf(t)} = {}
  BY <1>2
<1> QED
  BY <1>2, <1>3, <1>5, <1>6 DEF ZoneState

(* The release when the pickup was vacated: on to the dropoff.             *)
LEMMA VacatedPickupInv ==
  ASSUME NEW w, NEW V, WorldInv(w, V), NEW t \in Task,
         w.stage[t] = "VacatePickup", w.active[t] = NoCommand,
         ~ MustVacate(w, t, PickupOf(t)),
         NEW v, v = AtStage(ReleaseResource(w, t, PickupOf(t)), t, "RequestDropoff")
  PROVE  WorldInv(v, V) /\ v.stage[t] = "RequestDropoff" /\ v.active = w.active
<1>1. w \in World /\ TaskInv(w) /\ ZoneInv(w) /\ CommandInv(w) /\ VisitorInv(w, V)
  BY DEF WorldInv
<1>2. Engaged(w, t)
  BY DEF Engaged
<1>3. RobotOf(t) \in Robot /\ w.claim[RobotOf(t)] = t /\ t # NoTask
  BY <1>1, <1>2, TaskFacts DEF TaskInv
<1>4. t \in w.acquired <=> PickupOf(t) = Zone
  BY <1>1, TaskFacts DEF ZoneInv, ZoneStages, Inbound, Outbound, Zone
<1>5. CASE PickupOf(t) # Zone
  <2>1. v = AtStage([w EXCEPT !.zone = w.zone], t, "RequestDropoff")
    BY <1>1, <1>5 DEF ReleaseResource, World
  <2>2. "RequestDropoff" \in Stage \ {"ClaimRobot", "Done"}
    BY DEF Stage
  <2>3. /\ w.stage[t] \in ZoneStages(t) <=> "RequestDropoff" \in ZoneStages(t)
        /\ w.stage[t] # ApproachStage(t)
    BY <1>1, <1>4, <1>5 DEF ZoneInv, ZoneStages, ApproachStage
  <2>4. w.zone \in ZoneState
    BY <1>1, WorldFields
  <2> QED
    BY <1>2, <2>1, <2>2, <2>3, <2>4, ProgressInv
<1>6. CASE PickupOf(t) = Zone
  <2> DEFINE z == Release(w.zone, RobotOf(t))
             acq == w.acquired \ {t}
  <2>1. t \in w.acquired /\ w.loc[RobotOf(t)] # Zone
    BY <1>3, <1>4, <1>6, ExitFacts DEF MustVacate
  <2>2. v = [w EXCEPT !.stage = [w.stage EXCEPT ![t] = "RequestDropoff"],
                      !.zone = z, !.acquired = acq]
    BY <1>1, <1>6, <2>1 DEF AtStage, ReleaseResource, World
  <2>3. acq \in SUBSET Task /\ t \notin acq /\ \A u \in Task \ {t} : u \in acq <=> u \in w.acquired
    BY <1>1, WorldFields
  <2> HIDE DEF z, acq
  <2>4. /\ z \in ZoneState /\ z.lease = NoTask /\ z.occ = {}
        /\ \A q \in Robot : w.loc[q] # Zone
    BY <2>1, ReleasedZone DEF z
  <2>5. [w.stage EXCEPT ![t] = "RequestDropoff"] \in [Task -> Stage]
    BY <1>1, WorldFields DEF Stage
  <2>6. v \in World
    BY <1>1, <2>2, <2>3, <2>4, <2>5 DEF World
  <2>7. /\ v.live = w.live /\ v.next = w.next /\ v.active = w.active
        /\ v.loc = w.loc /\ v.place = w.place /\ v.carrier = w.carrier
        /\ v.zone = z /\ v.acquired = acq
        /\ v.status = w.status /\ v.duty = w.duty /\ v.claim = w.claim
        /\ v.stage = [w.stage EXCEPT ![t] = "RequestDropoff"]
    BY <1>1, <2>2 DEF World
  <2>8. v.stage[t] = "RequestDropoff" /\ \A u \in Task \ {t} : v.stage[u] = w.stage[u]
    BY <1>1, <2>7, WorldFields
  <2>9. OnlyTaskChanges(w, v, t)
    <3>1. w.zone.lease = t
      BY <2>1, HolderFacts
    <3>2. \A u \in Task \ {t} : w.zone.lease # u /\ z.lease # u
      BY <2>4, <3>1, TaskFacts
    <3> QED
      BY <2>3, <2>7, <2>8, <3>2 DEF OnlyTaskChanges
  <2>10. TaskIsConsistent(v, V, t)
    <3>1. Engaged(v, t)
      BY <2>8 DEF Engaged
    <3>2. v.status[t] # "PENDING" /\ v.duty[RobotOf(t)] # "IDLE"
      BY <1>1, <1>2, <1>3, <2>7 DEF TaskInv, Engaged
    <3>3. t \notin v.acquired /\ v.zone.lease # t /\ v.stage[t] \notin ZoneStages(t)
      BY <1>3, <2>3, <2>4, <2>7, <2>8 DEF ZoneStages
    <3>4. \A c \in v.live : c.task # t
      BY <1>1, <2>7 DEF CommandInv
    <3>5. RobotOf(t) \notin V
      BY <1>2, <2>1, NotVisiting DEF ApproachStage
    <3> QED
      BY <1>3, <2>7, <3>1, <3>2, <3>3, <3>4, <3>5 DEF TaskIsConsistent
  <2>11. ZoneIsHeld(v)
    BY <2>4, <2>7 DEF ZoneIsHeld
  <2> QED
    BY <1>3, <2>6, <2>7, <2>8, <2>9, <2>10, <2>11, UpdateInv
<1> QED
  BY <1>5, <1>6

(* The end of a task: the zone, the robot and the tree are done with.      *)
LEMMA FinishInv ==
  ASSUME NEW w, NEW V, WorldInv(w, V), NEW t \in Task,
         w.stage[t] = "VacateDropoff", w.active[t] = NoCommand,
         ~ MustVacate(w, t, DropoffOf(t)),
         NEW v,
         v = MarkTaskSucceeded(ReleaseRobot(ReleaseResource(w, t, DropoffOf(t)), t), t)
  PROVE  WorldInv(v, V)
<1>1. w \in World /\ TaskInv(w) /\ ZoneInv(w) /\ CommandInv(w) /\ VisitorInv(w, V)
  BY DEF WorldInv
<1>2. Engaged(w, t)
  BY DEF Engaged
<1>3. RobotOf(t) \in Robot /\ w.claim[RobotOf(t)] = t /\ t # NoTask
  BY <1>1, <1>2, TaskFacts DEF TaskInv
<1>4. t \in w.acquired <=> DropoffOf(t) = Zone
  BY <1>1, TaskFacts DEF ZoneInv, ZoneStages, Inbound, Outbound, Zone
<1> DEFINE z == IF t \in w.acquired THEN Release(w.zone, RobotOf(t)) ELSE w.zone
           acq == w.acquired \ {t}
<1>5. v = Reshape(w, t, "SUCCEEDED", "Done", "IDLE", NoTask, z, acq)
  <2>1. w.acquired = acq \/ t \in w.acquired
    BY <1>1, WorldFields
  <2>2. ReleaseResource(w, t, DropoffOf(t)) = [w EXCEPT !.zone = z, !.acquired = acq]
    BY <1>1, <1>4, <2>1 DEF ReleaseResource, World
  <2> HIDE DEF z, acq
  <2> QED
    BY <1>1, <2>2 DEF MarkTaskSucceeded, ReleaseRobot, AtStage, SetStatus, Reshape, World
<1>6. acq \in SUBSET Task /\ t \notin acq /\ \A u \in Task \ {t} : u \in acq <=> u \in w.acquired
  BY <1>1, WorldFields
<1>7. w.loc[RobotOf(t)] # Zone
  <2>1. CASE t \in w.acquired
    BY <1>3, <1>4, <2>1, ExitFacts DEF MustVacate
  <2>2. CASE t \notin w.acquired
    BY <1>2, <2>2, OutsiderFacts
  <2> QED
    BY <2>1, <2>2
<1>8. /\ z \in ZoneState /\ z.lease # t
      /\ \A u \in Task \ {t} : z.lease = u <=> w.zone.lease = u
      /\ \A q \in Robot : q \in z.occ \/ w.loc[q] = Zone => z.lease # NoTask /\ RobotOf(z.lease) = q
  <2>1. CASE t \in w.acquired
    <3>1. z \in ZoneState /\ z.lease = NoTask /\ z.occ = {} /\ \A q \in Robot : w.loc[q] # Zone
      BY <1>7, <2>1, ReleasedZone
    <3>2. w.zone.lease = t
      BY <2>1, HolderFacts
    <3> HIDE DEF z
    <3> QED
      BY <1>3, <3>1, <3>2, TaskFacts
  <2>2. CASE t \notin w.acquired
    <3>1. z = w.zone /\ w.zone.lease # t
      BY <1>1, <2>2 DEF ZoneInv
    <3>2. z \in ZoneState
      BY <1>1, <3>1, WorldFields
    <3> HIDE DEF z
    <3> QED
      BY <1>1, <3>1, <3>2 DEF ZoneInv, HoldsLease
  <2> QED
    BY <2>1, <2>2
<1> HIDE DEF z, acq
<1>9. "SUCCEEDED" \in TaskStatus /\ "Done" \in Stage
  BY DEF TaskStatus, Stage
<1>10. /\ v \in World
       /\ v.live = w.live /\ v.next = w.next /\ v.active = w.active
       /\ v.loc = w.loc /\ v.place = w.place /\ v.carrier = w.carrier
       /\ v.zone = z /\ v.acquired = acq
       /\ v.status[t] = "SUCCEEDED" /\ v.stage[t] = "Done"
       /\ v.duty[RobotOf(t)] = "IDLE" /\ v.claim[RobotOf(t)] = NoTask
       /\ \A u \in Task \ {t} : v.status[u] = w.status[u] /\ v.stage[u] = w.stage[u]
       /\ \A r \in Robot \ {RobotOf(t)} : v.duty[r] = w.duty[r] /\ v.claim[r] = w.claim[r]
  BY <1>1, <1>5, <1>6, <1>8, <1>9, ReshapeFields
<1>11. OnlyTaskChanges(w, v, t)
  BY <1>6, <1>8, <1>10 DEF OnlyTaskChanges
<1>12. TaskIsConsistent(v, V, t)
  <2>1. ~ Engaged(v, t) /\ "Done" \notin ZoneStages(t)
    BY <1>10 DEF Engaged, ZoneStages
  <2>2. \A c \in v.live : c.task # t
    BY <1>1, <1>10 DEF CommandInv
  <2>3. RobotOf(t) \notin V
    BY <1>2, <1>7, NotVisiting DEF ApproachStage
  <2> QED
    BY <1>6, <1>8, <1>10, <2>1, <2>2, <2>3 DEF TaskIsConsistent
<1>13. ZoneIsHeld(v)
  <2>1. \A q \in z.occ : q \in Robot
    BY <1>8 DEF ZoneState
  <2> QED
    BY <1>8, <1>10, <2>1 DEF ZoneIsHeld, HoldsLease
<1> QED
  BY <1>3, <1>10, <1>11, <1>12, <1>13, UpdateInv

(* An engaged task set to running, or to blocked with its robot waiting.   *)
LEMMA StatusInv ==
  ASSUME NEW w, NEW V, WorldInv(w, V), NEW t \in Task, Engaged(w, t),
         NEW st \in {"RUNNING", "BLOCKED"}, NEW dt \in {"BUSY", "WAITING"},
         NEW v, \/ v = SetStatus(w, t, st)
                \/ v = [w EXCEPT !.status[t] = st, !.duty[RobotOf(t)] = dt,
                                  !.claim[RobotOf(t)] = t]
  PROVE  WorldInv(v, V)
<1>1. w \in World /\ TaskInv(w) /\ ZoneInv(w) /\ CommandInv(w) /\ VisitorInv(w, V)
  BY DEF WorldInv
<1>2. RobotOf(t) \in Robot /\ w.claim[RobotOf(t)] = t /\ t # NoTask
  BY <1>1, TaskFacts DEF TaskInv
<1>3. [w.status EXCEPT ![t] = st] \in [Task -> TaskStatus]
  BY <1>1, WorldFields DEF TaskStatus
<1>4. [w.duty EXCEPT ![RobotOf(t)] = dt] \in [Robot -> {"IDLE", "BUSY", "WAITING"}]
  BY <1>1, <1>2, WorldFields
<1>5. [w.claim EXCEPT ![RobotOf(t)] = t] = w.claim
  BY <1>1, <1>2, WorldFields
<1>6. PICK duty \in {w.duty, [w.duty EXCEPT ![RobotOf(t)] = dt]} :
        v = [w EXCEPT !.status = [w.status EXCEPT ![t] = st], !.duty = duty]
  <2>1. CASE v = SetStatus(w, t, st)
    BY <1>1, <2>1 DEF SetStatus, World
  <2>2. CASE v = [w EXCEPT !.status[t] = st, !.duty[RobotOf(t)] = dt, !.claim[RobotOf(t)] = t]
    BY <1>1, <1>5, <2>2 DEF World
  <2> QED
    BY <2>1, <2>2
<1>7. /\ duty \in [Robot -> {"IDLE", "BUSY", "WAITING"}]
      /\ duty[RobotOf(t)] # "IDLE"
      /\ \A r \in Robot \ {RobotOf(t)} : duty[r] = w.duty[r]
  BY <1>1, <1>2, <1>4, WorldFields DEF TaskInv
<1>8. v \in World
  BY <1>1, <1>3, <1>6, <1>7 DEF World
<1>9. /\ v.live = w.live /\ v.next = w.next /\ v.active = w.active
      /\ v.loc = w.loc /\ v.place = w.place /\ v.carrier = w.carrier
      /\ v.zone = w.zone /\ v.acquired = w.acquired
      /\ v.stage = w.stage /\ v.claim = w.claim /\ v.duty = duty
      /\ v.status = [w.status EXCEPT ![t] = st]
  BY <1>1, <1>6 DEF World
<1>10. v.status[t] = st /\ \A u \in Task \ {t} : v.status[u] = w.status[u]
  BY <1>1, <1>9, WorldFields
<1>11. OnlyTaskChanges(w, v, t)
  BY <1>7, <1>9, <1>10 DEF OnlyTaskChanges
<1>12. TaskIsConsistent(v, V, t)
  <2>1. Engaged(v, t) /\ (Unfinished(v, t) <=> Unfinished(w, t))
    BY <1>9 DEF Engaged, Unfinished, IsLoaded, IsUnloaded, IsItemAt, MustVacate
  <2>2. /\ t \in w.acquired <=> w.zone.lease = t
        /\ t \in w.acquired <=> w.stage[t] \in ZoneStages(t)
    BY <1>1 DEF ZoneInv
  <2>3. /\ w.active[t] # NoCommand => Unfinished(w, t)
        /\ \A c \in w.live : c.task = t /\ IsZoneMove(c) => w.stage[t] = ApproachStage(t)
    BY <1>1 DEF CommandInv
  <2>4. RobotOf(t) \in V => w.loc[RobotOf(t)] = Zone \/ w.stage[t] = ApproachStage(t)
    BY NotVisiting
  <2> QED
    BY <1>2, <1>7, <1>9, <1>10, <2>1, <2>2, <2>3, <2>4 DEF TaskIsConsistent
<1>13. ZoneIsHeld(v)
  BY <1>1, <1>9 DEF ZoneIsHeld, ZoneInv, HoldsLease
<1> QED
  BY <1>2, <1>8, <1>11, <1>12, <1>13, UpdateInv

(* Claiming an idle robot.                                                 *)
LEMMA ClaimInv ==
  ASSUME NEW w, NEW V, WorldInv(w, V), NEW t \in Task,
         w.stage[t] = "ClaimRobot", w.duty[RobotOf(t)] = "IDLE",
         NEW v, v = AtStage(AssignRobot(SetStatus(w, t, "RUNNING"), t), t, "RequestPickup")
  PROVE  WorldInv(v, V) /\ v.stage[t] = "RequestPickup" /\ v.active = w.active
<1>1. w \in World /\ TaskInv(w) /\ ZoneInv(w) /\ CommandInv(w) /\ VisitorInv(w, V)
  BY DEF WorldInv
<1>2. RobotOf(t) \in Robot /\ t # NoTask /\ w.claim[RobotOf(t)] = NoTask
  BY <1>1, TaskFacts DEF TaskInv
<1>3. v = [w EXCEPT !.status = [w.status EXCEPT ![t] = "RUNNING"],
                    !.stage = [w.stage EXCEPT ![t] = "RequestPickup"],
                    !.duty = [w.duty EXCEPT ![RobotOf(t)] = "BUSY"],
                    !.claim = [w.claim EXCEPT ![RobotOf(t)] = t]]
  BY <1>1 DEF AtStage, AssignRobot, SetStatus, World
<1>4. /\ [w.status EXCEPT ![t] = "RUNNING"] \in [Task -> TaskStatus]
      /\ [w.stage EXCEPT ![t] = "RequestPickup"] \in [Task -> Stage]
      /\ [w.duty EXCEPT ![RobotOf(t)] = "BUSY"] \in [Robot -> {"IDLE", "BUSY", "WAITING"}]
      /\ [w.claim EXCEPT ![RobotOf(t)] = t] \in [Robot -> Task \cup {NoTask}]
  BY <1>1, <1>2, WorldFields DEF TaskStatus, Stage
<1>5. v \in World
  BY <1>1, <1>3, <1>4 DEF World
<1>6. /\ v.live = w.live /\ v.next = w.next /\ v.active = w.active
      /\ v.loc = w.loc /\ v.place = w.place /\ v.carrier = w.carrier
      /\ v.zone = w.zone /\ v.acquired = w.acquired
      /\ v.status = [w.status EXCEPT ![t] = "RUNNING"]
      /\ v.stage = [w.stage EXCEPT ![t] = "RequestPickup"]
      /\ v.duty = [w.duty EXCEPT ![RobotOf(t)] = "BUSY"]
      /\ v.claim = [w.claim EXCEPT ![RobotOf(t)] = t]
  BY <1>1, <1>3 DEF World
<1>7. /\ v.status[t] = "RUNNING" /\ v.stage[t] = "RequestPickup"
      /\ v.duty[RobotOf(t)] = "BUSY" /\ v.claim[RobotOf(t)] = t
      /\ \A u \in Task \ {t} : v.status[u] = w.status[u] /\ v.stage[u] = w.stage[u]
      /\ \A r \in Robot \ {RobotOf(t)} : v.duty[r] = w.duty[r] /\ v.claim[r] = w.claim[r]
  BY <1>1, <1>2, <1>6, WorldFields
<1>8. ~ Engaged(w, t) /\ w.active[t] = NoCommand /\ w.stage[t] \notin ZoneStages(t)
  BY <1>1 DEF Engaged, CommandInv, ZoneStages
<1>9. OnlyTaskChanges(w, v, t)
  BY <1>6, <1>7 DEF OnlyTaskChanges
<1>10. \A u \in Task : RobotOf(u) = RobotOf(t) => ~ Engaged(w, u) /\ w.stage[u] # ApproachStage(u)
  BY <1>1, <1>2, TaskFacts DEF TaskInv, ApproachStage, Engaged
<1>11. w.zone.lease = NoTask \/ RobotOf(w.zone.lease) # RobotOf(t)
  <2>1. SUFFICES ASSUME w.zone.lease # NoTask, RobotOf(w.zone.lease) = RobotOf(t) PROVE FALSE
    OBVIOUS
  <2>2. w.zone.lease \in Task
    BY <1>1, <2>1, WorldFields DEF ZoneState
  <2>3. Engaged(w, w.zone.lease)
    BY <1>1, <2>2 DEF ZoneInv, ZoneStages, Engaged
  <2> QED
    BY <1>10, <2>1, <2>2, <2>3
<1>12. TaskIsConsistent(v, V, t)
  <2>1. Engaged(v, t) /\ v.stage[t] \notin ZoneStages(t)
    BY <1>7 DEF Engaged, ZoneStages
  <2>2. t \notin v.acquired /\ v.zone.lease # t
    BY <1>1, <1>6, <1>8 DEF ZoneInv
  <2>3. \A c \in v.live : c.task # t
    BY <1>1, <1>6, <1>8 DEF CommandInv
  <2>4. RobotOf(t) \notin V
    BY <1>1, <1>2, <1>10, <1>11 DEF VisitorInv, ZoneInv, HoldsLease
  <2> QED
    BY <1>6, <1>7, <1>8, <2>1, <2>2, <2>3, <2>4 DEF TaskIsConsistent
<1>13. ZoneIsHeld(v)
  BY <1>1, <1>6 DEF ZoneIsHeld, ZoneInv, HoldsLease
<1> QED
  BY <1>2, <1>5, <1>6, <1>7, <1>9, <1>12, <1>13, UpdateInv

(* Commanding a move, unless a command is under way.                       *)
LEMMA DriveInv ==
  ASSUME NEW w, NEW V, WorldInv(w, V), NEW t \in Task, Engaged(w, t), Unfinished(w, t),
         NEW target \in Waypoint, target = Zone => w.stage[t] = ApproachStage(t)
  PROVE  WorldInv(Drive(w, t, target), V)
<1>1. "move" \in Kind
  BY DEF Kind
<1>2. CASE w.active[t] # NoCommand
  BY <1>2 DEF Drive
<1>3. CASE w.active[t] = NoCommand
  BY <1>1, <1>3, EmissionInv DEF Drive, CreateMove
<1> QED
  BY <1>2, <1>3

(* Commanding a load or an unload, unless a command is under way.          *)
LEMMA HandleInv ==
  ASSUME NEW w, NEW V, WorldInv(w, V), NEW t \in Task, Engaged(w, t), Unfinished(w, t),
         NEW kind \in {"load", "unload"}
  PROVE  WorldInv(Handle(w, t, kind), V)
<1>1. kind \in Kind /\ kind # "move"
  BY DEF Kind
<1>2. CASE w.active[t] # NoCommand
  BY <1>2 DEF Handle
<1>3. CASE w.active[t] = NoCommand
  BY <1>1, <1>3, EmissionInv DEF Handle, CreateHandling
<1> QED
  BY <1>2, <1>3

-----------------------------------------------------------------------------
(* The children of the tree, from the last to the first.                   *)

(* A task whose child has reached what it commands has no command.         *)
LEMMA FinishedIsIdle ==
  ASSUME NEW w, NEW V, WorldInv(w, V), NEW t \in Task, ~ Unfinished(w, t)
  PROVE  w.active[t] = NoCommand
BY DEF WorldInv, CommandInv

(* VacateResourceIfManaged for the dropoff, and the end of the task behind it. *)
LEMMA VacateDropoffInv ==
  ASSUME NEW w, NEW V, WorldInv(w, V), NEW t \in Task, w.stage[t] = "VacateDropoff"
  PROVE  WorldInv(VacateDropoff(w, t), V)
<1>1. Engaged(w, t)
  BY DEF Engaged
<1>2. CASE MustVacate(w, t, DropoffOf(t))
  <2>1. Unfinished(w, t)
    BY <1>2 DEF Unfinished
  <2>2. ExitOf(RobotOf(t)) \in Waypoint /\ ExitOf(RobotOf(t)) # Zone
    BY TaskFacts, ExitFacts
  <2> QED
    BY <1>1, <1>2, <2>1, <2>2, DriveInv DEF VacateDropoff
<1>3. CASE ~ MustVacate(w, t, DropoffOf(t))
  <2>1. w.active[t] = NoCommand
    BY <1>3, FinishedIsIdle DEF Unfinished
  <2> QED
    BY <1>3, <2>1, FinishInv DEF VacateDropoff
<1> QED
  BY <1>2, <1>3

(* HandleItem with an unload, and the children behind it.                  *)
LEMMA UnloadInv ==
  ASSUME NEW w, NEW V, WorldInv(w, V), NEW t \in Task, w.stage[t] = "Unload"
  PROVE  WorldInv(Unload(w, t), V)
<1>1. Engaged(w, t)
  BY DEF Engaged
<1>2. CASE ~ IsUnloaded(w, t)
  <2>1. Unfinished(w, t)
    BY <1>2 DEF Unfinished
  <2> QED
    BY <1>1, <1>2, <2>1, HandleInv DEF Unload
<1>3. CASE IsUnloaded(w, t)
  <2> DEFINE z == UpdateAfterUnload(w, t).zone
             v == AtStage(UpdateAfterUnload(w, t), t, "VacateDropoff")
  <2>1. w \in World /\ w.zone \in ZoneState
    BY WorldFields DEF WorldInv
  <2>2. UpdateAfterUnload(w, t) = [w EXCEPT !.zone = z]
    BY <2>1 DEF UpdateAfterUnload, World
  <2>3. z \in ZoneState /\ z.lease = w.zone.lease /\ z.occ = w.zone.occ
    <3>1. ItemOf(t) \in Item
      BY TaskFacts
    <3>2. z \in {w.zone, BufferItem(w.zone, ItemOf(t))}
      BY <2>1 DEF UpdateAfterUnload, World
    <3> QED
      BY <2>1, <3>1, <3>2 DEF BufferItem, ZoneState
  <2>4. w.active[t] = NoCommand
    BY <1>3, FinishedIsIdle DEF Unfinished
  <2>5. /\ "VacateDropoff" \in Stage \ {"ClaimRobot", "Done"}
        /\ w.stage[t] \in ZoneStages(t) <=> "VacateDropoff" \in ZoneStages(t)
        /\ w.stage[t] # ApproachStage(t)
    BY DEF Stage, ZoneStages, ApproachStage
  <2>6. v = AtStage([w EXCEPT !.zone = z], t, "VacateDropoff")
    BY <2>2
  <2> HIDE DEF z, v
  <2>7. WorldInv(v, V) /\ v.stage[t] = "VacateDropoff"
    BY <1>1, <2>3, <2>4, <2>5, <2>6, ProgressInv
  <2>8. WorldInv(VacateDropoff(v, t), V)
    BY <2>7, VacateDropoffInv
  <2> QED
    BY <1>3, <2>8 DEF Unload, v
<1> QED
  BY <1>2, <1>3

(* MoveTo the dropoff, and the children behind it.                         *)
LEMMA MoveToDropoffInv ==
  ASSUME NEW w, NEW V, WorldInv(w, V), NEW t \in Task, w.stage[t] = "MoveToDropoff"
  PROVE  WorldInv(MoveToDropoff(w, t), V)
<1>1. Engaged(w, t) /\ w \in World /\ w.zone \in ZoneState
  BY WorldFields DEF Engaged, WorldInv
<1>2. CASE w.loc[RobotOf(t)] # DropoffOf(t)
  <2>1. Unfinished(w, t)
    BY <1>2 DEF Unfinished
  <2>2. DropoffOf(t) \in Waypoint /\ (DropoffOf(t) = Zone => w.stage[t] = ApproachStage(t))
    BY TaskFacts DEF ApproachStage, Zone
  <2> QED
    BY <1>1, <1>2, <2>1, <2>2, DriveInv DEF MoveToDropoff
<1>3. CASE w.loc[RobotOf(t)] = DropoffOf(t)
  <2> DEFINE z == MarkOccupied(w, t, DropoffOf(t)).zone
             v == AtStage(MarkOccupied(w, t, DropoffOf(t)), t, "Unload")
  <2>1. MarkOccupied(w, t, DropoffOf(t)) = [w EXCEPT !.zone = z]
    BY <1>1 DEF MarkOccupied, World
  <2>2. /\ z \in ZoneState /\ z.lease = w.zone.lease
        /\ z.occ \subseteq w.zone.occ \cup (IF t \in w.acquired THEN {RobotOf(t)} ELSE {})
    <3>1. RobotOf(t) \in Robot
      BY TaskFacts
    <3>2. z = w.zone \/ (t \in w.acquired /\ z = Occupy(w.zone, RobotOf(t)))
      BY <1>1 DEF MarkOccupied, World
    <3> QED
      BY <1>1, <3>1, <3>2 DEF Occupy, ZoneState
  <2>3. w.active[t] = NoCommand
    BY <1>3, FinishedIsIdle DEF Unfinished
  <2>4. /\ "Unload" \in Stage \ {"ClaimRobot", "Done"}
        /\ w.stage[t] \in ZoneStages(t) <=> "Unload" \in ZoneStages(t)
        /\ w.stage[t] = ApproachStage(t) => w.loc[RobotOf(t)] = Zone
    BY <1>3, TaskFacts DEF Stage, ZoneStages, ApproachStage, Inbound, Outbound
  <2>5. v = AtStage([w EXCEPT !.zone = z], t, "Unload")
    BY <2>1
  <2> HIDE DEF z, v
  <2>6. WorldInv(v, V) /\ v.stage[t] = "Unload"
    BY <1>1, <2>2, <2>3, <2>4, <2>5, ProgressInv
  <2>7. WorldInv(Unload(v, t), V)
    BY <2>6, UnloadInv
  <2> QED
    BY <1>3, <2>7 DEF MoveToDropoff, v
<1> QED
  BY <1>2, <1>3

(* Waiting for the zone, on the way to the waiting place or there.         *)
LEMMA WaitAtWaypointInv ==
  ASSUME NEW w, NEW V, WorldInv(w, V), NEW t \in Task,
         w.stage[t] \in {"RequestPickup", "RequestDropoff"}, Unfinished(w, t)
  PROVE  WorldInv(WaitAtWaypoint(w, t), V)
<1>1. Engaged(w, t) /\ w \in World
  BY DEF Engaged, WorldInv
<1>2. CASE w.loc[RobotOf(t)] # WaitWaypointOf(RobotOf(t))
  <2> DEFINE v == SetStatus(w, t, "RUNNING")
  <2>1. WorldInv(v, V)
    BY <1>1, StatusInv
  <2>2. /\ v.stage = w.stage /\ v.loc = w.loc
        /\ v.carrier = w.carrier /\ v.place = w.place
    BY <1>1 DEF SetStatus, World
  <2> HIDE DEF v
  <2>3. Engaged(v, t) /\ Unfinished(v, t)
    BY <1>1, <2>2 DEF Engaged, Unfinished, IsLoaded, IsUnloaded, IsItemAt, MustVacate
  <2>4. /\ WaitWaypointOf(RobotOf(t)) \in Waypoint
        /\ WaitWaypointOf(RobotOf(t)) # Zone
    BY TaskFacts, ExitFacts
  <2>5. WorldInv(Drive(v, t, WaitWaypointOf(RobotOf(t))), V)
    BY <2>1, <2>3, <2>4, DriveInv
  <2> QED
    BY <1>2, <2>5 DEF WaitAtWaypoint, v
<1>3. CASE w.loc[RobotOf(t)] = WaitWaypointOf(RobotOf(t))
  <2>1. MarkRobotWaiting(SetStatus(w, t, "BLOCKED"), t)
          = [w EXCEPT !.status[t] = "BLOCKED", !.duty[RobotOf(t)] = "WAITING",
                      !.claim[RobotOf(t)] = t]
    BY <1>1 DEF MarkRobotWaiting, SetStatus, World
  <2>2. WorldInv(MarkRobotWaiting(SetStatus(w, t, "BLOCKED"), t), V)
    BY <1>1, <2>1, StatusInv
  <2> QED
    BY <1>3, <2>2 DEF WaitAtWaypoint
<1> QED
  BY <1>2, <1>3

(* The same with the reason of the wait noted before.                      *)
LEMMA WaitInv ==
  ASSUME NEW w, NEW V, WorldInv(w, V), NEW t \in Task,
         w.stage[t] \in {"RequestPickup", "RequestDropoff"}, Unfinished(w, t),
         NEW purpose \in {"pickup", "dropoff"}, ~ Granted(w.zone, t, purpose)
  PROVE  WorldInv(WaitAtResourceWaypoint(w, t, purpose), V)
<1> DEFINE v == SetBlocker(w, t, Denial(w.zone, t, purpose))
<1>1. Denial(w.zone, t, purpose) \in Blocker
  BY DenialType, WorldFields DEF WorldInv
<1>2. WorldInv(v, V) /\ SameWork(w, v)
  BY <1>1, SetBlockerInv
<1> HIDE DEF v
<1>3. v.stage[t] \in {"RequestPickup", "RequestDropoff"} /\ Unfinished(v, t)
  BY <1>2 DEF SameWork, Unfinished, IsLoaded, IsUnloaded, IsItemAt, MustVacate
<1>4. WorldInv(WaitAtWaypoint(v, t), V)
  BY <1>2, <1>3, WaitAtWaypointInv
<1> QED
  BY <1>4 DEF WaitAtResourceWaypoint, v

(* RequestResourceAccess for the dropoff, and the children behind it.      *)
LEMMA RequestDropoffInv ==
  ASSUME NEW w, NEW V, WorldInv(w, V), NEW t \in Task, w.stage[t] = "RequestDropoff"
  PROVE  WorldInv(RequestDropoff(w, t), V)
<1>1. Engaged(w, t) /\ w \in World /\ w.zone \in ZoneState
  BY WorldFields DEF Engaged, WorldInv
<1>2. t \notin w.acquired
  BY DEF WorldInv, ZoneInv, ZoneStages
<1>3. CASE DropoffOf(t) # Zone
  <2> DEFINE v == AtStage(w, t, "MoveToDropoff")
  <2>1. v = AtStage([w EXCEPT !.zone = w.zone], t, "MoveToDropoff")
    BY <1>1 DEF World
  <2>2. /\ "MoveToDropoff" \in Stage \ {"ClaimRobot", "Done"}
        /\ w.stage[t] \in ZoneStages(t) <=> "MoveToDropoff" \in ZoneStages(t)
        /\ w.stage[t] # ApproachStage(t)
    BY <1>3, TaskFacts DEF Stage, ZoneStages, ApproachStage, Inbound, Outbound
  <2>3. w.active[t] = NoCommand
    BY <1>3, FinishedIsIdle DEF Unfinished
  <2> HIDE DEF v
  <2>4. WorldInv(v, V) /\ v.stage[t] = "MoveToDropoff"
    BY <1>1, <2>1, <2>2, <2>3, ProgressInv
  <2>5. WorldInv(MoveToDropoff(v, t), V)
    BY <2>4, MoveToDropoffInv
  <2> QED
    BY <1>3, <2>5 DEF RequestDropoff, v
<1>4. CASE DropoffOf(t) = Zone /\ Granted(w.zone, t, "dropoff")
  <2> DEFINE v == AtStage(Acquire(Unblocked(w, t), t), t, "MoveToDropoff")
  <2>1. ApproachStage(t) = "MoveToDropoff"
    BY <1>4, TaskFacts DEF ApproachStage, Zone
  <2> HIDE DEF v
  <2>2. WorldInv(v, V) /\ v.stage[t] = "MoveToDropoff"
    BY <1>1, <1>2, <1>4, <2>1, AcquireUnblockedInv DEF v
  <2>3. WorldInv(MoveToDropoff(v, t), V)
    BY <2>2, MoveToDropoffInv
  <2> QED
    BY <1>2, <1>4, <2>3 DEF RequestDropoff, v
<1>5. CASE DropoffOf(t) = Zone /\ ~ Granted(w.zone, t, "dropoff")
  <2>1. Unfinished(w, t)
    BY <1>5 DEF Unfinished
  <2>2. WorldInv(WaitAtResourceWaypoint(w, t, "dropoff"), V)
    BY <1>5, <2>1, WaitInv
  <2> QED
    BY <1>2, <1>5, <2>2 DEF RequestDropoff
<1> QED
  BY <1>3, <1>4, <1>5

(* VacateResourceIfManaged for the pickup, and the children behind it.     *)
LEMMA VacatePickupInv ==
  ASSUME NEW w, NEW V, WorldInv(w, V), NEW t \in Task, w.stage[t] = "VacatePickup"
  PROVE  WorldInv(VacatePickup(w, t), V)
<1>1. Engaged(w, t)
  BY DEF Engaged
<1>2. CASE MustVacate(w, t, PickupOf(t))
  <2>1. Unfinished(w, t)
    BY <1>2 DEF Unfinished
  <2>2. ExitOf(RobotOf(t)) \in Waypoint /\ ExitOf(RobotOf(t)) # Zone
    BY TaskFacts, ExitFacts
  <2> QED
    BY <1>1, <1>2, <2>1, <2>2, DriveInv DEF VacatePickup
<1>3. CASE ~ MustVacate(w, t, PickupOf(t))
  <2> DEFINE v == AtStage(ReleaseResource(w, t, PickupOf(t)), t, "RequestDropoff")
  <2>1. w.active[t] = NoCommand
    BY <1>3, FinishedIsIdle DEF Unfinished
  <2> HIDE DEF v
  <2>2. WorldInv(v, V) /\ v.stage[t] = "RequestDropoff"
    BY <1>3, <2>1, VacatedPickupInv DEF v
  <2>3. WorldInv(RequestDropoff(v, t), V)
    BY <2>2, RequestDropoffInv
  <2> QED
    BY <1>3, <2>3 DEF VacatePickup, v
<1> QED
  BY <1>2, <1>3

(* HandleItem with a load, and the children behind it.                     *)
LEMMA LoadInv ==
  ASSUME NEW w, NEW V, WorldInv(w, V), NEW t \in Task, w.stage[t] = "Load"
  PROVE  WorldInv(Load(w, t), V)
<1>1. Engaged(w, t)
  BY DEF Engaged
<1>2. CASE ~ IsLoaded(w, t)
  <2>1. Unfinished(w, t)
    BY <1>2 DEF Unfinished
  <2> QED
    BY <1>1, <1>2, <2>1, HandleInv DEF Load
<1>3. CASE IsLoaded(w, t)
  <2> DEFINE z == UpdateAfterLoad(w, t).zone
             v == AtStage(UpdateAfterLoad(w, t), t, "VacatePickup")
  <2>1. w \in World /\ w.zone \in ZoneState
    BY WorldFields DEF WorldInv
  <2>2. UpdateAfterLoad(w, t) = [w EXCEPT !.zone = z]
    BY <2>1 DEF UpdateAfterLoad, World
  <2>3. z \in ZoneState /\ z.lease = w.zone.lease /\ z.occ = w.zone.occ
    <3>1. z \in {w.zone, ReleaseItem(w.zone, ItemOf(t))}
      BY <2>1 DEF UpdateAfterLoad, World
    <3> QED
      BY <2>1, <3>1 DEF ReleaseItem, ZoneState
  <2>4. w.active[t] = NoCommand
    BY <1>3, FinishedIsIdle DEF Unfinished
  <2>5. /\ "VacatePickup" \in Stage \ {"ClaimRobot", "Done"}
        /\ w.stage[t] \in ZoneStages(t) <=> "VacatePickup" \in ZoneStages(t)
        /\ w.stage[t] # ApproachStage(t)
    BY DEF Stage, ZoneStages, ApproachStage
  <2>6. v = AtStage([w EXCEPT !.zone = z], t, "VacatePickup")
    BY <2>2
  <2> HIDE DEF z, v
  <2>7. WorldInv(v, V) /\ v.stage[t] = "VacatePickup"
    BY <1>1, <2>3, <2>4, <2>5, <2>6, ProgressInv
  <2>8. WorldInv(VacatePickup(v, t), V)
    BY <2>7, VacatePickupInv
  <2> QED
    BY <1>3, <2>8 DEF Load, v
<1> QED
  BY <1>2, <1>3

(* MoveTo the pickup, and the children behind it.                          *)
LEMMA MoveToPickupInv ==
  ASSUME NEW w, NEW V, WorldInv(w, V), NEW t \in Task, w.stage[t] = "MoveToPickup"
  PROVE  WorldInv(MoveToPickup(w, t), V)
<1>1. Engaged(w, t) /\ w \in World /\ w.zone \in ZoneState
  BY WorldFields DEF Engaged, WorldInv
<1>2. CASE w.loc[RobotOf(t)] # PickupOf(t)
  <2>1. Unfinished(w, t)
    BY <1>2 DEF Unfinished
  <2>2. PickupOf(t) \in Waypoint /\ (PickupOf(t) = Zone => w.stage[t] = ApproachStage(t))
    BY TaskFacts DEF ApproachStage, Zone, Inbound, Outbound
  <2> QED
    BY <1>1, <1>2, <2>1, <2>2, DriveInv DEF MoveToPickup
<1>3. CASE w.loc[RobotOf(t)] = PickupOf(t)
  <2> DEFINE z == MarkOccupied(w, t, PickupOf(t)).zone
             v == AtStage(MarkOccupied(w, t, PickupOf(t)), t, "Load")
  <2>1. MarkOccupied(w, t, PickupOf(t)) = [w EXCEPT !.zone = z]
    BY <1>1 DEF MarkOccupied, World
  <2>2. /\ z \in ZoneState /\ z.lease = w.zone.lease
        /\ z.occ \subseteq w.zone.occ \cup (IF t \in w.acquired THEN {RobotOf(t)} ELSE {})
    <3>1. RobotOf(t) \in Robot
      BY TaskFacts
    <3>2. z = w.zone \/ (t \in w.acquired /\ z = Occupy(w.zone, RobotOf(t)))
      BY <1>1 DEF MarkOccupied, World
    <3> QED
      BY <1>1, <3>1, <3>2 DEF Occupy, ZoneState
  <2>3. w.active[t] = NoCommand
    BY <1>3, FinishedIsIdle DEF Unfinished
  <2>4. /\ "Load" \in Stage \ {"ClaimRobot", "Done"}
        /\ w.stage[t] \in ZoneStages(t) <=> "Load" \in ZoneStages(t)
        /\ w.stage[t] = ApproachStage(t) => w.loc[RobotOf(t)] = Zone
    BY <1>3, TaskFacts DEF Stage, ZoneStages, ApproachStage, Inbound, Outbound
  <2>5. v = AtStage([w EXCEPT !.zone = z], t, "Load")
    BY <2>1
  <2> HIDE DEF z, v
  <2>6. WorldInv(v, V) /\ v.stage[t] = "Load"
    BY <1>1, <2>2, <2>3, <2>4, <2>5, ProgressInv
  <2>7. WorldInv(Load(v, t), V)
    BY <2>6, LoadInv
  <2> QED
    BY <1>3, <2>7 DEF MoveToPickup, v
<1> QED
  BY <1>2, <1>3

(* RequestResourceAccess for the pickup, and the children behind it.       *)
LEMMA RequestPickupInv ==
  ASSUME NEW w, NEW V, WorldInv(w, V), NEW t \in Task, w.stage[t] = "RequestPickup"
  PROVE  WorldInv(RequestPickup(w, t), V)
<1>1. Engaged(w, t) /\ w \in World /\ w.zone \in ZoneState
  BY WorldFields DEF Engaged, WorldInv
<1>2. t \notin w.acquired
  BY DEF WorldInv, ZoneInv, ZoneStages
<1>3. CASE PickupOf(t) # Zone
  <2> DEFINE v == AtStage(w, t, "MoveToPickup")
  <2>1. v = AtStage([w EXCEPT !.zone = w.zone], t, "MoveToPickup")
    BY <1>1 DEF World
  <2>2. /\ "MoveToPickup" \in Stage \ {"ClaimRobot", "Done"}
        /\ w.stage[t] \in ZoneStages(t) <=> "MoveToPickup" \in ZoneStages(t)
        /\ w.stage[t] # ApproachStage(t)
    BY <1>3, TaskFacts DEF Stage, ZoneStages, ApproachStage, Inbound, Outbound
  <2>3. w.active[t] = NoCommand
    BY <1>3, FinishedIsIdle DEF Unfinished
  <2> HIDE DEF v
  <2>4. WorldInv(v, V) /\ v.stage[t] = "MoveToPickup"
    BY <1>1, <2>1, <2>2, <2>3, ProgressInv
  <2>5. WorldInv(MoveToPickup(v, t), V)
    BY <2>4, MoveToPickupInv
  <2> QED
    BY <1>3, <2>5 DEF RequestPickup, v
<1>4. CASE PickupOf(t) = Zone /\ Granted(w.zone, t, "pickup")
  <2> DEFINE v == AtStage(Acquire(Unblocked(w, t), t), t, "MoveToPickup")
  <2>1. ApproachStage(t) = "MoveToPickup"
    BY <1>4, TaskFacts DEF ApproachStage, Zone, Inbound, Outbound
  <2> HIDE DEF v
  <2>2. WorldInv(v, V) /\ v.stage[t] = "MoveToPickup"
    BY <1>1, <1>2, <1>4, <2>1, AcquireUnblockedInv DEF v
  <2>3. WorldInv(MoveToPickup(v, t), V)
    BY <2>2, MoveToPickupInv
  <2> QED
    BY <1>2, <1>4, <2>3 DEF RequestPickup, v
<1>5. CASE PickupOf(t) = Zone /\ ~ Granted(w.zone, t, "pickup")
  <2>1. Unfinished(w, t)
    BY <1>5 DEF Unfinished
  <2>2. WorldInv(WaitAtResourceWaypoint(w, t, "pickup"), V)
    BY <1>5, <2>1, WaitInv
  <2> QED
    BY <1>2, <1>5, <2>2 DEF RequestPickup
<1> QED
  BY <1>3, <1>4, <1>5

(* ClaimRobot, and so the whole tree, for a task that is to start.         *)
LEMMA ClaimRobotInv ==
  ASSUME NEW w, NEW V, WorldInv(w, V), NEW t \in Task, w.stage[t] = "ClaimRobot"
  PROVE  WorldInv(ClaimRobot(w, t), V)
<1>1. w.claim[RobotOf(t)] # t
  BY DEF WorldInv, TaskInv, Engaged
<1>2. CASE w.duty[RobotOf(t)] # "IDLE"
  BY <1>1, <1>2 DEF ClaimRobot
<1>3. CASE w.duty[RobotOf(t)] = "IDLE"
  <2> DEFINE v == AtStage(AssignRobot(SetStatus(w, t, "RUNNING"), t), t, "RequestPickup")
  <2>1. WorldInv(v, V) /\ v.stage[t] = "RequestPickup"
    BY <1>3, ClaimInv
  <2> HIDE DEF v
  <2>2. WorldInv(RequestPickup(v, t), V)
    BY <2>1, RequestPickupInv
  <2> QED
    BY <1>1, <1>3, <2>2 DEF ClaimRobot, v
<1> QED
  BY <1>2, <1>3

-----------------------------------------------------------------------------
(* A tick of any task, from wherever it stands, keeps the invariant.       *)
LEMMA TickInv ==
  ASSUME NEW w, NEW V, WorldInv(w, V), NEW t \in Task
  PROVE  WorldInv(Tick(w, t), V)
<1>1. w.stage[t] \in Stage
  BY WorldFields DEF WorldInv
<1>2. CASE w.stage[t] = "ClaimRobot"
  BY <1>2, ClaimRobotInv DEF Tick
<1>3. CASE w.stage[t] = "RequestPickup"
  BY <1>3, RequestPickupInv DEF Tick
<1>4. CASE w.stage[t] = "MoveToPickup"
  BY <1>4, MoveToPickupInv DEF Tick
<1>5. CASE w.stage[t] = "Load"
  BY <1>5, LoadInv DEF Tick
<1>6. CASE w.stage[t] = "VacatePickup"
  BY <1>6, VacatePickupInv DEF Tick
<1>7. CASE w.stage[t] = "RequestDropoff"
  BY <1>7, RequestDropoffInv DEF Tick
<1>8. CASE w.stage[t] = "MoveToDropoff"
  BY <1>8, MoveToDropoffInv DEF Tick
<1>9. CASE w.stage[t] = "Unload"
  BY <1>9, UnloadInv DEF Tick
<1>10. CASE w.stage[t] = "VacateDropoff"
  BY <1>10, VacateDropoffInv DEF Tick
<1>11. CASE w.stage[t] = "Done"
  BY <1>11 DEF Tick
<1> QED
  BY <1>1, <1>2, <1>3, <1>4, <1>5, <1>6, <1>7, <1>8, <1>9, <1>10, <1>11 DEF Stage

(* Starting a pending task whose robot is idle keeps the invariant.        *)
LEMMA StartInv ==
  ASSUME NEW w, NEW V, WorldInv(w, V), NEW t \in Task,
         w.status[t] = "PENDING", w.duty[RobotOf(t)] = "IDLE"
  PROVE  WorldInv(Start(w, t), V)
<1>1. w \in World /\ w.stage[t] = "ClaimRobot" /\ w.claim[RobotOf(t)] # t
  BY TaskFacts DEF WorldInv, TaskInv, Engaged
<1> DEFINE s == SetStatus(w, t, "RUNNING")
           v == AtStage(AssignRobot(s, t), t, "RequestPickup")
<1>2. /\ s.stage = w.stage /\ s.claim = w.claim /\ s.duty = w.duty
      /\ SetStatus(s, t, "RUNNING") = s
  BY <1>1, WorldFields DEF SetStatus, World
<1>3. WorldInv(v, V) /\ v.stage[t] = "RequestPickup"
  BY <1>1, ClaimInv
<1> HIDE DEF s
<1>4. Tick(s, t) = RequestPickup(v, t)
  BY <1>1, <1>2 DEF Tick, ClaimRobot
<1> HIDE DEF v
<1>5. WorldInv(RequestPickup(v, t), V)
  BY <1>3, RequestPickupInv
<1> QED
  BY <1>4, <1>5 DEF Start, s
=============================================================================
