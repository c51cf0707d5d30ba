--------------------------- MODULE ProgressProofs ---------------------------
(***************************************************************************)
(* Why a mission that runs has something to do. What a tick of a task      *)
(* comes to, child by child from the last to the first; from that, what a  *)
(* whole advance of the mission leaves behind; and the theorems about the  *)
(* progress of the mission that rest on it.                                *)
(***************************************************************************)
EXTENDS PackageTheorems, ProgressInvariant

-----------------------------------------------------------------------------
(* What a tick of task t comes to when it turns w into v. The task waits   *)
(* for a command it was given,                                             *)
Working(v, t) == v.status[t] = "RUNNING" /\ v.active[t] # NoCommand

(* or it was refused the zone as it is, which blocks it,                   *)
PurposeOf(t) == IF LegOf(t) = Inbound THEN "dropoff" ELSE "pickup"

Refused(w, v, t) ==
  /\ v.status[t] = "BLOCKED"
  /\ v.next = w.next /\ v.zone = w.zone
  /\ ~ Granted(w.zone, t, PurposeOf(t))
  /\ v.blocker[t] = Denial(w.zone, t, PurposeOf(t))

(* or it is finished, and its robot and the zone are free again.           *)
Delivered(w, v, t) ==
  /\ v.status[t] = "SUCCEEDED"
  /\ v.next = w.next /\ v.zone.buf = w.zone.buf
  /\ LegOf(t) = Outbound => v.zone = w.zone
  /\ v.duty[RobotOf(t)] = "IDLE"

Outcome(w, v, t) == Working(v, t) \/ Refused(w, v, t) \/ Delivered(w, v, t)

(* The task is one that is ticked: it runs, or it is blocked with nothing  *)
(* under way.                                                              *)
Tickable(w, t) ==
  /\ w \in World
  /\ w.next # NoCommand
  /\ w.status[t] = "RUNNING" \/ w.active[t] = NoCommand

(* v is w but for the zone, the access to it and the stages of tasks.      *)
SameButZone(w, v) ==
  /\ v \in World
  /\ v.status = w.status /\ v.active = w.active /\ v.next = w.next
  /\ v.duty = w.duty /\ v.blocker = w.blocker
  /\ v.loc = w.loc /\ v.place = w.place /\ v.carrier = w.carrier

(* The children that update the books of the zone, and only if the         *)
(* endpoint of the task is the zone.                                       *)
LEMMA ZoneUpdates ==
  ASSUME NEW w \in World, NEW t \in Task, NEW endpoint
  PROVE  /\ SameButZone(w, MarkOccupied(w, t, endpoint))
         /\ SameButZone(w, UpdateAfterLoad(w, t))
         /\ SameButZone(w, UpdateAfterUnload(w, t))
         /\ SameButZone(w, ReleaseResource(w, t, endpoint))
         /\ ReleaseResource(w, t, endpoint).zone.buf = w.zone.buf
<1>1. /\ w.zone \in ZoneState /\ RobotOf(t) \in Robot /\ ItemOf(t) \in Item
      /\ w.acquired \ {t} \in SUBSET Task
  BY WorldFields, TaskFacts
<1>2. /\ Occupy(w.zone, RobotOf(t)) \in ZoneState
      /\ ReleaseItem(w.zone, ItemOf(t)) \in ZoneState
      /\ BufferItem(w.zone, ItemOf(t)) \in ZoneState
      /\ Release(w.zone, RobotOf(t)) \in ZoneState
      /\ Release(w.zone, RobotOf(t)).buf = w.zone.buf
  BY <1>1 DEF Occupy, ReleaseItem, BufferItem, Release, ZoneState
<1>3. ASSUME NEW z \in ZoneState, NEW acq \in SUBSET Task
      PROVE  /\ SameButZone(w, [w EXCEPT !.zone = z])
             /\ SameButZone(w, [w EXCEPT !.zone = z, !.acquired = acq])
             /\ [w EXCEPT !.zone = z, !.acquired = acq].zone = z
  BY DEF SameButZone, World
<1>4. SameButZone(w, w)
  BY DEF SameButZone
<1>5. SameButZone(w, MarkOccupied(w, t, endpoint))
  BY <1>2, <1>3, <1>4 DEF MarkOccupied
<1>6. SameButZone(w, UpdateAfterLoad(w, t))
  BY <1>2, <1>3, <1>4 DEF UpdateAfterLoad
<1>7. SameButZone(w, UpdateAfterUnload(w, t))
  BY <1>2, <1>3, <1>4 DEF UpdateAfterUnload
<1>8. /\ SameButZone(w, ReleaseResource(w, t, endpoint))
      /\ ReleaseResource(w, t, endpoint).zone.buf = w.zone.buf
  BY <1>1, <1>2, <1>3, <1>4 DEF ReleaseResource
<1> QED
  BY <1>5, <1>6, <1>7, <1>8

(* Going on to the next child.                                             *)
LEMMA NextChild ==
  ASSUME NEW w \in World, NEW t \in Task, NEW sg \in Stage
  PROVE  /\ SameButZone(w, AtStage(w, t, sg))
         /\ AtStage(w, t, sg).zone = w.zone /\ AtStage(w, t, sg).stage[t] = sg
<1>1. [w.stage EXCEPT ![t] = sg] \in [Task -> Stage]
  BY WorldFields
<1>2. AtStage(w, t, sg) = [w EXCEPT !.stage = [w.stage EXCEPT ![t] = sg]]
  BY DEF AtStage, World
<1> DEFINE f == [w.stage EXCEPT ![t] = sg]
<1>3. f[t] = sg
  BY WorldFields
<1> HIDE DEF f
<1>4. SameButZone(w, [w EXCEPT !.stage = f])
  BY <1>1 DEF SameButZone, World, f
<1>5. [w EXCEPT !.stage = f].zone = w.zone /\ [w EXCEPT !.stage = f].stage = f
  BY DEF World
<1> QED
  BY <1>2, <1>3, <1>4, <1>5 DEF f

LEMMA SameButZoneTransitive ==
  ASSUME NEW u, NEW v, NEW w, SameButZone(u, v), SameButZone(v, w)
  PROVE  SameButZone(u, w)
BY DEF SameButZone

LEMMA StillTickable ==
  ASSUME NEW w, NEW v, NEW t, Tickable(w, t), SameButZone(w, v)
  PROVE  Tickable(v, t)
BY DEF Tickable, SameButZone

(* A command is given, or is under way already.                            *)
LEMMA CommandWorks ==
  ASSUME NEW w, NEW t \in Task, Tickable(w, t), NEW kind, NEW target,
         NEW v, v = IF w.active[t] # NoCommand THEN w
                    ELSE AddCommand(SetStatus(w, t, "RUNNING"), t, kind, target)
  PROVE  Working(v, t)
<1>1. CASE w.active[t] # NoCommand
  BY <1>1 DEF Working, Tickable
<1>2. CASE w.active[t] = NoCommand
  <2>1. v = AddCommand(SetStatus(w, t, "RUNNING"), t, kind, target)
    BY <1>2
  <2>2. /\ v.status = [w.status EXCEPT ![t] = "RUNNING"]
        /\ v.active = [w.active EXCEPT ![t] = w.next]
    BY <2>1 DEF AddCommand, SetStatus, Tickable, World
  <2>3. v.status[t] = "RUNNING" /\ v.active[t] = w.next
    BY <2>2, WorldFields DEF Tickable
  <2> QED
    BY <2>3 DEF Working, Tickable
<1> QED
  BY <1>1, <1>2

LEMMA DriveWorks ==
  ASSUME NEW w, NEW t \in Task, Tickable(w, t), NEW target
  PROVE  Working(Drive(w, t, target), t)
BY CommandWorks DEF Drive, CreateMove

LEMMA HandleWorks ==
  ASSUME NEW w, NEW t \in Task, Tickable(w, t), NEW kind
  PROVE  Working(Handle(w, t, kind), t)
BY CommandWorks DEF Handle, CreateHandling

(* The robot is still to leave the zone, or the task is finished.          *)
LEMMA VacateDropoffOutcome ==
  ASSUME NEW w, NEW t \in Task, Tickable(w, t)
  PROVE  /\ Working(VacateDropoff(w, t), t) \/ Delivered(w, VacateDropoff(w, t), t)
         /\ MustVacate(w, t, DropoffOf(t)) => Working(VacateDropoff(w, t), t)
<1>1. CASE MustVacate(w, t, DropoffOf(t))
  BY <1>1, DriveWorks DEF VacateDropoff
<1>2. CASE ~ MustVacate(w, t, DropoffOf(t))
  <2> DEFINE x == ReleaseResource(w, t, DropoffOf(t))
             v == MarkTaskSucceeded(ReleaseRobot(x, t), t)
  <2>1. /\ x \in World /\ x.next = w.next /\ x.zone.buf = w.zone.buf
        /\ DropoffOf(t) # Zone => x = w
    BY ZoneUpdates DEF SameButZone, Tickable, ReleaseResource
  <2> HIDE DEF x
  <2>2. /\ v.status = [x.status EXCEPT ![t] = "SUCCEEDED"]
        /\ v.duty = [x.duty EXCEPT ![RobotOf(t)] = "IDLE"]
        /\ v.next = x.next /\ v.zone = x.zone
    BY <2>1 DEF MarkTaskSucceeded, ReleaseRobot, AtStage, SetStatus, World
  <2> HIDE DEF v
  <2>3. v.status[t] = "SUCCEEDED" /\ v.duty[RobotOf(t)] = "IDLE"
    BY <2>1, <2>2, WorldFields, TaskFacts
  <2>4. LegOf(t) = Outbound => v.zone = w.zone
    BY <2>1, <2>2, ZoneStageFacts
  <2>5. Delivered(w, v, t)
    BY <2>1, <2>2, <2>3, <2>4 DEF Delivered
  <2> QED
    BY <1>2, <2>5 DEF VacateDropoff, v, x
<1> QED
  BY <1>1, <1>2

(* An upstream robot that has left its package in the zone is still there. *)
LEMMA UnloadOutcome ==
  ASSUME NEW w, NEW t \in Task, Tickable(w, t),
         DropoffOf(t) = Zone => w.loc[RobotOf(t)] = Zone
  PROVE  /\ Working(Unload(w, t), t) \/ Delivered(w, Unload(w, t), t)
         /\ ~ IsUnloaded(w, t) => Working(Unload(w, t), t)
<1>1. CASE ~ IsUnloaded(w, t)
  BY <1>1, HandleWorks DEF Unload
<1>2. CASE IsUnloaded(w, t)
  <2> DEFINE x == UpdateAfterUnload(w, t)
             v == AtStage(x, t, "VacateDropoff")
  <2>1. SameButZone(w, x) /\ x \in World
    BY ZoneUpdates DEF Tickable, SameButZone
  <2>2. SameButZone(x, v) /\ v.zone = x.zone
    BY <2>1, NextChild DEF Stage
  <2>3. DropoffOf(t) # Zone => x = w
    BY DEF UpdateAfterUnload
  <2> HIDE DEF x, v
  <2>4. Tickable(v, t) /\ v.loc = w.loc /\ v.next = w.next
    BY <2>1, <2>2, StillTickable DEF SameButZone
  <2>5. /\ Working(VacateDropoff(v, t), t) \/ Delivered(v, VacateDropoff(v, t), t)
        /\ MustVacate(v, t, DropoffOf(t)) => Working(VacateDropoff(v, t), t)
    BY <2>4, VacateDropoffOutcome
  <2>6. DropoffOf(t) = Zone => MustVacate(v, t, DropoffOf(t))
    BY <2>4, TaskFacts, ExitFacts DEF MustVacate
  <2>7. ASSUME DropoffOf(t) # Zone, Delivered(v, VacateDropoff(v, t), t)
        PROVE  Delivered(w, VacateDropoff(v, t), t)
    BY <2>2, <2>3, <2>4, <2>7 DEF Delivered
  <2>8. Unload(w, t) = VacateDropoff(v, t)
    BY <1>2 DEF Unload, v, x
  <2> QED
    BY <1>2, <2>5, <2>6, <2>7, <2>8
<1> QED
  BY <1>1, <1>2

(* A robot that carries its package drives on or unloads it.               *)
LEMMA MoveToDropoffWorks ==
  ASSUME NEW w, NEW t \in Task, Tickable(w, t), ~ IsUnloaded(w, t)
  PROVE  Working(MoveToDropoff(w, t), t)
<1>1. CASE w.loc[RobotOf(t)] # DropoffOf(t)
  BY <1>1, DriveWorks DEF MoveToDropoff
<1>2. CASE w.loc[RobotOf(t)] = DropoffOf(t)
  <2> DEFINE x == MarkOccupied(w, t, DropoffOf(t))
             v == AtStage(x, t, "Unload")
  <2>1. SameButZone(w, x) /\ x \in World
    BY ZoneUpdates DEF Tickable, SameButZone
  <2>2. SameButZone(w, v)
    BY <2>1, NextChild, SameButZoneTransitive DEF Stage
  <2> HIDE DEF x, v
  <2>3. Tickable(v, t) /\ v.loc = w.loc /\ ~ IsUnloaded(v, t)
    BY <2>2, StillTickable DEF SameButZone, IsUnloaded, IsItemAt
  <2>4. Working(Unload(v, t), t)
    BY <1>2, <2>3, UnloadOutcome
  <2> QED
    BY <1>2, <2>4 DEF MoveToDropoff, v, x
<1> QED
  BY <1>1, <1>2

(* A task that is refused the zone drives to its waiting place, or waits.  *)
LEMMA WaitOutcome ==
  ASSUME NEW w, NEW t \in Task, Tickable(w, t),
         NEW purpose, purpose = PurposeOf(t), ~ Granted(w.zone, t, purpose)
  PROVE  LET v == WaitAtResourceWaypoint(w, t, purpose)
         IN  Working(v, t) \/ Refused(w, v, t)
<1> DEFINE r == RobotOf(t)
           b == Denial(w.zone, t, purpose)
           x == SetBlocker(w, t, b)
<1>1. w \in World /\ w.zone \in ZoneState /\ r \in Robot
  BY WorldFields, TaskFacts DEF Tickable
<1>2. b \in Blocker
  BY <1>1, DenialType DEF PurposeOf
<1> HIDE DEF b
<1>3. [w.blocker EXCEPT ![t] = b] \in [Task -> Blocker]
  BY <1>1, <1>2, WorldFields
<1>4. /\ x \in World /\ x.blocker = [w.blocker EXCEPT ![t] = b]
      /\ x.status = w.status /\ x.active = w.active /\ x.next = w.next /\ x.zone = w.zone
  BY <1>1, <1>3 DEF SetBlocker, World
<1>5. x.blocker[t] = b
  BY <1>1, <1>4, WorldFields
<1> HIDE DEF x
<1>6. WaitAtResourceWaypoint(w, t, purpose) = WaitAtWaypoint(x, t)
  BY DEF WaitAtResourceWaypoint, x, b
<1>7. CASE x.loc[r] # WaitWaypointOf(r)
  <2> DEFINE y == SetStatus(x, t, "RUNNING")
  <2>1. [x.status EXCEPT ![t] = "RUNNING"] \in [Task -> TaskStatus]
    BY <1>4, WorldFields DEF TaskStatus
  <2>2. /\ y \in World /\ y.next = x.next
        /\ y.status = [x.status EXCEPT ![t] = "RUNNING"]
    BY <1>4, <2>1 DEF SetStatus, World
  <2>3. y.status[t] = "RUNNING"
    BY <1>4, <2>2, WorldFields
  <2>4. Tickable(y, t)
    BY <1>4, <2>2, <2>3 DEF Tickable
  <2> HIDE DEF y
  <2>5. Working(Drive(y, t, WaitWaypointOf(r)), t)
    BY <2>4, DriveWorks
  <2> QED
    BY <1>6, <1>7, <2>5 DEF WaitAtWaypoint, y
<1>8. CASE x.loc[r] = WaitWaypointOf(r)
  <2> DEFINE v == MarkRobotWaiting(SetStatus(x, t, "BLOCKED"), t)
  <2>1. /\ v.status = [x.status EXCEPT ![t] = "BLOCKED"]
        /\ v.next = x.next /\ v.zone = x.zone /\ v.blocker = x.blocker
    BY <1>4 DEF MarkRobotWaiting, SetStatus, World
  <2>2. v.status[t] = "BLOCKED"
    BY <1>4, <2>1, WorldFields
  <2> HIDE DEF v
  <2>3. Refused(w, v, t)
    BY <1>4, <1>5, <2>1, <2>2 DEF Refused, b
  <2> QED
    BY <1>6, <1>8, <2>3 DEF WaitAtWaypoint, v
<1> QED
  BY <1>7, <1>8

(* A task that gets the zone runs.                                         *)
LEMMA AcquireWorks ==
  ASSUME NEW w, NEW t \in Task, Tickable(w, t), NEW sg \in Stage,
         NEW v, v = AtStage(Acquire(Unblocked(w, t), t), t, sg)
  PROVE  /\ Tickable(v, t)
         /\ v.loc = w.loc /\ v.place = w.place /\ v.carrier = w.carrier
<1> DEFINE r == RobotOf(t)
           z == GrantLease(w.zone, t)
           acq == w.acquired \cup {t}
           x == Unblocked(w, t)
<1>1. w \in World /\ w.zone \in ZoneState /\ r \in Robot
  BY WorldFields, TaskFacts DEF Tickable
<1>2. BlockedByNothing \in Blocker
  BY DEF Blocker, BlockedByNothing
<1>3. [w.blocker EXCEPT ![t] = BlockedByNothing] \in [Task -> Blocker]
  BY <1>1, <1>2, WorldFields
<1>4. /\ x \in World /\ x.zone = w.zone /\ x.acquired = w.acquired /\ x.next = w.next
      /\ x.loc = w.loc /\ x.place = w.place /\ x.carrier = w.carrier
  BY <1>1, <1>3 DEF Unblocked, SetBlocker, World
<1> HIDE DEF x
<1>5. z \in ZoneState /\ acq \in SUBSET Task
  BY <1>1, WorldFields DEF GrantLease, ZoneState
<1> HIDE DEF z, acq
<1>6. v = Reshape(x, t, "RUNNING", sg, "BUSY", t, z, acq)
  BY <1>1, <1>4, WorldFields
     DEF Acquire, AssignRobot, SetStatus, AtStage, Reshape, World, z, acq, x
<1>7. /\ v \in World /\ v.next = x.next /\ v.status[t] = "RUNNING"
      /\ v.loc = x.loc /\ v.place = x.place /\ v.carrier = x.carrier
  BY <1>4, <1>5, <1>6, ReshapeFields DEF TaskStatus
<1> QED
  BY <1>4, <1>7 DEF Tickable

(* A task that has to hold the zone for its dropoff asks for it; another   *)
(* drives to its dropoff.                                                  *)
LEMMA RequestDropoffOutcome ==
  ASSUME NEW w, NEW t \in Task, Tickable(w, t), ~ IsUnloaded(w, t)
  PROVE  LET v == RequestDropoff(w, t)
         IN  /\ Working(v, t) \/ Refused(w, v, t)
             /\ DropoffOf(t) # Zone => Working(v, t)
<1>1. CASE DropoffOf(t) # Zone \/ t \in w.acquired
  <2> DEFINE v == AtStage(w, t, "MoveToDropoff")
  <2>1. SameButZone(w, v)
    BY NextChild DEF Tickable, Stage
  <2> HIDE DEF v
  <2>2. Tickable(v, t) /\ ~ IsUnloaded(v, t)
    BY <2>1, StillTickable DEF SameButZone, IsUnloaded, IsItemAt
  <2>3. Working(MoveToDropoff(v, t), t)
    BY <2>2, MoveToDropoffWorks
  <2> QED
    BY <1>1, <2>3 DEF RequestDropoff, v
<1>2. CASE ~ (DropoffOf(t) # Zone \/ t \in w.acquired) /\ Granted(w.zone, t, "dropoff")
  <2> DEFINE v == AtStage(Acquire(Unblocked(w, t), t), t, "MoveToDropoff")
  <2>1. /\ Tickable(v, t)
        /\ v.loc = w.loc /\ v.place = w.place /\ v.carrier = w.carrier
    BY AcquireWorks DEF Stage
  <2> HIDE DEF v
  <2>2. Working(MoveToDropoff(v, t), t)
    BY <2>1, MoveToDropoffWorks DEF IsUnloaded, IsItemAt
  <2> QED
    BY <1>2, <2>2 DEF RequestDropoff, v
<1>3. CASE ~ (DropoffOf(t) # Zone \/ t \in w.acquired) /\ ~ Granted(w.zone, t, "dropoff")
  <2>1. PurposeOf(t) = "dropoff"
    BY <1>3, ZoneStageFacts DEF PurposeOf
  <2>2. LET v == WaitAtResourceWaypoint(w, t, "dropoff")
        IN  Working(v, t) \/ Refused(w, v, t)
    BY <1>3, <2>1, WaitOutcome
  <2> QED
    BY <1>3, <2>2 DEF RequestDropoff
<1> QED
  BY <1>1, <1>2, <1>3

LEMMA VacatePickupOutcome ==
  ASSUME NEW w, NEW t \in Task, Tickable(w, t), ~ IsUnloaded(w, t)
  PROVE  LET v == VacatePickup(w, t)
         IN  /\ Working(v, t) \/ Refused(w, v, t)
             /\ PickupOf(t) = Zone => Working(v, t)
<1>1. CASE MustVacate(w, t, PickupOf(t))
  BY <1>1, DriveWorks DEF VacatePickup
<1>2. CASE ~ MustVacate(w, t, PickupOf(t))
  <2> DEFINE x == ReleaseResource(w, t, PickupOf(t))
             v == AtStage(x, t, "RequestDropoff")
  <2>1. SameButZone(w, x) /\ x \in World
    BY ZoneUpdates DEF Tickable, SameButZone
  <2>2. SameButZone(w, v) /\ v.zone = x.zone
    BY <2>1, NextChild, SameButZoneTransitive DEF Stage
  <2>3. PickupOf(t) # Zone => x = w
    BY DEF ReleaseResource
  <2> HIDE DEF x, v
  <2>4. Tickable(v, t) /\ ~ IsUnloaded(v, t) /\ v.next = w.next
    BY <2>2, StillTickable DEF SameButZone, IsUnloaded, IsItemAt
  <2>5. LET y == RequestDropoff(v, t)
        IN  /\ Working(y, t) \/ Refused(v, y, t)
            /\ DropoffOf(t) # Zone => Working(y, t)
    BY <2>4, RequestDropoffOutcome
  <2>6. ASSUME PickupOf(t) # Zone, Refused(v, RequestDropoff(v, t), t)
        PROVE  Refused(w, RequestDropoff(v, t), t)
    BY <2>2, <2>3, <2>4, <2>6 DEF Refused
  <2>7. VacatePickup(w, t) = RequestDropoff(v, t)
    BY <1>2 DEF VacatePickup, v, x
  <2> QED
    BY <2>5, <2>6, <2>7, ZoneStageFacts
<1> QED
  BY <1>1, <1>2

(* A downstream robot that has just loaded its package is still inside.    *)
LEMMA LoadOutcome ==
  ASSUME NEW w, NEW t \in Task, Tickable(w, t), ~ IsUnloaded(w, t)
  PROVE  LET v == Load(w, t)
         IN  /\ Working(v, t) \/ Refused(w, v, t)
             /\ ~ IsLoaded(w, t) \/ PickupOf(t) = Zone => Working(v, t)
<1>1. CASE ~ IsLoaded(w, t)
  BY <1>1, HandleWorks DEF Load
<1>2. CASE IsLoaded(w, t)
  <2> DEFINE x == UpdateAfterLoad(w, t)
             v == AtStage(x, t, "VacatePickup")
  <2>1. SameButZone(w, x) /\ x \in World
    BY ZoneUpdates DEF Tickable, SameButZone
  <2>2. SameButZone(w, v) /\ v.zone = x.zone
    BY <2>1, NextChild, SameButZoneTransitive DEF Stage
  <2>3. PickupOf(t) # Zone => x = w
    BY DEF UpdateAfterLoad
  <2> HIDE DEF x, v
  <2>4. Tickable(v, t) /\ ~ IsUnloaded(v, t) /\ v.next = w.next
    BY <2>2, StillTickable DEF SameButZone, IsUnloaded, IsItemAt
  <2>5. LET y == VacatePickup(v, t)
        IN  /\ Working(y, t) \/ Refused(v, y, t)
            /\ PickupOf(t) = Zone => Working(y, t)
    BY <2>4, VacatePickupOutcome
  <2>6. ASSUME PickupOf(t) # Zone, Refused(v, VacatePickup(v, t), t)
        PROVE  Refused(w, VacatePickup(v, t), t)
    BY <2>2, <2>3, <2>4, <2>6 DEF Refused
  <2>7. Load(w, t) = VacatePickup(v, t)
    BY <1>2 DEF Load, v, x
  <2> QED
    BY <1>2, <2>5, <2>6, <2>7
<1> QED
  BY <1>1, <1>2

LEMMA MoveToPickupWorks ==
  ASSUME NEW w, NEW t \in Task, Tickable(w, t), ~ IsUnloaded(w, t), ~ IsLoaded(w, t)
  PROVE  Working(MoveToPickup(w, t), t)
<1>1. CASE w.loc[RobotOf(t)] # PickupOf(t)
  BY <1>1, DriveWorks DEF MoveToPickup
<1>2. CASE w.loc[RobotOf(t)] = PickupOf(t)
  <2> DEFINE x == MarkOccupied(w, t, PickupOf(t))
             v == AtStage(x, t, "Load")
  <2>1. SameButZone(w, x) /\ x \in World
    BY ZoneUpdates DEF Tickable, SameButZone
  <2>2. SameButZone(w, v)
    BY <2>1, NextChild, SameButZoneTransitive DEF Stage
  <2> HIDE DEF x, v
  <2>3. Tickable(v, t) /\ ~ IsUnloaded(v, t) /\ ~ IsLoaded(v, t)
    BY <2>2, StillTickable DEF SameButZone, IsUnloaded, IsItemAt, IsLoaded
  <2>4. Working(Load(v, t), t)
    BY <2>3, LoadOutcome
  <2> QED
    BY <1>2, <2>4 DEF MoveToPickup, v, x
<1> QED
  BY <1>1, <1>2

LEMMA RequestPickupOutcome ==
  ASSUME NEW w, NEW t \in Task, Tickable(w, t), ~ IsUnloaded(w, t), ~ IsLoaded(w, t)
  PROVE  LET v == RequestPickup(w, t)
         IN  /\ Working(v, t) \/ Refused(w, v, t)
             /\ PickupOf(t) # Zone => Working(v, t)
<1>1. CASE PickupOf(t) # Zone \/ t \in w.acquired
  <2> DEFINE v == AtStage(w, t, "MoveToPickup")
  <2>1. SameButZone(w, v)
    BY NextChild DEF Tickable, Stage
  <2> HIDE DEF v
  <2>2. Tickable(v, t) /\ ~ IsUnloaded(v, t) /\ ~ IsLoaded(v, t)
    BY <2>1, StillTickable DEF SameButZone, IsUnloaded, IsItemAt, IsLoaded
  <2>3. Working(MoveToPickup(v, t), t)
    BY <2>2, MoveToPickupWorks
  <2> QED
    BY <1>1, <2>3 DEF RequestPickup, v
<1>2. CASE ~ (PickupOf(t) # Zone \/ t \in w.acquired) /\ Granted(w.zone, t, "pickup")
  <2> DEFINE v == AtStage(Acquire(Unblocked(w, t), t), t, "MoveToPickup")
  <2>1. /\ Tickable(v, t)
        /\ v.loc = w.loc /\ v.place = w.place /\ v.carrier = w.carrier
    BY AcquireWorks DEF Stage
  <2> HIDE DEF v
  <2>2. Working(MoveToPickup(v, t), t)
    BY <2>1, MoveToPickupWorks DEF IsUnloaded, IsItemAt, IsLoaded
  <2> QED
    BY <1>2, <2>2 DEF RequestPickup, v
<1>3. CASE ~ (PickupOf(t) # Zone \/ t \in w.acquired) /\ ~ Granted(w.zone, t, "pickup")
  <2>1. PurposeOf(t) = "pickup"
    BY <1>3, ZoneStageFacts DEF PurposeOf
  <2>2. LET v == WaitAtResourceWaypoint(w, t, "pickup")
        IN  Working(v, t) \/ Refused(w, v, t)
    BY <1>3, <2>1, WaitOutcome
  <2> QED
    BY <1>3, <2>2 DEF RequestPickup
<1> QED
  BY <1>1, <1>2, <1>3

-----------------------------------------------------------------------------
(* The tick of a task in work, and the start of a pending one.             *)
LEMMA TickOutcome ==
  ASSUME NEW w, NEW V, WorldInv(w, V), PackageInv(w, V), NEW t \in Task,
         w.status[t] \in {"RUNNING", "BLOCKED"}
  PROVE  Outcome(w, Tick(w, t), t)
<1>1. w \in World /\ Engaged(w, t) /\ w.stage[t] \in Stage
  BY WorldFields DEF WorldInv, TaskInv
<1>2. Tickable(w, t)
  BY <1>1 DEF Tickable, WorldInv, CommandInv, PackageInv, TaskFits
<1>3. /\ IsLoaded(w, t) <=> Position(w, ItemOf(t)) = Origin(t) + 1
      /\ IsUnloaded(w, t) <=> Position(w, ItemOf(t)) = Origin(t) + 2
      /\ StageFits(w.stage[t], Origin(t), Position(w, ItemOf(t)))
      /\ Origin(t) \in Nat /\ Position(w, ItemOf(t)) \in Nat
  BY PositionFacts DEF Origin, Position
<1>4. w.stage[t] \in {"RequestPickup", "MoveToPickup"} => ~ IsLoaded(w, t)
  BY <1>3 DEF StageFits
<1>5. w.stage[t] \notin {"Unload", "VacateDropoff"} => ~ IsUnloaded(w, t)
  BY <1>1, <1>3 DEF StageFits, Stage, Engaged
<1>6. CASE w.stage[t] = "RequestPickup"
  BY <1>2, <1>4, <1>5, <1>6, RequestPickupOutcome DEF Tick, Outcome
<1>7. CASE w.stage[t] = "MoveToPickup"
  BY <1>2, <1>4, <1>5, <1>7, MoveToPickupWorks DEF Tick, Outcome
<1>8. CASE w.stage[t] = "Load"
  BY <1>2, <1>5, <1>8, LoadOutcome DEF Tick, Outcome
<1>9. CASE w.stage[t] = "VacatePickup"
  BY <1>2, <1>5, <1>9, VacatePickupOutcome DEF Tick, Outcome
<1>10. CASE w.stage[t] = "RequestDropoff"
  BY <1>2, <1>5, <1>10, RequestDropoffOutcome DEF Tick, Outcome
<1>11. CASE w.stage[t] = "MoveToDropoff"
  BY <1>2, <1>5, <1>11, MoveToDropoffWorks DEF Tick, Outcome
<1>12. CASE w.stage[t] = "Unload"
  <2>1. w.loc[RobotOf(t)] = DropoffOf(t)
    BY <1>12 DEF PackageInv, TaskFits
  <2> QED
    BY <1>2, <1>12, <2>1, UnloadOutcome DEF Tick, Outcome
<1>13. CASE w.stage[t] = "VacateDropoff"
  BY <1>2, <1>13, VacateDropoffOutcome DEF Tick, Outcome
<1> QED
  BY <1>1, <1>6, <1>7, <1>8, <1>9, <1>10, <1>11, <1>12, <1>13 DEF Stage, Engaged

LEMMA StartOutcome ==
  ASSUME NEW w, NEW V, WorldInv(w, V), PackageInv(w, V), NEW t \in Task,
         w.status[t] = "PENDING", w.duty[RobotOf(t)] = "IDLE"
  PROVE  LET v == Start(w, t)
         IN  /\ Working(v, t) \/ Refused(w, v, t)
             /\ PickupOf(t) # Zone => Working(v, t)
<1>1. w \in World /\ w.stage[t] = "ClaimRobot" /\ w.claim[RobotOf(t)] # t
  BY TaskFacts DEF WorldInv, TaskInv, Engaged
<1> DEFINE s == SetStatus(w, t, "RUNNING")
           v == AtStage(AssignRobot(s, t), t, "RequestPickup")
<1>2. /\ s.stage = w.stage /\ s.claim = w.claim /\ s.duty = w.duty
      /\ SetStatus(s, t, "RUNNING") = s
  BY <1>1, WorldFields DEF SetStatus, World
<1>3. w.zone \in ZoneState /\ w.acquired \in SUBSET Task
  BY <1>1, WorldFields
<1>4. v = Reshape(w, t, "RUNNING", "RequestPickup", "BUSY", t, w.zone, w.acquired)
  BY <1>1 DEF SetStatus, AssignRobot, AtStage, Reshape, World
<1> HIDE DEF s
<1>5. Tick(s, t) = RequestPickup(v, t)
  BY <1>1, <1>2 DEF Tick, ClaimRobot
<1> HIDE DEF v
<1>6. /\ v \in World /\ v.next = w.next /\ v.zone = w.zone /\ v.status[t] = "RUNNING"
      /\ v.loc = w.loc /\ v.place = w.place /\ v.carrier = w.carrier
  <2>1. /\ "RUNNING" \in TaskStatus /\ "RequestPickup" \in Stage
        /\ "BUSY" \in {"IDLE", "BUSY", "WAITING"} /\ t \in {t, NoTask}
    BY DEF TaskStatus, Stage
  <2> QED
    BY <1>1, <1>3, <1>4, <2>1, ReshapeFields
<1>7. Tickable(v, t)
  BY <1>6 DEF Tickable, WorldInv, CommandInv
<1>8. ~ IsUnloaded(v, t) /\ ~ IsLoaded(v, t)
  <2>1. ~ IsUnloaded(w, t) /\ ~ IsLoaded(w, t)
    BY <1>1, PositionFacts DEF StageFits, Origin, Position
  <2> QED
    BY <1>6, <2>1 DEF IsUnloaded, IsItemAt, IsLoaded
<1>9. LET x == RequestPickup(v, t)
      IN  /\ Working(x, t) \/ Refused(v, x, t)
          /\ PickupOf(t) # Zone => Working(x, t)
  BY <1>7, <1>8, RequestPickupOutcome
<1>10. Refused(v, RequestPickup(v, t), t) => Refused(w, RequestPickup(v, t), t)
  BY <1>6 DEF Refused
<1> QED
  BY <1>5, <1>9, <1>10 DEF Start, s

-----------------------------------------------------------------------------
(* The order in which the packages are brought and fetched, step by step.  *)

LEMMA SortKeyInjective ==
  ASSUME NEW p \in Item, NEW q \in Item, SortKey(p) = SortKey(q)
  PROVE  p = q
<1>1. p \in 1 .. 99 /\ q \in 1 .. 99
  BY PackagesAssumption DEF Item
<1> QED
  BY <1>1 DEF SortKey

(* A task whose robot is free is over or has not begun.                    *)
LEMMA FreeTasks ==
  ASSUME NEW w, NEW V, WorldInv(w, V), PackageInv(w, V), NothingGivenUp(w),
         NEW t \in Task, w.claim[RobotOf(t)] = NoTask
  PROVE  \/ w.stage[t] = "Done" /\ w.status[t] = "SUCCEEDED"
         \/ w.stage[t] = "ClaimRobot" /\ w.status[t] = "PENDING"
<1>1. ~ Engaged(w, t)
  BY TaskFacts DEF WorldInv, TaskInv
<1>2. w.status[t] \in TaskStatus
  BY WorldFields DEF WorldInv
<1> QED
  BY <1>1, <1>2 DEF WorldInv, TaskInv, NothingGivenUp, PackageInv, TaskFits, Engaged, TaskStatus

LEMMA IdleIsFree ==
  ASSUME NEW w, NEW V, WorldInv(w, V), NEW r \in Robot, w.duty[r] = "IDLE"
  PROVE  w.claim[r] = NoTask
BY DEF WorldInv, TaskInv

(* Nobody holds the zone, and so nobody is marked inside, unless a task    *)
(* stands in its zone stages.                                              *)
LEMMA ZoneIsFree ==
  ASSUME NEW w, NEW V, WorldInv(w, V),
         \A t \in Task : w.stage[t] \notin ZoneStages(t)
  PROVE  w.zone.lease = NoTask /\ w.zone.occ = {}
<1>1. w.zone.lease \in Task \cup {NoTask} /\ w.zone.occ \in SUBSET Robot
  BY WorldFields DEF WorldInv, ZoneState
<1>2. w.zone.lease = NoTask
  BY <1>1 DEF WorldInv, ZoneInv
<1>3. w.zone.occ = {}
  BY <1>1, <1>2 DEF WorldInv, ZoneInv, HoldsLease
<1> QED
  BY <1>2, <1>3

(* A package at the source can be fetched by an upstream robot that is     *)
(* free.                                                                   *)
LEMMA InboundIsReady ==
  ASSUME NEW w, NEW V, WorldInv(w, V), PackageInv(w, V), NEW t \in Task,
         LegOf(t) = Inbound, w.status[t] = "PENDING", IsRobotAvailable(w, RobotOf(t))
  PROVE  IsReady(w, t)
<1>1. PickupOf(t) # Zone /\ Origin(t) = 0
  BY TaskFacts DEF Origin, Inbound, Outbound, Zone
<1>2. w.stage[t] = "ClaimRobot" /\ Position(w, ItemOf(t)) \in 0 .. 4
  BY DEF WorldInv, TaskInv, Position
<1>3. IsItemAt(w, ItemOf(t), PickupOf(t))
  BY <1>1, <1>2, PositionFacts DEF StageFits
<1> QED
  BY <1>1, <1>3 DEF IsReady, ManagedPickupAvailable

(* A package in the zone can be fetched by a downstream robot that is free *)
(* while nobody holds the zone.                                            *)
LEMMA OutboundIsReady ==
  ASSUME NEW w, NEW V, WorldInv(w, V), PackageInv(w, V), NEW p \in w.zone.buf,
         w.status[<<p, Outbound>>] = "PENDING", IsRobotAvailable(w, DownstreamRobot),
         w.zone.lease = NoTask, w.zone.occ = {}
  PROVE  IsReady(w, <<p, Outbound>>)
<1> DEFINE t == <<p, Outbound>>
<1>1. p \in Item
  BY WorldFields DEF WorldInv, ZoneState
<1>2. t \in Task /\ ItemOf(t) = p /\ PickupOf(t) = Zone /\ LegOf(t) = Outbound
  BY <1>1, LegFacts
<1>3. RobotOf(t) = DownstreamRobot
  BY <1>2, TaskFacts DEF Inbound, Outbound
<1>4. w.stage[t] = "ClaimRobot"
  BY <1>2 DEF WorldInv, TaskInv
<1>5. IsItemAt(w, p, Zone)
  BY <1>1, <1>4, LyingFacts
<1> HIDE DEF t
<1> QED
  BY <1>2, <1>3, <1>5 DEF IsReady, ManagedPickupAvailable, RobotSlotAvailable, t

(* A robot that waits for a package in the zone has no other to look for   *)
(* there.                                                                  *)
LEMMA OnlyOneToFetch ==
  ASSUME NEW w, NEW V, WorldInv(w, V), PackageInv(w, V), NEW p \in Item,
         Engaged(w, <<p, Outbound>>), Position(w, p) = 2
  PROVE  w.zone.buf \subseteq {p}
<1>1. SUFFICES ASSUME NEW b \in w.zone.buf PROVE b = p
  OBVIOUS
<1>2. b \in Item
  BY WorldFields DEF WorldInv, ZoneState
<1>3. p \in LyingInZone(w)
  BY LyingFacts DEF LyingInZone
<1>4. CASE IsItemAt(w, b, Zone)
  BY <1>2, <1>3, <1>4, LyingAlone DEF LyingInZone
<1>5. CASE ~ IsItemAt(w, b, Zone)
  <2>1. w.stage[<<b, Outbound>>] = "Load"
    BY <1>2, <1>5, LyingFacts
  <2>2. /\ <<b, Outbound>> \in Task /\ <<p, Outbound>> \in Task
        /\ RobotOf(<<b, Outbound>>) = RobotOf(<<p, Outbound>>)
    BY <1>2, LegFacts DEF RobotOf
  <2>3. Engaged(w, <<b, Outbound>>)
    BY <2>1 DEF Engaged
  <2>4. <<b, Outbound>> = <<p, Outbound>>
    BY <2>2, <2>3, EngagedAlone DEF WorldInv
  <2> QED
    BY <2>4
<1> QED
  BY <1>4, <1>5

(* A package between source and zone is in the hands of its first task,    *)
(* the only one the upstream robot has.                                    *)
LEMMA BeingBrought ==
  ASSUME NEW w, NEW V, WorldInv(w, V), PackageInv(w, V), NEW p \in Item, Position(w, p) = 1
  PROVE  /\ Engaged(w, <<p, Inbound>>)
         /\ \A b \in Item : Engaged(w, <<b, Inbound>>) => b = p
<1>1. w.carrier[p] = UpstreamRobot
  BY DEF Position
<1>2. PICK t \in Task : /\ ItemOf(t) = p /\ RobotOf(t) = w.carrier[p]
                        /\ w.stage[t] \in CarryingStages /\ w.claim[RobotOf(t)] = t
  BY <1>1, CarriedFacts DEF UpstreamRobot, NoRobot
<1>3. LegOf(t) = Inbound
  BY <1>1, <1>2, TaskFacts DEF UpstreamRobot, DownstreamRobot
<1>4. t = <<p, Inbound>> /\ Engaged(w, t)
  BY <1>2, <1>3, LegIdentity DEF Engaged, CarryingStages
<1>5. ASSUME NEW b \in Item, Engaged(w, <<b, Inbound>>) PROVE b = p
  <2>1. <<b, Inbound>> \in Task /\ RobotOf(<<b, Inbound>>) = RobotOf(<<p, Inbound>>)
    BY <1>5, LegFacts DEF RobotOf
  <2>2. <<b, Inbound>> = <<p, Inbound>>
    BY <1>4, <1>5, <2>1, EngagedAlone DEF WorldInv
  <2> QED
    BY <2>2
<1> QED
  BY <1>4, <1>5

(* What the steps of a task add to the buffer, if not its own package,     *)
(* cannot come between the zone and a package that is just being brought.  *)
LEMMA BufferStaysClear ==
  ASSUME NEW w, NEW v, NEW V, WorldInv(w, V), PackageInv(w, V),
         WorldInv(v, V), PackageInv(v, V), NEW t \in Task, TaskStep(w, v, t),
         Engaged(w, t) \/ Engaged(v, t),
         NEW p \in Item, Position(w, p) = 1, t # <<p, Outbound>>,
         Engaged(w, <<p, Outbound>>), w.zone.buf \subseteq {p}
  PROVE  v.zone.buf \subseteq {p}
<1>1. SUFFICES ASSUME NEW b \in v.zone.buf, b # p PROVE FALSE
  OBVIOUS
<1>2. b \in Item
  BY WorldFields DEF WorldInv, ZoneState
<1>3. Position(v, p) = 1
  BY DEF TaskStep, Position
<1>4. IsBuffered(v, b) /\ ~ IsBuffered(w, b)
  BY <1>1, <1>2 DEF PackageInv, BufferFits
<1>5. /\ <<b, Inbound>> \in Task /\ <<b, Outbound>> \in Task /\ <<p, Outbound>> \in Task
      /\ RobotOf(<<b, Outbound>>) = RobotOf(<<p, Outbound>>)
  BY <1>2, LegFacts DEF RobotOf
<1>6. t = <<b, Inbound>> \/ t = <<b, Outbound>>
  BY <1>4, <1>5 DEF TaskStep, IsBuffered
<1>7. ~ Engaged(w, <<b, Inbound>>) /\ ~ Engaged(v, <<b, Inbound>>)
  BY <1>1, <1>2, <1>3, BeingBrought
<1>8. t = <<b, Outbound>>
  BY <1>6, <1>7
<1>9. Engaged(v, <<p, Outbound>>)
  BY <1>5 DEF TaskStep, Engaged
<1>10. <<b, Outbound>> = <<p, Outbound>>
  BY <1>5, <1>8, <1>9, EngagedAlone DEF WorldInv
<1> QED
  BY <1>1, <1>10

(* Of the four parts of OrderInv the first two are kept by every step of   *)
(* a task that has an outcome.                                             *)
LEMMA OutcomeKeepsOthers ==
  ASSUME NEW w, NEW v, NEW V, WorldInv(w, V), PackageInv(w, V),
         WorldInv(v, V), PackageInv(v, V), NEW t \in Task, TaskStep(w, v, t),
         Outcome(w, v, t), NothingGivenUp(w), UnclaimedIsIdle(w)
  PROVE  NothingGivenUp(v) /\ UnclaimedIsIdle(v)
<1>1. v.status[t] \in {"RUNNING", "BLOCKED", "SUCCEEDED"}
  BY DEF Outcome, Working, Refused, Delivered
<1>2. NothingGivenUp(v)
  BY <1>1 DEF NothingGivenUp, TaskStep
<1>3. ASSUME NEW r \in Robot, v.claim[r] = NoTask PROVE v.duty[r] = "IDLE"
  <2>1. CASE r = RobotOf(t)
    <3>1. ~ Engaged(v, t)
      BY <1>3, <2>1, TaskFacts DEF WorldInv, TaskInv
    <3>2. v.status[t] = "SUCCEEDED"
      BY <1>1, <3>1 DEF WorldInv, TaskInv
    <3> QED
      BY <2>1, <3>2 DEF Outcome, Working, Refused, Delivered
  <2>2. CASE r # RobotOf(t)
    <3>1. w.claim[r] = NoTask
      <4>1. SUFFICES ASSUME w.claim[r] # NoTask PROVE FALSE
        OBVIOUS
      <4>2. PICK u \in Task : w.claim[r] = u /\ RobotOf(u) = r
        BY <4>1, WorldFields DEF WorldInv, TaskInv
      <4>3. Engaged(w, u) /\ u # t
        BY <2>2, <4>2 DEF WorldInv, TaskInv
      <4>4. Engaged(v, u)
        BY <4>3 DEF TaskStep, Engaged
      <4> QED
        BY <1>3, <4>2, <4>4, TaskFacts DEF WorldInv, TaskInv
    <3>2. w.duty[r] = "IDLE"
      BY <3>1 DEF UnclaimedIsIdle
    <3> QED
      BY <2>2, <3>2 DEF TaskStep, OtherDutiesKept
  <2> QED
    BY <2>1, <2>2
<1> QED
  BY <1>2, <1>3 DEF UnclaimedIsIdle

(* A task that is refused the zone as it is shows the check that failed.   *)
Denied(w, t) ==
  /\ w.status[t] = "BLOCKED"
  /\ ~ Granted(w.zone, t, PurposeOf(t))
  /\ w.blocker[t] = Denial(w.zone, t, PurposeOf(t))

LEMMA RefusedIsDenied ==
  ASSUME NEW w, NEW v, NEW t, Refused(w, v, t)
  PROVE  Denied(v, t)
BY DEF Refused, Denied

LEMMA DeniedReason ==
  ASSUME NEW w, NEW V, WorldInv(w, V), PackageInv(w, V), NEW t \in Task, Denied(w, t)
  PROVE  LET b == w.blocker[t]
         IN  \/ /\ b.reason = "WAITING_FOR_TRANSFER_LEASE"
                /\ b.robot \in Robot /\ w.claim[b.robot] # NoTask
             \/ /\ b.reason = "PACKAGE_NOT_AVAILABLE" /\ LegOf(t) = Outbound
                /\ b.item = ItemOf(t) /\ ItemOf(t) \notin w.zone.buf
             \/ /\ b.reason = "TRANSFER_PACKAGE_FULL" /\ LegOf(t) = Inbound
                /\ b.item \in w.zone.buf
<1> DEFINE z == w.zone
           d == Denial(z, t, PurposeOf(t))
<1>1. /\ z.lease \in Task \cup {NoTask} /\ z.occ \in SUBSET Robot
      /\ z.buf \in SUBSET Item
  BY WorldFields DEF WorldInv, ZoneState
<1>2. w.stage[t] = RequestStage(t)
  BY DEF PackageInv, TaskFits, Denied
<1>3. BlocksTask(t, d)
  BY <1>2, DenialBlocks DEF Denied, PurposeOf
<1>4. CASE LeasedToOther(z, RobotOf(t))
  <2>1. z.lease \in Task
    BY <1>1, <1>4 DEF LeasedToOther
  <2>2. d.reason = "WAITING_FOR_TRANSFER_LEASE" /\ d.robot = RobotOf(z.lease)
    BY <1>4 DEF Denial, BlockedByRobot
  <2>3. Engaged(w, z.lease)
    BY <2>1 DEF WorldInv, ZoneInv, ZoneStages, Engaged
  <2>4. RobotOf(z.lease) \in Robot /\ w.claim[RobotOf(z.lease)] # NoTask
    BY <2>1, <2>3, TaskFacts DEF WorldInv, TaskInv
  <2> QED
    BY <2>2, <2>4 DEF Denied
<1>5. CASE ~ LeasedToOther(z, RobotOf(t)) /\ ~ RobotSlotAvailable(z)
  <2>1. d.reason = "TRANSFER_ROBOT_OCCUPIED"
    BY <1>5 DEF Denial, BlockedByRobot
  <2> QED
    BY <1>3, <2>1 DEF BlocksTask
<1>6. CASE ~ LeasedToOther(z, RobotOf(t)) /\ RobotSlotAvailable(z)
  <2>1. CASE LegOf(t) = Inbound
    <3>1. z.buf # {}
      BY <1>6, <2>1 DEF Denied, Granted, PurposeOf, PackageSlotAvailable
    <3>2. d.reason = "TRANSFER_PACKAGE_FULL" /\ d.item = CHOOSE p \in z.buf : TRUE
      BY <1>6, <2>1 DEF Denial, BlockedByItem, PurposeOf
    <3> QED
      BY <2>1, <3>1, <3>2 DEF Denied
  <2>2. CASE LegOf(t) # Inbound
    <3>1. LegOf(t) = Outbound
      BY <2>2, TaskFacts
    <3>2. ItemOf(t) \notin z.buf
      BY <1>6, <2>2 DEF Denied, Granted, PurposeOf
    <3>3. d.reason = "PACKAGE_NOT_AVAILABLE" /\ d.item = ItemOf(t)
      BY <1>6, <2>2 DEF Denial, BlockedByItem, PurposeOf
    <3> QED
      BY <3>1, <3>2, <3>3 DEF Denied
  <2> QED
    BY <2>1, <2>2
<1> QED
  BY <1>4, <1>5, <1>6

(* The package that fills the zone is the one brought before.              *)
LEMMA FilledByPredecessor ==
  ASSUME NEW w, NEW V, WorldInv(w, V), PackageInv(w, V),
         BroughtInOrder(w), FetchedInOrder(w),
         NEW p \in Item, w.stage[<<p, Inbound>>] = "RequestDropoff", NEW b \in w.zone.buf
  PROVE  IsPredecessor(b, p)
<1>1. b \in Item /\ \A q \in Item : SortKey(q) \in Nat
  BY WorldFields, PackagesAssumption DEF WorldInv, ZoneState, Item, SortKey
<1>2. IsBuffered(w, b) /\ \A q \in w.zone.buf : q = b
  BY <1>1 DEF PackageInv, BufferFits
<1>3. b # p
  BY <1>2 DEF IsBuffered, BroughtStages
<1>4. w.stage[<<b, Inbound>>] # "ClaimRobot" /\ w.stage[<<b, Outbound>>] # "Done"
  BY <1>2 DEF IsBuffered, BroughtStages, UnfetchedStages
<1>5. SortKey(b) < SortKey(p)
  <2>1. ~ (SortKey(p) < SortKey(b))
    BY <1>1, <1>4 DEF BroughtInOrder
  <2>2. SortKey(p) # SortKey(b)
    BY <1>1, <1>3, SortKeyInjective
  <2> QED
    BY <1>1, <2>1, <2>2
<1>6. ASSUME NEW i \in Item, SortKey(i) < SortKey(p), SortKey(b) < SortKey(i) PROVE FALSE
  <2>1. w.stage[<<i, Inbound>>] = "Done"
    BY <1>6 DEF BroughtInOrder
  <2>2. w.stage[<<i, Outbound>>] = "ClaimRobot"
    BY <1>1, <1>4, <1>6 DEF FetchedInOrder
  <2>3. i \in w.zone.buf
    BY <2>1, <2>2 DEF PackageInv, BufferFits, IsBuffered, BroughtStages, UnfetchedStages
  <2>4. i = b
    BY <1>2, <2>3
  <2> QED
    BY <1>1, <1>6, <2>4
<1>7. \A i \in Item : SortKey(i) < SortKey(p) => SortKey(i) <= SortKey(b)
  BY <1>1, <1>6
<1> QED
  BY <1>1, <1>5, <1>7 DEF IsPredecessor

LEMMA DeniedNames ==
  ASSUME NEW w, NEW V, WorldInv(w, V), PackageInv(w, V),
         BroughtInOrder(w), FetchedInOrder(w), NEW t \in Task, Denied(w, t)
  PROVE  NamesObstacle(w.blocker[t], t)
<1>1. ASSUME w.blocker[t].reason = "TRANSFER_PACKAGE_FULL"
      PROVE  IsPredecessor(w.blocker[t].item, ItemOf(t))
  <2>1. LegOf(t) = Inbound /\ w.blocker[t].item \in w.zone.buf
    BY <1>1, DeniedReason
  <2>2. ItemOf(t) \in Item /\ t = <<ItemOf(t), Inbound>>
    BY <2>1, TaskFacts, LegIdentity
  <2>3. w.stage[t] = "RequestDropoff"
    BY <2>1 DEF PackageInv, TaskFits, Denied, RequestStage
  <2> QED
    BY <2>1, <2>2, <2>3, FilledByPredecessor
<1>2. /\ w.blocker[t].reason = "PACKAGE_NOT_AVAILABLE" => w.blocker[t].item = ItemOf(t)
      /\ w.blocker[t].reason = "WAITING_FOR_TRANSFER_LEASE" => w.blocker[t].robot \in Robot
  BY DeniedReason
<1> QED
  BY <1>1, <1>2 DEF NamesObstacle

(* A step of a task that has an outcome leaves only obstacles that exist.   *)
LEMMA OutcomeNames ==
  ASSUME NEW w, NEW v, NEW V, WorldInv(v, V), PackageInv(v, V),
         NEW t \in Task, TaskStep(w, v, t), Outcome(w, v, t),
         ObstaclesAreNamed(w), BroughtInOrder(v), FetchedInOrder(v)
  PROVE  ObstaclesAreNamed(v)
<1> SUFFICES ASSUME NEW u \in Task, v.status[u] = "BLOCKED"
             PROVE  NamesObstacle(v.blocker[u], u)
  BY DEF ObstaclesAreNamed
<1>1. CASE u = t
  <2>1. Denied(v, t)
    BY <1>1, RefusedIsDenied DEF Outcome, Working, Delivered
  <2> QED
    BY <1>1, <2>1, DeniedNames
<1>2. CASE u # t
  BY <1>2 DEF TaskStep, ObstaclesAreNamed
<1> QED
  BY <1>1, <1>2

(* The tick of a task in work.                                             *)
LEMMA TickOrder ==
  ASSUME NEW w, NEW V, WorldInv(w, V), PackageInv(w, V), OrderInv(w),
         NEW t \in Task, w.status[t] \in {"RUNNING", "BLOCKED"}, NEW v, v = Tick(w, t)
  PROVE  /\ WorldInv(v, V) /\ PackageInv(v, V) /\ TaskStep(w, v, t)
         /\ Outcome(w, v, t) /\ OrderInv(v)
<1>1. Engaged(w, t) /\ AtWork(w, t)
  BY DEF WorldInv, TaskInv, PackageInv, BlockerFits, AtWork, Engaged
<1>2. WorldInv(v, V) /\ PackageInv(v, V) /\ TaskStep(w, v, t)
  BY <1>1, TickInv, TickFits
<1>3. Outcome(w, v, t)
  BY TickOutcome
<1>4. SUFFICES ASSUME IsGoing(v)
               PROVE  /\ NothingGivenUp(v) /\ UnclaimedIsIdle(v)
                      /\ BroughtInOrder(v) /\ SentForTheNext(v)
                      /\ FetchedInOrder(v) /\ ObstaclesAreNamed(v)
  BY <1>2, <1>3 DEF OrderInv
<1>5. /\ NothingGivenUp(w) /\ UnclaimedIsIdle(w)
      /\ BroughtInOrder(w) /\ SentForTheNext(w)
      /\ FetchedInOrder(w) /\ ObstaclesAreNamed(w)
  BY <1>2, <1>4 DEF TaskStep, IsGoing, OrderInv
<1>6. NothingGivenUp(v) /\ UnclaimedIsIdle(v)
  BY <1>2, <1>3, <1>5, OutcomeKeepsOthers
<1>7. BroughtInOrder(v)
  <2>1. SUFFICES ASSUME NEW p \in Item, NEW q \in Item, SortKey(p) < SortKey(q),
                        v.stage[<<q, Inbound>>] # "ClaimRobot"
                 PROVE  v.stage[<<p, Inbound>>] = "Done"
    BY DEF BroughtInOrder
  <2>2. w.stage[<<q, Inbound>>] # "ClaimRobot"
    BY <1>1, <1>2, <2>1, LegFacts DEF TaskStep, Engaged
  <2>3. w.stage[<<p, Inbound>>] = "Done"
    BY <1>5, <2>1, <2>2 DEF BroughtInOrder
  <2> QED
    BY <1>1, <1>2, <2>3, LegFacts DEF TaskStep, Engaged
<1>8. SentForTheNext(v)
  <2>1. SUFFICES ASSUME NEW p \in Item, v.stage[<<p, Outbound>>] = "RequestPickup"
                 PROVE  Position(v, p) >= 1 /\ v.zone.buf \subseteq {p}
    BY DEF SentForTheNext
  <2> DEFINE u == <<p, Outbound>>
  <2>2. u \in Task /\ ItemOf(u) = p /\ Origin(u) = 2 /\ Engaged(v, u)
    BY <2>1, LegFacts DEF Engaged
  <2>3. Position(v, p) = Position(w, p) /\ Position(w, p) \in 0 .. 4
    BY <1>2 DEF TaskStep, Position
  <2>4. /\ StageFits(w.stage[u], 2, Position(w, p)) /\ StageFits(v.stage[u], 2, Position(v, p))
        /\ Engaged(w, u) /\ w.stage[u] \in Stage
    <3>1. Engaged(w, u)
      BY <1>1, <1>2, <2>2 DEF TaskStep, Engaged
    <3> QED
      BY <1>2, <2>2, <3>1, PositionFacts, WorldFields DEF WorldInv
  <2> HIDE DEF u
  <2>5. CASE Position(w, p) = 2
    BY <1>2, <2>2, <2>3, <2>5, OnlyOneToFetch DEF u
  <2>6. CASE Position(w, p) # 2
    <3>1. Position(w, p) <= 2
      BY <2>1, <2>3, <2>4 DEF StageFits, u
    <3>2. w.stage[u] = "RequestPickup"
      BY <2>3, <2>4, <2>6, <3>1 DEF StageFits, Stage, Engaged
    <3>3. Position(w, p) >= 1 /\ w.zone.buf \subseteq {p}
      BY <1>5, <3>2 DEF SentForTheNext, u
    <3>4. Position(w, p) = 1
      BY <2>3, <2>6, <3>1, <3>3
    <3>5. v.zone.buf \subseteq {p}
      <4>1. CASE t # u
        BY <1>1, <1>2, <2>4, <3>3, <3>4, <4>1, BufferStaysClear DEF u
      <4>2. CASE t = u
        <5>1. SUFFICES ASSUME NEW b \in v.zone.buf, b # p PROVE FALSE
          OBVIOUS
        <5>2. b \in Item
          BY <1>2, WorldFields DEF WorldInv, ZoneState
        <5>3. <<b, Inbound>> \in Task \ {t} /\ <<b, Outbound>> \in Task \ {t}
          BY <4>2, <5>1, <5>2, LegFacts DEF u
        <5>4. IsBuffered(w, b)
          BY <1>2, <5>1, <5>2, <5>3 DEF TaskStep, IsBuffered, PackageInv, BufferFits
        <5> QED
          BY <3>3, <5>1, <5>2, <5>4 DEF PackageInv, BufferFits
      <4> QED
        BY <4>1, <4>2
    <3> QED
      BY <2>3, <3>3, <3>5
  <2> QED
    BY <2>5, <2>6
<1>9. FetchedInOrder(v)
  <2>1. SUFFICES ASSUME NEW p \in Item, NEW q \in Item, SortKey(p) < SortKey(q),
                        v.stage[<<q, Outbound>>] # "ClaimRobot"
                 PROVE  v.stage[<<p, Outbound>>] = "Done"
    BY DEF FetchedInOrder
  <2>2. w.stage[<<q, Outbound>>] # "ClaimRobot"
    BY <1>1, <1>2, <2>1, LegFacts DEF TaskStep, Engaged
  <2>3. w.stage[<<p, Outbound>>] = "Done"
    BY <1>5, <2>1, <2>2 DEF FetchedInOrder
  <2> QED
    BY <1>1, <1>2, <2>3, LegFacts DEF TaskStep, Engaged
<1>10. ObstaclesAreNamed(v)
  BY <1>2, <1>3, <1>5, <1>7, <1>9, OutcomeNames
<1> QED
  BY <1>6, <1>7, <1>8, <1>9, <1>10

(* The start of the first of the tasks that are ready.                     *)
LEMMA FirstIsBrought ==
  ASSUME NEW w, NEW V, WorldInv(w, V), PackageInv(w, V), NothingGivenUp(w), BroughtInOrder(w),
         NEW t \in ReadyTasks(w), \A u \in ReadyTasks(w) : SortedBefore(t, u),
         NEW p \in Item, NEW q \in Item, SortKey(p) < SortKey(q), t = <<q, Inbound>>
  PROVE  w.stage[<<p, Inbound>>] = "Done"
<1> DEFINE u == <<p, Inbound>>
<1>1. SUFFICES ASSUME w.stage[u] # "Done" PROVE FALSE
  OBVIOUS
<1>2. /\ t \in Task /\ u \in Task /\ RobotOf(t) = RobotOf(u) /\ LegOf(u) = Inbound
      /\ ItemOf(t) = q /\ ItemOf(u) = p
  BY LegFacts DEF RobotOf
<1>3. IsRobotAvailable(w, RobotOf(u)) /\ RobotOf(u) \in Robot
  BY <1>2, TaskFacts DEF ReadyTasks, IsReady
<1>4. w.claim[RobotOf(u)] = NoTask
  BY <1>3, IdleIsFree DEF IsRobotAvailable
<1>5. w.status[u] = "PENDING"
  BY <1>1, <1>2, <1>4, FreeTasks
<1>6. IsReady(w, u)
  BY <1>2, <1>3, <1>5, InboundIsReady
<1>7. SortedBefore(t, u)
  BY <1>2, <1>6 DEF ReadyTasks
<1>8. SortKey(p) \in Nat /\ SortKey(q) \in Nat
  BY PackagesAssumption DEF Item, SortKey
<1> QED
  BY <1>2, <1>7, <1>8 DEF SortedBefore

(* Another package in the zone would be fetched first.                     *)
LEMMA FirstIsFetched ==
  ASSUME NEW w, NEW V, WorldInv(w, V), PackageInv(w, V), NothingGivenUp(w), BroughtInOrder(w),
         NEW t \in ReadyTasks(w), \A u \in ReadyTasks(w) : SortedBefore(t, u),
         NEW p \in Item, t = <<p, Outbound>>, Position(w, p) = 1
  PROVE  w.zone.buf \subseteq {p}
<1>1. SUFFICES ASSUME NEW b \in w.zone.buf, b # p PROVE FALSE
  OBVIOUS
<1>2. w \in World /\ b \in Item /\ w.zone.buf # {}
  BY <1>1, WorldFields DEF WorldInv, ZoneState
<1> DEFINE u == <<b, Outbound>>
           i == <<p, Inbound>>
<1>3. /\ t \in Task /\ u \in Task /\ ItemOf(t) = p /\ ItemOf(u) = b /\ RobotOf(t) = RobotOf(u)
      /\ LegOf(u) = Outbound /\ LegOf(t) = Outbound /\ i \in Task /\ LegOf(i) = Inbound
      /\ ItemOf(i) = p /\ Origin(i) = 0
  BY <1>2, LegFacts DEF RobotOf
<1>4. IsRobotAvailable(w, RobotOf(u)) /\ RobotOf(u) \in Robot /\ RobotOf(u) = DownstreamRobot
  BY <1>3, TaskFacts DEF ReadyTasks, IsReady, Inbound, Outbound
<1>5. w.claim[RobotOf(u)] = NoTask
  BY <1>4, IdleIsFree DEF IsRobotAvailable
<1>6. IsBuffered(w, b)
  BY <1>2, <1>1 DEF PackageInv, BufferFits
<1>7. w.status[u] = "PENDING"
  BY <1>3, <1>5, <1>6, FreeTasks DEF IsBuffered, UnfetchedStages
<1>8. /\ Engaged(w, i) /\ w.stage[i] # "Done"
      /\ \A x \in Item : Engaged(w, <<x, Inbound>>) => x = p
  BY BeingBrought DEF Engaged
<1>9. w.stage[<<b, Inbound>>] = "Done"
  BY <1>1, <1>2, <1>6, <1>8 DEF IsBuffered, BroughtStages, Engaged
<1>10. \A x \in Task : w.stage[x] \notin ZoneStages(x)
  <2>1. SUFFICES ASSUME NEW x \in Task, w.stage[x] \in ZoneStages(x) PROVE FALSE
    OBVIOUS
  <2>2. Engaged(w, x)
    BY <2>1 DEF ZoneStages, Engaged
  <2>3. RobotOf(x) # DownstreamRobot
    BY <1>4, <1>5, <2>2, TaskFacts DEF WorldInv, TaskInv
  <2>4. LegOf(x) = Inbound /\ DropoffOf(x) = Zone
    BY <2>3, TaskFacts
  <2>5. x = i
    BY <1>8, <2>2, <2>4, LegIdentity, TaskFacts
  <2>6. w.stage[i] = "VacateDropoff"
    <3>1. w.stage[i] \notin {"MoveToDropoff", "Unload"}
      BY <1>2, <1>3, <2>4, <2>5, ZoneStageFacts DEF PackageInv, BufferFits
    <3> QED
      BY <2>1, <2>4, <2>5, <3>1, ZoneStageFacts
  <2>7. StageFits(w.stage[i], 0, Position(w, p))
    BY <1>3, PositionFacts
  <2> QED
    BY <2>6, <2>7 DEF StageFits
<1>11. w.zone.lease = NoTask /\ w.zone.occ = {}
  BY <1>10, ZoneIsFree
<1>12. IsReady(w, u)
  BY <1>4, <1>7, <1>11, OutboundIsReady
<1>13. SortedBefore(t, u)
  BY <1>3, <1>12 DEF ReadyTasks
<1>14. SortKey(p) < SortKey(b)
  BY <1>1, <1>2, <1>3, <1>13, SortKeyInjective DEF SortedBefore
<1> QED
  BY <1>2, <1>8, <1>9, <1>14 DEF BroughtInOrder

(* An earlier package that was brought is not left in the zone.            *)
LEMMA FirstIsFetchedInOrder ==
  ASSUME NEW w, NEW V, WorldInv(w, V), PackageInv(w, V), NothingGivenUp(w), BroughtInOrder(w),
         NEW t \in ReadyTasks(w), \A u \in ReadyTasks(w) : SortedBefore(t, u),
         NEW v, WorldInv(v, V), PackageInv(v, V), TaskStep(w, v, t), Engaged(v, t),
         NEW p \in Item, NEW q \in Item, SortKey(p) < SortKey(q), t = <<q, Outbound>>
  PROVE  w.stage[<<p, Outbound>>] = "Done"
<1> DEFINE u == <<p, Outbound>>
<1>1. /\ t \in Task /\ u \in Task /\ RobotOf(t) = RobotOf(u) /\ ItemOf(t) = q
      /\ PickupOf(t) = Zone /\ Origin(t) = 2 /\ <<p, Inbound>> # t
  BY LegFacts DEF RobotOf, Inbound, Outbound
<1>2. p # q
  <2>1. SortKey(p) \in Nat
    BY PackagesAssumption DEF Item, SortKey
  <2> QED
    BY <2>1
<1>3. w.claim[RobotOf(u)] = NoTask /\ IsReady(w, t) /\ w.stage[t] = "ClaimRobot"
  <2>1. IsReady(w, t) /\ RobotOf(u) \in Robot
    BY <1>1, TaskFacts DEF ReadyTasks
  <2>2. w.duty[RobotOf(u)] = "IDLE" /\ w.status[t] = "PENDING"
    BY <1>1, <2>1 DEF IsReady, IsRobotAvailable
  <2> QED
    BY <1>1, <2>1, <2>2, IdleIsFree DEF WorldInv, TaskInv
<1>4. SUFFICES ASSUME w.stage[u] = "ClaimRobot" PROVE FALSE
  BY <1>1, <1>3, FreeTasks
<1>5. Position(w, q) \in {1, 2}
  <2>1. StageFits("ClaimRobot", 2, Position(w, q)) /\ Position(w, q) \in 0 .. 4
    BY <1>1, <1>3, PositionFacts DEF Position
  <2>2. CASE IsItemAt(w, q, Zone)
    BY <2>2, LyingFacts
  <2>3. CASE ~ IsItemAt(w, q, Zone)
    <3>1. w.carrier[q] # NoRobot
      BY <1>1, <1>3, <2>3 DEF IsReady, CanWaitForPickup
    <3>2. w.carrier[q] \in {UpstreamRobot, DownstreamRobot}
      BY <3>1, WorldFields DEF WorldInv, Robot
    <3> QED
      BY <2>1, <3>2 DEF Position, StageFits
  <2> QED
    BY <2>2, <2>3
<1>6. IsBuffered(w, p)
  <2>1. w.stage[<<q, Inbound>>] # "ClaimRobot"
    <3>1. /\ <<q, Inbound>> \in Task /\ ItemOf(<<q, Inbound>>) = q
          /\ Origin(<<q, Inbound>>) = 0
      BY LegFacts
    <3> QED
      BY <1>5, <3>1, PositionFacts DEF StageFits
  <2> QED
    BY <1>4, <2>1 DEF BroughtInOrder, IsBuffered, BroughtStages, UnfetchedStages
<1>7. p \in w.zone.buf
  BY <1>6 DEF PackageInv, BufferFits
<1>8. CASE Position(w, q) = 1
  BY <1>2, <1>7, <1>8, FirstIsFetched
<1>9. CASE Position(w, q) = 2
  <2>1. IsBuffered(v, p)
    <3>1. u # t /\ <<p, Inbound>> \in Task
      BY <1>1, <1>2, LegFacts
    <3> QED
      BY <1>1, <1>6, <3>1 DEF TaskStep, IsBuffered
  <2>2. p \in v.zone.buf
    BY <2>1 DEF PackageInv, BufferFits
  <2>3. Position(v, q) = 2
    BY <1>9 DEF TaskStep, Position
  <2> QED
    BY <1>2, <2>2, <2>3, OnlyOneToFetch
<1> QED
  BY <1>5, <1>8, <1>9

LEMMA StartOrder ==
  ASSUME NEW w, NEW V, WorldInv(w, V), PackageInv(w, V), OrderInv(w),
         NEW t \in ReadyTasks(w), \A u \in ReadyTasks(w) : SortedBefore(t, u),
         NEW v, v = Start(w, t)
  PROVE  /\ WorldInv(v, V) /\ PackageInv(v, V) /\ TaskStep(w, v, t)
         /\ Working(v, t) \/ Refused(w, v, t)
         /\ PickupOf(t) # Zone => Working(v, t)
         /\ OrderInv(v)
<1>1. /\ t \in Task /\ w.status[t] = "PENDING" /\ w.stage[t] = "ClaimRobot"
      /\ w.duty[RobotOf(t)] = "IDLE" /\ IsReady(w, t)
  BY DEF ReadyTasks, IsReady, IsRobotAvailable, WorldInv, TaskInv
<1>2. WorldInv(v, V) /\ PackageInv(v, V) /\ TaskStep(w, v, t)
  BY <1>1, StartInv, StartFits
<1>3. /\ Working(v, t) \/ Refused(w, v, t)
      /\ PickupOf(t) # Zone => Working(v, t)
  BY <1>1, StartOutcome
<1>4. Outcome(w, v, t) /\ Engaged(v, t)
  BY <1>1, <1>2, <1>3 DEF Outcome, Working, Refused, WorldInv, TaskInv
<1>5. SUFFICES ASSUME IsGoing(v)
               PROVE  /\ NothingGivenUp(v) /\ UnclaimedIsIdle(v)
                      /\ BroughtInOrder(v) /\ SentForTheNext(v)
                      /\ FetchedInOrder(v) /\ ObstaclesAreNamed(v)
  BY <1>2, <1>3 DEF OrderInv
<1>6. /\ NothingGivenUp(w) /\ UnclaimedIsIdle(w)
      /\ BroughtInOrder(w) /\ SentForTheNext(w)
      /\ FetchedInOrder(w) /\ ObstaclesAreNamed(w)
  BY <1>2, <1>5 DEF TaskStep, IsGoing, OrderInv
<1>7. NothingGivenUp(v) /\ UnclaimedIsIdle(v)
  BY <1>1, <1>2, <1>4, <1>6, OutcomeKeepsOthers
<1>8. BroughtInOrder(v)
  <2>1. SUFFICES ASSUME NEW p \in Item, NEW q \in Item, SortKey(p) < SortKey(q),
                        v.stage[<<q, Inbound>>] # "ClaimRobot"
                 PROVE  v.stage[<<p, Inbound>>] = "Done"
    BY DEF BroughtInOrder
  <2>2. w.stage[<<p, Inbound>>] = "Done"
    <3>1. CASE t = <<q, Inbound>>
      BY <1>6, <2>1, <3>1, FirstIsBrought
    <3>2. CASE t # <<q, Inbound>>
      <4>1. w.stage[<<q, Inbound>>] # "ClaimRobot"
        BY <1>2, <2>1, <3>2, LegFacts DEF TaskStep
      <4> QED
        BY <1>6, <2>1, <4>1 DEF BroughtInOrder
    <3> QED
      BY <3>1, <3>2
  <2> QED
    BY <1>1, <1>2, <2>2, LegFacts DEF TaskStep
<1>9. SentForTheNext(v)
  <2>1. SUFFICES ASSUME NEW p \in Item, v.stage[<<p, Outbound>>] = "RequestPickup"
                 PROVE  Position(v, p) >= 1 /\ v.zone.buf \subseteq {p}
    BY DEF SentForTheNext
  <2> DEFINE u == <<p, Outbound>>
  <2>2. /\ u \in Task /\ ItemOf(u) = p /\ Origin(u) = 2 /\ Engaged(v, u)
        /\ PickupOf(u) = Zone /\ LegOf(u) = Outbound
    BY <2>1, LegFacts DEF Engaged
  <2>3. Position(v, p) = Position(w, p) /\ Position(w, p) \in 0 .. 4
    BY <1>2 DEF TaskStep, Position
  <2>4. Position(v, p) <= 2
    BY <1>2, <2>1, <2>2, PositionFacts DEF StageFits
  <2>5. CASE Position(v, p) = 2
    BY <1>2, <2>2, <2>5, OnlyOneToFetch
  <2>6. CASE Position(v, p) # 2 /\ t # u
    <3>1. w.stage[u] = "RequestPickup" /\ Engaged(w, u)
      BY <1>2, <2>1, <2>2, <2>6 DEF TaskStep, Engaged
    <3>2. Position(w, p) >= 1 /\ w.zone.buf \subseteq {p}
      BY <1>6, <3>1 DEF SentForTheNext
    <3>3. Position(w, p) = 1
      BY <2>3, <2>4, <2>6, <3>2
    <3>4. v.zone.buf \subseteq {p}
      BY <1>1, <1>2, <1>4, <2>6, <3>1, <3>2, <3>3, BufferStaysClear
    <3> QED
      BY <2>3, <3>2, <3>4
  <2>7. CASE Position(v, p) # 2 /\ t = u
    <3>1. ~ IsItemAt(w, p, Zone)
      BY <2>3, <2>7, LyingFacts
    <3>2. w.carrier[p] # NoRobot
      BY <1>1, <2>2, <2>7, <3>1 DEF IsReady, CanWaitForPickup
    <3>3. Position(w, p) = 1
      <4>1. w.carrier[p] \in {UpstreamRobot, DownstreamRobot}
        BY <3>2, WorldFields DEF WorldInv, Robot
      <4> QED
        BY <2>3, <2>4, <4>1 DEF Position
    <3>4. w.zone.buf \subseteq {p}
      BY <1>6, <2>7, <3>3, FirstIsFetched
    <3>5. ASSUME NEW b \in v.zone.buf, b # p PROVE FALSE
      <4>1. b \in Item
        BY <1>2, <3>5, WorldFields DEF WorldInv, ZoneState
      <4>2. <<b, Inbound>> \in Task \ {t} /\ <<b, Outbound>> \in Task \ {t}
        BY <2>7, <3>5, <4>1, LegFacts DEF Inbound, Outbound
      <4>3. IsBuffered(v, b)
        BY <1>2, <3>5, <4>1 DEF PackageInv, BufferFits
      <4>4. IsBuffered(w, b)
        BY <1>2, <4>2, <4>3 DEF TaskStep, IsBuffered
      <4> QED
        BY <3>4, <3>5, <4>1, <4>4 DEF PackageInv, BufferFits
    <3> QED
      BY <2>3, <3>3, <3>5
  <2> QED
    BY <2>5, <2>6, <2>7
<1>10. FetchedInOrder(v)
  <2>1. SUFFICES ASSUME NEW p \in Item, NEW q \in Item, SortKey(p) < SortKey(q),
                        v.stage[<<q, Outbound>>] # "ClaimRobot"
                 PROVE  v.stage[<<p, Outbound>>] = "Done"
    BY DEF FetchedInOrder
  <2>2. w.stage[<<p, Outbound>>] = "Done"
    <3>1. CASE t = <<q, Outbound>>
      BY <1>2, <1>4, <1>6, <2>1, <3>1, FirstIsFetchedInOrder
    <3>2. CASE t # <<q, Outbound>>
      <4>1. w.stage[<<q, Outbound>>] # "ClaimRobot"
        BY <1>2, <2>1, <3>2, LegFacts DEF TaskStep
      <4> QED
        BY <1>6, <2>1, <4>1 DEF FetchedInOrder
    <3> QED
      BY <3>1, <3>2
  <2> QED
    BY <1>1, <1>2, <2>2, LegFacts DEF TaskStep
<1>11. ObstaclesAreNamed(v)
  BY <1>1, <1>2, <1>4, <1>6, <1>8, <1>10, OutcomeNames
<1> QED
  BY <1>7, <1>8, <1>9, <1>10, <1>11

-----------------------------------------------------------------------------
(* _advance: what is left when it has ticked and started what it could.    *)

LEMMA EngagedRuns ==
  ASSUME NEW w, NEW V, WorldInv(w, V), PackageInv(w, V), NothingGivenUp(w),
         NEW t \in Task, Engaged(w, t)
  PROVE  w.status[t] \in {"RUNNING", "BLOCKED"}
<1>1. w.status[t] \in TaskStatus
  BY WorldFields DEF WorldInv
<1> QED
  BY <1>1 DEF WorldInv, TaskInv, NothingGivenUp, PackageInv, TaskFits, Engaged, TaskStatus

LEMMA WorkingIsLive ==
  ASSUME NEW w, NEW V, WorldInv(w, V), NEW t \in Task, Working(w, t)
  PROVE  w.live # {}
BY DEF Working, WorldInv, CommandInv

LEMMA StartNextReadyOrder ==
  ASSUME NEW w, NEW V, WorldInv(w, V), PackageInv(w, V), OrderInv(w),
         NEW v, v = StartNextReady(w)
  PROVE  /\ WorldInv(v, V) /\ PackageInv(v, V) /\ OrderInv(v)
         /\ v.mission = w.mission /\ v.paused = w.paused /\ w.live \subseteq v.live
         /\ \/ ReadyTasks(w) = {} /\ v = w
            \/ \E t \in ReadyTasks(w) :
                 /\ TaskStep(w, v, t)
                 /\ Working(v, t) \/ Refused(w, v, t)
                 /\ PickupOf(t) # Zone => Working(v, t)
<1>1. CASE ReadyTasks(w) = {}
  BY <1>1 DEF StartNextReady
<1>2. CASE ReadyTasks(w) # {}
  <2> DEFINE t == FirstInSorted(ReadyTasks(w))
  <2>1. t \in ReadyTasks(w) /\ \A u \in ReadyTasks(w) : SortedBefore(t, u)
    BY <1>2, FirstInSortedMember DEF ReadyTasks
  <2>2. v = Start(w, t)
    BY <1>2 DEF StartNextReady
  <2> HIDE DEF t
  <2>3. /\ WorldInv(v, V) /\ PackageInv(v, V) /\ TaskStep(w, v, t)
        /\ Working(v, t) \/ Refused(w, v, t)
        /\ PickupOf(t) # Zone => Working(v, t)
        /\ OrderInv(v)
    BY <2>1, <2>2, StartOrder
  <2>4. v.mission = w.mission /\ v.paused = w.paused /\ w.live \subseteq v.live
    BY <2>3 DEF TaskStep
  <2> QED
    BY <2>1, <2>3, <2>4
<1> QED
  BY <1>1, <1>2

(* A task that was refused the zone for its package does not see it freed  *)
(* by the delivery of a later package: that one lies there already.        *)
LEMMA NoLateDelivery ==
  ASSUME NEW w, NEW V, WorldInv(w, V), PackageInv(w, V), SentForTheNext(w),
         NEW t \in Task, NEW u \in Task, t # u, DictBefore(t, u),
         Engaged(w, t), Engaged(w, u), w.status[t] = "BLOCKED", LegOf(u) = Inbound,
         NEW v, PackageInv(v, V), TaskStep(w, v, u), v.status[u] = "SUCCEEDED"
  PROVE  FALSE
<1> DEFINE p == ItemOf(t)
           q == ItemOf(u)
<1>1. LegOf(t) = Outbound /\ LegOf(t) # Inbound
  <2>1. RobotOf(t) # RobotOf(u)
    BY EngagedAlone DEF WorldInv
  <2> QED
    BY <2>1, TaskFacts DEF Inbound, Outbound
<1>2. /\ p \in Item /\ q \in Item /\ p \in Nat /\ q \in Nat
      /\ t = <<p, Outbound>> /\ u = <<q, Inbound>>
  BY <1>1, TaskFacts, LegIdentity, PackagesAssumption DEF Item
<1>3. p # q
  BY <1>1, <1>2 DEF DictBefore, InboundFirst, Inbound, Outbound
<1> HIDE DEF p, q
<1>4. w.stage[t] = "RequestPickup"
  BY <1>1 DEF PackageInv, TaskFits, RequestStage
<1>5. Position(w, p) \in {1, 2}
  <2>1. Position(w, p) >= 1 /\ Position(w, p) \in 0 .. 4
    BY <1>2, <1>4 DEF SentForTheNext, Position
  <2>2. StageFits(w.stage[t], 2, Position(w, p))
    BY <1>1, PositionFacts DEF Origin, p
  <2> QED
    BY <1>4, <2>1, <2>2 DEF StageFits
<1>6. Position(w, q) = 2
  <2>1. Position(v, q) = Position(w, q) /\ Position(w, q) \in 0 .. 4
    BY DEF TaskStep, Position
  <2>2. StageFits(w.stage[u], 0, Position(w, q)) /\ w.stage[u] \in Stage
    BY PositionFacts, WorldFields DEF Origin, q, WorldInv
  <2>3. StageFits("Done", 0, Position(v, q))
    BY DEF PackageInv, TaskFits, Origin, q
  <2> QED
    BY <2>1, <2>2, <2>3 DEF StageFits, Stage, Engaged
<1>7. CASE Position(w, p) = 1
  BY <1>2, <1>3, <1>7, BeingBrought
<1>8. CASE Position(w, p) = 2
  <2>1. IsItemAt(w, p, Zone) /\ IsItemAt(w, q, Zone)
    BY <1>2, <1>6, <1>8, LyingFacts
  <2>2. p \in LyingInZone(w) /\ q \in LyingInZone(w)
    BY <1>2, <2>1 DEF LyingInZone
  <2> QED
    BY <1>3, <2>2, LyingAlone
<1> QED
  BY <1>5, <1>7, <1>8

(* Every task that is engaged waits for the zone, and would not get it now.*)
AllRefused(w) ==
  \A t \in Task : Engaged(w, t) =>
    w.status[t] = "BLOCKED" /\ ~ Granted(w.zone, t, PurposeOf(t))

LEMMA TickRunnableOrder ==
  ASSUME NEW w, NEW V, WorldInv(w, V), PackageInv(w, V), OrderInv(w),
         NEW v, v = TickRunnable(w)
  PROVE  /\ WorldInv(v, V) /\ PackageInv(v, V) /\ OrderInv(v)
         /\ v.mission = w.mission /\ v.paused = w.paused /\ w.live \subseteq v.live
         /\ IsGoing(w) /\ w.paused = {} /\ v.live = {} => AllRefused(v)
<1>1. CASE Runnable(w) = {}
  <2>1. v = w
    BY <1>1 DEF TickRunnable
  <2>2. IsGoing(w) /\ w.paused = {} => AllRefused(w)
    BY <1>1, EngagedRuns DEF OrderInv, AllRefused, Runnable
  <2> QED
    BY <2>1, <2>2
<1>2. CASE Runnable(w) # {}
  <2> DEFINE first == FirstInDict(Runnable(w))
             ticked == Tick(w, first)
             others == Runnable(w) \ {first}
  <2>1. first \in Runnable(w) /\ \A u \in Runnable(w) : DictBefore(first, u)
    BY <1>2, FirstInDictMember DEF Runnable
  <2>2. v = IF Emitted(w, ticked) \/ others = {} THEN ticked
            ELSE Tick(ticked, FirstInDict(others))
    BY <1>2 DEF TickRunnable
  <2> HIDE DEF first
  <2>3. first \in Task /\ w.status[first] \in {"RUNNING", "BLOCKED"} /\ Engaged(w, first)
    BY <2>1 DEF Runnable, WorldInv, TaskInv
  <2>4. /\ WorldInv(ticked, V) /\ PackageInv(ticked, V) /\ TaskStep(w, ticked, first)
        /\ Outcome(w, ticked, first) /\ OrderInv(ticked)
    BY <2>3, TickOrder
  <2> HIDE DEF ticked
  <2>5. ticked.mission = w.mission /\ ticked.paused = w.paused /\ w.live \subseteq ticked.live
    BY <2>4 DEF TaskStep
  <2>6. ASSUME IsGoing(w), w.paused = {}, NEW u \in Task, u # first, Engaged(ticked, u)
        PROVE  u \in others
    <3>1. Engaged(w, u)
      BY <2>4, <2>6 DEF TaskStep, Engaged
    <3> QED
      BY <2>6, <3>1, EngagedRuns DEF OrderInv, Runnable
  <2>7. ASSUME ticked.live = {}
        PROVE  /\ Refused(w, ticked, first) \/ Delivered(w, ticked, first)
               /\ ~ Emitted(w, ticked)
               /\ Engaged(ticked, first) => Refused(w, ticked, first)
    <3>1. Refused(w, ticked, first) \/ Delivered(w, ticked, first)
      BY <2>3, <2>4, <2>7, WorkingIsLive DEF Outcome
    <3>2. Delivered(w, ticked, first) => ~ Engaged(ticked, first)
      BY <2>3, <2>4 DEF Delivered, PackageInv, TaskFits, Engaged
    <3> QED
      BY <3>1, <3>2 DEF Refused, Delivered, Emitted
  <2>8. CASE Emitted(w, ticked) \/ others = {}
    <3>1. v = ticked
      BY <2>2, <2>8
    <3>2. ASSUME IsGoing(w), w.paused = {}, v.live = {} PROVE AllRefused(v)
      BY <2>6, <2>7, <2>8, <3>1, <3>2 DEF AllRefused, Refused
    <3> QED
      BY <2>4, <2>5, <3>1, <3>2
  <2>9. CASE ~ (Emitted(w, ticked) \/ others = {})
    <3> DEFINE second == FirstInDict(others)
    <3>1. second \in others /\ v = Tick(ticked, second)
      BY <2>2, <2>9, FirstInDictMember DEF Runnable
    <3> HIDE DEF second, others
    <3>2. /\ second \in Task /\ second # first /\ second \in Runnable(w)
          /\ DictBefore(first, second)
      BY <2>1, <3>1 DEF others, Runnable
    <3>3. ticked.status[second] \in {"RUNNING", "BLOCKED"} /\ Engaged(ticked, second)
      BY <2>4, <3>2 DEF TaskStep, Runnable, WorldInv, TaskInv
    <3>4. /\ WorldInv(v, V) /\ PackageInv(v, V) /\ TaskStep(ticked, v, second)
          /\ Outcome(ticked, v, second) /\ OrderInv(v)
      BY <2>4, <3>1, <3>2, <3>3, TickOrder
    <3>5. v.mission = w.mission /\ v.paused = w.paused /\ w.live \subseteq v.live
      BY <2>5, <3>4 DEF TaskStep
    <3>6. ASSUME IsGoing(w), w.paused = {}, v.live = {} PROVE AllRefused(v)
      <4>1. ticked.live = {} /\ SentForTheNext(ticked)
        BY <2>4, <2>5, <3>4, <3>6 DEF TaskStep, OrderInv, IsGoing
      <4>2. Refused(ticked, v, second) \/ Delivered(ticked, v, second)
        BY <3>2, <3>4, <3>6, WorkingIsLive DEF Outcome
      <4>3. SUFFICES ASSUME NEW u \in Task, Engaged(v, u)
                     PROVE  v.status[u] = "BLOCKED" /\ ~ Granted(v.zone, u, PurposeOf(u))
        BY DEF AllRefused
      <4>4. CASE u = second
        <5>1. ~ Delivered(ticked, v, second)
          BY <3>2, <3>4, <4>3, <4>4 DEF Delivered, PackageInv, TaskFits, Engaged
        <5> QED
          BY <4>2, <4>4, <5>1 DEF Refused
      <4>5. CASE u = first
        <5>1. Engaged(ticked, first)
          BY <3>2, <3>4, <4>3, <4>5 DEF TaskStep, Engaged
        <5>2. Refused(w, ticked, first)
          BY <2>7, <4>1, <5>1
        <5>3. v.status[first] = "BLOCKED" /\ ticked.status[first] = "BLOCKED"
          BY <2>3, <3>2, <3>4, <5>2 DEF TaskStep, Refused
        <5>4. v.zone = ticked.zone
          <6>1. CASE Refused(ticked, v, second)
            BY <6>1 DEF Refused
          <6>2. CASE Delivered(ticked, v, second)
            <7>1. LegOf(second) # Inbound
              BY <2>3, <2>4, <3>2, <3>3, <3>4, <4>1, <5>1, <5>3, <6>2, NoLateDelivery
                 DEF Delivered
            <7> QED
              BY <3>2, <6>2, <7>1, TaskFacts DEF Delivered
          <6> QED
            BY <4>2, <6>1, <6>2
        <5> QED
          BY <4>5, <5>2, <5>3, <5>4 DEF Refused
      <4>6. CASE u # first /\ u # second
        <5>1. Engaged(w, u) /\ Engaged(w, first) /\ Engaged(w, second)
          BY <2>3, <2>4, <3>2, <3>3, <3>4, <4>3, <4>6 DEF TaskStep, Engaged
        <5>2. RobotOf(first) # RobotOf(second) /\ RobotOf(u) # RobotOf(first)
              /\ RobotOf(u) # RobotOf(second)
          BY <2>3, <3>2, <4>6, <5>1, EngagedAlone DEF WorldInv
        <5> QED
          BY <2>3, <3>2, <5>2, TaskFacts DEF Robot
      <4> QED
        BY <4>4, <4>5, <4>6
    <3> QED
      BY <3>4, <3>5, <3>6
  <2> QED
    BY <2>8, <2>9
<1> QED
  BY <1>1, <1>2

-----------------------------------------------------------------------------
(* When everybody engaged is refused the zone, it is free but for the      *)
(* package that one who comes with another waits for to be fetched, and    *)
(* nobody waits to fetch one.                                              *)
LEMMA OnlyBringersWait ==
  ASSUME NEW w, NEW V, WorldInv(w, V), PackageInv(w, V), OrderInv(w),
         IsGoing(w), AllRefused(w)
  PROVE  /\ w.zone.lease = NoTask /\ w.zone.occ = {}
         /\ \A t \in Task : Engaged(w, t) => LegOf(t) = Inbound /\ w.zone.buf # {}
<1>1. ASSUME NEW t \in Task, Engaged(w, t)
      PROVE  w.stage[t] = RequestStage(t) /\ ~ Granted(w.zone, t, PurposeOf(t))
  BY <1>1 DEF AllRefused, PackageInv, TaskFits
<1>2. ASSUME NEW t \in Task PROVE w.stage[t] \notin ZoneStages(t)
  <2>1. CASE Engaged(w, t)
    BY <1>1, <2>1, ZoneStageFacts
  <2>2. CASE ~ Engaged(w, t)
    BY <2>2 DEF Engaged, ZoneStages
  <2> QED
    BY <2>1, <2>2
<1>3. w.zone.lease = NoTask /\ w.zone.occ = {}
  BY <1>2, ZoneIsFree
<1>4. ASSUME NEW t \in Task, Engaged(w, t)
      PROVE  /\ LegOf(t) = Inbound => w.zone.buf # {}
             /\ LegOf(t) = Outbound => ItemOf(t) \notin w.zone.buf
  BY <1>1, <1>3, <1>4 DEF Granted, PurposeOf, LeasedToOther, RobotSlotAvailable,
     PackageSlotAvailable, Inbound, Outbound
<1>5. ASSUME NEW t \in Task, Engaged(w, t), LegOf(t) = Outbound PROVE FALSE
  <2> DEFINE p == ItemOf(t)
  <2>1. p \in Item /\ t = <<p, Outbound>>
    BY <1>5, TaskFacts, LegIdentity
  <2>2. w.stage[t] = "RequestPickup"
    BY <1>1, <1>5 DEF RequestStage, Inbound, Outbound
  <2>3. StageFits(w.stage[t], 2, Position(w, p))
    BY <1>5, PositionFacts DEF Origin, Inbound, Outbound
  <2> HIDE DEF p
  <2>4. Position(w, p) >= 1 /\ w.zone.buf \subseteq {p}
    BY <2>1, <2>2 DEF OrderInv, SentForTheNext
  <2>5. w.zone.buf = {}
    BY <1>4, <1>5, <2>4 DEF p
  <2>6. Position(w, p) \in {1, 2}
    <3>1. Position(w, p) \in 0 .. 4
      BY DEF Position
    <3> QED
      BY <2>2, <2>3, <2>4, <3>1 DEF StageFits
  <2>7. CASE Position(w, p) = 1
    <3>1. Engaged(w, <<p, Inbound>>) /\ <<p, Inbound>> \in Task
          /\ LegOf(<<p, Inbound>>) = Inbound
      BY <2>1, <2>7, BeingBrought, LegFacts
    <3> QED
      BY <1>4, <2>5, <3>1
  <2>8. CASE Position(w, p) = 2
    <3>1. w.stage[<<p, Inbound>>] = "Unload"
      BY <2>1, <2>5, <2>8, LyingFacts
    <3>2. <<p, Inbound>> \in Task /\ ZoneStages(<<p, Inbound>>)
            = {"MoveToDropoff", "Unload", "VacateDropoff"}
      BY <2>1, LegFacts, ZoneStageFacts
    <3> QED
      BY <1>2, <3>1, <3>2
  <2> QED
    BY <2>6, <2>7, <2>8
<1> QED
  BY <1>3, <1>4, <1>5, TaskFacts

(* A robot that no engaged task has is free for another.                   *)
LEMMA NobodysRobot ==
  ASSUME NEW w, NEW V, WorldInv(w, V), UnclaimedIsIdle(w), NEW r \in Robot,
         \A t \in Task : Engaged(w, t) => RobotOf(t) # r
  PROVE  w.claim[r] = NoTask /\ w.duty[r] = "IDLE"
<1>1. w.claim[r] \in Task \cup {NoTask}
  BY WorldFields DEF WorldInv
<1>2. w.claim[r] = NoTask
  BY <1>1 DEF WorldInv, TaskInv
<1> QED
  BY <1>2 DEF UnclaimedIsIdle

(* Then some task can be started, unless all are finished.                 *)
LEMMA SomethingIsReady ==
  ASSUME NEW w, NEW V, WorldInv(w, V), PackageInv(w, V), OrderInv(w),
         IsGoing(w), w.paused = {}, AllRefused(w), ~ AllSucceeded(w)
  PROVE  ReadyTasks(w) # {}
<1>1. NothingGivenUp(w) /\ UnclaimedIsIdle(w) /\ w.zone \in ZoneState
  BY WorldFields DEF OrderInv, WorldInv
<1>2. /\ w.zone.lease = NoTask /\ w.zone.occ = {}
      /\ \A t \in Task : Engaged(w, t) => LegOf(t) = Inbound /\ w.zone.buf # {}
  BY OnlyBringersWait
<1>3. CASE w.zone.buf # {}
  <2> PICK b \in w.zone.buf : TRUE
    BY <1>3
  <2>1. b \in Item
    BY <1>1 DEF ZoneState
  <2>2. <<b, Outbound>> \in Task /\ LegOf(<<b, Outbound>>) = Outbound
        /\ RobotOf(<<b, Outbound>>) = DownstreamRobot
    BY <2>1, LegFacts DEF RobotOf, LegOf, Inbound, Outbound
  <2>3. w.claim[DownstreamRobot] = NoTask /\ w.duty[DownstreamRobot] = "IDLE"
    <3>1. \A t \in Task : Engaged(w, t) => RobotOf(t) # DownstreamRobot
      BY <1>2 DEF RobotOf, UpstreamRobot, DownstreamRobot
    <3> QED
      BY <1>1, <3>1, NobodysRobot DEF Robot
  <2>4. w.stage[<<b, Outbound>>] \in UnfetchedStages
    BY <2>1 DEF PackageInv, BufferFits, IsBuffered
  <2>5. w.status[<<b, Outbound>>] = "PENDING"
    BY <1>1, <2>2, <2>3, <2>4, FreeTasks DEF UnfetchedStages
  <2>6. IsReady(w, <<b, Outbound>>)
    BY <1>2, <2>3, <2>5, OutboundIsReady DEF IsRobotAvailable
  <2> QED
    BY <2>2, <2>6 DEF ReadyTasks
<1>4. CASE w.zone.buf = {}
  <2>1. ASSUME NEW r \in Robot PROVE w.claim[r] = NoTask /\ w.duty[r] = "IDLE"
    BY <1>1, <1>2, <1>4, NobodysRobot
  <2>2. PICK t \in Task : w.status[t] # "SUCCEEDED"
    BY DEF AllSucceeded
  <2>3. ASSUME NEW u \in Task
        PROVE  /\ IsRobotAvailable(w, RobotOf(u))
               /\ \/ w.stage[u] = "Done" /\ w.status[u] = "SUCCEEDED"
                  \/ w.stage[u] = "ClaimRobot" /\ w.status[u] = "PENDING"
    BY <1>1, <2>1, TaskFacts, FreeTasks DEF IsRobotAvailable
  <2>4. ASSUME NEW u \in Task, LegOf(u) = Inbound, w.stage[u] # "Done"
        PROVE  ReadyTasks(w) # {}
    BY <2>3, <2>4, InboundIsReady DEF ReadyTasks
  <2>5. CASE LegOf(t) = Outbound
    <3> DEFINE p == ItemOf(t)
    <3>1. p \in Item /\ t = <<p, Outbound>>
      BY <2>5, TaskFacts, LegIdentity
    <3>2. <<p, Inbound>> \in Task /\ LegOf(<<p, Inbound>>) = Inbound
      BY <3>1, LegFacts
    <3> HIDE DEF p
    <3>3. w.stage[t] = "ClaimRobot"
      BY <2>2, <2>3
    <3>4. ~ IsBuffered(w, p)
      BY <1>4, <3>1 DEF PackageInv, BufferFits
    <3>5. w.stage[<<p, Inbound>>] # "Done"
      BY <3>1, <3>3, <3>4 DEF IsBuffered, BroughtStages, UnfetchedStages
    <3> QED
      BY <2>4, <3>2, <3>5
  <2>6. CASE LegOf(t) = Inbound
    BY <2>2, <2>3, <2>4, <2>6
  <2> QED
    BY <2>5, <2>6, TaskFacts
<1> QED
  BY <1>3, <1>4

(* And what is started then has something to do.                           *)
LEMMA StartsSomething ==
  ASSUME NEW w, NEW V, WorldInv(w, V), PackageInv(w, V), OrderInv(w),
         IsGoing(w), w.paused = {}, AllRefused(w), ~ AllSucceeded(w),
         NEW v, v = StartNextReady(w)
  PROVE  v.live # {}
<1>1. /\ w.zone.lease = NoTask /\ w.zone.occ = {}
      /\ \A t \in Task : Engaged(w, t) => LegOf(t) = Inbound /\ w.zone.buf # {}
  BY OnlyBringersWait
<1>2. /\ WorldInv(v, V) /\ PackageInv(v, V) /\ OrderInv(v) /\ v.mission = w.mission
      /\ \E t \in ReadyTasks(w) :
           /\ TaskStep(w, v, t)
           /\ Working(v, t) \/ Refused(w, v, t)
           /\ PickupOf(t) # Zone => Working(v, t)
  BY SomethingIsReady, StartNextReadyOrder
<1>3. PICK t \in ReadyTasks(w) :
        /\ TaskStep(w, v, t)
        /\ Working(v, t) \/ Refused(w, v, t)
        /\ PickupOf(t) # Zone => Working(v, t)
  BY <1>2
<1>4. t \in Task /\ IsReady(w, t)
  BY DEF ReadyTasks
<1>5. ~ Refused(w, v, t)
  <2> SUFFICES ASSUME Refused(w, v, t) PROVE FALSE
    OBVIOUS
  <2> DEFINE p == ItemOf(t)
  <2>1. PickupOf(t) = Zone
    BY <1>3 DEF Working, Refused
  <2>2. p \in Item /\ t = <<p, Outbound>> /\ LegOf(t) # Inbound
        /\ RequestStage(t) = "RequestPickup"
    BY <1>4, <2>1, TaskFacts, LegIdentity, ZoneStageFacts
  <2>3. v.stage[t] = "RequestPickup" /\ v.zone = w.zone
    BY <1>2, <1>4, <2>2 DEF Refused, PackageInv, TaskFits
  <2> HIDE DEF p
  <2>4. w.zone.buf \subseteq {p}
    BY <1>2, <2>2, <2>3 DEF OrderInv, SentForTheNext, IsGoing
  <2>5. p \notin w.zone.buf
    BY <1>1, <2>2 DEF Refused, Granted, PurposeOf, LeasedToOther, RobotSlotAvailable, p
  <2>6. w.carrier[p] # NoRobot
    BY <1>4, <2>1, <2>5 DEF IsReady, ManagedPickupAvailable, CanWaitForPickup, p
  <2>7. PICK u \in Task : w.stage[u] \in CarryingStages
    BY <2>2, <2>6, CarriedFacts
  <2>8. Engaged(w, u)
    BY <2>7 DEF CarryingStages, Engaged
  <2> QED
    BY <1>1, <2>4, <2>5, <2>8
<1> QED
  BY <1>2, <1>3, <1>4, <1>5, WorkingIsLive

-----------------------------------------------------------------------------
(* What a whole advance of the mission leaves behind.                      *)
LEMMA StartKeepsMission ==
  ASSUME NEW w, NEW V, WorldInv(w, V), PackageInv(w, V)
  PROVE  StartNextReady(w).mission = w.mission
<1>1. CASE ReadyTasks(w) = {}
  BY <1>1 DEF StartNextReady
<1>2. CASE ReadyTasks(w) # {}
  <2> DEFINE t == FirstInSorted(ReadyTasks(w))
  <2>1. t \in ReadyTasks(w)
    BY <1>2, FirstInSortedMember DEF ReadyTasks
  <2>2. StartNextReady(w) = Start(w, t)
    BY <1>2 DEF StartNextReady
  <2> HIDE DEF t
  <2>3. t \in Task /\ w.status[t] = "PENDING" /\ w.duty[RobotOf(t)] = "IDLE"
    BY <2>1 DEF ReadyTasks, IsReady, IsRobotAvailable
  <2> QED
    BY <2>2, <2>3, StartFits DEF TaskStep
<1> QED
  BY <1>1, <1>2

LEMMA AdvanceOrder ==
  ASSUME NEW w, NEW V, WorldInv(w, V), PackageInv(w, V), OrderInv(w), NEW v, v = Advance(w)
  PROVE  /\ WorldInv(v, V) /\ PackageInv(v, V) /\ OrderInv(v) /\ HasWork(v)
         /\ \/ v.mission = w.mission
            \/ w.mission = "RUNNING" /\ v.mission = "COMPLETED"
         /\ v.paused = w.paused
<1>1. CASE w.mission # "RUNNING"
  <2>1. v = w
    BY <1>1 DEF Advance
  <2> QED
    BY <1>1, <2>1 DEF HasWork
<1>2. CASE w.mission = "RUNNING" /\ AllSucceeded(w)
  <2>1. v = SetMission(w, "COMPLETED")
    BY <1>2 DEF Advance
  <2>2. v.mission = "COMPLETED" /\ v.paused = w.paused
    BY <2>1 DEF SetMission, WorldInv, World
  <2>3. WorldInv(v, V) /\ PackageInv(v, V)
    BY AdvanceInv, AdvanceFits
  <2> QED
    BY <1>2, <2>2, <2>3 DEF OrderInv, IsGoing, HasWork
<1>3. CASE w.mission = "RUNNING" /\ ~ AllSucceeded(w)
  <2> DEFINE x == TickRunnable(w)
  <2>1. v = StartNextReady(x)
    BY <1>3 DEF Advance
  <2>2. /\ WorldInv(x, V) /\ PackageInv(x, V) /\ OrderInv(x)
        /\ x.mission = w.mission /\ x.paused = w.paused
        /\ IsGoing(w) /\ w.paused = {} /\ x.live = {} => AllRefused(x)
    BY TickRunnableOrder
  <2> HIDE DEF x
  <2>3. /\ WorldInv(v, V) /\ PackageInv(v, V) /\ OrderInv(v)
        /\ v.mission = x.mission /\ v.paused = x.paused /\ x.live \subseteq v.live
    BY <2>1, <2>2, StartNextReadyOrder
  <2>4. ASSUME v.paused = {}, ~ AllSucceeded(v) PROVE v.live # {}
    <3>1. CASE x.live # {}
      BY <2>3, <3>1
    <3>2. CASE x.live = {} /\ ~ AllSucceeded(x)
      <4>1. IsGoing(x) /\ IsGoing(w) /\ x.paused = {} /\ w.paused = {}
        BY <1>3, <2>2, <2>3, <2>4 DEF IsGoing
      <4> QED
        BY <2>1, <2>2, <3>2, <4>1, StartsSomething
    <3>3. CASE AllSucceeded(x)
      <4>1. ReadyTasks(x) = {}
        BY <3>3 DEF AllSucceeded, ReadyTasks, IsReady
      <4> QED
        BY <2>1, <2>4, <3>3, <4>1 DEF StartNextReady
    <3> QED
      BY <3>1, <3>2, <3>3
  <2>5. HasWork(v)
    BY <2>4 DEF HasWork
  <2> QED
    BY <2>2, <2>3, <2>5
<1> QED
  BY <1>1, <1>2, <1>3

(* A command under way is work for a task.                                 *)
LEMMA WorkIsATask ==
  ASSUME NEW w, NEW V, WorldInv(w, V), PackageInv(w, V), OrderInv(w), HasWork(w)
  PROVE  HasTask(w)
<1> SUFFICES ASSUME w.mission = "RUNNING", w.paused = {}, ~ AllSucceeded(w)
             PROVE  ActiveTasks(w) # {}
  BY DEF HasTask
<1>1. PICK c \in w.live : TRUE
  BY DEF HasWork
<1>2. c.task \in Task /\ Engaged(w, c.task)
  BY LiveCommandFacts
<1>3. w.status[c.task] \in {"RUNNING", "BLOCKED"}
  BY <1>2, EngagedRuns DEF OrderInv, IsGoing
<1> QED
  BY <1>2, <1>3 DEF ActiveTasks

-----------------------------------------------------------------------------
(* The updates that are not the tick of a task: no task changes its stage, *)
(* its robot or the zone, and packages go forward if at all.               *)
FurtherOn(w, v) == \A p \in Item : Position(v, p) >= Position(w, p)

BlockedAsBefore(w, v) ==
  \A t \in Task : v.status[t] = "BLOCKED" =>
    w.status[t] = "BLOCKED" /\ v.blocker[t] = w.blocker[t]

LEMMA OrderKept ==
  ASSUME NEW w, NEW v, OrderInv(w), IsGoing(v) => IsGoing(w) /\ NothingGivenUp(v),
         v.stage = w.stage, v.claim = w.claim, v.duty = w.duty, v.zone = w.zone,
         FurtherOn(w, v), BlockedAsBefore(w, v)
  PROVE  OrderInv(v)
<1> SUFFICES ASSUME IsGoing(v) PROVE OrderInv(v)
  BY DEF OrderInv
<1>1. /\ NothingGivenUp(v) /\ UnclaimedIsIdle(w) /\ BroughtInOrder(w) /\ SentForTheNext(w)
      /\ FetchedInOrder(w) /\ ObstaclesAreNamed(w)
  BY DEF OrderInv
<1>2. UnclaimedIsIdle(v) /\ BroughtInOrder(v) /\ FetchedInOrder(v)
  BY <1>1 DEF UnclaimedIsIdle, BroughtInOrder, FetchedInOrder
<1>3. SentForTheNext(v)
  <2> SUFFICES ASSUME NEW p \in Item, v.stage[<<p, Outbound>>] = "RequestPickup"
               PROVE  Position(v, p) >= 1 /\ v.zone.buf \subseteq {p}
    BY DEF SentForTheNext
  <2>1. Position(w, p) >= 1 /\ w.zone.buf \subseteq {p}
    BY <1>1 DEF SentForTheNext
  <2>2. Position(v, p) >= Position(w, p) /\ Position(v, p) \in Nat /\ Position(w, p) \in Nat
    BY DEF FurtherOn, Position
  <2> QED
    BY <2>1, <2>2
<1>4. ObstaclesAreNamed(v)
  BY <1>1 DEF ObstaclesAreNamed, BlockedAsBefore
<1> QED
  BY <1>1, <1>2, <1>3, <1>4 DEF OrderInv

LEMMA SamePlaces ==
  ASSUME NEW w, NEW v, v.place = w.place, v.carrier = w.carrier
  PROVE  FurtherOn(w, v)
<1>1. ASSUME NEW p \in Item PROVE Position(v, p) >= Position(w, p)
  <2>1. Position(v, p) = Position(w, p) /\ Position(w, p) \in Nat
    BY DEF Position
  <2> QED
    BY <2>1
<1> QED
  BY <1>1 DEF FurtherOn

(* Administration: the status of the mission and of one task, and what is  *)
(* paused.                                                                 *)
LEMMA SetMissionOrder ==
  ASSUME NEW w \in World, OrderInv(w), NEW s,
         s \in {"READY", "RUNNING", "PAUSED"} => IsGoing(w)
  PROVE  /\ OrderInv(SetMission(w, s))
         /\ SetMission(w, s).mission = s /\ SetMission(w, s).paused = w.paused
<1> DEFINE v == SetMission(w, s)
<1>1. /\ v.stage = w.stage /\ v.claim = w.claim /\ v.duty = w.duty /\ v.zone = w.zone
      /\ v.place = w.place /\ v.carrier = w.carrier /\ v.blocker = w.blocker /\ v.status = w.status
      /\ v.mission = s /\ v.paused = w.paused
  BY DEF SetMission, World
<1> HIDE DEF v
<1>2. IsGoing(v) => IsGoing(w) /\ NothingGivenUp(v)
  BY <1>1 DEF OrderInv, NothingGivenUp, IsGoing
<1>3. OrderInv(v)
  BY <1>1, <1>2, SamePlaces, OrderKept DEF BlockedAsBefore
<1> QED
  BY <1>1, <1>3 DEF v

LEMMA SetPausedOrder ==
  ASSUME NEW w \in World, OrderInv(w), NEW P, NEW v, v = [w EXCEPT !.paused = P]
  PROVE  OrderInv(v) /\ v.mission = w.mission /\ v.paused = P
<1>1. /\ v.stage = w.stage /\ v.claim = w.claim /\ v.duty = w.duty /\ v.zone = w.zone
      /\ v.place = w.place /\ v.carrier = w.carrier /\ v.blocker = w.blocker /\ v.status = w.status
      /\ v.mission = w.mission /\ v.paused = P
  BY DEF World
<1>2. IsGoing(v) => IsGoing(w) /\ NothingGivenUp(v)
  BY <1>1 DEF OrderInv, NothingGivenUp, IsGoing
<1> QED
  BY <1>1, <1>2, SamePlaces, OrderKept DEF BlockedAsBefore

LEMMA SetStatusOrder ==
  ASSUME NEW w \in World, NEW t \in Task, OrderInv(w), NEW st, st # "BLOCKED",
         IsGoing(w) => st \notin {"FAILED", "CANCELLED"}, NEW v, v = SetStatus(w, t, st)
  PROVE  /\ OrderInv(v) /\ v.mission = w.mission /\ v.paused = w.paused
         /\ v.live = w.live /\ v.status[t] = st
<1>1. /\ v.stage = w.stage /\ v.claim = w.claim /\ v.duty = w.duty /\ v.zone = w.zone
      /\ v.place = w.place /\ v.carrier = w.carrier /\ v.blocker = w.blocker
      /\ v.mission = w.mission /\ v.paused = w.paused /\ v.live = w.live
      /\ v.status = [w.status EXCEPT ![t] = st]
  BY DEF SetStatus, World
<1>2. v.status[t] = st /\ \A u \in Task : v.status[u] \in {w.status[u], st}
  BY <1>1, WorldFields
<1>3. IsGoing(v) => IsGoing(w) /\ NothingGivenUp(v)
  BY <1>1, <1>2 DEF OrderInv, NothingGivenUp, IsGoing
<1> QED
  BY <1>1, <1>2, <1>3, SamePlaces, OrderKept DEF BlockedAsBefore

(* A command that is over, and forgotten.                                  *)
LEMMA DropOrder ==
  ASSUME NEW w \in World, OrderInv(w), NEW c,
         NEW v, v = ForgetCommand(MarkTerminal(w, c), c.task)
  PROVE  /\ OrderInv(v)
         /\ v.stage = w.stage /\ v.claim = w.claim /\ v.duty = w.duty /\ v.zone = w.zone
         /\ v.status = w.status /\ v.mission = w.mission /\ v.paused = w.paused
         /\ v.blocker = w.blocker
<1>1. /\ v.stage = w.stage /\ v.claim = w.claim /\ v.duty = w.duty /\ v.zone = w.zone
      /\ v.place = w.place /\ v.carrier = w.carrier /\ v.blocker = w.blocker
      /\ v.status = w.status /\ v.mission = w.mission /\ v.paused = w.paused
  BY DEF ForgetCommand, MarkTerminal, World
<1>2. IsGoing(v) => IsGoing(w) /\ NothingGivenUp(v)
  BY <1>1 DEF OrderInv, NothingGivenUp, IsGoing
<1> QED
  BY <1>1, <1>2, SamePlaces, OrderKept DEF BlockedAsBefore

(* A load and an unload bring a package one position further.              *)
LEMMA PackagesGoFurther ==
  ASSUME NEW w, NEW V, WorldInv(w, V), PackageInv(w, V),
         NEW c, c.task \in Task, c.kind \in Kind, NEW v, PackagesAfter(w, c, v)
  PROVE  FurtherOn(w, v)
<1> DEFINE t == c.task
           p == ItemOf(t)
<1>1. /\ p \in Item /\ w.place \in [Item -> Waypoint]
      /\ w.carrier \in [Item -> Robot \cup {NoRobot}]
  BY TaskFacts, WorldFields DEF WorldInv
<1>2. /\ IsItemAt(w, p, PickupOf(t)) => Position(w, p) = Origin(t)
      /\ IsLoaded(w, t) => Position(w, p) = Origin(t) + 1
  BY PositionFacts
<1>3. \/ Origin(t) = 0 /\ RobotOf(t) = UpstreamRobot /\ DropoffOf(t) = Zone
      \/ Origin(t) = 2 /\ RobotOf(t) = DownstreamRobot /\ DropoffOf(t) = "destination"
  BY TaskFacts DEF Origin, Inbound, Outbound
<1>4. ASSUME NEW q \in Item, v.place[q] = w.place[q], v.carrier[q] = w.carrier[q]
      PROVE  Position(v, q) >= Position(w, q)
  <2>1. Position(v, q) = Position(w, q) /\ Position(w, q) \in Nat
    BY <1>4 DEF Position
  <2> QED
    BY <2>1
<1>5. CASE c.kind = "move"
  BY <1>4, <1>5 DEF PackagesAfter, FurtherOn
<1>6. CASE c.kind = "load"
  <2>1. /\ v.carrier = [w.carrier EXCEPT ![p] = RobotOf(t)] /\ v.place = w.place
        /\ Position(w, p) = Origin(t)
    BY <1>2, <1>6 DEF PackagesAfter
  <2>2. v.carrier[p] = RobotOf(t) /\ \A q \in Item \ {p} : v.carrier[q] = w.carrier[q]
    BY <1>1, <2>1
  <2>3. Position(v, p) >= Position(w, p)
    BY <1>3, <2>1, <2>2 DEF Position, UpstreamRobot, DownstreamRobot
  <2> HIDE DEF p
  <2> QED
    BY <1>4, <2>1, <2>2, <2>3 DEF FurtherOn
<1>7. CASE c.kind = "unload"
  <2>1. /\ v.carrier = [w.carrier EXCEPT ![p] = NoRobot]
        /\ v.place = [w.place EXCEPT ![p] = DropoffOf(t)]
        /\ Position(w, p) = Origin(t) + 1
    BY <1>2, <1>7 DEF PackagesAfter
  <2>2. /\ v.carrier[p] = NoRobot /\ v.place[p] = DropoffOf(t)
        /\ \A q \in Item \ {p} : v.carrier[q] = w.carrier[q] /\ v.place[q] = w.place[q]
    BY <1>1, <2>1
  <2>3. Position(v, p) >= Position(w, p)
    BY <1>3, <2>1, <2>2 DEF Position, UpstreamRobot, DownstreamRobot, NoRobot, Zone
  <2> HIDE DEF p
  <2> QED
    BY <1>4, <2>2, <2>3 DEF FurtherOn
<1> QED
  BY <1>5, <1>6, <1>7 DEF Kind

(* The success of a command, applied to the state.                         *)
LEMMA AppliedOrder ==
  ASSUME NEW w, NEW V, WorldInv(w, V), PackageInv(w, V), OrderInv(w), NEW c \in w.live,
         IsZoneMove(c) => RobotOf(c.task) \in V,
         NEW v, v = ApplyCommandSuccess(MarkTerminal(w, c), c)
  PROVE  OrderInv(v) /\ v.status = w.status /\ v.blocker = w.blocker
<1> DEFINE d == ForgetCommand(MarkTerminal(w, c), c.task)
<1>1. w \in World /\ c.task \in Task /\ c.kind \in Kind /\ IsActiveCommand(w, c)
  BY LiveCommandFacts DEF WorldInv
<1>2. IsActiveCommand(MarkTerminal(w, c), c)
  BY <1>1 DEF IsActiveCommand, MarkTerminal, World
<1>3. v = CommandEffect(d, c)
  BY <1>2 DEF ApplyCommandSuccess
<1>4. /\ d.stage = w.stage /\ d.claim = w.claim /\ d.duty = w.duty /\ d.zone = w.zone
      /\ d.status = w.status /\ d.mission = w.mission /\ d \in World
      /\ d.blocker = w.blocker
  BY <1>1, DropOrder, DropFits DEF WorldInv
<1> HIDE DEF d
<1>5. /\ v.stage = d.stage /\ v.claim = d.claim /\ v.duty = d.duty /\ v.zone = d.zone
      /\ v.status = d.status /\ v.mission = d.mission /\ v.blocker = d.blocker
  BY <1>1, <1>3, <1>4 DEF CommandEffect, MoveRobot, LoadItem, UnloadItem, Kind, World
<1>6. FurtherOn(w, v)
  BY <1>1, AppliedFits, PackagesGoFurther
<1>7. IsGoing(v) => IsGoing(w) /\ NothingGivenUp(v)
  BY <1>4, <1>5 DEF OrderInv, NothingGivenUp, IsGoing
<1> QED
  BY <1>4, <1>5, <1>6, <1>7, OrderKept DEF BlockedAsBefore

-----------------------------------------------------------------------------
(* The results of commands.                                                *)

(* What a result does to the status of the mission.                        *)
ResultMission(w, v) ==
  \/ v.mission = w.mission
  \/ v.mission = "FAILED"
  \/ w.mission = "RUNNING" /\ v.mission = "COMPLETED"

LEMMA HandleCompletedOrder ==
  ASSUME NEW w, NEW V, WorldInv(w, V), PackageInv(w, V), OrderInv(w), NEW c \in w.live,
         IsZoneMove(c) => RobotOf(c.task) \in V, NEW v, v = HandleCompleted(w, c)
  PROVE  OrderInv(v) /\ HasWork(v) /\ ResultMission(w, v)
<1> DEFINE applied == ApplyCommandSuccess(MarkTerminal(w, c), c)
           t == c.task
           ticked  == Tick(applied, t)
           kept    == IF w.mission = "PAUSED" \/ RobotOf(t) \in w.paused
                      THEN "RUNNING" ELSE "CANCELLED"
           W == LeftInside(V, c)
<1>1. t \in Task /\ IsActiveCommand(w, c) /\ Engaged(w, t)
  BY LiveCommandFacts
<1>2. /\ WorldInv(applied, W) /\ PackageInv(applied, W) /\ AtWork(applied, t)
      /\ applied.paused = w.paused /\ applied.mission = w.mission
      /\ OrderInv(applied) /\ applied.status = w.status
  BY AppliedInv, AppliedFits, AppliedOrder
<1>3. v = IF IsHeld(w, RobotOf(t)) THEN SetStatus(applied, t, kept)
          ELSE IF Emitted(applied, ticked) THEN StartNextReady(ticked) ELSE Advance(ticked)
  BY <1>1 DEF HandleCompleted
<1> HIDE DEF applied, W
<1>4. CASE IsHeld(w, RobotOf(t))
  <2>1. v = SetStatus(applied, t, kept)
    BY <1>3, <1>4
  <2>2. kept # "BLOCKED" /\ (IsGoing(applied) => kept = "RUNNING")
    BY <1>2, <1>4 DEF IsHeld, IsGoing
  <2> HIDE DEF kept
  <2>3. OrderInv(v) /\ v.mission = w.mission /\ v.paused = w.paused
    BY <1>1, <1>2, <2>1, <2>2, SetStatusOrder DEF WorldInv
  <2> QED
    BY <1>4, <2>3 DEF IsHeld, HasWork, ResultMission
<1>5. CASE ~ IsHeld(w, RobotOf(t))
  <2> HIDE DEF kept
  <2>1. v = IF Emitted(applied, ticked) THEN StartNextReady(ticked) ELSE Advance(ticked)
    BY <1>3, <1>5
  <2>2. ~ Held(applied, RobotOf(t))
    BY <1>2, <1>5 DEF Held, IsHeld
  <2>3. WorldInv(ticked, W) /\ PackageInv(ticked, W) /\ TaskStep(applied, ticked, t)
    BY <1>1, <1>2, <2>2, TickOnward
  <2>4. ticked.mission = w.mission
    BY <1>2, <2>3 DEF TaskStep
  <2>5. ASSUME IsGoing(w)
        PROVE  OrderInv(ticked) /\ (Emitted(applied, ticked) => ticked.live # {})
    <3>1. applied.status[t] \in {"RUNNING", "BLOCKED"}
      BY <1>1, <1>2, <2>5, EngagedRuns DEF OrderInv
    <3>2. OrderInv(ticked) /\ Outcome(applied, ticked, t)
      BY <1>1, <1>2, <3>1, TickOrder
    <3>3. Emitted(applied, ticked) => Working(ticked, t)
      BY <3>2 DEF Outcome, Refused, Delivered, Emitted
    <3> QED
      BY <1>1, <2>3, <3>2, <3>3, WorkingIsLive
  <2>6. ~ IsGoing(w) => OrderInv(ticked)
    BY <2>4 DEF OrderInv, IsGoing
  <2> HIDE DEF ticked
  <2>7. CASE Emitted(applied, ticked)
    <3>1. v = StartNextReady(ticked)
      BY <2>1, <2>7
    <3>2. /\ OrderInv(v) /\ v.mission = w.mission /\ ticked.live \subseteq v.live
      BY <2>3, <2>4, <2>5, <2>6, <3>1, StartNextReadyOrder
    <3>3. HasWork(v)
      BY <2>5, <2>7, <3>2 DEF HasWork, IsGoing
    <3> QED
      BY <3>2, <3>3 DEF ResultMission
  <2>8. CASE ~ Emitted(applied, ticked)
    <3>1. v = Advance(ticked)
      BY <2>1, <2>8
    <3> QED
      BY <2>3, <2>4, <2>5, <2>6, <3>1, AdvanceOrder DEF ResultMission
  <2> QED
    BY <2>7, <2>8
<1> QED
  BY <1>4, <1>5

LEMMA FailTaskOrder ==
  ASSUME NEW w \in World, NEW t \in Task, NEW v, v = FailTask(w, t)
  PROVE  OrderInv(v) /\ HasWork(v) /\ v.mission = "FAILED"
<1>1. v.mission = "FAILED"
  BY DEF FailTask, SetMission, SetBlocker, SetStatus, World
<1> QED
  BY <1>1 DEF OrderInv, HasWork, IsGoing

LEMMA RetryOrder ==
  ASSUME NEW w \in World, OrderInv(w), NEW c, c.task \in Task, NEW v, v = RetryMove(w, c)
  PROVE  OrderInv(v) /\ v.live # {} /\ v.mission = w.mission
<1>1. /\ v.stage = w.stage /\ v.claim = w.claim /\ v.duty = w.duty /\ v.zone = w.zone
      /\ v.place = w.place /\ v.carrier = w.carrier /\ v.mission = w.mission
      /\ v.blocker = w.blocker
      /\ v.status = [w.status EXCEPT ![c.task] = "RUNNING"] /\ v.live # {}
  BY DEF RetryMove, CreateMove, AddCommand, SetStatus, World
<1>2. \A u \in Task : v.status[u] \in {w.status[u], "RUNNING"}
  BY <1>1, WorldFields
<1>3. IsGoing(v) => IsGoing(w) /\ NothingGivenUp(v)
  BY <1>1, <1>2 DEF OrderInv, NothingGivenUp, IsGoing
<1>4. BlockedAsBefore(w, v)
  BY <1>1, <1>2 DEF BlockedAsBefore
<1>5. FurtherOn(w, v)
  BY <1>1, SamePlaces
<1> QED
  BY <1>1, <1>3, <1>4, <1>5, OrderKept

LEMMA HandleFailedOrder ==
  ASSUME NEW w, NEW V, WorldInv(w, V), PackageInv(w, V), OrderInv(w), NEW c \in w.live,
         NEW error, NEW v, v = HandleFailed(w, c, error)
  PROVE  OrderInv(v) /\ HasWork(v) /\ ResultMission(w, v)
<1> DEFINE d == ForgetCommand(MarkTerminal(w, c), c.task)
<1>1. c.task \in Task /\ IsActiveCommand(w, c) /\ w \in World
  BY LiveCommandFacts DEF WorldInv
<1>2. d \in World /\ OrderInv(d) /\ d.mission = w.mission
  BY <1>1, DropFits, DropOrder DEF WorldInv
<1>3. v = RetryMove(d, c) \/ v = FailTask(d, c.task)
  BY <1>1 DEF HandleFailed
<1> HIDE DEF d
<1>4. CASE v = RetryMove(d, c)
  BY <1>1, <1>2, <1>4, RetryOrder DEF HasWork, ResultMission
<1>5. CASE v = FailTask(d, c.task)
  BY <1>1, <1>2, <1>5, FailTaskOrder DEF ResultMission
<1> QED
  BY <1>3, <1>4, <1>5

(* The cancellation that a pause asked for leaves its task to be ticked    *)
(* again when the mission is resumed.                                      *)
LEMMA HandleCancelledOrder ==
  ASSUME NEW w, NEW V, WorldInv(w, V), PackageInv(w, V), OrderInv(w), NEW c \in w.live,
         NEW reason, reason = "operator_abort" => ~ IsGoing(w),
         NEW v, v = HandleCancelled(w, c, reason)
  PROVE  /\ OrderInv(v) /\ ResultMission(w, v)
         /\ IF reason = "operator_pause"
            THEN v.mission = w.mission /\ ActiveTasks(v) # {} ELSE HasWork(v)
<1> DEFINE d == ForgetCommand(MarkTerminal(w, c), c.task)
           t == c.task
           kept == SetStatus(d, t, "RUNNING")
           cancelled == SetStatus(d, t, "CANCELLED")
<1>1. t \in Task /\ IsActiveCommand(w, c) /\ w \in World
  BY LiveCommandFacts DEF WorldInv
<1>2. /\ WorldInv(d, V) /\ PackageInv(d, V) /\ AtWork(d, t) /\ Engaged(d, t)
      /\ OrderInv(d) /\ d.mission = w.mission /\ d.paused = w.paused /\ d \in World
  BY <1>1, DropFits, DropOrder DEF WorldInv
<1>3. v = CASE reason = "operator_pause" -> kept
            [] reason = "operator_robot_pause" ->
                 IF RobotOf(t) \in w.paused THEN kept ELSE Advance(kept)
            [] reason = "operator_abort" -> cancelled
            [] OTHER -> FailTask(d, t)
  BY <1>1 DEF HandleCancelled
<1> HIDE DEF d
<1>4. /\ OrderInv(kept) /\ kept.mission = w.mission /\ kept.paused = w.paused
      /\ kept.status[t] = "RUNNING"
  BY <1>1, <1>2, SetStatusOrder
<1>5. WorldInv(kept, V) /\ PackageInv(kept, V)
  <2>1. "RUNNING" \in TaskStatus \ {"SUCCEEDED", "BLOCKED"}
    BY DEF TaskStatus
  <2> QED
    BY <1>1, <1>2, <2>1, SetStatusInv, SetStatusFits
<1>6. cancelled.mission = w.mission
  BY <1>2 DEF SetStatus, World
<1> HIDE DEF kept, cancelled
<1>7. CASE reason = "operator_pause"
  <2>1. v = kept
    BY <1>3, <1>7
  <2> QED
    BY <1>1, <1>4, <1>7, <2>1 DEF ActiveTasks, ResultMission
<1>8. CASE reason = "operator_robot_pause"
  <2>1. v = IF RobotOf(t) \in w.paused THEN kept ELSE Advance(kept)
    BY <1>3, <1>8
  <2>2. CASE RobotOf(t) \in w.paused
    BY <1>4, <1>8, <2>1, <2>2 DEF HasWork, ResultMission
  <2>3. CASE RobotOf(t) \notin w.paused
    <3>1. v = Advance(kept)
      BY <2>1, <2>3
    <3> QED
      BY <1>4, <1>5, <1>8, <3>1, AdvanceOrder DEF ResultMission
  <2> QED
    BY <2>2, <2>3
<1>9. CASE reason = "operator_abort"
  <2>1. v = cancelled
    BY <1>3, <1>9
  <2>2. v.mission = w.mission /\ ~ IsGoing(v)
    BY <1>6, <1>9, <2>1 DEF IsGoing
  <2> QED
    BY <1>9, <2>2 DEF OrderInv, HasWork, IsGoing, ResultMission
<1>10. CASE reason \notin {"operator_pause", "operator_robot_pause", "operator_abort"}
  <2>1. v = FailTask(d, t)
    BY <1>3, <1>10
  <2> QED
    BY <1>1, <1>2, <1>10, <2>1, FailTaskOrder DEF ResultMission
<1> QED
  BY <1>7, <1>8, <1>9, <1>10

-----------------------------------------------------------------------------
(* The operator's events.                                                  *)
LEMMA HandleStartOrder ==
  ASSUME NEW w, NEW V, WorldInv(w, V), PackageInv(w, V), OrderInv(w),
         NEW v, v = HandleStart(w)
  PROVE  /\ OrderInv(v) /\ HasWork(v) /\ v.mission # "READY"
         /\ \/ v.mission = w.mission
            \/ w.mission \in {"READY", "RUNNING"} /\ v.mission \in {"RUNNING", "COMPLETED"}
<1> DEFINE x == IF w.mission = "READY" THEN SetMission(w, "RUNNING") ELSE w
<1>1. WorldInv(x, V) /\ PackageInv(x, V)
  BY SetMissionInv, SetMissionFits DEF MissionStatus
<1>2. /\ OrderInv(x) /\ x.mission # "READY"
      /\ x.mission = IF w.mission = "READY" THEN "RUNNING" ELSE w.mission
  BY SetMissionOrder DEF WorldInv, IsGoing
<1>3. v = Advance(x)
  BY DEF HandleStart
<1> HIDE DEF x
<1>4. /\ OrderInv(v) /\ HasWork(v)
      /\ \/ v.mission = x.mission
         \/ x.mission = "RUNNING" /\ v.mission = "COMPLETED"
  BY <1>1, <1>2, <1>3, AdvanceOrder
<1> QED
  BY <1>2, <1>4

LEMMA HandleResumeOrder ==
  ASSUME NEW w, NEW V, WorldInv(w, V), PackageInv(w, V), OrderInv(w),
         NEW v, v = HandleResume(w)
  PROVE  /\ OrderInv(v)
         /\ \/ v = w
            \/ /\ w.mission = "PAUSED" /\ HasWork(v)
               /\ v.mission \in {"RUNNING", "COMPLETED"}
<1> DEFINE x == SetMission(w, "RUNNING")
<1>1. CASE w.mission = "PAUSED"
  <2>1. WorldInv(x, V) /\ PackageInv(x, V)
    BY SetMissionInv, SetMissionFits DEF MissionStatus
  <2>2. OrderInv(x) /\ x.mission = "RUNNING"
    BY <1>1, SetMissionOrder DEF WorldInv, IsGoing
  <2>3. v = Advance(x)
    BY <1>1 DEF HandleResume
  <2> HIDE DEF x
  <2> QED
    BY <1>1, <2>1, <2>2, <2>3, AdvanceOrder
<1>2. CASE w.mission # "PAUSED"
  BY <1>2 DEF HandleResume
<1> QED
  BY <1>1, <1>2

LEMMA HandleRobotResumeOrder ==
  ASSUME NEW w, NEW V, WorldInv(w, V), PackageInv(w, V), OrderInv(w), NEW r \in Robot,
         NEW v, v = HandleRobotResume(w, r)
  PROVE  /\ OrderInv(v) /\ ResultMission(w, v)
         /\ v = w \/ HasWork(v)
         /\ w.mission = "READY" => v.live = w.live
<1> DEFINE x == [w EXCEPT !.paused = @ \ {r}]
<1>1. CASE r \in w.paused
  <2> DEFINE P == w.paused \ {r}
  <2>1. x = [w EXCEPT !.paused = P] /\ P \in SUBSET Robot
    BY WorldFields DEF WorldInv
  <2> HIDE DEF P
  <2>2. WorldInv(x, V) /\ PackageInv(x, V)
    BY <2>1, SetPausedInv, SetPausedFits
  <2>3. OrderInv(x) /\ x.mission = w.mission
    BY <2>1, SetPausedOrder DEF WorldInv
  <2>4. v = Advance(x)
    BY <1>1 DEF HandleRobotResume
  <2>5. x.live = w.live
    BY DEF WorldInv, World
  <2> HIDE DEF x
  <2>6. w.mission = "READY" => v.live = w.live
    BY <2>3, <2>4, <2>5 DEF Advance
  <2> QED
    BY <2>2, <2>3, <2>4, <2>6, AdvanceOrder DEF ResultMission
<1>2. CASE r \notin w.paused
  BY <1>2 DEF HandleRobotResume, ResultMission
<1> QED
  BY <1>1, <1>2

LEMMA HoldingOrder ==
  ASSUME NEW w \in World, OrderInv(w)
  PROVE  /\ OrderInv(HandlePause(w)) /\ OrderInv(HandleAbort(w))
         /\ HandlePause(w) = w \/ (w.mission = "RUNNING" /\ HandlePause(w).mission = "PAUSED")
         /\ HandlePause(w).mission # "RUNNING"
         /\ HandleAbort(w) = w \/ HandleAbort(w).mission = "ABORTED"
         /\ HandleAbort(w) = w => w.mission \in {"COMPLETED", "ABORTED"}
         /\ \A r \in Robot : /\ OrderInv(HandleRobotPause(w, r))
                             /\ HandleRobotPause(w, r).mission = w.mission
                             /\ HandleRobotPause(w, r).live = w.live
                             /\ HandleRobotPause(w, r).paused # {}
<1>1. /\ OrderInv(HandlePause(w))
      /\ HandlePause(w) = w \/ (w.mission = "RUNNING" /\ HandlePause(w).mission = "PAUSED")
      /\ HandlePause(w).mission # "RUNNING"
  BY SetMissionOrder DEF HandlePause, IsGoing
<1>2. /\ OrderInv(HandleAbort(w))
      /\ HandleAbort(w) = w \/ HandleAbort(w).mission = "ABORTED"
      /\ HandleAbort(w) = w => w.mission \in {"COMPLETED", "ABORTED"}
  <2> DEFINE v == HandleAbort(w)
  <2>1. CASE w.mission \in {"READY", "RUNNING", "PAUSED", "FAILED"}
    <3>1. v = SetMission(CancelUnfinished(w), "ABORTED")
      BY <2>1 DEF HandleAbort
    <3>2. v.mission = "ABORTED"
      BY <3>1 DEF SetMission, CancelUnfinished, World
    <3> HIDE DEF v
    <3>3. OrderInv(v)
      BY <3>2 DEF OrderInv, IsGoing
    <3> QED
      BY <2>1, <3>2, <3>3 DEF v
  <2>2. CASE w.mission \notin {"READY", "RUNNING", "PAUSED", "FAILED"}
    <3>1. w.mission \in {"COMPLETED", "ABORTED"}
      BY <2>2, WorldFields DEF MissionStatus
    <3> QED
      BY <2>2, <3>1 DEF HandleAbort
  <2> QED
    BY <2>1, <2>2
<1>3. ASSUME NEW r \in Robot
      PROVE  /\ OrderInv(HandleRobotPause(w, r))
             /\ HandleRobotPause(w, r).mission = w.mission
             /\ HandleRobotPause(w, r).live = w.live
             /\ HandleRobotPause(w, r).paused # {}
  <2> DEFINE P == w.paused \cup {r}
             v == HandleRobotPause(w, r)
  <2>1. v = [w EXCEPT !.paused = P] /\ P # {}
    BY DEF HandleRobotPause
  <2>2. v.live = w.live
    BY <2>1 DEF World
  <2> HIDE DEF P, v
  <2>3. OrderInv(v) /\ v.mission = w.mission /\ v.paused # {}
    BY <2>1, SetPausedOrder
  <2> QED
    BY <2>2, <2>3 DEF v
<1> QED
  BY <1>1, <1>2, <1>3

-----------------------------------------------------------------------------
(* The invariant holds in the beginning and whatever happens.              *)
LEMMA InitOrder == Init => MissionProgressInv
<1> SUFFICES ASSUME Init PROVE MissionProgressInv
  OBVIOUS
<1>1. /\ world.mission = "READY" /\ world.live = {} /\ cancels = {}
      /\ world.status = [t \in Task |-> "PENDING"]
      /\ world.stage = [t \in Task |-> "ClaimRobot"]
      /\ world.duty = [r \in Robot |-> "IDLE"]
  BY DEF Init, InitialWorld
<1>2. ASSUME NEW p \in Item
      PROVE  /\ world.stage[<<p, Inbound>>] = "ClaimRobot"
             /\ world.stage[<<p, Outbound>>] = "ClaimRobot"
  BY <1>1, LegFacts
<1>3. OrderInv(world)
  BY <1>1, <1>2 DEF OrderInv, NothingGivenUp, UnclaimedIsIdle, BroughtInOrder, SentForTheNext,
     FetchedInOrder, ObstaclesAreNamed
<1> QED
  BY <1>1, <1>3 DEF MissionProgressInv, HasTask, ReadyIsQuiet, AbortIsOver

(* A callback leaves the state v behind.                                   *)
LEMMA BecomesOrder ==
  ASSUME Inv', PackagesInv', NEW v, NEW requests, NEW arrived, Becomes(v, requests, arrived),
         OrderInv(v), HasTask(v) \/ HasWork(v), v.mission = "READY" => v.live = {},
         \/ v.live = {}
         \/ v.mission \in {"ABORTED", "FAILED"}
         \/ \A q \in requests : q.reason # "operator_abort"
  PROVE  MissionProgressInv'
<1>1. world' = v /\ cancels' = StillOpen(requests, v)
  BY DEF Becomes
<1>2. WorldInv(v, visitors') /\ PackageInv(v, visitors')
  BY <1>1 DEF Inv, PackagesInv
<1>3. HasTask(v)
  BY <1>2, WorkIsATask
<1>4. v.live = {} => cancels' = {}
  BY <1>1 DEF StillOpen
<1>5. ReadyIsQuiet' /\ AbortIsOver'
  BY <1>1, <1>4 DEF ReadyIsQuiet, AbortIsOver, StillOpen
<1> QED
  BY <1>1, <1>3, <1>5 DEF MissionProgressInv

(* A completed mission has nothing under way.                              *)
LEMMA CompletedIsQuiet ==
  ASSUME NEW w, NEW V, WorldInv(w, V), PackageInv(w, V), AllSucceeded(w)
  PROVE  w.live = {}
<1> SUFFICES ASSUME NEW c \in w.live PROVE FALSE
  OBVIOUS
<1>1. c.task \in Task /\ Engaged(w, c.task)
  BY LiveCommandFacts
<1> QED
  BY <1>1 DEF AllSucceeded, PackageInv, TaskFits, Engaged

LEMMA OperatorOrder ==
  ASSUME Inv, PackagesInv, MissionProgressInv, Inv', PackagesInv',
         \/ OperatorStart \/ OperatorPause \/ OperatorResume \/ OperatorAbort
         \/ \E r \in Robot : OperatorRobotPause(r) \/ OperatorRobotResume(r)
  PROVE  MissionProgressInv'
<1>1. /\ WorldInv(world, visitors) /\ PackageInv(world, visitors) /\ world \in World
      /\ OrderInv(world) /\ HasTask(world)
      /\ world.mission = "READY" => world.live = {}
      /\ \/ world.mission \in {"ABORTED", "FAILED"}
         \/ \A q \in cancels : q.reason # "operator_abort"
  BY DEF Inv, PackagesInv, WorldInv, MissionProgressInv, ReadyIsQuiet, AbortIsOver
<1>2. CASE OperatorStart
  <2> DEFINE v == HandleStart(world)
  <2>1. /\ OrderInv(v) /\ HasWork(v) /\ v.mission # "READY"
        /\ v.mission = world.mission \/ world.mission \in {"READY", "RUNNING"}
    BY <1>1, HandleStartOrder
  <2>2. Becomes(v, cancels, {})
    BY <1>2 DEF OperatorStart
  <2> HIDE DEF v
  <2> QED
    BY <1>1, <2>1, <2>2, BecomesOrder
<1>3. CASE OperatorPause
  <2> DEFINE v == HandlePause(world)
             requests == cancels \cup MoveCancellations(v, "operator_pause", Robot)
  <2>1. OrderInv(v) /\ (v = world \/ (world.mission = "RUNNING" /\ v.mission = "PAUSED"))
    BY <1>1, HoldingOrder
  <2>2. Becomes(v, requests, {})
    BY <1>3 DEF OperatorPause
  <2> HIDE DEF v
  <2>3. HasTask(v)
    BY <1>1, <2>1 DEF HasTask
  <2>4. \A q \in requests : q \in cancels \/ q.reason # "operator_abort"
    BY DEF MoveCancellations
  <2> HIDE DEF requests
  <2> QED
    BY <1>1, <2>1, <2>2, <2>3, <2>4, BecomesOrder
<1>4. CASE OperatorResume
  <2> DEFINE v == HandleResume(world)
  <2>1. /\ OrderInv(v)
        /\ \/ v = world
           \/ /\ world.mission = "PAUSED" /\ HasWork(v)
              /\ v.mission \in {"RUNNING", "COMPLETED"}
    BY <1>1, HandleResumeOrder
  <2>2. Becomes(v, cancels, {})
    BY <1>4 DEF OperatorResume
  <2> HIDE DEF v
  <2> QED
    BY <1>1, <2>1, <2>2, BecomesOrder
<1>5. CASE OperatorAbort
  <2> DEFINE v == HandleAbort(world)
             requests == cancels \cup MoveCancellations(v, "operator_abort", Robot)
  <2>1. /\ OrderInv(v)
        /\ v = world \/ v.mission = "ABORTED"
        /\ v = world => world.mission \in {"COMPLETED", "ABORTED"}
    BY <1>1, HoldingOrder
  <2>2. Becomes(v, requests, {})
    BY <1>5 DEF OperatorAbort
  <2> HIDE DEF v
  <2> HIDE DEF requests
  <2>3. world.mission = "COMPLETED" => world.live = {}
    BY <1>1, CompletedIsQuiet DEF PackageInv, MissionFits
  <2>4. HasTask(v)
    BY <1>1, <2>1 DEF HasTask
  <2> QED
    BY <1>1, <2>1, <2>2, <2>3, <2>4, BecomesOrder
<1>6. ASSUME NEW r \in Robot, OperatorRobotPause(r) PROVE MissionProgressInv'
  <2> DEFINE v == HandleRobotPause(world, r)
             requests == cancels \cup MoveCancellations(v, "operator_robot_pause", {r})
  <2>1. /\ OrderInv(v) /\ v.mission = world.mission /\ v.live = world.live
        /\ v.paused # {}
    BY <1>1, HoldingOrder
  <2>2. Becomes(v, requests, {})
    BY <1>6 DEF OperatorRobotPause
  <2> HIDE DEF v
  <2>3. HasTask(v)
    BY <2>1 DEF HasTask
  <2>4. \A q \in requests : q \in cancels \/ q.reason # "operator_abort"
    BY DEF MoveCancellations
  <2> HIDE DEF requests
  <2> QED
    BY <1>1, <2>1, <2>2, <2>3, <2>4, BecomesOrder
<1>7. ASSUME NEW r \in Robot, OperatorRobotResume(r) PROVE MissionProgressInv'
  <2> DEFINE v == HandleRobotResume(world, r)
  <2>1. /\ OrderInv(v) /\ ResultMission(world, v)
        /\ v = world \/ HasWork(v)
        /\ world.mission = "READY" => v.live = world.live
    BY <1>1, HandleRobotResumeOrder
  <2>2. Becomes(v, cancels, {})
    BY <1>7 DEF OperatorRobotResume
  <2> HIDE DEF v
  <2>3. HasTask(v) \/ HasWork(v)
    BY <1>1, <2>1
  <2>4. v.mission = "READY" => v.live = {}
    BY <1>1, <2>1 DEF ResultMission
  <2> QED
    BY <1>1, <2>1, <2>2, <2>3, <2>4, BecomesOrder DEF ResultMission
<1> QED
  BY <1>2, <1>3, <1>4, <1>5, <1>6, <1>7

(* The mission after a result, and the requests that are still open.       *)
LEMMA ResultOrder ==
  ASSUME Inv, PackagesInv, MissionProgressInv, NEW c \in world.live, Result(c)
  PROVE  /\ OrderInv(world') /\ ResultMission(world, world')
         /\ \E arrived : Becomes(world', cancels, arrived)
         /\ \/ HasWork(world')
            \/ /\ world'.mission = world.mission /\ ActiveTasks(world') # {}
               /\ \E q \in cancels : q.reason = "operator_pause"
<1>1. /\ WorldInv(world, visitors) /\ PackageInv(world, visitors) /\ OrderInv(world)
      /\ IsZoneMove(c) => RobotOf(c.task) \in visitors
  BY DEF Inv, PackagesInv, MissionProgressInv
<1>2. ASSUME NEW v, NEW arrived, Becomes(v, cancels, arrived)
      PROVE  world' = v /\ Becomes(world', cancels, arrived)
  BY <1>2 DEF Becomes
<1>3. CASE ResultSucceeded(c)
  <2> DEFINE v == HandleCompleted(world, c)
             arrived == IF LeavesZone(c) THEN {RobotOf(c.task)} ELSE {}
  <2>1. OrderInv(v) /\ HasWork(v) /\ ResultMission(world, v)
    BY <1>1, HandleCompletedOrder
  <2>2. Becomes(v, cancels, arrived)
    BY <1>3 DEF ResultSucceeded
  <2> HIDE DEF v, arrived
  <2>3. world' = v /\ Becomes(world', cancels, arrived)
    BY <1>2, <2>2
  <2> QED
    BY <2>1, <2>3
<1>4. CASE ResultUnverified(c) \/ ResultFailed(c)
  <2>1. PICK error : Becomes(HandleFailed(world, c, error), cancels, {})
    BY <1>4 DEF ResultUnverified, ResultFailed
  <2> DEFINE v == HandleFailed(world, c, error)
  <2>2. OrderInv(v) /\ HasWork(v) /\ ResultMission(world, v)
    BY <1>1, HandleFailedOrder
  <2>3. Becomes(v, cancels, {})
    BY <2>1
  <2> HIDE DEF v
  <2>4. world' = v /\ Becomes(world', cancels, {})
    BY <1>2, <2>3
  <2> QED
    BY <2>2, <2>4
<1>5. CASE ResultCancelled(c) \/ ResultCancelledElsewhere(c)
  <2>1. PICK reason : /\ Becomes(HandleCancelled(world, c, reason), cancels, {})
                      /\ reason = "cancelled" \/ \E q \in cancels : q.reason = reason
    BY <1>5 DEF ResultCancelled, ResultCancelledElsewhere
  <2> DEFINE v == HandleCancelled(world, c, reason)
  <2>2. reason = "operator_abort" => ~ IsGoing(world)
    BY <2>1 DEF MissionProgressInv, AbortIsOver, IsGoing
  <2>3. /\ OrderInv(v) /\ ResultMission(world, v)
        /\ IF reason = "operator_pause"
           THEN v.mission = world.mission /\ ActiveTasks(v) # {} ELSE HasWork(v)
    BY <1>1, <2>2, HandleCancelledOrder
  <2>4. Becomes(v, cancels, {})
    BY <2>1
  <2> HIDE DEF v
  <2>5. world' = v /\ Becomes(world', cancels, {})
    BY <1>2, <2>4
  <2> QED
    BY <2>1, <2>3, <2>5
<1> QED
  BY <1>3, <1>4, <1>5 DEF Result

LEMMA StepOrder ==
  ASSUME Inv, PackagesInv, MissionProgressInv, Inv', PackagesInv', [Next]_vars
  PROVE  MissionProgressInv'
<1>1. CASE UNCHANGED vars
  BY <1>1 DEF vars, MissionProgressInv, ReadyIsQuiet, AbortIsOver
<1>2. ASSUME NEW c \in world.live, Result(c) PROVE MissionProgressInv'
  <2>1. world.mission # "READY"
    BY DEF MissionProgressInv, ReadyIsQuiet
  <2>2. /\ OrderInv(world') /\ ResultMission(world, world')
        /\ \E arrived : Becomes(world', cancels, arrived)
        /\ HasWork(world') \/ ActiveTasks(world') # {}
    BY <1>2, ResultOrder
  <2>3. HasTask(world') \/ HasWork(world')
    BY <2>2 DEF HasTask
  <2>4. \/ world'.mission \in {"ABORTED", "FAILED"}
        \/ \A q \in cancels : q.reason # "operator_abort"
    BY <2>2 DEF MissionProgressInv, AbortIsOver, ResultMission
  <2>5. world'.mission # "READY"
    BY <2>1, <2>2 DEF ResultMission
  <2> QED
    BY <2>2, <2>3, <2>4, <2>5, BecomesOrder
<1>3. CASE \/ OperatorStart \/ OperatorPause \/ OperatorResume \/ OperatorAbort
           \/ \E r \in Robot : OperatorRobotPause(r) \/ OperatorRobotResume(r)
  BY <1>3, OperatorOrder
<1> QED
  BY <1>1, <1>2, <1>3 DEF Next

(* The order of the mission and what it has to do, for every number of     *)
(* packages and whatever the operator does: a running mission with no      *)
(* robot paused has a task in work until all have succeeded, nobody waits  *)
(* at the zone but for the package that comes next, and an abort's         *)
(* cancellations are open only in a mission that is over.                  *)
THEOREM ProgressInvariance == Spec => []MissionProgressInv
<1>1. Inv /\ PackagesInv /\ MissionProgressInv /\ Inv' /\ PackagesInv' /\ [Next]_vars
        => MissionProgressInv'
  BY StepOrder
<1> QED
  BY <1>1, InitOrder, Invariance, PackageInvariance, PTL DEF Spec

-----------------------------------------------------------------------------
(* The phase shown.                                                        *)
LEMMA PhasesAreNamed ==
  ASSUME NEW w \in World, NEW t \in Task
  PROVE  /\ Phase(w, t) \in {"NOT_STARTED", "WAIT_FOR_RESOURCE", "MOVE_TO_WAIT_POINT",
                             "MOVE_TO_PICKUP", "LOAD_ITEM", "MOVE_TO_DROPOFF",
                             "UNLOAD_ITEM", "MOVE_TO_TRANSFER_EXIT", "DONE"}
         /\ Phase(w, t) = "DONE" => w.stage[t] = "Done"
         /\ PhaseForTask(w, t) # "idle"
         /\ PhaseForTask(w, t) = "mission_complete" => w.stage[t] = "Done"
<1>1. w.stage[t] \in Stage
  BY WorldFields
<1>2. /\ Phase(w, t) \in {"NOT_STARTED", "WAIT_FOR_RESOURCE", "MOVE_TO_WAIT_POINT",
                          "MOVE_TO_PICKUP", "LOAD_ITEM", "MOVE_TO_DROPOFF",
                          "UNLOAD_ITEM", "MOVE_TO_TRANSFER_EXIT", "DONE"}
      /\ Phase(w, t) = "DONE" => w.stage[t] = "Done"
  BY <1>1 DEF Phase, Stage
<1>3. /\ PhaseForTask(w, t) # "idle"
      /\ PhaseForTask(w, t) = "mission_complete" => Phase(w, t) = "DONE"
  BY <1>2 DEF PhaseForTask
<1> QED
  BY <1>2, <1>3

LEMMA ActiveTaskMember ==
  ASSUME NEW w, ActiveTasks(w) # {}
  PROVE  ActiveTask(w) \in Task /\ w.status[ActiveTask(w)] \in {"RUNNING", "BLOCKED"}
<1>1. ActiveTasks(w) \in SUBSET Task
  BY DEF ActiveTasks
<1>2. ActiveTask(w) \in ActiveTasks(w)
  BY <1>1, FirstInDictMember DEF ActiveTask
<1> QED
  BY <1>2 DEF ActiveTasks

(* All tasks succeeded: everything is delivered, everybody free.           *)
LEMMA SuccessIsComplete ==
  ASSUME NEW w, NEW V, WorldInv(w, V), PackageInv(w, V), AllSucceeded(w)
  PROVE  /\ DeliveredCount(w) = NumPackages
         /\ \A p \in Item : PackageStatus(w, p) = "delivered"
         /\ ActiveCommandCount(w) = 0 /\ BlockedTaskCount(w) = 0
         /\ \A r \in Robot : RobotState(w, r) \in {"idle", "paused"}
<1>1. \A t \in Task : w.stage[t] = "Done"
  BY DEF AllSucceeded, PackageInv, TaskFits
<1>2. ASSUME NEW p \in Item PROVE IsItemAt(w, p, "destination")
  <2> DEFINE t == <<p, Outbound>>
  <2>1. t \in Task /\ ItemOf(t) = p /\ Origin(t) = 2 /\ DropoffOf(t) = "destination"
    BY LegFacts DEF DropoffOf, LegOf, Inbound, Outbound
  <2> HIDE DEF t
  <2>2. StageFits("Done", 2, Position(w, p)) /\ Position(w, p) \in 0 .. 4
    BY <1>1, <2>1, PositionFacts DEF Position
  <2>3. Position(w, p) = 2 + 2
    BY <2>2 DEF StageFits
  <2>4. IsUnloaded(w, t)
    BY <2>1, <2>3, PositionFacts
  <2> QED
    BY <2>1, <2>4 DEF IsUnloaded
<1>3. DeliveredCount(w) = NumPackages
  <2>1. {p \in Item : IsItemAt(w, p, "destination")} = 1 .. NumPackages
    BY <1>2 DEF Item
  <2>2. Cardinality(1 .. NumPackages) = NumPackages
    <3>1. NumPackages \in Int /\ 1 \in Int /\ NumPackages >= 1
      BY PackagesAssumption
    <3>2. Cardinality(1 .. NumPackages) = IF 1 > NumPackages THEN 0 ELSE NumPackages - 1 + 1
      BY <3>1, FS_Interval
    <3> QED
      BY <3>1, <3>2
  <2> QED
    BY <2>1, <2>2 DEF DeliveredCount
<1>4. \A p \in Item : PackageStatus(w, p) = "delivered"
  BY <1>2 DEF PackageStatus, IsItemAt, Zone
<1>5. ActiveCommandCount(w) = 0
  BY CompletedIsQuiet, FS_EmptySet DEF ActiveCommandCount
<1>6. BlockedTaskCount(w) = 0
  <2>1. {t \in Task : WaitsForResource(w, t)} = {}
    BY <1>1 DEF WaitsForResource
  <2> QED
    BY <2>1, FS_EmptySet DEF BlockedTaskCount
<1>7. ASSUME NEW r \in Robot PROVE RobotState(w, r) \in {"idle", "paused"}
  <2>1. w.claim[r] \in Task \cup {NoTask}
    BY WorldFields DEF WorldInv
  <2>2. w.claim[r] = NoTask
    BY <1>1, <2>1 DEF WorldInv, TaskInv, Engaged
  <2> QED
    BY <2>2 DEF RobotState
<1> QED
  BY <1>3, <1>4, <1>5, <1>6, <1>7

(* What the dashboard says of the mission as a whole is true, for every    *)
(* number of packages and whatever the operator does: complete is shown    *)
(* only of a mission that has delivered everything, and a mission that     *)
(* runs with tasks unfinished is never shown as idle or without a next     *)
(* step.                                                                   *)
THEOREM PhaseHolds == Spec => []PhaseIsTruthful
<1>1. Inv /\ PackagesInv /\ MissionProgressInv => PhaseIsTruthful
  <2> SUFFICES ASSUME Inv, PackagesInv, MissionProgressInv PROVE PhaseIsTruthful
    OBVIOUS
  <2>1. /\ WorldInv(world, visitors) /\ PackageInv(world, visitors) /\ world \in World
        /\ HasTask(world)
    BY DEF Inv, PackagesInv, WorldInv, MissionProgressInv
  <2> DEFINE t == ActiveTask(world)
  <2>2. ASSUME ActiveTasks(world) # {}
        PROVE  MissionPhase(world) \notin {"mission_complete", "idle"} /\ NextStep(world) # "none"
    <3>1. t \in Task /\ world.status[t] \in {"RUNNING", "BLOCKED"}
      BY <2>2, ActiveTaskMember
    <3>2. world.stage[t] # "Done"
      BY <2>1, <3>1 DEF PackageInv, TaskFits
    <3>3. /\ PhaseForTask(world, t) \notin {"mission_complete", "idle"}
          /\ Phase(world, t) # "none"
      BY <2>1, <3>1, <3>2, PhasesAreNamed
    <3> HIDE DEF t
    <3>4. MissionPhase(world) = IF world.status[t] = "BLOCKED" THEN "waiting_at_transfer_zone"
                                ELSE PhaseForTask(world, t)
      BY <2>2 DEF MissionPhase, t
    <3>5. NextStep(world) = IF NextExpectedEvent(world, t) # "none"
                            THEN NextExpectedEvent(world, t) ELSE Phase(world, t)
      BY <2>2 DEF NextStep, t
    <3> QED
      BY <3>3, <3>4, <3>5
  <2>3. MissionPhase(world) = "mission_complete" => AllSucceeded(world)
    BY <2>2 DEF MissionPhase
  <2>4. world.mission = "RUNNING" /\ world.paused = {} /\ ~ AllSucceeded(world) =>
          ActiveTasks(world) # {}
    BY <2>1 DEF HasTask
  <2> QED
    BY <2>1, <2>2, <2>3, <2>4, SuccessIsComplete DEF PhaseIsTruthful
<1> QED
  BY <1>1, Invariance, PackageInvariance, ProgressInvariance, PTL

-----------------------------------------------------------------------------
(* The deadlock of v_resume_strands comes of an impatient operator only.   *)
LEMMA InitWork == Init => WorkInv
BY DEF Init, InitialWorld, WorkInv, HasWork

(* A callback that leaves the state v behind, and requests of its own for  *)
(* other reasons than a pause.                                             *)
LEMMA BecomesWork ==
  ASSUME MissionProgressInv, WorkInv,
         NEW v, NEW requests, NEW arrived, Becomes(v, requests, arrived), HasWork(v),
         v.mission = "PAUSED" => "pause" \in OperatorCommands,
         v.mission = "RUNNING" =>
           /\ \A q \in requests : q \in cancels \/ q.reason # "operator_pause"
           /\ \/ world.mission \in {"READY", "RUNNING"}
              \/ \A q \in cancels : q.reason # "operator_pause"
  PROVE  WorkInv'
<1>1. world' = v /\ cancels' \subseteq requests
  BY DEF Becomes, StillOpen
<1>2. world.mission \in {"READY", "RUNNING"} =>
        \A q \in cancels : q.reason # "operator_pause"
  BY DEF WorkInv, MissionProgressInv, ReadyIsQuiet
<1> QED
  BY <1>1, <1>2 DEF WorkInv

LEMMA StepWork ==
  ASSUME ResumesArePatient, Inv, PackagesInv, MissionProgressInv, WorkInv, [Next]_vars
  PROVE  WorkInv'
<1>1. /\ WorldInv(world, visitors) /\ PackageInv(world, visitors) /\ world \in World
      /\ OrderInv(world) /\ HasWork(world)
      /\ world.mission = "PAUSED" => "pause" \in OperatorCommands
  BY DEF Inv, PackagesInv, WorldInv, MissionProgressInv, WorkInv
<1>2. CASE UNCHANGED vars
  BY <1>2 DEF vars, WorkInv
<1>3. ASSUME NEW c \in world.live, Result(c) PROVE WorkInv'
  <2>1. /\ ResultMission(world, world')
        /\ \/ HasWork(world')
           \/ world'.mission = world.mission /\ \E q \in cancels : q.reason = "operator_pause"
    BY <1>3, ResultOrder
  <2>2. PICK arrived : Becomes(world', cancels, arrived)
    BY <1>3, ResultOrder
  <2>3. HasWork(world')
    BY <2>1 DEF WorkInv, HasWork
  <2> QED
    BY <1>1, <2>1, <2>2, <2>3, BecomesWork DEF ResultMission
<1>4. CASE OperatorStart
  <2> DEFINE v == HandleStart(world)
  <2>1. /\ HasWork(v)
        /\ \/ v.mission = world.mission
           \/ world.mission \in {"READY", "RUNNING"} /\ v.mission \in {"RUNNING", "COMPLETED"}
    BY <1>1, HandleStartOrder
  <2>2. Becomes(v, cancels, {})
    BY <1>4 DEF OperatorStart
  <2> HIDE DEF v
  <2> QED
    BY <1>1, <2>1, <2>2, BecomesWork
<1>5. CASE OperatorPause
  <2> DEFINE v == HandlePause(world)
             requests == cancels \cup MoveCancellations(v, "operator_pause", Robot)
  <2>1. v.mission # "RUNNING"
    BY <1>1, HoldingOrder
  <2>2. Becomes(v, requests, {}) /\ "pause" \in OperatorCommands
    BY <1>5 DEF OperatorPause
  <2> HIDE DEF v
  <2> HIDE DEF requests
  <2> QED
    BY <1>1, <2>1, <2>2, BecomesWork DEF HasWork
<1>6. CASE OperatorResume
  <2> DEFINE v == HandleResume(world)
  <2>1. \/ v = world
        \/ /\ world.mission = "PAUSED" /\ HasWork(v)
           /\ v.mission \in {"RUNNING", "COMPLETED"}
    BY <1>1, HandleResumeOrder
  <2>2. Becomes(v, cancels, {})
    BY <1>6 DEF OperatorResume
  <2> HIDE DEF v
  <2>3. world.mission = "PAUSED" => \A q \in cancels : q.reason # "operator_pause"
    BY <1>1, <1>6 DEF OperatorResume, ResumesArePatient
  <2> QED
    BY <1>1, <2>1, <2>2, <2>3, BecomesWork
<1>7. CASE OperatorAbort
  <2> DEFINE v == HandleAbort(world)
             requests == cancels \cup MoveCancellations(v, "operator_abort", Robot)
  <2>1. /\ v = world \/ v.mission = "ABORTED"
        /\ v = world => world.mission \in {"COMPLETED", "ABORTED"}
    BY <1>1, HoldingOrder
  <2>2. Becomes(v, requests, {})
    BY <1>7 DEF OperatorAbort
  <2> HIDE DEF v
  <2> HIDE DEF requests
  <2> QED
    BY <2>1, <2>2, BecomesWork DEF HasWork
<1>8. ASSUME NEW r \in Robot, OperatorRobotPause(r) PROVE WorkInv'
  <2> DEFINE v == HandleRobotPause(world, r)
             requests == cancels \cup MoveCancellations(v, "operator_robot_pause", {r})
  <2>1. v.mission = world.mission /\ v.paused # {}
    BY <1>1, HoldingOrder
  <2>2. Becomes(v, requests, {})
    BY <1>8 DEF OperatorRobotPause
  <2>3. \A q \in requests : q \in cancels \/ q.reason # "operator_pause"
    BY DEF MoveCancellations
  <2> HIDE DEF v
  <2> HIDE DEF requests
  <2> QED
    BY <1>1, <2>1, <2>2, <2>3, BecomesWork DEF HasWork
<1>9. ASSUME NEW r \in Robot, OperatorRobotResume(r) PROVE WorkInv'
  <2> DEFINE v == HandleRobotResume(world, r)
  <2>1. /\ ResultMission(world, v)
        /\ v = world \/ HasWork(v)
    BY <1>1, HandleRobotResumeOrder
  <2>2. Becomes(v, cancels, {})
    BY <1>9 DEF OperatorRobotResume
  <2> HIDE DEF v
  <2> QED
    BY <1>1, <2>1, <2>2, BecomesWork DEF ResultMission
<1> QED
  BY <1>2, <1>3, <1>4, <1>5, <1>6, <1>7, <1>8, <1>9 DEF Next

(* If the operator resumes a paused mission only when the cancellations of *)
(* its pause were answered, none of them is open while the mission runs.   *)
LEMMA WorkInvariance == ResumesArePatient => (Spec => []WorkInv)
<1>1. ASSUME ResumesArePatient PROVE Spec => []WorkInv
  <2>1. ASSUME Inv, PackagesInv, MissionProgressInv, WorkInv, [Next]_vars PROVE WorkInv'
    BY <1>1, <2>1, StepWork
  <2> QED
    BY <2>1, InitWork, Invariance, PackageInvariance, ProgressInvariance, PTL DEF Spec
<1> QED
  BY <1>1

(* And then a running mission with no robot paused and a task unfinished   *)
(* always has a command under way, for every number of packages, whatever  *)
(* fails or is retried. With an operator who does not wait it may stand    *)
(* still until the operator does something (v_resume_strands).             *)
THEOREM NoDeadlock == ResumesArePatient => (Spec => []RunningMissionHasWork)
<1>1. WorkInv => RunningMissionHasWork
  BY DEF WorkInv, HasWork, RunningMissionHasWork
<1>2. ASSUME ResumesArePatient PROVE Spec => []RunningMissionHasWork
  BY <1>1, <1>2, WorkInvariance, PTL
<1> QED
  BY <1>2

(* A mission that was advanced has work, or is completed by the next start.*)
AdvancedOrDone(v) == v.live # {} \/ HandleStart(v).mission = "COMPLETED"

LEMMA AdvanceIsEnough ==
  ASSUME NEW w, NEW V, WorldInv(w, V), PackageInv(w, V), OrderInv(w),
         w.mission = "RUNNING", w.paused = {}, NEW v, v = Advance(w)
  PROVE  AdvancedOrDone(v)
<1>1. /\ HasWork(v) /\ v.paused = {} /\ v \in World
      /\ v.mission \in {"RUNNING", "COMPLETED"}
  BY AdvanceOrder DEF WorldInv
<1>2. CASE v.mission = "COMPLETED"
  BY <1>2 DEF AdvancedOrDone, HandleStart, Advance
<1>3. CASE v.mission = "RUNNING" /\ AllSucceeded(v)
  <2>1. HandleStart(v) = SetMission(v, "COMPLETED")
    BY <1>3 DEF HandleStart, Advance
  <2> QED
    BY <1>1, <2>1 DEF AdvancedOrDone, SetMission, World
<1>4. CASE v.mission = "RUNNING" /\ ~ AllSucceeded(v)
  BY <1>1, <1>4 DEF AdvancedOrDone, HasWork
<1> QED
  BY <1>1, <1>2, <1>3, <1>4

LEMMA CureIsAtHand ==
  ASSUME Inv, PackagesInv, MissionProgressInv
  PROVE  StandstillIsCurable
<1> SUFFICES ASSUME world.mission = "RUNNING", world.paused = {},
                    NEW v \in {HandleStart(world), HandleResume(HandlePause(world))}
             PROVE  AdvancedOrDone(v)
  BY DEF StandstillIsCurable, AdvancedOrDone
<1>1. /\ WorldInv(world, visitors) /\ PackageInv(world, visitors) /\ OrderInv(world)
      /\ world \in World
  BY DEF Inv, PackagesInv, MissionProgressInv, WorldInv
<1>2. CASE v = HandleStart(world)
  <2>1. v = Advance(world)
    BY <1>2 DEF HandleStart
  <2> QED
    BY <1>1, <2>1, AdvanceIsEnough
<1>3. CASE v = HandleResume(HandlePause(world))
  <2> DEFINE x == SetMission(world, "PAUSED")
             y == SetMission(x, "RUNNING")
  <2>1. /\ WorldInv(x, visitors) /\ PackageInv(x, visitors) /\ OrderInv(x)
        /\ x.mission = "PAUSED" /\ x.paused = {} /\ x \in World
    BY <1>1, SetMissionInv, SetMissionFits, SetMissionOrder DEF MissionStatus, IsGoing, WorldInv
  <2>2. HandlePause(world) = x
    BY DEF HandlePause
  <2> HIDE DEF x
  <2>3. /\ WorldInv(y, visitors) /\ PackageInv(y, visitors) /\ OrderInv(y)
        /\ y.mission = "RUNNING" /\ y.paused = {}
    BY <2>1, SetMissionInv, SetMissionFits, SetMissionOrder DEF MissionStatus, IsGoing
  <2>4. v = Advance(y)
    BY <1>3, <2>1, <2>2 DEF HandleResume
  <2> HIDE DEF y
  <2> QED
    BY <2>3, <2>4, AdvanceIsEnough
<1> QED
  BY <1>2, <1>3

(* Whatever the operator does, and whatever the robots answer or leave     *)
(* unanswered: no mission stands still for good. A running one without a   *)
(* command under way is set going by a start, or by a pause and a resume,  *)
(* or is completed by the next start. It is about _advance being run by    *)
(* handlers that change nothing else, after late cancellations and after   *)
(* completions during a pause.                                             *)
THEOREM StandstillHasCure == Spec => []StandstillIsCurable
<1> QED
  BY CureIsAtHand, Invariance, PackageInvariance, ProgressInvariance, PTL

-----------------------------------------------------------------------------
(* Without pauses the completion of the mission is never overlooked: a     *)
(* task is finished by the tick that follows the result of its last        *)
(* command, and by no other.                                               *)
Commanded(w) == \A t \in Task : w.status[t] = "RUNNING" => w.active[t] # NoCommand

LEMMA TickFinishesNothing ==
  ASSUME NEW w, NEW V, WorldInv(w, V), PackageInv(w, V), NEW t \in Task,
         \/ w.status[t] = "BLOCKED"
         \/ w.status[t] = "RUNNING" /\ w.active[t] # NoCommand,
         NEW v, v = Tick(w, t), PackageInv(v, V), TaskStep(w, v, t)
  PROVE  v.status[t] # "SUCCEEDED"
<1> SUFFICES ASSUME v.status[t] = "SUCCEEDED" PROVE FALSE
  OBVIOUS
<1> DEFINE p == ItemOf(t)
           n == Position(w, p)
           o == Origin(t)
<1>1. w.stage[t] \in Stage /\ Engaged(w, t)
  BY WorldFields DEF WorldInv, TaskInv
<1>2. Position(v, p) = n /\ n \in 0 .. 4 /\ o \in {0, 2}
  BY DEF TaskStep, Position, Origin
<1>3. StageFits("Done", o, Position(v, p)) /\ StageFits(w.stage[t], o, n)
  BY DEF PackageInv, TaskFits
<1>4. IsUnloaded(w, t) <=> n = o + 2
  BY PositionFacts DEF WorldInv
<1> HIDE DEF p, n, o
<1>5. w.stage[t] \in {"Unload", "VacateDropoff"} /\ n = o + 2
  BY <1>1, <1>2, <1>3 DEF StageFits, Stage, Engaged
<1>6. w.active[t] # NoCommand /\ w.status[t] = "RUNNING"
  BY <1>5 DEF PackageInv, TaskFits, RequestStage
<1>7. w.stage[t] = "VacateDropoff" /\ MustVacate(w, t, DropoffOf(t))
  BY <1>4, <1>5, <1>6 DEF WorldInv, CommandInv, Unfinished
<1>8. v = w
  BY <1>6, <1>7 DEF Tick, VacateDropoff, Drive
<1> QED
  BY <1>6, <1>8

LEMMA TickStaysCommanded ==
  ASSUME NEW w, NEW V, WorldInv(w, V), PackageInv(w, V), OrderInv(w), Commanded(w),
         NEW t \in Runnable(w), NEW v, v = Tick(w, t)
  PROVE  /\ WorldInv(v, V) /\ PackageInv(v, V) /\ OrderInv(v) /\ TaskStep(w, v, t)
         /\ Commanded(v) /\ ~ AllSucceeded(v)
<1>1. t \in Task /\ w.status[t] \in {"RUNNING", "BLOCKED"}
  BY DEF Runnable
<1>2. /\ WorldInv(v, V) /\ PackageInv(v, V) /\ OrderInv(v) /\ TaskStep(w, v, t)
      /\ Outcome(w, v, t)
  BY <1>1, TickOrder
<1>3. v.status[t] # "SUCCEEDED"
  BY <1>1, <1>2, TickFinishesNothing DEF Commanded
<1>4. Working(v, t) \/ v.status[t] = "BLOCKED"
  BY <1>2, <1>3 DEF Outcome, Refused, Delivered
<1>5. Commanded(v)
  BY <1>2, <1>4 DEF Commanded, TaskStep, Working
<1> QED
  BY <1>1, <1>2, <1>3, <1>5 DEF AllSucceeded

LEMMA TickRunnableStaysCommanded ==
  ASSUME NEW w, NEW V, WorldInv(w, V), PackageInv(w, V), OrderInv(w), Commanded(w),
         ~ AllSucceeded(w), NEW v, v = TickRunnable(w)
  PROVE  Commanded(v) /\ ~ AllSucceeded(v)
<1>1. CASE Runnable(w) = {}
  BY <1>1 DEF TickRunnable
<1>2. CASE Runnable(w) # {}
  <2> DEFINE first == FirstInDict(Runnable(w))
             ticked == Tick(w, first)
             others == Runnable(w) \ {first}
  <2>1. first \in Runnable(w)
    BY <1>2, FirstInDictMember DEF Runnable
  <2>2. v = IF Emitted(w, ticked) \/ others = {} THEN ticked
            ELSE Tick(ticked, FirstInDict(others))
    BY <1>2 DEF TickRunnable
  <2> HIDE DEF first
  <2>3. /\ WorldInv(ticked, V) /\ PackageInv(ticked, V) /\ OrderInv(ticked)
        /\ TaskStep(w, ticked, first) /\ Commanded(ticked) /\ ~ AllSucceeded(ticked)
    BY <2>1, TickStaysCommanded
  <2> HIDE DEF ticked
  <2>4. CASE others # {}
    <3> DEFINE second == FirstInDict(others)
    <3>1. second \in Runnable(w) /\ second # first
      BY <2>4, FirstInDictMember DEF Runnable
    <3> HIDE DEF second
    <3>2. second \in Runnable(ticked)
      BY <2>3, <3>1 DEF Runnable, TaskStep
    <3>3. Commanded(Tick(ticked, second)) /\ ~ AllSucceeded(Tick(ticked, second))
      BY <2>3, <3>2, TickStaysCommanded
    <3> QED
      BY <2>2, <2>3, <3>3 DEF second
  <2> QED
    BY <2>2, <2>3, <2>4
<1> QED
  BY <1>1, <1>2

LEMMA StartStaysCommanded ==
  ASSUME NEW w, NEW V, WorldInv(w, V), PackageInv(w, V), OrderInv(w), Commanded(w),
         ~ AllSucceeded(w), NEW v, v = StartNextReady(w)
  PROVE  RunnersAreCommanded(v)
<1>1. CASE v = w
  BY <1>1 DEF RunnersAreCommanded, Commanded
<1>2. CASE v # w
  <2>1. PICK t \in ReadyTasks(w) : TaskStep(w, v, t) /\ (Working(v, t) \/ Refused(w, v, t))
    BY <1>2, StartNextReadyOrder
  <2>2. t \in Task /\ v.status[t] # "SUCCEEDED"
    BY <2>1 DEF ReadyTasks, Working, Refused
  <2>3. Commanded(v)
    BY <2>1, <2>2 DEF Commanded, TaskStep, Working, Refused
  <2> QED
    BY <2>2, <2>3 DEF RunnersAreCommanded, Commanded, AllSucceeded
<1> QED
  BY <1>1, <1>2

LEMMA AdvanceCommands ==
  ASSUME NEW w, NEW V, WorldInv(w, V), PackageInv(w, V), OrderInv(w), Commanded(w),
         NEW v, v = Advance(w)
  PROVE  RunnersAreCommanded(v)
<1>1. CASE w.mission # "RUNNING"
  <2>1. v = w
    BY <1>1 DEF Advance
  <2> QED
    BY <1>1, <2>1 DEF RunnersAreCommanded, Commanded
<1>2. CASE w.mission = "RUNNING" /\ AllSucceeded(w)
  <2>1. v.mission = "COMPLETED"
    BY <1>2 DEF Advance, SetMission, WorldInv, World
  <2> QED
    BY <2>1 DEF RunnersAreCommanded
<1>3. CASE w.mission = "RUNNING" /\ ~ AllSucceeded(w)
  <2> DEFINE x == TickRunnable(w)
  <2>1. v = StartNextReady(x)
    BY <1>3 DEF Advance
  <2>2. /\ WorldInv(x, V) /\ PackageInv(x, V) /\ OrderInv(x)
        /\ Commanded(x) /\ ~ AllSucceeded(x)
    BY <1>3, TickRunnableOrder, TickRunnableStaysCommanded
  <2> HIDE DEF x
  <2> QED
    BY <2>1, <2>2, StartStaysCommanded
<1> QED
  BY <1>1, <1>2, <1>3

(* The results of commands. Without pauses only an abort holds a robot.    *)
LEMMA HandleCompletedCommands ==
  ASSUME NEW w, NEW V, WorldInv(w, V), PackageInv(w, V), OrderInv(w), NEW c \in w.live,
         IsZoneMove(c) => RobotOf(c.task) \in V, RunnersAreCommanded(w),
         w.mission \notin {"READY", "PAUSED"}, w.paused = {}, NEW v, v = HandleCompleted(w, c)
  PROVE  RunnersAreCommanded(v) /\ v.paused = {}
<1> DEFINE applied == ApplyCommandSuccess(MarkTerminal(w, c), c)
           t == c.task
           ticked  == Tick(applied, t)
           kept    == IF w.mission = "PAUSED" \/ RobotOf(t) \in w.paused
                      THEN "RUNNING" ELSE "CANCELLED"
           W == LeftInside(V, c)
<1>1. t \in Task /\ IsActiveCommand(w, c) /\ Engaged(w, t)
  BY LiveCommandFacts
<1>2. /\ WorldInv(applied, W) /\ PackageInv(applied, W) /\ AtWork(applied, t)
      /\ applied.paused = w.paused /\ applied.mission = w.mission
      /\ OrderInv(applied) /\ applied.status = w.status
  BY AppliedInv, AppliedFits, AppliedOrder
<1>3. \A u \in Task \ {t} : applied.active[u] = w.active[u]
  <2> DEFINE d == ForgetCommand(MarkTerminal(w, c), t)
  <2>1. w \in World /\ c.kind \in Kind
    BY LiveCommandFacts DEF WorldInv
  <2>2. IsActiveCommand(MarkTerminal(w, c), c)
    BY <1>1, <2>1 DEF IsActiveCommand, MarkTerminal, World
  <2>3. applied = CommandEffect(d, c)
    BY <2>2 DEF ApplyCommandSuccess
  <2>4. d \in World
    BY <2>1, DropFits DEF WorldInv
  <2>5. d.active = [w.active EXCEPT ![t] = NoCommand]
    BY <2>1 DEF ForgetCommand, MarkTerminal, World
  <2> HIDE DEF d
  <2>6. CommandEffect(d, c).active = d.active
    BY <2>1, <2>4 DEF CommandEffect, MoveRobot, LoadItem, UnloadItem, Kind, World
  <2> QED
    BY <2>1, <2>3, <2>5, <2>6, WorldFields
<1>4. v = IF IsHeld(w, RobotOf(t)) THEN SetStatus(applied, t, kept)
          ELSE IF Emitted(applied, ticked) THEN StartNextReady(ticked) ELSE Advance(ticked)
  BY <1>1 DEF HandleCompleted
<1> HIDE DEF applied, W
<1>5. CASE IsHeld(w, RobotOf(t))
  <2>1. v = SetStatus(applied, t, kept)
    BY <1>4, <1>5
  <2>2. v.mission = w.mission /\ v.paused = w.paused
    BY <1>2, <2>1 DEF SetStatus, WorldInv, World
  <2> QED
    BY <1>5, <2>2 DEF IsHeld, RunnersAreCommanded
<1>6. CASE ~ IsHeld(w, RobotOf(t))
  <2> HIDE DEF kept
  <2>1. v = IF Emitted(applied, ticked) THEN StartNextReady(ticked) ELSE Advance(ticked)
    BY <1>4, <1>6
  <2>2. ~ Held(applied, RobotOf(t))
    BY <1>2, <1>6 DEF Held, IsHeld
  <2>3. WorldInv(ticked, W) /\ PackageInv(ticked, W) /\ TaskStep(applied, ticked, t)
    BY <1>1, <1>2, <2>2, TickOnward
  <2>4. ticked.mission = w.mission /\ ticked.paused = {}
    BY <1>2, <2>3 DEF TaskStep
  <2>5. CASE w.mission # "RUNNING"
    <3>1. ~ IsGoing(w)
      BY <2>5 DEF IsGoing
    <3>2. OrderInv(ticked)
      BY <2>4, <3>1 DEF OrderInv, IsGoing
    <3> HIDE DEF ticked
    <3>3. CASE v = StartNextReady(ticked)
      BY <2>3, <2>4, <2>5, <3>2, <3>3, StartNextReadyOrder
         DEF RunnersAreCommanded
    <3>4. CASE v = Advance(ticked)
      <4>1. v = ticked
        BY <2>4, <2>5, <3>4 DEF Advance
      <4> QED
        BY <2>4, <2>5, <4>1 DEF RunnersAreCommanded
    <3> QED
      BY <2>1, <3>3, <3>4
  <2>6. CASE w.mission = "RUNNING"
    <3>1. applied.status[t] \in {"RUNNING", "BLOCKED"}
      BY <1>1, <1>2, <2>6, EngagedRuns DEF OrderInv, IsGoing
    <3>2. OrderInv(ticked) /\ Outcome(applied, ticked, t)
      BY <1>1, <1>2, <3>1, TickOrder
    <3> HIDE DEF ticked
    <3>3. \A u \in Task \ {t} : ticked.status[u] = "RUNNING" => ticked.active[u] # NoCommand
      BY <1>2, <1>3, <2>3, <2>6 DEF TaskStep, RunnersAreCommanded
    <3>4. Commanded(ticked)
      BY <3>2, <3>3 DEF Outcome, Working, Refused, Delivered, Commanded
    <3>5. Emitted(applied, ticked) => ~ AllSucceeded(ticked)
      BY <1>1, <3>2 DEF Outcome, Working, Refused, Delivered, Emitted, AllSucceeded
    <3>6. CASE Emitted(applied, ticked)
      BY <2>1, <2>3, <2>4, <3>2, <3>4, <3>5, <3>6, StartStaysCommanded, StartNextReadyOrder
    <3>7. CASE ~ Emitted(applied, ticked)
      BY <2>1, <2>3, <2>4, <3>2, <3>4, <3>7, AdvanceCommands, AdvanceOrder
    <3> QED
      BY <3>6, <3>7
  <2> QED
    BY <2>5, <2>6
<1> QED
  BY <1>5, <1>6

LEMMA HandleFailedCommands ==
  ASSUME NEW w, NEW V, WorldInv(w, V), PackageInv(w, V), NEW c \in w.live,
         RunnersAreCommanded(w), w.mission \notin {"READY", "PAUSED"},
         NEW error, NEW v, v = HandleFailed(w, c, error)
  PROVE  RunnersAreCommanded(v) /\ v.mission # "PAUSED" /\ v.paused = w.paused
<1> DEFINE d == ForgetCommand(MarkTerminal(w, c), c.task)
           t == c.task
<1>1. /\ t \in Task /\ IsActiveCommand(w, c) /\ w \in World /\ w.next # NoCommand
  BY LiveCommandFacts DEF WorldInv, CommandInv
<1>2. /\ d \in World /\ d.mission = w.mission /\ d.paused = w.paused /\ d.status = w.status
  BY <1>1, DropFits DEF WorldInv
<1>3. d.next = w.next /\ d.active = [w.active EXCEPT ![t] = NoCommand]
  BY <1>1 DEF ForgetCommand, MarkTerminal, World
<1>4. v = RetryMove(d, c) \/ v = FailTask(d, t)
  BY <1>1 DEF HandleFailed
<1> HIDE DEF d
<1>5. CASE v = RetryMove(d, c)
  <2>1. /\ v.mission = w.mission /\ v.paused = w.paused
        /\ v.status = [d.status EXCEPT ![t] = "RUNNING"]
        /\ v.active = [d.active EXCEPT ![t] = d.next]
    BY <1>2, <1>5 DEF RetryMove, CreateMove, AddCommand, SetStatus, World
  <2>2. /\ v.status[t] = "RUNNING" /\ v.active[t] # NoCommand
        /\ \A u \in Task \ {t} : v.status[u] = w.status[u] /\ v.active[u] = w.active[u]
    BY <1>1, <1>2, <1>3, <2>1, WorldFields
  <2> QED
    BY <1>1, <2>1, <2>2 DEF RunnersAreCommanded, AllSucceeded
<1>6. CASE v = FailTask(d, t)
  <2>1. v.mission = "FAILED" /\ v.paused = w.paused
    BY <1>2, <1>6 DEF FailTask, SetMission, SetBlocker, SetStatus, World
  <2> QED
    BY <2>1 DEF RunnersAreCommanded
<1> QED
  BY <1>4, <1>5, <1>6

LEMMA HandleCancelledCommands ==
  ASSUME NEW w, NEW V, WorldInv(w, V), PackageInv(w, V), NEW c \in w.live,
         NEW reason, reason \in {"operator_abort", "cancelled"},
         reason = "operator_abort" => w.mission \in {"ABORTED", "FAILED"},
         NEW v, v = HandleCancelled(w, c, reason)
  PROVE  RunnersAreCommanded(v) /\ v.mission # "PAUSED" /\ v.paused = w.paused
<1> DEFINE d == ForgetCommand(MarkTerminal(w, c), c.task)
           t == c.task
<1>1. t \in Task /\ IsActiveCommand(w, c) /\ w \in World
  BY LiveCommandFacts DEF WorldInv
<1>2. d \in World /\ d.mission = w.mission /\ d.paused = w.paused
  BY <1>1, DropFits DEF WorldInv
<1>3. v = IF reason = "operator_abort" THEN SetStatus(d, t, "CANCELLED") ELSE FailTask(d, t)
  BY <1>1 DEF HandleCancelled
<1> HIDE DEF d
<1>4. CASE reason = "operator_abort"
  <2>1. v.mission = w.mission /\ v.paused = w.paused
    BY <1>2, <1>3, <1>4 DEF SetStatus, World
  <2> QED
    BY <1>4, <2>1 DEF RunnersAreCommanded
<1>5. CASE reason # "operator_abort"
  <2>1. v.mission = "FAILED" /\ v.paused = w.paused
    BY <1>2, <1>3, <1>5 DEF FailTask, SetMission, SetBlocker, SetStatus, World
  <2> QED
    BY <2>1 DEF RunnersAreCommanded
<1> QED
  BY <1>4, <1>5

(* The start, the only event of the operator that advances a mission which *)
(* is not paused.                                                          *)
LEMMA HandleStartCommands ==
  ASSUME NEW w, NEW V, WorldInv(w, V), PackageInv(w, V), OrderInv(w), RunnersAreCommanded(w),
         w.mission # "PAUSED", NEW v, v = HandleStart(w)
  PROVE  RunnersAreCommanded(v) /\ v.mission # "PAUSED" /\ v.paused = w.paused
<1> DEFINE x == IF w.mission = "READY" THEN SetMission(w, "RUNNING") ELSE w
<1>1. WorldInv(x, V) /\ PackageInv(x, V)
  BY SetMissionInv, SetMissionFits DEF MissionStatus
<1>2. /\ OrderInv(x) /\ x.paused = w.paused
      /\ x.mission = IF w.mission = "READY" THEN "RUNNING" ELSE w.mission
  BY SetMissionOrder DEF WorldInv, IsGoing
<1>3. x.status = w.status /\ x.active = w.active
  BY DEF SetMission, WorldInv, World
<1>4. v = Advance(x)
  BY DEF HandleStart
<1> HIDE DEF x
<1>5. CASE w.mission \in {"READY", "RUNNING"}
  <2>1. Commanded(x)
    BY <1>3, <1>5 DEF RunnersAreCommanded, Commanded
  <2>2. RunnersAreCommanded(v)
    BY <1>1, <1>2, <1>4, <2>1, AdvanceCommands
  <2>3. v.paused = x.paused /\ (v.mission = x.mission \/ v.mission = "COMPLETED")
    BY <1>1, <1>2, <1>4, AdvanceOrder
  <2> QED
    BY <1>2, <2>2, <2>3
<1>6. CASE w.mission \notin {"READY", "RUNNING"}
  <2>1. v = x
    BY <1>2, <1>4, <1>6 DEF Advance
  <2> QED
    BY <1>2, <1>6, <2>1 DEF RunnersAreCommanded
<1> QED
  BY <1>5, <1>6

LEMMA InitUnpaused == Init => UnpausedInv
<1> SUFFICES ASSUME Init PROVE UnpausedInv
  OBVIOUS
<1>1. /\ world.mission = "READY" /\ world.paused = {} /\ cancels = {}
      /\ \A t \in Task : world.status[t] = "PENDING"
  BY DEF Init, InitialWorld
<1> QED
  BY <1>1 DEF UnpausedInv, RunnersAreCommanded

LEMMA BecomesUnpaused ==
  ASSUME NEW v, NEW requests, NEW arrived, Becomes(v, requests, arrived),
         RunnersAreCommanded(v), v.mission # "PAUSED", v.paused = {},
         \A q \in requests : q.reason = "operator_abort"
  PROVE  UnpausedInv'
<1>1. world' = v /\ cancels' \subseteq requests
  BY DEF Becomes, StillOpen
<1> QED
  BY <1>1 DEF UnpausedInv

LEMMA ResultUnpaused ==
  ASSUME Inv, PackagesInv, MissionProgressInv, UnpausedInv, NEW c \in world.live, Result(c)
  PROVE  UnpausedInv'
<1>1. /\ WorldInv(world, visitors) /\ PackageInv(world, visitors) /\ OrderInv(world)
      /\ IsZoneMove(c) => RobotOf(c.task) \in visitors
      /\ world.mission \notin {"READY", "PAUSED"}
  BY DEF Inv, PackagesInv, MissionProgressInv, ReadyIsQuiet, UnpausedInv
<1>2. /\ RunnersAreCommanded(world) /\ world.paused = {}
      /\ \A q \in cancels : q.reason = "operator_abort"
  BY DEF UnpausedInv
<1>3. CASE ResultSucceeded(c)
  <2> DEFINE v == HandleCompleted(world, c)
             arrived == IF LeavesZone(c) THEN {RobotOf(c.task)} ELSE {}
  <2>1. RunnersAreCommanded(v) /\ v.paused = {}
    BY <1>1, <1>2, HandleCompletedCommands
  <2>2. v.mission # "PAUSED"
    BY <1>1, HandleCompletedOrder DEF ResultMission
  <2>3. Becomes(v, cancels, arrived)
    BY <1>3 DEF ResultSucceeded
  <2> HIDE DEF v, arrived
  <2> QED
    BY <1>2, <2>1, <2>2, <2>3, BecomesUnpaused
<1>4. CASE ResultUnverified(c) \/ ResultFailed(c)
  <2>1. PICK error : Becomes(HandleFailed(world, c, error), cancels, {})
    BY <1>4 DEF ResultUnverified, ResultFailed
  <2> DEFINE v == HandleFailed(world, c, error)
  <2>2. RunnersAreCommanded(v) /\ v.mission # "PAUSED" /\ v.paused = {}
    BY <1>1, <1>2, HandleFailedCommands
  <2>3. Becomes(v, cancels, {})
    BY <2>1
  <2> HIDE DEF v
  <2> QED
    BY <1>2, <2>2, <2>3, BecomesUnpaused
<1>5. CASE ResultCancelled(c) \/ ResultCancelledElsewhere(c)
  <2>1. PICK reason : /\ Becomes(HandleCancelled(world, c, reason), cancels, {})
                      /\ reason = "cancelled" \/ \E q \in cancels : q.reason = reason
    BY <1>5 DEF ResultCancelled, ResultCancelledElsewhere
  <2> DEFINE v == HandleCancelled(world, c, reason)
  <2>2. /\ reason \in {"operator_abort", "cancelled"}
        /\ reason = "operator_abort" => world.mission \in {"ABORTED", "FAILED"}
    BY <1>2, <2>1 DEF MissionProgressInv, AbortIsOver
  <2>3. RunnersAreCommanded(v) /\ v.mission # "PAUSED" /\ v.paused = {}
    BY <1>1, <1>2, <2>2, HandleCancelledCommands
  <2>4. Becomes(v, cancels, {})
    BY <2>1
  <2> HIDE DEF v
  <2> QED
    BY <1>2, <2>3, <2>4, BecomesUnpaused
<1> QED
  BY <1>3, <1>4, <1>5 DEF Result

LEMMA StepUnpaused ==
  ASSUME NeverPaused, Inv, PackagesInv, MissionProgressInv, UnpausedInv, [Next]_vars
  PROVE  UnpausedInv'
<1>1. /\ WorldInv(world, visitors) /\ PackageInv(world, visitors) /\ OrderInv(world)
      /\ world \in World
  BY DEF Inv, PackagesInv, MissionProgressInv, WorldInv
<1>2. /\ RunnersAreCommanded(world) /\ world.mission # "PAUSED" /\ world.paused = {}
      /\ \A q \in cancels : q.reason = "operator_abort"
  BY DEF UnpausedInv
<1>3. CASE UNCHANGED vars
  BY <1>3 DEF vars, UnpausedInv
<1>4. ASSUME NEW c \in world.live, Result(c) PROVE UnpausedInv'
  BY <1>4, ResultUnpaused
<1>5. CASE OperatorStart
  <2> DEFINE v == HandleStart(world)
  <2>1. RunnersAreCommanded(v) /\ v.mission # "PAUSED" /\ v.paused = {}
    BY <1>1, <1>2, HandleStartCommands
  <2>2. Becomes(v, cancels, {})
    BY <1>5 DEF OperatorStart
  <2> HIDE DEF v
  <2> QED
    BY <1>2, <2>1, <2>2, BecomesUnpaused
<1>6. CASE OperatorPause \/ \E r \in Robot : OperatorRobotPause(r)
  BY <1>6 DEF OperatorPause, OperatorRobotPause, NeverPaused
<1>7. CASE OperatorResume \/ \E r \in Robot : OperatorRobotResume(r)
  <2>1. Becomes(world, cancels, {})
    BY <1>2, <1>7 DEF OperatorResume, OperatorRobotResume, HandleResume, HandleRobotResume
  <2> QED
    BY <1>2, <2>1, BecomesUnpaused
<1>8. CASE OperatorAbort
  <2> DEFINE v == HandleAbort(world)
             requests == cancels \cup MoveCancellations(v, "operator_abort", Robot)
  <2>1. v = world \/ v.mission = "ABORTED"
    BY <1>1, HoldingOrder
  <2>2. v.paused = world.paused
    BY <1>1 DEF HandleAbort, SetMission, CancelUnfinished, World
  <2>3. Becomes(v, requests, {})
    BY <1>8 DEF OperatorAbort
  <2>4. \A q \in requests : q.reason = "operator_abort"
    BY <1>2 DEF MoveCancellations
  <2> HIDE DEF v
  <2> HIDE DEF requests
  <2>5. RunnersAreCommanded(v) /\ v.mission # "PAUSED"
    BY <1>2, <2>1 DEF RunnersAreCommanded
  <2> QED
    BY <1>2, <2>2, <2>3, <2>4, <2>5, BecomesUnpaused
<1> QED
  BY <1>3, <1>4, <1>5, <1>6, <1>7, <1>8 DEF Next

(* Where the operator cannot pause, every task that runs waits for a       *)
(* command, and only what an abort asked for is ever cancelled.            *)
THEOREM UnpausedInvariance == NeverPaused => (Spec => []UnpausedInv)
<1>1. ASSUME NeverPaused PROVE Spec => []UnpausedInv
  <2>1. ASSUME Inv, PackagesInv, MissionProgressInv, UnpausedInv, [Next]_vars
        PROVE  UnpausedInv'
    BY <1>1, <2>1, StepUnpaused
  <2> QED
    BY <2>1, InitUnpaused, Invariance, PackageInvariance, ProgressInvariance, PTL DEF Spec
<1> QED
  BY <1>1

(* And then a mission whose tasks have all succeeded is completed by the   *)
(* callback of the last success, for every number of packages and whatever *)
(* the robots answer. With pauses it may stay RUNNING (v_completion_missed). *)
THEOREM CompletionIsSeen == NeverPaused => (Spec => []CompletesWithItsTasks)
<1>1. UnpausedInv => CompletesWithItsTasks
  BY DEF UnpausedInv, RunnersAreCommanded, CompletesWithItsTasks
<1>2. ASSUME NeverPaused PROVE Spec => []CompletesWithItsTasks
  BY <1>1, <1>2, UnpausedInvariance, PTL
<1> QED
  BY <1>2

-----------------------------------------------------------------------------
(* What a task that is left blocked waits for. A task that was just        *)
(* refused the zone as it is waits for work that is not finished,          *)
LEMMA DeniedWaits ==
  ASSUME NEW w, NEW V, WorldInv(w, V), PackageInv(w, V), NEW t \in Task, Denied(w, t)
  PROVE  WaitsForWork(w, t)
<1> DEFINE b == w.blocker[t]
<1>1. /\ w.stage[t] = RequestStage(t) /\ ItemOf(t) \in Item
      /\ LegOf(t) = Outbound => t = <<ItemOf(t), Outbound>>
  BY TaskFacts, LegIdentity DEF Denied, PackageInv, TaskFits
<1>2. b.reason = "WAITING_FOR_TRANSFER_LEASE" => w.claim[b.robot] # NoTask
  BY DeniedReason
<1>3. ASSUME b.reason = "PACKAGE_NOT_AVAILABLE" PROVE w.status[<<b.item, Inbound>>] # "SUCCEEDED"
  <2> DEFINE p == ItemOf(t)
  <2>1. LegOf(t) = Outbound /\ b.item = p /\ p \notin w.zone.buf
    BY <1>3, DeniedReason
  <2>2. p \in Item /\ t = <<p, Outbound>> /\ w.stage[t] = "RequestPickup"
    BY <1>1, <2>1 DEF RequestStage, Inbound, Outbound
  <2> HIDE DEF p, b
  <2>3. <<p, Inbound>> \in Task
    BY <2>2, LegFacts
  <2>4. ~ IsBuffered(w, p)
    BY <2>1, <2>2 DEF PackageInv, BufferFits
  <2>5. w.stage[<<p, Inbound>>] # "Done"
    BY <2>2, <2>4 DEF IsBuffered, BroughtStages, UnfetchedStages
  <2> QED
    BY <2>1, <2>3, <2>5 DEF PackageInv, TaskFits
<1>4. ASSUME b.reason = "TRANSFER_PACKAGE_FULL" PROVE w.status[<<b.item, Outbound>>] # "SUCCEEDED"
  <2>1. b.item \in w.zone.buf
    BY <1>4, DeniedReason
  <2> HIDE DEF b
  <2>2. b.item \in Item
    BY <2>1, WorldFields DEF WorldInv, ZoneState
  <2>3. IsBuffered(w, b.item) /\ <<b.item, Outbound>> \in Task
    BY <2>1, <2>2, LegFacts DEF PackageInv, BufferFits
  <2>4. w.stage[<<b.item, Outbound>>] # "Done"
    BY <2>3 DEF IsBuffered, UnfetchedStages
  <2> QED
    BY <2>3, <2>4 DEF PackageInv, TaskFits
<1> QED
  BY <1>2, <1>3, <1>4 DEF WaitsForWork

(* and it goes on doing so while other tasks begin or continue.            *)
LEMMA StepKeepsWaiting ==
  ASSUME NEW w, NEW v, NEW V, WorldInv(w, V), WorldInv(v, V), NEW u \in Task,
         TaskStep(w, v, u), v.status[u] \in {"RUNNING", "BLOCKED"},
         NEW t \in Task, t # u, NamesObstacle(w.blocker[t], t), WaitsForWork(w, t)
  PROVE  WaitsForWork(v, t)
<1> DEFINE b == w.blocker[t]
<1>1. v.blocker[t] = b /\ ItemOf(t) \in Item
  BY TaskFacts DEF TaskStep
<1>2. ASSUME NEW x \in Task, w.status[x] # "SUCCEEDED" PROVE v.status[x] # "SUCCEEDED"
  BY <1>2 DEF TaskStep
<1> HIDE DEF b
<1>3. ASSUME b.reason = "WAITING_FOR_TRANSFER_LEASE" PROVE v.claim[b.robot] # NoTask
  <2> DEFINE r == b.robot
             x == w.claim[r]
  <2>1. r \in Robot /\ x # NoTask
    BY <1>3 DEF NamesObstacle, WaitsForWork, b
  <2>2. x \in Task /\ RobotOf(x) = r
    BY <2>1, WorldFields DEF WorldInv, TaskInv
  <2>3. Engaged(w, x)
    BY <2>2 DEF WorldInv, TaskInv
  <2> HIDE DEF r, x
  <2>4. Engaged(v, x)
    <3>1. CASE x = u
      BY <3>1 DEF WorldInv, TaskInv
    <3>2. CASE x # u
      BY <2>2, <2>3, <3>2 DEF TaskStep, Engaged
    <3> QED
      BY <3>1, <3>2
  <2>5. v.claim[r] = x
    BY <2>2, <2>4 DEF WorldInv, TaskInv
  <2> QED
    BY <2>1, <2>5 DEF r
<1>4. ASSUME b.reason = "PACKAGE_NOT_AVAILABLE" PROVE v.status[<<b.item, Inbound>>] # "SUCCEEDED"
  <2>1. b.item \in Item /\ w.status[<<b.item, Inbound>>] # "SUCCEEDED"
    BY <1>1, <1>4 DEF NamesObstacle, WaitsForWork, b
  <2> QED
    BY <1>2, <2>1, LegFacts
<1>5. ASSUME b.reason = "TRANSFER_PACKAGE_FULL" PROVE v.status[<<b.item, Outbound>>] # "SUCCEEDED"
  <2>1. b.item \in Item /\ w.status[<<b.item, Outbound>>] # "SUCCEEDED"
    BY <1>1, <1>5 DEF NamesObstacle, WaitsForWork, IsPredecessor, b
  <2> QED
    BY <1>2, <2>1, LegFacts
<1> QED
  BY <1>1, <1>3, <1>4, <1>5 DEF WaitsForWork

(* With few packages the orders of the dictionary and the scheduler agree. *)
LEMMA OrdersAgree ==
  ASSUME FewPackages, NEW p \in Item, NEW q \in Item
  PROVE  /\ p \in Nat /\ q \in Nat /\ SortKey(p) \in Nat /\ SortKey(q) \in Nat
         /\ p < q <=> SortKey(p) < SortKey(q)
<1>1. p \in 1 .. 9 /\ q \in 1 .. 9
  BY PackagesAssumption DEF FewPackages, Item
<1> QED
  BY <1>1 DEF SortKey

(* A blocked task that was not looked at, because one before it was given  *)
(* something to do, waits for work however old its refusal is.             *)
LEMMA UntickedWaits ==
  ASSUME FewPackages, NEW w, NEW V, WorldInv(w, V), PackageInv(w, V), OrderInv(w), IsGoing(w),
         NEW t \in Task, NEW u \in Task, t # u, DictBefore(u, t),
         Engaged(w, u), w.status[t] = "BLOCKED"
  PROVE  WaitsForWork(w, t)
<1> DEFINE b == w.blocker[t]
           p == ItemOf(t)
           q == ItemOf(u)
<1>1. /\ NamesObstacle(b, t) /\ BlocksTask(t, b) /\ Engaged(w, t)
      /\ w.stage[t] = RequestStage(t)
  BY DEF OrderInv, ObstaclesAreNamed, PackageInv, TaskFits, BlockerFits, WorldInv, TaskInv
<1>2. /\ BroughtInOrder(w) /\ SentForTheNext(w) /\ FetchedInOrder(w)
      /\ w.stage[u] # "Done" /\ w.stage[u] # "ClaimRobot"
  BY DEF OrderInv, Engaged
<1>3. RobotOf(t) # RobotOf(u)
  BY <1>1, EngagedAlone DEF WorldInv
<1>4. p \in Item /\ q \in Item /\ p \in Nat /\ q \in Nat
  BY TaskFacts, PackagesAssumption DEF Item
<1>5. Inbound # Outbound /\ (q < p \/ (q = p /\ InboundFirst(u, t)))
  BY DEF DictBefore, Inbound, Outbound
<1>6. ASSUME b.reason = "WAITING_FOR_TRANSFER_LEASE" PROVE w.claim[b.robot] # NoTask
  <2>1. b.robot \in Robot /\ b.robot # RobotOf(t)
    BY <1>1, <1>6 DEF NamesObstacle, BlocksTask
  <2>2. b.robot = RobotOf(u)
    BY <1>3, <2>1, TaskFacts DEF Robot
  <2> QED
    BY <2>2, TaskFacts DEF WorldInv, TaskInv
<1>7. ASSUME b.reason = "PACKAGE_NOT_AVAILABLE" PROVE w.status[<<b.item, Inbound>>] # "SUCCEEDED"
  <2>1. b.item = p /\ PickupOf(t) = Zone
    BY <1>1, <1>7 DEF NamesObstacle, BlocksTask
  <2>2. LegOf(t) = Outbound /\ LegOf(u) = Inbound
    BY <1>3, <2>1, TaskFacts DEF Zone
  <2>3. t = <<p, Outbound>> /\ u = <<q, Inbound>>
    BY <2>2, LegIdentity
  <2> HIDE DEF b, p, q
  <2>4. ~ (q < p)
    <3>1. SUFFICES ASSUME q < p PROVE FALSE
      OBVIOUS
    <3>2. w.stage[t] = "RequestPickup"
      BY <1>1, <1>5, <2>2 DEF RequestStage
    <3>3. Position(w, p) >= 1 /\ Position(w, p) \in 0 .. 4
      BY <1>2, <1>4, <2>3, <3>2 DEF SentForTheNext, Position
    <3>4. StageFits(w.stage[<<p, Inbound>>], 0, Position(w, p))
      <4>1. /\ <<p, Inbound>> \in Task /\ ItemOf(<<p, Inbound>>) = p
            /\ Origin(<<p, Inbound>>) = 0
        BY <1>4, LegFacts
      <4> QED
        BY <4>1, PositionFacts
    <3>5. w.stage[<<p, Inbound>>] # "ClaimRobot"
      BY <3>3, <3>4 DEF StageFits
    <3>6. SortKey(q) < SortKey(p)
      BY <1>4, <3>1, OrdersAgree
    <3> QED
      BY <1>2, <1>4, <2>3, <3>5, <3>6 DEF BroughtInOrder
  <2>5. u = <<p, Inbound>>
    BY <1>5, <2>3, <2>4
  <2> QED
    BY <1>2, <2>1, <2>5 DEF PackageInv, TaskFits
<1>8. ASSUME b.reason = "TRANSFER_PACKAGE_FULL" PROVE w.status[<<b.item, Outbound>>] # "SUCCEEDED"
  <2> DEFINE n == b.item
  <2>1. IsPredecessor(n, p) /\ DropoffOf(t) = Zone
    BY <1>1, <1>8 DEF NamesObstacle, BlocksTask
  <2>2. LegOf(t) = Inbound /\ LegOf(u) = Outbound
    BY <1>3, <2>1, TaskFacts DEF Zone
  <2>3. t = <<p, Inbound>> /\ u = <<q, Outbound>>
    BY <2>2, LegIdentity
  <2>4. q < p
    BY <1>5, <2>2 DEF InboundFirst
  <2> HIDE DEF b, p, q, n
  <2>5. n \in Item /\ SortKey(q) <= SortKey(n)
    BY <1>4, <2>1, <2>4, OrdersAgree DEF IsPredecessor
  <2>6. w.stage[<<n, Outbound>>] # "Done"
    <3>1. CASE SortKey(q) = SortKey(n)
      BY <1>2, <1>4, <2>3, <2>5, <3>1, SortKeyInjective
    <3>2. CASE SortKey(q) < SortKey(n)
      BY <1>2, <1>4, <2>3, <2>5, <3>2 DEF FetchedInOrder
    <3>3. SortKey(q) \in Nat /\ SortKey(n) \in Nat
      BY <1>4, <2>5, OrdersAgree
    <3> QED
      BY <2>5, <3>1, <3>2, <3>3
  <2>7. <<n, Outbound>> \in Task
    BY <2>5, LegFacts
  <2> QED
    BY <2>6, <2>7 DEF PackageInv, TaskFits, n
<1> QED
  BY <1>6, <1>7, <1>8 DEF WaitsForWork

(* Nor does the fetching of a later package free the zone for one that is  *)
(* brought: it was brought after that.                                     *)
LEMMA NoLateFetch ==
  ASSUME FewPackages, NEW w, NEW V, WorldInv(w, V), PackageInv(w, V), BroughtInOrder(w),
         NEW t \in Task, NEW u \in Task, DictBefore(t, u),
         LegOf(t) = Inbound, LegOf(u) = Outbound, w.status[t] = "BLOCKED",
         NEW v, PackageInv(v, V), TaskStep(w, v, u), v.status[u] = "SUCCEEDED"
  PROVE  FALSE
<1> DEFINE p == ItemOf(t)
           q == ItemOf(u)
           i == <<q, Inbound>>
<1>1. /\ p \in Item /\ q \in Item /\ t = <<p, Inbound>> /\ p \in Nat /\ q \in Nat
      /\ i \in Task /\ ItemOf(i) = q /\ Origin(i) = 0 /\ LegOf(i) # LegOf(u)
      /\ w.stage[t] = "RequestDropoff"
  BY TaskFacts, LegIdentity, LegFacts, PackagesAssumption
     DEF Item, PackageInv, TaskFits, RequestStage, Inbound, Outbound
<1>2. p <= q
  BY <1>1 DEF DictBefore
<1>3. Position(w, q) = 4
  <2>1. v.stage[u] = "Done" /\ Origin(u) = 2 /\ StageFits(v.stage[u], Origin(u), Position(v, q))
    BY DEF PackageInv, TaskFits, Origin, Inbound, Outbound
  <2>2. Position(v, q) = Position(w, q) /\ Position(w, q) \in 0 .. 4
    BY DEF TaskStep, Position
  <2> HIDE DEF q
  <2> QED
    BY <2>1, <2>2 DEF StageFits
<1>4. w.stage[i] = "Done"
  <2>1. StageFits(w.stage[i], 0, Position(w, q)) /\ w.stage[i] \in Stage
    BY <1>1, PositionFacts, WorldFields DEF WorldInv
  <2> QED
    BY <1>3, <2>1 DEF StageFits, Stage
<1> HIDE DEF p, q
<1>5. p # q
  BY <1>1, <1>4
<1>6. SortKey(p) < SortKey(q)
  BY <1>1, <1>2, <1>5, OrdersAgree
<1> QED
  BY <1>1, <1>4, <1>6 DEF BroughtInOrder

LEMMA TickRunnableWaits ==
  ASSUME FewPackages, NEW w, NEW V, WorldInv(w, V), PackageInv(w, V), OrderInv(w), IsGoing(w),
         w.paused = {}, NEW v, v = TickRunnable(w)
  PROVE  BlockersWait(v)
<1>1. CASE Runnable(w) = {}
  <2>1. v = w
    BY <1>1 DEF TickRunnable
  <2> QED
    BY <1>1, <2>1 DEF BlockersWait, Runnable
<1>2. CASE Runnable(w) # {}
  <2> DEFINE first == FirstInDict(Runnable(w))
             ticked == Tick(w, first)
             others == Runnable(w) \ {first}
  <2>1. first \in Runnable(w) /\ \A u \in Runnable(w) : DictBefore(first, u)
    BY <1>2, FirstInDictMember DEF Runnable
  <2>2. v = IF Emitted(w, ticked) \/ others = {} THEN ticked
            ELSE Tick(ticked, FirstInDict(others))
    BY <1>2 DEF TickRunnable
  <2> HIDE DEF first
  <2>3. first \in Task /\ w.status[first] \in {"RUNNING", "BLOCKED"} /\ Engaged(w, first)
    BY <2>1 DEF Runnable, WorldInv, TaskInv
  <2>4. /\ WorldInv(ticked, V) /\ PackageInv(ticked, V) /\ TaskStep(w, ticked, first)
        /\ Outcome(w, ticked, first) /\ OrderInv(ticked)
    BY <2>3, TickOrder
  <2> HIDE DEF ticked
  <2>5. IsGoing(ticked)
    BY <2>4 DEF TaskStep, IsGoing
  <2>6. ASSUME ticked.status[first] = "BLOCKED" PROVE Denied(ticked, first)
    BY <2>4, <2>6, RefusedIsDenied DEF Outcome, Working, Delivered
  <2>7. ASSUME NEW t \in Task, t # first, w.status[t] = "BLOCKED"
        PROVE  t \in others /\ DictBefore(first, t)
    BY <2>1, <2>7 DEF Runnable
  <2>8. CASE Emitted(w, ticked) \/ others = {}
    <3>1. v = ticked
      BY <2>2, <2>8
    <3>2. ASSUME NEW t \in Task, ticked.status[t] = "BLOCKED" PROVE WaitsForWork(ticked, t)
      <4>1. CASE t = first
        BY <2>4, <2>6, <3>2, <4>1, DeniedWaits
      <4>2. CASE t # first
        <5>1. t \in others /\ DictBefore(first, t)
          BY <2>4, <2>7, <3>2, <4>2 DEF TaskStep
        <5>2. Working(ticked, first)
          BY <2>4, <2>8, <5>1 DEF Outcome, Refused, Delivered, Emitted
        <5>3. Engaged(ticked, first)
          BY <2>3, <2>4, <5>2 DEF Working, WorldInv, TaskInv
        <5> QED
          BY <2>3, <2>4, <2>5, <3>2, <4>2, <5>1, <5>3, UntickedWaits
      <4> QED
        BY <4>1, <4>2
    <3> QED
      BY <3>1, <3>2 DEF BlockersWait
  <2>9. CASE ~ (Emitted(w, ticked) \/ others = {})
    <3> DEFINE second == FirstInDict(others)
    <3>1. second \in others /\ v = Tick(ticked, second)
      BY <2>2, <2>9, FirstInDictMember DEF Runnable
    <3> HIDE DEF second
    <3>2. /\ second \in Task /\ second # first /\ second \in Runnable(w)
          /\ DictBefore(first, second)
      BY <2>1, <3>1 DEF Runnable
    <3>3. ticked.status[second] \in {"RUNNING", "BLOCKED"} /\ Engaged(ticked, second)
      BY <2>4, <3>2 DEF TaskStep, Runnable, WorldInv, TaskInv
    <3>4. /\ WorldInv(v, V) /\ PackageInv(v, V) /\ TaskStep(ticked, v, second)
          /\ Outcome(ticked, v, second)
      BY <2>4, <3>1, <3>3, <3>2, TickOrder
    <3>5. ASSUME NEW t \in Task, v.status[t] = "BLOCKED" PROVE WaitsForWork(v, t)
      <4>1. CASE t = second
        <5>1. Denied(v, second)
          BY <3>4, <3>5, <4>1, RefusedIsDenied DEF Outcome, Working, Delivered
        <5> QED
          BY <3>4, <4>1, <5>1, DeniedWaits
      <4>2. CASE t = first
        <5>1. ticked.status[first] = "BLOCKED"
          BY <3>2, <3>4, <3>5, <4>2 DEF TaskStep
        <5>2. WaitsForWork(ticked, first) /\ NamesObstacle(ticked.blocker[first], first)
          BY <2>3, <2>4, <2>5, <2>6, <5>1, DeniedWaits DEF OrderInv, ObstaclesAreNamed
        <5>3. v.status[second] # "SUCCEEDED"
          <6>1. SUFFICES ASSUME v.status[second] = "SUCCEEDED" PROVE FALSE
            OBVIOUS
          <6>2. /\ Engaged(ticked, first) /\ SentForTheNext(ticked) /\ BroughtInOrder(ticked)
            BY <2>3, <2>4, <2>5, <5>1 DEF WorldInv, TaskInv, OrderInv
          <6>3. LegOf(second) # Inbound
            BY <2>3, <2>4, <3>2, <3>3, <3>4, <5>1, <6>1, <6>2, NoLateDelivery
          <6>4. RobotOf(first) # RobotOf(second)
            BY <2>3, <2>4, <3>2, <3>3, <6>2, EngagedAlone DEF WorldInv
          <6>5. LegOf(second) = Outbound /\ LegOf(first) = Inbound
            BY <2>3, <3>2, <6>3, <6>4, TaskFacts
          <6> QED
            BY <2>3, <2>4, <3>2, <3>4, <5>1, <6>1, <6>2, <6>5, NoLateFetch
        <5>4. v.status[second] \in {"RUNNING", "BLOCKED"}
          BY <3>4, <5>3 DEF Outcome, Working, Refused, Delivered
        <5> QED
          BY <2>3, <2>4, <3>2, <3>4, <4>2, <5>2, <5>4, StepKeepsWaiting
      <4>3. CASE t # first /\ t # second
        <5>1. w.status[t] = "BLOCKED"
          BY <2>4, <3>4, <3>5, <4>3 DEF TaskStep
        <5>2. Engaged(w, t) /\ Engaged(w, second)
          BY <3>2, <5>1 DEF Runnable, WorldInv, TaskInv
        <5>3. RobotOf(first) # RobotOf(second) /\ RobotOf(t) # RobotOf(first)
              /\ RobotOf(t) # RobotOf(second)
          BY <2>3, <3>2, <4>3, <5>2, EngagedAlone DEF WorldInv
        <5> QED
          BY <2>3, <3>2, <5>3, TaskFacts DEF Robot
      <4> QED
        BY <4>1, <4>2, <4>3
    <3> QED
      BY <3>5 DEF BlockersWait
  <2> QED
    BY <2>8, <2>9
<1> QED
  BY <1>1, <1>2

LEMMA StartKeepsWaiting ==
  ASSUME NEW w, NEW V, WorldInv(w, V), PackageInv(w, V), OrderInv(w), IsGoing(w),
         BlockersWait(w), NEW v, v = StartNextReady(w)
  PROVE  BlockersWait(v)
<1>1. /\ WorldInv(v, V) /\ PackageInv(v, V)
      /\ \/ ReadyTasks(w) = {} /\ v = w
         \/ \E t \in ReadyTasks(w) :
              TaskStep(w, v, t) /\ (Working(v, t) \/ Refused(w, v, t))
  BY StartNextReadyOrder
<1>2. CASE v = w
  BY <1>2
<1>3. ASSUME NEW u \in ReadyTasks(w), TaskStep(w, v, u), Working(v, u) \/ Refused(w, v, u),
             NEW t \in Task, v.status[t] = "BLOCKED"
      PROVE  WaitsForWork(v, t)
  <2>1. u \in Task /\ v.status[u] \in {"RUNNING", "BLOCKED"}
    BY <1>3 DEF ReadyTasks, Working, Refused
  <2>2. CASE t = u
    <3>1. Denied(v, t)
      BY <1>3, <2>2, RefusedIsDenied DEF Working
    <3> QED
      BY <1>1, <3>1, DeniedWaits
  <2>3. CASE t # u
    <3>1. w.status[t] = "BLOCKED"
      BY <1>3, <2>3 DEF TaskStep
    <3>2. WaitsForWork(w, t) /\ NamesObstacle(w.blocker[t], t)
      BY <3>1 DEF BlockersWait, OrderInv, ObstaclesAreNamed
    <3> QED
      BY <1>1, <1>3, <2>1, <2>3, <3>2, StepKeepsWaiting
  <2> QED
    BY <2>2, <2>3
<1> QED
  BY <1>1, <1>2, <1>3 DEF BlockersWait

LEMMA AdvanceWaits ==
  ASSUME FewPackages, NEW w, NEW V, WorldInv(w, V), PackageInv(w, V), OrderInv(w),
         NEW v, v = Advance(w)
  PROVE  UnpausedBlockersWait(v)
<1> SUFFICES ASSUME v.mission = "RUNNING", v.paused = {} PROVE BlockersWait(v)
  BY DEF UnpausedBlockersWait
<1>1. w.paused = {}
  BY AdvanceOrder
<1>2. CASE w.mission # "RUNNING"
  BY <1>2 DEF Advance
<1>3. CASE w.mission = "RUNNING" /\ AllSucceeded(w)
  <2>1. v.mission = "COMPLETED"
    BY <1>3 DEF Advance, SetMission, WorldInv, World
  <2> QED
    BY <2>1
<1>4. CASE w.mission = "RUNNING" /\ ~ AllSucceeded(w)
  <2> DEFINE x == TickRunnable(w)
  <2>1. v = StartNextReady(x) /\ IsGoing(w)
    BY <1>4 DEF Advance, IsGoing
  <2>2. WorldInv(x, V) /\ PackageInv(x, V) /\ OrderInv(x) /\ x.mission = w.mission
    BY TickRunnableOrder
  <2>3. BlockersWait(x)
    BY <1>1, <2>1, TickRunnableWaits
  <2> HIDE DEF x
  <2> QED
    BY <2>1, <2>2, <2>3, StartKeepsWaiting DEF IsGoing
<1> QED
  BY <1>2, <1>3, <1>4

(* The handlers: a blocked task's obstacle stays where nothing is finished *)
(* but by the tick of a task, and no robot is released.                    *)
NoneFinished(w, v) ==
  \A t \in Task : v.status[t] = "SUCCEEDED" => w.status[t] = "SUCCEEDED"

LEMMA KeptWaiting ==
  ASSUME NEW w, NEW v, OrderInv(w), IsGoing(w), BlockersWait(w),
         v.claim = w.claim, BlockedAsBefore(w, v), NoneFinished(w, v)
  PROVE  BlockersWait(v)
<1> SUFFICES ASSUME NEW t \in Task, v.status[t] = "BLOCKED" PROVE WaitsForWork(v, t)
  BY DEF BlockersWait
<1> DEFINE b == w.blocker[t]
<1>1. /\ v.blocker[t] = b /\ NamesObstacle(b, t) /\ WaitsForWork(w, t)
      /\ ItemOf(t) \in Item
  BY TaskFacts DEF BlockedAsBefore, OrderInv, ObstaclesAreNamed, BlockersWait
<1>2. /\ b.reason \in {"PACKAGE_NOT_AVAILABLE", "TRANSFER_PACKAGE_FULL"} => b.item \in Item
      /\ b.item \in Item => <<b.item, Inbound>> \in Task /\ <<b.item, Outbound>> \in Task
  BY <1>1, LegFacts DEF NamesObstacle, IsPredecessor
<1> QED
  BY <1>1, <1>2 DEF WaitsForWork, NoneFinished

LEMMA HandleCompletedWaits ==
  ASSUME FewPackages, NEW w, NEW V, WorldInv(w, V), PackageInv(w, V), OrderInv(w),
         UnpausedBlockersWait(w), NEW c \in w.live,
         IsZoneMove(c) => RobotOf(c.task) \in V, NEW v, v = HandleCompleted(w, c)
  PROVE  UnpausedBlockersWait(v)
<1> DEFINE applied == ApplyCommandSuccess(MarkTerminal(w, c), c)
           t == c.task
           ticked  == Tick(applied, t)
           kept    == IF w.mission = "PAUSED" \/ RobotOf(t) \in w.paused
                      THEN "RUNNING" ELSE "CANCELLED"
           W == LeftInside(V, c)
<1>1. t \in Task /\ IsActiveCommand(w, c) /\ Engaged(w, t)
  BY LiveCommandFacts
<1>2. /\ WorldInv(applied, W) /\ PackageInv(applied, W) /\ AtWork(applied, t)
      /\ applied.paused = w.paused /\ applied.mission = w.mission
      /\ OrderInv(applied) /\ applied.status = w.status /\ applied.blocker = w.blocker
  BY AppliedInv, AppliedFits, AppliedOrder
<1>3. v = IF IsHeld(w, RobotOf(t)) THEN SetStatus(applied, t, kept)
          ELSE IF Emitted(applied, ticked) THEN StartNextReady(ticked) ELSE Advance(ticked)
  BY <1>1 DEF HandleCompleted
<1>4. applied.claim = w.claim
  <2> DEFINE d == ForgetCommand(MarkTerminal(w, c), t)
  <2>1. IsActiveCommand(MarkTerminal(w, c), c)
    BY <1>1 DEF IsActiveCommand, MarkTerminal, WorldInv, World
  <2>2. applied = CommandEffect(d, c)
    BY <2>1 DEF ApplyCommandSuccess
  <2>3. d.claim = w.claim /\ d \in World /\ c.kind \in Kind
    BY <1>1, DropOrder, DropFits, LiveCommandFacts DEF WorldInv
  <2> HIDE DEF d
  <2> QED
    BY <2>2, <2>3 DEF CommandEffect, MoveRobot, LoadItem, UnloadItem, Kind, World
<1> HIDE DEF applied, W
<1> SUFFICES ASSUME v.mission = "RUNNING", v.paused = {} PROVE BlockersWait(v)
  BY DEF UnpausedBlockersWait
<1>5. CASE IsHeld(w, RobotOf(t))
  <2>1. v = SetStatus(applied, t, kept)
    BY <1>3, <1>5
  <2> HIDE DEF kept
  <2>2. v.mission = w.mission /\ v.paused = w.paused
    BY <1>2, <2>1 DEF SetStatus, WorldInv, World
  <2> QED
    BY <1>5, <2>2 DEF IsHeld
<1>6. CASE ~ IsHeld(w, RobotOf(t))
  <2> HIDE DEF kept
  <2>1. v = IF Emitted(applied, ticked) THEN StartNextReady(ticked) ELSE Advance(ticked)
    BY <1>3, <1>6
  <2>2. ~ Held(applied, RobotOf(t))
    BY <1>2, <1>6 DEF Held, IsHeld
  <2>3. WorldInv(ticked, W) /\ PackageInv(ticked, W) /\ TaskStep(applied, ticked, t)
    BY <1>1, <1>2, <2>2, TickOnward
  <2>4. ticked.mission = w.mission /\ ticked.paused = w.paused
    BY <1>2, <2>3 DEF TaskStep
  <2>5. ASSUME IsGoing(w) PROVE OrderInv(ticked) /\ Outcome(applied, ticked, t)
    <3>1. applied.status[t] \in {"RUNNING", "BLOCKED"}
      BY <1>1, <1>2, <2>5, EngagedRuns DEF OrderInv
    <3> QED
      BY <1>1, <1>2, <3>1, TickOrder
  <2>6. ~ IsGoing(w) => OrderInv(ticked)
    BY <2>4 DEF OrderInv, IsGoing
  <2> HIDE DEF ticked
  <2>7. CASE Emitted(applied, ticked)
    <3>1. v = StartNextReady(ticked)
      BY <2>1, <2>7
    <3>2. v.mission = ticked.mission /\ v.paused = ticked.paused
      BY <2>3, <2>5, <2>6, <3>1, StartNextReadyOrder
    <3>3. IsGoing(w) /\ IsGoing(applied) /\ IsGoing(ticked) /\ BlockersWait(w)
      BY <1>2, <2>4, <3>2 DEF IsGoing, UnpausedBlockersWait
    <3>4. BlockersWait(applied)
      BY <1>2, <1>4, <3>3, KeptWaiting DEF BlockedAsBefore, NoneFinished
    <3>5. Working(ticked, t)
      BY <2>5, <2>7, <3>3 DEF Outcome, Refused, Delivered, Emitted
    <3>6. ASSUME NEW u \in Task, ticked.status[u] = "BLOCKED" PROVE WaitsForWork(ticked, u)
      <4>1. u # t
        BY <3>5, <3>6 DEF Working
      <4>2. applied.status[u] = "BLOCKED"
        BY <2>3, <3>6, <4>1 DEF TaskStep
      <4>3. WaitsForWork(applied, u) /\ NamesObstacle(applied.blocker[u], u)
        BY <1>2, <3>3, <3>4, <4>2 DEF BlockersWait, OrderInv, ObstaclesAreNamed
      <4>4. ticked.status[t] \in {"RUNNING", "BLOCKED"}
        BY <3>5 DEF Working
      <4> QED
        BY <1>1, <1>2, <2>3, <4>1, <4>3, <4>4, StepKeepsWaiting
    <3>7. BlockersWait(ticked)
      BY <3>6 DEF BlockersWait
    <3> QED
      BY <2>3, <2>5, <3>1, <3>3, <3>7, StartKeepsWaiting
  <2>8. CASE ~ Emitted(applied, ticked)
    <3>1. v = Advance(ticked)
      BY <2>1, <2>8
    <3>2. UnpausedBlockersWait(v)
      BY <2>3, <2>5, <2>6, <3>1, AdvanceWaits
    <3> QED
      BY <3>2 DEF UnpausedBlockersWait
  <2> QED
    BY <2>7, <2>8
<1> QED
  BY <1>5, <1>6

LEMMA HandleFailedWaits ==
  ASSUME NEW w, NEW V, WorldInv(w, V), PackageInv(w, V), OrderInv(w),
         UnpausedBlockersWait(w), NEW c \in w.live,
         NEW error, NEW v, v = HandleFailed(w, c, error)
  PROVE  UnpausedBlockersWait(v)
<1> DEFINE d == ForgetCommand(MarkTerminal(w, c), c.task)
<1>1. c.task \in Task /\ IsActiveCommand(w, c) /\ w \in World
  BY LiveCommandFacts DEF WorldInv
<1>2. /\ d \in World /\ d.mission = w.mission /\ d.paused = w.paused
      /\ d.claim = w.claim /\ d.status = w.status /\ d.blocker = w.blocker
  BY <1>1, DropFits, DropOrder DEF WorldInv
<1>3. v = RetryMove(d, c) \/ v = FailTask(d, c.task)
  BY <1>1 DEF HandleFailed
<1> HIDE DEF d
<1> SUFFICES ASSUME v.mission = "RUNNING", v.paused = {} PROVE BlockersWait(v)
  BY DEF UnpausedBlockersWait
<1>4. CASE v = RetryMove(d, c)
  <2>1. /\ v.claim = d.claim /\ v.mission = d.mission /\ v.paused = d.paused
        /\ v.blocker = d.blocker /\ v.status = [d.status EXCEPT ![c.task] = "RUNNING"]
    BY <1>2, <1>4 DEF RetryMove, CreateMove, AddCommand, SetStatus, World
  <2>2. \A u \in Task : v.status[u] \in {w.status[u], "RUNNING"}
    BY <1>1, <1>2, <2>1, WorldFields
  <2>3. IsGoing(w) /\ BlockersWait(w)
    BY <1>2, <2>1 DEF IsGoing, UnpausedBlockersWait
  <2>4. BlockedAsBefore(w, v) /\ NoneFinished(w, v)
    BY <1>2, <2>1, <2>2 DEF BlockedAsBefore, NoneFinished
  <2>5. v.claim = w.claim
    BY <1>2, <2>1
  <2> QED
    BY <2>3, <2>4, <2>5, KeptWaiting
<1>5. CASE v = FailTask(d, c.task)
  <2>1. v.mission = "FAILED"
    BY <1>1, <1>2, <1>5, FailTaskOrder
  <2> QED
    BY <2>1
<1> QED
  BY <1>3, <1>4, <1>5

LEMMA HandleCancelledWaits ==
  ASSUME FewPackages, NEW w, NEW V, WorldInv(w, V), PackageInv(w, V), OrderInv(w),
         UnpausedBlockersWait(w), NEW c \in w.live,
         NEW reason, reason = "operator_abort" => ~ IsGoing(w),
         NEW v, v = HandleCancelled(w, c, reason)
  PROVE  UnpausedBlockersWait(v)
<1> DEFINE d == ForgetCommand(MarkTerminal(w, c), c.task)
           t == c.task
           kept == SetStatus(d, t, "RUNNING")
           cancelled == SetStatus(d, t, "CANCELLED")
<1>1. t \in Task /\ IsActiveCommand(w, c) /\ w \in World
  BY LiveCommandFacts DEF WorldInv
<1>2. /\ WorldInv(d, V) /\ PackageInv(d, V) /\ AtWork(d, t) /\ Engaged(d, t)
      /\ OrderInv(d) /\ d.mission = w.mission /\ d.paused = w.paused /\ d \in World
      /\ d.claim = w.claim /\ d.status = w.status /\ d.blocker = w.blocker
  BY <1>1, DropFits, DropOrder DEF WorldInv
<1>3. \/ v = kept
      \/ v = Advance(kept)
      \/ v = cancelled /\ reason = "operator_abort"
      \/ v = FailTask(d, t)
  BY <1>1 DEF HandleCancelled
<1> HIDE DEF d
<1>4. /\ OrderInv(kept) /\ kept.mission = w.mission /\ kept.paused = w.paused
  BY <1>1, <1>2, SetStatusOrder
<1>5. WorldInv(kept, V) /\ PackageInv(kept, V)
  <2>1. "RUNNING" \in TaskStatus \ {"SUCCEEDED", "BLOCKED"}
    BY DEF TaskStatus
  <2> QED
    BY <1>1, <1>2, <2>1, SetStatusInv, SetStatusFits
<1>6. cancelled.mission = w.mission
  BY <1>2 DEF SetStatus, World
<1>7. /\ kept.claim = w.claim /\ kept.blocker = w.blocker
      /\ kept.status = [w.status EXCEPT ![t] = "RUNNING"]
  BY <1>2 DEF SetStatus, World
<1> HIDE DEF kept, cancelled
<1>8. CASE v = kept
  <2> SUFFICES ASSUME v.mission = "RUNNING", v.paused = {} PROVE BlockersWait(v)
    BY DEF UnpausedBlockersWait
  <2>1. IsGoing(w) /\ BlockersWait(w)
    BY <1>4, <1>8 DEF IsGoing, UnpausedBlockersWait
  <2>2. \A u \in Task : kept.status[u] \in {w.status[u], "RUNNING"}
    BY <1>1, <1>7, WorldFields
  <2>3. BlockedAsBefore(w, kept) /\ NoneFinished(w, kept)
    BY <1>7, <2>2 DEF BlockedAsBefore, NoneFinished
  <2>4. BlockersWait(kept)
    BY <1>7, <2>1, <2>3, KeptWaiting
  <2> QED
    BY <1>8, <2>4
<1>9. CASE v = Advance(kept)
  BY <1>4, <1>5, <1>9, AdvanceWaits
<1>10. CASE v = cancelled /\ reason = "operator_abort"
  BY <1>6, <1>10 DEF UnpausedBlockersWait, IsGoing
<1>11. CASE v = FailTask(d, t)
  <2>1. v.mission = "FAILED"
    BY <1>1, <1>2, <1>11, FailTaskOrder
  <2> QED
    BY <2>1 DEF UnpausedBlockersWait
<1> QED
  BY <1>3, <1>8, <1>9, <1>10, <1>11

LEMMA HandleStartWaits ==
  ASSUME FewPackages, NEW w, NEW V, WorldInv(w, V), PackageInv(w, V), OrderInv(w),
         NEW v, v = HandleStart(w)
  PROVE  UnpausedBlockersWait(v)
<1> DEFINE x == IF w.mission = "READY" THEN SetMission(w, "RUNNING") ELSE w
<1>1. WorldInv(x, V) /\ PackageInv(x, V)
  BY SetMissionInv, SetMissionFits DEF MissionStatus
<1>2. OrderInv(x)
  BY SetMissionOrder DEF WorldInv, IsGoing
<1>3. v = Advance(x)
  BY DEF HandleStart
<1> HIDE DEF x
<1> QED
  BY <1>1, <1>2, <1>3, AdvanceWaits

LEMMA HandleResumeWaits ==
  ASSUME FewPackages, NEW w, NEW V, WorldInv(w, V), PackageInv(w, V), OrderInv(w),
         UnpausedBlockersWait(w), NEW v, v = HandleResume(w)
  PROVE  UnpausedBlockersWait(v)
<1> DEFINE x == SetMission(w, "RUNNING")
<1>1. CASE w.mission = "PAUSED"
  <2>1. WorldInv(x, V) /\ PackageInv(x, V)
    BY SetMissionInv, SetMissionFits DEF MissionStatus
  <2>2. OrderInv(x)
    BY <1>1, SetMissionOrder DEF WorldInv, IsGoing
  <2>3. v = Advance(x)
    BY <1>1 DEF HandleResume
  <2> HIDE DEF x
  <2> QED
    BY <2>1, <2>2, <2>3, AdvanceWaits
<1>2. CASE w.mission # "PAUSED"
  BY <1>2 DEF HandleResume
<1> QED
  BY <1>1, <1>2

LEMMA HandleRobotResumeWaits ==
  ASSUME FewPackages, NEW w, NEW V, WorldInv(w, V), PackageInv(w, V), OrderInv(w),
         UnpausedBlockersWait(w), NEW r \in Robot, NEW v, v = HandleRobotResume(w, r)
  PROVE  UnpausedBlockersWait(v)
<1> DEFINE x == [w EXCEPT !.paused = @ \ {r}]
<1>1. CASE r \in w.paused
  <2> DEFINE P == w.paused \ {r}
  <2>1. x = [w EXCEPT !.paused = P] /\ P \in SUBSET Robot
    BY WorldFields DEF WorldInv
  <2> HIDE DEF P
  <2>2. WorldInv(x, V) /\ PackageInv(x, V)
    BY <2>1, SetPausedInv, SetPausedFits
  <2>3. OrderInv(x)
    BY <2>1, SetPausedOrder DEF WorldInv
  <2>4. v = Advance(x)
    BY <1>1 DEF HandleRobotResume
  <2> HIDE DEF x
  <2> QED
    BY <2>2, <2>3, <2>4, AdvanceWaits
<1>2. CASE r \notin w.paused
  BY <1>2 DEF HandleRobotResume
<1> QED
  BY <1>1, <1>2

(* The invariant holds in the beginning and whatever happens.              *)
LEMMA InitBlockers == Init => BlockersInv
BY DEF Init, InitialWorld, BlockersInv, UnpausedBlockersWait

LEMMA ResultBlockers ==
  ASSUME FewPackages, Inv, PackagesInv, MissionProgressInv, BlockersInv,
         NEW c \in world.live, Result(c)
  PROVE  BlockersInv'
<1>1. /\ WorldInv(world, visitors) /\ PackageInv(world, visitors) /\ OrderInv(world)
      /\ UnpausedBlockersWait(world)
      /\ IsZoneMove(c) => RobotOf(c.task) \in visitors
  BY DEF Inv, PackagesInv, MissionProgressInv, BlockersInv
<1>2. ASSUME NEW v, NEW arrived, Becomes(v, cancels, arrived), UnpausedBlockersWait(v)
      PROVE  BlockersInv'
  BY <1>2 DEF Becomes, BlockersInv
<1>3. CASE ResultSucceeded(c)
  <2> DEFINE v == HandleCompleted(world, c)
             arrived == IF LeavesZone(c) THEN {RobotOf(c.task)} ELSE {}
  <2>1. UnpausedBlockersWait(v)
    BY <1>1, HandleCompletedWaits
  <2>2. Becomes(v, cancels, arrived)
    BY <1>3 DEF ResultSucceeded
  <2> HIDE DEF v, arrived
  <2> QED
    BY <1>2, <2>1, <2>2
<1>4. CASE ResultUnverified(c) \/ ResultFailed(c)
  <2>1. PICK error : Becomes(HandleFailed(world, c, error), cancels, {})
    BY <1>4 DEF ResultUnverified, ResultFailed
  <2> DEFINE v == HandleFailed(world, c, error)
  <2>2. UnpausedBlockersWait(v)
    BY <1>1, HandleFailedWaits
  <2>3. Becomes(v, cancels, {})
    BY <2>1
  <2> HIDE DEF v
  <2> QED
    BY <1>2, <2>2, <2>3
<1>5. CASE ResultCancelled(c) \/ ResultCancelledElsewhere(c)
  <2>1. PICK reason : /\ Becomes(HandleCancelled(world, c, reason), cancels, {})
                      /\ reason = "cancelled" \/ \E q \in cancels : q.reason = reason
    BY <1>5 DEF ResultCancelled, ResultCancelledElsewhere
  <2> DEFINE v == HandleCancelled(world, c, reason)
  <2>2. reason = "operator_abort" => ~ IsGoing(world)
    BY <2>1 DEF MissionProgressInv, AbortIsOver, IsGoing
  <2>3. UnpausedBlockersWait(v)
    BY <1>1, <2>2, HandleCancelledWaits
  <2>4. Becomes(v, cancels, {})
    BY <2>1
  <2> HIDE DEF v
  <2> QED
    BY <1>2, <2>3, <2>4
<1> QED
  BY <1>3, <1>4, <1>5 DEF Result

LEMMA StepBlockers ==
  ASSUME FewPackages, Inv, PackagesInv, MissionProgressInv, BlockersInv, [Next]_vars
  PROVE  BlockersInv'
<1>1. /\ WorldInv(world, visitors) /\ PackageInv(world, visitors) /\ world \in World
      /\ OrderInv(world) /\ UnpausedBlockersWait(world)
  BY DEF Inv, PackagesInv, WorldInv, MissionProgressInv, BlockersInv
<1>2. ASSUME NEW v, NEW requests, Becomes(v, requests, {}), UnpausedBlockersWait(v)
      PROVE  BlockersInv'
  BY <1>2 DEF Becomes, BlockersInv
<1>3. CASE UNCHANGED vars
  BY <1>3 DEF vars, BlockersInv
<1>4. ASSUME NEW c \in world.live, Result(c) PROVE BlockersInv'
  BY <1>4, ResultBlockers
<1>5. CASE OperatorStart
  <2> DEFINE v == HandleStart(world)
  <2>1. UnpausedBlockersWait(v)
    BY <1>1, HandleStartWaits
  <2>2. Becomes(v, cancels, {})
    BY <1>5 DEF OperatorStart
  <2> HIDE DEF v
  <2> QED
    BY <1>2, <2>1, <2>2
<1>6. CASE OperatorPause
  <2> DEFINE v == HandlePause(world)
             requests == cancels \cup MoveCancellations(v, "operator_pause", Robot)
  <2>1. UnpausedBlockersWait(v)
    BY <1>1, HoldingOrder DEF UnpausedBlockersWait
  <2>2. Becomes(v, requests, {})
    BY <1>6 DEF OperatorPause
  <2> HIDE DEF v
  <2> HIDE DEF requests
  <2> QED
    BY <1>2, <2>1, <2>2
<1>7. CASE OperatorResume
  <2> DEFINE v == HandleResume(world)
  <2>1. UnpausedBlockersWait(v)
    BY <1>1, HandleResumeWaits
  <2>2. Becomes(v, cancels, {})
    BY <1>7 DEF OperatorResume
  <2> HIDE DEF v
  <2> QED
    BY <1>2, <2>1, <2>2
<1>8. CASE OperatorAbort
  <2> DEFINE v == HandleAbort(world)
             requests == cancels \cup MoveCancellations(v, "operator_abort", Robot)
  <2>1. v = world \/ v.mission = "ABORTED"
    BY <1>1, HoldingOrder
  <2>2. Becomes(v, requests, {})
    BY <1>8 DEF OperatorAbort
  <2> HIDE DEF v
  <2> HIDE DEF requests
  <2>3. UnpausedBlockersWait(v)
    BY <1>1, <2>1 DEF UnpausedBlockersWait
  <2> QED
    BY <1>2, <2>2, <2>3
<1>9. ASSUME NEW r \in Robot, OperatorRobotPause(r) PROVE BlockersInv'
  <2> DEFINE v == HandleRobotPause(world, r)
             requests == cancels \cup MoveCancellations(v, "operator_robot_pause", {r})
  <2>1. UnpausedBlockersWait(v)
    BY <1>1, HoldingOrder DEF UnpausedBlockersWait
  <2>2. Becomes(v, requests, {})
    BY <1>9 DEF OperatorRobotPause
  <2> HIDE DEF v
  <2> HIDE DEF requests
  <2> QED
    BY <1>2, <2>1, <2>2
<1>10. ASSUME NEW r \in Robot, OperatorRobotResume(r) PROVE BlockersInv'
  <2> DEFINE v == HandleRobotResume(world, r)
  <2>1. UnpausedBlockersWait(v)
    BY <1>1, HandleRobotResumeWaits
  <2>2. Becomes(v, cancels, {})
    BY <1>10 DEF OperatorRobotResume
  <2> HIDE DEF v
  <2> QED
    BY <1>2, <2>1, <2>2
<1> QED
  BY <1>3, <1>4, <1>5, <1>6, <1>7, <1>8, <1>9, <1>10 DEF Next

(* With fewer than ten packages, whatever fails, is retried, paused or     *)
(* resumed: a task that is blocked while the mission runs and no robot is  *)
(* paused waits for a robot that is at a task, or for a package that an    *)
(* unfinished task will bring or fetch. It is about _advance leaving a     *)
(* task blocked after the last tick that could have let it go on.          *)
THEOREM BlockersInvariance == FewPackages => (Spec => []BlockersInv)
<1>1. ASSUME FewPackages PROVE Spec => []BlockersInv
  <2>1. ASSUME Inv, PackagesInv, MissionProgressInv, BlockersInv, [Next]_vars
        PROVE  BlockersInv'
    BY <1>1, <2>1, StepBlockers
  <2> QED
    BY <2>1, InitBlockers, Invariance, PackageInvariance, ProgressInvariance, PTL DEF Spec
<1> QED
  BY <1>1

(* So no task waits for what has already happened. With ten packages one   *)
(* may: as "P10:" sorts before "P1:", tasks then start in another order    *)
(* than the one in which _advance looks at them.                           *)
THEOREM NoTaskWaitsInVain == FewPackages => (Spec => []BlockedWaitsForWork)
<1>1. BlockersInv => BlockedWaitsForWork
  BY DEF BlockersInv, UnpausedBlockersWait, BlockersWait, WaitsForWork, BlockedWaitsForWork
<1>2. ASSUME FewPackages PROVE Spec => []BlockedWaitsForWork
  BY <1>1, <1>2, BlockersInvariance, PTL
<1> QED
  BY <1>2
=============================================================================
