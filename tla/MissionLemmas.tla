---------------------------- MODULE MissionLemmas ----------------------------
(***************************************************************************)
(* Facts about the mission's definitions, and what each kind of update of  *)
(* the mission's state does to the inductive invariant WorldInv.           *)
(***************************************************************************)
EXTENDS MissionInvariant, TLAPS, WellFoundedInduction

(* A set of naturals has a least element.                                  *)
LEMMA LeastNat ==
  ASSUME NEW S \in SUBSET Nat, S # {}
  PROVE  \E m \in S : \A k \in S : m <= k
<1> DEFINE R == OpToRel(<, Nat)
<1>1. IsWellFoundedOn(R, Nat)
  BY NatLessThanWellFounded
<1>2. \A x, y \in Nat : x < y => <<x, y>> \in R
  BY DEF OpToRel
<1> HIDE DEF R
<1>3. PICK x \in S : \A y \in S : ~ (<<y, x>> \in R)
  BY <1>1, WFMin
<1>4. ASSUME NEW k \in S PROVE x <= k
  <2>1. ~ (<<k, x>> \in R)
    BY <1>3
  <2>2. ~ (k < x)
    BY <2>1, <1>2
  <2> QED
    BY <2>2
<1> QED
  BY <1>4

(* What a task says about its robot and its endpoints.                     *)
LEMMA TaskFacts ==
  ASSUME NEW t \in Task
  PROVE  /\ RobotOf(t) \in Robot /\ ItemOf(t) \in Item /\ t # NoTask
         /\ PickupOf(t) \in Waypoint /\ DropoffOf(t) \in Waypoint
         /\ \/ /\ LegOf(t) = Inbound /\ RobotOf(t) = UpstreamRobot
               /\ PickupOf(t) = "source" /\ DropoffOf(t) = Zone
            \/ /\ LegOf(t) = Outbound /\ RobotOf(t) = DownstreamRobot
               /\ PickupOf(t) = Zone /\ DropoffOf(t) = "destination"
BY DEF Task, Item, Leg, RobotOf, LegOf, ItemOf, PickupOf, DropoffOf, Robot, Waypoint,
       UpstreamRobot, DownstreamRobot, Inbound, Outbound, Zone, NoTask

(* A robot's exit, which is its waiting place, lies outside the zone.      *)
LEMMA ExitFacts ==
  ASSUME NEW r \in Robot
  PROVE  ExitOf(r) \in Waypoint /\ ExitOf(r) # Zone /\ WaitWaypointOf(r) = ExitOf(r)
BY DEF ExitOf, WaitWaypointOf, Waypoint, Zone

(* A task is known by its package and its robot.                           *)
LEMMA TaskIdentity ==
  ASSUME NEW t \in Task, NEW u \in Task, RobotOf(t) = RobotOf(u), ItemOf(t) = ItemOf(u)
  PROVE  t = u
BY DEF Task, RobotOf, LegOf, ItemOf, Leg, UpstreamRobot, DownstreamRobot, Inbound, Outbound

(* The first of the tasks in a set, in either order, is one of them and    *)
(* before the others.                                                      *)
LEMMA FirstInDictMember ==
  ASSUME NEW S \in SUBSET Task, S # {}
  PROVE  FirstInDict(S) \in S /\ \A u \in S : DictBefore(FirstInDict(S), u)
<1> DEFINE P == {ItemOf(t) : t \in S}
<1>1. P \in SUBSET Nat /\ P # {}
  BY TaskFacts, PackagesAssumption DEF Item
<1>2. PICK p \in P : \A q \in P : p <= q
  BY <1>1, LeastNat
<1>3. \A t \in S : ItemOf(t) \in Nat
  BY TaskFacts, PackagesAssumption DEF Item
<1>4. \E t \in S : \A u \in S : DictBefore(t, u)
  <2> DEFINE FirstLeg == \E t \in S : ItemOf(t) = p /\ LegOf(t) = Inbound
  <2>1. CASE FirstLeg
    <3>1. PICK t \in S : ItemOf(t) = p /\ LegOf(t) = Inbound
      BY <2>1
    <3>2. \A u \in S : DictBefore(t, u)
      BY <3>1, <1>2, <1>3 DEF DictBefore, InboundFirst
    <3> QED
      BY <3>2
  <2>2. CASE ~ FirstLeg
    <3>1. PICK t \in S : ItemOf(t) = p
      BY <1>2
    <3>2. \A u \in S : ItemOf(u) = p => LegOf(u) = Outbound
      BY <2>2, TaskFacts
    <3>3. \A u \in S : DictBefore(t, u)
      BY <3>1, <3>2, <1>2, <1>3 DEF DictBefore, InboundFirst
    <3> QED
      BY <3>3
  <2> HIDE DEF FirstLeg
  <2> QED
    BY <2>1, <2>2
<1> QED
  BY <1>4 DEF FirstInDict

(* The same of the order of the ids, in which the scheduler looks at tasks. *)
LEMMA FirstInSortedMember ==
  ASSUME NEW S \in SUBSET Task, S # {}
  PROVE  FirstInSorted(S) \in S /\ \A u \in S : SortedBefore(FirstInSorted(S), u)
<1> DEFINE P == {SortKey(ItemOf(t)) : t \in S}
<1>1. \A t \in S : SortKey(ItemOf(t)) \in Nat
  BY TaskFacts, PackagesAssumption DEF Item, SortKey
<1>2. P \in SUBSET Nat /\ P # {}
  BY <1>1
<1>3. PICK p \in P : \A q \in P : p <= q
  BY <1>2, LeastNat
<1>4. \E t \in S : \A u \in S : SortedBefore(t, u)
  <2> DEFINE FirstLeg == \E t \in S : SortKey(ItemOf(t)) = p /\ LegOf(t) = Inbound
  <2>1. CASE FirstLeg
    <3>1. PICK t \in S : SortKey(ItemOf(t)) = p /\ LegOf(t) = Inbound
      BY <2>1
    <3>2. \A u \in S : SortedBefore(t, u)
      BY <3>1, <1>1, <1>3 DEF SortedBefore, InboundFirst
    <3> QED
      BY <3>2
  <2>2. CASE ~ FirstLeg
    <3>1. PICK t \in S : SortKey(ItemOf(t)) = p
      BY <1>3
    <3>2. \A u \in S : SortKey(ItemOf(u)) = p => LegOf(u) = Outbound
      BY <2>2, TaskFacts
    <3>3. \A u \in S : SortedBefore(t, u)
      BY <3>1, <3>2, <1>1, <1>3 DEF SortedBefore, InboundFirst
    <3> QED
      BY <3>3
  <2> HIDE DEF FirstLeg
  <2> QED
    BY <2>1, <2>2
<1> QED
  BY <1>4 DEF FirstInSorted

-----------------------------------------------------------------------------
(* Field by field, what a record of World holds.                           *)
LEMMA WorldFields ==
  ASSUME NEW w \in World
  PROVE  /\ w.mission \in MissionStatus
         /\ w.status \in [Task -> TaskStatus]
         /\ w.stage \in [Task -> Stage]
         /\ w.active \in [Task -> Nat]
         /\ w.acquired \in SUBSET Task
         /\ w.retries \in [Task -> [Waypoint -> Nat]]
         /\ w.blocker \in [Task -> Blocker]
         /\ w.loc \in [Robot -> Waypoint]
         /\ w.duty \in [Robot -> {"IDLE", "BUSY", "WAITING"}]
         /\ w.claim \in [Robot -> Task \cup {NoTask}]
         /\ w.paused \in SUBSET Robot
         /\ w.place \in [Item -> Waypoint]
         /\ w.carrier \in [Item -> Robot \cup {NoRobot}]
         /\ w.zone \in ZoneState
         /\ w.live \in SUBSET Command
         /\ w.next \in Nat
BY DEF World

(* An engaged task is the only one of its robot that is.                   *)
LEMMA EngagedAlone ==
  ASSUME NEW w, TaskInv(w), NEW t \in Task, NEW u \in Task,
         Engaged(w, t), Engaged(w, u), RobotOf(t) = RobotOf(u)
  PROVE  t = u
BY DEF TaskInv

(* The task whose robot holds the lease is the one that has acquired the   *)
(* zone, and it is engaged.                                                *)
LEMMA LeaseHolder ==
  ASSUME NEW w \in World, TaskInv(w), ZoneInv(w), NEW t \in Task, Engaged(w, t),
         HoldsLease(w, RobotOf(t))
  PROVE  w.zone.lease = t /\ t \in w.acquired
<1>1. w.zone.lease \in Task /\ RobotOf(w.zone.lease) = RobotOf(t)
  BY DEF World, ZoneState, HoldsLease
<1>2. Engaged(w, w.zone.lease)
  BY <1>1 DEF ZoneInv, ZoneStages, Engaged
<1>3. w.zone.lease = t
  BY <1>1, <1>2, EngagedAlone
<1> QED
  BY <1>3 DEF ZoneInv

(* Emitting a command for an engaged task without one.                     *)
LEMMA EmissionInv ==
  ASSUME NEW w, NEW V, WorldInv(w, V), NEW t \in Task,
         NEW kind \in Kind, NEW target \in Waypoint \cup {NoTarget},
         Engaged(w, t), Unfinished(w, t), w.active[t] = NoCommand,
         kind = "move" => target \in Waypoint,
         kind = "move" /\ target = Zone => w.stage[t] = ApproachStage(t)
  PROVE  WorldInv(AddCommand(SetStatus(w, t, "RUNNING"), t, kind, target), V)
<1> DEFINE c == [id |-> w.next, task |-> t, kind |-> kind, target |-> target]
           v == AddCommand(SetStatus(w, t, "RUNNING"), t, kind, target)
<1>1. w \in World /\ TaskInv(w) /\ ZoneInv(w) /\ CommandInv(w) /\ VisitorInv(w, V)
  BY DEF WorldInv
<1>2. c \in Command
  BY <1>1, WorldFields DEF Command
<1>3. /\ v.status = [w.status EXCEPT ![t] = "RUNNING"]
      /\ v.live = w.live \cup {c}
      /\ v.active = [w.active EXCEPT ![t] = w.next]
      /\ v.next = w.next + 1
      /\ v.stage = w.stage /\ v.claim = w.claim /\ v.duty = w.duty
      /\ v.acquired = w.acquired /\ v.zone = w.zone /\ v.loc = w.loc
      /\ v.place = w.place /\ v.carrier = w.carrier
  BY <1>1 DEF AddCommand, SetStatus, World
<1>4. v \in World
  <2>1. /\ [w.status EXCEPT ![t] = "RUNNING"] \in [Task -> TaskStatus]
        /\ w.live \cup {c} \in SUBSET Command
        /\ [w.active EXCEPT ![t] = w.next] \in [Task -> Nat]
        /\ w.next + 1 \in Nat
    BY <1>1, <1>2, WorldFields DEF TaskStatus
  <2> HIDE DEF c
  <2>2. [w EXCEPT !.status = [w.status EXCEPT ![t] = "RUNNING"],
                  !.live = w.live \cup {c},
                  !.active = [w.active EXCEPT ![t] = w.next],
                  !.next = w.next + 1] \in World
    BY <1>1, <2>1 DEF World
  <2> QED
    BY <1>1, <2>2 DEF AddCommand, SetStatus, c, World
<1> HIDE DEF v
<1>5. TaskInv(v)
  BY <1>1, <1>3, WorldFields DEF TaskInv, Engaged
<1>6. ZoneInv(v)
  BY <1>1, <1>3 DEF ZoneInv, HoldsLease
<1>7. CommandInv(v)
  <2>1. \A u \in Task : Engaged(v, u) <=> Engaged(w, u)
    BY <1>3 DEF Engaged
  <2>2. \A u \in Task : Unfinished(v, u) <=> Unfinished(w, u)
    BY <1>3 DEF Unfinished, IsLoaded, IsUnloaded, IsItemAt, MustVacate
  <2>3. \A d \in w.live : d \in Command /\ d.id \in Nat /\ d.task \in Task
    BY <1>1, WorldFields DEF Command
  <2>4. \A d \in w.live : d.task # t
    BY <1>1 DEF CommandInv
  <2>5. v.next # NoCommand /\ w.next \in Nat
    BY <1>1, <1>3, WorldFields DEF NoCommand
  <2>6. \A d \in v.live : /\ d.id < v.next /\ d.id # NoCommand
                          /\ v.active[d.task] = d.id
                          /\ d.kind = "move" => d.target \in Waypoint
                          /\ IsZoneMove(d) => v.stage[d.task] = ApproachStage(d.task)
    BY <1>1, <1>3, <2>3, <2>4, <2>5, WorldFields DEF CommandInv, IsZoneMove
  <2>7. \A d, e \in v.live : d.id = e.id => d = e
    BY <1>1, <1>3, <2>3, <2>5 DEF CommandInv
  <2>8. ASSUME NEW u \in Task, v.active[u] # NoCommand
        PROVE  /\ Engaged(v, u) /\ Unfinished(v, u)
               /\ \E d \in v.live : d.id = v.active[u] /\ d.task = u
    <3>1. CASE u = t
      <4>1. c \in v.live /\ c.id = w.next /\ c.task = t
        BY <1>3 DEF c
      <4>2. v.active[t] = w.next
        BY <1>1, <1>3, WorldFields
      <4> QED
        BY <3>1, <4>1, <4>2, <2>1, <2>2
    <3>2. CASE u # t
      <4>1. v.active[u] = w.active[u]
        BY <3>2, <1>1, <1>3, WorldFields
      <4>2. PICK d \in w.live : d.id = w.active[u] /\ d.task = u
        BY <4>1, <2>8, <1>1 DEF CommandInv
      <4>3. Engaged(w, u) /\ Unfinished(w, u)
        BY <4>1, <2>8, <1>1 DEF CommandInv
      <4> QED
        BY <4>1, <4>2, <4>3, <2>1, <2>2, <1>3
    <3> QED
      BY <3>1, <3>2
  <2> QED
    BY <2>5, <2>6, <2>7, <2>8 DEF CommandInv
<1>8. VisitorInv(v, V)
  BY <1>1, <1>3 DEF VisitorInv
<1> QED
  BY <1>4, <1>5, <1>6, <1>7, <1>8 DEF WorldInv, v

-----------------------------------------------------------------------------
(* v is w except for what concerns task t and its robot.                   *)
OnlyTaskChanges(w, v, t) ==
  /\ v.live = w.live /\ v.next = w.next /\ v.active = w.active
  /\ v.loc = w.loc /\ v.place = w.place /\ v.carrier = w.carrier
  /\ \A u \in Task \ {t} :
       /\ v.status[u] = w.status[u] /\ v.stage[u] = w.stage[u]
       /\ u \in v.acquired <=> u \in w.acquired
       /\ v.zone.lease = u <=> w.zone.lease = u
  /\ \A r \in Robot \ {RobotOf(t)} : v.duty[r] = w.duty[r] /\ v.claim[r] = w.claim[r]

(* What then remains to be shown of task t in v.                           *)
TaskIsConsistent(v, V, t) ==
  LET r == RobotOf(t)
  IN  /\ v.claim[r] = IF Engaged(v, t) THEN t ELSE NoTask
      /\ v.status[t] \in {"RUNNING", "BLOCKED"} => Engaged(v, t)
      /\ v.status[t] = "PENDING" => v.stage[t] = "ClaimRobot"
      /\ v.duty[r] = "IDLE" => ~ Engaged(v, t)
      /\ t \in v.acquired <=> v.zone.lease = t
      /\ t \in v.acquired <=> v.stage[t] \in ZoneStages(t)
      /\ v.active[t] # NoCommand => Engaged(v, t) /\ Unfinished(v, t)
      /\ \A c \in v.live : c.task = t /\ IsZoneMove(c) => v.stage[t] = ApproachStage(t)
      /\ r \in V => v.loc[r] = Zone \/ v.stage[t] = ApproachStage(t)

ZoneIsHeld(v) ==
  /\ \A r \in v.zone.occ : HoldsLease(v, r)
  /\ \A r \in Robot : v.loc[r] = Zone => HoldsLease(v, r)

(* An update that concerns one task, whose robot works for no other task,  *)
(* keeps the invariant when it keeps it for that task.                     *)
LEMMA UpdateInv ==
  ASSUME NEW w, NEW V, WorldInv(w, V), NEW t \in Task, NEW v \in World,
         w.claim[RobotOf(t)] \in {t, NoTask},
         OnlyTaskChanges(w, v, t), TaskIsConsistent(v, V, t), ZoneIsHeld(v)
  PROVE  WorldInv(v, V)
<1>1. w \in World /\ TaskInv(w) /\ ZoneInv(w) /\ CommandInv(w) /\ VisitorInv(w, V)
  BY DEF WorldInv
<1>2. RobotOf(t) \in Robot /\ t # NoTask
  BY TaskFacts
<1>3. ASSUME NEW u \in Task \ {t}
      PROVE  /\ Engaged(v, u) <=> Engaged(w, u)
             /\ Unfinished(v, u) <=> Unfinished(w, u)
  BY <1>3 DEF OnlyTaskChanges, Engaged, Unfinished, IsLoaded, IsUnloaded, IsItemAt, MustVacate
<1>4. TaskInv(v)
  <2>1. ASSUME NEW u \in Task PROVE Engaged(v, u) <=> v.claim[RobotOf(u)] = u
    <3>1. CASE u = t
      BY <3>1, <1>2 DEF TaskIsConsistent
    <3>2. CASE u # t /\ RobotOf(u) = RobotOf(t)
      <4>1. ~ Engaged(w, u)
        BY <3>2, <1>1, TaskFacts DEF TaskInv
      <4>2. v.claim[RobotOf(t)] # u
        BY <3>2, TaskFacts DEF TaskIsConsistent
      <4> QED
        BY <3>2, <4>1, <4>2, <1>3
    <3>3. CASE RobotOf(u) # RobotOf(t)
      <4>1. u # t /\ RobotOf(u) \in Robot
        BY <3>3, TaskFacts
      <4> QED
        BY <3>3, <4>1, <1>1, <1>3 DEF TaskInv, OnlyTaskChanges
    <3> QED
      BY <3>1, <3>2, <3>3
  <2>2. ASSUME NEW u \in Task
        PROVE  /\ v.status[u] \in {"RUNNING", "BLOCKED"} => Engaged(v, u)
               /\ v.status[u] = "PENDING" => v.stage[u] = "ClaimRobot"
    <3>1. CASE u = t
      BY <3>1 DEF TaskIsConsistent
    <3>2. CASE u # t
      BY <3>2, <1>1, <1>3 DEF TaskInv, OnlyTaskChanges
    <3> QED
      BY <3>1, <3>2
  <2>3. ASSUME NEW r \in Robot, v.duty[r] = "IDLE" PROVE v.claim[r] = NoTask
    <3>1. CASE r = RobotOf(t)
      BY <2>3, <3>1 DEF TaskIsConsistent
    <3>2. CASE r # RobotOf(t)
      BY <2>3, <3>2, <1>1 DEF TaskInv, OnlyTaskChanges
    <3> QED
      BY <3>1, <3>2
  <2>4. ASSUME NEW r \in Robot, v.claim[r] # NoTask PROVE RobotOf(v.claim[r]) = r
    <3>1. CASE r = RobotOf(t)
      BY <2>4, <3>1 DEF TaskIsConsistent
    <3>2. CASE r # RobotOf(t)
      BY <2>4, <3>2, <1>1 DEF TaskInv, OnlyTaskChanges
    <3> QED
      BY <3>1, <3>2
  <2> QED
    BY <2>1, <2>2, <2>3, <2>4 DEF TaskInv
<1>5. ZoneInv(v)
  <2>1. ASSUME NEW u \in Task
        PROVE  /\ u \in v.acquired <=> v.zone.lease = u
               /\ u \in v.acquired <=> v.stage[u] \in ZoneStages(u)
    <3>1. CASE u = t
      BY <3>1 DEF TaskIsConsistent
    <3>2. CASE u # t
      BY <3>2, <1>1 DEF ZoneInv, OnlyTaskChanges
    <3> QED
      BY <3>1, <3>2
  <2> QED
    BY <2>1 DEF ZoneInv, ZoneIsHeld
<1>6. CommandInv(v)
  <2>1. ASSUME NEW c \in v.live
        PROVE  /\ c.id < v.next /\ c.id # NoCommand
               /\ v.active[c.task] = c.id
               /\ c.kind = "move" => c.target \in Waypoint
               /\ IsZoneMove(c) => v.stage[c.task] = ApproachStage(c.task)
    <3>1. c \in w.live /\ c.task \in Task
      BY <1>1, WorldFields DEF OnlyTaskChanges, Command
    <3>2. IsZoneMove(c) => v.stage[c.task] = ApproachStage(c.task)
      <4>1. CASE c.task = t
        BY <4>1 DEF TaskIsConsistent
      <4>2. CASE c.task # t
        BY <4>2, <3>1, <1>1 DEF OnlyTaskChanges, CommandInv
      <4> QED
        BY <4>1, <4>2
    <3> QED
      BY <3>1, <3>2, <1>1 DEF OnlyTaskChanges, CommandInv
  <2>2. ASSUME NEW u \in Task, v.active[u] # NoCommand
        PROVE  /\ Engaged(v, u) /\ Unfinished(v, u)
               /\ \E c \in v.live : c.id = v.active[u] /\ c.task = u
    <3>1. v.live = w.live /\ v.active = w.active
      BY DEF OnlyTaskChanges
    <3>2. Engaged(v, u) /\ Unfinished(v, u)
      <4>1. CASE u = t
        BY <4>1, <2>2 DEF TaskIsConsistent
      <4>2. CASE u # t
        BY <4>2, <2>2, <3>1, <1>1, <1>3 DEF CommandInv
      <4> QED
        BY <4>1, <4>2
    <3> QED
      BY <2>2, <3>1, <3>2, <1>1 DEF CommandInv
  <2>3. /\ v.next # NoCommand
        /\ \A c, d \in v.live : c.id = d.id => c = d
    BY <1>1 DEF OnlyTaskChanges, CommandInv
  <2> QED
    BY <2>1, <2>2, <2>3 DEF CommandInv
<1>7. VisitorInv(v, V)
  <2> SUFFICES ASSUME NEW r \in V
               PROVE  v.loc[r] = Zone
                        \/ \E u \in Task : RobotOf(u) = r /\ v.stage[u] = ApproachStage(u)
    BY DEF VisitorInv
  <2>1. CASE r = RobotOf(t)
    BY <2>1 DEF TaskIsConsistent
  <2>2. CASE r # RobotOf(t)
    BY <2>2, <1>1 DEF VisitorInv, OnlyTaskChanges
  <2> QED
    BY <2>1, <2>2
<1> QED
  BY <1>1, <1>4, <1>5, <1>6, <1>7 DEF WorldInv
-----------------------------------------------------------------------------
(* Updates of what the invariant hardly looks at.                          *)

(* v is w but for the mission's status, the pauses, the retry counters,    *)
(* the blockers and the status of tasks.                                   *)
SameWork(w, v) ==
  /\ v.live = w.live /\ v.next = w.next /\ v.active = w.active
  /\ v.stage = w.stage /\ v.acquired = w.acquired /\ v.zone = w.zone
  /\ v.loc = w.loc /\ v.duty = w.duty /\ v.claim = w.claim
  /\ v.place = w.place /\ v.carrier = w.carrier

(* Such an update keeps the invariant if every task keeps its status, or   *)
(* ends, or runs while engaged.                                            *)
LEMMA SameWorkInv ==
  ASSUME NEW w, NEW V, WorldInv(w, V), NEW v \in World, SameWork(w, v),
         \A t \in Task : \/ v.status[t] = w.status[t]
                         \/ v.status[t] \in {"FAILED", "CANCELLED"}
                         \/ v.status[t] = "RUNNING" /\ Engaged(w, t)
  PROVE  WorldInv(v, V)
<1>1. w \in World /\ TaskInv(w) /\ ZoneInv(w) /\ CommandInv(w) /\ VisitorInv(w, V)
  BY DEF WorldInv
<1>2. \A t \in Task : /\ Engaged(v, t) <=> Engaged(w, t)
                      /\ Unfinished(v, t) <=> Unfinished(w, t)
  BY DEF SameWork, Engaged, Unfinished, IsLoaded, IsUnloaded, IsItemAt, MustVacate
<1>3. TaskInv(v)
  BY <1>1, <1>2 DEF TaskInv, SameWork
<1>4. ZoneInv(v)
  BY <1>1 DEF ZoneInv, SameWork, HoldsLease
<1>5. CommandInv(v)
  BY <1>1, <1>2 DEF CommandInv, SameWork
<1>6. VisitorInv(v, V)
  BY <1>1 DEF VisitorInv, SameWork
<1> QED
  BY <1>3, <1>4, <1>5, <1>6 DEF WorldInv

(* What is shown as blocking a task matters to nothing else.               *)
LEMMA SetBlockerInv ==
  ASSUME NEW w, NEW V, WorldInv(w, V), NEW t \in Task, NEW b \in Blocker
  PROVE  /\ WorldInv(SetBlocker(w, t, b), V)
         /\ SameWork(w, SetBlocker(w, t, b))
         /\ SetBlocker(w, t, b).status = w.status
<1> DEFINE v == SetBlocker(w, t, b)
<1>1. w \in World
  BY DEF WorldInv
<1>2. v = [w EXCEPT !.blocker = [w.blocker EXCEPT ![t] = b]]
  BY <1>1 DEF SetBlocker, World
<1>3. [w.blocker EXCEPT ![t] = b] \in [Task -> Blocker]
  BY <1>1, WorldFields
<1>4. v \in World
  BY <1>1, <1>2, <1>3 DEF World
<1>5. SameWork(w, v) /\ v.status = w.status
  BY <1>1, <1>2 DEF SameWork, World
<1> HIDE DEF v
<1>6. WorldInv(v, V)
  BY <1>4, <1>5, SameWorkInv
<1> QED
  BY <1>5, <1>6 DEF v

(* Every denial names its reason and one robot or package.                 *)
LEMMA DenialType ==
  ASSUME NEW z \in ZoneState, NEW t \in Task, NEW purpose \in {"pickup", "dropoff"},
         ~ Granted(z, t, purpose)
  PROVE  Denial(z, t, purpose) \in Blocker
<1>1. z.lease \in Task \cup {NoTask} /\ z.occ \in SUBSET Robot /\ z.buf \in SUBSET Item
  BY DEF ZoneState
<1>2. CASE LeasedToOther(z, RobotOf(t))
  BY <1>1, <1>2, TaskFacts
     DEF Denial, LeasedToOther, Blocker, BlockedByRobot, AccessReason
<1>3. CASE ~ LeasedToOther(z, RobotOf(t)) /\ ~ RobotSlotAvailable(z)
  <2>1. (CHOOSE r \in z.occ : TRUE) \in Robot
    BY <1>1, <1>3 DEF RobotSlotAvailable
  <2> QED
    BY <1>3, <2>1 DEF Denial, Blocker, BlockedByRobot, AccessReason
<1>4. CASE ~ LeasedToOther(z, RobotOf(t)) /\ RobotSlotAvailable(z)
  <2>1. purpose = "dropoff" => (CHOOSE p \in z.buf : TRUE) \in Item
    BY <1>1, <1>4 DEF Granted, PackageSlotAvailable
  <2> QED
    BY <1>4, <2>1, TaskFacts DEF Denial, Blocker, BlockedByItem, AccessReason
<1> QED
  BY <1>2, <1>3, <1>4
=============================================================================
