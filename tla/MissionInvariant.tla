-------------------------- MODULE MissionInvariant --------------------------
(***************************************************************************)
(* The inductive invariant behind ZoneExclusive, OneCommandPerRobot and    *)
(* ActiveTaskOwnsRobot. It is about a state w of the mission and a set V   *)
(* of robots that may be inside the zone, not about the variables, because *)
(* a callback passes through many states of the mission.                   *)
(***************************************************************************)
EXTENDS MissionProperties

(* The stages of task t between acquiring the zone and releasing it; in    *)
(* the first of them the robot is sent in.                                 *)
ZoneStages(t) ==
  IF LegOf(t) = Inbound THEN {"MoveToDropoff", "Unload", "VacateDropoff"}
  ELSE {"MoveToPickup", "Load", "VacatePickup"}

ApproachStage(t) == IF LegOf(t) = Inbound THEN "MoveToDropoff" ELSE "MoveToPickup"

(* Between claiming its robot and releasing it.                            *)
Engaged(w, t) == w.stage[t] \notin {"ClaimRobot", "Done"}

(* The child the task stands at has not reached what it commands, so that  *)
(* a tick cannot go past it while the command is under way.                *)
Unfinished(w, t) ==
  /\ w.stage[t] = "RequestPickup"  => PickupOf(t) = Zone
  /\ w.stage[t] = "MoveToPickup"   => w.loc[RobotOf(t)] # PickupOf(t)
  /\ w.stage[t] = "Load"           => ~ IsLoaded(w, t)
  /\ w.stage[t] = "VacatePickup"   => MustVacate(w, t, PickupOf(t))
  /\ w.stage[t] = "RequestDropoff" => DropoffOf(t) = Zone
  /\ w.stage[t] = "MoveToDropoff"  => w.loc[RobotOf(t)] # DropoffOf(t)
  /\ w.stage[t] = "Unload"         => ~ IsUnloaded(w, t)
  /\ w.stage[t] = "VacateDropoff"  => MustVacate(w, t, DropoffOf(t))

TaskInv(w) ==
  /\ \A t \in Task : Engaged(w, t) <=> w.claim[RobotOf(t)] = t
  /\ \A t \in Task : w.status[t] \in {"RUNNING", "BLOCKED"} => Engaged(w, t)
  /\ \A t \in Task : w.status[t] = "PENDING" => w.stage[t] = "ClaimRobot"
  /\ \A r \in Robot : w.duty[r] = "IDLE" => w.claim[r] = NoTask
  /\ \A r \in Robot : w.claim[r] # NoTask => RobotOf(w.claim[r]) = r

ZoneInv(w) ==
  /\ \A t \in Task : t \in w.acquired <=> w.zone.lease = t
  /\ \A t \in Task : t \in w.acquired <=> w.stage[t] \in ZoneStages(t)
  /\ \A r \in w.zone.occ : HoldsLease(w, r)
  /\ \A r \in Robot : w.loc[r] = Zone => HoldsLease(w, r)

IsZoneMove(c) == c.kind = "move" /\ c.target = Zone

CommandInv(w) ==
  /\ w.next # NoCommand
  /\ \A c \in w.live :
       /\ c.id < w.next /\ c.id # NoCommand
       /\ w.active[c.task] = c.id
       /\ c.kind = "move" => c.target \in Waypoint
       /\ IsZoneMove(c) => w.stage[c.task] = ApproachStage(c.task)
  /\ \A c, d \in w.live : c.id = d.id => c = d
  /\ \A t \in Task : w.active[t] # NoCommand =>
       /\ Engaged(w, t)
       /\ Unfinished(w, t)
       /\ \E c \in w.live : c.id = w.active[t] /\ c.task = t

(* A robot that may be inside is there, or on its way for a task that has  *)
(* acquired the zone.                                                      *)
VisitorInv(w, V) ==
  \A r \in V : w.loc[r] = Zone
                 \/ \E t \in Task : RobotOf(t) = r /\ w.stage[t] = ApproachStage(t)

WorldInv(w, V) ==
  /\ w \in World
  /\ TaskInv(w)
  /\ ZoneInv(w)
  /\ CommandInv(w)
  /\ VisitorInv(w, V)

(* The inductive invariant of the specification.                           *)
Inv ==
  /\ WorldInv(world, visitors)
  /\ cancels \subseteq CancelRequest
  /\ visitors \subseteq Robot
  /\ pauses \in Nat
=============================================================================
