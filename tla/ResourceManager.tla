-------------------------- MODULE ResourceManager --------------------------
(***************************************************************************)
(* Access to the managed transfer zone (resources.py, resource_manager.py).*)
(*                                                                         *)
(* A zone record holds                                                     *)
(*   lease  the task the active lease was granted to, or NoTask. A lease   *)
(*          names its task and its actor; the actor is always the robot of *)
(*          the task (RequestResourceAccess passes task.robot_id).         *)
(*   occ    robot_occupancy: the robots marked as inside                   *)
(*   buf    package_occupancy: the packages marked as lying in the zone    *)
(* The mission gives the zone room for one robot and one package, so "no   *)
(* slot available" is "not empty"; both lists are free of duplicates and,  *)
(* with room for one, of order.                                            *)
(***************************************************************************)
EXTENDS MissionDefinition

ZoneState == [lease : Task \cup {NoTask}, occ : SUBSET Robot, buf : SUBSET Item]

EmptyZone == [lease |-> NoTask, occ |-> {}, buf |-> {}]

LeasedToOther(z, r) == z.lease # NoTask /\ RobotOf(z.lease) # r

RobotSlotAvailable(z) == z.occ = {}
PackageSlotAvailable(z) == z.buf = {}

(* Faulty variants of Granted below: one does not look whether the package *)
(* to fetch has arrived, one not whether there is room for another.        *)
GrantedWithoutPackage(z, t, purpose) ==
  /\ ~ LeasedToOther(z, RobotOf(t))
  /\ \/ RobotOf(t) \in z.occ
     \/ /\ RobotSlotAvailable(z)
        /\ purpose = "dropoff" => PackageSlotAvailable(z)

GrantedWithoutRoom(z, t, purpose) ==
  /\ ~ LeasedToOther(z, RobotOf(t))
  /\ \/ RobotOf(t) \in z.occ
     \/ /\ RobotSlotAvailable(z)
        /\ purpose = "pickup" => ItemOf(t) \in z.buf

(* request_access answers GRANTED. Otherwise it answers WAIT: both robots  *)
(* have a waiting waypoint, so BLOCKED is never the answer in this mission.*)
Granted(z, t, purpose) ==
  /\ ~ LeasedToOther(z, RobotOf(t))
  /\ \/ RobotOf(t) \in z.occ
     \/ /\ RobotSlotAvailable(z)
        /\ purpose = "dropoff" => PackageSlotAvailable(z)
        /\ purpose = "pickup" => ItemOf(t) \in z.buf

(* Why access was denied: reason and blocked_by of the decision. The fields*)
(* robot and item stand for the robot or the package that blocked_by names.*)
AccessReason == {"WAITING_FOR_TRANSFER_LEASE", "TRANSFER_ROBOT_OCCUPIED",
                 "TRANSFER_PACKAGE_FULL", "PACKAGE_NOT_AVAILABLE"}

Blocker == [reason : AccessReason \cup {"command_failed", "none"},
            robot : Robot \cup {NoRobot}, item : Item \cup {NoItem}]

BlockedByNothing == [reason |-> "none", robot |-> NoRobot, item |-> NoItem]
BlockedByRobot(reason, r) == [reason |-> reason, robot |-> r, item |-> NoItem]
BlockedByItem(reason, p) == [reason |-> reason, robot |-> NoRobot, item |-> p]

(* For an access that is not granted, the first check that fails.          *)
Denial(z, t, purpose) ==
  CASE LeasedToOther(z, RobotOf(t)) ->
         BlockedByRobot("WAITING_FOR_TRANSFER_LEASE", RobotOf(z.lease))
    [] ~ LeasedToOther(z, RobotOf(t)) /\ ~ RobotSlotAvailable(z) ->
         BlockedByRobot("TRANSFER_ROBOT_OCCUPIED", CHOOSE r \in z.occ : TRUE)
    [] ~ LeasedToOther(z, RobotOf(t)) /\ RobotSlotAvailable(z) ->
         IF purpose = "dropoff"
         THEN BlockedByItem("TRANSFER_PACKAGE_FULL", CHOOSE p \in z.buf : TRUE)
         ELSE BlockedByItem("PACKAGE_NOT_AVAILABLE", ItemOf(t))

(* A robot already marked inside is let through without a new lease; a     *)
(* lease its robot already holds is kept as it is.                         *)
GrantLease(z, t) ==
  IF RobotOf(t) \in z.occ \/ z.lease # NoTask THEN z
  ELSE [z EXCEPT !.lease = t]

Occupy(z, r) == [z EXCEPT !.occ = @ \cup {r}]

(* A faulty variant of Release: the robot leaves, its lease stays.         *)
ReleaseKeepingLease(z, r) == [z EXCEPT !.occ = @ \ {r}]

Release(z, r) ==
  [z EXCEPT !.occ = @ \ {r},
            !.lease = IF LeasedToOther(z, r) THEN @ ELSE NoTask]

BufferItem(z, p) == [z EXCEPT !.buf = @ \cup {p}]

(* A faulty variant of ReleaseItem: the buffer keeps the package.          *)
ReleaseItemForgotten(z, p) == z

ReleaseItem(z, p) == [z EXCEPT !.buf = @ \ {p}]
=============================================================================
