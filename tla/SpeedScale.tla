----------------------------- MODULE SpeedScale -----------------------------
(***************************************************************************)
(* Speed scales (mission_manager_node.py): an operator asks for the speed  *)
(* of a robot, the node passes the request on over the side channel, and   *)
(* shows as the robot's speed the one the robot confirmed last. Nothing of *)
(* this is stored, so the node that crashed or was stopped starts without  *)
(* it, while the robots drive on and the messages under way stay so.       *)
(*                                                                         *)
(* Outside src/ is the robot. It is modelled as a process that takes its   *)
(* requests in order, applies or refuses each, and reports that in order;  *)
(* the channel between node and robot keeps the order of its messages and  *)
(* may lose any, and a report that came may come again at any later time.  *)
(***************************************************************************)
EXTENDS Integers, Sequences

CONSTANTS
  Robot,
  Input,         \* the scales an operator may ask for, in hundredths
  MaxRequests,   \* bound: how many requests a behaviour may contain
  MaxRestarts    \* bound: how many restarts of the node a behaviour may contain

ASSUME SpeedAssumption ==
  Input \subseteq Int /\ MaxRequests \in Nat /\ MaxRestarts \in Nat

(* 0.3 <= scale <= 1.0                                                     *)
Valid == 30 .. 100

Request == 1 .. MaxRequests
Report == [request : Request, applied : BOOLEAN]

VARIABLES
  requested,   \* RobotState.requested_speed_scale
  confirmed,   \* RobotState.speed_scale
  pending,     \* pending_speed_scale_requests: records of id, robot and scale
  issued,      \* how many request ids (uuid4) there were
  known,       \* ghost: the robots that confirmed a speed to this run of the
               \* node; in its first run, all drive at the full speed it assumes
  restarts,    \* how many restarts there were; counted for MaxRestarts only
  inbox,       \* outside: inbox[r], requests on their way to robot r
  reports,     \* outside: reports[r], reports on their way from robot r
  received,    \* outside: received[r], the reports that came from robot r
  actual       \* outside: the scale robot r drives with

node == <<requested, confirmed, pending, issued, known, restarts>>
vars == <<node, inbox, reports, received, actual>>

Pending == [id : Request, robot : Robot, scale : Valid]

(* Every piece of the state has its type; in particular no speed outside   *)
(* the limits is ever asked of a robot, or shown as one of its speeds.     *)
TypeOK ==
  /\ requested \in [Robot -> Valid]
  /\ confirmed \in [Robot -> Valid]
  /\ pending \subseteq Pending
  /\ issued \in 0 .. MaxRequests
  /\ known \subseteq Robot
  /\ restarts \in 0 .. MaxRestarts
  /\ inbox \in [Robot -> Seq(Pending)]
  /\ reports \in [Robot -> Seq(Report)]
  /\ received \in [Robot -> SUBSET Report]
  /\ actual \in [Robot -> Valid]

Init ==
  /\ requested = [r \in Robot |-> 100]
  /\ confirmed = [r \in Robot |-> 100]
  /\ pending = {}
  /\ issued = 0
  /\ known = Robot
  /\ restarts = 0
  /\ inbox = [r \in Robot |-> <<>>]
  /\ reports = [r \in Robot |-> <<>>]
  /\ received = [r \in Robot |-> {}]
  /\ actual = [r \in Robot |-> 100]

-----------------------------------------------------------------------------
(* The node.                                                               *)

(* A faulty variant of IsValid: the upper limit is not looked at.          *)
IsAboveMinimum(scale) == 30 <= scale

IsValid(scale) == 30 <= scale /\ scale <= 100

(* _handle_speed_scale_command.                                            *)
RequestScale(r, scale) ==
  LET request == [id |-> issued + 1, robot |-> r, scale |-> scale]
  IN  /\ issued < MaxRequests
      /\ IsValid(scale)
      /\ requested' = [requested EXCEPT ![r] = scale]
      /\ pending' = pending \cup {request}
      /\ issued' = issued + 1
      /\ inbox' = [inbox EXCEPT ![r] = Append(@, request)]
      /\ UNCHANGED <<confirmed, known, restarts, reports, received, actual>>

(* A faulty variant of Confirmation: whatever was asked for last is taken  *)
(* for confirmed.                                                          *)
ConfirmationOfLast(q) == requested[q.robot]

(* The scale that a success of request q confirms.                         *)
Confirmation(q) == q.scale

(* A faulty variant of HandleResult: the answered request stays pending.   *)
HandleResultWithoutPop(m) ==
  /\ UNCHANGED pending
  /\ \/ /\ m.applied
        /\ \E q \in pending :
             /\ q.id = m.request
             /\ confirmed' = [confirmed EXCEPT ![q.robot] = Confirmation(q)]
             /\ known' = known \cup {q.robot}
     \/ /\ m.applied => \A q \in pending : q.id # m.request
        /\ UNCHANGED <<confirmed, known>>

(* _handle_speed_scale_result.                                             *)
HandleResult(m) ==
  /\ pending' = {q \in pending : q.id # m.request}
  /\ \/ /\ m.applied
        /\ \E q \in pending :
             /\ q.id = m.request
             /\ confirmed' = [confirmed EXCEPT ![q.robot] = Confirmation(q)]
             /\ known' = known \cup {q.robot}
     \/ /\ m.applied => \A q \in pending : q.id # m.request
        /\ UNCHANGED <<confirmed, known>>

ReceiveReport(r) ==
  /\ reports[r] # <<>>
  /\ HandleResult(Head(reports[r]))
  /\ reports' = [reports EXCEPT ![r] = Tail(@)]
  /\ received' = [received EXCEPT ![r] = @ \cup {Head(reports[r])}]
  /\ UNCHANGED <<requested, issued, restarts, inbox, actual>>

(* A faulty variant of IdsUsed: the ids are numbers that begin again.      *)
NoIdsUsed == 0

(* How many ids of requests a node that starts must not use again: every   *)
(* id is a new uuid4, whatever became of the run that gave it.             *)
IdsUsed == issued

(* The node ends, and main starts it anew.                                 *)
Restart ==
  /\ restarts < MaxRestarts
  /\ requested' = [r \in Robot |-> 100]
  /\ confirmed' = [r \in Robot |-> 100]
  /\ pending' = {}
  /\ issued' = IdsUsed
  /\ known' = {}
  /\ restarts' = restarts + 1
  /\ UNCHANGED <<inbox, reports, received, actual>>

-----------------------------------------------------------------------------
(* The robot and the channel.                                              *)

TakeRequest(r, applied) ==
  LET m == [request |-> Head(inbox[r]).id, applied |-> applied]
  IN  /\ inbox[r] # <<>>
      /\ inbox' = [inbox EXCEPT ![r] = Tail(@)]
      /\ reports' = [reports EXCEPT ![r] = Append(@, m)]
      /\ actual' = [actual EXCEPT ![r] = IF applied THEN Head(inbox[r]).scale ELSE @]
      /\ UNCHANGED <<node, received>>

LoseRequest(r) ==
  /\ inbox[r] # <<>>
  /\ inbox' = [inbox EXCEPT ![r] = Tail(@)]
  /\ UNCHANGED <<node, reports, received, actual>>

LoseReport(r) ==
  /\ reports[r] # <<>>
  /\ reports' = [reports EXCEPT ![r] = Tail(@)]
  /\ UNCHANGED <<node, inbox, received, actual>>

RepeatReport(r) ==
  /\ reports[r] = <<>>
  /\ \E m \in received[r] : reports' = [reports EXCEPT ![r] = <<m>>]
  /\ UNCHANGED <<node, inbox, received, actual>>

Next ==
  \/ Restart
  \/ \E r \in Robot :
       \/ \E scale \in Input : RequestScale(r, scale)
       \/ ReceiveReport(r)
       \/ \E applied \in BOOLEAN : TakeRequest(r, applied)
       \/ LoseRequest(r)
       \/ LoseReport(r)
       \/ RepeatReport(r)

Spec == Init /\ [][Next]_vars

-----------------------------------------------------------------------------
(* The speed the node shows for a robot is the one the robot drives with,  *)
(* as soon as every request for that robot was answered: refusals, lost    *)
(* and repeated messages do not make them differ, nor does a restart, once *)
(* the robot has confirmed a speed to the node that runs now, even when    *)
(* requests and reports of earlier runs are still under way.               *)
ConfirmedIsActual ==
  \A r \in known : (\A q \in pending : q.robot # r) => confirmed[r] = actual[r]

-----------------------------------------------------------------------------
(* The inductive invariant behind ConfirmedIsActual.                       *)

(* What is under way between the node and robot r keeps its order, and is  *)
(* about requests that were made.                                          *)
OrderInv(r) ==
  /\ \A i \in 1 .. Len(inbox[r]) : inbox[r][i].id <= issued /\ inbox[r][i].robot = r
  /\ \A k \in 1 .. Len(reports[r]) : reports[r][k].request <= issued
  /\ \A m \in received[r] : m.request <= issued
  /\ \A i, j \in 1 .. Len(inbox[r]) : i < j => inbox[r][i].id < inbox[r][j].id
  /\ \A k, l \in 1 .. Len(reports[r]) : k < l => reports[r][k].request < reports[r][l].request
  /\ \A i \in 1 .. Len(inbox[r]) :
       /\ \A k \in 1 .. Len(reports[r]) : reports[r][k].request < inbox[r][i].id
       /\ \A m \in received[r] : m.request < inbox[r][i].id

(* The pending requests are the node's view of what is under way: a report *)
(* for one of them comes from its robot and has not come before, and what  *)
(* a robot has still to take, once it has taken a request of this run of   *)
(* the node, are requests of this run.                                     *)
PendingInv(r) ==
  /\ \A q \in pending : \A i \in 1 .. Len(inbox[r]) :
       /\ inbox[r][i].id = q.id => inbox[r][i] = q
       /\ q.robot = r /\ q.id < inbox[r][i].id => inbox[r][i] \in pending
  /\ \A q \in pending :
       /\ \A k \in 1 .. Len(reports[r]) : reports[r][k].request = q.id => q.robot = r
       /\ \A m \in received[r] : m.request # q.id
  /\ r \in known => \A i \in 1 .. Len(inbox[r]) : inbox[r][i] \in pending

(* A report that will confirm a speed of robot r.                          *)
Confirms(r, k) ==
  reports[r][k].applied /\ \E p \in pending : p.id = reports[r][k].request

(* Request q is the one that robot r applied last, and is not answered yet.*)
Awaited(r, q) ==
  /\ q.robot = r /\ q.scale = actual[r]
  /\ \A i \in 1 .. Len(inbox[r]) : q.id < inbox[r][i].id
  /\ \A k \in 1 .. Len(reports[r]) :
       /\ Confirms(r, k) => reports[r][k].request <= q.id
       /\ reports[r][k].request = q.id => reports[r][k].applied

(* Speed and confirmation differ only while a request that was applied is  *)
(* not answered.                                                           *)
SpeedInv(r) ==
  /\ (\E k \in 1 .. Len(reports[r]) : Confirms(r, k)) => \E q \in pending : Awaited(r, q)
  /\ r \in known => confirmed[r] = actual[r] \/ \E q \in pending : Awaited(r, q)

Inv ==
  /\ TypeOK
  /\ \A q \in pending : q.id <= issued
  /\ \A p, q \in pending : p.id = q.id => p = q
  /\ \A r \in Robot : OrderInv(r) /\ PendingInv(r) /\ SpeedInv(r)
=============================================================================
