--------------------------- MODULE DispatchProofs ---------------------------
(***************************************************************************)
(* The dispatch of commands keeps its invariant, and implements the life   *)
(* of commands that the mission manager relies on, for every number of     *)
(* commands and RMF tasks and every order of responses and results.        *)
(***************************************************************************)
EXTENDS CommandDispatch, TLAPS

USE AdapterAssumption, DispatchAssumption DEF Command, external

(* The initial state satisfies the invariant.                              *)
LEMMA DispatchInit == Init => DispatchInv
<1> SUFFICES ASSUME Init PROVE DispatchInv
  OBVIOUS
<1>1. TypeOK
  BY DEF Init, TypeOK, NewAdapter, Adapter, Status
<1>2. ActedOnce
  BY DEF Init, ActedOnce, IsTerminal, Terminal, NewAdapter
<1>3. DecisionsArrive
  BY DEF Init, DecisionsArrive, NewAdapter
<1>4. InFlightInv /\ BookingInv
  BY DEF Init, InFlightInv, BookingInv
<1> QED
  BY <1>1, <1>2, <1>3, <1>4 DEF DispatchInv

(* Dispatching a command.                                                  *)
LEMMA DispatchStep ==
  ASSUME DispatchInv, \/ \E c \in Move : DispatchMove(c)
                      \/ \E c \in Handling : DispatchHandling(c)
  PROVE  DispatchInv'
<1>1. PICK c \in Command : /\ status[c] = "NEW"
                           /\ \/ c \in Move /\ DispatchMove(c)
                              \/ c \in Handling /\ DispatchHandling(c)
  BY DEF DispatchMove, DispatchHandling
<1>2. /\ \A d \in Command : d # c => status'[d] = status[d]
      /\ status'[c] \in {"SUBMITTED", "RUNNING"}
      /\ UNCHANGED <<acted, recorded, booked, decided, responses, results>>
  BY <1>1 DEF DispatchInv, TypeOK, DispatchMove, DispatchHandling
<1>3. /\ adapter'.taskOf = adapter.taskOf /\ adapter'.completed = adapter.completed
      /\ adapter'.requests = adapter.requests \cup (IF c \in Move THEN {c} ELSE {})
  BY <1>1 DEF DispatchInv, TypeOK, Adapter, DispatchMove, DispatchHandling, SubmitCommand
<1>4. TypeOK'
  BY <1>1 DEF DispatchInv, TypeOK, Adapter, Status, DispatchMove, DispatchHandling, SubmitCommand
<1>5. ActedOnce'
  BY <1>1, <1>2, <1>3 DEF DispatchInv, ActedOnce, IsTerminal, Terminal
<1>6. c \notin decided /\ \A x \in RmfTask : booked[x] # NoCommand => booked[x] # c
  BY <1>1 DEF DispatchInv, InFlightInv, BookingInv
<1>7. \A d \in Command : status[d] # "NEW" => status'[d] = status[d]
  BY <1>1, <1>2
<1>8. InFlightInv'
  BY <1>2, <1>7 DEF DispatchInv, TypeOK, Response, InFlightInv
<1>9. BookingInv'
  BY <1>2 DEF DispatchInv, BookingInv
<1>10. DecisionsArrive'
  BY <1>1, <1>2, <1>3, <1>6 DEF DispatchInv, TypeOK, DecisionsArrive, InFlight
<1> QED
  BY <1>4, <1>5, <1>8, <1>9, <1>10 DEF DispatchInv

(* A response of RMF reaches the node.                                     *)
LEMMA ResponseStep ==
  ASSUME DispatchInv, NEW m \in responses, HandleApiResponse(m)
  PROVE  DispatchInv'
<1> DEFINE c == m.command
<1>1. /\ c \in Move /\ m.task \in RmfTask \cup {NoTask} /\ m \in Response
      /\ status[c] \in Status /\ adapter \in Adapter
  BY DEF DispatchInv, TypeOK, Response
<1>2. UNCHANGED <<acted, recorded, booked, decided, results>> /\ responses' = responses \ {m}
  BY DEF HandleApiResponse
<1>3. /\ \A d \in Command : d # c => status'[d] = status[d]
      /\ \/ status'[c] = status[c]
         \/ ~ IsTerminal(c) /\ status'[c] = "RUNNING"
      /\ status' \in [Command -> Status]
  BY <1>1 DEF DispatchInv, TypeOK, HandleApiResponse, MarkRunning, Status
<1>4. /\ adapter'.completed = adapter.completed
      /\ adapter'.requests = IF Decides(adapter, m) THEN adapter.requests \ {c} ELSE adapter.requests
      /\ \A x \in RmfTask : adapter'.taskOf[x] = IF Accepts(adapter, m) /\ x = m.task THEN c ELSE adapter.taskOf[x]
      /\ adapter' \in Adapter
  BY <1>1 DEF HandleApiResponse, HandleResponse, Accepts, Decides, Adapter
<1>5. TypeOK'
  BY <1>2, <1>3, <1>4 DEF DispatchInv, TypeOK
<1>6. \A d \in Command : /\ IsTerminal(d) <=> IsTerminal(d)'
                         /\ status'[d] = "NEW" => status[d] = "NEW"
                         /\ status'[d] = "SUBMITTED" => status[d] = "SUBMITTED"
  BY <1>3 DEF IsTerminal, Terminal
<1>7. Decides(adapter, m) <=> m.type = "RESPONDING"
  BY <1>1 DEF DispatchInv, DecisionsArrive, InFlightInv, Decides, InFlight
<1>8. Accepts(adapter, m) => booked[m.task] = c /\ m.task \in RmfTask
  BY <1>1 DEF DispatchInv, InFlightInv, Accepts, Decides
<1>9. ActedOnce'
  BY <1>2, <1>4, <1>6, <1>8 DEF DispatchInv, ActedOnce, TypeOK, Adapter
<1>10. InFlightInv' /\ BookingInv'
  BY <1>2, <1>3, <1>6 DEF DispatchInv, InFlightInv, BookingInv, TypeOK, Response
<1>11. DecisionsArrive'
  <2>1. \A x \in RmfTask : adapter'.taskOf[x] \in {NoCommand, booked[x]}
    BY <1>4, <1>8 DEF DispatchInv, DecisionsArrive
  <2>2. ASSUME NEW d \in Move
        PROVE  /\ d # c => (InFlight(d)' <=> InFlight(d))
               /\ m.type # "RESPONDING" => (InFlight(d)' <=> InFlight(d))
               /\ m.type = "RESPONDING" => InFlight(c) /\ ~ InFlight(c)'
    BY <1>2 DEF InFlight, DispatchInv, InFlightInv
  <2>3. ASSUME NEW x \in RmfTask, booked[x] # NoCommand, ~ InFlight(booked[x])'
        PROVE  adapter'.taskOf[x] = booked[x] /\ status'[booked[x]] # "SUBMITTED"
    <3>1. booked[x] \in Move
      BY <2>3 DEF DispatchInv, TypeOK
    <3>2. CASE booked[x] = c /\ m.type = "RESPONDING"
      <4>1. m.task # NoTask /\ m.task \in RmfTask /\ booked[m.task] = c
        BY <1>1, <3>2 DEF DispatchInv, InFlightInv
      <4>2. m.task = x
        BY <4>1, <3>2, <2>3 DEF DispatchInv, BookingInv
      <4>3. Accepts(adapter, m)
        BY <4>1, <3>2, <1>7 DEF Accepts
      <4>4. status'[c] # "SUBMITTED"
        BY <4>3, <1>1 DEF HandleApiResponse, MarkRunning, DispatchInv, TypeOK, IsTerminal, Terminal
      <4> QED
        BY <4>2, <4>3, <4>4, <1>4, <3>2
    <3>3. CASE ~ (booked[x] = c /\ m.type = "RESPONDING")
      <4>1. ~ InFlight(booked[x])
        <5> DEFINE d == booked[x]
        <5>1. d \in Move /\ ~ (d = c /\ m.type = "RESPONDING")
          BY <3>1, <3>3
        <5>2. ~ \E n \in responses' : n.command = d /\ n.type = "RESPONDING"
          BY <2>3, <1>2 DEF InFlight
        <5>3. ~ \E n \in responses : n.command = d /\ n.type = "RESPONDING"
          <6> HIDE DEF d
          <6> QED
            BY <5>1, <5>2, <1>2
        <5> QED
          BY <5>3 DEF InFlight
      <4>2. adapter.taskOf[x] = booked[x] /\ status[booked[x]] # "SUBMITTED"
        BY <4>1, <2>3 DEF DispatchInv, DecisionsArrive
      <4> QED
        BY <4>2, <1>4, <1>6, <1>8, <3>1
    <3> QED
      BY <3>2, <3>3
  <2>4. ASSUME NEW d \in Move
        PROVE  d \in adapter'.requests <=> status'[d] # "NEW" /\ (d \in decided => InFlight(d)')
    <3>1. d \in adapter.requests <=> status[d] # "NEW" /\ (d \in decided => InFlight(d))
      BY DEF DispatchInv, DecisionsArrive
    <3>2. status'[d] # "NEW" <=> status[d] # "NEW"
      <4>1. status[c] # "NEW"
        BY DEF DispatchInv, InFlightInv
      <4> QED
        BY <4>1, <1>3
    <3>3. CASE m.type = "RESPONDING" /\ d = c
      BY <3>1, <3>2, <3>3, <2>2, <1>4, <1>7 DEF DispatchInv, InFlightInv
    <3>4. CASE ~ (m.type = "RESPONDING" /\ d = c)
      BY <3>1, <3>2, <3>4, <2>2, <1>4, <1>7
    <3> QED
      BY <3>3, <3>4
  <2> QED
    BY <2>1, <2>3, <2>4, <1>2 DEF DecisionsArrive
<1> QED
  BY <1>5, <1>9, <1>10, <1>11 DEF DispatchInv

(* A task summary of RMF reaches the node.                                 *)
LEMMA SummaryStep ==
  ASSUME DispatchInv, NEW x \in RmfTask, HandleTaskSummary(x)
  PROVE  DispatchInv'
<1>1. UNCHANGED <<status, acted, booked, decided, responses, results>>
  BY DEF HandleTaskSummary
<1>2. /\ adapter'.taskOf = adapter.taskOf /\ adapter'.requests = adapter.requests
      /\ adapter'.completed =
           IF NewlyCompleted(adapter, x) THEN adapter.completed \cup {x} ELSE adapter.completed
      /\ adapter' \in Adapter
  BY DEF HandleTaskSummary, CompleteTask, DispatchInv, TypeOK, Adapter
<1>3. /\ recorded' \in [RmfTask -> Nat]
      /\ \A y \in RmfTask : y # x => recorded'[y] = recorded[y]
      /\ recorded'[x] = recorded[x] + (IF NewlyCompleted(adapter, x) THEN 1 ELSE 0)
  BY DEF HandleTaskSummary, DispatchInv, TypeOK
<1>4. TypeOK'
  BY <1>1, <1>2, <1>3 DEF DispatchInv, TypeOK
<1>5. ActedOnce'
  <2>1. \A c \in Command : acted'[c] = IF IsTerminal(c)' THEN 1 ELSE 0
    BY <1>1 DEF DispatchInv, ActedOnce, IsTerminal
  <2>2. \A y \in RmfTask : recorded'[y] = IF y \in adapter'.completed THEN 1 ELSE 0
    BY <1>2, <1>3 DEF DispatchInv, ActedOnce, NewlyCompleted
  <2>3. NewlyCompleted(adapter, x) => adapter.taskOf[x] = booked[x] /\ booked[x] # NoCommand
    BY DEF NewlyCompleted, DispatchInv, DecisionsArrive
  <2>4. \A y \in adapter'.completed : booked'[y] # NoCommand /\ adapter'.taskOf[y] = booked'[y]
    BY <2>3, <1>1, <1>2 DEF DispatchInv, ActedOnce
  <2> QED
    BY <2>1, <2>2, <2>4 DEF ActedOnce
<1>6. DecisionsArrive'
  BY <1>1, <1>2 DEF DispatchInv, DecisionsArrive, InFlight
<1>7. InFlightInv' /\ BookingInv'
  BY <1>1 DEF DispatchInv, InFlightInv, BookingInv
<1> QED
  BY <1>4, <1>5, <1>6, <1>7 DEF DispatchInv

(* An execution result reaches the node.                                   *)
LEMMA ResultStep ==
  ASSUME DispatchInv, NEW c \in Command, NEW o \in Terminal, HandleExecutionResult(c, o)
  PROVE  DispatchInv'
<1>1. UNCHANGED <<adapter, recorded, booked, decided, responses, results>>
  BY DEF HandleExecutionResult
<1>2. /\ ~ IsTerminal(c) /\ status[c] # "NEW"
      /\ \A d \in Command : d # c => status'[d] = status[d] /\ acted'[d] = acted[d]
      /\ status'[c] = o /\ acted'[c] = acted[c] + 1
  BY DEF HandleExecutionResult, DispatchInv, TypeOK, InFlightInv
<1>3. TypeOK'
  BY <1>1 DEF HandleExecutionResult, DispatchInv, TypeOK, Status
<1>4. \A d \in Command : status'[d] = "NEW" <=> status[d] = "NEW"
  BY <1>2 DEF Terminal
<1>5. \A d \in Command : status'[d] = "SUBMITTED" => status[d] = "SUBMITTED"
  BY <1>2 DEF Terminal
<1>6. ActedOnce'
  BY <1>1, <1>2 DEF DispatchInv, ActedOnce, IsTerminal
<1>7. DecisionsArrive'
  BY <1>1, <1>4, <1>5 DEF DispatchInv, TypeOK, DecisionsArrive, InFlight
<1>8. InFlightInv' /\ BookingInv'
  BY <1>1, <1>4 DEF DispatchInv, TypeOK, Response, InFlightInv, BookingInv
<1> QED
  BY <1>3, <1>6, <1>7, <1>8 DEF DispatchInv

(* RMF acknowledges a request: the decision on it is another message.      *)
LEMMA AcknowledgeStep ==
  ASSUME DispatchInv, NEW c \in Move, Acknowledge(c)
  PROVE  DispatchInv'
<1> DEFINE m == [type |-> "ACKNOWLEDGE", command |-> c, task |-> NoTask]
<1>1. /\ UNCHANGED <<status, adapter, acted, recorded, booked, decided, results>>
      /\ responses' = responses \cup {m}
  BY DEF Acknowledge
<1>2. \A n \in responses' : n.type = "RESPONDING" => n \in responses
  BY <1>1
<1>3. TypeOK'
  BY <1>1 DEF DispatchInv, TypeOK, Response
<1>4. ActedOnce' /\ BookingInv'
  BY <1>1 DEF DispatchInv, ActedOnce, IsTerminal, BookingInv
<1>5. DecisionsArrive'
  BY <1>1, <1>2 DEF DispatchInv, DecisionsArrive, InFlight
<1>6. InFlightInv'
  <2>1. \A n \in responses' : status'[n.command] # "NEW"
    BY <1>1 DEF DispatchInv, InFlightInv, Acknowledge
  <2> QED
    BY <2>1, <1>1, <1>2 DEF DispatchInv, InFlightInv
<1> QED
  BY <1>3, <1>4, <1>5, <1>6 DEF DispatchInv

(* RMF decides on a request: it was open, and now its decision is in       *)
(* flight.                                                                 *)
LEMMA DecideStep ==
  ASSUME DispatchInv, NEW c \in Move,
         Reject(c) \/ \E x \in RmfTask : Accept(c, x)
  PROVE  DispatchInv'
<1>1. PICK x \in RmfTask \cup {NoTask} :
        /\ \/ x = NoTask /\ booked' = booked
           \/ x \in RmfTask /\ booked[x] = NoCommand /\ booked' = [booked EXCEPT ![x] = c]
        /\ responses' = responses \cup {[type |-> "RESPONDING", command |-> c, task |-> x]}
        /\ status[c] # "NEW" /\ c \notin decided /\ decided' = decided \cup {c}
        /\ UNCHANGED <<status, adapter, acted, recorded, results>>
  BY DEF Reject, Accept
<1> DEFINE m == [type |-> "RESPONDING", command |-> c, task |-> x]
<1>2. /\ m \in Response /\ m.type = "RESPONDING" /\ m.command = c /\ m.task = x
      /\ responses' = responses \cup {m} /\ m \in responses'
  BY <1>1 DEF Response
<1>3. \A y \in RmfTask : booked'[y] = IF y = x THEN c ELSE booked[y]
  BY <1>1 DEF DispatchInv, TypeOK
<1>4. /\ \A y \in RmfTask : booked[y] # c
      /\ \A n \in responses : n.type = "RESPONDING" => n.command # c
  BY <1>1 DEF DispatchInv, InFlightInv, BookingInv
<1>5. x \in RmfTask => adapter.taskOf[x] = NoCommand /\ x \notin adapter.completed
  BY <1>1 DEF DispatchInv, ActedOnce, DecisionsArrive
<1>6. TypeOK'
  BY <1>1, <1>2 DEF DispatchInv, TypeOK
<1>7. ActedOnce'
  <2>1. \A d \in Command : acted'[d] = IF IsTerminal(d)' THEN 1 ELSE 0
    BY <1>1 DEF DispatchInv, ActedOnce, IsTerminal
  <2>2. \A y \in RmfTask : recorded'[y] = IF y \in adapter'.completed THEN 1 ELSE 0
    BY <1>1 DEF DispatchInv, ActedOnce
  <2>3. \A y \in adapter'.completed : booked'[y] # NoCommand /\ adapter'.taskOf[y] = booked'[y]
    BY <1>1, <1>3, <1>5 DEF DispatchInv, ActedOnce, TypeOK, Adapter
  <2> QED
    BY <2>1, <2>2, <2>3 DEF ActedOnce
<1>8. ASSUME NEW d \in Move
      PROVE  InFlight(d)' <=> InFlight(d) \/ d = c
  BY <1>2 DEF InFlight
<1>9. DecisionsArrive'
  <2>1. \A y \in RmfTask : adapter'.taskOf[y] \in {NoCommand, booked'[y]}
    BY <1>1, <1>3, <1>5 DEF DispatchInv, DecisionsArrive
  <2>2. ASSUME NEW y \in RmfTask, booked'[y] # NoCommand, ~ InFlight(booked[y])', booked'[y] # c
        PROVE  y # x /\ booked'[y] = booked[y] /\ booked[y] \in Move /\ ~ InFlight(booked[y])
    <3>1. y # x /\ booked'[y] = booked[y] /\ booked[y] \in Move
      BY <2>2, <1>3 DEF DispatchInv, TypeOK
    <3>2. ~ \E n \in responses : n.command = booked[y] /\ n.type = "RESPONDING"
      BY <2>2, <3>1, <1>2 DEF InFlight
    <3> QED
      BY <3>1, <3>2 DEF InFlight
  <2>3. \A y \in RmfTask : booked'[y] # NoCommand /\ ~ InFlight(booked[y])' =>
          adapter'.taskOf[y] = booked'[y] /\ status'[booked'[y]] # "SUBMITTED"
    <3> SUFFICES ASSUME NEW y \in RmfTask, booked'[y] # NoCommand, ~ InFlight(booked[y])'
                 PROVE  adapter'.taskOf[y] = booked'[y] /\ status'[booked'[y]] # "SUBMITTED"
      OBVIOUS
    <3>1. booked'[y] # c
      BY <1>2 DEF InFlight
    <3>2. y # x /\ booked'[y] = booked[y] /\ ~ InFlight(booked[y])
      BY <2>2, <3>1
    <3> QED
      BY <3>2, <1>1 DEF DispatchInv, DecisionsArrive
  <2>4. ASSUME NEW d \in Move
        PROVE  d \in adapter'.requests <=>
                 status'[d] # "NEW" /\ (d \in decided' => InFlight(d)')
    <3>1. d \in adapter.requests <=> status[d] # "NEW" /\ (d \in decided => InFlight(d))
      BY DEF DispatchInv, DecisionsArrive
    <3> QED
      BY <3>1, <1>1, <1>8
  <2> QED
    BY <2>1, <2>3, <2>4 DEF DecisionsArrive
<1>10. InFlightInv'
  <2>1. /\ \A p \in results' : status'[p[1]] # "NEW"
        /\ \A d \in decided' : status'[d] # "NEW"
        /\ \A n \in responses' : status'[n.command] # "NEW"
    BY <1>1, <1>2 DEF DispatchInv, InFlightInv
  <2>2. ASSUME NEW n \in responses', n.type = "RESPONDING"
        PROVE  /\ n.command \in decided'
               /\ n.task # NoTask => booked'[n.task] = n.command
               /\ n.task = NoTask => \A y \in RmfTask : booked'[y] # n.command
    <3>1. CASE n = m
      BY <3>1, <1>1, <1>2, <1>3, <1>4 DEF DispatchInv, TypeOK
    <3>2. CASE n \in responses
      <4>1. /\ n.command \in decided /\ n.command \in Move /\ n.command # c
            /\ n.task \in RmfTask \cup {NoTask}
            /\ n.task # NoTask => booked[n.task] = n.command
            /\ n.task = NoTask => \A y \in RmfTask : booked[y] # n.command
        BY <2>2, <3>2, <1>4 DEF DispatchInv, TypeOK, Response, InFlightInv
      <4> QED
        BY <4>1, <1>1, <1>3
    <3> QED
      BY <3>1, <3>2, <1>2, <2>2
  <2>3. ASSUME NEW n \in responses', NEW k \in responses',
               n.type = "RESPONDING", k.type = "RESPONDING", n.command = k.command
        PROVE  n = k
    BY <2>3, <1>2, <1>4 DEF DispatchInv, InFlightInv
  <2> QED
    BY <2>1, <2>2, <2>3 DEF InFlightInv
<1>11. BookingInv'
  BY <1>1, <1>3, <1>4 DEF DispatchInv, BookingInv
<1> QED
  BY <1>6, <1>7, <1>9, <1>10, <1>11 DEF DispatchInv

(* An executor answers.                                                    *)
LEMMA AnswerStep ==
  ASSUME DispatchInv, NEW c \in Command, NEW o \in Terminal, Answer(c, o)
  PROVE  DispatchInv'
<1>1. /\ UNCHANGED <<status, adapter, acted, recorded, booked, decided, responses>>
      /\ results' = results \cup {<<c, o>>} /\ status[c] # "NEW"
  BY DEF Answer
<1>2. TypeOK'
  BY <1>1 DEF DispatchInv, TypeOK
<1>3. ActedOnce' /\ BookingInv' /\ DecisionsArrive'
  BY <1>1 DEF DispatchInv, ActedOnce, IsTerminal, BookingInv, DecisionsArrive, InFlight
<1>4. InFlightInv'
  BY <1>1 DEF DispatchInv, InFlightInv
<1> QED
  BY <1>2, <1>3, <1>4 DEF DispatchInv

(* Every step keeps the invariant.                                         *)
LEMMA DispatchNext == DispatchInv /\ [Next]_vars => DispatchInv'
<1> SUFFICES ASSUME DispatchInv, [Next]_vars PROVE DispatchInv'
  OBVIOUS
<1>1. CASE \E c \in Move : DispatchMove(c)
  BY <1>1, DispatchStep
<1>2. CASE \E c \in Handling : DispatchHandling(c)
  BY <1>2, DispatchStep
<1>3. CASE \E c \in Move : Acknowledge(c)
  BY <1>3, AcknowledgeStep
<1>4. CASE \E c \in Move : Reject(c) \/ \E x \in RmfTask : Accept(c, x)
  BY <1>4, DecideStep
<1>5. CASE \E c \in Command, o \in Terminal : Answer(c, o)
  BY <1>5, AnswerStep
<1>6. CASE \E c \in Command, o \in Terminal : HandleExecutionResult(c, o)
  BY <1>6, ResultStep
<1>7. CASE \E m \in responses : HandleApiResponse(m)
  BY <1>7, ResponseStep
<1>8. CASE \E x \in RmfTask : HandleTaskSummary(x)
  BY <1>8, SummaryStep
<1>9. CASE UNCHANGED vars
  BY <1>9 DEF vars, DispatchInv, TypeOK, ActedOnce, IsTerminal, DecisionsArrive, InFlight,
              InFlightInv, BookingInv
<1> QED
  BY <1>1, <1>2, <1>3, <1>4, <1>5, <1>6, <1>7, <1>8, <1>9 DEF Next

(* The whole invariant holds in every state.                               *)
LEMMA DispatchInvariance == Spec => []DispatchInv
<1> QED
  BY DispatchInit, DispatchNext, PTL DEF Spec

(* Type correctness: in particular the adapter's tables name commands and  *)
(* RMF tasks that exist, and a status is always one of ExecutionCommand.   *)
THEOREM DispatchTypeCorrect == Spec => []TypeOK
<1>1. DispatchInv => TypeOK
  BY DEF DispatchInv
<1> QED
  BY <1>1, DispatchInvariance, PTL

(* The mission handles one result of each command, and the completion of   *)
(* an RMF task is recorded once.                                           *)
THEOREM EveryResultOnce == Spec => []ActedOnce
<1>1. DispatchInv => ActedOnce
  BY DEF DispatchInv
<1> QED
  BY <1>1, DispatchInvariance, PTL

(* No decision of RMF is lost on the way to the adapter's tables.          *)
THEOREM NoDecisionLost == Spec => []DecisionsArrive
<1>1. DispatchInv => DecisionsArrive
  BY DEF DispatchInv
<1> QED
  BY <1>1, DispatchInvariance, PTL

(* The life of a command begins as promised ...                            *)
LEMMA LifeInit == Init => Lifecycle!Init
  BY DEF Init, Life, Lifecycle!Init

(* ... and every step opens a command, closes one, or changes no life.     *)
LEMMA LifeStep == DispatchInv /\ [Next]_vars => [Lifecycle!Next]_Life
<1> SUFFICES ASSUME DispatchInv, [Next]_vars PROVE Lifecycle!Next \/ Life' = Life
  OBVIOUS
<1>1. status \in [Command -> Status]
  BY DEF DispatchInv, TypeOK
<1>2. CASE \E c \in Command : status[c] = "NEW" /\
              ((c \in Move /\ DispatchMove(c)) \/ (c \in Handling /\ DispatchHandling(c)))
  <2>1. PICK c \in Command : status[c] = "NEW" /\
          ((c \in Move /\ DispatchMove(c)) \/ (c \in Handling /\ DispatchHandling(c)))
    BY <1>2
  <2>2. Life[c] = "NEW" /\ Life' = [Life EXCEPT ![c] = "SUBMITTED"]
    BY <2>1, <1>1 DEF Life, DispatchMove, DispatchHandling
  <2> QED
    BY <2>2 DEF Lifecycle!Next, Lifecycle!Begin
<1>3. CASE \E c \in Command, o \in Terminal : HandleExecutionResult(c, o)
  <2>1. PICK c \in Command, o \in Terminal : HandleExecutionResult(c, o)
    BY <1>3
  <2>2. status[c] \in {"SUBMITTED", "RUNNING"}
    BY <2>1, <1>1 DEF HandleExecutionResult, DispatchInv, InFlightInv, IsTerminal, Status
  <2>3. Life[c] = "SUBMITTED" /\ Life' = [Life EXCEPT ![c] = o]
    BY <2>1, <2>2, <1>1 DEF HandleExecutionResult, Life, Terminal
  <2> QED
    BY <2>3 DEF Lifecycle!Next, Lifecycle!Close
<1>4. CASE \E m \in responses : HandleApiResponse(m)
  <2>1. PICK m \in responses : HandleApiResponse(m)
    BY <1>4
  <2>2. m.command \in Command /\ status[m.command] # "NEW"
    BY DEF DispatchInv, TypeOK, Response, InFlightInv
  <2>3. \A c \in Command : status'[c] = status[c] \/ {status[c], status'[c]} \subseteq {"SUBMITTED", "RUNNING"}
    BY <2>1, <2>2, <1>1 DEF HandleApiResponse, MarkRunning, IsTerminal, Status
  <2> QED
    BY <2>3 DEF Life
<1>5. CASE status' = status
  BY <1>5 DEF Life
<1>6. \/ \E c \in Command : status[c] = "NEW" /\
           ((c \in Move /\ DispatchMove(c)) \/ (c \in Handling /\ DispatchHandling(c)))
      \/ \E c \in Command, o \in Terminal : HandleExecutionResult(c, o)
      \/ \E m \in responses : HandleApiResponse(m)
      \/ status' = status
  BY DEF Next, vars, DispatchMove, DispatchHandling, Acknowledge, Accept, Reject, Answer,
         HandleTaskSummary
<1> QED
  BY <1>2, <1>3, <1>4, <1>5, <1>6

(* A command is opened once and closed once, with one outcome.             *)
THEOREM DispatchImplementsLife == Spec => ImplementsCommandLife
<1> QED
  BY DispatchInvariance, DispatchInit, DispatchNext, LifeInit, LifeStep, PTL
     DEF Spec, ImplementsCommandLife, Lifecycle!Spec
=============================================================================
