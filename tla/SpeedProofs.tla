----------------------------- MODULE SpeedProofs -----------------------------
(***************************************************************************)
(* The theorems about the control of speeds, for any robots, any scales    *)
(* asked for, and any numbers of requests and of restarts.                 *)
(***************************************************************************)
EXTENDS SpeedScale, SequenceTheorems, TLAPS

(* The first element of a sequence and the others.                         *)
LEMMA TailFacts ==
  ASSUME NEW S, NEW s \in Seq(S), s # <<>>
  PROVE  /\ Tail(s) \in Seq(S) /\ Head(s) \in S /\ Head(s) = s[1]
         /\ Len(s) \in Nat /\ 1 \in 1 .. Len(s) /\ Len(Tail(s)) = Len(s) - 1
         /\ \A i \in 1 .. Len(Tail(s)) : i + 1 \in 2 .. Len(s) /\ Tail(s)[i] = s[i + 1]
<1>1. Len(s) \in Nat \ {0}
  BY EmptySeq
<1>2. Head(s) \in S /\ Tail(s) \in Seq(S) /\ Len(Tail(s)) = Len(s) - 1
  BY HeadTailProperties
<1>3. Head(s) = s[1]
  BY <1>1, LenProperties
<1>4. \A i \in 1 .. Len(Tail(s)) : Tail(s)[i] = s[i + 1]
  BY HeadTailProperties
<1> QED
  BY <1>1, <1>2, <1>3, <1>4

(* A sequence that grew by an element.                                     *)
LEMMA AppendFacts ==
  ASSUME NEW S, NEW s \in Seq(S), NEW e \in S
  PROVE  /\ Append(s, e) \in Seq(S)
         /\ Len(s) \in Nat /\ Len(Append(s, e)) = Len(s) + 1
         /\ \A i \in 1 .. Len(s) : Append(s, e)[i] = s[i]
         /\ Append(s, e)[Len(s) + 1] = e
BY LenProperties, AppendProperties

(* The types of what is under way.                                         *)
LEMMA TypeFacts ==
  ASSUME TypeOK, NEW r \in Robot
  PROVE  /\ inbox[r] \in Seq(Pending) /\ reports[r] \in Seq(Report)
         /\ received[r] \subseteq Report /\ actual[r] \in Valid /\ confirmed[r] \in Valid
         /\ issued \in Nat /\ Len(inbox[r]) \in Nat /\ Len(reports[r]) \in Nat
         /\ \A i \in 1 .. Len(inbox[r]) : inbox[r][i] \in Pending
         /\ \A k \in 1 .. Len(reports[r]) : reports[r][k] \in Report
         /\ \A q \in Pending : q.id \in Nat /\ q.robot \in Robot /\ q.scale \in Valid
         /\ \A m \in Report : m.request \in Nat /\ m.applied \in BOOLEAN
         /\ \A q \in pending : q \in Pending
<1>1. /\ inbox[r] \in Seq(Pending) /\ reports[r] \in Seq(Report)
      /\ received[r] \subseteq Report /\ actual[r] \in Valid /\ confirmed[r] \in Valid
      /\ pending \subseteq Pending
  BY DEF TypeOK
<1>2. issued \in Nat
  BY SpeedAssumption DEF TypeOK
<1>3. /\ \A i \in 1 .. Len(inbox[r]) : inbox[r][i] \in Pending
      /\ \A k \in 1 .. Len(reports[r]) : reports[r][k] \in Report
      /\ Len(inbox[r]) \in Nat /\ Len(reports[r]) \in Nat
  BY <1>1, ElementOfSeq, LenProperties
<1>4. /\ \A q \in Pending : q.id \in Nat /\ q.robot \in Robot /\ q.scale \in Valid
      /\ \A m \in Report : m.request \in Nat /\ m.applied \in BOOLEAN
  BY SpeedAssumption DEF Pending, Report, Request
<1> QED
  BY <1>1, <1>2, <1>3, <1>4

(* The initial state.                                                      *)
LEMMA InitInv == Init => Inv
<1> SUFFICES ASSUME Init PROVE Inv
  OBVIOUS
<1>1. TypeOK
  <2>1. 100 \in Valid /\ 0 \in 0 .. MaxRequests /\ 0 \in 0 .. MaxRestarts
    BY SpeedAssumption DEF Valid
  <2>2. << >> \in Seq(Pending) /\ << >> \in Seq(Report)
    BY EmptySeq
  <2> QED
    BY <2>1, <2>2 DEF Init, TypeOK
<1>2. ASSUME NEW r \in Robot PROVE OrderInv(r) /\ PendingInv(r) /\ SpeedInv(r)
  <2>1. /\ Len(inbox[r]) = 0 /\ Len(reports[r]) = 0 /\ received[r] = {}
        /\ pending = {} /\ confirmed[r] = actual[r]
    BY EmptySeq DEF Init
  <2>2. OrderInv(r)
    BY <2>1 DEF OrderInv
  <2>3. PendingInv(r)
    BY <2>1 DEF PendingInv
  <2>4. SpeedInv(r)
    BY <2>1 DEF SpeedInv, Confirms
  <2> QED
    BY <2>2, <2>3, <2>4
<1> QED
  BY <1>1, <1>2 DEF Inv, Init

(* The node takes a new request.                                           *)
LEMMA RequestInv ==
  ASSUME Inv, NEW r \in Robot, NEW scale \in Input, RequestScale(r, scale)
  PROVE  Inv'
<1> DEFINE e == [id |-> issued + 1, robot |-> r, scale |-> scale]
<1>1. /\ TypeOK /\ issued < MaxRequests /\ IsValid(scale)
      /\ pending' = pending \cup {e} /\ issued' = issued + 1
      /\ inbox' = [inbox EXCEPT ![r] = Append(@, e)]
      /\ requested' = [requested EXCEPT ![r] = scale]
      /\ UNCHANGED <<confirmed, known, restarts, reports, received, actual>>
  BY DEF Inv, RequestScale
<1>2. e \in Pending /\ issued \in Nat /\ e.id = issued + 1 /\ e.robot = r
  BY <1>1, SpeedAssumption DEF TypeOK, Pending, Request, Valid, IsValid
<1> HIDE DEF e
<1>3. inbox'[r] = Append(inbox[r], e) /\ \A x \in Robot \ {r} : inbox'[x] = inbox[x]
  BY <1>1 DEF TypeOK
<1>4. TypeOK'
  <2>1. scale \in Valid /\ issued + 1 \in 0 .. MaxRequests
    BY <1>1, SpeedAssumption DEF TypeOK, IsValid, Valid
  <2>2. inbox' \in [Robot -> Seq(Pending)]
    BY <1>1, <1>2, AppendFacts DEF TypeOK
  <2> QED
    BY <1>1, <1>2, <2>1, <2>2 DEF TypeOK
<1>5. /\ \A q \in pending : q.id \in Nat /\ q.id <= issued
      /\ \A p, q \in pending : p.id = q.id => p = q
  BY <1>1, TypeFacts DEF Inv
<1>6. ASSUME NEW x \in Robot
      PROVE  (OrderInv(x) /\ PendingInv(x) /\ SpeedInv(x))'
  <2>1. OrderInv(x) /\ PendingInv(x) /\ SpeedInv(x)
    BY DEF Inv
  <2>2. /\ Len(inbox[x]) \in Nat /\ Len(reports[x]) \in Nat
        /\ \A i \in 1 .. Len(inbox[x]) : inbox[x][i].id \in Nat
        /\ \A k \in 1 .. Len(reports[x]) : reports[x][k].request \in Nat
        /\ \A m \in received[x] : m.request \in Nat
    BY <1>1, TypeFacts
  <2>3. \A i \in 1 .. Len(inbox'[x]) :
          \/ i \in 1 .. Len(inbox[x]) /\ inbox'[x][i] = inbox[x][i]
          \/ x = r /\ i = Len(inbox[x]) + 1 /\ inbox'[x][i] = e
    <3>1. CASE x = r
      <4>1. inbox[r] \in Seq(Pending)
        BY <1>1 DEF TypeOK
      <4> QED
        BY <1>2, <1>3, <2>2, <3>1, <4>1, AppendFacts
    <3>2. CASE x # r
      BY <1>3, <3>2
    <3> QED
      BY <3>1, <3>2
  <2>4. OrderInv(x)'
    BY <1>1, <1>2, <2>1, <2>2, <2>3 DEF OrderInv
  <2>5. PendingInv(x)'
    BY <1>1, <1>2, <1>5, <2>1, <2>2, <2>3 DEF PendingInv, OrderInv
  <2>6. \A k \in 1 .. Len(reports[x]) : Confirms(x, k)' <=> Confirms(x, k)
    BY <1>1, <1>2, <2>1, <2>2 DEF Confirms, OrderInv
  <2>7. \A q \in pending : Awaited(x, q) => Awaited(x, q)'
    BY <1>1, <1>2, <1>5, <2>1, <2>2, <2>3, <2>6 DEF Awaited
  <2>8. SpeedInv(x)'
    BY <1>1, <2>1, <2>6, <2>7 DEF SpeedInv
  <2> QED
    BY <2>4, <2>5, <2>8
<1>7. /\ \A q \in pending' : q.id <= issued'
      /\ \A p, q \in pending' : p.id = q.id => p = q
  BY <1>1, <1>2, <1>5
<1> QED
  BY <1>4, <1>6, <1>7 DEF Inv

(* The node receives a report of robot r.                                  *)
LEMMA ReceiveInv ==
  ASSUME Inv, NEW r \in Robot, ReceiveReport(r)
  PROVE  Inv'
<1> DEFINE m == Head(reports[r])
<1>1. /\ TypeOK /\ reports[r] # <<>> /\ HandleResult(m)
      /\ reports' = [reports EXCEPT ![r] = Tail(@)]
      /\ received' = [received EXCEPT ![r] = @ \cup {m}]
      /\ pending' = {q \in pending : q.id # m.request}
      /\ UNCHANGED <<requested, issued, restarts, inbox, actual>>
  BY DEF Inv, ReceiveReport, HandleResult
<1>2. /\ Tail(reports[r]) \in Seq(Report) /\ m \in Report /\ m = reports[r][1]
      /\ Len(reports[r]) \in Nat /\ 1 \in 1 .. Len(reports[r])
      /\ Len(Tail(reports[r])) = Len(reports[r]) - 1
      /\ \A k \in 1 .. Len(Tail(reports[r])) :
           k + 1 \in 2 .. Len(reports[r]) /\ Tail(reports[r])[k] = reports[r][k + 1]
  <2>1. reports[r] \in Seq(Report)
    BY <1>1 DEF TypeOK
  <2> QED
    BY <1>1, <2>1, TailFacts
<1>3. /\ \A q \in pending : q.id \in Nat /\ q.id <= issued /\ q.robot \in Robot /\ q.scale \in Valid
      /\ \A p, q \in pending : p.id = q.id => p = q
      /\ m.request \in Nat /\ m.applied \in BOOLEAN
  BY <1>1, <1>2, TypeFacts DEF Inv
<1>4. ASSUME NEW q \in pending, q.id = m.request PROVE q.robot = r
  BY <1>2, <1>4 DEF Inv, PendingInv
<1>5. \/ /\ m.applied
         /\ \E q \in pending :
              /\ q.id = m.request /\ q.robot = r
              /\ confirmed' = [confirmed EXCEPT ![r] = q.scale]
              /\ known' = known \cup {r}
      \/ /\ m.applied => \A q \in pending : q.id # m.request
         /\ UNCHANGED <<confirmed, known>>
  BY <1>1, <1>4 DEF HandleResult, Confirmation
<1> HIDE DEF m
<1>6. TypeOK'
  <2>1. confirmed' \in [Robot -> Valid] /\ known' \subseteq Robot
    BY <1>1, <1>3, <1>5 DEF TypeOK
  <2>2. received' \in [Robot -> SUBSET Report] /\ reports' \in [Robot -> Seq(Report)]
    BY <1>1, <1>2 DEF TypeOK
  <2> QED
    BY <1>1, <2>1, <2>2 DEF TypeOK
<1>7. ASSUME NEW x \in Robot
      PROVE  (OrderInv(x) /\ PendingInv(x) /\ SpeedInv(x))'
  <2>1. OrderInv(x) /\ PendingInv(x) /\ SpeedInv(x)
    BY DEF Inv
  <2>2. /\ Len(inbox[x]) \in Nat /\ Len(reports[x]) \in Nat /\ issued \in Nat
        /\ \A i \in 1 .. Len(inbox[x]) : inbox[x][i] \in Pending /\ inbox[x][i].id \in Nat
        /\ \A k \in 1 .. Len(reports[x]) : reports[x][k].request \in Nat
        /\ \A n \in received[x] : n.request \in Nat
    BY <1>1, TypeFacts
  <2>3. /\ reports'[x] = (IF x = r THEN Tail(reports[r]) ELSE reports[x])
        /\ received'[x] = (IF x = r THEN received[r] \cup {m} ELSE received[x])
        /\ inbox'[x] = inbox[x] /\ actual'[x] = actual[x] /\ issued' = issued
    BY <1>1 DEF TypeOK
  <2>4. /\ Len(reports'[x]) \in Nat
        /\ x # r => reports'[x] = reports[x]
        /\ x = r => /\ Len(reports'[x]) = Len(reports[x]) - 1
                    /\ \A k \in 1 .. Len(reports'[x]) :
                         k + 1 \in 2 .. Len(reports[x]) /\ reports'[x][k] = reports[x][k + 1]
    BY <1>2, <2>2, <2>3
  <2>5. OrderInv(x)'
    <3>1. CASE x = r
      BY <1>2, <2>1, <2>2, <2>3, <2>4, <3>1 DEF OrderInv
    <3>2. CASE x # r
      BY <2>1, <2>3, <3>2 DEF OrderInv
    <3> QED
      BY <3>1, <3>2
  <2>6. \A i \in 1 .. Len(inbox[x]) : inbox[x][i] \in pending => inbox[x][i] \in pending'
    <3> SUFFICES ASSUME NEW i \in 1 .. Len(inbox[x]), inbox[x][i] \in pending
                 PROVE  inbox[x][i].id # m.request
      BY <1>1
    <3>1. CASE x = r
      BY <1>2, <2>1, <2>2, <3>1 DEF OrderInv
    <3>2. CASE x # r
      BY <1>4, <2>1, <3>2 DEF OrderInv
    <3> QED
      BY <3>1, <3>2
  <2>7. PendingInv(x)'
    <3>1. \A q \in pending' : \A i \in 1 .. Len(inbox'[x]) :
            /\ inbox'[x][i].id = q.id => inbox'[x][i] = q
            /\ q.robot = x /\ q.id < inbox'[x][i].id => inbox'[x][i] \in pending'
      BY <1>1, <2>1, <2>3, <2>6 DEF PendingInv
    <3>2. \A q \in pending' :
            /\ \A k \in 1 .. Len(reports'[x]) : reports'[x][k].request = q.id => q.robot = x
            /\ \A n \in received'[x] : n.request # q.id
      <4>1. CASE x = r
        BY <1>1, <2>1, <2>2, <2>3, <2>4, <4>1 DEF PendingInv
      <4>2. CASE x # r
        BY <1>1, <2>1, <2>3, <4>2 DEF PendingInv
      <4> QED
        BY <4>1, <4>2
    <3>3. x \in known' => \A i \in 1 .. Len(inbox'[x]) : inbox'[x][i] \in pending'
      <4>1. CASE x \in known
        BY <2>1, <2>3, <2>6, <4>1 DEF PendingInv
      <4>2. CASE x \notin known /\ x \in known'
        <5>1. x = r /\ \E q \in pending : q.id = m.request /\ q.robot = r
          BY <1>5, <4>2
        <5>2. \A i \in 1 .. Len(inbox[x]) : m.request < inbox[x][i].id
          BY <1>2, <2>1, <5>1 DEF OrderInv
        <5>3. \A i \in 1 .. Len(inbox[x]) : inbox[x][i] \in pending
          BY <2>1, <5>1, <5>2 DEF PendingInv
        <5> QED
          BY <2>3, <2>6, <5>3
      <4> QED
        BY <4>1, <4>2
    <3> QED
      BY <3>1, <3>2, <3>3 DEF PendingInv
  <2>8. SpeedInv(x)'
    <3>1. CASE x # r
      <4>1. \A k \in 1 .. Len(reports[x]) : Confirms(x, k)' => Confirms(x, k)
        BY <1>1, <2>3, <3>1 DEF Confirms
      <4>2. \A q \in pending : Awaited(x, q) => q \in pending' /\ Awaited(x, q)'
        BY <1>1, <1>4, <2>3, <3>1, <4>1 DEF Awaited
      <4>3. confirmed'[x] = confirmed[x] /\ (x \in known' => x \in known)
        BY <1>1, <1>5, <3>1 DEF TypeOK
      <4> QED
        BY <2>1, <2>3, <3>1, <4>1, <4>2, <4>3 DEF SpeedInv
    <3>2. CASE x = r
      <4>1. \A k \in 1 .. Len(reports'[x]) :
              /\ k + 1 \in 1 .. Len(reports[x]) /\ reports'[x][k] = reports[x][k + 1]
              /\ Confirms(x, k)' => Confirms(x, k + 1)
              /\ m.request < reports[x][k + 1].request
        <5> SUFFICES ASSUME NEW k \in 1 .. Len(reports'[x])
                     PROVE  /\ k + 1 \in 1 .. Len(reports[x]) /\ reports'[x][k] = reports[x][k + 1]
                            /\ Confirms(x, k)' => Confirms(x, k + 1)
                            /\ m.request < reports[x][k + 1].request
          OBVIOUS
        <5>1. k + 1 \in 1 .. Len(reports[x]) /\ 1 < k + 1 /\ reports'[x][k] = reports[x][k + 1]
          BY <2>2, <2>4, <3>2
        <5>2. Confirms(x, k)' => Confirms(x, k + 1)
          BY <1>1, <5>1 DEF Confirms
        <5>3. m.request < reports[x][k + 1].request
          BY <1>2, <2>1, <3>2, <5>1 DEF OrderInv
        <5> QED
          BY <5>1, <5>2, <5>3
      <4>2. \A q \in pending : Awaited(x, q) /\ q.id # m.request => q \in pending' /\ Awaited(x, q)'
        BY <1>1, <2>3, <4>1 DEF Awaited
      <4>3. CASE \E q \in pending : Awaited(x, q) /\ q.id # m.request
        BY <4>2, <4>3 DEF SpeedInv
      <4>4. CASE \E q \in pending : Awaited(x, q) /\ q.id = m.request
        <5>1. PICK q \in pending : Awaited(x, q) /\ q.id = m.request
          BY <4>4
        <5>2. m.applied
          BY <1>2, <3>2, <5>1 DEF Awaited
        <5>3. PICK p \in pending : p.id = m.request /\ confirmed' = [confirmed EXCEPT ![r] = p.scale]
          BY <1>5, <5>1, <5>2
        <5>4. p = q
          BY <1>3, <5>1, <5>3
        <5>5. confirmed'[x] = actual'[x]
          BY <1>1, <2>3, <3>2, <5>1, <5>3, <5>4 DEF Awaited, TypeOK
        <5>6. \A k \in 1 .. Len(reports'[x]) : ~ Confirms(x, k)'
          <6> SUFFICES ASSUME NEW k \in 1 .. Len(reports'[x]), Confirms(x, k)' PROVE FALSE
            OBVIOUS
          <6>1. reports[x][k + 1].request <= m.request
            BY <4>1, <5>1 DEF Awaited
          <6> QED
            BY <1>3, <2>2, <4>1, <6>1
        <5> QED
          BY <5>5, <5>6 DEF SpeedInv
      <4>5. CASE \A q \in pending : ~ Awaited(x, q)
        <5>1. \A k \in 1 .. Len(reports[x]) : ~ Confirms(x, k)
          BY <2>1, <4>5 DEF SpeedInv
        <5>2. UNCHANGED <<confirmed, known>>
          BY <1>2, <1>5, <3>2, <5>1 DEF Confirms
        <5> QED
          BY <2>1, <2>3, <4>1, <4>5, <5>1, <5>2 DEF SpeedInv
      <4> QED
        BY <4>3, <4>4, <4>5
    <3> QED
      BY <3>1, <3>2
  <2> QED
    BY <2>5, <2>7, <2>8
<1> QED
  BY <1>1, <1>3, <1>6, <1>7 DEF Inv

(* Robot r takes a request, and applies or refuses it.                     *)
LEMMA TakeInv ==
  ASSUME Inv, NEW r \in Robot, NEW applied \in BOOLEAN, TakeRequest(r, applied)
  PROVE  Inv'
<1> DEFINE e == Head(inbox[r])
           m == [request |-> e.id, applied |-> applied]
<1>1. /\ TypeOK /\ inbox[r] # <<>>
      /\ inbox' = [inbox EXCEPT ![r] = Tail(@)]
      /\ reports' = [reports EXCEPT ![r] = Append(@, m)]
      /\ actual' = [actual EXCEPT ![r] = IF applied THEN e.scale ELSE @]
      /\ UNCHANGED <<requested, confirmed, pending, issued, known, restarts, received>>
  BY DEF Inv, TakeRequest, node
<1>2. /\ inbox[r] \in Seq(Pending) /\ reports[r] \in Seq(Report)
  BY <1>1 DEF TypeOK
<1>3. /\ Tail(inbox[r]) \in Seq(Pending) /\ e \in Pending /\ e = inbox[r][1]
      /\ Len(inbox[r]) \in Nat /\ 1 \in 1 .. Len(inbox[r])
      /\ Len(Tail(inbox[r])) = Len(inbox[r]) - 1
      /\ \A i \in 1 .. Len(Tail(inbox[r])) :
           i + 1 \in 2 .. Len(inbox[r]) /\ Tail(inbox[r])[i] = inbox[r][i + 1]
  BY <1>1, <1>2, TailFacts
<1>4. /\ e.id \in Nat /\ e.scale \in Valid
      /\ m \in Report /\ m.request = e.id /\ m.applied = applied
  <2>1. e.id \in Request /\ e.scale \in Valid
    BY <1>3 DEF Pending
  <2>2. e.id \in Nat
    BY <2>1, SpeedAssumption DEF Request
  <2> QED
    BY <2>1, <2>2 DEF Report
<1> HIDE DEF e, m
<1>5. /\ Append(reports[r], m) \in Seq(Report)
      /\ Len(reports[r]) \in Nat /\ Len(Append(reports[r], m)) = Len(reports[r]) + 1
      /\ \A k \in 1 .. Len(reports[r]) : Append(reports[r], m)[k] = reports[r][k]
      /\ Append(reports[r], m)[Len(reports[r]) + 1] = m
  BY <1>2, <1>4, AppendFacts
<1>6. TypeOK'
  BY <1>1, <1>3, <1>4, <1>5 DEF TypeOK
<1>7. \A q \in pending : q.id \in Nat
  BY <1>1, TypeFacts
<1>8. ASSUME NEW x \in Robot
      PROVE  (OrderInv(x) /\ PendingInv(x) /\ SpeedInv(x))'
  <2>1. OrderInv(x) /\ PendingInv(x) /\ SpeedInv(x)
    BY DEF Inv
  <2>2. /\ Len(inbox[x]) \in Nat /\ Len(reports[x]) \in Nat /\ issued \in Nat
        /\ \A i \in 1 .. Len(inbox[x]) : inbox[x][i].id \in Nat
        /\ \A k \in 1 .. Len(reports[x]) : reports[x][k].request \in Nat
        /\ \A n \in received[x] : n.request \in Nat
    BY <1>1, TypeFacts
  <2>3. CASE x # r
    <3>1. /\ inbox'[x] = inbox[x] /\ reports'[x] = reports[x] /\ received'[x] = received[x]
          /\ actual'[x] = actual[x] /\ confirmed'[x] = confirmed[x]
          /\ pending' = pending /\ issued' = issued /\ known' = known
      BY <1>1, <2>3 DEF TypeOK
    <3>2. OrderInv(x)' /\ PendingInv(x)'
      BY <2>1, <3>1 DEF OrderInv, PendingInv
    <3>3. \A k \in 1 .. Len(reports[x]) : Confirms(x, k)' <=> Confirms(x, k)
      BY <3>1 DEF Confirms
    <3>4. \A q \in pending : Awaited(x, q) => Awaited(x, q)'
      BY <3>1, <3>3 DEF Awaited
    <3>5. SpeedInv(x)'
      BY <2>1, <3>1, <3>3, <3>4 DEF SpeedInv
    <3> QED
      BY <3>2, <3>5
  <2>4. CASE x = r
    <3>1. /\ inbox'[x] = Tail(inbox[r]) /\ reports'[x] = Append(reports[r], m)
          /\ received'[x] = received[x] /\ confirmed'[x] = confirmed[x]
          /\ actual'[x] = (IF applied THEN e.scale ELSE actual[x])
          /\ pending' = pending /\ issued' = issued /\ known' = known
      BY <1>1, <2>4 DEF TypeOK
    <3>2. /\ Len(inbox'[x]) \in Nat
          /\ \A i \in 1 .. Len(inbox'[x]) :
               i + 1 \in 2 .. Len(inbox[x]) /\ inbox'[x][i] = inbox[x][i + 1]
      BY <1>3, <2>4, <3>1
    <3>3. \A k \in 1 .. Len(reports'[x]) :
            \/ k \in 1 .. Len(reports[x]) /\ reports'[x][k] = reports[x][k]
            \/ k = Len(reports[x]) + 1 /\ reports'[x][k] = m
      BY <1>5, <2>4, <3>1
    <3>4. /\ e.id <= issued /\ e.robot = r
          /\ \A k \in 1 .. Len(reports[x]) : reports[x][k].request < e.id
          /\ \A n \in received[x] : n.request < e.id
          /\ \A i \in 1 .. Len(inbox'[x]) : e.id < inbox'[x][i].id
      <4>1. /\ e.id <= issued /\ e.robot = r
            /\ \A k \in 1 .. Len(reports[x]) : reports[x][k].request < e.id
            /\ \A n \in received[x] : n.request < e.id
        BY <1>3, <2>1, <2>4 DEF OrderInv
      <4>2. ASSUME NEW i \in 1 .. Len(inbox'[x]) PROVE e.id < inbox'[x][i].id
        <5>1. i + 1 \in 1 .. Len(inbox[x]) /\ 1 < i + 1 /\ inbox'[x][i] = inbox[x][i + 1]
          BY <3>2
        <5> QED
          BY <1>3, <2>1, <2>4, <5>1 DEF OrderInv
      <4> QED
        BY <4>1, <4>2
    <3>5. OrderInv(x)'
      <4>1. \A i \in 1 .. Len(inbox'[x]) :
              /\ i \in Nat /\ i + 1 \in 1 .. Len(inbox[x]) /\ inbox'[x][i] = inbox[x][i + 1]
        BY <3>2
      <4>2. /\ \A i \in 1 .. Len(inbox'[x]) : inbox'[x][i].id <= issued /\ inbox'[x][i].robot = x
            /\ \A i, j \in 1 .. Len(inbox'[x]) : i < j => inbox'[x][i].id < inbox'[x][j].id
            /\ \A i \in 1 .. Len(inbox'[x]) : \A n \in received[x] : n.request < inbox'[x][i].id
        <5>1. \A i \in 1 .. Len(inbox'[x]) :
                /\ inbox'[x][i].id <= issued /\ inbox'[x][i].robot = x
                /\ \A n \in received[x] : n.request < inbox'[x][i].id
          BY <2>1, <4>1 DEF OrderInv
        <5>2. ASSUME NEW i \in 1 .. Len(inbox'[x]), NEW j \in 1 .. Len(inbox'[x]), i < j
              PROVE  inbox'[x][i].id < inbox'[x][j].id
          <6>1. /\ i + 1 \in 1 .. Len(inbox[x]) /\ j + 1 \in 1 .. Len(inbox[x])
                /\ i + 1 < j + 1
                /\ inbox'[x][i] = inbox[x][i + 1] /\ inbox'[x][j] = inbox[x][j + 1]
            BY <4>1, <5>2
          <6>2. inbox[x][i + 1].id < inbox[x][j + 1].id
            BY <2>1, <6>1 DEF OrderInv
          <6> QED
            BY <6>1, <6>2
        <5> QED
          BY <5>1, <5>2
      <4>3. /\ \A k \in 1 .. Len(reports'[x]) : reports'[x][k].request <= issued
            /\ \A k, l \in 1 .. Len(reports'[x]) : k < l => reports'[x][k].request < reports'[x][l].request
        <5>1. ASSUME NEW k \in 1 .. Len(reports'[x]) PROVE reports'[x][k].request <= issued
          BY <1>4, <2>1, <3>3, <3>4 DEF OrderInv
        <5>2. ASSUME NEW k \in 1 .. Len(reports'[x]), NEW l \in 1 .. Len(reports'[x]), k < l
              PROVE  reports'[x][k].request < reports'[x][l].request
          <6>1. k \in 1 .. Len(reports[x]) /\ reports'[x][k] = reports[x][k]
            <7>1. k # Len(reports[x]) + 1
              BY <2>2, <3>3, <5>2
            <7> QED
              BY <3>3, <7>1
          <6>2. CASE l \in 1 .. Len(reports[x]) /\ reports'[x][l] = reports[x][l]
            BY <2>1, <5>2, <6>1, <6>2 DEF OrderInv
          <6>3. CASE reports'[x][l] = m
            BY <1>4, <3>4, <6>1, <6>3
          <6> QED
            BY <3>3, <6>2, <6>3
        <5> QED
          BY <5>1, <5>2
      <4>4. ASSUME NEW i \in 1 .. Len(inbox'[x]), NEW k \in 1 .. Len(reports'[x])
            PROVE  reports'[x][k].request < inbox'[x][i].id
        BY <1>4, <2>1, <3>3, <3>4, <4>1 DEF OrderInv
      <4> QED
        BY <2>1, <3>1, <4>2, <4>3, <4>4 DEF OrderInv
    <3>6. \A q \in pending : q.id = e.id => q = e
      BY <1>3, <2>1, <2>4 DEF PendingInv
    <3>7. PendingInv(x)'
      <4>0. \A i \in 1 .. Len(inbox'[x]) :
              i + 1 \in 1 .. Len(inbox[x]) /\ inbox'[x][i] = inbox[x][i + 1]
        BY <3>2
      <4>1. \A q \in pending : \A i \in 1 .. Len(inbox'[x]) :
              /\ inbox'[x][i].id = q.id => inbox'[x][i] = q
              /\ q.robot = x /\ q.id < inbox'[x][i].id => inbox'[x][i] \in pending
        BY <2>1, <4>0 DEF PendingInv
      <4>2. ASSUME NEW q \in pending, NEW k \in 1 .. Len(reports'[x]), reports'[x][k].request = q.id
            PROVE  q.robot = x
        <5>1. CASE k \in 1 .. Len(reports[x]) /\ reports'[x][k] = reports[x][k]
          BY <2>1, <4>2, <5>1 DEF PendingInv
        <5>2. CASE reports'[x][k] = m
          BY <1>4, <2>4, <3>4, <3>6, <4>2, <5>2
        <5> QED
          BY <3>3, <5>1, <5>2
      <4>3. x \in known => \A i \in 1 .. Len(inbox'[x]) : inbox'[x][i] \in pending
        BY <2>1, <4>0 DEF PendingInv
      <4> QED
        BY <2>1, <3>1, <4>1, <4>2, <4>3 DEF PendingInv
    <3>8. SpeedInv(x)'
      <4>1. CASE applied /\ e \in pending
        <5>1. PICK q \in pending : q = e
          BY <4>1
        <5>2. \A k \in 1 .. Len(reports'[x]) :
                /\ reports'[x][k].request <= q.id
                /\ reports'[x][k].request = q.id => reports'[x][k].applied
          <6>1. q.id = e.id /\ q.id \in Nat
            BY <1>4, <5>1
          <6>2. ASSUME NEW k \in 1 .. Len(reports'[x])
                PROVE  /\ reports'[x][k].request <= q.id
                       /\ reports'[x][k].request = q.id => reports'[x][k].applied
            <7>1. CASE k \in 1 .. Len(reports[x]) /\ reports'[x][k] = reports[x][k]
              <8>1. /\ reports'[x][k].request = reports[x][k].request
                    /\ reports[x][k].request \in Nat /\ reports[x][k].request < q.id
                BY <2>2, <3>4, <6>1, <7>1
              <8> QED
                BY <6>1, <8>1
            <7>2. CASE reports'[x][k] = m
              <8>1. reports'[x][k].request = q.id
                BY <1>4, <6>1, <7>2
              <8>2. m.applied
                BY <1>4, <4>1, Zenon
              <8>3. reports'[x][k].applied
                BY <7>2, <8>2, Zenon
              <8> QED
                BY <6>1, <8>1, <8>3
            <7> QED
              BY <3>3, <7>1, <7>2
          <6> QED
            BY <6>2
        <5>3. Awaited(x, q)'
          BY <2>4, <3>1, <3>4, <4>1, <5>1, <5>2 DEF Awaited
        <5> QED
          BY <3>1, <5>3 DEF SpeedInv
      <4>2. CASE applied /\ e \notin pending
        <5>1. x \notin known
          BY <1>3, <2>1, <2>4, <4>2 DEF PendingInv
        <5>2. ASSUME NEW k \in 1 .. Len(reports'[x]), Confirms(x, k)' PROVE FALSE
          <6>1. PICK p \in pending : p.id = reports'[x][k].request
            BY <3>1, <5>2 DEF Confirms
          <6>2. k \in 1 .. Len(reports[x]) /\ reports'[x][k] = reports[x][k]
            BY <1>4, <3>3, <3>6, <4>2, <6>1
          <6>3. p.robot = x /\ p.id < e.id
            BY <2>1, <3>4, <6>1, <6>2 DEF PendingInv
          <6> QED
            BY <1>3, <2>1, <2>4, <4>2, <6>3 DEF PendingInv
        <5> QED
          BY <3>1, <5>1, <5>2 DEF SpeedInv
      <4>3. CASE ~ applied
        <5>1. \A k \in 1 .. Len(reports'[x]) :
                Confirms(x, k)' => k \in 1 .. Len(reports[x]) /\ reports'[x][k] = reports[x][k] /\ Confirms(x, k)
          BY <1>4, <3>1, <3>3, <4>3 DEF Confirms
        <5>2. \A q \in pending : Awaited(x, q) => Awaited(x, q)'
          <6> SUFFICES ASSUME NEW q \in pending, Awaited(x, q) PROVE Awaited(x, q)'
            OBVIOUS
          <6>1. q.id < e.id
            BY <1>3, <2>4 DEF Awaited
          <6>2. \A i \in 1 .. Len(inbox'[x]) : q.id < inbox'[x][i].id
            BY <2>2, <3>2 DEF Awaited
          <6>3. \A k \in 1 .. Len(reports'[x]) :
                  /\ Confirms(x, k)' => reports'[x][k].request <= q.id
                  /\ reports'[x][k].request = q.id => reports'[x][k].applied
            BY <1>4, <1>7, <3>3, <5>1, <6>1 DEF Awaited
          <6> QED
            BY <3>1, <4>3, <6>2, <6>3 DEF Awaited
        <5> QED
          BY <2>1, <3>1, <4>3, <5>1, <5>2 DEF SpeedInv
      <4> QED
        BY <4>1, <4>2, <4>3
    <3> QED
      BY <3>5, <3>7, <3>8
  <2> QED
    BY <2>3, <2>4
<1> QED
  BY <1>1, <1>6, <1>8 DEF Inv

(* A request is lost.                                                      *)
LEMMA LoseRequestInv ==
  ASSUME Inv, NEW r \in Robot, LoseRequest(r)
  PROVE  Inv'
<1>1. /\ TypeOK /\ inbox[r] # <<>>
      /\ inbox' = [inbox EXCEPT ![r] = Tail(@)]
      /\ UNCHANGED <<requested, confirmed, pending, issued, known, restarts, reports, received, actual>>
  BY DEF Inv, LoseRequest, node
<1>2. inbox[r] \in Seq(Pending)
  BY <1>1 DEF TypeOK
<1>3. /\ Tail(inbox[r]) \in Seq(Pending) /\ Len(inbox[r]) \in Nat
      /\ Len(Tail(inbox[r])) = Len(inbox[r]) - 1
      /\ \A i \in 1 .. Len(Tail(inbox[r])) :
           i + 1 \in 2 .. Len(inbox[r]) /\ Tail(inbox[r])[i] = inbox[r][i + 1]
  BY <1>1, <1>2, TailFacts
<1>4. TypeOK'
  BY <1>1, <1>3 DEF TypeOK
<1>5. ASSUME NEW x \in Robot
      PROVE  (OrderInv(x) /\ PendingInv(x) /\ SpeedInv(x))'
  <2>1. OrderInv(x) /\ PendingInv(x) /\ SpeedInv(x)
    BY DEF Inv
  <2>2. /\ inbox'[x] = (IF x = r THEN Tail(inbox[r]) ELSE inbox[x])
        /\ Len(inbox[x]) \in Nat
    BY <1>1, TypeFacts DEF TypeOK
  <2>3. /\ x # r => inbox'[x] = inbox[x]
        /\ x = r => \A i \in 1 .. Len(inbox'[x]) :
                      /\ i \in Nat /\ i + 1 \in 1 .. Len(inbox[x])
                      /\ inbox'[x][i] = inbox[x][i + 1]
    BY <1>3, <2>2
  <2>4. OrderInv(x)'
    BY <1>1, <2>1, <2>3 DEF OrderInv
  <2>5. PendingInv(x)'
    BY <1>1, <2>1, <2>3 DEF PendingInv
  <2>6. \A q \in pending : Awaited(x, q) => Awaited(x, q)'
    BY <1>1, <2>3 DEF Awaited, Confirms
  <2>7. SpeedInv(x)'
    BY <1>1, <2>1, <2>6 DEF SpeedInv, Confirms
  <2> QED
    BY <2>4, <2>5, <2>7
<1> QED
  BY <1>1, <1>4, <1>5 DEF Inv

(* A report is lost.                                                       *)
LEMMA LoseReportInv ==
  ASSUME Inv, NEW r \in Robot, LoseReport(r)
  PROVE  Inv'
<1>1. /\ TypeOK /\ reports[r] # <<>>
      /\ reports' = [reports EXCEPT ![r] = Tail(@)]
      /\ UNCHANGED <<requested, confirmed, pending, issued, known, restarts, inbox, received, actual>>
  BY DEF Inv, LoseReport, node
<1>2. reports[r] \in Seq(Report)
  BY <1>1 DEF TypeOK
<1>3. /\ Tail(reports[r]) \in Seq(Report) /\ Len(reports[r]) \in Nat
      /\ Len(Tail(reports[r])) = Len(reports[r]) - 1
      /\ \A k \in 1 .. Len(Tail(reports[r])) :
           k + 1 \in 2 .. Len(reports[r]) /\ Tail(reports[r])[k] = reports[r][k + 1]
  BY <1>1, <1>2, TailFacts
<1>4. TypeOK'
  BY <1>1, <1>3 DEF TypeOK
<1>5. ASSUME NEW x \in Robot
      PROVE  (OrderInv(x) /\ PendingInv(x) /\ SpeedInv(x))'
  <2>1. OrderInv(x) /\ PendingInv(x) /\ SpeedInv(x)
    BY DEF Inv
  <2>2. /\ reports'[x] = (IF x = r THEN Tail(reports[r]) ELSE reports[x])
        /\ Len(reports[x]) \in Nat
    BY <1>1, TypeFacts DEF TypeOK
  <2>3. /\ x # r => reports'[x] = reports[x]
        /\ x = r => \A k \in 1 .. Len(reports'[x]) :
                      /\ k \in Nat /\ k + 1 \in 1 .. Len(reports[x])
                      /\ reports'[x][k] = reports[x][k + 1]
    BY <1>3, <2>2
  <2>4. OrderInv(x)'
    BY <1>1, <2>1, <2>3 DEF OrderInv
  <2>5. PendingInv(x)'
    BY <1>1, <2>1, <2>3 DEF PendingInv
  <2>6. \A q \in pending : Awaited(x, q) => Awaited(x, q)'
    BY <1>1, <2>3 DEF Awaited, Confirms
  <2>7. (\E k \in 1 .. Len(reports'[x]) : Confirms(x, k)') => \E k \in 1 .. Len(reports[x]) : Confirms(x, k)
    BY <1>1, <2>3 DEF Confirms
  <2>8. SpeedInv(x)'
    BY <1>1, <2>1, <2>6, <2>7 DEF SpeedInv
  <2> QED
    BY <2>4, <2>5, <2>8
<1> QED
  BY <1>1, <1>4, <1>5 DEF Inv

(* A report comes again.                                                   *)
LEMMA RepeatInv ==
  ASSUME Inv, NEW r \in Robot, RepeatReport(r)
  PROVE  Inv'
<1>1. /\ TypeOK /\ reports[r] = <<>>
      /\ UNCHANGED <<requested, confirmed, pending, issued, known, restarts, inbox, received, actual>>
  BY DEF Inv, RepeatReport, node
<1>2. PICK m \in received[r] : reports' = [reports EXCEPT ![r] = <<m>>]
  BY DEF RepeatReport
<1>3. m \in Report /\ <<m>> \in Seq(Report) /\ Len(<<m>>) = 1 /\ <<m>>[1] = m
  BY <1>1 DEF TypeOK
<1>4. TypeOK'
  BY <1>1, <1>2, <1>3 DEF TypeOK
<1>5. ASSUME NEW x \in Robot
      PROVE  (OrderInv(x) /\ PendingInv(x) /\ SpeedInv(x))'
  <2>1. OrderInv(x) /\ PendingInv(x) /\ SpeedInv(x)
    BY DEF Inv
  <2>2. /\ x # r => reports'[x] = reports[x]
        /\ x = r => \A k \in 1 .. Len(reports'[x]) : k = 1 /\ reports'[x][k] = m
    BY <1>1, <1>2, <1>3 DEF TypeOK
  <2>3. x = r => /\ m.request <= issued
                 /\ \A i \in 1 .. Len(inbox[x]) : m.request < inbox[x][i].id
                 /\ \A q \in pending : m.request # q.id
    BY <2>1 DEF OrderInv, PendingInv
  <2>4. OrderInv(x)'
    BY <1>1, <2>1, <2>2, <2>3 DEF OrderInv
  <2>5. PendingInv(x)'
    BY <1>1, <2>1, <2>2, <2>3 DEF PendingInv
  <2>6. x = r => \A k \in 1 .. Len(reports'[x]) : ~ Confirms(x, k)'
    BY <1>1, <2>2, <2>3 DEF Confirms
  <2>7. \A q \in pending : Awaited(x, q) => Awaited(x, q)'
    BY <1>1, <2>2, <2>3, <2>6 DEF Awaited, Confirms
  <2>8. SpeedInv(x)'
    BY <1>1, <2>1, <2>2, <2>6, <2>7 DEF SpeedInv, Confirms
  <2> QED
    BY <2>4, <2>5, <2>8
<1> QED
  BY <1>1, <1>4, <1>5 DEF Inv

(* The node starts anew.                                                   *)
LEMMA RestartInv ==
  ASSUME Inv, Restart
  PROVE  Inv'
<1>1. /\ TypeOK /\ pending' = {} /\ known' = {} /\ issued' = issued
      /\ UNCHANGED <<inbox, reports, received, actual>>
  BY DEF Inv, Restart, IdsUsed
<1>2. TypeOK'
  <2>1. 100 \in Valid
    BY DEF Valid
  <2>2. restarts' \in 0 .. MaxRestarts
    BY SpeedAssumption DEF Inv, TypeOK, Restart
  <2> QED
    BY <1>1, <2>1, <2>2 DEF TypeOK, Restart
<1>3. ASSUME NEW x \in Robot
      PROVE  (OrderInv(x) /\ PendingInv(x) /\ SpeedInv(x))'
  <2>1. OrderInv(x)
    BY DEF Inv
  <2>2. OrderInv(x)'
    BY <1>1, <2>1 DEF OrderInv
  <2>3. PendingInv(x)' /\ SpeedInv(x)'
    BY <1>1 DEF PendingInv, SpeedInv, Confirms
  <2> QED
    BY <2>2, <2>3
<1> QED
  BY <1>1, <1>2, <1>3 DEF Inv

-----------------------------------------------------------------------------
(* Every step keeps the invariant.                                         *)
LEMMA NextInv == Inv /\ [Next]_vars => Inv'
<1> SUFFICES ASSUME Inv, [Next]_vars PROVE Inv'
  OBVIOUS
<1>1. CASE Next
  BY <1>1, RequestInv, ReceiveInv, TakeInv, LoseRequestInv, LoseReportInv, RepeatInv, RestartInv DEF Next
<1>2. CASE UNCHANGED vars
  BY <1>2 DEF vars, node, Inv, TypeOK, OrderInv, PendingInv, SpeedInv, Confirms, Awaited
<1> QED
  BY <1>1, <1>2

(* The invariant holds in every reachable state.                           *)
THEOREM SpeedInvariance == Spec => []Inv
<1> QED
  BY InitInv, NextInv, PTL DEF Spec

(* Type correctness: no speed outside the limits is ever asked of a robot, *)
(* shown or driven.                                                        *)
THEOREM SpeedTypeCorrect == Spec => []TypeOK
<1>1. Inv => TypeOK
  BY DEF Inv
<1> QED
  BY <1>1, SpeedInvariance, PTL

(* The speed shown is the speed driven, whatever is refused, lost or       *)
(* repeated, and whenever the node restarts.                               *)
THEOREM SpeedShownIsDriven == Spec => []ConfirmedIsActual
<1>1. Inv => ConfirmedIsActual
  <2> SUFFICES ASSUME Inv, NEW r \in known, \A q \in pending : q.robot # r
               PROVE  confirmed[r] = actual[r]
    BY DEF ConfirmedIsActual
  <2>1. SpeedInv(r)
    BY DEF Inv, TypeOK
  <2> QED
    BY <2>1 DEF SpeedInv, Awaited
<1> QED
  BY <1>1, SpeedInvariance, PTL
=============================================================================
