---------------------------- MODULE TransferZone ----------------------------
(***************************************************************************)
(* What the mission layer promises about the transfer zone, without tasks, *)
(* leases, commands or waiting places: one robot at a time is inside; the  *)
(* upstream robot enters when there is room and stays until it has left a  *)
(* package, the downstream robot enters when there is a package and stays  *)
(* until it has taken it. Nobody leaves for any other reason, so a robot   *)
(* that fails inside, or is cancelled or aborted there, keeps the other    *)
(* one out. A robot may enter in the moment in which the other one leaves. *)
(***************************************************************************)
CONSTANTS Package, Upstream, Downstream

VARIABLES
  inside,     \* the robots that may be in the zone
  contents    \* the packages that lie in the zone

vars == <<inside, contents>>

Robot == {Upstream, Downstream}

Init == inside = {} /\ contents = {}

(* Robot r has a reason to be in the zone: something to leave or to take.  *)
HasBusiness(r) == IF r = Upstream THEN contents = {} ELSE contents # {}

Enter(r) ==
  /\ inside = {}
  /\ HasBusiness(r)
  /\ inside' = {r}
  /\ UNCHANGED contents

Leave(r) ==
  /\ inside = {r}
  /\ ~ HasBusiness(r)
  /\ inside' = {}
  /\ UNCHANGED contents

(* Robot r leaves and the other robot, q, enters.                          *)
Exchange(r, q) ==
  /\ inside = {r}
  /\ ~ HasBusiness(r)
  /\ HasBusiness(q)
  /\ inside' = {q}
  /\ UNCHANGED contents

Deposit(p) ==
  /\ inside = {Upstream}
  /\ contents = {}
  /\ contents' = {p}
  /\ UNCHANGED inside

Remove(p) ==
  /\ inside = {Downstream}
  /\ contents = {p}
  /\ contents' = {}
  /\ UNCHANGED inside

Next ==
  \/ \E r \in Robot : Enter(r) \/ Leave(r)
  \/ \E r, q \in Robot : Exchange(r, q)
  \/ \E p \in Package : Deposit(p) \/ Remove(p)

Spec == Init /\ [][Next]_vars
=============================================================================
