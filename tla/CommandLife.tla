---------------------------- MODULE CommandLife ----------------------------
(***************************************************************************)
(* What the mission manager is promised about its execution commands: a    *)
(* command is opened once and closed once, with one outcome that the       *)
(* manager learns at that moment and that never changes afterwards.        *)
(***************************************************************************)
CONSTANTS Command, Outcome, Unopened, Open

VARIABLE life   \* life[c]: Unopened, Open, or the outcome of command c

Init == life = [c \in Command |-> Unopened]

Begin(c) ==
  /\ life[c] = Unopened
  /\ life' = [life EXCEPT ![c] = Open]

Close(c, o) ==
  /\ life[c] = Open
  /\ life' = [life EXCEPT ![c] = o]

Next == \E c \in Command : Begin(c) \/ \E o \in Outcome : Close(c, o)

Spec == Init /\ [][Next]_life
=============================================================================
