--------------------------- MODULE AccessPromise ---------------------------
(***************************************************************************)
(* What the shop promises, with no database, queue or process in it: a     *)
(* purchase is paid for, then gets one access grant, then its buyer is     *)
(* sent at most one link; nothing is ever taken back.                      *)
(***************************************************************************)
EXTENDS Integers

CONSTANT Purchases

VARIABLES
  paid,      \* purchases with a payment on record
  granted,   \* purchases with an access grant
  links      \* access links sent, per purchase

vars == <<paid, granted, links>>

Init ==
  /\ paid = {}
  /\ granted = {}
  /\ links = [p \in Purchases |-> 0]

Pay(p) ==
  /\ p \notin paid
  /\ paid' = paid \cup {p}
  /\ UNCHANGED <<granted, links>>

Grant(p) ==
  /\ p \in paid \ granted
  /\ granted' = granted \cup {p}
  /\ UNCHANGED <<paid, links>>

Deliver(p) ==
  /\ p \in granted
  /\ links[p] = 0
  /\ links' = [links EXCEPT ![p] = 1]
  /\ UNCHANGED <<paid, granted>>

Next == \E p \in Purchases : Pay(p) \/ Grant(p) \/ Deliver(p)

Spec == Init /\ [][Next]_vars
=============================================================================
