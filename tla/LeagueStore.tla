----------------------------- MODULE LeagueStore ------------------------------
(***************************************************************************)
(* What publishing a bundle promises: in one step, and once only, its      *)
(* update is added to what every league in its scope already reflects, and *)
(* the generation of each of those leagues moves by one.                   *)
(***************************************************************************)
EXTENDS Naturals

CONSTANTS League, Bundle, Scope

VARIABLES facts, gen, published

Init ==
  /\ facts = [l \in League |-> {}]
  /\ gen = [l \in League |-> 0]
  /\ published = {}

Publish(b) ==
  /\ b \notin published
  /\ published' = published \cup {b}
  /\ facts' = [l \in League |-> IF l \in Scope[b] THEN facts[l] \cup {b} ELSE facts[l]]
  /\ gen' = [l \in League |-> IF l \in Scope[b] THEN gen[l] + 1 ELSE gen[l]]

Next == \E b \in Bundle : Publish(b)

Spec == Init /\ [][Next]_<<facts, gen, published>>
=============================================================================
