---------------------------- MODULE MCDeltaPublish -----------------------------
(* Two leagues; repair bundles of one of them and a fleet bundle of both. *)
EXTENDS DeltaPublish

CONSTANTS l1, l2, r1, r2, loc, f1, SameKey

MCLeague == {l1, l2}
MCKeyOf  == [b \in Bundle |-> IF SameKey /\ b = r2 THEN r1 ELSE b]
MCLane   == [b \in Bundle |-> IF b = f1 THEN "fleet" ELSE "repair"]
MCScope  == [b \in Bundle |-> IF b = f1 THEN {l1, l2} ELSE {l1}]
MCOrder  == [b \in Bundle |-> CASE b = r1 -> 1
                               [] b = r2 -> 2
                               [] OTHER -> NoOrder]
=============================================================================
