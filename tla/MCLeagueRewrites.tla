--------------------------- MODULE MCLeagueRewrites ---------------------------
(* One league under two names: an upload and a fenced bundle of the old one,  *)
(* a bundle of the new one, and the rename.                                   *)
EXTENDS LeagueRewrites

CONSTANTS old, new, s1, s2, u1, b1, b2, o1

MCTarget == [x \in Upload \cup Bundle |-> IF x = b2 THEN new ELSE old]
MCHolds  == [x \in Upload \cup Bundle |-> IF x = b1 THEN {s2} ELSE {s1, s2}]
MCListings == {{old}, {old, new}}
MCSrc    == [o \in Op |-> old]
MCDst    == [o \in Op |-> new]
=============================================================================
