------------------------------ MODULE SeasonStore ------------------------------
(***************************************************************************)
(* What the workers of a league promise together: every publication reads  *)
(* and replaces its rows at one instant, at most once, and whatever is     *)
(* derived (season rollups, careers, the homepage and its rankings) is a   *)
(* view of the rows.  Nobody has read anything before that instant.        *)
(***************************************************************************)
CONSTANTS Year, Table, Active, DraftYear, QuickYears, Weekly, Quick, Draft, Full, Nothing

VARIABLES
  rows,       \* [Table -> [Year -> the publications its rows reflect]]
  published,  \* the publications that have taken effect
  season, career, front, ranks    \* the views; front: the games of the homepage

Views ==
  /\ season = [y \in Year |-> [t \in Table |-> rows[t][y]]]
  /\ career = rows
  /\ front = rows["games"]
  /\ ranks \in {rows["games"], Nothing}

Init == rows = [t \in Table |-> [y \in Year |-> {}]] /\ published = {} /\ Views

\* A week is added to its season; the picks stay or are fetched anew.
Week(p) ==
  \E picks \in {rows["draft"][Active], {p}} :
    rows' = [rows EXCEPT !["games"][Active] = @ \cup {p}, !["draft"][Active] = picks]

Picks(p) == rows' = [rows EXCEPT !["draft"][DraftYear] = {p}]

Import(p, years) ==
  rows' = [t \in Table |-> [y \in Year |-> IF y \in years THEN {p} ELSE rows[t][y]]]

Publish(p) ==
  /\ p \notin published /\ published' = published \cup {p}
  /\ \/ p \in Weekly /\ Week(p)
     \/ p \in Quick /\ Import(p, QuickYears)
     \/ p \in Draft /\ Picks(p)
     \/ p \in Full /\ Import(p, Year)
  /\ Views'

\* Rankings that were missing are there.
Rank == ranks' = rows["games"] /\ UNCHANGED <<rows, published, season, career, front>>

Next == Rank \/ \E p \in Weekly \cup Quick \cup Draft \cup Full : Publish(p)

Spec == Init /\ [][Next]_<<rows, published, season, career, front, ranks>>
=============================================================================
