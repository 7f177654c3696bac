---------------------------- MODULE SeasonRefresh ----------------------------
(***************************************************************************)
(* The derived tables of one league while its workers publish.  Every      *)
(* worker reads the generation of the league, then what it builds upon, in *)
(* requests of their own, computes some of the derived tables itself and   *)
(* leaves the others to the transaction that merges its bundle; that       *)
(* transaction refuses the bundle when the generation has moved.  What is  *)
(* derived must always be derived from the rows it stands beside.          *)
(*                                                                         *)
(* The content of a partition is the set of the publications it reflects;  *)
(* that of a derived table is the rows it was computed from.               *)
(***************************************************************************)
EXTENDS Naturals, FiniteSets

CONSTANTS
  Year,
  Active,       \* the year that weekly refreshes publish
  DraftYear,    \* the year whose offseason draft is published
  QuickYears,   \* the one or two years of a quick import
  Weekly,       \* refreshes of an active season (fleet bundle, version 2)
  Quick,        \* quick imports (version 3)
  Draft,        \* offseason draft updates (version 1)
  Ranks,        \* repairs of missing manager rankings (version 1)
  Gap,          \* repairs of season rollups without a week (version 2)
  Full,         \* whole-league imports (delta lane)
  Unfenced,     \* those of them that captured no generation
  Editor,       \* settings saved by the web application
  Gaps,         \* years whose rollups lack rows at first
  Extras,       \* years whose rollups have rows without a source
  AtOnce,       \* bound: how many of the workers run
  Nothing

Worker == Weekly \cup Quick \cup Draft \cup Ranks \cup Gap \cup Full
Actor  == Worker \cup Editor
Table  == {"games", "draft"}

ASSUME RefreshAssumption ==
  /\ Active \in Year /\ DraftYear \in Year /\ QuickYears \subseteq Year
  /\ Gaps \subseteq Year /\ Extras \subseteq Year \ Gaps
  /\ Unfenced \subseteq Full /\ AtOnce \in Nat
  /\ Weekly \cap (Quick \cup Draft \cup Ranks \cup Gap \cup Full \cup Editor) = {}
  /\ Quick \cap (Draft \cup Ranks \cup Gap \cup Full \cup Editor) = {}
  /\ Draft \cap (Ranks \cup Gap \cup Full \cup Editor) = {}
  /\ Ranks \cap (Gap \cup Full \cup Editor) = {}
  /\ Gap \cap (Full \cup Editor) = {} /\ Full \cap Editor = {}

Rows == [Table -> [Year -> SUBSET Worker]]
ASSUME NothingAssumption ==
  Nothing \notin Actor \cup Nat \cup Rows \cup [Year -> SUBSET Worker]

VARIABLES
  gen,      \* merge_admin.league_publish_generations
  rows,     \* [Table -> [Year -> the publications its rows reflect]]
  season,   \* [Year -> [Table -> the rows its rollups and grades came from]]
  keys,     \* [Year -> do the rollups have the keys of their source]
  career,   \* the rows the career tables were computed from
  home,     \* the rows the homepage was computed from
  ranks,    \* the games the manager rankings came from, or Nothing
  saved,    \* the settings in league_context: who saved them
  pc,       \* [Actor -> where it is]
  base,     \* [Worker -> the generation it captured, or Nothing]
  seen,     \* [Worker -> what it has read]
  out       \* [Actor -> how it ended]

derived == <<season, keys, career, home, ranks>>
league  == <<gen, rows, derived, saved>>
mine    == <<pc, base, seen, out>>
vars    == <<league, mine>>

Blank == [rows |-> [t \in Table |-> Nothing], home |-> Nothing, saved |-> Nothing]

Init ==
  /\ gen = 0
  /\ rows = [t \in Table |-> [y \in Year |-> {}]]
  /\ season = [y \in Year |-> [t \in Table |-> {}]]
  /\ keys = [y \in Year |-> IF y \in Gaps THEN "short"
                            ELSE IF y \in Extras THEN "surplus" ELSE "all"]
  /\ career = rows /\ home = rows /\ ranks \in {Nothing, rows["games"]}
  /\ saved = Nothing
  /\ \E busy \in SUBSET Worker :
       /\ Cardinality(busy) <= AtOnce
       /\ pc = [a \in Actor |-> IF a \in Editor THEN "save"
                                ELSE IF a \in busy THEN "start" ELSE "done"]
  /\ base = [p \in Worker |-> Nothing]
  /\ seen = [p \in Worker |-> Blank]
  /\ out = [a \in Actor |-> "none"]

At(p, s) == pc[p] = s
Go(p, s) == pc' = [pc EXCEPT ![p] = s] /\ UNCHANGED out
Done(p, o) ==
  /\ pc' = [pc EXCEPT ![p] = "done"] /\ out' = [out EXCEPT ![p] = o]
  /\ base' = [base EXCEPT ![p] = Nothing] /\ seen' = [seen EXCEPT ![p] = Blank]

\* What the planner calls damaged, and what the server would rebuild while it
\* merges rows of the years in changed.
PlannerGaps == {y \in Year : keys[y] # "all"}
ServerGaps(changed) == {y \in Year \ changed : keys[y] = "short"}

-----------------------------------------------------------------------------
(* Plausible bugs, each in the place of the operator its comment names.     *)

\* Recheck: a worker that finds the league changed adopts its new generation.
AdoptsGeneration(p) ==
  /\ At(p, "check")
  /\ base' = [base EXCEPT ![p] = gen]
  /\ Go(p, IF p \in Weekly THEN "home" ELSE "merge")
  /\ UNCHANGED <<league, seen>>

\* ReadHome: the generation is captured again with the homepage's sources.
RebasesHome(p) ==
  /\ At(p, "home")
  /\ seen' = [seen EXCEPT ![p].home = rows]
  /\ base' = [base EXCEPT ![p] = gen]
  /\ Go(p, "merge")
  /\ UNCHANGED <<league, out>>

\* AfterRead: the draft update takes its generation when it has read all.
LateBase(p) ==
  /\ base' = [base EXCEPT ![p] = gen]
  /\ Go(p, IF p \in Draft THEN "merge" ELSE "check")

-----------------------------------------------------------------------------
(* Reading.                                                                 *)

\* The generation is read before anything else; a repair of the rankings ends
\* here when they are there.
Capture(p) ==
  /\ At(p, "start") /\ p \in Worker \ Gap
  /\ IF p \in Ranks /\ ranks # Nothing
     THEN Done(p, "idle")
     ELSE /\ base' = [base EXCEPT ![p] = IF p \in Unfenced THEN Nothing ELSE gen]
          /\ UNCHANGED seen
          /\ Go(p, IF p \in Quick \cup Full THEN "settings" ELSE "read")
  /\ UNCHANGED league

\* The settings are read once, long before the merge; a full import goes on
\* without them when the read fails.
ReadSettings(p) ==
  /\ At(p, "settings")
  /\ \E s \in IF p \in Full THEN {saved, Nothing} ELSE {saved} :
       seen' = [seen EXCEPT ![p].saved = s]
  /\ Go(p, "merge")
  /\ UNCHANGED <<league, base>>

AllRead(p) ==
  \A t \in (IF p \in Ranks THEN {"games"} ELSE Table) : seen'[p].rows[t] # Nothing

\* A weekly refresh and a repair of the rankings look at the generation again;
\* an offseason draft relies on the merge.
AfterRead(p) == UNCHANGED base /\ Go(p, IF p \in Draft THEN "merge" ELSE "check")

\* Every table is a request of its own; they arrive in any order.
ReadTable(p, t) ==
  /\ At(p, "read") /\ seen[p].rows[t] = Nothing
  /\ p \in Ranks => t = "games"
  /\ seen' = [seen EXCEPT ![p].rows[t] = rows[t]]
  /\ IF AllRead(p) THEN AfterRead(p) ELSE UNCHANGED base /\ Go(p, "read")
  /\ UNCHANGED league

Recheck(p) ==
  /\ At(p, "check")
  /\ IF p \in Ranks /\ ranks # Nothing THEN Done(p, "idle")
     ELSE IF gen # base[p] THEN Done(p, "changed")
     ELSE Go(p, IF p \in Weekly THEN "home" ELSE "merge") /\ UNCHANGED <<base, seen>>
  /\ UNCHANGED league

\* The sources of the homepage are one request in the background, after the
\* generation was compared: only the merge notices that they are newer.
ReadHome(p) ==
  /\ At(p, "home")
  /\ seen' = [seen EXCEPT ![p].home = rows]
  /\ Go(p, "merge")
  /\ UNCHANGED <<league, base>>

\* A repair without a week: the damaged years, then the generation together
\* with the context row it will send.
FindGaps(p) ==
  /\ At(p, "start") /\ p \in Gap
  /\ IF PlannerGaps = {} THEN Done(p, "idle")
                         ELSE Go(p, "witness") /\ UNCHANGED <<base, seen>>
  /\ UNCHANGED league

ReadWitness(p) ==
  /\ At(p, "witness")
  /\ base' = [base EXCEPT ![p] = gen]
  /\ seen' = [seen EXCEPT ![p].saved = saved]
  /\ Go(p, "merge")
  /\ UNCHANGED league

-----------------------------------------------------------------------------
(* Merging.  One transaction: the fence, the rows, what the server derives. *)

Fenced(p) == p \in Unfenced \/ gen = base[p]
SameSettings(p) == p \in Quick => seen[p].saved = saved

Admitted(p) == At(p, "merge") /\ Fenced(p) /\ SameSettings(p)
Committed(p) == gen' = gen + 1 /\ Done(p, "ok")

\* The rows of a partition are deleted and the bundle's are inserted.
Replace(t, y, s) == rows' = [rows EXCEPT ![t][y] = s]

\* An active season laid over what is there.
Overlay(r, games, picks) ==
  [r EXCEPT !["games"][Active] = games, !["draft"][Active] = picks]

Sources(r, y) == [t \in Table |-> r[t][y]]

\* The server derives from the merged rows, before it commits.
RebuildSeasons(years) ==
  /\ season' = [y \in Year |-> IF y \in years THEN Sources(rows', y) ELSE season[y]]
  /\ keys' = [y \in Year |-> IF y \in years THEN "all" ELSE keys[y]]
RebuildCareers == career' = rows'
RebuildHomepage == home' = rows' /\ ranks' = rows'["games"]

\* The active season: the weeks the worker found and its own, with the picks
\* it found or fetched anew.  The worker has derived the season and overlaid it
\* on the history it read for the homepage; the server rebuilds the careers
\* and, if the plan asked for it, the rollups that lack rows.
MergeWeek(p) ==
  /\ Admitted(p) /\ p \in Weekly
  /\ LET games == seen[p].rows["games"][Active] \cup {p}
     IN  \E picks \in {seen[p].rows["draft"][Active], {p}},
            repair \in {{}, ServerGaps({Active})} :
           /\ rows' = Overlay(rows, games, picks)
           /\ RebuildSeasons({Active} \cup repair)
           /\ home' = Overlay(seen[p].home, games, picks)
  /\ ranks' = home'["games"]
  /\ RebuildCareers
  /\ Committed(p)
  /\ UNCHANGED saved

\* A quick import keeps saved settings and must have been built with them.
MergeQuick(p) ==
  /\ Admitted(p) /\ p \in Quick
  /\ rows' = [t \in Table |-> [y \in Year |->
                IF y \in QuickYears THEN {p} ELSE rows[t][y]]]
  /\ RebuildSeasons(QuickYears \cup ServerGaps(QuickYears))
  /\ RebuildCareers
  /\ RebuildHomepage
  /\ Committed(p)
  /\ UNCHANGED saved

\* The picks of one year, their season and their careers; the worker derived
\* all three from what it read.
MergeDraft(p) ==
  /\ Admitted(p) /\ p \in Draft
  /\ Replace("draft", DraftYear, {p})
  /\ season' = [season EXCEPT ![DraftYear] =
       [t \in Table |-> IF t = "draft" THEN {p} ELSE seen[p].rows[t][DraftYear]]]
  /\ career' = [career EXCEPT !["draft"] =
       [seen[p].rows["draft"] EXCEPT ![DraftYear] = {p}]]
  /\ Committed(p)
  /\ UNCHANGED <<keys, home, ranks, saved>>

MergeRanks(p) ==
  /\ Admitted(p) /\ p \in Ranks
  /\ ranks' = seen[p].rows["games"]
  /\ Committed(p)
  /\ UNCHANGED <<rows, season, keys, career, home, saved>>

\* The context row it read replaces the one that is there.
MergeWitness(p) ==
  /\ At(p, "merge") /\ Fenced(p) /\ p \in Gap
  /\ UNCHANGED rows
  /\ RebuildSeasons(ServerGaps({Active}))
  /\ RebuildCareers
  /\ saved' = seen[p].saved
  /\ gen' = gen + 1
  /\ Go(p, "verify") /\ base' = [base EXCEPT ![p] = Nothing]
  /\ seen' = [seen EXCEPT ![p] = Blank]
  /\ UNCHANGED <<home, ranks>>

\* The repair asks the planner's question again.
VerifyGaps(p) ==
  /\ At(p, "verify")
  /\ Done(p, IF PlannerGaps = {} THEN "ok" ELSE "left incomplete")
  /\ UNCHANGED league

\* Everything the league has, the derived tables too, with the settings the
\* import started from.
MergeFull(p) ==
  /\ Admitted(p) /\ p \in Full
  /\ rows' = [t \in Table |-> [y \in Year |-> {p}]]
  /\ RebuildSeasons(Year)
  /\ RebuildCareers
  /\ RebuildHomepage
  /\ saved' = seen[p].saved
  /\ Committed(p)

\* A conflict, other settings, or a merge that fails and is rolled back.
Refuse(p) ==
  /\ At(p, "merge")
  /\ \/ ~Fenced(p) /\ Done(p, "refused")
     \/ Fenced(p) /\ ~SameSettings(p) /\ Done(p, "other settings")
     \/ Done(p, "failed")
  /\ UNCHANGED league

\* A save of the settings moves no generation.
Save(e) ==
  /\ At(e, "save")
  /\ saved' = e
  /\ pc' = [pc EXCEPT ![e] = "done"] /\ out' = [out EXCEPT ![e] = "ok"]
  /\ UNCHANGED <<gen, rows, derived, base, seen>>

-----------------------------------------------------------------------------
Step(p) ==
  \/ Capture(p) \/ ReadSettings(p) \/ (\E t \in Table : ReadTable(p, t))
  \/ Recheck(p) \/ ReadHome(p) \/ FindGaps(p) \/ ReadWitness(p)
  \/ MergeWeek(p) \/ MergeQuick(p) \/ MergeDraft(p) \/ MergeRanks(p)
  \/ MergeWitness(p) \/ VerifyGaps(p) \/ MergeFull(p) \/ Refuse(p)

Quiet == (\A a \in Actor : At(a, "done")) /\ UNCHANGED vars

Next == (\E p \in Worker : Step(p)) \/ (\E e \in Editor : Save(e)) \/ Quiet

Spec == Init /\ [][Next]_vars

-----------------------------------------------------------------------------
(* Properties.                                                              *)

\* The season rollups of every year, and the grades of its picks, come from
\* the rows that are there, whichever worker or server computed them last.
SeasonsTellTruth == \A y \in Year : season[y] = Sources(rows, y)

\* So do the careers, over all years (aggregate_career_rollups; an offseason
\* draft uploads those of the draft).
CareersTellTruth == career = rows

\* The homepage and its rankings show the games of every year as they are,
\* although a weekly refresh computes them from an earlier reading.
HomepageTellsTruth ==
  /\ home["games"] = rows["games"]
  /\ ranks # Nothing => ranks = rows["games"]

\* What the season tables, the grades and the careers say of the league is
\* true in every state (apply_fleet_merge derives inside the transaction).
RollupsTellTruth == SeasonsTellTruth /\ CareersTellTruth

\* Torn readings, homepages over an earlier history and tables that a worker
\* derives for itself add up to publications that read and replace their rows at
\* one instant, each once, and no week of another's is lost: the generation is
\* compared in the transaction (apply_fleet_merge).
Store == INSTANCE SeasonStore WITH
  front <- home["games"],
  published <- {p \in Weekly \cup Quick \cup Draft \cup Full : out[p] = "ok"}
SeasonStoreSpec == Store!Spec

\* A repair of season rollups that committed has repaired what it was for.
RepairRepairs == \A p \in Gap : out[p] # "left incomplete"

\* Saved settings change by a save only.
SettingsStay ==
  [][saved' # saved => \E e \in Editor : At(e, "save") /\ saved' = e]_vars

\* The homepage shows the picks that are there.
HomepageShowsDraft == home["draft"] = rows["draft"]

=============================================================================
