------------------------- MODULE SeasonRefreshProofs -------------------------
(***************************************************************************)
(* That derived tables tell the truth about the rows beside them, for any  *)
(* sets of workers, years and editors.                                     *)
(*                                                                         *)
(* The invariant behind it is Fresh: while the generation a worker has     *)
(* captured is the present one, everything the worker has read is still    *)
(* what is there.  It is why the fence alone is enough, and why a reading  *)
(* after the last comparison of generations does no harm.                  *)
(***************************************************************************)
EXTENDS SeasonRefresh, TLAPS

YearRows == [Year -> SUBSET Worker]

\* What a worker may remember, and the range of every other variable.
Memory == [rows  : [Table -> YearRows \cup {Nothing}],
           home  : Rows \cup {Nothing},
           saved : Editor \cup {Nothing}]

RefreshTypeOK ==
  /\ gen \in Nat
  /\ rows \in Rows
  /\ season \in [Year -> [Table -> SUBSET Worker]]
  /\ keys \in [Year -> {"all", "short", "surplus"}]
  /\ career \in Rows /\ home \in Rows
  /\ ranks \in YearRows \cup {Nothing}
  /\ saved \in Editor \cup {Nothing}
  /\ base \in [Worker -> Nat \cup {Nothing}]
  /\ seen \in [Worker -> Memory]
  /\ DOMAIN pc = Actor /\ DOMAIN out = Actor

\* No generation is captured before it is there, and as long as it is the
\* present one, what has been read since is what is there.
Fresh ==
  \A p \in Worker :
    /\ base[p] # Nothing => base[p] <= gen
    /\ base[p] = gen =>
         /\ \A t \in Table : seen[p].rows[t] # Nothing => seen[p].rows[t] = rows[t]
         /\ seen[p].home # Nothing => seen[p].home = rows

\* Nobody reads before its generation is captured, and nobody merges before
\* all its readings are in.
ReadBefore ==
  \A p \in Worker :
    /\ At(p, "start") \/ At(p, "witness") => seen[p] = Blank
    /\ At(p, "witness") => p \in Gap
    /\ At(p, "settings") => p \in Quick \cup Full
    /\ At(p, "check") \/ At(p, "home") \/ At(p, "merge") =>
         /\ p \in Weekly \cup Draft => \A t \in Table : seen[p].rows[t] # Nothing
         /\ p \in Ranks => seen[p].rows["games"] # Nothing
    /\ At(p, "merge") /\ p \in Weekly => seen[p].home # Nothing

RInv == RefreshTypeOK /\ Fresh /\ ReadBefore /\ RollupsTellTruth /\ HomepageTellsTruth

-----------------------------------------------------------------------------
LEMMA TableFacts ==
  /\ "games" \in Table /\ "draft" \in Table
  /\ \A t \in Table : t = "games" \/ t = "draft"
BY DEF Table

LEMMA NothingIsNew ==
  /\ Nothing \notin Nat /\ Nothing \notin Rows /\ Nothing \notin YearRows
BY NothingAssumption DEF YearRows

LEMMA BlankIsMemory ==
  /\ Blank \in Memory
  /\ \A t \in Table : Blank.rows[t] = Nothing
  /\ Blank.home = Nothing
BY DEF Blank, Memory

LEMMA RefreshInit == Init => RInv
<1> SUFFICES ASSUME Init PROVE RInv OBVIOUS
<1> USE DEF Init
<1>1. rows \in Rows BY DEF Rows
<1>2. rows["games"] \in YearRows BY TableFacts DEF YearRows
<1>3. DOMAIN pc = Actor OBVIOUS
<1>4. seen \in [Worker -> Memory] BY BlankIsMemory
<1>5. season \in [Year -> [Table -> SUBSET Worker]] OBVIOUS
<1>6. RefreshTypeOK
  <2>1. keys \in [Year -> {"all", "short", "surplus"}] OBVIOUS
  <2>2. gen \in Nat /\ base \in [Worker -> Nat \cup {Nothing}] OBVIOUS
  <2>3. DOMAIN out = Actor OBVIOUS
  <2> QED BY <1>1, <1>2, <1>3, <1>4, <1>5, <2>1, <2>2, <2>3 DEF RefreshTypeOK
<1>7. Fresh
  BY NothingIsNew, BlankIsMemory DEF Fresh
<1>8. \A p \in Worker : p \in Actor /\ p \notin Editor
  BY RefreshAssumption DEF Actor, Worker
<1>9. \A p \in Worker : pc[p] = "start" \/ pc[p] = "done" BY <1>8
<1>10. ReadBefore BY <1>9 DEF ReadBefore, At, Init
<1>11. RollupsTellTruth
  <2>1. \A y \in Year : season[y] = Sources(rows, y) BY DEF Sources
  <2> QED BY <2>1 DEF RollupsTellTruth, SeasonsTellTruth, CareersTellTruth
<1>12. HomepageTellsTruth BY DEF HomepageTellsTruth
<1> QED BY <1>6, <1>7, <1>10, <1>11, <1>12 DEF RInv

-----------------------------------------------------------------------------
(* Steps of one worker that leave the league alone, by what they do to its  *)
(* own memory.                                                              *)

\* A worker that ends forgets what it knew.
LEMMA DoneKeeps ==
  ASSUME NEW p \in Worker, NEW o, RInv, Done(p, o), UNCHANGED league
  PROVE  RInv'
<1> USE DEF league, derived, RInv
<1>1. p \in Actor BY DEF Actor
<1>2. RefreshTypeOK'
  <2>1. base' \in [Worker -> Nat \cup {Nothing}] BY DEF Done, RefreshTypeOK
  <2>2. seen' \in [Worker -> Memory] BY BlankIsMemory DEF Done, RefreshTypeOK
  <2>3. DOMAIN pc' = Actor /\ DOMAIN out' = Actor BY DEF Done, RefreshTypeOK
  <2> QED BY <2>1, <2>2, <2>3 DEF RefreshTypeOK, Rows, YearRows
<1>3. ASSUME NEW q \in Worker
      PROVE  /\ q = p => base'[q] = Nothing /\ seen'[q] = Blank /\ pc'[q] = "done"
             /\ q # p => base'[q] = base[q] /\ seen'[q] = seen[q] /\ pc'[q] = pc[q]
  BY <1>1 DEF Done, RefreshTypeOK, Actor
<1>4. Fresh' BY <1>3, NothingIsNew DEF Fresh, RefreshTypeOK
<1>5. ReadBefore' BY <1>3 DEF ReadBefore, At
<1>6. RollupsTellTruth' /\ HomepageTellsTruth'
  BY DEF RollupsTellTruth, SeasonsTellTruth, CareersTellTruth, Sources, HomepageTellsTruth
<1> QED BY <1>2, <1>4, <1>5, <1>6

\* A worker that reads: its memory is fresh by itself, the league is as it was.
LEMMA ReadingKeeps ==
  ASSUME NEW p \in Worker, NEW s, RInv, UNCHANGED league, Go(p, s),
         base' \in [Worker -> Nat \cup {Nothing}], seen' \in [Worker -> Memory],
         \A q \in Worker \ {p} : base'[q] = base[q] /\ seen'[q] = seen[q],
         base'[p] # Nothing => base'[p] <= gen,
         base'[p] = gen =>
           /\ \A t \in Table : seen'[p].rows[t] # Nothing => seen'[p].rows[t] = rows[t]
           /\ seen'[p].home # Nothing => seen'[p].home = rows,
         s \in {"check", "home", "merge"} =>
           /\ p \in Weekly \cup Draft => \A t \in Table : seen'[p].rows[t] # Nothing
           /\ p \in Ranks => seen'[p].rows["games"] # Nothing,
         s = "merge" /\ p \in Weekly => seen'[p].home # Nothing,
         s # "start",
         s = "witness" => p \in Gap /\ seen'[p] = Blank,
         s = "settings" => p \in Quick \cup Full
  PROVE  RInv'
<1> USE DEF league, derived, RInv
<1>1. p \in Actor BY DEF Actor
<1>2. RefreshTypeOK'
  <2>1. DOMAIN pc' = Actor /\ DOMAIN out' = Actor BY DEF Go, RefreshTypeOK
  <2> QED BY <2>1 DEF RefreshTypeOK, Rows, YearRows
<1>3. ASSUME NEW q \in Worker
      PROVE  /\ q = p => pc'[q] = s
             /\ q # p => base'[q] = base[q] /\ seen'[q] = seen[q] /\ pc'[q] = pc[q]
  BY <1>1 DEF Go, RefreshTypeOK, Actor
<1>4. Fresh' BY <1>3 DEF Fresh
<1>5. ReadBefore'
  <2> SUFFICES ASSUME NEW q \in Worker
      PROVE  /\ At(q, "start")' \/ At(q, "witness")' => seen'[q] = Blank
             /\ At(q, "witness")' => q \in Gap
             /\ At(q, "settings")' => q \in Quick \cup Full
             /\ At(q, "check")' \/ At(q, "home")' \/ At(q, "merge")' =>
                  /\ q \in Weekly \cup Draft => \A t \in Table : seen'[q].rows[t] # Nothing
                  /\ q \in Ranks => seen'[q].rows["games"] # Nothing
             /\ At(q, "merge")' /\ q \in Weekly => seen'[q].home # Nothing
    BY DEF ReadBefore
  <2>1. CASE q = p BY <2>1, <1>3 DEF At
  <2>2. CASE q # p BY <2>2, <1>3 DEF At, ReadBefore
  <2> QED BY <2>1, <2>2
<1>6. RollupsTellTruth' /\ HomepageTellsTruth'
  BY DEF RollupsTellTruth, SeasonsTellTruth, CareersTellTruth, Sources, HomepageTellsTruth
<1> QED BY <1>2, <1>4, <1>5, <1>6

\* A commit: the generation moves past everything the others have captured, so
\* that what they have read need not be fresh any more.
LEMMA CommitKeeps ==
  ASSUME NEW p \in Worker, NEW s \in {"done", "verify"}, RInv,
         gen' = gen + 1,
         pc' = [pc EXCEPT ![p] = s], DOMAIN out' = DOMAIN out,
         base' = [base EXCEPT ![p] = Nothing], seen' = [seen EXCEPT ![p] = Blank],
         rows' \in Rows, career' \in Rows, home' \in Rows,
         season' \in [Year -> [Table -> SUBSET Worker]],
         keys' \in [Year -> {"all", "short", "surplus"}],
         ranks' \in YearRows \cup {Nothing}, saved' \in Editor \cup {Nothing},
         RollupsTellTruth', HomepageTellsTruth'
  PROVE  RInv'
<1> USE DEF RInv
<1>1. p \in Actor BY DEF Actor
<1>2. RefreshTypeOK'
  <2>1. base' \in [Worker -> Nat \cup {Nothing}] BY DEF RefreshTypeOK
  <2>2. seen' \in [Worker -> Memory] BY BlankIsMemory DEF RefreshTypeOK
  <2>3. DOMAIN pc' = Actor /\ DOMAIN out' = Actor BY DEF RefreshTypeOK
  <2>4. gen' \in Nat BY DEF RefreshTypeOK
  <2> QED BY <2>1, <2>2, <2>3, <2>4 DEF RefreshTypeOK, Rows, YearRows
<1>3. ASSUME NEW q \in Worker
      PROVE  /\ q = p => base'[q] = Nothing /\ seen'[q] = Blank /\ pc'[q] = s
             /\ q # p => base'[q] = base[q] /\ seen'[q] = seen[q] /\ pc'[q] = pc[q]
  BY <1>1 DEF RefreshTypeOK, Actor
<1>4. Fresh'
  <2> SUFFICES ASSUME NEW q \in Worker
      PROVE  /\ base'[q] # Nothing => base'[q] <= gen'
             /\ base'[q] # gen'
    BY DEF Fresh
  <2>1. gen \in Nat /\ (base[q] = Nothing \/ base[q] \in Nat)
    BY DEF RefreshTypeOK
  <2>2. base[q] # Nothing => base[q] <= gen BY DEF Fresh
  <2>3. gen' # Nothing BY <2>1, NothingIsNew
  <2>4. base'[q] = Nothing \/ base'[q] = base[q] BY <1>3
  <2> QED BY <2>1, <2>2, <2>3, <2>4
<1>5. ReadBefore' BY <1>3 DEF ReadBefore, At
<1> QED BY <1>2, <1>4, <1>5

-----------------------------------------------------------------------------
(* What a bundle that is admitted builds upon.                              *)

LEMMA AdmittedIsFresh ==
  ASSUME RInv, NEW p \in Worker, At(p, "merge"), p \notin Unfenced, Fenced(p)
  PROVE  /\ p \in Weekly \cup Draft => \A t \in Table : seen[p].rows[t] = rows[t]
         /\ p \in Ranks => seen[p].rows["games"] = rows["games"]
         /\ p \in Weekly => seen[p].home = rows
<1> USE DEF RInv
<1>1. base[p] = gen BY DEF Fenced
<1>2. \A t \in Table : seen[p].rows[t] # Nothing => seen[p].rows[t] = rows[t]
  BY <1>1 DEF Fresh
<1>3. seen[p].home # Nothing => seen[p].home = rows BY <1>1 DEF Fresh
<1> QED BY <1>2, <1>3, TableFacts DEF ReadBefore

LEMMA OnlyFullIsUnfenced ==
  \A p \in Weekly \cup Quick \cup Draft \cup Ranks \cup Gap :
    p \in Worker /\ p \notin Unfenced /\ p \notin Full
BY RefreshAssumption DEF Worker

\* The rollups of some years are rebuilt and the rows of no other year change.
LEMMA RebuiltIsTrue ==
  ASSUME RInv, rows' \in Rows, NEW years, RebuildSeasons(years), RebuildCareers,
         \A y \in Year \ years : \A t \in Table : rows'[t][y] = rows[t][y]
  PROVE  /\ RollupsTellTruth' /\ career' \in Rows
         /\ season' \in [Year -> [Table -> SUBSET Worker]]
         /\ keys' \in [Year -> {"all", "short", "surplus"}]
<1> USE DEF RInv, RebuildSeasons, RebuildCareers
<1>1. \A y \in Year : Sources(rows', y) \in [Table -> SUBSET Worker]
  BY DEF Sources, Rows
<1>2. \A y \in Year : season[y] = Sources(rows, y)
  BY DEF RollupsTellTruth, SeasonsTellTruth
<1>3. \A y \in Year \ years : Sources(rows', y) = Sources(rows, y) BY DEF Sources
<1>4. \A y \in Year : season'[y] = Sources(rows', y) BY <1>2, <1>3
<1>5. SeasonsTellTruth' BY <1>4 DEF SeasonsTellTruth, Sources
<1>6. season' \in [Year -> [Table -> SUBSET Worker]] BY <1>1, <1>2, <1>3
<1>7. keys' \in [Year -> {"all", "short", "surplus"}] BY DEF RefreshTypeOK
<1> QED BY <1>5, <1>6, <1>7 DEF RollupsTellTruth, CareersTellTruth

LEMMA OverlayFacts ==
  ASSUME NEW r \in Rows, NEW g \in SUBSET Worker, NEW d \in SUBSET Worker
  PROVE  /\ Overlay(r, g, d) \in Rows
         /\ Overlay(r, g, d)["games"] = [r["games"] EXCEPT ![Active] = g]
         /\ Overlay(r, g, d)["draft"] = [r["draft"] EXCEPT ![Active] = d]
BY RefreshAssumption, TableFacts DEF Overlay, Rows

-----------------------------------------------------------------------------
(* The merges.                                                              *)

LEMMA WeekKeeps ==
  ASSUME NEW p \in Worker, RInv, MergeWeek(p) PROVE RInv'
<1> USE DEF RInv
<1>1. p \in Weekly /\ p \notin Unfenced BY OnlyFullIsUnfenced DEF MergeWeek
<1>2. /\ \A t \in Table : seen[p].rows[t] = rows[t]
      /\ seen[p].home = rows
  BY <1>1, AdmittedIsFresh DEF MergeWeek, Admitted
<1> DEFINE games == rows["games"][Active] \cup {p}
<1>3. PICK picks \in {rows["draft"][Active], {p}}, repair \in {{}, ServerGaps({Active})} :
        /\ rows' = Overlay(rows, games, picks)
        /\ RebuildSeasons({Active} \cup repair)
        /\ home' = Overlay(rows, games, picks)
  BY <1>2, TableFacts DEF MergeWeek
<1>4. rows \in Rows BY DEF RefreshTypeOK
<1>5. games \in SUBSET Worker /\ picks \in SUBSET Worker
  BY <1>4, TableFacts, RefreshAssumption DEF Rows
<1> HIDE DEF games
<1>6. /\ rows' \in Rows /\ home' = rows'
      /\ rows'["games"] = [rows["games"] EXCEPT ![Active] = games]
      /\ rows'["draft"] = [rows["draft"] EXCEPT ![Active] = picks]
  <2>1. /\ Overlay(rows, games, picks) \in Rows
        /\ Overlay(rows, games, picks)["games"] = [rows["games"] EXCEPT ![Active] = games]
        /\ Overlay(rows, games, picks)["draft"] = [rows["draft"] EXCEPT ![Active] = picks]
    BY <1>4, <1>5, OverlayFacts
  <2>2. rows' = Overlay(rows, games, picks) /\ home' = Overlay(rows, games, picks)
    BY <1>3
  <2> QED BY <2>1, <2>2
<1>7. \A y \in Year \ ({Active} \cup repair) : \A t \in Table : rows'[t][y] = rows[t][y]
  BY <1>6, <1>4, TableFacts DEF Rows
<1>8. RebuildCareers /\ ranks' = home'["games"] /\ Committed(p) /\ saved' = saved
  BY DEF MergeWeek
<1>9. /\ RollupsTellTruth' /\ career' \in Rows
      /\ season' \in [Year -> [Table -> SUBSET Worker]]
      /\ keys' \in [Year -> {"all", "short", "surplus"}]
  BY <1>3, <1>6, <1>7, <1>8, RebuiltIsTrue
<1>10. ranks' \in YearRows /\ HomepageTellsTruth'
  BY <1>6, <1>8, TableFacts DEF Rows, YearRows, HomepageTellsTruth
<1>11. saved' \in Editor \cup {Nothing} BY <1>8 DEF RefreshTypeOK
<1>12. home' \in Rows BY <1>6
<1>13. /\ gen' = gen + 1 /\ pc' = [pc EXCEPT ![p] = "done"] /\ DOMAIN out' = DOMAIN out
       /\ base' = [base EXCEPT ![p] = Nothing] /\ seen' = [seen EXCEPT ![p] = Blank]
  BY <1>8 DEF Committed, Done
<1> QED BY <1>6, <1>9, <1>10, <1>11, <1>12, <1>13, CommitKeeps

\* An import of some years whose homepage is derived from the merged rows.
LEMMA ImportKeeps ==
  ASSUME NEW p \in Worker, RInv, Committed(p), NEW years, rows' \in Rows,
         RebuildSeasons(years), RebuildCareers, RebuildHomepage,
         saved' \in Editor \cup {Nothing},
         \A y \in Year \ years : \A t \in Table : rows'[t][y] = rows[t][y]
  PROVE  RInv'
<1> USE DEF RInv
<1>1. /\ RollupsTellTruth' /\ career' \in Rows
      /\ season' \in [Year -> [Table -> SUBSET Worker]]
      /\ keys' \in [Year -> {"all", "short", "surplus"}]
  BY RebuiltIsTrue
<1>2. ranks' \in YearRows /\ home' \in Rows /\ HomepageTellsTruth'
  BY TableFacts DEF RebuildHomepage, Rows, YearRows, HomepageTellsTruth
<1>3. /\ gen' = gen + 1 /\ pc' = [pc EXCEPT ![p] = "done"] /\ DOMAIN out' = DOMAIN out
      /\ base' = [base EXCEPT ![p] = Nothing] /\ seen' = [seen EXCEPT ![p] = Blank]
  BY DEF Committed, Done
<1> QED BY <1>1, <1>2, <1>3, CommitKeeps

LEMMA QuickKeeps ==
  ASSUME NEW p \in Worker, RInv, MergeQuick(p) PROVE RInv'
<1>1. rows' \in Rows
  BY DEF MergeQuick, RInv, RefreshTypeOK, Rows
<1>2. \A y \in Year \ (QuickYears \cup ServerGaps(QuickYears)) :
        \A t \in Table : rows'[t][y] = rows[t][y]
  BY DEF MergeQuick
<1>3. saved' \in Editor \cup {Nothing} BY DEF MergeQuick, RInv, RefreshTypeOK
<1> QED BY <1>1, <1>2, <1>3, ImportKeeps DEF MergeQuick

LEMMA FullKeeps ==
  ASSUME NEW p \in Worker, RInv, MergeFull(p) PROVE RInv'
<1>1. rows' \in Rows BY DEF MergeFull, Rows
<1>2. saved' \in Editor \cup {Nothing} BY DEF MergeFull, RInv, RefreshTypeOK, Memory
<1> QED BY <1>1, <1>2, ImportKeeps DEF MergeFull

LEMMA DraftKeeps ==
  ASSUME NEW p \in Worker, RInv, MergeDraft(p) PROVE RInv'
<1> USE DEF RInv
<1>1. p \in Draft /\ p \notin Unfenced BY OnlyFullIsUnfenced DEF MergeDraft
<1>2. \A t \in Table : seen[p].rows[t] = rows[t]
  BY <1>1, AdmittedIsFresh DEF MergeDraft, Admitted
<1>3. rows \in Rows /\ DraftYear \in Year BY RefreshAssumption DEF RefreshTypeOK
<1>4. /\ rows' = [rows EXCEPT !["draft"][DraftYear] = {p}]
      /\ season' = [season EXCEPT ![DraftYear] =
           [t \in Table |-> IF t = "draft" THEN {p} ELSE rows[t][DraftYear]]]
      /\ career' = [career EXCEPT !["draft"] = [rows["draft"] EXCEPT ![DraftYear] = {p}]]
      /\ keys' = keys /\ home' = home /\ ranks' = ranks /\ saved' = saved
  BY <1>2, TableFacts DEF MergeDraft, Replace
<1>5. /\ rows' \in Rows /\ rows'["games"] = rows["games"]
      /\ rows'["draft"] = [rows["draft"] EXCEPT ![DraftYear] = {p}]
  BY <1>3, <1>4, TableFacts DEF Rows
<1>6. career = rows /\ \A y \in Year : season[y] = Sources(rows, y)
  BY DEF RollupsTellTruth, SeasonsTellTruth, CareersTellTruth
<1>7. career' = rows' BY <1>3, <1>4, <1>6, TableFacts DEF Rows
<1>8. \A y \in Year : season'[y] = [t \in Table |-> rows'[t][y]]
  <2> SUFFICES ASSUME NEW y \in Year PROVE season'[y] = [t \in Table |-> rows'[t][y]]
    OBVIOUS
  <2>1. season \in [Year -> [Table -> SUBSET Worker]] BY DEF RefreshTypeOK
  <2>2. CASE y = DraftYear
    <3>1. season'[y] = [t \in Table |-> IF t = "draft" THEN {p} ELSE rows[t][DraftYear]]
      BY <1>4, <2>1, <2>2
    <3>2. \A t \in Table : rows'[t][y] = IF t = "draft" THEN {p} ELSE rows[t][DraftYear]
      BY <1>3, <1>5, <2>2, TableFacts DEF Rows
    <3> QED BY <3>1, <3>2
  <2>3. CASE y # DraftYear
    <3>1. season'[y] = [t \in Table |-> rows[t][y]]
      BY <1>4, <1>6, <2>1, <2>3 DEF Sources
    <3>2. \A t \in Table : rows'[t][y] = rows[t][y]
      BY <1>3, <1>5, <2>3, TableFacts DEF Rows
    <3> QED BY <3>1, <3>2
  <2> QED BY <2>2, <2>3
<1>9. season' \in [Year -> [Table -> SUBSET Worker]]
  <2>1. [t \in Table |-> IF t = "draft" THEN {p} ELSE rows[t][DraftYear]]
          \in [Table -> SUBSET Worker]
    BY <1>3 DEF Rows
  <2> QED BY <1>4, <2>1 DEF RefreshTypeOK
<1>10. RollupsTellTruth'
  BY <1>7, <1>8 DEF RollupsTellTruth, SeasonsTellTruth, CareersTellTruth, Sources
<1>11. HomepageTellsTruth' BY <1>4, <1>5 DEF HomepageTellsTruth
<1>12. /\ career' \in Rows /\ home' \in Rows /\ keys' \in [Year -> {"all", "short", "surplus"}]
       /\ ranks' \in YearRows \cup {Nothing} /\ saved' \in Editor \cup {Nothing}
  BY <1>4, <1>5, <1>7 DEF RefreshTypeOK
<1>13. /\ gen' = gen + 1 /\ pc' = [pc EXCEPT ![p] = "done"] /\ DOMAIN out' = DOMAIN out
       /\ base' = [base EXCEPT ![p] = Nothing] /\ seen' = [seen EXCEPT ![p] = Blank]
  BY DEF MergeDraft, Committed, Done
<1> QED BY <1>5, <1>9, <1>10, <1>11, <1>12, <1>13, CommitKeeps

LEMMA RanksKeeps ==
  ASSUME NEW p \in Worker, RInv, MergeRanks(p) PROVE RInv'
<1> USE DEF RInv
<1>1. p \in Ranks /\ p \notin Unfenced BY OnlyFullIsUnfenced DEF MergeRanks
<1>2. ranks' = rows["games"] BY <1>1, AdmittedIsFresh DEF MergeRanks, Admitted
<1>3. /\ rows' = rows /\ season' = season /\ keys' = keys /\ career' = career
      /\ home' = home /\ saved' = saved
  BY DEF MergeRanks
<1>4. RollupsTellTruth'
  BY <1>3 DEF RollupsTellTruth, SeasonsTellTruth, CareersTellTruth, Sources
<1>5. HomepageTellsTruth' BY <1>2, <1>3 DEF HomepageTellsTruth
<1>6. ranks' \in YearRows \cup {Nothing}
  BY <1>2, TableFacts DEF RefreshTypeOK, Rows, YearRows
<1>7. /\ gen' = gen + 1 /\ pc' = [pc EXCEPT ![p] = "done"] /\ DOMAIN out' = DOMAIN out
      /\ base' = [base EXCEPT ![p] = Nothing] /\ seen' = [seen EXCEPT ![p] = Blank]
  BY DEF MergeRanks, Committed, Done
<1> QED BY <1>3, <1>4, <1>5, <1>6, <1>7, CommitKeeps DEF RefreshTypeOK

LEMMA WitnessKeeps ==
  ASSUME NEW p \in Worker, RInv, MergeWitness(p) PROVE RInv'
<1> USE DEF RInv
<1>1. /\ rows' = rows /\ home' = home /\ ranks' = ranks /\ saved' = seen[p].saved
      /\ RebuildSeasons(ServerGaps({Active})) /\ RebuildCareers
  BY DEF MergeWitness
<1>2. rows' \in Rows BY <1>1 DEF RefreshTypeOK
<1>3. /\ RollupsTellTruth' /\ career' \in Rows
      /\ season' \in [Year -> [Table -> SUBSET Worker]]
      /\ keys' \in [Year -> {"all", "short", "surplus"}]
  BY <1>1, <1>2, RebuiltIsTrue
<1>4. HomepageTellsTruth' BY <1>1 DEF HomepageTellsTruth
<1>5. /\ saved' \in Editor \cup {Nothing} /\ home' \in Rows
      /\ ranks' \in YearRows \cup {Nothing}
  BY <1>1 DEF RefreshTypeOK, Memory
<1>6. /\ gen' = gen + 1 /\ pc' = [pc EXCEPT ![p] = "verify"] /\ DOMAIN out' = DOMAIN out
      /\ base' = [base EXCEPT ![p] = Nothing] /\ seen' = [seen EXCEPT ![p] = Blank]
  BY DEF MergeWitness, Go
<1> QED BY <1>2, <1>3, <1>4, <1>5, <1>6, CommitKeeps

-----------------------------------------------------------------------------
(* The readings.                                                            *)

LEMMA OneKindOnly ==
  ASSUME NEW p \in Worker
  PROVE  /\ p \in Weekly => p \notin Quick \cup Draft \cup Ranks \cup Gap \cup Full
         /\ p \in Quick => p \notin Draft \cup Ranks \cup Gap \cup Full
         /\ p \in Draft => p \notin Ranks \cup Gap \cup Full
         /\ p \in Ranks => p \notin Gap \cup Full
         /\ p \in Gap => p \notin Full
         /\ p \notin Editor
BY RefreshAssumption DEF Worker

\* What the readings need of the types.
LEMMA MemoryFacts ==
  ASSUME RInv
  PROVE  /\ gen \in Nat /\ rows \in Rows /\ saved \in Editor \cup {Nothing}
         /\ base \in [Worker -> Nat \cup {Nothing}] /\ seen \in [Worker -> Memory]
         /\ \A t \in Table : rows[t] \in YearRows /\ rows[t] # Nothing
         /\ rows # Nothing
BY NothingIsNew DEF RInv, RefreshTypeOK, Rows, YearRows

LEMMA CaptureKeeps ==
  ASSUME NEW p \in Worker, RInv, Capture(p) PROVE RInv'
<1>1. UNCHANGED league BY DEF Capture
<1>2. CASE p \in Ranks /\ ranks # Nothing
  BY <1>1, <1>2, DoneKeeps DEF Capture
<1>3. CASE ~(p \in Ranks /\ ranks # Nothing)
  <2> DEFINE s == IF p \in Quick \cup Full THEN "settings" ELSE "read"
  <2>1. /\ base' = [base EXCEPT ![p] = IF p \in Unfenced THEN Nothing ELSE gen]
        /\ seen' = seen /\ Go(p, s)
    BY <1>3 DEF Capture
  <2>2. seen'[p] = Blank BY <2>1 DEF Capture, RInv, ReadBefore
  <2>3. base' \in [Worker -> Nat \cup {Nothing}] /\ seen' \in [Worker -> Memory]
    BY <2>1, MemoryFacts
  <2>4. base'[p] # Nothing => base'[p] <= gen BY <2>1, MemoryFacts
  <2>5. \A q \in Worker \ {p} : base'[q] = base[q] /\ seen'[q] = seen[q]
    BY <2>1, MemoryFacts
  <2>6. s \notin {"check", "home", "merge", "start", "witness"} OBVIOUS
  <2>7. s = "settings" => p \in Quick \cup Full OBVIOUS
  <2> HIDE DEF s
  <2> QED BY <1>1, <2>1, <2>2, <2>3, <2>4, <2>5, <2>6, <2>7, BlankIsMemory, ReadingKeeps
<1> QED BY <1>2, <1>3

LEMMA SettingsKeeps ==
  ASSUME NEW p \in Worker, RInv, ReadSettings(p) PROVE RInv'
<1>1. PICK v \in {saved, Nothing} : seen' = [seen EXCEPT ![p].saved = v]
  BY DEF ReadSettings
<1>2. UNCHANGED league /\ base' = base /\ Go(p, "merge") BY DEF ReadSettings
<1>3. seen' \in [Worker -> Memory] BY <1>1, MemoryFacts DEF Memory
<1>4. seen'[p].rows = seen[p].rows /\ seen'[p].home = seen[p].home
  BY <1>1, MemoryFacts DEF Memory
<1>5. \A q \in Worker \ {p} : base'[q] = base[q] /\ seen'[q] = seen[q]
  BY <1>1, <1>2, MemoryFacts
<1>6. p \in Quick \cup Full BY DEF ReadSettings, RInv, ReadBefore
<1>7. p \notin Weekly /\ p \notin Draft /\ p \notin Ranks BY <1>6, OneKindOnly
<1>8. /\ base'[p] # Nothing => base'[p] <= gen
      /\ base'[p] = gen =>
           /\ \A t \in Table : seen'[p].rows[t] # Nothing => seen'[p].rows[t] = rows[t]
           /\ seen'[p].home # Nothing => seen'[p].home = rows
  BY <1>2, <1>4 DEF RInv, Fresh
<1> QED BY <1>2, <1>3, <1>5, <1>7, <1>8, MemoryFacts, ReadingKeeps

LEMMA TableKeeps ==
  ASSUME NEW p \in Worker, NEW t \in Table, RInv, ReadTable(p, t) PROVE RInv'
<1>1. seen' = [seen EXCEPT ![p].rows[t] = rows[t]] /\ UNCHANGED league /\ base' = base
  BY DEF ReadTable, AfterRead
<1>2. PICK s \in {"read", "check", "merge"} :
        /\ Go(p, s)
        /\ s # "read" => AllRead(p)
        /\ s = "merge" => p \in Draft
  BY DEF ReadTable, AfterRead
<1>3. seen[p] \in Memory /\ rows[t] \in YearRows BY MemoryFacts
<1>4. /\ seen'[p] \in Memory
      /\ seen'[p].home = seen[p].home
      /\ seen'[p].rows = [seen[p].rows EXCEPT ![t] = rows[t]]
  BY <1>1, <1>3, MemoryFacts DEF Memory
<1>5. seen' \in [Worker -> Memory] BY <1>1, <1>4, MemoryFacts
<1>6. \A q \in Worker \ {p} : base'[q] = base[q] /\ seen'[q] = seen[q]
  BY <1>1, MemoryFacts
<1>7. /\ base'[p] # Nothing => base'[p] <= gen
      /\ base'[p] = gen =>
           /\ \A u \in Table : seen'[p].rows[u] # Nothing => seen'[p].rows[u] = rows[u]
           /\ seen'[p].home # Nothing => seen'[p].home = rows
  <2>1. \A u \in Table : seen'[p].rows[u] = IF u = t THEN rows[t] ELSE seen[p].rows[u]
    BY <1>3, <1>4 DEF Memory
  <2> QED BY <1>1, <1>4, <2>1 DEF RInv, Fresh
<1>8. s \in {"check", "home", "merge"} =>
        /\ p \in Weekly \cup Draft => \A u \in Table : seen'[p].rows[u] # Nothing
        /\ p \in Ranks => seen'[p].rows["games"] # Nothing
  BY <1>2, OneKindOnly DEF AllRead
<1>9. ~(s = "merge" /\ p \in Weekly) BY <1>2, OneKindOnly
<1> QED BY <1>1, <1>2, <1>5, <1>6, <1>7, <1>8, <1>9, MemoryFacts, ReadingKeeps

LEMMA RecheckKeeps ==
  ASSUME NEW p \in Worker, RInv, Recheck(p) PROVE RInv'
<1>1. UNCHANGED league BY DEF Recheck
<1>2. CASE \E o \in {"idle", "changed"} : Done(p, o) BY <1>1, <1>2, DoneKeeps
<1>3. CASE ~ \E o \in {"idle", "changed"} : Done(p, o)
  <2> DEFINE s == IF p \in Weekly THEN "home" ELSE "merge"
  <2>1. Go(p, s) /\ base' = base /\ seen' = seen BY <1>3 DEF Recheck
  <2>2. /\ p \in Weekly \cup Draft => \A u \in Table : seen[p].rows[u] # Nothing
        /\ p \in Ranks => seen[p].rows["games"] # Nothing
    BY DEF Recheck, RInv, ReadBefore
  <2>3. ~(s = "merge" /\ p \in Weekly) /\ s \notin {"start", "witness", "settings"} OBVIOUS
  <2>4. /\ base'[p] # Nothing => base'[p] <= gen
        /\ base'[p] = gen =>
             /\ \A u \in Table : seen'[p].rows[u] # Nothing => seen'[p].rows[u] = rows[u]
             /\ seen'[p].home # Nothing => seen'[p].home = rows
    BY <2>1 DEF RInv, Fresh
  <2> HIDE DEF s
  <2> QED BY <1>1, <2>1, <2>2, <2>3, <2>4, MemoryFacts, ReadingKeeps
<1> QED BY <1>2, <1>3

LEMMA HomeKeeps ==
  ASSUME NEW p \in Worker, RInv, ReadHome(p) PROVE RInv'
<1>1. /\ seen' = [seen EXCEPT ![p].home = rows] /\ base' = base
      /\ UNCHANGED league /\ Go(p, "merge")
  BY DEF ReadHome
<1>2. seen'[p].rows = seen[p].rows /\ seen'[p].home = rows
  BY <1>1, MemoryFacts DEF Memory
<1>3. seen' \in [Worker -> Memory] BY <1>1, MemoryFacts DEF Memory
<1>4. \A q \in Worker \ {p} : base'[q] = base[q] /\ seen'[q] = seen[q]
  BY <1>1, MemoryFacts
<1>5. /\ p \in Weekly \cup Draft => \A u \in Table : seen'[p].rows[u] # Nothing
      /\ p \in Ranks => seen'[p].rows["games"] # Nothing
  BY <1>2 DEF ReadHome, RInv, ReadBefore
<1>6. /\ base'[p] # Nothing => base'[p] <= gen
      /\ base'[p] = gen =>
           /\ \A u \in Table : seen'[p].rows[u] # Nothing => seen'[p].rows[u] = rows[u]
           /\ seen'[p].home # Nothing => seen'[p].home = rows
  BY <1>1, <1>2 DEF RInv, Fresh
<1> QED BY <1>1, <1>2, <1>3, <1>4, <1>5, <1>6, MemoryFacts, ReadingKeeps

LEMMA FindKeeps ==
  ASSUME NEW p \in Worker, RInv, FindGaps(p) PROVE RInv'
<1>1. UNCHANGED league BY DEF FindGaps
<1>2. CASE PlannerGaps = {} BY <1>1, <1>2, DoneKeeps DEF FindGaps
<1>3. CASE PlannerGaps # {}
  <2>1. Go(p, "witness") /\ base' = base /\ seen' = seen /\ p \in Gap
    BY <1>3 DEF FindGaps
  <2>2. seen'[p] = Blank BY <2>1 DEF FindGaps, RInv, ReadBefore
  <2>3. base'[p] # Nothing => base'[p] <= gen BY <2>1 DEF RInv, Fresh
  <2> QED BY <1>1, <2>1, <2>2, <2>3, MemoryFacts, BlankIsMemory, ReadingKeeps
<1> QED BY <1>2, <1>3

LEMMA ReadWitnessKeeps ==
  ASSUME NEW p \in Worker, RInv, ReadWitness(p) PROVE RInv'
<1>1. /\ seen' = [seen EXCEPT ![p].saved = saved] /\ base' = [base EXCEPT ![p] = gen]
      /\ UNCHANGED league /\ Go(p, "merge")
  BY DEF ReadWitness
<1>2. seen[p] = Blank /\ p \in Gap BY DEF ReadWitness, RInv, ReadBefore
<1>3. (\A u \in Table : seen'[p].rows[u] = Nothing) /\ seen'[p].home = Nothing
  BY <1>1, <1>2, MemoryFacts, BlankIsMemory DEF Memory
<1>4. seen' \in [Worker -> Memory] BY <1>1, MemoryFacts DEF Memory
<1>5. /\ base' \in [Worker -> Nat \cup {Nothing}] /\ base'[p] = gen
      /\ \A q \in Worker \ {p} : base'[q] = base[q] /\ seen'[q] = seen[q]
  BY <1>1, MemoryFacts
<1>6. p \notin Weekly /\ p \notin Draft /\ p \notin Ranks BY <1>2, OneKindOnly
<1> QED BY <1>1, <1>3, <1>4, <1>5, <1>6, MemoryFacts, ReadingKeeps

LEMMA SaveKeeps ==
  ASSUME NEW e \in Editor, RInv, Save(e) PROVE RInv'
<1> USE DEF RInv
<1>1. /\ saved' = e /\ gen' = gen /\ rows' = rows /\ season' = season /\ keys' = keys
      /\ career' = career /\ home' = home /\ ranks' = ranks /\ base' = base
      /\ seen' = seen /\ pc' = [pc EXCEPT ![e] = "done"] /\ DOMAIN out' = DOMAIN out
  BY DEF Save, derived
<1>2. RefreshTypeOK' BY <1>1 DEF RefreshTypeOK, Rows, YearRows
<1>3. \A q \in Worker : pc'[q] = pc[q] BY <1>1, OneKindOnly DEF RefreshTypeOK, Actor
<1>4. Fresh' BY <1>1 DEF Fresh
<1>5. ReadBefore' BY <1>1, <1>3 DEF ReadBefore, At
<1>6. RollupsTellTruth' /\ HomepageTellsTruth'
  BY <1>1 DEF RollupsTellTruth, SeasonsTellTruth, CareersTellTruth, Sources,
              HomepageTellsTruth
<1> QED BY <1>2, <1>4, <1>5, <1>6

LEMMA StillKeeps == RInv /\ UNCHANGED vars => RInv'
BY DEF vars, league, derived, mine, RInv, RefreshTypeOK, Rows, YearRows, Fresh, ReadBefore, At,
       RollupsTellTruth, SeasonsTellTruth, CareersTellTruth, Sources, HomepageTellsTruth

-----------------------------------------------------------------------------
LEMMA RefreshNext == RInv /\ [Next]_vars => RInv'
<1> SUFFICES ASSUME RInv, [Next]_vars PROVE RInv' OBVIOUS
<1>1. ASSUME NEW p \in Worker, Step(p) PROVE RInv'
  <2>1. CASE Capture(p) BY <2>1, CaptureKeeps
  <2>2. CASE ReadSettings(p) BY <2>2, SettingsKeeps
  <2>3. CASE \E t \in Table : ReadTable(p, t) BY <2>3, TableKeeps
  <2>4. CASE Recheck(p) BY <2>4, RecheckKeeps
  <2>5. CASE ReadHome(p) BY <2>5, HomeKeeps
  <2>6. CASE FindGaps(p) BY <2>6, FindKeeps
  <2>7. CASE ReadWitness(p) BY <2>7, ReadWitnessKeeps
  <2>8. CASE MergeWeek(p) BY <2>8, WeekKeeps
  <2>9. CASE MergeQuick(p) BY <2>9, QuickKeeps
  <2>10. CASE MergeDraft(p) BY <2>10, DraftKeeps
  <2>11. CASE MergeRanks(p) BY <2>11, RanksKeeps
  <2>12. CASE MergeWitness(p) BY <2>12, WitnessKeeps
  <2>13. CASE VerifyGaps(p) BY <2>13, DoneKeeps DEF VerifyGaps
  <2>14. CASE MergeFull(p) BY <2>14, FullKeeps
  <2>15. CASE Refuse(p)
    <3>1. PICK o : Done(p, o) /\ UNCHANGED league BY <2>15 DEF Refuse
    <3> QED BY <3>1, DoneKeeps
  <2> QED BY <1>1, <2>1, <2>2, <2>3, <2>4, <2>5, <2>6, <2>7, <2>8, <2>9, <2>10,
             <2>11, <2>12, <2>13, <2>14, <2>15 DEF Step
<1>2. ASSUME NEW e \in Editor, Save(e) PROVE RInv' BY <1>2, SaveKeeps
<1>3. CASE UNCHANGED vars BY <1>3, StillKeeps
<1> QED BY <1>1, <1>2, <1>3 DEF Next, Quiet

LEMMA RefreshInvariant == Spec => []RInv
<1>1. RInv /\ [Next]_vars => RInv' BY RefreshNext
<1> QED BY <1>1, RefreshInit, PTL DEF Spec

\* A step that takes weeks away is an import of their year.
LEMMA StepKeepsWeeks ==
  ASSUME NEW p \in Worker, RInv, Step(p), NEW w \in rows["games"][Active],
         w \notin rows'["games"][Active]
  PROVE  \E q \in Quick \cup Full : q \in rows'["games"][Active] /\ Fenced(q)
<1>1. /\ rows \in Rows /\ Active \in Year /\ "games" \in Table
  BY MemoryFacts, RefreshAssumption, TableFacts
<1>2. rows' # rows BY DEF Rows
<1>3. CASE MergeWeek(p)
  <2>1. seen[p].rows["games"] = rows["games"]
    BY <1>3, <1>1, AdmittedIsFresh, OnlyFullIsUnfenced DEF MergeWeek, Admitted
  <2>2. PICK picks : rows' = Overlay(rows, seen[p].rows["games"][Active] \cup {p}, picks)
    BY <1>3 DEF MergeWeek
  <2>3. rows'["games"][Active] = rows["games"][Active] \cup {p}
    BY <2>1, <2>2, <1>1 DEF Overlay, Rows, Table
  <2> QED BY <2>3
<1>4. CASE MergeQuick(p)
  <2>1. rows'["games"][Active] = IF Active \in QuickYears THEN {p} ELSE rows["games"][Active]
    BY <1>4, <1>1 DEF MergeQuick
  <2> QED BY <2>1, <1>4 DEF MergeQuick, Admitted
<1>5. CASE MergeFull(p)
  <2>1. rows'["games"][Active] = {p} BY <1>5, <1>1 DEF MergeFull
  <2> QED BY <2>1, <1>5 DEF MergeFull, Admitted
<1>6. CASE MergeDraft(p)
  <2>1. rows'["games"] = rows["games"] BY <1>6, <1>1 DEF MergeDraft, Replace
  <2> QED BY <2>1
<1>7. CASE UNCHANGED rows BY <1>2, <1>7
<1>8. MergeWeek(p) \/ MergeQuick(p) \/ MergeFull(p) \/ MergeDraft(p) \/ UNCHANGED rows
  BY DEF Step, Capture, ReadSettings, ReadTable, Recheck, ReadHome, FindGaps, ReadWitness,
         MergeRanks, MergeWitness, VerifyGaps, Refuse, league
<1> QED BY <1>3, <1>4, <1>5, <1>6, <1>7, <1>8

-----------------------------------------------------------------------------
\* What a worker remembers, and what the league holds, is of its type: no
\* worker merges a reading it never made (RefreshTypeOK).
THEOREM RefreshTypeCorrect == Spec => []RefreshTypeOK
<1>1. RInv => RefreshTypeOK BY DEF RInv
<1> QED BY <1>1, RefreshInvariant, PTL

\* Season rollups, grades and careers always come from the rows beside them,
\* although three kinds of bundles bring some of them computed from an earlier
\* reading: the generation fence of apply_fleet_merge is enough.
THEOREM RollupsAreTrue == Spec => []RollupsTellTruth
<1>1. RInv => RollupsTellTruth BY DEF RInv
<1> QED BY <1>1, RefreshInvariant, PTL

\* So does the homepage with its manager rankings, although a weekly refresh
\* reads its sources after the last comparison of generations
\* (refresh_sleeper_active_season.py).
THEOREM HomepageIsTrue == Spec => []HomepageTellsTruth
<1>1. RInv => HomepageTellsTruth BY DEF RInv
<1> QED BY <1>1, RefreshInvariant, PTL

\* A published week leaves the season only with an import of that year that
\* read the generation after it, or captured none.
WeeksSurvive ==
  [][\A w \in rows["games"][Active] \ rows'["games"][Active] :
       \E p \in Quick \cup Full : p \in rows'["games"][Active] /\ Fenced(p)]_vars

\* No weekly refresh loses a week that another one published between its
\* reading and its merge; only an import of the whole year replaces it.
THEOREM WeeksAreKept == Spec => WeeksSurvive
<1> DEFINE Kept == \A w \in rows["games"][Active] \ rows'["games"][Active] :
                     \E p \in Quick \cup Full : p \in rows'["games"][Active] /\ Fenced(p)
<1>1. RInv /\ [Next]_vars => [Kept]_vars
  <2> SUFFICES ASSUME RInv, [Next]_vars, ~UNCHANGED vars PROVE Kept OBVIOUS
  <2>1. CASE \E p \in Worker : Step(p) BY <2>1, StepKeepsWeeks
  <2>2. CASE \E e \in Editor : Save(e) BY <2>2 DEF Save
  <2> QED BY <2>1, <2>2 DEF Next, Quiet
<1> QED BY <1>1, RefreshInvariant, PTL DEF Spec, WeeksSurvive

-----------------------------------------------------------------------------
(* The store that the workers implement together.                           *)

Publisher == Weekly \cup Quick \cup Draft \cup Full
Published == {p \in Publisher : out[p] = "ok"}

\* A worker has no outcome before it is done, and only repairs verify.
OutInv == \A p \in Worker : /\ pc[p] # "done" => out[p] = "none"
                            /\ pc[p] = "verify" => p \in Gap

LEMMA OutStep == ASSUME RInv, OutInv, [Next]_vars PROVE OutInv'
<1>0. DOMAIN pc = Actor /\ DOMAIN out = Actor /\ \A q \in Worker : q \in Actor
  BY DEF RInv, RefreshTypeOK, Actor
<1>1. ASSUME NEW p \in Actor, NEW s, pc[p] # "done", Go(p, s), s = "verify" => p \in Gap
      PROVE  OutInv'
  BY <1>0, <1>1 DEF Go, OutInv
<1>2. ASSUME NEW p \in Actor, NEW o,
             pc' = [pc EXCEPT ![p] = "done"] /\ out' = [out EXCEPT ![p] = o]
      PROVE  OutInv'
  BY <1>0, <1>2 DEF OutInv
<1>3. ASSUME NEW p \in Worker, Step(p)
      PROVE  \/ \E o : Done(p, o)
             \/ pc[p] # "done" /\ \E s : Go(p, s) /\ (s = "verify" => p \in Gap)
  <2> DEFINE Ends == \E o : Done(p, o)
             Goes == \/ \E s \in {"settings", "read", "check", "home", "merge", "witness"} : Go(p, s)
                     \/ p \in Gap /\ Go(p, "verify")
  <2>1. ASSUME Capture(p) PROVE pc[p] # "done" /\ (Goes \/ Ends)
    BY <2>1 DEF Capture, At
  <2>2. ASSUME ReadSettings(p) PROVE pc[p] # "done" /\ (Goes \/ Ends)
    BY <2>2 DEF ReadSettings, At
  <2>3. ASSUME \E t \in Table : ReadTable(p, t) PROVE pc[p] # "done" /\ (Goes \/ Ends)
    BY <2>3 DEF ReadTable, AfterRead, At
  <2>4. ASSUME Recheck(p) PROVE pc[p] # "done" /\ (Goes \/ Ends)
    BY <2>4 DEF Recheck, At
  <2>5. ASSUME ReadHome(p) PROVE pc[p] # "done" /\ (Goes \/ Ends)
    BY <2>5 DEF ReadHome, At
  <2>6. ASSUME FindGaps(p) PROVE pc[p] # "done" /\ (Goes \/ Ends)
    BY <2>6 DEF FindGaps, At
  <2>7. ASSUME ReadWitness(p) PROVE pc[p] # "done" /\ (Goes \/ Ends)
    BY <2>7 DEF ReadWitness, At
  <2>8. ASSUME MergeWitness(p) PROVE pc[p] # "done" /\ (Goes \/ Ends)
    BY <2>8 DEF MergeWitness, At
  <2>9. ASSUME Refuse(p) PROVE pc[p] # "done" /\ (Goes \/ Ends)
    BY <2>9 DEF Refuse, At
  <2>g. Goes => \E s : Go(p, s) /\ (s = "verify" => p \in Gap) OBVIOUS
  <2>10. CASE MergeWeek(p) \/ MergeQuick(p) \/ MergeDraft(p) \/ MergeRanks(p) \/ MergeFull(p)
    BY <2>10 DEF MergeWeek, MergeQuick, MergeDraft, MergeRanks, MergeFull, Committed
  <2>11. CASE VerifyGaps(p) BY <2>11 DEF VerifyGaps
  <2> QED BY <1>3, <2>g, <2>1, <2>2, <2>3, <2>4, <2>5, <2>6, <2>7, <2>8, <2>9, <2>10, <2>11 DEF Step
<1>4. CASE \E p \in Worker : Step(p) BY <1>0, <1>1, <1>2, <1>3, <1>4 DEF Done
<1>5. CASE \E e \in Editor : Save(e) BY <1>2, <1>5 DEF Save, Actor
<1>6. CASE UNCHANGED vars BY <1>6 DEF vars, mine, OutInv
<1> QED BY <1>4, <1>5, <1>6 DEF Next, Quiet

\* What is derived is a view of the rows.
LEMMA ViewsHold == RInv => Store!Views
<1> SUFFICES ASSUME RInv PROVE Store!Views OBVIOUS
<1>1. season = [y \in Year |-> [t \in Table |-> rows[t][y]]]
  BY DEF RInv, RefreshTypeOK, RollupsTellTruth, SeasonsTellTruth, Sources
<1>2. career = rows /\ home["games"] = rows["games"]
  BY DEF RInv, RollupsTellTruth, CareersTellTruth, HomepageTellsTruth
<1>3. ranks \in {rows["games"], Nothing} BY DEF RInv, HomepageTellsTruth
<1> QED BY <1>1, <1>2, <1>3 DEF Store!Views

\* A worker that ends without success, or that is no publisher, publishes nothing.
LEMMA EndPublishesNothing ==
  ASSUME RInv, OutInv, NEW p \in Worker, NEW o, pc[p] # "done", out' = [out EXCEPT ![p] = o],
         o = "ok" => p \notin Publisher
  PROVE  Published' = Published
<1>1. \A q \in Publisher : q \in Actor BY DEF Publisher, Actor, Worker
<1>2. p \in Actor /\ DOMAIN out = Actor BY DEF Actor, RInv, RefreshTypeOK
<1>3. out[p] = "none" BY DEF OutInv
<1>4. ASSUME NEW q \in Publisher PROVE out'[q] = "ok" <=> out[q] = "ok"
  BY <1>1, <1>2, <1>3
<1> QED BY <1>4 DEF Published

\* A publisher that commits is published then, and for the first time.
LEMMA CommitPublishes ==
  ASSUME RInv, OutInv, NEW p \in Publisher, At(p, "merge"), Committed(p)
  PROVE  p \notin Published /\ Published' = Published \cup {p}
<1>1. p \in Worker /\ \A q \in Publisher : q \in Actor BY DEF Publisher, Actor, Worker
<1>2. p \in Actor /\ DOMAIN out = Actor BY <1>1 DEF RInv, RefreshTypeOK
<1>3. out[p] = "none" BY <1>1 DEF OutInv, At
<1>4. out' = [out EXCEPT ![p] = "ok"] BY DEF Committed, Done
<1>5. ASSUME NEW q \in Publisher PROVE out'[q] = "ok" <=> out[q] = "ok" \/ q = p
  BY <1>1, <1>2, <1>4
<1> QED BY <1>3, <1>5 DEF Published

\* The rows a publication leaves: what it was built from is what is there.
LEMMA RowsPublished ==
  ASSUME RInv, NEW p \in Worker
  PROVE  /\ MergeWeek(p) => p \in Weekly /\ Store!Week(p)
         /\ MergeQuick(p) => p \in Quick /\ Store!Import(p, QuickYears)
         /\ MergeDraft(p) => p \in Draft /\ Store!Picks(p)
         /\ MergeFull(p) => p \in Full /\ Store!Import(p, Year)
<1>1. ASSUME MergeWeek(p) PROVE p \in Weekly /\ Store!Week(p)
  <2>1. p \in Weekly /\ \A t \in Table : seen[p].rows[t] = rows[t]
    BY <1>1, AdmittedIsFresh, OnlyFullIsUnfenced DEF MergeWeek, Admitted
  <2>2. PICK picks \in {rows["draft"][Active], {p}} :
          rows' = Overlay(rows, rows["games"][Active] \cup {p}, picks)
    BY <1>1, <2>1, TableFacts DEF MergeWeek
  <2>3. rows' = [rows EXCEPT !["games"][Active] = @ \cup {p}, !["draft"][Active] = picks]
    BY <2>2 DEF Overlay
  <2> QED BY <2>1, <2>3 DEF Store!Week
<1>2. MergeQuick(p) => p \in Quick /\ Store!Import(p, QuickYears)
  BY DEF MergeQuick, Store!Import
<1>3. MergeDraft(p) => p \in Draft /\ Store!Picks(p)
  BY DEF MergeDraft, Replace, Store!Picks
<1>4. ASSUME MergeFull(p) PROVE p \in Full /\ Store!Import(p, Year)
  <2>1. rows' = [t \in Table |-> [y \in Year |-> IF y \in Year THEN {p} ELSE rows[t][y]]]
    BY <1>4 DEF MergeFull
  <2> QED BY <2>1, <1>4 DEF MergeFull, Store!Import
<1> QED BY <1>1, <1>2, <1>3, <1>4

\* What a step of a worker does to the store.
LEMMA WorkerStoreStep ==
  ASSUME RInv, RInv', OutInv, NEW p \in Worker, Step(p)
  PROVE  [Store!Next]_<<rows, Published, season, career, home["games"], ranks>>
<1> DEFINE Still == UNCHANGED <<rows, Published, season, career, home["games"], ranks>>
<1>v. RInv' => Store!Views' BY ViewsHold, PTL
<1>1. Store!Views /\ Store!Views' BY ViewsHold, <1>v
<1>2. CASE MergeWeek(p) \/ MergeQuick(p) \/ MergeDraft(p) \/ MergeFull(p)
  <2>1. \/ p \in Weekly /\ Store!Week(p)
        \/ p \in Quick /\ Store!Import(p, QuickYears)
        \/ p \in Draft /\ Store!Picks(p)
        \/ p \in Full /\ Store!Import(p, Year)
    BY <1>2, RowsPublished
  <2>2. p \in Publisher /\ At(p, "merge") /\ Committed(p)
    BY <1>2 DEF MergeWeek, MergeQuick, MergeDraft, MergeFull, Admitted, Publisher
  <2>3. p \notin Published /\ Published' = Published \cup {p} BY <2>2, CommitPublishes
  <2>4. Store!Publish(p) BY <2>1, <2>3, <1>1 DEF Store!Publish, Published, Publisher
  <2> QED BY <2>2, <2>4 DEF Store!Next, Publisher
<1>3. CASE MergeRanks(p)
  <2>1. p \in Ranks /\ At(p, "merge") /\ Committed(p) BY <1>3 DEF MergeRanks, Admitted
  <2>2. p \notin Publisher BY <2>1, OneKindOnly DEF Publisher
  <2>3. Published' = Published
    BY <2>1, <2>2, EndPublishesNothing DEF Committed, Done, At
  <2>4. ranks' = rows["games"]
    BY <1>3, <2>1, AdmittedIsFresh, OnlyFullIsUnfenced DEF MergeRanks, Admitted
  <2>5. Store!Rank BY <1>3, <2>3, <2>4 DEF MergeRanks, Store!Rank, Published, Publisher
  <2> QED BY <2>5 DEF Store!Next
<1>4. CASE MergeWitness(p)
  <2>1. UNCHANGED <<rows, home, ranks, out>> BY <1>4 DEF MergeWitness, Go
  <2>2. UNCHANGED <<season, career>> BY <1>1, <2>1 DEF Store!Views
  <2> QED BY <2>1, <2>2 DEF Published
<1>5. CASE UNCHANGED league /\ UNCHANGED out
  BY <1>5 DEF league, derived, Published
<1>6. CASE UNCHANGED league /\ ~At(p, "done")
           /\ \E o : Done(p, o) /\ (o = "ok" => p \notin Publisher)
  <2>1. Published' = Published BY <1>6, EndPublishesNothing DEF Done, At
  <2> QED BY <2>1, <1>6 DEF league, derived
<1>7. CASE VerifyGaps(p)
  <2>1. p \in Gap BY <1>7 DEF VerifyGaps, OutInv, At
  <2> QED BY <2>1, <1>6, <1>7, OneKindOnly DEF VerifyGaps, At, Publisher
<1>8. ASSUME Capture(p) \/ ReadSettings(p) \/ (\E t \in Table : ReadTable(p, t))
            \/ Recheck(p) \/ ReadHome(p) \/ FindGaps(p) \/ ReadWitness(p) \/ Refuse(p)
      PROVE \/ UNCHANGED league /\ UNCHANGED out
            \/ UNCHANGED league /\ ~At(p, "done")
               /\ \E o : Done(p, o) /\ (o = "ok" => p \notin Publisher)
  <2> DEFINE Goes == UNCHANGED league /\ UNCHANGED out
             Ends == /\ UNCHANGED league /\ ~At(p, "done")
                     /\ \E o : Done(p, o) /\ (o = "ok" => p \notin Publisher)
  <2>1. CASE Capture(p) BY <2>1 DEF Capture, Go, At
  <2>2. CASE ReadSettings(p) BY <2>2 DEF ReadSettings, Go, At
  <2>3. CASE \E t \in Table : ReadTable(p, t) BY <2>3 DEF ReadTable, AfterRead, Go, At
  <2>4. CASE Recheck(p) BY <2>4 DEF Recheck, Go, At
  <2>5. CASE ReadHome(p) BY <2>5 DEF ReadHome, Go, At
  <2>6. CASE FindGaps(p) BY <2>6 DEF FindGaps, Go, At
  <2>7. CASE ReadWitness(p) BY <2>7 DEF ReadWitness, Go, At
  <2>8. CASE Refuse(p)
    <3>1. \E o \in {"refused", "other settings", "failed"} : Done(p, o) BY <2>8 DEF Refuse
    <3> QED BY <3>1, <2>8 DEF Refuse, At
  <2> QED BY <1>8, <2>1, <2>2, <2>3, <2>4, <2>5, <2>6, <2>7, <2>8
<1> QED BY <1>2, <1>3, <1>4, <1>5, <1>6, <1>7, <1>8 DEF Step

\* The readings of a worker and the tables it derives for itself might have come
\* at any time before its merge; to whoever looks at the league they came with
\* it.  Nothing is assumed of the workers but what their code does.
THEOREM SeasonIsAtomic == Spec => SeasonStoreSpec
<1>1. Init => OutInv
  <2> SUFFICES ASSUME Init, NEW p \in Worker
               PROVE  (pc[p] # "done" => out[p] = "none") /\ pc[p] # "verify"
    BY DEF OutInv
  <2>1. p \in Actor BY DEF Actor
  <2>2. out[p] = "none" BY <2>1 DEF Init
  <2>3. pc[p] \in {"save", "start", "done"} BY <2>1 DEF Init
  <2> QED BY <2>2, <2>3
<1>2. RInv /\ OutInv /\ [Next]_vars => OutInv' BY OutStep
<1>3. Init => Store!Init
  <2> SUFFICES ASSUME Init PROVE Store!Init OBVIOUS
  <2>1. Store!Views BY RefreshInit, ViewsHold
  <2>2. Published = {}
    BY DEF Init, Published, Publisher, Actor, Worker
  <2> QED BY <2>1, <2>2 DEF Init, Store!Init, Published, Publisher
<1>4. RInv /\ RInv' /\ OutInv /\ [Next]_vars
        => [Store!Next]_<<rows, Published, season, career, home["games"], ranks>>
  <2> SUFFICES ASSUME RInv, RInv', OutInv, [Next]_vars
               PROVE  [Store!Next]_<<rows, Published, season, career, home["games"], ranks>>
    OBVIOUS
  <2>1. CASE \E p \in Worker : Step(p) BY <2>1, WorkerStoreStep
  <2>2. CASE \E e \in Editor : Save(e)
    <3>1. PICK e \in Editor : Save(e) BY <2>2
    <3>2. \A q \in Publisher : out'[q] = out[q]
      BY <3>1, OneKindOnly DEF Save, Publisher, Worker, RInv, RefreshTypeOK, Actor
    <3> QED BY <3>1, <3>2 DEF Save, derived, Published
  <2>3. CASE UNCHANGED vars BY <2>3 DEF vars, league, derived, mine, Published
  <2> QED BY <2>1, <2>2, <2>3 DEF Next, Quiet
<1> QED BY <1>1, <1>2, <1>3, <1>4, RefreshInvariant, PTL
    DEF Spec, SeasonStoreSpec, Store!Spec, Published, Publisher

=============================================================================
