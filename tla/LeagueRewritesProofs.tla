------------------------- MODULE LeagueRewritesProofs -------------------------
(***************************************************************************)
(* What the whole-league rewrites guarantee for any names, tables, uploads, *)
(* bundles, renames and number of failures, proved from two inductive       *)
(* invariants: one of the receipts, and one of the rows.                    *)
(***************************************************************************)
EXTENDS LeagueRewrites, FiniteSetTheorems, SequenceTheorems, TLAPS

-----------------------------------------------------------------------------
(* Type correctness.                                                       *)

\* A request at work on an upload is at one of its tables or between two.
AtUpload == job.at \in Table \cup {"begin", "next"} => job.req \in Upload
AtRename == job.at \in {"data", "control"} => job.req \in Op

TInv == RewritesTypeOK /\ AtUpload /\ AtRename

\* Appending to the rows of one season of one table keeps the type of rows.
LEMMA RowsUpdate ==
  ASSUME NEW n \in Name, NEW t \in Table, NEW f \in [Season -> Seq(Upload \cup Bundle)],
         rows \in Rows
  PROVE  [rows EXCEPT ![n][t] = f] \in Rows
  BY DEF Rows

\* The empty rows are rows.
LEMMA NoRowsType == NoRows \in [Table -> [Season -> Seq(Upload \cup Bundle)]]
<1>1. <<>> \in Seq(Upload \cup Bundle)
  OBVIOUS
<1> QED BY <1>1 DEF NoRows

\* An upload's step keeps every variable in its type.
LEMMA UploadType ==
  ASSUME TInv, RewritesAssumption, NEW u \in Upload,
         DecideUpload(u) \/ StartUpload(u) \/ UploadStep(u)
  PROVE  TInv'
<1> USE DEF TInv, RewritesTypeOK, AtUpload, AtRename, RewritesAssumption, Doing, store, ops, sends
<1>1. CASE DecideUpload(u)
  BY <1>1 DEF DecideUpload
<1>2. CASE StartUpload(u)
  BY <1>2 DEF StartUpload, SkipsDelete
<1>3. CASE BeginMerge(u)
  BY <1>3 DEF BeginMerge
<1>4. CASE ClearTable(u)
  <2>1. PICK t \in job.todo :
          /\ job' = [job EXCEPT !.at = t, !.todo = @ \ {t}]
          /\ rows' = IF job.fast THEN rows ELSE [rows EXCEPT ![Target[u]][t] = NoRows[t]]
    BY <1>4 DEF ClearTable
  <2>2. Target[u] \in Name /\ t \in Table
    OBVIOUS
  <2>3. NoRows[t] \in [Season -> Seq(Upload \cup Bundle)]
    BY <2>2, NoRowsType
  <2>4. rows' \in Rows
    BY <2>1, <2>2, <2>3, RowsUpdate
  <2>5. outdated' \subseteq Fenced
    BY <1>4 DEF ClearTable, Outdates
  <2> QED BY <1>4, <2>1, <2>2, <2>4, <2>5 DEF ClearTable
<1>5. CASE InsertRows(u)
  <2> DEFINE n == Target[u]
             f == [s \in Season |-> IF s \in Holds[u] THEN Append(rows[n][job.at][s], u)
                                                      ELSE rows[n][job.at][s]]
  <2>1. n \in Name /\ job.at \in Table
    BY <1>5 DEF InsertRows
  <2>2. f \in [Season -> Seq(Upload \cup Bundle)]
    BY <2>1 DEF Rows
  <2>3. rows' = [rows EXCEPT ![n][job.at] = f]
    BY <1>5, <2>1 DEF InsertRows
  <2>4. rows' \in Rows
    <3> HIDE DEF n, f
    <3> QED BY <2>1, <2>2, <2>3, RowsUpdate
  <2>5. outdated' \subseteq Fenced
    BY <1>5 DEF InsertRows, Outdates
  <2> QED BY <1>5, <2>4, <2>5 DEF InsertRows
<1>6. CASE FinishUpload(u)
  BY <1>6 DEF FinishUpload, Answer, Idle
<1> QED BY <1>1, <1>2, <1>3, <1>4, <1>5, <1>6 DEF UploadStep

\* Replacing two values of a function keeps its type.
LEMMA TwoUpdates ==
  ASSUME NEW S, NEW T, NEW f \in [S -> T], NEW a \in S, NEW b \in S, NEW x \in T, NEW y \in T
  PROVE  [f EXCEPT ![a] = x, ![b] = y] \in [S -> T]
  OBVIOUS

\* What is consolidated are rows.
LEMMA ConsolidatedType ==
  ASSUME RewritesTypeOK, RewritesAssumption, NEW o \in Op
  PROVE  Consolidated(o) \in Rows
<1> DEFINE k == [t \in Table |-> [s \in Season |->
                   Kept(t, rows[Src[o]][t][s], rows[Dst[o]][t][s])]]
<1>1. k \in [Table -> [Season -> Seq(Upload \cup Bundle)]]
  BY DEF Kept, RewritesTypeOK, RewritesAssumption, Rows
<1>2. Consolidated(o) = [rows EXCEPT ![Dst[o]] = k, ![Src[o]] = NoRows]
  BY DEF Consolidated
<1> HIDE DEF k
<1>3. rows \in Rows /\ Src[o] \in Name /\ Dst[o] \in Name
  BY DEF RewritesTypeOK, RewritesAssumption
<1> QED
  <2> DEFINE T == [Table -> [Season -> Seq(Upload \cup Bundle)]]
  <2>1. k \in T /\ NoRows \in T /\ rows \in [Name -> T] /\ Rows = [Name -> T]
    BY <1>1, <1>3, NoRowsType DEF Rows
  <2> HIDE DEF T, k
  <2>2. [rows EXCEPT ![Dst[o]] = k, ![Src[o]] = NoRows] \in [Name -> T]
    BY <1>3, <2>1, TwoUpdates
  <2> QED BY <1>2, <2>1, <2>2

\* The stages a rename goes to.
LEMMA StageType ==
  ASSUME TInv, RewritesAssumption, job.req \in Op,
         job' = [job EXCEPT !.at = "control"] \/ job' = Idle
  PROVE  /\ job' \in [req : Upload \cup Op \cup {None}, at : Doing,
                       todo : SUBSET Table, fast : BOOLEAN]
         /\ AtUpload' /\ AtRename'
<1> USE DEF TInv, RewritesTypeOK, RewritesAssumption, Doing, AtUpload, AtRename
<1>1. CASE job' = [job EXCEPT !.at = "control"]
  BY <1>1
<1>2. CASE job' = Idle
  BY <1>2 DEF Idle
<1> QED BY <1>1, <1>2

\* A rename's step keeps every variable in its type.
LEMMA RenameType ==
  ASSUME TInv, RewritesAssumption, NEW o \in Op, StartRename(o) \/ RenameStep(o)
  PROVE  TInv'
<1> USE DEF TInv, RewritesTypeOK, AtUpload, AtRename, RewritesAssumption, Doing, store, ops,
            sends, Idle
<1>f. Fault => faults' \in 0 .. MaxFaults
  BY DEF Fault
<1>1. CASE StartRename(o)
  BY <1>1 DEF StartRename
<1>2. CASE MoveRows(o)
  <2>1. rows' \in Rows
    BY <1>2, ConsolidatedType DEF MoveRows
  <2>2. gen' \in [Name -> Nat]
    BY <1>2 DEF MoveRows, HigherGen
  <2>3. filed' \subseteq Name \X Bundle
    BY <1>2 DEF MoveRows
  <2>4. outdated' \subseteq Fenced
    BY <1>2 DEF MoveRows, Outdates
  <2>5. job' \in [req : Upload \cup Op \cup {None}, at : Doing,
                        todo : SUBSET Table, fast : BOOLEAN]
       /\ AtUpload' /\ AtRename'
    <3>1. job' = [job EXCEPT !.at = "control"] \/ job' = Idle
      BY <1>2 DEF MoveRows, Witnessed
    <3>2. job.req \in Op
      BY <1>2 DEF MoveRows
    <3> QED BY <3>1, <3>2, StageType
  <2>6. faults' \in 0 .. MaxFaults
    BY <1>2, <1>f DEF MoveRows
  <2> QED BY <1>2, <2>1, <2>2, <2>3, <2>4, <2>5, <2>6 DEF MoveRows
<1>3. CASE KeepRows(o)
  BY <1>3 DEF KeepRows
<1>4. CASE DataFails(o)
  <2>1. job' = [job EXCEPT !.at = "control"] \/ job' = Idle
    BY <1>4 DEF DataFails, Witnessed
  <2>2. job.req \in Op
    BY <1>4 DEF DataFails
  <2> QED BY <1>4, <1>f, <2>1, <2>2, StageType DEF DataFails
<1>5. CASE LinkName(o)
  <2>1. entry' \in [Name -> {"ours", "other", "unknown", None}]
    BY <1>5 DEF LinkName, Retargeted
  <2>2. answered' \subseteq Upload \cup Op /\ faults' \in 0 .. MaxFaults
    BY <1>5, <1>f DEF LinkName, Answer
  <2>3. alias' \in [Name -> Name \cup {None}]
    BY <1>5 DEF LinkName
  <2> QED BY <1>5, <2>1, <2>2, <2>3 DEF LinkName
<1>6. CASE EndRename(o)
  <2>1. answered' \subseteq Upload \cup Op /\ faults' \in 0 .. MaxFaults
    BY <1>6, <1>f DEF EndRename, Answer
  <2> QED BY <1>6, <2>1 DEF EndRename
<1> QED BY <1>1, <1>2, <1>3, <1>4, <1>5, <1>6 DEF RenameStep

\* The type invariant, with the stage of the request at work.
THEOREM RewritesTyped == Spec => []TInv
<1> USE RewritesAssumption
<1>1. Init => TInv
  <2> SUFFICES ASSUME Init PROVE TInv
    OBVIOUS
  <2>1. rows \in Rows
    BY NoRowsType DEF Init, Rows
  <2>2. entry \in [Name -> {"ours", "other", "unknown", None}]
    BY DEF Init
  <2>3. /\ job \in [req : Upload \cup Op \cup {None}, at : Doing,
                    todo : SUBSET Table, fast : BOOLEAN]
        /\ AtUpload /\ AtRename
    BY DEF Init, Idle, AtUpload, AtRename, Doing, RewritesAssumption
  <2>4. gen \in [Name -> Nat] /\ base \in [Bundle -> Nat] /\ alias \in [Name -> Name \cup {None}]
    BY DEF Init
  <2>5. faults \in 0 .. MaxFaults
    BY DEF Init, RewritesAssumption
  <2> QED BY <2>1, <2>2, <2>3, <2>4, <2>5 DEF Init, TInv, RewritesTypeOK
<1>2. TInv /\ [Next]_vars => TInv'
  <2> SUFFICES ASSUME TInv, [Next]_vars PROVE TInv'
    OBVIOUS
  <2> USE DEF store, ops, sends
  <2>1. CASE \E u \in Upload : DecideUpload(u) \/ StartUpload(u) \/ UploadStep(u)
    BY <2>1, UploadType
  <2>2. CASE \E o \in Op : StartRename(o) \/ RenameStep(o)
    BY <2>2, RenameType
  <2> USE DEF TInv, RewritesTypeOK, AtUpload, AtRename, RewritesAssumption, Doing
  <2>3. ASSUME NEW b \in Bundle, Capture(b) PROVE TInv'
    BY <2>3 DEF Capture
  <2>4. ASSUME NEW b \in Bundle, MergeBundle(b) PROVE TInv'
    <3> DEFINE k == [t \in Table |-> [s \in Season |-> IF s \in Holds[b] THEN <<b>> ELSE <<>>]]
    <3>1. k \in [Table -> [Season -> Seq(Upload \cup Bundle)]]
      <4>1. <<b>> \in Seq(Upload \cup Bundle) /\ <<>> \in Seq(Upload \cup Bundle)
        OBVIOUS
      <4> QED BY <4>1
    <3>2. rows' = [rows EXCEPT ![Target[b]] = k]
      BY <2>4 DEF MergeBundle
    <3>3. rows' \in Rows
      <4> HIDE DEF k
      <4> QED BY <3>1, <3>2 DEF Rows
    <3>4. gen' \in [Name -> Nat]
      BY <2>4 DEF MergeBundle
    <3>5. filed' \subseteq Name \X Bundle
      BY <2>4 DEF MergeBundle
    <3> QED BY <2>4, <3>3, <3>4, <3>5 DEF MergeBundle
  <2>5. ASSUME NEW x \in Upload \cup Bundle, MarkImported(x) PROVE TInv'
    BY <2>5 DEF MarkImported
  <2>6. CASE Interrupted
    <3>1. faults' \in 0 .. MaxFaults
      BY <2>6 DEF Interrupted, Fault
    <3>2. torn' \in BOOLEAN
      BY <2>6 DEF Interrupted
    <3> QED BY <2>6, <3>1, <3>2 DEF Interrupted, Idle
  <2>7. ASSUME NEW n \in Name, Register(n) PROVE TInv'
    BY <2>7 DEF Register
  <2>8. CASE UNCHANGED vars
    BY <2>8 DEF vars
  <2> QED BY <2>1, <2>2, <2>3, <2>4, <2>5, <2>6, <2>7, <2>8 DEF Next
<1> QED BY <1>1, <1>2, PTL DEF Spec

\* Type correctness.
THEOREM RewritesTypeCorrect == Spec => []RewritesTypeOK
<1>1. TInv => RewritesTypeOK
  BY DEF TInv
<1> QED BY <1>1, RewritesTyped, PTL

-----------------------------------------------------------------------------
(* The receipts of a rename.                                               *)

\* A rename on its way to ___ops has its receipt in ___leagues.
ReceiptInv ==
  /\ OkMeansBoth
  /\ job.at = "control" => job.req \in moved

\* Uploads, publications and the registry leave the receipts alone.
LEMMA OthersKeepReceipts ==
  ASSUME TInv, RewritesAssumption, Next,
         ~ \E o \in Op : StartRename(o) \/ RenameStep(o)
  PROVE  /\ moved' = moved /\ linked' = linked
         /\ answered' \cap Op = answered \cap Op
         /\ job' = job \/ job'.at # "control"
<1> USE DEF TInv, RewritesTypeOK, RewritesAssumption, store, ops, sends
<1>1. ASSUME NEW u \in Upload, DecideUpload(u) \/ StartUpload(u) \/ UploadStep(u)
      PROVE  /\ moved' = moved /\ linked' = linked
             /\ answered' \cap Op = answered \cap Op
             /\ job' = job \/ job'.at # "control"
  <2>1. CASE DecideUpload(u)
    BY <2>1 DEF DecideUpload
  <2>2. CASE StartUpload(u)
    BY <2>2 DEF StartUpload
  <2>3. CASE BeginMerge(u)
    BY <2>3 DEF BeginMerge
  <2>4. CASE ClearTable(u)
    BY <2>4 DEF ClearTable
  <2>5. CASE InsertRows(u)
    BY <2>5 DEF InsertRows
  <2>6. CASE FinishUpload(u)
    <3>1. answered' \cap Op = answered \cap Op
      BY <2>6 DEF FinishUpload, Answer
    <3> QED BY <2>6, <3>1 DEF FinishUpload, Idle
  <2> QED BY <1>1, <2>1, <2>2, <2>3, <2>4, <2>5, <2>6 DEF UploadStep
<1>2. ASSUME NEW b \in Bundle, Capture(b) \/ MergeBundle(b)
      PROVE  moved' = moved /\ linked' = linked /\ answered' = answered /\ job' = job
  BY <1>2 DEF Capture, MergeBundle
<1>3. ASSUME NEW x \in Upload \cup Bundle, MarkImported(x)
      PROVE  moved' = moved /\ linked' = linked /\ answered' = answered /\ job' = job
  BY <1>3 DEF MarkImported
<1>4. ASSUME NEW n \in Name, Register(n)
      PROVE  moved' = moved /\ linked' = linked /\ answered' = answered /\ job' = job
  BY <1>4 DEF Register
<1>5. CASE Interrupted
  BY <1>5 DEF Interrupted, Idle
<1> QED BY <1>1, <1>2, <1>3, <1>4, <1>5 DEF Next

\* The receipts stay consistent.
LEMMA ReceiptStep ==
  ASSUME TInv, RewritesAssumption, ReceiptInv, [Next]_vars
  PROVE  ReceiptInv'
<1> USE DEF TInv, RewritesTypeOK, RewritesAssumption, store, ops, sends, ReceiptInv,
            OkMeansBoth
<1>1. ASSUME NEW o \in Op, StartRename(o) \/ RenameStep(o)
      PROVE  ReceiptInv'
  <2>1. CASE StartRename(o)
    BY <2>1 DEF StartRename, Idle
  <2>2. CASE MoveRows(o)
    <3>1. moved' = moved \cup {o} /\ linked' = linked /\ answered' = answered
      BY <2>2 DEF MoveRows
    <3>2. job.req = o /\ (job' = [job EXCEPT !.at = "control"] \/ job' = Idle)
      BY <2>2 DEF MoveRows, Witnessed
    <3> QED BY <3>1, <3>2 DEF Idle
  <2>3. CASE KeepRows(o)
    BY <2>3 DEF KeepRows, AlreadyMoved
  <2>4. CASE DataFails(o)
    <3>1. moved' = moved /\ linked' = linked /\ answered' = answered
      BY <2>4 DEF DataFails
    <3>2. job' = Idle
      BY <2>4 DEF DataFails, Witnessed, AlreadyMoved
    <3> QED BY <3>1, <3>2 DEF Idle
  <2>5. CASE LinkName(o)
    <3>1. moved' = moved /\ linked' = linked \cup {o} /\ o \in moved /\ job' = Idle
      BY <2>5 DEF LinkName
    <3>2. answered' \subseteq answered \cup {o}
      BY <2>5 DEF LinkName, Answer
    <3> QED BY <3>1, <3>2 DEF Idle
  <2>6. CASE EndRename(o)
    <3>1. moved' = moved /\ linked' = linked /\ job' = Idle
      BY <2>6 DEF EndRename
    <3>2. answered' = answered \/ (o \in linked /\ answered' = answered \cup {o})
      BY <2>6 DEF EndRename, Answer
    <3> QED BY <3>1, <3>2 DEF Idle
  <2> QED BY <1>1, <2>1, <2>2, <2>3, <2>4, <2>5, <2>6 DEF RenameStep
<1>2. CASE Next /\ ~ \E o \in Op : StartRename(o) \/ RenameStep(o)
  BY <1>2, OthersKeepReceipts
<1>3. CASE UNCHANGED vars
  BY <1>3 DEF vars
<1> QED BY <1>1, <1>2, <1>3

\* The receipts are as their rewrites left them in every reachable state.
LEMMA ReceiptsHold == Spec => []ReceiptInv
<1> USE RewritesAssumption
<1>1. Init => ReceiptInv
  BY DEF Init, ReceiptInv, OkMeansBoth, Idle
<1>2. TInv /\ ReceiptInv /\ [Next]_vars => ReceiptInv'
  BY ReceiptStep
<1> QED BY <1>1, <1>2, RewritesTyped, PTL DEF Spec

\* A rename that is answered with success is durable in both databases, and
\* nothing in ___ops goes by the new name before the rows do, through any
\* failures, crashes and repeats of any number of renames.
THEOREM OkIsBoth == Spec => []OkMeansBoth
<1>1. ReceiptInv => OkMeansBoth
  BY DEF ReceiptInv
<1> QED BY <1>1, ReceiptsHold, PTL

\* A rename that has its receipt never moves rows again.
THEOREM NeverMovesAgain == Spec => MovedOnce
<1> DEFINE Once == \A o \in moved : job.req = o => rows' = rows /\ gen' = gen
<1> USE RewritesAssumption
<1>1. TInv /\ [Next]_vars => [Once]_vars
  <2> SUFFICES ASSUME TInv, Next, NEW o \in moved, job.req = o
               PROVE  rows' = rows /\ gen' = gen
    BY DEF vars
  <2> USE DEF TInv, RewritesTypeOK, RewritesAssumption, store, ops, sends
  <2>1. ASSUME NEW u \in Upload, DecideUpload(u) \/ StartUpload(u) \/ UploadStep(u)
        PROVE  rows' = rows /\ gen' = gen
    <3>1. job.req # u /\ job.req # None
      OBVIOUS
    <3> QED BY <2>1, <3>1 DEF DecideUpload, StartUpload, UploadStep, BeginMerge, ClearTable,
                              InsertRows, FinishUpload, Idle
  <2>2. ASSUME NEW p \in Op, StartRename(p) \/ RenameStep(p)
        PROVE  rows' = rows /\ gen' = gen
    BY <2>2 DEF StartRename, RenameStep, MoveRows, KeepRows, DataFails, LinkName, EndRename,
                AlreadyMoved
  <2>3. ASSUME NEW b \in Bundle, Capture(b) \/ MergeBundle(b)
        PROVE  rows' = rows /\ gen' = gen
    BY <2>3 DEF Capture, MergeBundle, Idle
  <2>4. ASSUME NEW x \in Upload \cup Bundle, MarkImported(x)
        PROVE  rows' = rows /\ gen' = gen
    BY <2>4 DEF MarkImported
  <2>5. ASSUME NEW n \in Name, Register(n)
        PROVE  rows' = rows /\ gen' = gen
    BY <2>5 DEF Register
  <2>6. CASE Interrupted
    BY <2>6 DEF Interrupted
  <2> QED BY <2>1, <2>2, <2>3, <2>4, <2>5, <2>6 DEF Next
<1> QED BY <1>1, RewritesTyped, PTL DEF Spec, MovedOnce

\* Every step keeps the inventory free of a name a finished rename has taken.
LEMMA InventoryStep ==
  ASSUME TInv, RewritesAssumption, OneNameLeft, [Next]_vars
  PROVE  OneNameLeft'
<1> USE DEF TInv, RewritesTypeOK, RewritesAssumption, store, ops, sends
<1>1. ASSUME NEW o \in Op, LinkName(o)
      PROVE  OneNameLeft'
  <2> SUFFICES ASSUME NEW q \in linked', \A p \in linked' \ {q} : Dst[p] # Src[q]
               PROVE  entry'[Src[q]] # "ours"
    BY DEF OneNameLeft
  <2>1. linked' = linked \cup {o} /\ entry' = Retargeted(o)
    BY <1>1 DEF LinkName
  <2>2. Src[q] \in Name /\ Src[o] \in Name /\ Dst[o] \in Name /\ Src[o] # Dst[o]
    BY <2>1
  <2>a. /\ entry'[Src[o]] = None
        /\ \A n \in Name \ {Src[o], Dst[o]} : entry'[n] = entry[n]
    BY <2>1, <2>2 DEF Retargeted
  <2>3. CASE q = o
    BY <2>a, <2>3
  <2>4. CASE q # o
    <3>1. q \in linked /\ Dst[o] # Src[q]
      BY <2>1, <2>4
    <3>2. entry[Src[q]] # "ours"
      BY <2>1, <3>1 DEF OneNameLeft
    <3> QED BY <2>2, <2>a, <3>1, <3>2
  <2> QED BY <2>3, <2>4
<1>2. ASSUME NEW x \in Upload \cup Bundle, MarkImported(x)
      PROVE  OneNameLeft'
  BY <1>2 DEF MarkImported, OneNameLeft
<1>3. ASSUME NEW n \in Name, Register(n)
      PROVE  OneNameLeft'
  BY <1>3 DEF Register, OneNameLeft
<1>4. ASSUME linked' = linked, entry' = entry
      PROVE  OneNameLeft'
  BY <1>4 DEF OneNameLeft
<1>5. ASSUME NEW u \in Upload, DecideUpload(u) \/ StartUpload(u) \/ UploadStep(u)
      PROVE  linked' = linked /\ entry' = entry
  BY <1>5 DEF DecideUpload, StartUpload, UploadStep, BeginMerge, ClearTable, InsertRows,
              FinishUpload
<1>6. ASSUME NEW o \in Op, StartRename(o) \/ MoveRows(o) \/ KeepRows(o) \/ DataFails(o)
                           \/ EndRename(o)
      PROVE  linked' = linked /\ entry' = entry
  BY <1>6 DEF StartRename, MoveRows, KeepRows, DataFails, EndRename
<1>7. ASSUME NEW b \in Bundle, Capture(b) \/ MergeBundle(b)
      PROVE  linked' = linked /\ entry' = entry
  BY <1>7 DEF Capture, MergeBundle
<1>8. ASSUME Interrupted \/ UNCHANGED vars
      PROVE  linked' = linked /\ entry' = entry
  BY <1>8 DEF Interrupted, vars
<1> QED BY <1>1, <1>2, <1>3, <1>4, <1>5, <1>6, <1>7, <1>8 DEF Next, RenameStep

\* The league is never listed again under a name that a finished rename has
\* taken from it, unless a later rename gives that name back.
THEOREM OneName == Spec => []OneNameLeft
<1> USE RewritesAssumption
<1>1. Init => OneNameLeft
  BY DEF Init, OneNameLeft
<1>2. TInv /\ OneNameLeft /\ [Next]_vars => OneNameLeft'
  BY InventoryStep
<1> QED BY <1>1, <1>2, RewritesTyped, PTL DEF Spec

-----------------------------------------------------------------------------
(* The rows of a league are stored once.                                   *)

Once == \A n \in Name, t \in Table, s \in Season : Len(rows[n][t][s]) <= 1

\* Each season is in every table of the league or in none.
Even(n) == \A s \in Season, t1, t2 \in Table : rows[n][t1][s] = <<>> => rows[n][t2][s] = <<>>

\* The league has a merge state; or it is being replaced by an upload that
\* deletes.
Known(n) == n \in begun \/ (job.at = "begin" /\ ~job.fast /\ Target[job.req] = n)

\* What an upload inserts into next is empty, and so is what it will not clear.
Cleared ==
  /\ job.at \in Table \cup {"next"} => Target[job.req] \in begun
  /\ job.at \in Table => job.at \notin job.todo /\ Empty(Target[job.req], job.at)
  /\ job.at \in Table \cup {"begin", "next"} /\ job.fast =>
       \A t \in job.todo : Empty(Target[job.req], t)

RowsInv == torn \/ (Once /\ Cleared /\ \A n \in Name : Known(n) \/ Even(n))

\* An upload's steps keep the rows of every league once.
LEMMA UploadRows ==
  ASSUME TInv, RewritesAssumption, Small # {}, RowsInv, NEW u \in Upload,
         DecideUpload(u) \/ StartUpload(u) \/ UploadStep(u)
  PROVE  RowsInv'
<1> SUFFICES ASSUME ~torn' PROVE RowsInv'
  BY DEF RowsInv
<1> USE DEF store, ops, sends
<1>0. /\ ~torn /\ Once /\ Cleared /\ \A n \in Name : Known(n) \/ Even(n)
      /\ Target[u] \in Name
  <2>1. torn' = torn
    BY DEF DecideUpload, StartUpload, UploadStep, BeginMerge, ClearTable, InsertRows,
           FinishUpload
  <2>2. Target[u] \in Name
    BY DEF RewritesAssumption
  <2> QED BY <2>1, <2>2 DEF RowsInv
<1>t. /\ rows \in Rows /\ job.todo \subseteq Table /\ Small \subseteq Table
      /\ job = [req |-> job.req, at |-> job.at, todo |-> job.todo, fast |-> job.fast]
      /\ job.fast \in BOOLEAN /\ begun \subseteq Name
      /\ Table \cap {"idle", "begin", "next", "data", "control"} = {}
  BY DEF TInv, RewritesTypeOK, RewritesAssumption
<1> USE <1>t
<1>1. CASE DecideUpload(u)
  BY <1>0, <1>1 DEF DecideUpload, RowsInv, Once, Cleared, Known, Even, Empty
<1>2. CASE StartUpload(u)
  <2>1. /\ job = Idle /\ rows' = rows /\ begun' = begun \ {Target[u]}
        /\ job' = [req |-> u, at |-> "begin", todo |-> Table, fast |-> SkipsDelete(u)]
    BY <1>2 DEF StartUpload
  <2>2. \A n \in Name : n \in begun \/ Even(n)
    BY <1>0, <2>1 DEF Known, Idle
  <2>3. SkipsDelete(u) => Target[u] \notin begun /\ \A t \in Table : Empty(Target[u], t)
    <3> SUFFICES ASSUME SkipsDelete(u)
                 PROVE  Target[u] \notin begun /\ \A t \in Table : Empty(Target[u], t)
      OBVIOUS
    <3>1. PICK t0 \in Small : Empty(Target[u], t0)
      BY DEF SkipsDelete
    <3>2. Even(Target[u]) /\ t0 \in Table
      BY <1>0, <2>2 DEF SkipsDelete
    <3> QED BY <3>1, <3>2 DEF SkipsDelete, Even, Empty
  <2>4. Once' /\ \A n \in Name : Even(n)' <=> Even(n)
    BY <1>0, <2>1 DEF Once, Even
  <2>5. Cleared'
    BY <2>1, <2>3 DEF Cleared, Empty
  <2>6. \A n \in Name : Known(n)' \/ Even(n)'
    <3> SUFFICES ASSUME NEW n \in Name, ~Even(n) PROVE Known(n)'
      BY <2>4
    <3>1. n \in begun
      BY <2>2
    <3>2. CASE n # Target[u]
      BY <2>1, <3>1, <3>2 DEF Known
    <3>3. CASE n = Target[u]
      BY <2>1, <2>3, <3>1, <3>3 DEF Known
    <3> QED BY <3>2, <3>3
  <2> QED BY <2>4, <2>5, <2>6 DEF RowsInv
<1>3. CASE BeginMerge(u)
  <2>1. /\ job.req = u /\ job.at = "begin" /\ job' = [job EXCEPT !.at = "next"]
        /\ begun' = begun \cup {Target[u]} /\ rows' = rows
    BY <1>3 DEF BeginMerge
  <2>2. Once' /\ \A n \in Name : Even(n)' <=> Even(n)
    BY <1>0, <2>1 DEF Once, Even
  <2>3. Cleared'
    BY <1>0, <2>1 DEF Cleared, Empty
  <2> QED BY <1>0, <2>1, <2>2, <2>3 DEF RowsInv, Known
<1>4. CASE ClearTable(u)
  <2> DEFINE n == Target[u]
  <2>1. PICK t \in job.todo :
          /\ job' = [job EXCEPT !.at = t, !.todo = @ \ {t}]
          /\ rows' = IF job.fast THEN rows ELSE [rows EXCEPT ![n][t] = NoRows[t]]
    BY <1>4 DEF ClearTable
  <2>a. n \in Name
    BY <1>0
  <2>2. job.req = u /\ job.at = "next" /\ n \in begun /\ begun' = begun /\ t \in Table
    BY <1>0, <1>4 DEF ClearTable, Cleared
  <2>3. /\ \A s \in Season : rows'[n][t][s] = <<>>
        /\ \A m \in Name, x \in Table : m # n \/ x # t => rows'[m][x] = rows[m][x]
    <3>1. CASE job.fast
      BY <1>0, <2>1, <2>2, <3>1 DEF Cleared, Empty
    <3>2. CASE ~job.fast
      <4>1. rows' = [rows EXCEPT ![n][t] = NoRows[t]]
        BY <2>1, <3>2
      <4>2. /\ rows'[n][t] = NoRows[t]
            /\ \A m \in Name, x \in Table : m # n \/ x # t => rows'[m][x] = rows[m][x]
        <5> DEFINE z == NoRows[t]
        <5> HIDE DEF z, n
        <5> QED BY <2>a, <2>2, <4>1 DEF Rows, z
      <4> QED BY <2>2, <4>2 DEF NoRows
    <3> QED BY <3>1, <3>2
  <2>4. Once'
    <3> SUFFICES ASSUME NEW m \in Name, NEW x \in Table, NEW s \in Season
                 PROVE  Len(rows'[m][x][s]) <= 1
      BY DEF Once
    <3>1. CASE m = n /\ x = t
      BY <2>3, <3>1
    <3>2. CASE m # n \/ x # t
      BY <1>0, <2>3, <3>2 DEF Once
    <3> QED BY <3>1, <3>2
  <2>5. Cleared'
    BY <1>0, <2>1, <2>2, <2>3 DEF Cleared, Empty
  <2>6. \A m \in Name : Known(m)' \/ Even(m)'
    <3> SUFFICES ASSUME NEW m \in Name, m \notin begun PROVE Even(m)'
      BY <2>2 DEF Known
    <3>1. Even(m) /\ m # n
      BY <1>0, <2>2 DEF Known
    <3> QED BY <2>3, <3>1 DEF Even
  <2> QED BY <2>4, <2>5, <2>6 DEF RowsInv
<1>5. CASE InsertRows(u)
  <2> DEFINE n == Target[u]
             t == job.at
             f == [s \in Season |-> IF s \in Holds[u] THEN Append(rows[n][t][s], u)
                                                      ELSE rows[n][t][s]]
  <2>1. /\ job.req = u /\ t \in Table /\ n \in begun /\ begun' = begun /\ n \in Name
        /\ job' = [job EXCEPT !.at = "next"]
    BY <1>0, <1>5 DEF InsertRows, Cleared
  <2>2. rows' = [rows EXCEPT ![n][t] = f]
    BY <1>5, <2>1 DEF InsertRows, Rows
  <2>3. \A s \in Season : Len(f[s]) <= 1
    BY <1>0, <2>1 DEF Cleared, Empty
  <2>4. /\ rows'[n][t] = f
        /\ \A m \in Name, x \in Table : m # n \/ x # t => rows'[m][x] = rows[m][x]
    <3> HIDE DEF f, n, t
    <3> QED BY <2>1, <2>2 DEF Rows
  <2>5. Once'
    <3> SUFFICES ASSUME NEW m \in Name, NEW x \in Table, NEW s \in Season
                 PROVE  Len(rows'[m][x][s]) <= 1
      BY DEF Once
    <3>1. CASE m = n /\ x = t
      BY <2>3, <2>4, <3>1
    <3>2. CASE m # n \/ x # t
      BY <1>0, <2>4, <3>2 DEF Once
    <3> QED BY <3>1, <3>2
  <2>6. Cleared'
    <3>1. job.fast => \A x \in job.todo : x \in Table /\ x # t /\ Empty(n, x)
      BY <1>0, <2>1 DEF Cleared
    <3>2. job'.req = u /\ job'.at = "next" /\ job'.todo = job.todo /\ job'.fast = job.fast
      BY <2>1
    <3> QED BY <2>1, <2>4, <3>1, <3>2 DEF Cleared, Empty
  <2>7. \A m \in Name : Known(m)' \/ Even(m)'
    <3> SUFFICES ASSUME NEW m \in Name, m \notin begun PROVE Even(m)'
      BY <2>1 DEF Known
    <3>1. Even(m) /\ m # n
      BY <1>0, <2>1 DEF Known
    <3> QED BY <2>4, <3>1 DEF Even
  <2> QED BY <2>5, <2>6, <2>7 DEF RowsInv
<1>6. CASE FinishUpload(u)
  <2>1. rows' = rows /\ begun' = begun /\ job' = Idle /\ job.at = "next"
    BY <1>6 DEF FinishUpload
  <2> QED BY <1>0, <2>1 DEF RowsInv, Once, Cleared, Known, Even, Idle
<1> QED BY <1>1, <1>2, <1>3, <1>4, <1>5, <1>6 DEF UploadStep

\* A rename moves or keeps each season's rows, and leaves a league without a
\* merge state even.
LEMMA MoveKeepsRows ==
  ASSUME TInv, RewritesAssumption, RowsInv, NEW o \in Op, MoveRows(o)
  PROVE  RowsInv'
<1> SUFFICES ASSUME ~torn' PROVE RowsInv'
  BY DEF RowsInv
<1> DEFINE a == Src[o]
           b == Dst[o]
           k == [t \in Table |-> [s \in Season |-> Kept(t, rows[a][t][s], rows[b][t][s])]]
<1>0. /\ ~torn /\ Once /\ \A n \in Name : n \in begun \/ Even(n)
      /\ rows \in Rows /\ a \in Name /\ b \in Name /\ a # b
  BY DEF RowsInv, MoveRows, Known, TInv, RewritesTypeOK, RewritesAssumption
<1>1. rows' = [rows EXCEPT ![b] = k, ![a] = NoRows]
  BY DEF MoveRows, Consolidated
<1>2. /\ rows'[b] = k /\ rows'[a] = NoRows
      /\ \A n \in Name \ {a, b} : rows'[n] = rows[n]
  <2> HIDE DEF a, b, k
  <2> QED BY <1>0, <1>1 DEF Rows
<1>3. Once'
  <2> SUFFICES ASSUME NEW n \in Name, NEW t \in Table, NEW s \in Season
               PROVE  Len(rows'[n][t][s]) <= 1
    BY DEF Once
  <2>1. CASE n = a
    BY <1>2, <2>1 DEF NoRows
  <2>2. CASE n = b
    <3>1. rows'[n][t][s] = rows[a][t][s] \/ rows'[n][t][s] = rows[b][t][s]
      BY <1>2, <2>2 DEF Kept
    <3> QED BY <1>0, <3>1 DEF Once
  <2>3. CASE n \notin {a, b}
    BY <1>0, <1>2, <2>3 DEF Once
  <2> QED BY <2>1, <2>2, <2>3
<1>4. \A n \in Name : n \in begun' \/ Even(n)'
  <2> SUFFICES ASSUME NEW n \in Name, n \notin begun' PROVE Even(n)'
    OBVIOUS
  <2>b. begun' = IF a \in begun THEN (begun \ {a}) \cup {b} ELSE begun
    BY DEF MoveRows
  <2>1. CASE n = a
    BY <1>2, <2>1 DEF NoRows, Even
  <2>2. CASE n = b
    <3>1. a \notin begun /\ b \notin begun
      BY <1>0, <2>2, <2>b
    <3>2. Even(a) /\ Even(b)
      BY <1>0, <3>1
    <3>3. \A t \in Table, s \in Season :
            rows'[b][t][s] = <<>> <=> rows[a][t][s] = <<>> /\ rows[b][t][s] = <<>>
      BY <1>2 DEF Kept
    <3> QED BY <1>0, <2>2, <3>2, <3>3 DEF Even
  <2>3. CASE n \notin {a, b}
    <3>1. Even(n)
      BY <1>0, <2>b, <2>3
    <3> QED BY <1>2, <2>3, <3>1 DEF Even
  <2> QED BY <2>1, <2>2, <2>3
<1>5. job'.at \in {"control", "idle"}
  BY DEF MoveRows, Witnessed, Idle, TInv, RewritesTypeOK
<1>6. Cleared'
  BY <1>5 DEF Cleared, RewritesAssumption
<1> QED BY <1>3, <1>4, <1>6 DEF RowsInv, Known

\* A publication replaces every table of its league at once.
LEMMA BundleKeepsRows ==
  ASSUME TInv, RewritesAssumption, RowsInv, NEW b \in Bundle, MergeBundle(b)
  PROVE  RowsInv'
<1> SUFFICES ASSUME ~torn' PROVE RowsInv'
  BY DEF RowsInv
<1> DEFINE n == Target[b]
           k == [t \in Table |-> [s \in Season |-> IF s \in Holds[b] THEN <<b>> ELSE <<>>]]
<1>0. /\ ~torn /\ Once /\ \A m \in Name : m \in begun \/ Even(m)
      /\ rows \in Rows /\ n \in Name /\ begun' = begun /\ job = Idle /\ job' = job
  BY DEF RowsInv, MergeBundle, Known, TInv, RewritesTypeOK, RewritesAssumption, Idle
<1>1. rows'[n] = k /\ \A m \in Name \ {n} : rows'[m] = rows[m]
  <2>1. rows' = [rows EXCEPT ![n] = k]
    BY DEF MergeBundle
  <2> HIDE DEF n, k
  <2> QED BY <1>0, <2>1 DEF Rows
<1>2. Once'
  <2> SUFFICES ASSUME NEW m \in Name, NEW t \in Table, NEW s \in Season
               PROVE  Len(rows'[m][t][s]) <= 1
    BY DEF Once
  <2>1. CASE m = n
    <3>1. rows'[m][t][s] = <<b>> \/ rows'[m][t][s] = <<>>
      BY <1>1, <2>1
    <3>2. Len(<<b>>) = 1 /\ Len(<<>>) = 0
      OBVIOUS
    <3> DEFINE one == <<b>>
               none == <<>>
               q == rows'[m][t][s]
    <3>3. (q = one \/ q = none) /\ Len(one) = 1 /\ Len(none) = 0
      BY <3>1, <3>2
    <3> HIDE DEF k, n, one, none, q
    <3>4. Len(q) \in {0, 1}
      BY <3>3, Zenon
    <3>5. \A i \in {0, 1} : i <= 1
      OBVIOUS
    <3> QED BY <3>4, <3>5, Zenon DEF q
  <2>2. CASE m # n
    BY <1>0, <1>1, <2>2 DEF Once
  <2> QED BY <2>1, <2>2
<1>3. \A m \in Name : m \in begun' \/ Even(m)'
  <2> SUFFICES ASSUME NEW m \in Name, m \notin begun PROVE Even(m)'
    BY <1>0
  <2>1. CASE m = n
    BY <1>1, <2>1 DEF Even
  <2>2. CASE m # n
    BY <1>0, <1>1, <2>2 DEF Even
  <2> QED BY <2>1, <2>2
<1>4. Cleared'
  BY <1>0 DEF Cleared, Idle, RewritesAssumption
<1> QED BY <1>2, <1>3, <1>4 DEF RowsInv, Known

\* Every step keeps the rows of every league once.
LEMMA RowsStep ==
  ASSUME TInv, RewritesAssumption, Small # {}, RowsInv, [Next]_vars
  PROVE  RowsInv'
<1> USE DEF store, ops, sends
<1>1. ASSUME NEW u \in Upload, DecideUpload(u) \/ StartUpload(u) \/ UploadStep(u)
      PROVE  RowsInv'
  BY <1>1, UploadRows
<1>2. ASSUME NEW o \in Op, MoveRows(o)
      PROVE  RowsInv'
  BY <1>2, MoveKeepsRows
<1>3. ASSUME NEW b \in Bundle, MergeBundle(b)
      PROVE  RowsInv'
  BY <1>3, BundleKeepsRows
<1>4. ASSUME rows' = rows, begun' = begun, torn' = torn, job' = job
      PROVE  RowsInv'
  BY <1>4 DEF RowsInv, Once, Cleared, Known, Even, Empty
<1>5. ASSUME rows' = rows, begun' = begun, torn' = torn,
             job.at \in {"idle", "data", "control"}, job'.at \in {"idle", "data", "control"}
      PROVE  RowsInv'
  <2>1. Cleared'
    BY <1>5 DEF Cleared, RewritesAssumption
  <2> QED BY <1>5, <2>1 DEF RowsInv, Once, Known, Even
<1>6. ASSUME NEW o \in Op, StartRename(o) \/ KeepRows(o) \/ DataFails(o) \/ LinkName(o)
                           \/ EndRename(o)
      PROVE  RowsInv'
  <2>1. rows' = rows /\ begun' = begun /\ torn' = torn
    BY <1>6 DEF StartRename, KeepRows, DataFails, LinkName, EndRename
  <2>2. job.at \in {"idle", "data", "control"} /\ job'.at \in {"idle", "data", "control"}
    <3>1. job.at \in {"idle", "data", "control"}
      BY <1>6 DEF StartRename, KeepRows, DataFails, LinkName, EndRename, Idle
    <3>2. \/ job' = [Idle EXCEPT !.req = o, !.at = "data"]
          \/ job' = [job EXCEPT !.at = "control"] \/ job' = Idle
      BY <1>6 DEF StartRename, KeepRows, DataFails, Witnessed, LinkName, EndRename
    <3>3. CASE job' = [Idle EXCEPT !.req = o, !.at = "data"]
      BY <3>1, <3>3 DEF Idle
    <3>4. CASE job' = [job EXCEPT !.at = "control"]
      <4>1. job'.at = "control"
        BY <3>4 DEF TInv, RewritesTypeOK
      <4> QED BY <3>1, <4>1
    <3>5. CASE job' = Idle
      BY <3>1, <3>5 DEF Idle
    <3> QED BY <3>2, <3>3, <3>4, <3>5
  <2> QED BY <1>5, <2>1, <2>2
<1>7. ASSUME NEW b \in Bundle, Capture(b)
      PROVE  RowsInv'
  BY <1>4, <1>7 DEF Capture
<1>8. ASSUME NEW x \in Upload \cup Bundle, MarkImported(x)
      PROVE  RowsInv'
  BY <1>4, <1>8 DEF MarkImported
<1>9. ASSUME NEW n \in Name, Register(n)
      PROVE  RowsInv'
  BY <1>4, <1>9 DEF Register
<1>10. CASE Interrupted
  <2> SUFFICES ASSUME ~torn' PROVE RowsInv'
    BY DEF RowsInv
  <2>1. /\ ~torn /\ ~(job.at = "begin" /\ ~job.fast)
        /\ rows' = rows /\ begun' = begun /\ job' = Idle
    BY <1>10 DEF Interrupted
  <2>2. Cleared'
    BY <2>1 DEF Cleared, Idle, RewritesAssumption
  <2> QED BY <2>1, <2>2 DEF RowsInv, Once, Known, Even
<1>11. CASE UNCHANGED vars
  BY <1>4, <1>11 DEF vars
<1> QED BY <1>1, <1>2, <1>3, <1>6, <1>7, <1>8, <1>9, <1>10, <1>11 DEF Next, RenameStep

\* No season is stored twice, for any uploads, bundles and renames and any
\* number of failures, as long as every upload has a table small enough to be
\* looked at.
THEOREM StoredOnce == Small # {} => (Spec => []RowsOnce)
<1> SUFFICES ASSUME Small # {} PROVE Spec => []RowsOnce
  OBVIOUS
<1> USE RewritesAssumption
<1>1. Init => RowsInv
  <2> SUFFICES ASSUME Init PROVE RowsInv
    OBVIOUS
  <2>1. Once /\ \A n \in Name : Even(n)
    BY DEF Init, NoRows, Once, Even
  <2>2. Cleared
    BY DEF Init, Idle, Cleared
  <2> QED BY <2>1, <2>2 DEF RowsInv
<1>2. TInv /\ RowsInv /\ [Next]_vars => RowsInv'
  BY RowsStep
<1>3. RowsInv => RowsOnce
  BY DEF RowsInv, Once, RowsOnce
<1> QED BY <1>1, <1>2, <1>3, RewritesTyped, PTL DEF Spec

-----------------------------------------------------------------------------
(* What is left of RenameFinishes when the fairness is taken away.           *)

\* Whoever holds _merge_lock has a next step: its place is one that its kind of
\* request goes on from, without waiting for anybody.
HolderHasStep ==
  job # Idle => \/ job.req \in Upload /\ job.at \in Table \cup {"begin", "next"}
                \/ job.req \in Op /\ job.at \in {"data", "control"}

\* A request ends, or is at a place its kind goes on from.
JobInv == job.at = "idle" => job = Idle

LEMMA JobStep == ASSUME TInv, JobInv, RewritesAssumption, [Next]_vars PROVE JobInv'
<1> USE DEF TInv, RewritesTypeOK, RewritesAssumption, JobInv
<1>1. \/ job' = job \/ job' = Idle
      \/ \E x \in Doing \ {"idle"} : job'.at = x
  <2>1. ASSUME NEW u \in Upload, StartUpload(u) \/ BeginMerge(u) \/ InsertRows(u) \/ FinishUpload(u)
        PROVE  job' = Idle \/ job'.at \in {"begin", "next"}
    BY <2>1 DEF StartUpload, BeginMerge, InsertRows, FinishUpload
  <2>2. ASSUME NEW u \in Upload, ClearTable(u) PROVE job'.at \in Table
    BY <2>2 DEF ClearTable
  <2>3. ASSUME NEW o \in Op, StartRename(o) \/ RenameStep(o)
        PROVE  job' = Idle \/ job'.at \in {"data", "control"}
    <3>1. \/ job' = [Idle EXCEPT !.req = o, !.at = "data"]
          \/ job' = [job EXCEPT !.at = "control"]
          \/ job' = Idle
      BY <2>3 DEF StartRename, RenameStep, MoveRows, KeepRows, DataFails, LinkName, EndRename,
         Witnessed
    <3>2. job' = [Idle EXCEPT !.req = o, !.at = "data"] => job'.at = "data"
      BY DEF Idle
    <3>3. job' = [job EXCEPT !.at = "control"] => job'.at = "control"
      OBVIOUS
    <3> QED BY <3>1, <3>2, <3>3
  <2>4. ASSUME ~(\E u \in Upload : StartUpload(u) \/ UploadStep(u)),
               ~(\E o \in Op : StartRename(o) \/ RenameStep(o))
        PROVE  job' \in {job, Idle}
    BY <2>4 DEF Next, DecideUpload, Capture, MergeBundle, MarkImported, Interrupted, Register, vars
  <2> QED BY <2>1, <2>2, <2>3, <2>4 DEF UploadStep, Doing
<1> QED BY <1>1

\* _merge_lock is never left with a request that has nothing more to do, whatever
\* fails and whenever the server stops.
THEOREM HolderGoesOn == Spec => []HolderHasStep
<1> USE RewritesAssumption
<1>1. Init => JobInv
  BY DEF Init, JobInv
<1>2. TInv /\ JobInv /\ [Next]_vars => JobInv'
  BY JobStep
<1>3. TInv /\ JobInv => HolderHasStep
  BY DEF TInv, RewritesTypeOK, AtUpload, AtRename, Doing, JobInv, HolderHasStep
<1> QED BY <1>1, <1>2, <1>3, RewritesTyped, PTL DEF Spec

\* How many steps the request at work is from giving the lock back.
StepsLeft ==
  CASE job.at = "idle" -> 0
    [] job.at = "next" -> 2 * Cardinality(job.todo) + 1
    [] job.at \in Table \cup {"begin"} -> 2 * Cardinality(job.todo) + 2
    [] job.at = "data" -> 2
    [] job.at = "control" -> 1

\* Each step of the request at work brings the lock nearer to being free.
LockNears ==
  [][/\ \A u \in Upload : UploadStep(u) => job.req = u /\ StepsLeft' < StepsLeft
     /\ \A o \in Op : RenameStep(o) => job.req = o /\ StepsLeft' < StepsLeft]_vars

\* A step of an upload: a table less, or the rows of the one just cleared.
LEMMA UploadNears ==
  ASSUME TInv, RewritesAssumption, IsFiniteSet(Table), NEW u \in Upload, UploadStep(u)
  PROVE  job.req = u /\ StepsLeft' < StepsLeft
<1> USE DEF RewritesAssumption
<1>t. /\ job \in [req : Upload \cup Op \cup {None}, at : Doing, todo : SUBSET Table, fast : BOOLEAN]
      /\ IsFiniteSet(job.todo) /\ Cardinality(job.todo) \in Nat
      /\ Idle.at = "idle"
  <2>1. job \in [req : Upload \cup Op \cup {None}, at : Doing, todo : SUBSET Table, fast : BOOLEAN]
    BY DEF TInv, RewritesTypeOK
  <2>2. IsFiniteSet(job.todo)
    BY <2>1, FS_Subset
  <2> QED BY <2>1, <2>2, FS_CardinalityType DEF Idle
<1>1. ASSUME BeginMerge(u) PROVE job.req = u /\ StepsLeft' < StepsLeft
  <2>1. job.req = u /\ job.at = "begin" /\ job'.at = "next" /\ job'.todo = job.todo
    BY <1>t, <1>1 DEF BeginMerge
  <2>2. StepsLeft = 2 * Cardinality(job.todo) + 2 /\ StepsLeft' = 2 * Cardinality(job.todo) + 1
    BY <2>1 DEF StepsLeft
  <2> QED BY <1>t, <2>1, <2>2
<1>2. ASSUME ClearTable(u) PROVE job.req = u /\ StepsLeft' < StepsLeft
  <2>1. PICK t \in job.todo : job' = [job EXCEPT !.at = t, !.todo = @ \ {t}]
    BY <1>2 DEF ClearTable
  <2>2. job.req = u /\ job.at = "next" /\ job'.at = t /\ job'.todo = job.todo \ {t} /\ t \in Table
    BY <1>t, <1>2, <2>1 DEF ClearTable
  <2>3. Cardinality(job'.todo) = Cardinality(job.todo) - 1
    <3> DEFINE S == job.todo
    <3>1. IsFiniteSet(S) /\ t \in S /\ job'.todo = S \ {t}
      BY <1>t, <2>1, <2>2
    <3> HIDE DEF S
    <3>2. Cardinality(S \ {t}) = Cardinality(S) - 1
      BY <3>1, FS_RemoveElement
    <3> QED BY <3>1, <3>2 DEF S
  <2>4. StepsLeft = 2 * Cardinality(job.todo) + 1
    BY <2>2 DEF StepsLeft
  <2>5. StepsLeft' = 2 * Cardinality(job'.todo) + 2
    BY <2>2 DEF StepsLeft
  <2> QED BY <1>t, <2>2, <2>3, <2>4, <2>5
<1>3. ASSUME InsertRows(u) PROVE job.req = u /\ StepsLeft' < StepsLeft
  <2>1. job.req = u /\ job.at \in Table /\ job'.at = "next" /\ job'.todo = job.todo
    BY <1>t, <1>3 DEF InsertRows
  <2>2. StepsLeft = 2 * Cardinality(job.todo) + 2
    BY <2>1 DEF StepsLeft
  <2>3. StepsLeft' = 2 * Cardinality(job.todo) + 1
    BY <2>1 DEF StepsLeft
  <2> QED BY <1>t, <2>1, <2>2, <2>3
<1>4. ASSUME FinishUpload(u) PROVE job.req = u /\ StepsLeft' < StepsLeft
  <2>1. job.req = u /\ job.at = "next" /\ job'.at = "idle"
    BY <1>t, <1>4 DEF FinishUpload
  <2>2. StepsLeft = 2 * Cardinality(job.todo) + 1 /\ StepsLeft' = 0
    BY <2>1 DEF StepsLeft
  <2> QED BY <1>t, <2>1, <2>2
<1> QED BY <1>1, <1>2, <1>3, <1>4 DEF UploadStep

\* A step of a rename: from its first phase to its second, or to its end.
LEMMA RenameNears ==
  ASSUME TInv, RewritesAssumption, NEW o \in Op, RenameStep(o)
  PROVE  job.req = o /\ StepsLeft' < StepsLeft
<1> USE DEF RewritesAssumption
<1>1. /\ job.req = o
      /\ \/ job.at = "data" /\ (job'.at = "control" \/ job'.at = "idle")
         \/ job.at = "control" /\ job'.at = "idle"
  BY DEF TInv, RewritesTypeOK, RenameStep, MoveRows, KeepRows, DataFails, LinkName, EndRename,
     Witnessed, Idle
<1>2. CASE job.at = "data" /\ (job'.at = "control" \/ job'.at = "idle")
  <2>1. StepsLeft = 2 /\ StepsLeft' \in {0, 1}
    BY <1>2 DEF StepsLeft
  <2> QED BY <1>1, <2>1
<1>3. CASE job.at = "control" /\ job'.at = "idle"
  <2>1. StepsLeft = 1 /\ StepsLeft' = 0
    BY <1>3 DEF StepsLeft
  <2> QED BY <1>1, <2>1
<1> QED BY <1>1, <1>2, <1>3

\* No request holds _merge_lock for ever: an upload is two steps for each table
\* from its end, a rename two.
THEOREM LockComesBack == ASSUME IsFiniteSet(Table) PROVE Spec => LockNears
<1>1. TInv /\ [Next]_vars =>
        [/\ \A u \in Upload : UploadStep(u) => job.req = u /\ StepsLeft' < StepsLeft
         /\ \A o \in Op : RenameStep(o) => job.req = o /\ StepsLeft' < StepsLeft]_vars
  BY UploadNears, RenameNears, RewritesAssumption
<1> QED BY <1>1, RewritesTyped, PTL DEF Spec, LockNears

\* A rename that has moved its rows gives up only when something fails, or when
\* another league has taken the new name.
HalfDoneGoesOn ==
  [][\A o \in moved \ linked :
       job.req = o /\ job' = Idle /\ faults' = faults /\ ~Unrelated(o) => o \in linked']_vars

\* With HolderGoesOn and LockComesBack: a rename that is run again until it is
\* through gets through, unless something fails every time ("a retry finishes
\* the other phase", main.py:3096).
THEOREM RepetitionFinishes == Spec => HalfDoneGoesOn
<1>1. TInv /\ [Next]_vars =>
        [\A o \in moved \ linked :
           job.req = o /\ job' = Idle /\ faults' = faults /\ ~Unrelated(o) => o \in linked']_vars
  <2> SUFFICES ASSUME TInv, Next, NEW o \in moved \ linked, job.req = o, job' = Idle,
                      faults' = faults, ~Unrelated(o)
               PROVE  o \in linked'
    OBVIOUS
  <2> USE RewritesAssumption DEF RewritesAssumption, TInv, RewritesTypeOK
  <2>1. o \in Op /\ o \notin Upload /\ job # Idle /\ faults \in Nat
    BY DEF Idle
  <2>2. ~Fault
    BY <2>1 DEF Fault
  <2>3. ASSUME NEW p \in Op, RenameStep(p) PROVE o \in linked'
    <3>1. p = o /\ o \in moved /\ o \notin linked
      BY <2>3 DEF RenameStep, MoveRows, KeepRows, DataFails, LinkName, EndRename
    <3>2. ~MoveRows(o) /\ ~DataFails(o)
      BY <3>1 DEF MoveRows, DataFails, AlreadyMoved
    <3>3. ~KeepRows(o)
      BY DEF KeepRows, Idle
    <3>4. ~EndRename(o)
      BY <2>2, <3>1 DEF EndRename
    <3> QED BY <2>3, <3>1, <3>2, <3>3, <3>4 DEF RenameStep, LinkName
  <2>4. ASSUME NEW u \in Upload PROVE ~UploadStep(u) /\ ~StartUpload(u) /\ ~DecideUpload(u)
    BY <2>1 DEF UploadStep, BeginMerge, ClearTable, InsertRows, FinishUpload, StartUpload, DecideUpload
  <2>5. ~Interrupted
    BY <2>2 DEF Interrupted
  <2> QED BY <2>1, <2>3, <2>4, <2>5 DEF Next, StartRename, Capture, MergeBundle, MarkImported, Register
<1> QED BY <1>1, RewritesTyped, PTL DEF Spec, HalfDoneGoesOn

=============================================================================
