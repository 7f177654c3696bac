---------------------------- MODULE LeagueRewrites ----------------------------
(***************************************************************************)
(* The writers of ___leagues that rewrite a whole league: the legacy upload *)
(* of /merge-league, whose statements commit one by one, and the rename of  *)
(* /rename-league, one transaction in ___leagues and then one in ___ops,    *)
(* each with a receipt of its own; beside them the delta publications.      *)
(*                                                                         *)
(* All of them hold _merge_lock, so one request at a time is at work; it    *)
(* may fail, and the server may crash, between any two commits.  A client   *)
(* sends its request again as often as it likes, also after a success.     *)
(*                                                                         *)
(* The rows of a league are told apart by table and season, as the identity *)
(* keys of the registry do; each season holds the uploads or bundles it was *)
(* inserted from, twice if it was inserted twice.                          *)
(***************************************************************************)
EXTENDS Naturals, Sequences

CONSTANTS
  Name, Season,
  Fact, Aggregate, \* the tables: of facts, and of aggregates
  Small,           \* tables whose upload is small enough for a sentinel
  Upload, Bundle, Op,
  Target,          \* [Upload \cup Bundle -> Name]
  Holds,           \* [Upload \cup Bundle -> SUBSET Season]
  Fenced,          \* bundles with a base_generation
  Src, Dst,        \* [Op -> Name]
  Listings,        \* the sets of names the inventory may list at first
  None, MaxFaults

Table == Fact \cup Aggregate

ASSUME RewritesAssumption ==
  /\ Small \subseteq Table /\ Fenced \subseteq Bundle
  /\ Target \in [Upload \cup Bundle -> Name]
  /\ Holds \in [Upload \cup Bundle -> SUBSET Season]
  /\ Src \in [Op -> Name] /\ Dst \in [Op -> Name] /\ \A o \in Op : Src[o] # Dst[o]
  /\ Listings \subseteq SUBSET Name
  /\ None \notin Name \cup Upload \cup Op \cup {"ours", "other", "unknown"}
  /\ Upload \cap Op = {}
  /\ Table \cap {"idle", "begin", "next", "data", "control"} = {}
  /\ MaxFaults \in Nat

VARIABLES
  rows,      \* [Name -> [Table -> [Season -> what its rows came from]]]
  gen,       \* [Name -> generation]
  begun,     \* names with a row in league_merge_state
  filed,     \* receipts of committed bundles: pairs of name and bundle
  moved,     \* rename operations with a CONSOLIDATED receipt in ___leagues
  linked,    \* rename operations with a COMMITTED receipt in ___ops
  entry,     \* [Name -> the league its inventory row stands for, or None;
             \*  a row "unknown" carries no id of a league]
  alias,     \* [Name -> where league_url_aliases sends it, or None]
  job,       \* the request that holds _merge_lock, and how far it is
  skip,      \* uploads whose client asked to skip the delete
  sent,      \* uploads and bundles whose client has decided what to send
  base,      \* [Bundle -> the generation it was built from]
  answered,  \* requests that were answered with success
  outdated,  \* ghost: fenced bundles whose league was rewritten after the capture
  torn,      \* ghost: a merge state was lost while it was being replaced
  faults

store == <<rows, gen, begun, filed, moved>>
ops   == <<linked, entry, alias>>
sends == <<skip, sent, base>>
vars  == <<store, ops, job, sends, answered, outdated, torn, faults>>

Idle == [req |-> None, at |-> "idle", todo |-> {}, fast |-> FALSE]
NoRows == [t \in Table |-> [s \in Season |-> <<>>]]

Init ==
  /\ rows = [n \in Name |-> NoRows] /\ gen = [n \in Name |-> 0]
  /\ begun = {} /\ filed = {} /\ moved = {} /\ linked = {}
  /\ \E L \in Listings : entry = [n \in Name |-> IF n \in L THEN "ours" ELSE None]
  /\ alias = [n \in Name |-> None]
  /\ job = Idle /\ skip = {} /\ sent = {} /\ base = [b \in Bundle |-> 0]
  /\ answered = {} /\ outdated = {} /\ torn = FALSE /\ faults = 0

Empty(n, t) == \A s \in Season : rows[n][t][s] = <<>>

\* Fenced bundles that were built from one of these leagues before it is
\* rewritten, and are not committed yet.
Outdates(names) ==
  outdated' = outdated \cup {b \in Fenced \cap sent :
                  Target[b] \in names /\ <<Target[b], b>> \notin filed}

\* The answer arrives, or is lost on its way.
Answer(r) == answered' \in {answered, answered \cup {r}}

Fault == faults < MaxFaults /\ faults' = faults + 1

-----------------------------------------------------------------------------
(* /merge-league.                                                           *)

\* merge_league of fly_target.py asks accounts.league_inventory whether the
\* league was ever imported.  That flag is set by a request of its own, long
\* after the rows (mark_league_imported), and read with a fallback: it may
\* say either, whatever rows there are.
DecideUpload(u) ==
  /\ u \notin sent /\ sent' = sent \cup {u}
  /\ skip' \in {skip, skip \cup {u}}
  /\ UNCHANGED <<store, ops, job, base, answered, outdated, torn, faults>>

\* A bug: the merge state of an attempt before is not asked for.
TrustsClient(u) == u \in skip

\* skip_delete, unless an attempt before has left a merge state or a small
\* table already has rows.
SkipsDelete(u) ==
  /\ u \in skip /\ Target[u] \notin begun
  /\ \A t \in Small : Empty(Target[u], t)

\* start_merge_state: the row of the attempt before is deleted, and the new
\* one inserted, in two commits.
StartUpload(u) ==
  /\ job = Idle /\ u \in sent
  /\ job' = [req |-> u, at |-> "begin", todo |-> Table, fast |-> SkipsDelete(u)]
  /\ begun' = begun \ {Target[u]}
  /\ UNCHANGED <<rows, gen, filed, moved, ops, sends, answered, outdated, torn, faults>>

BeginMerge(u) ==
  /\ job.req = u /\ job.at = "begin"
  /\ job' = [job EXCEPT !.at = "next"]
  /\ begun' = begun \cup {Target[u]}
  /\ UNCHANGED <<rows, gen, filed, moved, ops, sends, answered, outdated, torn, faults>>

\* The next table: its rows are deleted, in a commit of its own.
ClearTable(u) ==
  /\ job.req = u /\ job.at = "next"
  /\ \E t \in job.todo :
       /\ job' = [job EXCEPT !.at = t, !.todo = @ \ {t}]
       /\ rows' = IF job.fast THEN rows ELSE [rows EXCEPT ![Target[u]][t] = NoRows[t]]
  /\ Outdates({Target[u]})
  /\ UNCHANGED <<gen, begun, filed, moved, ops, sends, answered, torn, faults>>

InsertRows(u) ==
  /\ job.req = u /\ job.at \in Table
  /\ rows' = [rows EXCEPT ![Target[u]][job.at] =
       [s \in Season |-> IF s \in Holds[u] THEN Append(@[s], u) ELSE @[s]]]
  /\ job' = [job EXCEPT !.at = "next"]
  /\ Outdates({Target[u]})
  /\ UNCHANGED <<gen, begun, filed, moved, ops, sends, answered, torn, faults>>

FinishUpload(u) ==
  /\ job.req = u /\ job.at = "next" /\ job.todo = {}
  /\ job' = Idle /\ Answer(u)
  /\ UNCHANGED <<store, ops, sends, outdated, torn, faults>>

-----------------------------------------------------------------------------
(* /rename-league: _rename_league_server_side.                              *)

\* validate_control_plane_rename: both names have a row, and the rows do not
\* carry the same id.
Unrelated(o) ==
  /\ entry[Src[o]] # None /\ entry[Dst[o]] # None
  /\ entry[Src[o]] # entry[Dst[o]] \/ entry[Src[o]] = "unknown"

StartRename(o) ==
  /\ job = Idle /\ ~Unrelated(o)
  /\ job' = [Idle EXCEPT !.req = o, !.at = "data"]
  /\ UNCHANGED <<store, ops, sends, answered, outdated, torn, faults>>

\* What a season of a table holds afterwards: facts of the target win over the
\* source's, aggregates of the source over the target's.
Kept(t, source, target) ==
  IF t \in Fact THEN IF target # <<>> THEN target ELSE source
                ELSE IF source # <<>> THEN source ELSE target

Consolidated(o) ==
  [rows EXCEPT
    ![Dst[o]] = [t \in Table |-> [s \in Season |->
                  Kept(t, rows[Src[o]][t][s], rows[Dst[o]][t][s])]],
    ![Src[o]] = NoRows]

HigherGen(o) == IF gen[Src[o]] > gen[Dst[o]] THEN gen[Src[o]] ELSE gen[Dst[o]]

\* A bug: a retry consolidates again.
MovesAgain(o) == FALSE

\* The durable receipt of an operation that is sent again.
AlreadyMoved(o) == o \in moved

\* A bug: a data phase that raised counts as done.
GoesOnAnyway(o) == job' = [job EXCEPT !.at = "control"]

\* COMMIT raised: the receipt read by an independent connection decides, when
\* it can be read.
Witnessed(o) == job' = IF o \in moved' THEN [job EXCEPT !.at = "control"] ELSE Idle

\* The transaction in ___leagues: it commits, and the run goes on; or an
\* exception follows, or precedes, its commit.
MoveRows(o) ==
  /\ job.req = o /\ job.at = "data" /\ ~AlreadyMoved(o)
  /\ rows' = Consolidated(o)
  /\ gen' = [gen EXCEPT ![Dst[o]] = HigherGen(o), ![Src[o]] = 0]
  /\ begun' = IF Src[o] \in begun THEN (begun \ {Src[o]}) \cup {Dst[o]} ELSE begun
  /\ filed' = {<<IF p[1] = Src[o] THEN Dst[o] ELSE p[1], p[2]>> : p \in filed}
  /\ moved' = moved \cup {o}
  /\ Outdates({Src[o], Dst[o]})
  /\ \/ job' = [job EXCEPT !.at = "control"] /\ UNCHANGED faults
     \/ Fault /\ (Witnessed(o) \/ job' = Idle)
  /\ UNCHANGED <<ops, sends, answered, torn>>

\* A bug: the receipt of the data phase is taken for the whole operation.
AnswersAtOnce(o) ==
  /\ job.req = o /\ job.at = "data" /\ AlreadyMoved(o)
  /\ job' = Idle /\ Answer(o)
  /\ UNCHANGED <<store, ops, sends, outdated, torn, faults>>

KeepRows(o) ==
  /\ job.req = o /\ job.at = "data" /\ AlreadyMoved(o)
  /\ job' = [job EXCEPT !.at = "control"]
  /\ UNCHANGED <<store, ops, sends, answered, outdated, torn, faults>>

\* The data phase raises before its commit, or the fleet window is locked.
DataFails(o) ==
  /\ job.req = o /\ job.at = "data" /\ ~AlreadyMoved(o)
  /\ Fault /\ moved' = moved /\ (Witnessed(o) \/ job' = Idle)
  /\ UNCHANGED <<rows, gen, begun, filed, ops, sends, answered, outdated, torn>>

\* A bug: the alias of the old name is written, its inventory row stays.
LeavesEntry(o) == entry

\* _merge_inventory: one row, under the new name.
Retargeted(o) ==
  [entry EXCEPT ![Src[o]] = None,
                ![Dst[o]] = IF @ # None THEN @ ELSE entry[Src[o]]]

\* The transaction in ___ops; its answer may be lost, or it may raise after
\* its commit.
LinkName(o) ==
  /\ job.req = o /\ job.at = "control" /\ o \notin linked /\ ~Unrelated(o)
  /\ entry' = Retargeted(o)
  /\ alias' = [alias EXCEPT ![Src[o]] = Dst[o]]
  /\ linked' = linked \cup {o}
  /\ job' = Idle
  /\ \/ Answer(o) /\ UNCHANGED faults
     \/ Fault /\ UNCHANGED answered
  /\ UNCHANGED <<store, sends, outdated, torn>>

\* The other receipt is there too; or the target was occupied meanwhile, or
\* the control phase raises before its commit.
EndRename(o) ==
  /\ job.req = o /\ job.at = "control"
  /\ \/ o \in linked /\ Answer(o) /\ UNCHANGED faults
     \/ o \notin linked /\ Unrelated(o) /\ UNCHANGED <<answered, faults>>
     \/ o \notin linked /\ Fault /\ UNCHANGED answered
  /\ job' = Idle
  /\ UNCHANGED <<store, ops, sends, outdated, torn>>

-----------------------------------------------------------------------------
(* Delta publications, the crash, and an import that registers a name.      *)

Capture(b) ==
  /\ b \notin sent /\ sent' = sent \cup {b}
  /\ base' = [base EXCEPT ![b] = gen[Target[b]]]
  /\ UNCHANGED <<store, ops, job, skip, answered, outdated, torn, faults>>

\* _merge_delta_bundle, of one that is not yet filed and passes its fence: it
\* replaces every row of the league.  (Its other checks are DeltaPublish's.)
MergeBundle(b) ==
  LET n == Target[b] IN
  /\ job = Idle /\ b \in sent /\ <<n, b>> \notin filed
  /\ b \in Fenced => base[b] = gen[n]
  /\ rows' = [rows EXCEPT ![n] = [t \in Table |-> [s \in Season |->
                IF s \in Holds[b] THEN <<b>> ELSE <<>>]]]
  /\ gen' = [gen EXCEPT ![n] = @ + 1]
  /\ filed' = filed \cup {<<n, b>>}
  /\ UNCHANGED <<begun, moved, ops, job, sends, answered, outdated, torn, faults>>

\* The request at work raises, or the server stops: what it has committed stays.
Interrupted ==
  /\ job.req \in Upload \/ job.at = "data" \/ job.at = "control"
  /\ Fault /\ job' = Idle
  /\ torn' = (torn \/ (job.at = "begin" /\ ~job.fast))
  /\ UNCHANGED <<store, ops, sends, answered, outdated>>

\* An ___ops write needs no _merge_lock.
Register(n) ==
  /\ entry[n] = None /\ \A m \in Name : entry[m] # "other"
  /\ entry' = [entry EXCEPT ![n] = "other"]
  /\ UNCHANGED <<store, linked, alias, job, sends, answered, outdated, torn, faults>>

\* mark_league_imported, after a commit the client knows of.
MarkImported(x) ==
  /\ x \in answered \cup {p[2] : p \in filed}
  /\ entry[Target[x]] = None
  /\ entry' = [entry EXCEPT ![Target[x]] = "unknown"]
  /\ UNCHANGED <<store, linked, alias, job, sends, answered, outdated, torn, faults>>

-----------------------------------------------------------------------------
UploadStep(u) == BeginMerge(u) \/ ClearTable(u) \/ InsertRows(u) \/ FinishUpload(u)
RenameStep(o) ==
  MoveRows(o) \/ KeepRows(o) \/ DataFails(o) \/ LinkName(o) \/ EndRename(o)

Next ==
  \/ \E u \in Upload : DecideUpload(u) \/ StartUpload(u) \/ UploadStep(u)
  \/ \E o \in Op : StartRename(o) \/ RenameStep(o)
  \/ \E b \in Bundle : Capture(b) \/ MergeBundle(b)
  \/ \E x \in Upload \cup Bundle : MarkImported(x)
  \/ Interrupted \/ \E n \in Name : Register(n)

Spec == Init /\ [][Next]_vars

\* The request at work ends, by its deadlines; and the operator of a rename
\* runs it again until it is through, as fly_target.py:153 asks for, each time
\* getting _merge_lock, which is first come first served.
FairSpec ==
  /\ Spec
  /\ \A u \in Upload : WF_vars(UploadStep(u))
  /\ \A o \in Op : WF_vars(RenameStep(o)) /\ SF_vars(StartRename(o))

-----------------------------------------------------------------------------
(* Properties.                                                              *)

\* The range of every variable.
Doing == Table \cup {"idle", "begin", "next", "data", "control"}
Rows == [Name -> [Table -> [Season -> Seq(Upload \cup Bundle)]]]
RewritesTypeOK ==
  /\ rows \in Rows
  /\ gen \in [Name -> Nat] /\ begun \subseteq Name /\ filed \subseteq Name \X Bundle
  /\ moved \subseteq Op /\ linked \subseteq Op
  /\ entry \in [Name -> {"ours", "other", "unknown", None}]
  /\ alias \in [Name -> Name \cup {None}]
  /\ job \in [req : Upload \cup Op \cup {None}, at : Doing,
             todo : SUBSET Table, fast : BOOLEAN]
  /\ skip \subseteq Upload /\ sent \subseteq Upload \cup Bundle /\ base \in [Bundle -> Nat]
  /\ answered \subseteq Upload \cup Op /\ outdated \subseteq Fenced
  /\ torn \in BOOLEAN /\ faults \in 0 .. MaxFaults

\* No season of a table is stored twice, although the first import of a league
\* skips the delete: not after a failed or repeated upload, and not when a
\* publication or a rename has brought rows between the client's look and the
\* insertion (has_prior_merge_state, the sentinel tables); unless the server
\* once stopped between the two commits that replace a merge state.
RowsOnce ==
  torn \/ \A n \in Name, t \in Table, s \in Season : Len(rows[n][t][s]) <= 1

\* A rename that has its receipt never moves rows again: what was published
\* under the old name afterwards stays there when the request is repeated.
MovedOnce ==
  [][\A o \in moved : job.req = o => rows' = rows /\ gen' = gen]_vars

\* A rename that is answered with success is durable in both databases,
\* whatever was raised after a commit; and nothing in ___ops ever goes by the
\* new name before the rows do.
OkMeansBoth ==
  /\ linked \subseteq moved
  /\ answered \cap Op \subseteq linked

\* The league is in the inventory under one name, and it is not one that a
\* finished rename has taken from it.
OneNameLeft ==
  \A o \in linked : (\A p \in linked \ {o} : Dst[p] # Src[o]) => entry[Src[o]] # "ours"

\* A rename that was done by half is completed by running it again, unless
\* another league has taken the new name meanwhile.
RenameFinishes == \A o \in Op : o \in moved ~> o \in linked \/ Unrelated(o)

(* What the code does not keep.                                             *)

\* "retry will replace rows" (main.py:5702), whenever the server stopped.
NeverTwice == \A n \in Name, t \in Table, s \in Season : Len(rows[n][t][s]) <= 1

\* "Snapshot generation ... is stale" (main.py:4053): a fenced bundle is not
\* committed once its league was rewritten after the capture.
FenceSeesRewrites ==
  [][\A b \in outdated : <<Target[b], b>> \in filed' => <<Target[b], b>> \in filed]_vars

\* A bundle is committed once: its receipt moves to the new name, and a repeat
\* of its request under the old one does not find it.
FiledOnce == \A p, q \in filed : p[2] = q[2] => p = q

\* The old name of a renamed league leaves the inventory for good.
OldNameGone == \A o \in linked : entry[Src[o]] \notin {"ours", "unknown"}

\* "a retry finishes the other phase" (main.py:3096), whoever took the name.
RetryFinishes == \A o \in Op : o \in moved ~> o \in linked
=============================================================================
