------------------------------ MODULE OpsLocks ------------------------------
(***************************************************************************)
(* The ___ops database inside one server process: who may hold its file    *)
(* open, and who may close it.  Threads take _ops_rebuild_lock, then       *)
(* db._ops_lock; queries that read ___ops from a pool connection count     *)
(* themselves as users of the one shared attachment instead.  A writer     *)
(* waits for the users to leave; /merge-ops rebuilds a copy of the file    *)
(* beside the old one and swaps it in; a league writer on the event loop   *)
(* closes every connection and takes neither lock.                         *)
(*                                                                         *)
(* Each task runs one request and stops.  The content of the file is the   *)
(* set of the writers and bundles whose updates it holds.                  *)
(***************************************************************************)
EXTENDS Naturals, FiniteSets

CONSTANTS
  Reader,       \* ___ops queries on the dedicated connection
  Query,        \* pool queries and derived rebuilds that attach ___ops
  Fleet,        \* fleet merges whose rollups read ___ops
  Writer,       \* ___ops writes of /query-rw and of the rename
  Cold,         \* writers that need an exclusive connection
  Renamer,      \* writers that validate a rename first
  Merger,       \* /merge-ops
  LeagueWriter, \* endpoints that drain and close the pool under _merge_lock
  None

Task == Reader \cup Query \cup Fleet \cup Writer \cup Merger \cup LeagueWriter

ASSUME OpsAssumption ==
  /\ Cold \subseteq Writer /\ Renamer \subseteq Cold
  /\ None \notin Task
  /\ Reader \cap (Query \cup Fleet \cup Writer \cup Merger \cup LeagueWriter) = {}
  /\ Query \cap (Fleet \cup Writer \cup Merger \cup LeagueWriter) = {}
  /\ Fleet \cap (Writer \cup Merger \cup LeagueWriter) = {}
  /\ Writer \cap (Merger \cup LeagueWriter) = {}
  /\ Merger \cap LeagueWriter = {}

VARIABLES
  rebuild,  \* the holder of _ops_rebuild_lock, or None
  ops,      \* the holder of db._ops_lock, or None
  users,    \* _ops_attachment_users
  opsConn,  \* the dedicated connection is open and ___ops attached
  pool,     \* the ___leagues pool has connections
  writes,   \* _ops_write_count
  content,  \* the updates ___ops.duckdb holds
  staging,  \* [Merger -> the updates its staging copy holds]
  pc,       \* [Task -> where it is]
  out       \* [Task -> its answer]

locks == <<rebuild, ops>>
disk  == <<content, staging>>
vars  == <<locks, users, opsConn, pool, writes, disk, pc, out>>

First(t) == IF t \in Renamer THEN "precheck"
            ELSE IF t \in Query THEN "lock"
            ELSE IF t \in LeagueWriter THEN "close"
            ELSE "gate"

Init ==
  /\ rebuild = None /\ ops = None
  /\ users = 0 /\ opsConn = TRUE /\ pool = TRUE /\ writes = 0
  /\ content = {} /\ staging = [t \in Merger |-> {}]
  /\ pc = [t \in Task |-> First(t)]
  /\ out = [t \in Task |-> "none"]

At(t, p) == pc[t] = p
Go(t, p) == pc' = [pc EXCEPT ![t] = p] /\ UNCHANGED out
Done(t, o) == pc' = [pc EXCEPT ![t] = "done"] /\ out' = [out EXCEPT ![t] = o]

\* Gives back what t holds of the two locks.
Release(t) ==
  /\ ops' = IF ops = t THEN None ELSE ops
  /\ rebuild' = IF rebuild = t THEN None ELSE rebuild
ReleaseOps == ops' = None /\ UNCHANGED rebuild

AfterLock(t) == IF t \in Reader THEN "read"
                ELSE IF t \in Writer THEN "drain" ELSE "attach"

-----------------------------------------------------------------------------
(* Plausible bugs, each in the place of the operator its comment names.     *)

\* NeedsGate: the lock order of a reader without the outer gate.
NoReaderGate(t) == t \in Fleet \cup Writer \cup Merger

\* NeedsGate: an ___ops write that forgets the rebuild lock.
NoWriterGate(t) == t \in Reader \cup Fleet \cup Merger

\* Drained: the drain stops at the last user.
OneUserLeft == users <= 1

\* AttachFailed: the user count goes up although the attachment failed.
LeaksUser(t) ==
  /\ users' = users + 1
  /\ Release(t) /\ Done(t, "failed")

\* AttachFailed: a missing attachment is waited for.
RetriesAttach(t) == UNCHANGED users /\ ReleaseOps /\ Go(t, "lock")

\* TakeOps: a read that keeps the connection and not the locks.
ReadsUnlocked(t) ==
  /\ At(t, "lock") /\ ops = None
  /\ IF t \in Reader THEN Release(t) ELSE ops' = t /\ UNCHANGED rebuild
  /\ Go(t, AfterLock(t))
  /\ opsConn' = (opsConn \/ t \in Reader)
  /\ UNCHANGED <<users, pool, writes, disk>>

\* CheckpointAndReopen: the gate is given back before the copy is taken.
CopiesOutsideGate(t) ==
  /\ At(t, "checkpoint")
  /\ \/ opsConn' = TRUE /\ pool' = TRUE /\ Go(t, "stage")
     \/ opsConn' \in BOOLEAN /\ UNCHANGED pool /\ Go(t, "undo")
  /\ Release(t)
  /\ UNCHANGED <<users, writes, disk>>

-----------------------------------------------------------------------------
(* The two locks.                                                           *)

NeedsGate(t) == t \in Reader \cup Fleet \cup Writer \cup Merger

\* _ops_rebuild_lock.acquire; /merge-ops then marks the write state.
TakeGate(t) ==
  /\ At(t, "gate")
  /\ IF NeedsGate(t) THEN rebuild = None /\ rebuild' = t ELSE UNCHANGED rebuild
  /\ IF t \in Merger THEN writes' = writes + 1 /\ Go(t, "drain1")
                     ELSE Go(t, "lock") /\ UNCHANGED writes
  /\ UNCHANGED <<ops, users, opsConn, pool, disk>>

\* Readers and renames have a deadline; the others wait as long as it takes.
GiveUpGate(t) ==
  /\ At(t, "gate") /\ t \in Reader \cup Renamer /\ rebuild # None
  /\ Done(t, "failed")
  /\ UNCHANGED <<locks, users, opsConn, pool, writes, disk>>

\* db._ops_lock.acquire.  A reader reopens a missing connection, or fails.
TakeOps(t) ==
  /\ At(t, "lock") /\ ops = None
  /\ \/ /\ ops' = t /\ Go(t, AfterLock(t))
        /\ opsConn' = (opsConn \/ t \in Reader) /\ UNCHANGED rebuild
     \/ /\ t \in Reader /\ ~opsConn
        /\ Release(t) /\ Done(t, "failed") /\ UNCHANGED opsConn
  /\ UNCHANGED <<users, pool, writes, disk>>

\* The two-second wait of an attachment, the deadline of a read or a rename;
\* any other write waits.
GiveUpOps(t) ==
  /\ At(t, "lock") /\ t \notin Writer \ Renamer /\ ops # None
  /\ Release(t) /\ Done(t, "failed")
  /\ UNCHANGED <<users, opsConn, pool, writes, disk>>

FinishRead(t) ==
  /\ At(t, "read")
  /\ Release(t) /\ \E o \in {"ok", "failed"} : Done(t, o)
  /\ UNCHANGED <<users, opsConn, pool, writes, disk>>

-----------------------------------------------------------------------------
(* The shared attachment: _acquire_ops_attachment, _release_ops_attachment. *)

AttachFailed(t) == UNCHANGED users /\ Release(t) /\ Done(t, "failed")

Attach(t) ==
  /\ At(t, "attach")
  /\ \/ opsConn /\ users' = users + 1 /\ ReleaseOps /\ Go(t, "attached")
     \/ ~opsConn /\ AttachFailed(t)
  /\ UNCHANGED <<opsConn, pool, writes, disk>>

\* The query or the merge ends; a fleet merge then leaves the gate.
Detach(t) ==
  /\ At(t, "attached")
  /\ users' = IF users = 0 THEN 0 ELSE users - 1
  /\ Release(t) /\ \E o \in {"ok", "failed"} : Done(t, o)
  /\ UNCHANGED <<opsConn, pool, writes, disk>>

-----------------------------------------------------------------------------
(* An ___ops write: _execute_ops_query_rw_serialized.                       *)

Drained == users = 0

\* Both locks held and nobody attached: enter the write state.  A cold writer
\* closes the dedicated connection and opens its own; a hot one borrows it,
\* reopening it when it is missing, which may fail.
BeginWrite(t) ==
  /\ At(t, "drain") /\ Drained
  /\ writes' = writes + 1
  /\ \/ opsConn' = (t \notin Cold) /\ Go(t, "write")
     \/ t \notin Cold /\ ~opsConn /\ UNCHANGED opsConn /\ Go(t, "tidy failed")
  /\ UNCHANGED <<locks, users, pool, disk>>

\* The attached readers outlast the writer's budget.
DrainTimeout(t) ==
  /\ At(t, "drain") /\ ~Drained
  /\ Release(t) /\ Done(t, "failed")
  /\ UNCHANGED <<users, opsConn, pool, writes, disk>>

\* The script commits or not; after a commit its checkpoint may still fail.
Write(t) ==
  /\ At(t, "write")
  /\ \/ content' = content \cup {t} /\ (Go(t, "tidy") \/ Go(t, "tidy failed"))
     \/ UNCHANGED content /\ Go(t, "tidy failed")
  /\ UNCHANGED <<locks, users, opsConn, pool, writes, staging>>

\* Only a completed hot write keeps its connection; otherwise it is closed and
\* reopened.  A clean-up that fails fails the request, except for a rename.
EndWrite(t) ==
  /\ \/ /\ At(t, "tidy") /\ t \notin Cold
        /\ UNCHANGED opsConn /\ Done(t, "ok")
     \/ /\ At(t, "tidy") /\ t \in Renamer
        /\ opsConn' \in BOOLEAN /\ Done(t, "ok")
     \/ /\ At(t, "tidy") /\ t \in Cold \ Renamer
        /\ \/ opsConn' = TRUE /\ Done(t, "ok")
           \/ opsConn' \in BOOLEAN /\ Done(t, "failed")
     \/ /\ At(t, "tidy failed")
        /\ opsConn' \in BOOLEAN /\ Done(t, "failed")
  /\ writes' = writes - 1
  /\ Release(t)
  /\ UNCHANGED <<users, pool, disk>>

\* The rename validates on a connection of its own, under db._ops_lock alone.
TakeOpsForCheck(t) ==
  /\ At(t, "precheck") /\ ops = None
  /\ ops' = t /\ Go(t, "check")
  /\ UNCHANGED <<rebuild, users, opsConn, pool, writes, disk>>

\* Validation refuses the rename, or the data phase follows and then the
\* control phase, which is a cold write.
FinishCheck(t) ==
  /\ At(t, "check")
  /\ ReleaseOps
  /\ (Go(t, "gate") \/ Done(t, "failed"))
  /\ UNCHANGED <<users, opsConn, pool, writes, disk>>

-----------------------------------------------------------------------------
(* /merge-ops: _merge_ops_tables.                                           *)

\* The users are gone, or the wait times out; the lock is taken after that.
DrainSnapshot(t) ==
  /\ \/ At(t, "drain1") /\ Drained /\ Go(t, "lock1")
     \/ At(t, "drain1") /\ ~Drained /\ Go(t, "undo")
     \/ At(t, "drain2") /\ Drained /\ Go(t, "lock2")
     \/ At(t, "drain2") /\ ~Drained /\ Go(t, "end")
  /\ UNCHANGED <<locks, users, opsConn, pool, writes, disk>>

\* with _ops_lock: close the dedicated connection and the pool.
CloseForSnapshot(t) ==
  /\ ops = None
  /\ \/ At(t, "lock1") /\ Go(t, "checkpoint")
     \/ At(t, "lock2") /\ Go(t, "swap")
  /\ ops' = t /\ opsConn' = FALSE /\ pool' = FALSE
  /\ UNCHANGED <<rebuild, users, writes, disk>>

\* Checkpoint the file and reopen; any of the three steps may raise.
CheckpointAndReopen(t) ==
  /\ At(t, "checkpoint")
  /\ \/ opsConn' = TRUE /\ pool' = TRUE /\ Go(t, "stage")
     \/ opsConn' \in BOOLEAN /\ UNCHANGED pool /\ Go(t, "undo")
  /\ ReleaseOps
  /\ UNCHANGED <<users, writes, disk>>

\* copy2 of the live file to the staging file, with reads online.
CopySnapshot(t) ==
  /\ At(t, "stage")
  /\ staging' = [staging EXCEPT ![t] = content]
  /\ Go(t, "build")
  /\ UNCHANGED <<locks, users, opsConn, pool, writes, content>>

\* Replace the tables in the staging copy; a bad bundle or the deadline fails.
BuildSnapshot(t) ==
  /\ At(t, "build")
  /\ \/ staging' = [staging EXCEPT ![t] = @ \cup {t}] /\ Go(t, "drain2")
     \/ UNCHANGED staging /\ Go(t, "undo")
  /\ UNCHANGED <<locks, users, opsConn, pool, writes, content>>

\* os.replace, then reopen: each may raise.
SwapSnapshot(t) ==
  /\ At(t, "swap")
  /\ \/ content' = staging[t] /\ opsConn' = TRUE /\ pool' = TRUE /\ Go(t, "end ok")
     \/ content' = staging[t] /\ opsConn' \in BOOLEAN /\ UNCHANGED pool /\ Go(t, "end")
     \/ UNCHANGED <<content, opsConn, pool>> /\ Go(t, "end")
  /\ ReleaseOps
  /\ UNCHANGED <<users, writes, staging>>

\* Without a result, a missing dedicated connection is reopened; the pool is not.
Undo(t) ==
  /\ At(t, "undo")
  /\ opsConn \/ ops = None
  /\ opsConn' \in {opsConn, TRUE}
  /\ Go(t, "end")
  /\ UNCHANGED <<locks, users, pool, writes, disk>>

EndMerge(t) ==
  /\ At(t, "end") \/ At(t, "end ok")
  /\ Done(t, IF At(t, "end ok") THEN "ok" ELSE "failed")
  /\ writes' = writes - 1
  /\ Release(t)
  /\ UNCHANGED <<users, opsConn, pool, disk>>

-----------------------------------------------------------------------------
(* An exclusive league write, on the event loop: close_all, write, reopen.  *)

CloseAll(t) ==
  /\ At(t, "close")
  /\ \A u \in LeagueWriter : ~At(u, "league write")       \* _merge_lock
  /\ opsConn' = FALSE /\ pool' = FALSE
  /\ Go(t, "league write")
  /\ UNCHANGED <<locks, users, writes, disk>>

ReopenAll(t) ==
  /\ At(t, "league write")
  /\ \/ opsConn' = TRUE /\ pool' = TRUE /\ Done(t, "ok")
     \/ opsConn' \in BOOLEAN /\ UNCHANGED pool /\ Done(t, "failed")
  /\ UNCHANGED <<locks, users, writes, disk>>

-----------------------------------------------------------------------------
Step(t) ==
  \/ TakeGate(t) \/ GiveUpGate(t) \/ TakeOps(t) \/ GiveUpOps(t) \/ FinishRead(t)
  \/ Attach(t) \/ Detach(t)
  \/ BeginWrite(t) \/ DrainTimeout(t) \/ Write(t) \/ EndWrite(t)
  \/ TakeOpsForCheck(t) \/ FinishCheck(t)
  \/ (t \in Merger /\
       \/ DrainSnapshot(t) \/ CloseForSnapshot(t) \/ CheckpointAndReopen(t)
       \/ CopySnapshot(t) \/ BuildSnapshot(t) \/ SwapSnapshot(t) \/ Undo(t)
       \/ EndMerge(t))
  \/ CloseAll(t) \/ ReopenAll(t)

\* Every request has been answered.
Quiet == (\A t \in Task : At(t, "done")) /\ UNCHANGED vars

Next == (\E t \in Task : Step(t)) \/ Quiet

Spec == Init /\ [][Next]_vars

\* Threads run.  Weak fairness is enough for the waits without a timeout: the
\* requests are finitely many, so a lock nobody forgets is free in the end.
FairSpec == Spec /\ \A t \in Task : WF_vars(Step(t))

-----------------------------------------------------------------------------
(* Properties.                                                              *)

Points == {"precheck", "check", "gate", "lock", "read", "attach", "attached",
  "drain", "write", "tidy", "tidy failed", "drain1", "lock1", "checkpoint",
  "stage", "build", "drain2", "lock2", "swap", "undo", "end", "end ok",
  "close", "league write", "done"}

\* The range of every variable; two writers never count as writing at once.
OpsTypeOK ==
  /\ rebuild \in Task \cup {None} /\ ops \in Task \cup {None}
  /\ users \in 0..Cardinality(Query \cup Fleet)
  /\ opsConn \in BOOLEAN /\ pool \in BOOLEAN /\ writes \in 0..1
  /\ content \subseteq Writer \cup Merger
  /\ staging \in [Merger -> SUBSET (Writer \cup Merger)]
  /\ pc \in [Task -> Points]
  /\ out \in [Task -> {"none", "ok", "failed"}]

\* The count of users is the number of queries and merges that are attached: a
\* count that stays up makes every later ___ops write time out in its drain.
UsersCounted == users = Cardinality({t \in Query \cup Fleet : At(t, "attached")})

\* An exclusive ___ops write has the file to itself: no query still has
\* ___ops attached and no metadata read is running on the connection that the
\* writer has closed (_execute_ops_query_rw drains under db._ops_lock).
ColdWriterAlone ==
  \A t \in Cold : At(t, "write") =>
     /\ users = 0
     /\ \A r \in Reader : ~At(r, "read")

\* ___ops is never detached under a query or a merge that counts itself as a
\* user of the attachment (_drain_ops_attachments_for_snapshot).
AttachmentOwned == [][opsConn /\ ~opsConn' => users = 0]_vars

\* The dedicated connection is never closed under a running metadata read: the
\* reader owns it until native execution finishes (_ops_read_connection).  A
\* league writer, which closes and reopens on the event loop, is the exception.
ConnectionOwned ==
  [][opsConn /\ ~opsConn' =>
       \/ \A r \in Reader : ~At(r, "read")
       \/ \E l \in LeagueWriter : pc'[l] # pc[l]]_vars

\* An ___ops update that was answered with success is still in the file after
\* any snapshot rebuilt from a copy has been swapped in (_merge_ops_tables
\* holds _ops_rebuild_lock from the copy to the replacement).
NoLostOpsWrite == \A t \in Writer \cup Merger : out[t] = "ok" => t \in content

\* A fleet merge that waits two seconds for db._ops_lock never finds it with
\* a metadata read, a write or a bundle, all of which may hold it much longer:
\* the outer gate of _ops_read_connection is there for this.  The check of a
\* rename is the exception: it takes the lock without the gate.
FleetFindsOpsFree ==
  \A f \in Fleet : At(f, "lock") =>
     \/ ops \in Query \cup {None}
     \/ ops \in Renamer /\ At(ops, "check")

\* When /merge-ops has answered, and no league writer is at work, the league
\* pool has connections again: the app stays online.
PoolComesBack ==
  \A t \in Merger : At(t, "done") /\ (\A u \in LeagueWriter : ~At(u, "league write"))
     => pool

\* Hot and cold writes, snapshots that are rebuilt beside the file and swapped
\* in, checkpoints that raise and connections that are reopened implement one
\* atomic file: an update takes effect once, before its answer, and stays
\* (_execute_ops_query_rw_serialized, _merge_ops_tables).
Store == INSTANCE OpsStore WITH Request <- Task, Update <- Writer \cup Merger
OpsStoreSpec == Store!Spec

\* Every request on ___ops is answered: the lock order admits no deadlock, and
\* no lock or attachment is left behind that a later request waits for.
EveryRequestAnswered == <>(\A t \in Task : At(t, "done"))

=============================================================================
