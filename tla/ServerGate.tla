------------------------------ MODULE ServerGate ------------------------------
(***************************************************************************)
(* Admission to the two databases of one server process: the query slots,  *)
(* the connection pool, the service status, and those who close it - league *)
(* writers that drain and reopen the pool, ___ops writes, publications, the *)
(* watchdog with its checkpoint.                                           *)
(*                                                                         *)
(* Two kinds of step interleave.  The event loop runs one coroutine at a   *)
(* time, from one await to the next; SQL runs in threads beside it.  A     *)
(* coroutine that blocks the loop ("loop" names it) stops every other one  *)
(* but no thread.  _begin_ops_write_state, _end_ops_write_state and        *)
(* _set_serving_or_ops_writing are single steps: CPython 3.11, which the   *)
(* image pins, switches threads at calls and backward jumps only, and      *)
(* there is none between their test and their assignment.                  *)
(*                                                                         *)
(* Each task is one request; startup is over.  The two ___ops locks are    *)
(* one here (OpsLocks has both), and /merge-ops is not here.               *)
(***************************************************************************)
EXTENDS Integers, Sequences, FiniteSets

CONSTANTS
  Query,        \* /query on leagues: a slot and a pool connection
  Nfl,          \* /query on ___ops that reads NFL relations: a slot
  Meta,         \* /query on ___ops metadata: counted in _ops_read_count
  OpsWriter,    \* /query-rw on ___ops
  Writer,       \* requests that close the pool under _merge_lock
  Asks,         \* writers that look at the status first: /query-rw
  Bare,         \* writers that reopen the pool without a guard: /merge-league
  Publish,      \* /merge-league-delta and /merge-fleet-partition
  Watchdog,     \* _watchdog, and the thread it runs
  Slots,        \* MAX_CONCURRENT_QUERIES
  PoolSize,     \* DB_POOL_SIZE
  Permits,      \* MAX_INFLIGHT_DELTA_PUBLISHES
  MaxWakes,     \* bound on the rounds of the watchdog
  MaxReopenFailures, \* bound on reopenings that fail
  Strikes,      \* failed probes in a row that close the storage: 3
  None

Reader == Query \cup Nfl \cup Meta
Task   == Reader \cup OpsWriter \cup Writer \cup Publish

ASSUME GateAssumption ==
  /\ Slots \in Nat \ {0} /\ PoolSize \in Nat \ {0} /\ Permits \in Nat \ {0}
  /\ MaxWakes \in Nat /\ MaxReopenFailures \in Nat /\ Strikes \in Nat \ {0}
  /\ Asks \subseteq Writer /\ Bare \subseteq Writer \ Asks
  /\ None \notin Task \cup {Watchdog} /\ Watchdog \notin Task
  /\ Query \cap (Nfl \cup Meta \cup OpsWriter \cup Writer \cup Publish) = {}
  /\ Nfl \cap (Meta \cup OpsWriter \cup Writer \cup Publish) = {}
  /\ Meta \cap (OpsWriter \cup Writer \cup Publish) = {}
  /\ OpsWriter \cap (Writer \cup Publish) = {}
  /\ Writer \cap Publish = {}

VARIABLES
  status,    \* _state["status"]
  healthy,   \* the StorageHealth latch is open
  slots,     \* free permits of _query_semaphore
  idle,      \* connections in the pool's queue
  active,    \* _active_count
  reads,     \* _ops_read_count
  writes,    \* _ops_write_count
  permits,   \* free permits of _delta_publish_semaphore
  inflight,  \* _delta_publish_inflight
  merge,     \* the holder of _merge_lock, or None
  opsLock,   \* the holder of the ___ops locks, or None
  loop,      \* the coroutine that blocks the event loop, or None
  pc,        \* [Task \cup {Watchdog} -> where it is]
  exec,      \* those whose thread is inside DuckDB
  saved,     \* the status the checkpoint found
  strikes,   \* failed probes in a row
  wakes, failures,
  gaveUp,    \* ghost: the pool was last closed while a connection was out
  drift      \* ghost: connections that were out when the count was reset

counts == <<slots, idle, active, reads, writes, permits, inflight>>
held   == <<merge, opsLock>>
ghosts == <<gaveUp, drift>>
dog    == <<saved, strikes, wakes>>
vars == <<status, healthy, counts, held, loop, pc, exec, dog, failures, ghosts>>

At(t, p) == pc[t] = p
Go(t, p) == pc' = [pc EXCEPT ![t] = p]
Free     == loop = None              \* a coroutine may run

\* Slot and connection holders; a /query holds both.  The watchdog's thread
\* has a connection before it is counted, and for a moment after.
Slotted == {q \in Query \cup Nfl : pc[q] \in {"slotted", "blocking", "running", "ran"}}
Out     == {q \in Query : At(q, "running")}
             \cup {w \in {Watchdog} : pc[w] \in {"probing", "connected"}}
Uncounted == {w \in {Watchdog} : pc[w] \in {"taken", "ck taken", "returning", "ck returning"}}
Admitted == {p \in Publish : pc[p] \in {"admitted", "merging", "merged"}}

Init ==
  /\ status = "serving" /\ healthy = TRUE
  /\ slots = Slots /\ idle = PoolSize /\ active = 0
  /\ reads = 0 /\ writes = 0
  /\ permits = Permits /\ inflight = 0
  /\ merge = None /\ opsLock = None /\ loop = None
  /\ pc = [t \in Task \cup {Watchdog} |-> IF t = Watchdog THEN "asleep" ELSE "new"]
  /\ exec = {}
  /\ saved = "serving" /\ strikes = 0 /\ wakes = 0 /\ failures = 0
  /\ gaveUp = FALSE /\ drift = 0

-----------------------------------------------------------------------------
(* Plausible bugs, each in the place of the operator its comment names.     *)

\* BlockTimeout: the slot of a query that got no connection is kept.
KeepsSlot(q) ==
  /\ At(q, "blocking")
  /\ loop' = None /\ Go(q, "done")
  /\ UNCHANGED <<status, healthy, counts, held, exec, dog, failures, ghosts>>

\* BlockTimeout: a queue that is asked without a timeout.
BlocksForEver(q) == FALSE

\* Connected: the count is raised before the queue is asked.
CountsWaiters(q) ==
  IF idle > 0 THEN idle' = idle - 1 /\ active' = active + 1
              ELSE UNCHANGED idle /\ active' = active + 1

\* Drained: the drain stops at the last query.
OneQueryLeft == active <= 1

\* DatabaseIdle: the metadata reads, on their own connection, are forgotten.
IdleButReads == active = 0 /\ writes = 0 /\ inflight = 0

\* FailedStatus: a failed reopening is announced as service.
AlwaysServes(w) == "serving"

\* LastWrite: the count is compared before it is lowered.
ComparesFirst == writes = 0

-----------------------------------------------------------------------------
(* Reads: status, slot, connection.                                         *)

\* The status check of /query; an ___ops write in progress is waited for.
Arrive(q) ==
  /\ Free /\ q \in Query \cup Nfl /\ At(q, "new")
  /\ Go(q, IF status \in {"serving", "ops_snapshotting"} THEN "queued"
           ELSE IF status = "ops_writing" THEN "polling" ELSE "done")
  /\ UNCHANGED <<status, healthy, counts, held, loop, exec, dog, failures, ghosts>>

\* _wait_for_ops_write_to_finish: the status has changed, or time is up.
Polled(q) ==
  /\ Free /\ At(q, "polling")
  /\ Go(q, IF status # "serving" THEN "done" ELSE IF q \in Nfl THEN "polled" ELSE "queued")
  /\ UNCHANGED <<status, healthy, counts, held, loop, exec, dog, failures, ghosts>>

\* An NFL read polls in a task of its own (_read_admission), and checks the
\* status again in a later turn of the loop.
Recheck(n) ==
  /\ Free /\ At(n, "polled")
  /\ Go(n, IF status \in {"serving", "ops_snapshotting"} THEN "queued" ELSE "done")
  /\ UNCHANGED <<status, healthy, counts, held, loop, exec, dog, failures, ghosts>>

\* _acquire_query_slot: wait_for runs it in a task of its own, so that the
\* query goes on in a later turn of the loop than its status check.
TakeSlot(q) ==
  /\ Free /\ At(q, "queued") /\ slots > 0
  /\ slots' = slots - 1 /\ Go(q, "slotted")
  /\ UNCHANGED <<status, healthy, idle, active, reads, writes, permits, inflight,
                 held, loop, exec, dog, failures, ghosts>>

SlotTimeout(q) ==
  /\ Free /\ At(q, "queued") /\ Go(q, "done")
  /\ UNCHANGED <<status, healthy, counts, held, loop, exec, dog, failures, ghosts>>

\* acquire_connection: the queue first, the count after it, in one turn of the loop.
Connected(q) ==
  IF idle > 0 THEN idle' = idle - 1 /\ active' = active + 1
              ELSE UNCHANGED <<idle, active>>

\* It is called on the event loop: an empty pool blocks every coroutine.
Connect(q) ==
  /\ Free /\ q \in Query /\ At(q, "slotted")
  /\ Connected(q)
  /\ IF idle > 0 THEN Go(q, "running") /\ exec' = exec \cup {q} /\ UNCHANGED loop
                 ELSE Go(q, "blocking") /\ loop' = q /\ UNCHANGED exec
  /\ UNCHANGED <<status, healthy, slots, reads, writes, permits, inflight, held,
                 dog, failures, ghosts>>

\* A thread has put a connection back while the loop was blocked.
Unblock(q) ==
  /\ At(q, "blocking") /\ idle > 0
  /\ Connected(q)
  /\ loop' = None /\ Go(q, "running") /\ exec' = exec \cup {q}
  /\ UNCHANGED <<status, healthy, slots, reads, writes, permits, inflight, held,
                 dog, failures, ghosts>>

\* Thirty seconds later: answered 429, and the slot is given back.
BlockTimeout(q) ==
  /\ At(q, "blocking")
  /\ loop' = None /\ slots' = slots + 1 /\ Go(q, "done")
  /\ UNCHANGED <<status, healthy, idle, active, reads, writes, permits, inflight,
                 held, exec, dog, failures, ghosts>>

\* The query's thread leaves DuckDB, whether or not somebody still waits.
QueryThreadEnds(q) ==
  /\ q \in Query \cap exec /\ exec' = exec \ {q}
  /\ UNCHANGED <<status, healthy, counts, held, loop, pc, dog, failures, ghosts>>

\* The end of /query: the result, or wait_for's timeout over a running thread.
\* Connection and slot are given back either way.
FinishQuery(q) ==
  /\ Free /\ q \in Query /\ At(q, "running")
  /\ idle' = idle + 1 /\ active' = active - 1 /\ slots' = slots + 1
  /\ Go(q, "done")
  /\ UNCHANGED <<status, healthy, reads, writes, permits, inflight, held, loop,
                 exec, dog, failures, ghosts>>

\* An NFL read has its slot and goes to its thread; nothing counts it.
StartNfl(n) ==
  /\ Free /\ n \in Nfl /\ At(n, "slotted") /\ Go(n, "running")
  /\ UNCHANGED <<status, healthy, counts, held, loop, exec, dog, failures, ghosts>>

\* A metadata read is counted in the same turn as its status check.
ArriveMeta(m) ==
  /\ Free /\ m \in Meta /\ At(m, "new")
  /\ IF status = "checkpointing" THEN Go(m, "done") /\ UNCHANGED reads
     ELSE Go(m, "running") /\ reads' = reads + 1
  /\ UNCHANGED <<status, healthy, slots, idle, active, writes, permits, inflight,
                 held, loop, exec, dog, failures, ghosts>>

\* _ops_read_connection in the thread of an ___ops read: locked, or too late.
OpsReadLocked(t) ==
  /\ t \in Nfl \cup Meta /\ At(t, "running") /\ t \notin exec
  /\ \/ opsLock = None /\ opsLock' = t /\ exec' = exec \cup {t} /\ UNCHANGED pc
     \/ Go(t, "ran") /\ UNCHANGED <<opsLock, exec>>
  /\ UNCHANGED <<status, healthy, counts, merge, loop, dog, failures, ghosts>>

OpsReadEnds(t) ==
  /\ t \in (Nfl \cup Meta) \cap exec
  /\ exec' = exec \ {t} /\ opsLock' = None /\ Go(t, "ran")
  /\ UNCHANGED <<status, healthy, counts, merge, loop, dog, failures, ghosts>>

\* _run_ops_read always sees its worker end before it gives anything back.
FinishOpsRead(t) ==
  /\ Free /\ At(t, "ran") /\ Go(t, "done")
  /\ IF t \in Nfl THEN slots' = slots + 1 /\ UNCHANGED reads
                  ELSE reads' = reads - 1 /\ UNCHANGED slots
  /\ UNCHANGED <<status, healthy, idle, active, writes, permits, inflight, held,
                 loop, exec, dog, failures, ghosts>>

-----------------------------------------------------------------------------
(* Writes: the admission middleware, then the status.                       *)

\* storage_write_admission: closed storage, a WAL at its limit, a full disk.
TurnAway(t) ==
  /\ Free /\ t \in OpsWriter \cup Writer \cup Publish /\ At(t, "new")
  /\ Go(t, "done")
  /\ UNCHANGED <<status, healthy, counts, held, loop, exec, dog, failures, ghosts>>

AcceptsWrites == status \in {"serving", "ops_writing"}

\* /query-rw asks for the status; the replacement endpoints do not; a
\* publication uploads and validates first.
ArriveWrite(t) ==
  /\ Free /\ t \in OpsWriter \cup Writer \cup Publish /\ At(t, "new") /\ healthy
  /\ Go(t, IF t \in OpsWriter \cup Asks /\ ~AcceptsWrites THEN "done"
           ELSE IF t \in Publish THEN "uploading" ELSE "locking")
  /\ UNCHANGED <<status, healthy, counts, held, loop, exec, dog, failures, ghosts>>

\* _execute_ops_query_rw in its thread: the locks, then _begin_ops_write_state.
OpsWriteBegins(o) ==
  /\ o \in OpsWriter /\ At(o, "locking") /\ opsLock = None
  /\ opsLock' = o /\ exec' = exec \cup {o} /\ Go(o, "writing")
  /\ writes' = writes + 1
  /\ status' = IF status = "serving" THEN "ops_writing" ELSE status
  /\ UNCHANGED <<healthy, slots, idle, active, reads, permits, inflight, merge, loop,
                 dog, failures, ghosts>>

OpsWriteGivesUp(o) ==
  /\ o \in OpsWriter /\ At(o, "locking") /\ opsLock # None /\ Go(o, "done")
  /\ UNCHANGED <<status, healthy, counts, held, loop, exec, dog, failures, ghosts>>

LastWrite == writes' = 0

\* _end_ops_write_state, whatever became of the write.
OpsWriteEnds(o) ==
  /\ o \in OpsWriter /\ At(o, "writing")
  /\ opsLock' = None /\ exec' = exec \ {o} /\ Go(o, "done")
  /\ writes' = IF writes > 0 THEN writes - 1 ELSE 0
  /\ status' = IF LastWrite /\ status \in {"ops_writing", "ops_snapshotting"}
               THEN "serving" ELSE status
  /\ UNCHANGED <<healthy, slots, idle, active, reads, permits, inflight, merge, loop,
                 dog, failures, ghosts>>

-----------------------------------------------------------------------------
(* League writers: lock, drain, close, write, reopen.                       *)

Drained == active <= 0

\* close_pool or close_all; from here to the thread there is no await.  It
\* closes the connections in the queue, not those that are out.
ClosePool(w, late) ==
  /\ idle' = 0 /\ gaveUp' = (late \/ Uncounted # {}) /\ UNCHANGED drift
  /\ status' = IF w \in Asks THEN "draining" ELSE "writing"
  /\ exec' = exec \cup {w} /\ Go(w, "writing")

BeginDrain(w) ==
  /\ Free /\ w \in Writer /\ At(w, "locking") /\ merge = None
  /\ merge' = w
  /\ IF Drained THEN ClosePool(w, FALSE)
     ELSE status' = "draining" /\ Go(w, "draining") /\ UNCHANGED <<idle, exec, ghosts>>
  /\ UNCHANGED <<healthy, slots, active, reads, writes, permits, inflight, opsLock,
                 loop, dog, failures>>

\* The loop that waits wakes up: nobody is left, or the time is up.
EndDrain(w) ==
  /\ Free /\ At(w, "draining")
  /\ ClosePool(w, ~Drained)
  /\ UNCHANGED <<healthy, slots, active, reads, writes, permits, inflight, held,
                 loop, dog, failures>>

\* The thread has written, or failed: both reopen.
WriteEnds(w) ==
  /\ w \in Writer /\ At(w, "writing")
  /\ exec' = exec \ {w} /\ Go(w, "written")
  /\ UNCHANGED <<status, healthy, counts, held, loop, dog, failures, ghosts>>

\* _refill_pool: threads see the connections before the count is reset.
Reopen(w) ==
  /\ Free /\ At(w, "written")
  /\ idle' = idle + PoolSize /\ loop' = w /\ Go(w, "refilled")
  /\ UNCHANGED <<status, healthy, slots, active, reads, writes, permits, inflight,
                 held, exec, dog, failures, ghosts>>

\* _set_serving_or_ops_writing.  Its recovery_error is set by a rename only.
SettledStatus(w) == IF writes > 0 THEN "ops_writing" ELSE "serving"

Settle(w) ==
  /\ At(w, "refilled")
  /\ active' = 0 /\ drift' = Cardinality(Out) /\ UNCHANGED gaveUp
  /\ status' = SettledStatus(w)
  /\ merge' = None /\ loop' = None /\ Go(w, "done")
  /\ UNCHANGED <<healthy, slots, idle, reads, writes, permits, inflight, opsLock,
                 exec, dog, failures>>

\* _reopen_pool_after_write latches a failure; /merge-league lets it escape.
FailedStatus(w) == IF w \in Bare THEN status ELSE "recovery_failed"

ReopenFails(w) ==
  /\ Free /\ At(w, "written") /\ failures < MaxReopenFailures
  /\ failures' = failures + 1
  /\ \E n \in 0..(PoolSize - 1) : idle' = idle + n
  /\ status' = FailedStatus(w)
  /\ healthy' = (healthy /\ w \in Bare)
  /\ merge' = None /\ Go(w, "done")
  /\ UNCHANGED <<slots, active, reads, writes, permits, inflight, opsLock, loop, exec,
                 dog, ghosts>>

-----------------------------------------------------------------------------
(* Publications.                                                            *)

\* _release_delta_publish_slot, from the finally of both endpoints: also for
\* a request that never acquired one.
ReleasePermit(p) ==
  /\ permits' = permits + 1
  /\ inflight' = IF inflight > 0 THEN inflight - 1 ELSE 0

\* Too large, or not valid; refused by the status; busy for too long.
RefusePublish(p) ==
  /\ Free /\ p \in Publish
  /\ At(p, "uploading") \/ At(p, "admitting")
  /\ ReleasePermit(p) /\ Go(p, "done")
  /\ UNCHANGED <<status, healthy, slots, idle, active, reads, writes, held, loop,
                 exec, dog, failures, ghosts>>

AskPermit(p) ==
  /\ Free /\ At(p, "uploading") /\ AcceptsWrites /\ Go(p, "admitting")
  /\ UNCHANGED <<status, healthy, counts, held, loop, exec, dog, failures, ghosts>>

AdmitPublish(p) ==
  /\ Free /\ At(p, "admitting") /\ permits > 0
  /\ permits' = permits - 1 /\ inflight' = inflight + 1 /\ Go(p, "admitted")
  /\ UNCHANGED <<status, healthy, slots, idle, active, reads, writes, held, loop,
                 exec, dog, failures, ghosts>>

Merge(p) ==
  /\ Free /\ At(p, "admitted") /\ merge = None
  /\ merge' = p /\ exec' = exec \cup {p} /\ Go(p, "merging")
  /\ UNCHANGED <<status, healthy, counts, opsLock, loop, dog, failures, ghosts>>

\* The timer of the merge's hard deadline.
MergeDeadline(p) ==
  /\ p \in Publish /\ At(p, "merging")
  /\ status' = "storage_unhealthy" /\ healthy' = FALSE
  /\ UNCHANGED <<counts, held, loop, pc, exec, dog, failures, ghosts>>

MergeEnds(p) ==
  /\ p \in Publish /\ At(p, "merging")
  /\ exec' = exec \ {p} /\ Go(p, "merged")
  /\ UNCHANGED <<status, healthy, counts, held, loop, dog, failures, ghosts>>

FinishPublish(p) ==
  /\ Free /\ At(p, "merged")
  /\ merge' = None /\ ReleasePermit(p) /\ Go(p, "done")
  /\ UNCHANGED <<status, healthy, slots, idle, active, reads, writes, opsLock, loop,
                 exec, dog, failures, ghosts>>

-----------------------------------------------------------------------------
(* The watchdog.  Its probe and its checkpoint run in a thread.             *)

\* Thirty seconds of sleep, then the status.
Wake ==
  /\ Free /\ At(Watchdog, "asleep") /\ wakes < MaxWakes
  /\ wakes' = wakes + 1
  /\ IF status = "serving" THEN Go(Watchdog, "waking") /\ UNCHANGED strikes
                           ELSE strikes' = 0 /\ UNCHANGED pc
  /\ UNCHANGED <<status, healthy, counts, held, loop, exec, saved, failures, ghosts>>

\* _check_db_health: a pool that is all checked out is healthy.
Probe ==
  /\ At(Watchdog, "waking")
  /\ Go(Watchdog, IF active >= PoolSize THEN "sound" ELSE "asking")
  /\ UNCHANGED <<status, healthy, counts, held, loop, exec, dog, failures, ghosts>>

\* acquire_connection, for the probe and for the checkpoint: a connection
\* there is or that comes in time, or none.  Between the queue and the count
\* the loop may run.
DogTakes ==
  /\ \/ At(Watchdog, "asking") /\ Go(Watchdog, "taken")
     \/ At(Watchdog, "checkpointing") /\ Go(Watchdog, "ck taken")
  /\ idle > 0 /\ idle' = idle - 1
  /\ UNCHANGED <<status, healthy, slots, active, reads, writes, permits, inflight,
                 held, loop, exec, dog, failures, ghosts>>

DogConnects ==
  /\ \/ At(Watchdog, "taken") /\ Go(Watchdog, "probing")
     \/ At(Watchdog, "ck taken") /\ Go(Watchdog, "connected")
  /\ active' = active + 1
  /\ UNCHANGED <<status, healthy, slots, idle, reads, writes, permits, inflight, held,
                 loop, exec, dog, failures, ghosts>>

DogFindsNone ==
  /\ \/ At(Watchdog, "asking") /\ Go(Watchdog, "broken") /\ UNCHANGED exec
     \/ /\ At(Watchdog, "checkpointing") /\ Go(Watchdog, "ckfailed")
        /\ exec' = exec \ {Watchdog}
  /\ idle = 0
  /\ UNCHANGED <<status, healthy, counts, held, loop, dog, failures, ghosts>>

\* The probe or the checkpoint is over, well or badly: release_connection
\* lowers the count first and fills the queue after it.
DogReleases ==
  /\ \/ At(Watchdog, "probing") /\ Go(Watchdog, "returning")
     \/ At(Watchdog, "connected") /\ Go(Watchdog, "ck returning")
  /\ active' = active - 1
  /\ UNCHANGED <<status, healthy, slots, idle, reads, writes, permits, inflight, held,
                 loop, exec, dog, failures, ghosts>>

DogReturns ==
  /\ \/ At(Watchdog, "returning") /\ UNCHANGED exec
        /\ (Go(Watchdog, "sound") \/ Go(Watchdog, "broken"))
     \/ At(Watchdog, "ck returning") /\ exec' = exec \ {Watchdog}
        /\ (Go(Watchdog, "ckdone") \/ Go(Watchdog, "ckfailed"))
  /\ idle' = idle + 1
  /\ UNCHANGED <<status, healthy, slots, active, reads, writes, permits, inflight,
                 held, loop, dog, failures, ghosts>>

\* Only the WAL of ___ops was due: its connection is not of the pool.
OpsCheckpointEnds ==
  /\ At(Watchdog, "checkpointing") /\ exec' = exec \ {Watchdog}
  /\ Go(Watchdog, "ckdone") \/ Go(Watchdog, "ckfailed")
  /\ UNCHANGED <<status, healthy, counts, held, loop, dog, failures, ghosts>>

\* _database_activity_idle
DatabaseIdle == active = 0 /\ reads = 0 /\ writes = 0 /\ inflight = 0

\* _checkpoint_if_due, after a probe that succeeded; whether the WAL is large
\* is not said.
Sound ==
  /\ Free /\ At(Watchdog, "sound") /\ strikes' = 0
  /\ \/ /\ healthy /\ merge = None /\ DatabaseIdle
        /\ merge' = Watchdog /\ exec' = exec \cup {Watchdog}
        /\ saved' = status /\ status' = "checkpointing"
        /\ Go(Watchdog, "checkpointing")
     \/ Go(Watchdog, "asleep") /\ UNCHANGED <<merge, exec, saved, status>>
  /\ UNCHANGED <<healthy, counts, opsLock, loop, wakes, failures, ghosts>>

CheckpointSettles ==
  /\ Free /\ Go(Watchdog, "asleep") /\ merge' = None
  /\ \/ /\ At(Watchdog, "ckdone") /\ UNCHANGED healthy
        /\ status' = IF status = "checkpointing" THEN saved ELSE status
     \/ At(Watchdog, "ckfailed") /\ healthy' = FALSE /\ status' = "storage_unhealthy"
  /\ UNCHANGED <<counts, opsLock, loop, exec, dog, failures, ghosts>>

\* The third strike closes the storage, and the watchdog is gone.
Broken ==
  /\ Free /\ At(Watchdog, "broken") /\ strikes' = strikes + 1
  /\ IF strikes + 1 >= Strikes
     THEN healthy' = FALSE /\ status' = "storage_unhealthy" /\ Go(Watchdog, "done")
     ELSE UNCHANGED <<healthy, status>> /\ Go(Watchdog, "asleep")
  /\ UNCHANGED <<counts, held, loop, exec, saved, wakes, failures, ghosts>>

-----------------------------------------------------------------------------
DogStep ==
  \/ Wake \/ Probe
  \/ DogTakes \/ DogConnects \/ DogFindsNone \/ DogReleases \/ DogReturns
  \/ OpsCheckpointEnds \/ Sound \/ CheckpointSettles \/ Broken

ReadStep(t) ==
  \/ Arrive(t) \/ Polled(t) \/ Recheck(t) \/ TakeSlot(t) \/ SlotTimeout(t)
  \/ Connect(t) \/ Unblock(t) \/ BlockTimeout(t)
  \/ QueryThreadEnds(t) \/ FinishQuery(t)
  \/ StartNfl(t) \/ ArriveMeta(t)
  \/ OpsReadLocked(t) \/ OpsReadEnds(t) \/ FinishOpsRead(t)

WriteStep(t) ==
  \/ TurnAway(t) \/ ArriveWrite(t)
  \/ OpsWriteBegins(t) \/ OpsWriteGivesUp(t) \/ OpsWriteEnds(t)
  \/ BeginDrain(t) \/ EndDrain(t) \/ WriteEnds(t)
  \/ Reopen(t) \/ Settle(t) \/ ReopenFails(t)
  \/ RefusePublish(t) \/ AskPermit(t) \/ AdmitPublish(t) \/ Merge(t)
  \/ MergeDeadline(t) \/ MergeEnds(t) \/ FinishPublish(t)

Next ==
  \/ DogStep
  \/ \E t \in Reader : ReadStep(t)
  \/ \E t \in Task \ Reader : WriteStep(t)

Spec == Init /\ [][Next]_vars

(* What has begun goes on: SQL ends or is interrupted, every wait has its   *)
(* timeout, an uploading client sends its last byte or goes.  Nothing says  *)
(* that a request ever arrives, that a timeout fires over work that would   *)
(* end, that a deadline is met or that the watchdog wakes.                  *)
GoesOn(t) ==
  /\ WF_vars(Polled(t) \/ Recheck(t) \/ SlotTimeout(t) \/ Connect(t) \/ StartNfl(t))
  /\ WF_vars(Unblock(t) \/ BlockTimeout(t))
  /\ WF_vars(QueryThreadEnds(t))
  /\ WF_vars(FinishQuery(t) \/ FinishOpsRead(t))
  /\ WF_vars(OpsReadLocked(t) \/ OpsReadEnds(t))

WritesOn(t) ==
  /\ WF_vars(OpsWriteBegins(t) \/ OpsWriteGivesUp(t) \/ OpsWriteEnds(t))
  /\ SF_vars(BeginDrain(t)) /\ SF_vars(Merge(t))
  /\ WF_vars(EndDrain(t) \/ WriteEnds(t) \/ Reopen(t) \/ Settle(t))
  /\ WF_vars(RefusePublish(t) \/ MergeEnds(t) \/ FinishPublish(t))

FairSpec ==
  /\ Spec
  /\ \A t \in Reader : GoesOn(t)
  /\ \A t \in Task \ Reader : WritesOn(t)
  /\ WF_vars(Probe \/ DogTakes \/ DogConnects \/ DogFindsNone \/ DogReleases
             \/ DogReturns \/ OpsCheckpointEnds \/ Sound \/ CheckpointSettles \/ Broken)

-----------------------------------------------------------------------------
(* Properties.                                                              *)

Status == {"serving", "ops_writing", "draining", "writing", "checkpointing",
           "recovery_failed", "storage_unhealthy"}

\* Type invariant: the counters stay near their limits, and the places are
\* those of the kind of task.
GateTypeOK ==
  /\ status \in Status /\ saved \in Status /\ healthy \in BOOLEAN
  /\ slots \in 0..Slots /\ idle \in Nat /\ active \in Int
  /\ reads \in Nat /\ writes \in 0..1
  /\ permits \in Nat /\ inflight \in Nat
  /\ merge \in Writer \cup Publish \cup {Watchdog, None}
  /\ opsLock \in Nfl \cup Meta \cup OpsWriter \cup {None}
  /\ loop \in Query \cup Writer \cup {None}
  /\ exec \subseteq Task \cup {Watchdog}
  /\ strikes \in 0..Strikes /\ wakes \in 0..MaxWakes
  /\ failures \in 0..MaxReopenFailures /\ gaveUp \in BOOLEAN /\ drift \in Nat
  /\ pc \in [Task \cup {Watchdog} ->
        {"new", "polling", "polled", "queued", "slotted", "blocking", "running", "ran", "done",
         "locking", "draining", "writing", "written", "refilled", "uploading",
         "admitting", "admitted", "merging", "merged", "asleep", "waking", "asking",
         "taken", "probing", "returning", "sound", "broken", "checkpointing",
         "ck taken", "connected", "ck returning", "ckdone", "ckfailed"}]

\* However a read ends - rejected for want of a connection, timed out, failed,
\* answered - its permit of _query_semaphore is back, and never twice.
SlotsConserved == slots + Cardinality(Slotted) = Slots

\* The count the drain and the checkpoint rely on is the number of connections
\* that are out and counted, until a reopening resets it over one that is.
CountExact == drift = 0 => active = Cardinality(Out)

\* While a league writer writes, no query that a client still waits for is in
\* DuckDB, unless the drain ran out of time, missed a connection that the
\* watchdog's thread had and did not count, or had its count reset under it.
ReadsExcluded ==
  \A w \in Writer : At(w, "writing") /\ ~gaveUp /\ drift = 0 =>
     ~\E q \in exec \cap Query : At(q, "running")

\* The checkpoint of the watchdog holds _merge_lock, under its own status, and
\* no metadata read, publication or league writer is in DuckDB with it.
CheckpointExcludes ==
  Watchdog \in exec =>
     /\ merge = Watchdog /\ reads = 0
     /\ exec \cap (Meta \cup Writer \cup Publish) = {}
     /\ status \in {"checkpointing", "storage_unhealthy"}

\* A service that says it serves has its whole pool, in the queue or in use.
ServingHasPool ==
  status \in {"serving", "ops_writing"} => idle + Cardinality(Out \cup Uncounted) >= PoolSize

\* ops_writing is left when the last ___ops write ends: no status that makes
\* reads wait outlives the writes, even when a league writer or a checkpoint
\* set the status in between.
OpsWritingEnds == status = "ops_writing" => writes > 0

\* Every request that has arrived is answered, and every writer that drains
\* reopens or says it failed: no read waits for ever on a pool that a writer
\* closed after the status check, with the event loop blocked meanwhile.
EveryRequestAnswered ==
  \A t \in Task : pc[t] # "new" ~> At(t, "done")

(* A statement of the repository that its code does not keep.               *)

\* "Run at most one checkpoint after all query/write/publication activity
\* drains" (main.py:721).
CheckpointAlone == Watchdog \in exec => exec \subseteq {Watchdog}

\* "MAX_INFLIGHT_DELTA_PUBLISHES": the semaphore bounds the publications.
PublishBound == Cardinality(Admitted) <= Permits
=============================================================================
