----------------------------- MODULE DeltaPublish -----------------------------
(***************************************************************************)
(* The publication protocol of the league database: publishers             *)
(* (FlyTarget) post bundles to /merge-league-delta (lane "repair") or      *)
(* /merge-fleet-partition (lane "fleet"); the server merges one bundle at  *)
(* a time under _merge_lock, in one DuckDB transaction, and leaves a       *)
(* durable receipt that publishers read to settle ambiguous answers.       *)
(*                                                                         *)
(* The data of a league is abstracted to the set of bundles whose updates  *)
(* it reflects: a bundle is built from what the league held when its       *)
(* source was read, plus the bundle's own update, and merging it REPLACES  *)
(* what the league holds.  A merge that loses an update is a rewind.       *)
(***************************************************************************)
EXTENDS Naturals, FiniteSets

CONSTANTS
  League,      \* db_name values
  Bundle,      \* bundles, identified by their content (bundle_hash)
  Key,         \* receipt keys, (db_name or ___fleet, bundle_id)
  KeyOf,       \* [Bundle -> Key]
  Lane,        \* [Bundle -> {"repair", "fleet"}]
  Scope,       \* [Bundle -> nonempty SUBSET League]: the rows it replaces
  Fenced,      \* bundles whose manifest carries a base generation
  Order,       \* [Bundle -> Nat \cup {NoOrder}]: (import_run_id, publish_sequence)
  NoOrder,     \* an import_run_id that is not an integer ("local-...")
  RequireBase, \* REQUIRE_DELTA_BASE_GENERATION
  MaxTries,    \* max_upload_retries of a publisher
  MaxCrashes,  \* bound on server crashes
  Deadlines,   \* whether a merge deadline may expire (BOOLEAN)
  None

Lanes    == {"repair", "fleet"}
Request  == [b : Bundle, n : 1..MaxTries]
Statuses == {"RECEIVED", "VALIDATED", "COMMITTED", "CONFLICT", "FAILED_MERGE"}
Row      == [st : Statuses, by : Bundle]
Codes    == {"committed", "stale", "conflict", "error", "invalid", "busy",
             "unavailable"}
Stages   == {"idle", "entered", "received", "validated", "staged", "failing",
             "done"}
Terminal == {"committed", "stale", "failed", "unknown"}
PCs      == {"new", "fetching", "built", "waiting", "reconciling"} \cup Terminal

ASSUME PublishAssumption ==
  /\ KeyOf \in [Bundle -> Key]
  /\ Lane  \in [Bundle -> Lanes]
  /\ Scope \in [Bundle -> SUBSET League]
  /\ \A b \in Bundle : Scope[b] # {}
  /\ \A b \in Bundle : Lane[b] = "repair" =>
        \A k, l \in Scope[b] : k = l                 \* one db_name
  /\ \A b \in Bundle : Lane[b] = "fleet" => b \in Fenced
  /\ Fenced \subseteq Bundle
  /\ NoOrder \notin Nat
  /\ Order \in [Bundle -> Nat \cup {NoOrder}]
  /\ RequireBase \in BOOLEAN
  /\ MaxTries \in Nat \ {0}
  /\ MaxCrashes \in Nat
  /\ None \notin Request
  /\ None \notin Row
  /\ None \notin Bundle
  /\ None \notin Codes

VARIABLES
  facts,     \* [League -> SUBSET Bundle]  the updates each league reflects
  gen,       \* [League -> Nat]            merge_admin.league_publish_generations
  receipt,   \* [Key -> Row or None]       the delta publish-state table
  latest,    \* [League -> Bundle or None] its newest COMMITTED repair row
  fleetLock, \* the fleet publish window of merge_admin.publish_locks
  healthy,   \* the StorageHealth latch is open
  inbox,     \* requests past the write-admission check, uploading
  admitted,  \* requests past the slot's status check, waiting for their turn
  cur,       \* the request holding _merge_lock, or None
  stage,     \* how far its worker thread has come
  code,      \* the answer it will give
  armed,     \* the merge deadline timer is armed
  pc, base, seen, tries, reply,  \* per publisher: one publisher per bundle
  applied,   \* ghost: [Bundle -> Nat] how often its update reached the disk
  crashes

durable    == <<facts, gen, receipt, latest, fleetLock>>
worker     == <<cur, stage, code, armed>>
publishers == <<pc, base, seen, tries, reply>>
vars == <<durable, healthy, inbox, admitted, worker, publishers, applied, crashes>>

Committed(b) ==
  /\ receipt[KeyOf[b]] # None
  /\ receipt[KeyOf[b]].st = "COMMITTED"
  /\ receipt[KeyOf[b]].by = b

Init ==
  /\ facts = [l \in League |-> {}]
  /\ gen = [l \in League |-> 0]
  /\ receipt = [k \in Key |-> None]
  /\ latest = [l \in League |-> None]
  /\ fleetLock = FALSE
  /\ healthy = TRUE
  /\ inbox = {} /\ admitted = {}
  /\ cur = None /\ stage = "idle" /\ code = None /\ armed = FALSE
  /\ pc = [b \in Bundle |-> "new"]
  /\ base = [b \in Bundle |-> [l \in League |-> 0]]
  /\ seen = [b \in Bundle |-> [l \in League |-> {}]]
  /\ tries = [b \in Bundle |-> 0]
  /\ reply = [b \in Bundle |-> None]
  /\ applied = [b \in Bundle |-> 0]
  /\ crashes = 0

-----------------------------------------------------------------------------
(* Plausible bugs: each of these takes the place of the operator named in    *)
(* its comment, to show that a property notices.                            *)

\* KeepsReceipt: a failure recorded over a COMMITTED row.
OverwritesCommitted(b) == FALSE

\* Trusted: any row of this bundle taken for a success.
TrustsAnyStatus(b) == receipt[KeyOf[b]] # None /\ receipt[KeyOf[b]].by = b

\* StaleAnswer: any 409 taken for a stale delta.
AnyConflictIsStale(b) == reply[b] \in {"stale", "conflict"}

\* Older: the order compared the wrong way round.
NewerIsOlder(b) ==
  Lane[b] = "repair" /\ \E l \in Scope[b] :
    latest[l] # None /\ Order[b] # NoOrder /\ Order[latest[l]] # NoOrder
    /\ Order[b] > Order[latest[l]]

\* WindowShut: the repair lane does not ask.
IgnoresWindow(b) == FALSE

\* Current: a fleet bundle passes when one of its leagues is unchanged.
OneCurrent(b) == \E l \in Scope[b] : gen[l] = base[b][l]

\* BumpedGen: the fleet lane leaves the generations alone.
RepairBumps(b) ==
  [l \in League |-> IF l \in Scope[b] /\ Lane[b] = "repair" THEN gen[l] + 1 ELSE gen[l]]

\* Timeout: the last attempt waits for an answer for ever.
WaitsOnLastTry(b) ==
  /\ pc[b] = "waiting" /\ reply[b] = None /\ tries[b] < MaxTries
  /\ pc' = [pc EXCEPT ![b] = "built"]
  /\ UNCHANGED <<durable, healthy, inbox, admitted, worker, base, seen, tries, reply,
                 applied, crashes>>

\* RecordFailure: a merge that failed is tried again under the lock.
RetriesMerge(b) ==
  /\ stage = "failing" /\ cur.b = b
  /\ IF Committed(b) THEN stage' = "done" /\ UNCHANGED code
                     ELSE stage' = "received" /\ code' = None
  /\ UNCHANGED <<durable, healthy, inbox, admitted, cur, armed, publishers, applied,
                 crashes>>

-----------------------------------------------------------------------------
(* Publisher: capture the base generation, fetch and build, post, settle.  *)

\* The generation is read before the source is (LEAGUE_IMPORT_BASE_GENERATION).
CaptureGeneration(b) ==
  /\ pc[b] = "new"
  /\ pc' = [pc EXCEPT ![b] = "fetching"]
  /\ base' = [base EXCEPT ![b] = [l \in League |-> IF l \in Scope[b] THEN gen[l] ELSE 0]]
  /\ UNCHANGED <<durable, healthy, inbox, admitted, worker, seen, tries, reply, applied, crashes>>

\* What the bundle will hold is what its source shows after that.
BuildBundle(b) ==
  /\ pc[b] = "fetching"
  /\ pc' = [pc EXCEPT ![b] = "built"]
  /\ seen' = [seen EXCEPT ![b] = [l \in League |-> IF l \in Scope[b] THEN facts[l] ELSE {}]]
  /\ UNCHANGED <<durable, healthy, inbox, admitted, worker, base, tries, reply, applied, crashes>>

MayPost(b) == tries[b] < MaxTries

\* One attempt of _post_file.  The request reaches the server past the
\* admission middleware, is refused by it, or is lost on the way.
Post(b) ==
  LET r == [b |-> b, n |-> tries[b] + 1] IN
  /\ pc[b] = "built" /\ MayPost(b)
  /\ tries' = [tries EXCEPT ![b] = @ + 1]
  /\ pc' = [pc EXCEPT ![b] = "waiting"]
  /\ \/ /\ healthy
        /\ inbox' = inbox \cup {r}
        /\ reply' = [reply EXCEPT ![b] = None]
     \/ /\ ~healthy
        /\ reply' = [reply EXCEPT ![b] = "unavailable"]
        /\ UNCHANGED inbox
     \/ /\ reply' = [reply EXCEPT ![b] = None]
        /\ UNCHANGED inbox
  /\ UNCHANGED <<durable, healthy, admitted, worker, base, seen, applied, crashes>>

Settle(b, p) == pc' = [pc EXCEPT ![b] = p] /\ reply' = [reply EXCEPT ![b] = None]

\* A retryable answer is retried while attempts last.  After the last one, or
\* for a permanent storage error, 5xx and 409 are reconciled; 429 and 4xx
\* raise at once.
HandleReply(b) ==
  LET c == reply[b] IN
  /\ pc[b] = "waiting" /\ c # None
  /\ \/ c = "committed" /\ Settle(b, "committed")
     \/ c = "invalid" /\ Settle(b, "failed")
     \/ c = "busy" /\ ~MayPost(b) /\ Settle(b, "failed")
     \/ /\ c \in {"busy", "unavailable", "error"} /\ MayPost(b)
        /\ Settle(b, "built")
     \/ /\ \/ c \in {"stale", "conflict", "error"}
           \/ c = "unavailable" /\ ~MayPost(b)
        /\ pc' = [pc EXCEPT ![b] = "reconciling"] /\ UNCHANGED reply
  /\ UNCHANGED <<durable, healthy, inbox, admitted, worker, base, seen, tries, applied, crashes>>

\* No answer: a transport error or the upload timeout.  The request itself
\* may still be in the server.
Timeout(b) ==
  /\ pc[b] = "waiting" /\ reply[b] = None
  /\ pc' = [pc EXCEPT ![b] = IF MayPost(b) THEN "built" ELSE "reconciling"]
  /\ UNCHANGED <<durable, healthy, inbox, admitted, worker, base, seen, tries, reply,
                 applied, crashes>>

\* What _reconcile_committed_merge trusts: COMMITTED, with this bundle's hash.
Trusted(b) == Committed(b)

\* _is_stale_delta_conflict
StaleAnswer(b) == reply[b] = "stale"

\* The durable receipt decides when it can be read; when it cannot, or is not
\* COMMITTED, a stale answer stands and any other error is raised.  A COMMITTED
\* receipt of other content under the same key is an error too.
Reconcile(b) ==
  LET taken == receipt[KeyOf[b]] # None /\ receipt[KeyOf[b]].st = "COMMITTED" IN
  /\ pc[b] = "reconciling"
  /\ \/ Trusted(b) /\ Settle(b, "committed")
     \/ taken /\ ~Trusted(b) /\ Settle(b, "failed")
     \/ ~taken /\ ~Trusted(b) /\ Settle(b, IF StaleAnswer(b) THEN "stale" ELSE "failed")
     \/ Settle(b, IF StaleAnswer(b) THEN "stale" ELSE "unknown")
  /\ UNCHANGED <<durable, healthy, inbox, admitted, worker, base, seen, tries, applied, crashes>>

-----------------------------------------------------------------------------
(* Server.                                                                 *)

\* The archive validates and _acquire_delta_publish_slot finds the service
\* serving; what follows, the wait for a slot and for _merge_lock, checks
\* nothing again.  It reads the service status, not the latch: an endpoint that
\* ends after the latch closed has set the status back to serving.
Admit(r) ==
  /\ r \in inbox
  /\ inbox' = inbox \ {r}
  /\ admitted' = admitted \cup {r}
  /\ UNCHANGED <<durable, healthy, worker, publishers, applied, crashes>>

\* The service is not serving (503), or the wait for a slot times out (429).
\* Archives are taken to validate.
Refuse(r) ==
  /\ \E c \in {"unavailable", "busy"} :
       /\ IF c = "busy" THEN r \in admitted ELSE r \in inbox
       /\ reply' = IF pc[r.b] = "waiting" /\ tries[r.b] = r.n
                   THEN [reply EXCEPT ![r.b] = c] ELSE reply
  /\ inbox' = inbox \ {r} /\ admitted' = admitted \ {r}
  /\ UNCHANGED <<durable, healthy, worker, pc, base, seen, tries, applied, crashes>>

\* async with _merge_lock
TakeLock(r) ==
  /\ cur = None
  /\ r \in admitted
  /\ admitted' = admitted \ {r}
  /\ cur' = r /\ stage' = "entered" /\ code' = None
  /\ UNCHANGED <<durable, healthy, inbox, armed, publishers, applied, crashes>>

\* The worker answers c without touching the database any further.
Answer(c) ==
  /\ stage' = "done" /\ code' = c
  /\ UNCHANGED <<cur, armed>>

\* _delta_upsert_state: DELETE, then INSERT.
PutReceipt(b, st) == receipt' = [receipt EXCEPT ![KeyOf[b]] = [st |-> st, by |-> b]]

\* Outside a transaction the two statements autocommit apart: the row is gone
\* when the INSERT fails, or the process dies before it.
LosesReceipt(b) == receipt' = [receipt EXCEPT ![KeyOf[b]] = None]

\* A write of the receipt that raises before the transaction is left by the
\* worker without a record of the failure.
WriteFails(b) == (UNCHANGED receipt \/ LosesReceipt(b)) /\ Answer("error")

HashMismatch(b) == receipt[KeyOf[b]] # None /\ receipt[KeyOf[b]].by # b

\* (int(import_run_id), int(publish_sequence)) < latest committed order
Older(b) ==
  Lane[b] = "repair" /\ \E l \in Scope[b] :
    /\ latest[l] # None
    /\ Order[b] # NoOrder /\ Order[latest[l]] # NoOrder
    /\ Order[b] < Order[latest[l]]

\* fleet_publish_locked is consulted by the repair lane only.
WindowShut(b) == Lane[b] = "repair" /\ fleetLock

\* An unfenced repair bundle where a base generation is required.
Unfenced(b) == Lane[b] = "repair" /\ RequireBase /\ b \notin Fenced

\* The checks of _merge_delta_bundle and _merge_fleet_bundle that precede the
\* transaction, in their order.  The connection, or one of their reads, may fail.
Enter(b) ==
  /\ stage = "entered" /\ cur # None /\ cur.b = b
  /\ \/ Answer("error") /\ UNCHANGED receipt
     \/ WindowShut(b) /\ Answer("conflict") /\ UNCHANGED receipt
     \/ /\ ~WindowShut(b)
        /\ \/ HashMismatch(b) /\ Answer("conflict") /\ UNCHANGED receipt
           \/ /\ ~HashMismatch(b) /\ Committed(b)            \* idempotent replay
              /\ Answer("committed") /\ UNCHANGED receipt
           \/ /\ ~HashMismatch(b) /\ ~Committed(b)
              /\ \/ Unfenced(b) /\ Answer("conflict") /\ UNCHANGED receipt
                 \/ ~Unfenced(b) /\ WriteFails(b)
                 \/ /\ ~Unfenced(b) /\ Older(b)
                    /\ PutReceipt(b, "CONFLICT") /\ Answer("stale")
                 \/ /\ ~Unfenced(b) /\ ~Older(b)
                    /\ PutReceipt(b, "RECEIVED")
                    /\ stage' = "received" /\ UNCHANGED <<cur, code, armed>>
  /\ UNCHANGED <<facts, gen, latest, fleetLock, healthy, inbox, admitted, publishers,
                 applied, crashes>>

Validate(b) ==
  /\ stage = "received" /\ cur.b = b
  /\ \/ /\ PutReceipt(b, "VALIDATED")
        /\ stage' = "validated" /\ UNCHANGED <<cur, code, armed>>
     \/ WriteFails(b)
  /\ UNCHANGED <<facts, gen, latest, fleetLock, healthy, inbox, admitted, publishers, applied, crashes>>

Current(b) == \A l \in Scope[b] : gen[l] = base[b][l]

\* BEGIN, arm the deadline timer, compare the base generation: with a current
\* base the tables are replaced inside the transaction.  A stale base, or a
\* statement that fails, ends it and cancels the timer, which may have expired.
BeginTransaction(b) ==
  /\ stage = "validated" /\ cur.b = b
  /\ \/ /\ b \in Fenced => Current(b)
        /\ stage' = "staged" /\ armed' = TRUE /\ UNCHANGED <<healthy, code>>
     \/ /\ \/ b \in Fenced /\ ~Current(b) /\ code' = "conflict"
           \/ code' = "error"
        /\ stage' = "failing" /\ armed' = FALSE
        /\ UNCHANGED healthy \/ (Deadlines /\ healthy' = FALSE)
  /\ UNCHANGED <<durable, inbox, admitted, cur, publishers, applied, crashes>>

\* A statement fails or times out; a fleet bundle may also fail its own
\* validation against the rows it produced.
StepFails(b) ==
  /\ stage = "staged" /\ cur.b = b
  /\ stage' = "failing" /\ armed' = FALSE
  /\ code' \in (IF Lane[b] = "fleet" THEN {"error", "invalid"} ELSE {"error"})
  /\ UNCHANGED <<durable, healthy, inbox, admitted, cur, publishers, applied, crashes>>

\* The merge deadline: latch the storage unhealthy and interrupt.  An interrupt
\* that falls between two statements stops nothing.
DeadlineExpires(b) ==
  /\ Deadlines /\ stage = "staged" /\ armed /\ cur.b = b
  /\ healthy' = FALSE /\ armed' = FALSE
  /\ \/ stage' = "failing" /\ code' = "error"
     \/ UNCHANGED <<stage, code>>
  /\ UNCHANGED <<durable, inbox, admitted, cur, publishers, applied, crashes>>

ReplacedFacts(b) ==
  [l \in League |-> IF l \in Scope[b] THEN seen[b][l] \cup {b} ELSE facts[l]]

\* bump_generations, by both lanes
BumpedGen(b) == [l \in League |-> IF l \in Scope[b] THEN gen[l] + 1 ELSE gen[l]]

\* What COMMIT makes durable, all or nothing: the replaced rows, the bumped
\* generations and the COMMITTED receipt.
CommitDurably(b) ==
  /\ facts' = ReplacedFacts(b)
  /\ gen' = BumpedGen(b)
  /\ PutReceipt(b, "COMMITTED")
  /\ latest' = [l \in League |->
                  IF l \in Scope[b] /\ Lane[b] = "repair" THEN b ELSE latest[l]]
  /\ applied' = [applied EXCEPT ![b] = @ + 1]

\* _commit_merge disarms the timer first.  COMMIT succeeds, fails, or succeeds
\* and then reports the failure of its automatic checkpoint.
Commit(b) ==
  /\ stage = "staged" /\ cur.b = b
  /\ armed' = FALSE
  /\ \/ CommitDurably(b) /\ stage' = "done" /\ code' = "committed"
     \/ CommitDurably(b) /\ stage' = "failing" /\ code' = "error"
     \/ /\ stage' = "failing" /\ code' = "error"
        /\ UNCHANGED <<facts, gen, receipt, latest, applied>>
  /\ UNCHANGED <<fleetLock, healthy, inbox, admitted, cur, publishers, crashes>>

\* The guard of _delta_upsert_state on FAILED_MERGE and CONFLICT.
KeepsReceipt(b) == receipt[KeyOf[b]] # None /\ receipt[KeyOf[b]].st = "COMMITTED"

\* ROLLBACK, then record the failure.  The fleet lane records a conflict as
\* FAILED_MERGE.  The write may itself fail, after the old row has gone.
RecordFailure(b) ==
  LET st == IF code = "conflict" /\ Lane[b] = "repair" THEN "CONFLICT" ELSE "FAILED_MERGE"
  IN
  /\ stage = "failing" /\ cur.b = b
  /\ \/ /\ IF KeepsReceipt(b) THEN UNCHANGED receipt ELSE PutReceipt(b, st)
        /\ UNCHANGED code
     \/ /\ code' = "error"
        /\ \/ UNCHANGED receipt
           \/ ~KeepsReceipt(b) /\ LosesReceipt(b)
  /\ stage' = "done"
  /\ UNCHANGED <<facts, gen, latest, fleetLock, healthy, inbox, admitted, cur, armed,
                 publishers, applied, crashes>>

\* The worker returned or raised.
Finished(b) == stage = "done" /\ cur.b = b

\* Release _merge_lock and the slot; the answer reaches the attempt that is
\* still listening.
Respond(b) ==
  /\ Finished(b)
  /\ reply' = IF pc[b] = "waiting" /\ tries[b] = cur.n
              THEN [reply EXCEPT ![b] = code] ELSE reply
  /\ cur' = None /\ stage' = "idle" /\ code' = None
  /\ UNCHANGED <<durable, healthy, inbox, admitted, armed, pc, base, seen, tries, applied, crashes>>

\* /fleet-publish-lock opens or closes the window under _merge_lock; what
\* admission it needed it passed when it arrived, before the wait for the lock.
SetFleetLock(on) ==
  /\ cur = None
  /\ fleetLock # on
  /\ fleetLock' = on
  /\ UNCHANGED <<facts, gen, receipt, latest, healthy, inbox, admitted, worker, publishers,
                 applied, crashes>>

\* The process dies and restarts: requests, timer and latch go, disk stays.
CrashRestart ==
  /\ crashes < MaxCrashes
  /\ crashes' = crashes + 1
  /\ healthy' = TRUE /\ inbox' = {} /\ admitted' = {}
  /\ cur' = None /\ stage' = "idle" /\ code' = None /\ armed' = FALSE
  /\ UNCHANGED <<durable, publishers, applied>>

Publisher(b) ==
  \/ CaptureGeneration(b) \/ BuildBundle(b) \/ Post(b)
  \/ HandleReply(b) \/ Timeout(b) \/ Reconcile(b)

Worker(b) ==
  \/ Enter(b) \/ Validate(b) \/ BeginTransaction(b) \/ StepFails(b)
  \/ DeadlineExpires(b) \/ Commit(b) \/ RecordFailure(b) \/ Respond(b)

Next ==
  \/ \E b \in Bundle : Publisher(b) \/ Worker(b)
  \/ \E r \in Request : Admit(r) \/ Refuse(r) \/ TakeLock(r)
  \/ \E on \in BOOLEAN : SetFleetLock(on)
  \/ CrashRestart

Spec == Init /\ [][Next]_vars

\* A worker thread runs to its end, and a publisher's own code does: neither
\* waits for anything but its deadline.  Nothing makes an import start, a
\* deadline expire, a crash happen or an operator move the window.
Fairness ==
  /\ \A b \in Bundle : WF_vars(Worker(b))
  /\ \A b \in Bundle : WF_vars(BuildBundle(b) \/ Post(b) \/ HandleReply(b)
                                 \/ Timeout(b) \/ Reconcile(b))

FairSpec == Spec /\ Fairness
-----------------------------------------------------------------------------
(* Properties.                                                             *)

\* Every variable stays in the set its code allows.
TypeOK ==
  /\ facts \in [League -> SUBSET Bundle]
  /\ gen \in [League -> Nat]
  /\ receipt \in [Key -> Row \cup {None}]
  /\ latest \in [League -> Bundle \cup {None}]
  /\ fleetLock \in BOOLEAN
  /\ healthy \in BOOLEAN
  /\ inbox \subseteq Request /\ admitted \subseteq Request
  /\ cur \in Request \cup {None}
  /\ stage \in Stages
  /\ code \in Codes \cup {None}
  /\ armed \in BOOLEAN
  /\ pc \in [Bundle -> PCs]
  /\ base \in [Bundle -> [League -> Nat]]
  /\ seen \in [Bundle -> [League -> SUBSET Bundle]]
  /\ tries \in [Bundle -> 0..MaxTries]
  /\ reply \in [Bundle -> Codes \cup {None}]
  /\ applied \in [Bundle -> Nat]
  /\ crashes \in Nat

\* However often a bundle is posted, replayed, interrupted or reported failed,
\* its update reaches the disk once, and then its receipt is COMMITTED and
\* stays so; without that receipt it never did (_delta_upsert_state,
\* _merge_delta_bundle, _merge_fleet_bundle).
ExactlyOnce ==
  \A b \in Bundle : applied[b] = IF Committed(b) THEN 1 ELSE 0

\* A league's generation counts the bundles committed to it, so base + 1 names
\* the state one particular commit produced: what local_db's finalization
\* compares before it writes on behalf of a commit.
GenerationCountsCommits ==
  \A l \in League :
    gen[l] = Cardinality({b \in Bundle : Committed(b) /\ l \in Scope[b]})

\* A publisher that reports success has its data on disk, also across crashes
\* and however the answer was obtained.
SuccessIsDurable ==
  \A b \in Bundle : pc[b] = "committed" =>
    Committed(b) /\ \A l \in Scope[b] : gen[l] > base[b][l]

\* G14, fleet_merge.py: no merge loses an update another lane has published.
NoRewind == [][\A l \in League : facts[l] \subseteq facts'[l]]_vars

\* While the fleet publish window is open for the fleet, no repair-lane bundle
\* becomes COMMITTED.
LockWindow ==
  [][\A b \in Bundle : fleetLock /\ Lane[b] = "repair" /\ ~Committed(b)
        => ~Committed(b)']_vars

\* A repair bundle never commits over a league's newer committed bundle.
NoOlderOverNewer ==
  [][\A b, c \in Bundle :
        /\ Lane[b] = "repair" /\ Lane[c] = "repair"
        /\ Scope[b] = Scope[c]
        /\ Committed(c) /\ ~Committed(b) /\ Committed(b)'
        /\ Order[b] # NoOrder /\ Order[c] # NoOrder
        => Order[c] <= Order[b]]_vars

\* A publisher that skipped its bundle as stale is right for good: no attempt
\* of it still in the server can commit later.
StaleIsFinal == \A b \in Bundle : pc[b] = "stale" => ~Committed(b)

\* Once the storage latch has closed, nothing more becomes durable in the
\* league database before a restart.
WriteClosed == [][~healthy => facts' = facts]_vars

\* A publisher raises an error only when the bundle is not committed, except
\* when the receipt could not be read.
NoBlindFailure ==
  [][\A b \in Bundle : pc[b] # "failed" /\ pc'[b] = "failed" => ~Committed(b)]_vars

\* Every publisher that has started its import ends with an outcome.
PublisherSettles ==
  \A b \in Bundle : (pc[b] = "fetching") ~> (pc[b] \in Terminal)

\* _merge_lock never stays taken.
LockReleased == (cur # None) ~> (cur = None)

Store == INSTANCE LeagueStore WITH
  published <- {b \in Bundle : Committed(b)}

\* Under the fence the protocol is an atomic, lossless store.
StoreSpec == Store!Spec
=============================================================================
