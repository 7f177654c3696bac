----------------------------- MODULE UpdateClaim -----------------------------
(***************************************************************************)
(* The claim of one league's update: the row of league_update_dispatches    *)
(* that says which workflow run owns the update and how far it is, and the  *)
(* published manifest beside it.                                           *)
(*                                                                         *)
(* A run claims the row, refreshes, renews its claim, publishes through the *)
(* fence of the generation, reports the commit, warms the cache and reports *)
(* success; a recovery run finishes a committed one.  Every report is an    *)
(* SQL script posted with retries: the server may execute it late, twice,   *)
(* after its sender is gone, or only its first statements, for each         *)
(* statement commits on its own.  Runs may be killed at any moment.         *)
(*                                                                         *)
(* Runs here are manual ones, whose token names the run and its attempt, so *)
(* that attempt_id and claim_version repeat what the token says.  The claim *)
(* the website makes for its own runs is not in the repository.             *)
(***************************************************************************)
EXTENDS Naturals

CONSTANTS
  Run,       \* workflow runs of one league, one attempt each
  Recovery,  \* cache-only runs
  None,
  LateClaims, \* a copy of a take-over may be executed after its answer
  MaxOther   \* bound on the publications of other lanes

ASSUME ClaimAssumption ==
  None \notin Run \cup Recovery /\ LateClaims \in BOOLEAN /\ MaxOther \in Nat

Publication == {"committed", "committed_cache_pending", "succeeded"}
Terminal    == {"succeeded", "failed", "no_change"}
InFlight    == {"dispatching", "running"}

\* What a message asks for: one of the reports, or a statement of the claim.
Report    == InFlight \cup Publication \cup Terminal
Statement == Report \cup {"renew", "take_over", "fail_partial"}

VARIABLES
  row,       \* the dispatch row; owner None stands for no row
  fresh,     \* lease and heartbeat say that its owner is alive
  published, \* the run whose manifest is the published one
  gen,       \* the generation of the league
  base,      \* [Run -> the generation the run has read]
  at,        \* [Run -> the generation its bundle became, 0: none]
  posted,    \* runs whose bundle the server may still execute
  warm,      \* the generation the cache was last warmed from
  wire,      \* scripts that were sent, which the server may execute again
  pc,        \* [Run -> where it is]
  receipt,   \* runs whose receipt file says COMMITTED
  rec,       \* [Recovery -> where it is, and whose claim it finishes]
  others     \* publications of other lanes so far

league == <<gen, base, at, posted, warm, others>>
vars == <<row, fresh, published, league, wire, pc, receipt, rec>>

Init ==
  /\ row = [owner |-> None, status |-> "failed", verified |-> FALSE, bundle |-> None]
  /\ fresh = FALSE /\ published = None
  /\ gen = 0 /\ base = [r \in Run |-> 0] /\ at = [r \in Run |-> 0]
  /\ posted = {} /\ warm = 0 /\ others = 0
  /\ wire = {} /\ pc = [r \in Run |-> "new"] /\ receipt = {}
  /\ rec = [c \in Recovery |-> [pc |-> "idle", run |-> None]]

-----------------------------------------------------------------------------
(* The script of a report, and the statements of a claim.                   *)

\* A bug: a late report of the commit reopens an update that waits for its cache.
Reopens(s) ==
  IF s = "committed" THEN {"running"} \cup Publication
  ELSE IF s = "dispatching" THEN {"dispatching"}
  ELSE {"dispatching", "running"} \cup Publication

\* ALLOWED_PRIOR_STATUSES, for the statuses a manual run reports.
Prior(s) ==
  {s} \cup
  IF s = "dispatching" THEN {}
  ELSE IF s \in {"running", "failed"} THEN {"dispatching", "running"}
  ELSE IF s = "committed_cache_pending" THEN {"running", "committed"}
  ELSE IF s = "succeeded" THEN {"running"} \cup Publication
  ELSE {"running"}

\* INSERT ... ON CONFLICT DO NOTHING, then the guarded UPDATE.
Reported(r, s) ==
  IF row.owner = None
  THEN [owner |-> r, status |-> s, verified |-> s = "succeeded",
        bundle |-> IF s \in Publication THEN r ELSE None]
  ELSE IF /\ row.owner = r /\ row.status \in Prior(s)
          /\ ~(s \in Terminal /\ row.status = s)
  THEN [owner |-> r, status |-> s, verified |-> row.verified \/ s = "succeeded",
        bundle |-> IF s \in Publication THEN r ELSE row.bundle]
  ELSE row

\* A bug: the manifest follows the status alone, whoever owns the row.
PromotesAnyOwner(r, s, new) == s \in Publication

\* The UPDATE of the manifest: only beside a row that shows this very report.
Promotes(r, s, new) == s \in Publication /\ new.owner = r /\ new.status = s

\* The final SELECT, with published_guard.
Accepted(r, s, new, pub) ==
  new.owner = r /\ new.status = s /\ (s \in Publication => pub = r)

\* The claim may be taken: it is settled, or its owner has been silent.
Claimable == row.status \in Terminal \/ (row.status \in InFlight /\ ~fresh)

\* The row after a statement of the claim; it is the same when none applies.
Claimed(r, s) ==
  IF s = "take_over" /\ row.owner \notin {None, r} /\ Claimable
  THEN [owner |-> r, status |-> "dispatching", verified |-> row.verified, bundle |-> row.bundle]
  ELSE IF s = "fail_partial" /\ row.owner = r /\ row.status = "dispatching"
  THEN [row EXCEPT !.status = "failed"]
  ELSE row

Refreshes(r, s) ==
  \/ s = "running" /\ row.owner = r /\ row.status \in Prior(s)
  \/ s = "renew" /\ row.owner = r /\ row.status = "dispatching"
  \/ s = "take_over" /\ row.owner \notin {None, r} /\ Claimable
  \/ s \in Report /\ row.owner = None

Msg(r, s) == [run |-> r, stmt |-> s]

-----------------------------------------------------------------------------
(* A run: where it waits for the answer of a statement, and what is next.   *)

\* The statement each place waits for.
Awaits(p) ==
  IF p = "claiming" THEN "dispatching"
  ELSE IF p = "renewing" THEN "renew"
  ELSE IF p = "taking" THEN "take_over"
  ELSE IF p \in {"starting", "keeping"} THEN "running"
  ELSE IF p = "recording" THEN "committed"
  ELSE IF p = "completing" THEN "succeeded"
  ELSE IF p = "idling" THEN "no_change"
  ELSE IF p = "settling" THEN "failed"
  ELSE IF p = "pending" THEN "committed_cache_pending"
  ELSE IF p = "parting" THEN "fail_partial"
  ELSE "nothing"

\* Where an answer leads; a refusal fails the job, except that a claim that is
\* not the run's own is then taken over.
After(p, yes) ==
  IF p = "claiming" THEN (IF yes THEN "renewing" ELSE "taking")
  ELSE IF p \in {"renewing", "taking"} THEN (IF yes THEN "claimed" ELSE "unclaimed")
  ELSE IF ~yes /\ p \in {"starting", "keeping", "recording", "completing", "idling"}
  THEN "failing"
  ELSE IF p = "starting" THEN "refreshing"
  ELSE IF p = "keeping" THEN "renewed"
  ELSE IF p = "recording" THEN "warming"
  ELSE "done"

\* A step that ends in sending the statement its new place waits for.
Send(r, p) ==
  /\ pc' = [pc EXCEPT ![r] = p]
  /\ wire' = wire \cup {Msg(r, Awaits(p))}
Move(r, p) == pc' = [pc EXCEPT ![r] = p] /\ UNCHANGED wire

\* The run's own next step, from one place to the next.
Proceed(r) ==
  /\ \/ pc[r] = "new" /\ Send(r, "claiming")
     \/ pc[r] = "claimed" /\ Send(r, "starting")
     \/ pc[r] = "refreshed" /\ (Send(r, "keeping") \/ Send(r, "idling"))
     \/ pc[r] = "unclaimed" /\ Send(r, "parting")
     \/ pc[r] = "told" /\ Send(r, "recording")
     \/ pc[r] = "warmed" /\ Send(r, "completing")
  /\ UNCHANGED <<row, fresh, published, league, receipt, rec>>

\* The worker reads the generation its bundle will be fenced with.
Capture(r) ==
  /\ pc[r] = "refreshing" /\ Move(r, "refreshed")
  /\ base' = [base EXCEPT ![r] = gen]
  /\ UNCHANGED <<row, fresh, published, gen, at, posted, warm, others, receipt, rec>>

Publish(r) ==
  /\ pc[r] = "renewed" /\ Move(r, "publishing")
  /\ posted' = posted \cup {r}
  /\ UNCHANGED <<row, fresh, published, gen, base, at, warm, others, receipt, rec>>

\* The merge on the server, under its fence; its sender may be gone by then.
Commit(r) ==
  /\ r \in posted /\ posted' = posted \ {r}
  /\ IF gen = base[r] THEN gen' = gen + 1 /\ at' = [at EXCEPT ![r] = gen + 1]
                      ELSE UNCHANGED <<gen, at>>
  /\ UNCHANGED <<row, fresh, published, base, warm, others, wire, pc, receipt, rec>>

\* record_publication_commit: the answer, or the receipt asked for, is saved.
Told(r) ==
  /\ pc[r] = "publishing" /\ at[r] # 0
  /\ receipt' = receipt \cup {r} /\ Move(r, "told")
  /\ UNCHANGED <<row, fresh, published, league, rec>>

\* A bug: success is reported before the cache is warmed.
ForgetsCache(r) ==
  /\ pc[r] = "warming" /\ Move(r, "warmed") /\ UNCHANGED warm
  /\ UNCHANGED <<row, fresh, published, gen, base, at, posted, others, receipt, rec>>

\* warm_vercel_cache.py
Warm(r) ==
  /\ pc[r] = "warming" /\ Move(r, "warmed") /\ warm' = gen
  /\ UNCHANGED <<row, fresh, published, gen, base, at, posted, others, receipt, rec>>

\* A bug: every failed run says that its data are in.
AlwaysPending(r) == "pending"

\* failure_status: by the receipt file, nothing else.
FailureStatus(r) == IF r \in receipt THEN "pending" ELSE "settling"

Working == {"claiming", "renewing", "taking", "unclaimed", "claimed", "starting",
            "refreshing", "refreshed", "keeping", "renewed", "publishing", "told",
            "recording", "warming", "warmed", "completing", "idling", "failing"}

\* The job fails: an answer that never came, a step that raised, the deadline
\* that kills the worker.  Without the token among the outputs only a claim
\* that was never started is settled.
FailJob(r) ==
  /\ pc[r] \in Working
  /\ IF pc[r] \in {"claiming", "renewing", "taking", "unclaimed"} THEN Send(r, "parting")
     ELSE Send(r, FailureStatus(r))
  /\ UNCHANGED <<row, fresh, published, league, receipt, rec>>

\* The runner is lost with all its steps; what it has posted is not.
LoseRun(r) ==
  /\ pc[r] \notin {"new", "done"} /\ Move(r, "done")
  /\ UNCHANGED <<row, fresh, published, league, receipt, rec>>

-----------------------------------------------------------------------------
(* The server executes a script of the wire.  It stays there: a copy that    *)
(* was sent again after a timeout may follow, and nothing says how late.     *)

Serve(m) ==
  LET r == m.run  s == m.stmt
      new == IF s \in Report THEN Reported(r, s) ELSE Claimed(r, s)
      pub == IF Promotes(r, s, new) THEN r ELSE published
      yes == IF s \in Report THEN Accepted(r, s, new, pub)
             ELSE new # row \/ (s = "renew" /\ Refreshes(r, s))
  IN /\ m \in wire
     /\ s = "take_over" /\ ~LateClaims => pc[r] = "taking"
     /\ row' = new /\ published' = pub /\ fresh' = (fresh \/ Refreshes(r, s))
     /\ \/ UNCHANGED wire /\ UNCHANGED pc
        \/ /\ Awaits(pc[r]) = s
           /\ LET p == After(pc[r], yes)
              IN /\ pc' = [pc EXCEPT ![r] = p]
                 /\ wire' = IF Awaits(p) = "nothing" THEN wire
                            ELSE wire \cup {Msg(r, Awaits(p))}
     /\ UNCHANGED <<league, receipt, rec>>

\* The server stops, or the script is interrupted, after the row and before
\* the manifest.
Tear(m) ==
  /\ m \in wire /\ m.stmt \in Publication
  /\ row' = Reported(m.run, m.stmt)
  /\ UNCHANGED <<fresh, published, league, wire, pc, receipt, rec>>

TimePasses ==
  /\ fresh /\ fresh' = FALSE
  /\ UNCHANGED <<row, published, league, wire, pc, receipt, rec>>

OtherPublish ==
  /\ others < MaxOther /\ others' = others + 1 /\ gen' = gen + 1
  /\ UNCHANGED <<row, fresh, published, base, at, posted, warm, wire, pc, receipt, rec>>

-----------------------------------------------------------------------------
(* A cache-only run.                                                        *)

\* _load_claim, for a row that is not finished.
Eligible ==
  /\ row.status \in {"committed", "committed_cache_pending"}
  /\ row.status = "committed_cache_pending" \/ ~row.verified

\* build_cache_recovery_receipt: no newer publication.  It also refuses a receipt
\* of complete scope whose manifest is not the published one; this recovery may
\* start then, too.
Current(r) == gen = base[r] + 1

StartRecovery(c) ==
  /\ rec[c].pc = "idle" /\ row.owner # None /\ Eligible /\ Current(row.owner)
  /\ rec' = [rec EXCEPT ![c] = [pc |-> "warming", run |-> row.owner]]
  /\ UNCHANGED <<row, fresh, published, league, wire, pc, receipt>>

\* With --receipt: a run that was lost with its receipt saved.
Reconcile(c, r) ==
  /\ rec[c].pc = "idle" /\ r \in receipt /\ row.owner = r
  /\ Eligible \/ (row.status = "running" /\ ~row.verified)
  /\ Current(r) /\ at[r] = gen
  /\ wire' = wire \cup {Msg(r, "committed_cache_pending")}
  /\ UNCHANGED <<row, fresh, published, league, pc, receipt, rec>>

RecoveryWarms(c) ==
  /\ rec[c].pc = "warming" /\ warm' = gen
  /\ rec' = [rec EXCEPT ![c].pc = "warmed"]
  /\ UNCHANGED <<row, fresh, published, gen, base, at, posted, others, wire, pc, receipt>>

\* The second look at the generation, and the report; or it is superseded.
RecoveryReports(c) ==
  /\ rec[c].pc = "warmed"
  /\ IF Current(rec[c].run) THEN wire' = wire \cup {Msg(rec[c].run, "succeeded")}
                            ELSE UNCHANGED wire
  /\ rec' = [rec EXCEPT ![c] = [pc |-> "done", run |-> None]]
  /\ UNCHANGED <<row, fresh, published, league, pc, receipt>>

-----------------------------------------------------------------------------
RunStep(r) ==
  \/ Proceed(r) \/ Capture(r) \/ Publish(r) \/ Commit(r) \/ Told(r) \/ Warm(r)
  \/ FailJob(r) \/ LoseRun(r)

RecoveryStep(c) ==
  \/ StartRecovery(c) \/ RecoveryWarms(c) \/ RecoveryReports(c)
  \/ \E r \in Run : Reconcile(c, r)

Next ==
  \/ \E r \in Run : RunStep(r)
  \/ \E m \in wire : Serve(m) \/ Tear(m)
  \/ \E c \in Recovery : RecoveryStep(c)
  \/ TimePasses \/ OtherPublish

Spec == Init /\ [][Next]_vars

-----------------------------------------------------------------------------
(* Properties.                                                              *)

Places == Working \cup {"new", "settling", "pending", "parting", "done"}

\* Type invariant: a generation counts the commits, and a row names its run.
ClaimTypeOK ==
  /\ row.owner \in Run \cup {None} /\ row.bundle \in Run \cup {None}
  /\ row.status \in Report /\ row.verified \in BOOLEAN /\ fresh \in BOOLEAN
  /\ published \in Run \cup {None} /\ pc \in [Run -> Places]
  /\ wire \subseteq [run : Run, stmt : Statement]
  /\ \A r \in Run : at[r] \in 0..gen /\ base[r] \in 0..gen
  /\ posted \subseteq Run /\ receipt \subseteq Run /\ warm \in 0..gen

\* A row that shows a publication shows one the server has committed, and it is
\* that of the run that owns the row: no report, late, repeated or torn, makes a
\* league look published that is not.
RowTellsTruth ==
  row.status \in Publication => row.bundle = row.owner /\ at[row.owner] # 0

Rank(s) ==
  IF s = "dispatching" THEN 1 ELSE IF s = "running" THEN 2
  ELSE IF s = "committed" THEN 3 ELSE IF s = "committed_cache_pending" THEN 4 ELSE 5

\* Under one owner the row only goes forward, and a settled update stays as it
\* was settled, whatever copies of earlier reports arrive.
NoGoingBack ==
  [][row.owner # None /\ row'.owner = row.owner /\ row'.status # row.status
       => Rank(row'.status) > Rank(row.status)]_row

\* The published manifest, the baseline of the next update, is never taken back
\* to that of an earlier commit.
ManifestFollowsCommits ==
  [][published' # published /\ published # None => at[published'] > at[published]]_published

\* A run that goes on to warm the cache was told that its commit is recorded:
\* then the manifest is promoted as well, whatever the server lost in between.
AcceptedIsPromoted ==
  \A r \in Run : pc[r] \in {"warming", "warmed", "completing"}
    => published # None /\ at[published] >= at[r]

\* An update that shows success had its cache warmed after its commit.
SucceededIsWarm ==
  row.status = "succeeded" /\ row.owner # None => warm >= at[row.owner]

(* Statements of the repository that its code does not keep.                *)

\* "Finish cache publication for a durably committed league update"
\* (recover_league_update_cache.py:2): one whose run is gone and which no
\* publication superseded.
RecoveryAdmits ==
  /\ row.status \in {"committed", "committed_cache_pending"}
  /\ pc[row.owner] = "done" /\ Current(row.owner)
  => Eligible

\* "Sleeper active-season refresh did not publish", the error of a row that was
\* settled as failed (sleeper_incremental_refresh_worker.yml:301).
FailedDidNotPublish ==
  row.status = "failed" /\ row.owner # None => at[row.owner] = 0
=============================================================================
