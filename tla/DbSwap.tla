------------------------------- MODULE DbSwap -------------------------------
(***************************************************************************)
(* Replacing one database file of the volume: /replace-db uploads a file   *)
(* to <db>.duckdb.incoming and swaps it in, /compact-db builds the same    *)
(* file from the live one, atomic_swap renames, and startup_recovery puts  *)
(* a crashed swap right.                                                   *)
(*                                                                         *)
(* Names are modelled apart from inodes: a rename moves an inode to        *)
(* another name, and a handle that is still open writes to the inode       *)
(* whatever its name has become.  The content of an inode is the request   *)
(* whose data it holds and its state: a damaged file opens, a torn one     *)
(* does not.                                                               *)
(***************************************************************************)
EXTENDS Naturals

CONSTANTS
  Replace,    \* /replace-db requests
  Compact,    \* /compact-db requests
  Checked,    \* the replacements that send x-content-sha256
  Old,        \* the file the volume starts with
  Empty,      \* the database DuckDB creates under a name that leads nowhere
  None,
  Overlap,    \* may a request start while another is under way?
  HostCrash,  \* may a crash lose file data that was never synced?
  MaxCrashes, \* bound on crashes
  MaxFaults   \* bound on file-system errors that are not a SwapError

Request == Replace \cup Compact
Inode   == Request \cup {Old, Empty}
Name    == Inode \cup {None}

ASSUME SwapAssumption ==
  /\ Checked \subseteq Replace
  /\ Replace \cap Compact = {}
  /\ Old \notin Request /\ Empty \notin Request \cup {Old} /\ None \notin Inode
  /\ Overlap \in BOOLEAN /\ HostCrash \in BOOLEAN
  /\ MaxCrashes \in Nat /\ MaxFaults \in Nat

VARIABLES
  live, prev, incoming, bad, \* the inode each name leads to, or None
  data,      \* [Inode -> [of, state]]
  handle,    \* [Replace -> the inode its open file writes to, or None]
  holder,    \* the request holding _merge_lock, or None
  status,    \* what _state["status"] says
  pc, out,   \* [Request -> where it is], [Request -> its answer]
  recovery,  \* how far startup_recovery has come
  acked,     \* ghost: whose data the last successful answer put in place
  crashes, faults

names == <<live, prev, incoming, bad>>
files == <<names, data>>
vars  == <<files, handle, holder, status, pc, out, recovery, acked, crashes, faults>>
budget == <<crashes, faults>>

States == {"whole", "damaged", "torn"}

\* What validate_db_file, the probe and startup_recovery can tell.
Opens(i) == i # None /\ data[i].state # "torn"

Init ==
  /\ live = Old /\ prev = None /\ incoming = None /\ bad = None
  /\ data = [i \in Inode |->
              [of |-> i, state |-> IF i \in {Old, Empty} THEN "whole" ELSE "torn"]]
  /\ handle = [r \in Replace |-> None]
  /\ holder = None /\ status = "serving"
  /\ pc = [r \in Request |-> "new"]
  /\ out = [r \in Request |-> "none"]
  /\ recovery = "done"
  /\ acked = Old
  /\ crashes = 0 /\ faults = 0

At(r, p) == pc[r] = p
Go(r, p) == pc' = [pc EXCEPT ![r] = p] /\ UNCHANGED out
Done(r, o) == pc' = [pc EXCEPT ![r] = "done"] /\ out' = [out EXCEPT ![r] = o]

\* atomic_swap never awaits: nothing else runs on the event loop inside it.
Swapping == {"check", "unlink", "retire", "install", "probe", "rollback",
             "restore"}
Up == recovery = "done" /\ \A r \in Request : pc[r] \notin Swapping

MayStart(r) ==
  /\ Up /\ At(r, "new")
  /\ Overlap \/ \A q \in Request : pc[q] \in {"new", "done"}

\* connect_database creates a missing file.
Opened(name) == IF name = None THEN Empty ELSE name

-----------------------------------------------------------------------------
(* Plausible bugs, each in the place of the operator its comment names.     *)

\* KeepPrev: recovery trusts the live file.
TrustsLive == FALSE

\* Status: a failed swap of an upload leaves the pool closed.
StaysDraining(r) == IF r \in Replace THEN status ELSE "serving"

\* RollBackTo: the rollback sets the new file aside and stops there.
NoRollback == None

-----------------------------------------------------------------------------
(* /replace-db: the upload.                                                 *)

\* open(incoming, "wb") truncates the file the name leads to.
OpenUpload(r) ==
  LET i == IF incoming = None THEN r ELSE incoming IN
  /\ r \in Replace /\ MayStart(r)
  /\ incoming' = i
  /\ data' = [data EXCEPT ![i] = [of |-> r, state |-> "torn"]]
  /\ handle' = [handle EXCEPT ![r] = i]
  /\ Go(r, "upload")
  /\ UNCHANGED <<live, prev, bad, holder, status, recovery, acked, budget>>

\* The chunks reach the inode.  What arrives may be damaged or cut short, and
\* another upload to the same inode may spoil it too.
WriteUpload(r) ==
  /\ Up /\ At(r, "upload")
  /\ \E w \in States : data' = [data EXCEPT ![handle[r]] = [of |-> r, state |-> w]]
  /\ Go(r, "written")
  /\ UNCHANGED <<names, handle, holder, status, recovery, acked, budget>>

\* verify_checksum reads the file by its name.
Matches(r) == incoming # None /\ data[incoming] = [of |-> r, state |-> "whole"]

\* Close, then verify when a checksum was sent: a mismatch unlinks the name.
\* An upload that is too large does that too.
CloseUpload(r) ==
  /\ Up /\ At(r, "written")
  /\ handle' = [handle EXCEPT ![r] = None]
  /\ \/ /\ r \in Checked => Matches(r)
        /\ Go(r, "ready") /\ UNCHANGED incoming
     \/ /\ r \in Checked /\ ~Matches(r)
        /\ incoming' = None /\ Done(r, "rejected")
  /\ UNCHANGED <<live, prev, bad, data, holder, status, recovery, acked, budget>>

TooLarge(r) ==
  /\ Up /\ At(r, "upload")
  /\ handle' = [handle EXCEPT ![r] = None]
  /\ incoming' = None /\ Done(r, "rejected")
  /\ UNCHANGED <<live, prev, bad, data, holder, status, recovery, acked, budget>>

-----------------------------------------------------------------------------
(* Under _merge_lock: drain, build when compacting, swap, reopen.           *)

\* The pool is drained and closed before anything is renamed.
TakeLock(r) ==
  /\ Up /\ holder = None
  /\ \/ At(r, "ready") /\ Go(r, "check")
     \/ r \in Compact /\ MayStart(r) /\ Go(r, "build")
  /\ holder' = r /\ status' = "draining"
  /\ UNCHANGED <<files, handle, recovery, acked, budget>>

\* _build_compact, in a thread: a fresh file under the same name.
StartBuild(r) ==
  /\ Up /\ At(r, "build")
  /\ live' = Opened(live) /\ incoming' = r
  /\ data' = [data EXCEPT ![r] = [of |-> r, state |-> "torn"]]
  /\ Go(r, "copy")
  /\ UNCHANGED <<prev, bad, handle, holder, status, recovery, acked, budget>>

\* COPY FROM DATABASE: the same data as the live file, unless an upload has
\* truncated the copy meanwhile.
FinishBuild(r) ==
  /\ Up /\ At(r, "copy")
  /\ \E w \in (IF data[r].of = r THEN {data[live].state} ELSE States) :
       data' = [data EXCEPT ![r] = [of |-> data[live].of, state |-> w]]
  /\ Go(r, "check")
  /\ UNCHANGED <<names, handle, holder, status, recovery, acked, budget>>

Status(r) == "serving"

\* What the endpoints do about a SwapError, and /compact-db about any exception:
\* /compact-db unlinks its copy, both reopen the pool on what the live name
\* leads to by then, serve again and answer 5xx.  The reopening succeeds here.
Fail(r, l) ==
  /\ live' = Opened(l)
  /\ incoming' = IF r \in Compact THEN None ELSE incoming
  /\ status' = Status(r) /\ holder' = None /\ Done(r, "failed")

BuildFails(r) ==
  /\ Up /\ At(r, "copy")
  /\ Fail(r, live)
  /\ UNCHANGED <<prev, bad, data, handle, recovery, acked, budget>>

\* The incoming file exists and opens.
CheckIncoming(r) ==
  /\ At(r, "check")
  /\ \/ Opens(incoming) /\ Go(r, "unlink") /\ UNCHANGED <<live, incoming, holder, status>>
     \/ ~Opens(incoming) /\ Fail(r, live)
  /\ UNCHANGED <<prev, bad, data, handle, recovery, acked, budget>>

UnlinkPrev(r) ==
  /\ At(r, "unlink") /\ Go(r, "retire")
  /\ prev' = None
  /\ UNCHANGED <<live, incoming, bad, data, handle, holder, status, recovery, acked, budget>>

\* The drain has ended and the connections are closed: the file has no WAL.
Retire(r) ==
  /\ At(r, "retire") /\ Go(r, "install")
  /\ prev' = IF live # None THEN live ELSE prev
  /\ live' = None
  /\ UNCHANGED <<incoming, bad, data, handle, holder, status, recovery, acked, budget>>

Install(r) ==
  /\ At(r, "install") /\ Go(r, "probe")
  /\ live' = incoming /\ incoming' = None
  /\ UNCHANGED <<prev, bad, data, handle, holder, status, recovery, acked, budget>>

\* The health check opens the new live file; it may fail for a complete one
\* too, as when a connection of the old instance is still open.
Probe(r) ==
  /\ At(r, "probe")
  /\ \/ /\ Opens(live) /\ Done(r, "swapped") /\ status' = "serving" /\ holder' = None
        /\ acked' = data[live].of
     \/ Go(r, "rollback") /\ UNCHANGED <<status, holder, acked>>
  /\ UNCHANGED <<files, handle, recovery, budget>>

RollBack(r) ==
  /\ At(r, "rollback") /\ Go(r, "restore")
  /\ bad' = live /\ live' = None
  /\ UNCHANGED <<prev, incoming, data, handle, holder, status, recovery, acked, budget>>

RollBackTo == prev

Restore(r) ==
  /\ At(r, "restore")
  /\ Fail(r, RollBackTo)
  /\ prev' = IF RollBackTo = None THEN prev ELSE None
  /\ UNCHANGED <<bad, data, handle, recovery, acked, budget>>

\* A rename or an unlink raises OSError.  /compact-db handles any exception,
\* /replace-db only SwapError: its lock is released and nothing else happens.
FileError(r) ==
  /\ faults < MaxFaults /\ faults' = faults + 1
  /\ pc[r] \in {"unlink", "retire", "install", "rollback", "restore"}
  /\ \/ r \in Compact /\ Fail(r, live)
     \/ /\ r \in Replace
        /\ holder' = None /\ Done(r, "failed")
        /\ UNCHANGED <<live, incoming, status>>
  /\ UNCHANGED <<prev, bad, data, handle, recovery, acked, crashes>>

-----------------------------------------------------------------------------
(* Crash and startup_recovery, itself interrupted at will.                  *)

\* Nothing syncs an upload: the host's crash may tear the one installed last,
\* and what .prev holds is then the best that is left.
Torn == [data EXCEPT ![live].state = "torn"]

Crash ==
  /\ crashes < MaxCrashes /\ crashes' = crashes + 1
  /\ handle' = [r \in Replace |-> None]
  /\ holder' = None /\ status' = "starting"
  /\ pc' = [r \in Request |-> IF At(r, "new") THEN "new" ELSE "done"]
  /\ recovery' = "clean"
  /\ \/ UNCHANGED <<data, acked>>
     \/ /\ HostCrash /\ live \in Replace /\ prev # None
        /\ data' = Torn /\ acked' = data[prev].of
  /\ UNCHANGED <<names, out, faults>>

RemoveIncoming ==
  /\ recovery = "clean" /\ recovery' = "restore"
  /\ incoming' = None
  /\ UNCHANGED <<live, prev, bad, data, handle, holder, status, pc, out, acked, budget>>

RestoreMissing ==
  /\ recovery = "restore" /\ recovery' = "verify"
  /\ IF live = None /\ prev # None
     THEN live' = prev /\ prev' = None
     ELSE UNCHANGED <<live, prev>>
  /\ UNCHANGED <<incoming, bad, data, handle, holder, status, pc, out, acked, budget>>

\* The live file does not open.
KeepPrev == ~Opens(live)

\* Both exist: .prev goes only when the live file opens.
VerifyLive ==
  /\ recovery = "verify"
  /\ \/ /\ live = None \/ prev = None
        /\ recovery' = "open" /\ UNCHANGED <<live, prev, bad>>
     \/ /\ live # None /\ prev # None /\ ~KeepPrev
        /\ prev' = None
        /\ recovery' = "open" /\ UNCHANGED <<live, bad>>
     \/ /\ live # None /\ prev # None /\ KeepPrev
        /\ bad' = live /\ live' = None
        /\ recovery' = "put back" /\ UNCHANGED prev
  /\ UNCHANGED <<incoming, data, handle, holder, status, pc, out, acked, budget>>

PutBack ==
  /\ recovery = "put back" /\ recovery' = "open"
  /\ live' = prev /\ prev' = None
  /\ UNCHANGED <<incoming, bad, data, handle, holder, status, pc, out, acked, budget>>

\* init_pool opens the database that recovery left.
OpenPool ==
  /\ recovery = "open" /\ recovery' = "done"
  /\ live' = Opened(live)
  /\ status' = "serving"
  /\ UNCHANGED <<prev, incoming, bad, data, handle, holder, pc, out, acked, budget>>

-----------------------------------------------------------------------------
Step(r) ==
  \/ OpenUpload(r) \/ WriteUpload(r) \/ CloseUpload(r) \/ TooLarge(r)
  \/ TakeLock(r) \/ StartBuild(r) \/ FinishBuild(r) \/ BuildFails(r)
  \/ CheckIncoming(r) \/ UnlinkPrev(r) \/ Retire(r) \/ Install(r) \/ Probe(r)
  \/ RollBack(r) \/ Restore(r)

Recover ==
  RemoveIncoming \/ RestoreMissing \/ VerifyLive \/ PutBack \/ OpenPool

Quiet == Up /\ (\A r \in Request : At(r, "done")) /\ UNCHANGED vars

Next ==
  \/ \E r \in Request : Step(r) \/ FileError(r)
  \/ Recover \/ Crash \/ Quiet

Spec == Init /\ [][Next]_vars

\* A request that has started and a server that restarts go on; whether a
\* request starts, a crash or an error happens is not promised.
FairSpec ==
  /\ Spec
  /\ WF_vars(Recover)
  /\ \A r \in Request : WF_vars(~At(r, "new") /\ Step(r))

-----------------------------------------------------------------------------
(* Properties.                                                              *)

\* What startup_recovery would serve after a crash in this very state.
Recovered == IF Opens(live) THEN live ELSE prev

\* At every instant, in the middle of a swap, of a rollback or of a recovery,
\* a database that opens is under a name startup_recovery looks at; as long as
\* the file system has refused no rename or unlink.
GoodCopySurvives == faults = 0 => Opens(Recovered)

\* What would be served holds what the last successful answer promised, or the
\* data of a swap that was never answered: a failed one has no effect, and
\* compaction none at all.
SwapIsAtomic ==
  Opens(Recovered) =>
    LET of == data[Recovered].of IN
    of = acked \/ (of \in Replace /\ out[of] = "none")

\* It does as long as the file system has refused no rename or unlink: neither
\* a damaged file, nor a crash, nor a rollback, nor a recovery that is itself
\* interrupted serves anything else (atomic_swap, startup_recovery).
NothingElseIsLive == faults = 0 => SwapIsAtomic

\* A .prev is only given up for a live file that opens, whether by
\* atomic_swap or by startup_recovery ("never delete .prev until live file is
\* verified healthy"), as long as no rename or unlink was refused.
PrevOutlivesDoubt ==
  [][faults' = 0 /\ prev # None /\ prev' # prev /\ live' # prev => Opens(live)]_vars

\* A replacement that sent a checksum and is answered with success has put the
\* file it verified in place.
SwappedIsVerified ==
  [][\A r \in Checked : out[r] # "swapped" /\ out'[r] = "swapped"
        => data'[live'] = [of |-> r, state |-> "whole"]]_vars

\* Every drain ends: whatever happens to a replacement or a compaction, but for
\* a refused rename or unlink, the service serves again.
ServesAgain == status # "serving" ~> status = "serving" \/ faults > 0

=============================================================================
