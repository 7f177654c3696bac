--------------------------- MODULE OpsLocksProofs ---------------------------
(***************************************************************************)
(* Proofs for OpsLocks, for any number of readers, queries, fleet merges,   *)
(* writers, bundles and league writers.                                    *)
(*                                                                         *)
(* What the two locks protect follows from where their holders are: who     *)
(* holds a lock is read off the point its task has reached, and so two      *)
(* tasks are never between the same acquire and release.                   *)
(***************************************************************************)
EXTENDS OpsLocks, FiniteSetTheorems, TLAPS

\* The points a task of each kind can be at.
Role(t) ==
  /\ t \in Reader => pc[t] \in {"gate", "lock", "read", "done"}
  /\ t \in Query => pc[t] \in {"lock", "attach", "attached", "done"}
  /\ t \in Fleet => pc[t] \in {"gate", "lock", "attach", "attached", "done"}
  /\ t \in Writer =>
        \/ pc[t] \in {"gate", "lock", "drain", "write", "tidy", "tidy failed", "done"}
        \/ t \in Renamer /\ pc[t] \in {"precheck", "check"}
  /\ t \in Merger => pc[t] \in {"gate", "drain1", "lock1", "checkpoint", "stage", "build",
                               "drain2", "lock2", "swap", "undo", "end", "end ok", "done"}
  /\ t \in LeagueWriter => pc[t] \in {"close", "league write", "done"}

\* OpsTypeOK without the bounds of the two counts, which need the locks.
OTypes ==
  /\ rebuild \in Task \cup {None} /\ ops \in Task \cup {None}
  /\ users \in Nat /\ opsConn \in BOOLEAN /\ pool \in BOOLEAN
  /\ content \subseteq Writer \cup Merger
  /\ staging \in [Merger -> SUBSET (Writer \cup Merger)]
  /\ pc \in [Task -> Points]
  /\ out \in [Task -> {"none", "ok", "failed"}]
  /\ \A t \in Task : Role(t)

\* Where a task holds _ops_rebuild_lock, and where db._ops_lock.
HoldsGate(t) ==
  \/ t \in Merger /\ pc[t] \notin {"gate", "done"}
  \/ pc[t] \in {"read", "drain", "write", "tidy", "tidy failed"}
  \/ t \notin Query /\ pc[t] \in {"lock", "attach"}
  \/ t \in Fleet /\ pc[t] = "attached"

HoldsOps(t) == pc[t] \in {"read", "attach", "drain", "write", "tidy", "tidy failed",
                          "check", "checkpoint", "swap"}

LocksInv == \A t \in Task : /\ rebuild = t <=> HoldsGate(t)
                            /\ ops = t <=> HoldsOps(t)

\* Every write state is inside the gate.
Writing(t) == \/ t \in Merger /\ pc[t] \notin {"gate", "done"}
              \/ pc[t] \in {"write", "tidy", "tidy failed"}

WritesInv == writes = IF \E t \in Task : Writing(t) THEN 1 ELSE 0

\* Past its drain a writer has nobody attached.
AloneInv == \A t \in Task : pc[t] \in {"write", "tidy", "tidy failed"} => users = 0

-----------------------------------------------------------------------------
\* A task has one kind.
LEMMA Kinds ==
  ASSUME NEW t \in Task
  PROVE  /\ t \in Reader => t \notin Query \cup Fleet \cup Writer \cup Merger \cup LeagueWriter
         /\ t \in Query => t \notin Fleet \cup Writer \cup Merger \cup LeagueWriter
         /\ t \in Fleet => t \notin Writer \cup Merger \cup LeagueWriter
         /\ t \in Writer => t \notin Merger \cup LeagueWriter
         /\ t \in Merger => t \notin LeagueWriter
         /\ t \in Cold => t \in Writer
         /\ t \in Renamer => t \in Cold
         /\ t # None
<1> QED BY OpsAssumption DEF OpsAssumption, Task

\* A task that moves leaves the others where they are.
LEMMA Walk ==
  ASSUME OTypes, NEW t \in Task, NEW q \in Points, pc' = [pc EXCEPT ![t] = q], Role(t)'
  PROVE  pc' \in [Task -> Points] /\ \A u \in Task : Role(u)'
<1>1. pc \in [Task -> Points] /\ \A u \in Task : Role(u)
  BY DEF OTypes
<1>2. ASSUME NEW u \in Task, u # t PROVE Role(u)'
  <2>1. pc'[u] = pc[u] /\ Role(u)
    BY <1>1, <1>2
  <2> QED BY <2>1 DEF Role
<1> QED BY <1>1, <1>2

\* Every task is at a point of its kind, with variables in their ranges.
LEMMA OpsTyped == Spec => []OTypes
<1> USE DEF Task
<1>1. Init => OTypes
  <2> SUFFICES ASSUME Init PROVE OTypes
    OBVIOUS
  <2>1. \A t \in Task : First(t) \in {"precheck", "lock", "close", "gate"}
    BY DEF First
  <2>2. pc \in [Task -> Points]
    BY <2>1 DEF Init, Points
  <2>3. ASSUME NEW t \in Task PROVE Role(t)
    BY <2>3, Kinds DEF Init, Role, First
  <2>4. /\ content \subseteq Writer \cup Merger
        /\ staging \in [Merger -> SUBSET (Writer \cup Merger)]
        /\ out \in [Task -> {"none", "ok", "failed"}]
    BY DEF Init
  <2> QED BY <2>2, <2>3, <2>4 DEF Init, OTypes
<1>2. OTypes /\ [Next]_vars => OTypes'
  <2> SUFFICES ASSUME OTypes, [Next]_vars PROVE OTypes'
    OBVIOUS
  <2> USE Kinds DEF OTypes, Role, Points, At, Go, Done, locks, disk, Release, ReleaseOps
  <2>1. ASSUME NEW t \in Task, TakeGate(t) PROVE OTypes'
    <3>1. CASE t \in Merger
      BY <2>1, <3>1 DEF TakeGate, NeedsGate
    <3>2. CASE t \notin Merger
      BY <2>1, <3>2 DEF TakeGate, NeedsGate
    <3> QED BY <3>1, <3>2
  <2>2. ASSUME NEW t \in Task, GiveUpGate(t) PROVE OTypes'
    BY <2>2 DEF GiveUpGate
  <2>3. ASSUME NEW t \in Task, TakeOps(t) PROVE OTypes'
    <3>1. CASE ops' = t /\ Go(t, AfterLock(t))
      <4>1. CASE t \in Reader
        <5>1. pc' = [pc EXCEPT ![t] = "read"]
          BY <3>1, <4>1 DEF AfterLock
        <5>2. Role(t)'
          BY <4>1, <5>1, Kinds
        <5>3. pc' \in [Task -> Points] /\ \A u \in Task : Role(u)'
          BY <5>1, <5>2, Walk
        <5> QED BY <2>3, <3>1, <5>3 DEF TakeOps
      <4>2. CASE t \in Writer
        BY <2>3, <3>1, <4>2 DEF TakeOps, AfterLock
      <4>3. CASE t \notin Reader \cup Writer
        BY <2>3, <3>1, <4>3 DEF TakeOps, AfterLock
      <4> QED BY <4>1, <4>2, <4>3
    <3>2. CASE t \in Reader /\ Release(t) /\ Done(t, "failed") /\ UNCHANGED opsConn
      BY <2>3, <3>2 DEF TakeOps
    <3> QED BY <2>3, <3>1, <3>2 DEF TakeOps
  <2>4. ASSUME NEW t \in Task, GiveUpOps(t) PROVE OTypes'
    BY <2>4 DEF GiveUpOps
  <2>5. ASSUME NEW t \in Task, FinishRead(t) PROVE OTypes'
    BY <2>5 DEF FinishRead
  <2>6. ASSUME NEW t \in Task, Attach(t) PROVE OTypes'
    <3>1. CASE opsConn /\ users' = users + 1 /\ ReleaseOps /\ Go(t, "attached")
      <4>1. Role(t)'
        BY <2>6, <3>1, Kinds DEF Attach
      <4>2. pc' \in [Task -> Points] /\ \A u \in Task : Role(u)'
        BY <3>1, <4>1, Walk
      <4>3. UNCHANGED <<opsConn, pool, writes, disk, out, rebuild>> /\ ops' = None
        BY <2>6, <3>1 DEF Attach
      <4>4. users' \in Nat
        <5>1. users \in Nat /\ users' = users + 1
          BY <3>1
        <5> HIDE DEF OTypes, Role, Points
        <5> QED BY <5>1
      <4> HIDE DEF Role, Points
      <4> QED BY <4>2, <4>3, <4>4
    <3>2. CASE AttachFailed(t)
      BY <2>6, <3>2 DEF Attach, AttachFailed
    <3> QED BY <2>6, <3>1, <3>2 DEF Attach
  <2>7. ASSUME NEW t \in Task, Detach(t) PROVE OTypes'
    <3>1. ASSUME NEW o \in {"ok", "failed"}, Done(t, o) PROVE OTypes'
      <4>1. Role(t)'
        BY <2>7, <3>1, Kinds DEF Detach
      <4>2. pc' \in [Task -> Points] /\ \A u \in Task : Role(u)'
        BY <3>1, <4>1, Walk
      <4>3. out' \in [Task -> {"none", "ok", "failed"}]
        BY <3>1
      <4>4. users' \in Nat
        <5>1. users \in Nat /\ users' = IF users = 0 THEN 0 ELSE users - 1
          BY <2>7 DEF Detach
        <5> HIDE DEF OTypes, Role, Points
        <5> QED BY <5>1
      <4> HIDE DEF Role, Points
      <4> QED BY <2>7, <3>1, <4>2, <4>3, <4>4 DEF Detach
    <3> QED BY <2>7, <3>1 DEF Detach
  <2>8. ASSUME NEW t \in Task, BeginWrite(t) PROVE OTypes'
    BY <2>8 DEF BeginWrite
  <2>9. ASSUME NEW t \in Task, DrainTimeout(t) PROVE OTypes'
    BY <2>9 DEF DrainTimeout
  <2>10. ASSUME NEW t \in Task, Write(t) PROVE OTypes'
    <3>1. CASE Go(t, "tidy")
      BY <2>10, <3>1 DEF Write
    <3>2. CASE Go(t, "tidy failed")
      BY <2>10, <3>2 DEF Write
    <3> QED BY <2>10, <3>1, <3>2 DEF Write
  <2>11. ASSUME NEW t \in Task, EndWrite(t) PROVE OTypes'
    BY <2>11 DEF EndWrite
  <2>12. ASSUME NEW t \in Task, TakeOpsForCheck(t) PROVE OTypes'
    BY <2>12 DEF TakeOpsForCheck
  <2>13. ASSUME NEW t \in Task, FinishCheck(t) PROVE OTypes'
    BY <2>13 DEF FinishCheck
  <2>14. ASSUME NEW t \in Merger, DrainSnapshot(t) PROVE OTypes'
    <3>1. ASSUME NEW q \in {"lock1", "undo", "lock2", "end"}, Go(t, q) PROVE OTypes'
      <4>1. Role(t)'
        BY <2>14, <3>1, Kinds DEF DrainSnapshot
      <4>2. pc' \in [Task -> Points] /\ \A u \in Task : Role(u)'
        BY <3>1, <4>1, Walk
      <4> QED BY <2>14, <3>1, <4>2 DEF DrainSnapshot
    <3> QED BY <2>14, <3>1 DEF DrainSnapshot
  <2>15. ASSUME NEW t \in Merger, CloseForSnapshot(t) PROVE OTypes'
    BY <2>15 DEF CloseForSnapshot
  <2>16. ASSUME NEW t \in Merger, CheckpointAndReopen(t) PROVE OTypes'
    BY <2>16 DEF CheckpointAndReopen
  <2>17. ASSUME NEW t \in Merger, CopySnapshot(t) PROVE OTypes'
    <3>1. staging' \in [Merger -> SUBSET (Writer \cup Merger)]
      BY <2>17 DEF CopySnapshot
    <3> QED BY <2>17, <3>1 DEF CopySnapshot
  <2>18. ASSUME NEW t \in Merger, BuildSnapshot(t) PROVE OTypes'
    <3>1. staging' \in [Merger -> SUBSET (Writer \cup Merger)]
      <4>1. staging \in [Merger -> SUBSET (Writer \cup Merger)]
        BY DEF OTypes
      <4>2. staging[t] \cup {t} \in SUBSET (Writer \cup Merger)
        BY <2>18, <4>1
      <4>3. staging' = [staging EXCEPT ![t] = staging[t] \cup {t}] \/ staging' = staging
        BY <2>18 DEF BuildSnapshot
      <4>4. CASE staging' = staging BY <4>1, <4>4
      <4>5. CASE staging' = [staging EXCEPT ![t] = staging[t] \cup {t}]
        <5> DEFINE S == staging[t] \cup {t}
        <5> HIDE DEF S
        <5>1. S \in SUBSET (Writer \cup Merger) BY <4>2 DEF S
        <5>2. staging' = [staging EXCEPT ![t] = S] BY <4>5 DEF S
        <5> QED BY ONLY <2>18, <4>1, <5>1, <5>2
      <4> QED BY <4>3, <4>4, <4>5
    <3>2. CASE Go(t, "drain2")
      BY <2>18, <3>1, <3>2 DEF BuildSnapshot
    <3>3. CASE Go(t, "undo")
      BY <2>18, <3>1, <3>3 DEF BuildSnapshot
    <3> QED BY <2>18, <3>2, <3>3 DEF BuildSnapshot
  <2>19. ASSUME NEW t \in Merger, SwapSnapshot(t) PROVE OTypes'
    BY <2>19 DEF SwapSnapshot
  <2>20. ASSUME NEW t \in Merger, Undo(t) PROVE OTypes'
    BY <2>20 DEF Undo
  <2>21. ASSUME NEW t \in Merger, EndMerge(t) PROVE OTypes'
    BY <2>21 DEF EndMerge
  <2>22. ASSUME NEW t \in Task, CloseAll(t) PROVE OTypes'
    BY <2>22 DEF CloseAll
  <2>23. ASSUME NEW t \in Task, ReopenAll(t) PROVE OTypes'
    BY <2>23 DEF ReopenAll
  <2>24. CASE UNCHANGED vars
    BY <2>24 DEF vars
  <2> HIDE DEF OTypes, Role, Points, At, Go, Done, locks, disk, Release, ReleaseOps, Task
  <2> QED BY <2>1, <2>2, <2>3, <2>4, <2>5, <2>6, <2>7, <2>8, <2>9, <2>10, <2>11, <2>12,
             <2>13, <2>14, <2>15, <2>16, <2>17, <2>18, <2>19, <2>20, <2>21, <2>22, <2>23,
             <2>24 DEF Next, Step, Quiet
<1> QED BY <1>1, <1>2, PTL DEF Spec

-----------------------------------------------------------------------------
(* Who holds the locks.                                                     *)

\* A step of t takes a free lock, lets go of it, or leaves it as it was.
GateKept(t) ==
  \/ rebuild' = rebuild /\ (HoldsGate(t)' <=> HoldsGate(t))
  \/ rebuild = None /\ rebuild' = t /\ HoldsGate(t)'
  \/ rebuild' = (IF rebuild = t THEN None ELSE rebuild) /\ ~HoldsGate(t)'

OpsKept(t) ==
  \/ ops' = ops /\ (HoldsOps(t)' <=> HoldsOps(t))
  \/ ops = None /\ ops' = t /\ HoldsOps(t)'
  \/ ops' = (IF ops = t THEN None ELSE ops) /\ ~HoldsOps(t)'

OthersStay(t) == \A u \in Task : u # t => pc'[u] = pc[u]

\* Then who holds what can still be read off the points.
LEMMA LocksKept ==
  ASSUME OTypes, LocksInv, NEW t \in Task, GateKept(t), OpsKept(t), OthersStay(t)
  PROVE  LocksInv'
<1> USE Kinds
<1>1. ASSUME NEW u \in Task, u # t PROVE (HoldsGate(u)' <=> HoldsGate(u)) /\ (HoldsOps(u)' <=> HoldsOps(u))
  BY <1>1 DEF OthersStay, HoldsGate, HoldsOps
<1>2. ASSUME NEW u \in Task PROVE rebuild' = u <=> HoldsGate(u)'
  BY <1>1 DEF LocksInv, GateKept
<1>3. ASSUME NEW u \in Task PROVE ops' = u <=> HoldsOps(u)'
  BY <1>1 DEF LocksInv, OpsKept
<1> QED BY <1>2, <1>3 DEF LocksInv

\* Every step is such a step.
LEMMA StepKeepsLocks ==
  ASSUME OTypes, LocksInv, NEW t \in Task, Step(t)
  PROVE  GateKept(t) /\ OpsKept(t) /\ OthersStay(t)
<1> DEFINE Kept == GateKept(t) /\ OpsKept(t) /\ OthersStay(t)
<1>0. /\ Role(t) /\ pc \in [Task -> Points]
      /\ rebuild = t <=> HoldsGate(t)
      /\ ops = t <=> HoldsOps(t)
  BY DEF OTypes, LocksInv
<1> USE <1>0, Kinds DEF GateKept, OpsKept, OthersStay, HoldsGate, HoldsOps, Role, At, Go, Done,
        locks, Release, ReleaseOps
<1>1. ASSUME TakeGate(t) PROVE Kept
  <2>1. CASE t \in Merger
    BY <1>1, <2>1 DEF TakeGate, NeedsGate
  <2>2. CASE t \notin Merger
    <3>1. t \notin Query /\ pc[t] = "gate" /\ pc' = [pc EXCEPT ![t] = "lock"]
      BY <1>1, <2>2 DEF TakeGate
    <3>2. rebuild = None /\ rebuild' = t /\ ops' = ops
      BY <1>1, <3>1 DEF TakeGate, NeedsGate, Task
    <3>3. GateKept(t) /\ OthersStay(t)
      BY <3>1, <3>2
    <3>4. OpsKept(t)
      BY <3>1, <3>2
    <3> QED BY <3>3, <3>4
  <2> QED BY <2>1, <2>2
<1>2. ASSUME GiveUpGate(t) PROVE Kept
  BY <1>2 DEF GiveUpGate
<1>3. ASSUME TakeOps(t) PROVE Kept
  BY <1>3 DEF TakeOps, AfterLock
<1>4. ASSUME GiveUpOps(t) PROVE Kept
  BY <1>4 DEF GiveUpOps
<1>5. ASSUME FinishRead(t) PROVE Kept
  BY <1>5 DEF FinishRead
<1>6. ASSUME Attach(t) PROVE Kept
  <2>1. CASE Go(t, "attached")
    <3>1. t \in Query \cup Fleet /\ pc[t] = "attach" /\ pc' = [pc EXCEPT ![t] = "attached"]
      BY <1>6, <2>1 DEF Attach, Task
    <3>2. rebuild' = rebuild /\ ops' = None /\ ops = t
      <4>1. pc'[t] = "attached"
        BY <3>1
      <4> QED BY <1>6, <4>1 DEF Attach, AttachFailed
    <3>3. HoldsGate(t)' <=> HoldsGate(t)
      BY <3>1
    <3>4. GateKept(t) /\ OthersStay(t)
      BY <3>1, <3>2, <3>3
    <3>5. OpsKept(t)
      BY <3>1, <3>2
    <3> QED BY <3>4, <3>5
  <2>2. CASE AttachFailed(t)
    BY <1>6, <2>2 DEF Attach, AttachFailed
  <2> QED BY <1>6, <2>1, <2>2 DEF Attach
<1>7. ASSUME Detach(t) PROVE Kept
  BY <1>7 DEF Detach
<1>8. ASSUME BeginWrite(t) PROVE Kept
  BY <1>8 DEF BeginWrite
<1>9. ASSUME DrainTimeout(t) PROVE Kept
  BY <1>9 DEF DrainTimeout
<1>10. ASSUME Write(t) PROVE Kept
  BY <1>10 DEF Write
<1>11. ASSUME EndWrite(t) PROVE Kept
  BY <1>11 DEF EndWrite
<1>12. ASSUME TakeOpsForCheck(t) PROVE Kept
  BY <1>12 DEF TakeOpsForCheck
<1>13. ASSUME FinishCheck(t) PROVE Kept
  BY <1>13 DEF FinishCheck
<1>14. ASSUME t \in Merger, DrainSnapshot(t) PROVE Kept
  BY <1>14 DEF DrainSnapshot
<1>15. ASSUME t \in Merger, CloseForSnapshot(t) PROVE Kept
  BY <1>15 DEF CloseForSnapshot
<1>16. ASSUME t \in Merger, CheckpointAndReopen(t) PROVE Kept
  BY <1>16 DEF CheckpointAndReopen
<1>17. ASSUME t \in Merger, CopySnapshot(t) PROVE Kept
  BY <1>17 DEF CopySnapshot
<1>18. ASSUME t \in Merger, BuildSnapshot(t) PROVE Kept
  BY <1>18 DEF BuildSnapshot
<1>19. ASSUME t \in Merger, SwapSnapshot(t) PROVE Kept
  BY <1>19 DEF SwapSnapshot
<1>20. ASSUME t \in Merger, Undo(t) PROVE Kept
  BY <1>20 DEF Undo
<1>21. ASSUME t \in Merger, EndMerge(t) PROVE Kept
  BY <1>21 DEF EndMerge
<1>22. ASSUME CloseAll(t) PROVE Kept
  BY <1>22 DEF CloseAll
<1>23. ASSUME ReopenAll(t) PROVE Kept
  BY <1>23 DEF ReopenAll
<1> HIDE DEF Kept
<1> QED BY <1>1, <1>2, <1>3, <1>4, <1>5, <1>6, <1>7, <1>8, <1>9, <1>10, <1>11, <1>12, <1>13, <1>14, <1>15, <1>16, <1>17, <1>18, <1>19, <1>20, <1>21, <1>22, <1>23 DEF Step, Kept

\* The two locks are held exactly between their acquires and releases.
LEMMA LocksHeld == Spec => []LocksInv
<1>1. Init => LocksInv
  <2> SUFFICES ASSUME Init, NEW t \in Task PROVE ~HoldsGate(t) /\ ~HoldsOps(t) /\ t # None
    BY DEF Init, LocksInv
  <2> QED BY Kinds DEF Init, HoldsGate, HoldsOps, First
<1>2. OTypes /\ LocksInv /\ [Next]_vars => LocksInv'
  <2> SUFFICES ASSUME OTypes, LocksInv, [Next]_vars PROVE LocksInv'
    OBVIOUS
  <2>1. ASSUME NEW t \in Task, Step(t) PROVE LocksInv'
    BY <2>1, StepKeepsLocks, LocksKept
  <2>2. CASE UNCHANGED vars
    BY <2>2 DEF vars, locks, LocksInv, HoldsGate, HoldsOps
  <2> QED BY <2>1, <2>2 DEF Next, Quiet
<1> QED BY <1>1, <1>2, OpsTyped, PTL DEF Spec

-----------------------------------------------------------------------------
(* The two counts.                                                          *)

WritesKept(t) ==
  \/ writes' = writes /\ (Writing(t)' <=> Writing(t))
  \/ writes' = writes + 1 /\ ~Writing(t) /\ Writing(t)' /\ rebuild' = t
  \/ writes' = writes - 1 /\ Writing(t) /\ ~Writing(t)'

Attached == {t \in Query \cup Fleet : At(t, "attached")}

UsersKept(t) ==
  \/ users' = users /\ (At(t, "attached")' <=> At(t, "attached"))
  \/ /\ users' = users + 1 /\ At(t, "attach") /\ At(t, "attached")'
     /\ t \in Query \cup Fleet
  \/ /\ users' = (IF users = 0 THEN 0 ELSE users - 1)
     /\ At(t, "attached") /\ ~At(t, "attached")'

Past == {"write", "tidy", "tidy failed"}

PastKept(t) == pc'[t] \in Past => pc[t] \in Past \/ (users = 0 /\ users' = 0)

\* A step moves the counts with the task they count.
LEMMA StepKeepsCounts ==
  ASSUME OTypes, LocksInv, NEW t \in Task, Step(t)
  PROVE  WritesKept(t) /\ UsersKept(t) /\ PastKept(t)
<1> DEFINE Kept == WritesKept(t) /\ UsersKept(t) /\ PastKept(t)
<1>0. /\ Role(t) /\ pc \in [Task -> Points]
      /\ rebuild = t <=> HoldsGate(t)
  BY DEF OTypes, LocksInv
<1> USE <1>0, Kinds DEF WritesKept, UsersKept, PastKept, Past, Writing, HoldsGate, Role, At, Go,
        Done, locks
<1>1. ASSUME TakeGate(t) PROVE Kept
  <2>1. pc[t] = "gate" /\ users' = users
    BY <1>1 DEF TakeGate
  <2>2. CASE t \in Merger
    BY <1>1, <2>1, <2>2 DEF TakeGate, NeedsGate
  <2>3. CASE t \notin Merger
    <3>1. Go(t, "lock") /\ writes' = writes
      BY <1>1, <2>3 DEF TakeGate
    <3> QED BY <2>1, <2>3, <3>1
  <2> QED BY <2>2, <2>3
<1>2. ASSUME GiveUpGate(t) PROVE Kept
  BY <1>2 DEF GiveUpGate
<1>3. ASSUME TakeOps(t) PROVE Kept
  BY <1>3 DEF TakeOps, AfterLock
<1>4. ASSUME GiveUpOps(t) PROVE Kept
  BY <1>4 DEF GiveUpOps
<1>5. ASSUME FinishRead(t) PROVE Kept
  BY <1>5 DEF FinishRead
<1>6. ASSUME Attach(t) PROVE Kept
  <2>1. t \in Query \cup Fleet /\ pc[t] = "attach" /\ writes' = writes
    BY <1>6 DEF Attach, Task
  <2>2. CASE users' = users + 1 /\ Go(t, "attached")
    BY <2>1, <2>2
  <2>3. CASE AttachFailed(t)
    BY <2>1, <2>3 DEF AttachFailed
  <2> QED BY <1>6, <2>2, <2>3 DEF Attach
<1>7. ASSUME Detach(t) PROVE Kept
  BY <1>7 DEF Detach
<1>8. ASSUME BeginWrite(t) PROVE Kept
  BY <1>8 DEF BeginWrite, Drained
<1>9. ASSUME DrainTimeout(t) PROVE Kept
  BY <1>9 DEF DrainTimeout
<1>10. ASSUME Write(t) PROVE Kept
  <2>1. t \in Writer /\ pc[t] = "write" /\ UNCHANGED <<writes, users, rebuild>>
    BY <1>10 DEF Write, Task
  <2>2. pc'[t] \in {"tidy", "tidy failed"}
    BY <1>10 DEF Write
  <2>3. WritesKept(t)
    BY <2>1, <2>2
  <2>4. ~At(t, "attached") /\ ~At(t, "attached")'
    BY <2>1, <2>2
  <2>5. UsersKept(t)
    BY <2>1, <2>4
  <2>6. PastKept(t)
    BY <2>1
  <2> QED BY <2>3, <2>5, <2>6
<1>11. ASSUME EndWrite(t) PROVE Kept
  BY <1>11 DEF EndWrite
<1>12. ASSUME TakeOpsForCheck(t) PROVE Kept
  BY <1>12 DEF TakeOpsForCheck
<1>13. ASSUME FinishCheck(t) PROVE Kept
  BY <1>13 DEF FinishCheck
<1>14. ASSUME t \in Merger, DrainSnapshot(t) PROVE Kept
  BY <1>14 DEF DrainSnapshot
<1>15. ASSUME t \in Merger, CloseForSnapshot(t) PROVE Kept
  BY <1>15 DEF CloseForSnapshot
<1>16. ASSUME t \in Merger, CheckpointAndReopen(t) PROVE Kept
  BY <1>16 DEF CheckpointAndReopen
<1>17. ASSUME t \in Merger, CopySnapshot(t) PROVE Kept
  BY <1>17 DEF CopySnapshot
<1>18. ASSUME t \in Merger, BuildSnapshot(t) PROVE Kept
  BY <1>18 DEF BuildSnapshot
<1>19. ASSUME t \in Merger, SwapSnapshot(t) PROVE Kept
  BY <1>19 DEF SwapSnapshot
<1>20. ASSUME t \in Merger, Undo(t) PROVE Kept
  BY <1>20 DEF Undo
<1>21. ASSUME t \in Merger, EndMerge(t) PROVE Kept
  BY <1>21 DEF EndMerge
<1>22. ASSUME CloseAll(t) PROVE Kept
  BY <1>22 DEF CloseAll
<1>23. ASSUME ReopenAll(t) PROVE Kept
  BY <1>23 DEF ReopenAll
<1> HIDE DEF Kept
<1> QED BY <1>1, <1>2, <1>3, <1>4, <1>5, <1>6, <1>7, <1>8, <1>9, <1>10, <1>11, <1>12, <1>13, <1>14, <1>15, <1>16, <1>17, <1>18, <1>19, <1>20, <1>21, <1>22, <1>23 DEF Step, Kept

\* A task in the write state is inside the gate: there is at most one.
LEMMA WritingHoldsGate ==
  ASSUME OTypes, LocksInv, NEW t \in Task, Writing(t)
  PROVE  rebuild = t
BY Kinds DEF LocksInv, HoldsGate, Writing

\* _ops_write_count is the number of tasks in the write state, and a writer
\* past its drain has nobody attached.
LEMMA CountsHeld == Spec => [](WritesInv /\ AloneInv)
<1>1. Init => WritesInv /\ AloneInv
  <2> SUFFICES ASSUME Init PROVE WritesInv /\ AloneInv
    OBVIOUS
  <2>1. ASSUME NEW t \in Task PROVE ~Writing(t) /\ pc[t] \notin Past
    BY Kinds DEF Init, Writing, First, Past
  <2> QED BY <2>1 DEF Init, WritesInv, AloneInv, Past
<1>2. OTypes /\ LocksInv /\ LocksInv' /\ OTypes' /\ WritesInv /\ AloneInv /\ [Next]_vars
        => (WritesInv /\ AloneInv)'
  <2> SUFFICES ASSUME OTypes, LocksInv, LocksInv', OTypes', WritesInv, AloneInv, [Next]_vars
               PROVE  (WritesInv /\ AloneInv)'
    OBVIOUS
  <2>1. ASSUME NEW t \in Task, Step(t) PROVE (WritesInv /\ AloneInv)'
    <3>1. WritesKept(t) /\ UsersKept(t) /\ PastKept(t) /\ OthersStay(t)
      BY <2>1, StepKeepsCounts, StepKeepsLocks
    <3>2. \A u \in Task : u # t => (Writing(u)' <=> Writing(u))
      BY <3>1 DEF OthersStay, Writing
    <3>3. \A u, v \in Task : Writing(u) /\ Writing(v) => u = v
      BY WritingHoldsGate
    <3>4. \A u, v \in Task : Writing(u)' /\ Writing(v)' => u = v
      BY Kinds DEF LocksInv, HoldsGate, Writing
    <3>5. WritesInv'
      <4>1. CASE Writing(t)' <=> Writing(t)
        BY <3>1, <3>2, <4>1 DEF WritesInv, WritesKept
      <4>2. CASE ~Writing(t) /\ Writing(t)'
        <5>1. ~\E u \in Task : Writing(u)
          BY <3>2, <3>4, <4>2
        <5> QED BY <3>1, <4>2, <5>1 DEF WritesInv, WritesKept
      <4>3. CASE Writing(t) /\ ~Writing(t)'
        <5>1. ~\E u \in Task : Writing(u)'
          BY <3>2, <3>3, <4>3
        <5> QED BY <3>1, <4>3, <5>1 DEF WritesInv, WritesKept
      <4> QED BY <4>1, <4>2, <4>3
    <3>6. AloneInv'
      <4> SUFFICES ASSUME NEW u \in Task, pc'[u] \in Past PROVE users' = 0
        BY DEF AloneInv, Past
      <4>1. CASE pc[u] \in Past
        <5>1. users = 0
          BY <4>1 DEF AloneInv, Past
        <5>2. ~At(t, "attach")
          BY <4>1 DEF LocksInv, HoldsOps, At, Past
        <5> QED BY <3>1, <5>1, <5>2 DEF UsersKept, At
      <4>2. CASE pc[u] \notin Past
        BY <3>1, <4>2 DEF PastKept, OthersStay
      <4> QED BY <4>1, <4>2
    <3> QED BY <3>5, <3>6
  <2>2. CASE UNCHANGED vars
    BY <2>2 DEF vars, WritesInv, Writing, AloneInv
  <2> QED BY <2>1, <2>2 DEF Next, Quiet
<1> QED BY <1>1, <1>2, OpsTyped, LocksHeld, PTL DEF Spec

\* The users counted are the tasks that are attached, provided they are finite.
THEOREM UsersAreCounted ==
  ASSUME IsFiniteSet(Query \cup Fleet)
  PROVE  Spec => []UsersCounted
<1> DEFINE Counted == users = Cardinality(Attached)
<1>1. Init => Counted
  <2> SUFFICES ASSUME Init PROVE Counted
    OBVIOUS
  <2>1. Attached = {}
    BY DEF Init, Attached, At, First, Task
  <2> QED BY <2>1, FS_EmptySet DEF Init
<1>2. OTypes /\ LocksInv /\ Counted /\ [Next]_vars => Counted'
  <2> SUFFICES ASSUME OTypes, LocksInv, Counted, [Next]_vars PROVE Counted'
    OBVIOUS
  <2>0. IsFiniteSet(Attached) /\ users \in Nat
    BY FS_Subset DEF Attached, OTypes
  <2>1. ASSUME NEW t \in Task, Step(t) PROVE Counted'
    <3>1. UsersKept(t) /\ OthersStay(t)
      BY <2>1, StepKeepsCounts, StepKeepsLocks
    <3>2. CASE users' = users /\ (At(t, "attached")' <=> At(t, "attached"))
      <4>1. Attached' = Attached
        BY <3>1, <3>2 DEF Attached, At, OthersStay, Task
      <4> QED BY <3>2, <4>1
    <3>3. CASE /\ users' = users + 1 /\ At(t, "attach") /\ At(t, "attached")'
               /\ t \in Query \cup Fleet
      <4>1. Attached' = Attached \cup {t} /\ t \notin Attached
        BY <3>1, <3>3 DEF Attached, At, OthersStay, Task
      <4>2. Cardinality(Attached \cup {t}) = Cardinality(Attached) + 1
        BY <2>0, <4>1, FS_AddElement
      <4> QED BY <3>3, <4>1, <4>2
    <3>4. CASE /\ users' = (IF users = 0 THEN 0 ELSE users - 1)
               /\ At(t, "attached") /\ ~At(t, "attached")'
      <4>1. t \in Query \cup Fleet
        BY <3>4 DEF OTypes, Role, At, Task
      <4>2. Attached' = Attached \ {t} /\ t \in Attached
        BY <3>1, <3>4, <4>1 DEF Attached, At, OthersStay, Task
      <4>3. Cardinality(Attached \ {t}) = Cardinality(Attached) - 1
        BY <2>0, <4>2, FS_RemoveElement
      <4>4. Cardinality(Attached) # 0
        BY <2>0, <4>2, FS_EmptySet
      <4> QED BY <2>0, <3>4, <4>2, <4>3, <4>4
    <3> QED BY <3>1, <3>2, <3>3, <3>4 DEF UsersKept
  <2>2. CASE UNCHANGED vars
    BY <2>2 DEF vars, Attached, At
  <2> QED BY <2>1, <2>2 DEF Next, Quiet
<1>3. Counted => UsersCounted
  BY DEF UsersCounted, Attached
<1> QED BY <1>1, <1>2, <1>3, OpsTyped, LocksHeld, PTL DEF Spec

\* Every variable keeps its range; two writers never count as writing at once.
THEOREM OpsTypeCorrect ==
  ASSUME IsFiniteSet(Query \cup Fleet)
  PROVE  Spec => []OpsTypeOK
<1>1. OTypes /\ WritesInv /\ UsersCounted => OpsTypeOK
  <2> SUFFICES ASSUME OTypes, WritesInv, UsersCounted PROVE OpsTypeOK
    OBVIOUS
  <2>1. Attached \subseteq Query \cup Fleet
    BY DEF Attached
  <2>2. Cardinality(Attached) <= Cardinality(Query \cup Fleet) /\ Cardinality(Query \cup Fleet) \in Nat
    BY <2>1, FS_Subset, FS_CardinalityType
  <2>3. users \in 0..Cardinality(Query \cup Fleet)
    BY <2>2 DEF OTypes, UsersCounted, Attached
  <2>4. writes \in 0..1
    BY DEF WritesInv
  <2> QED BY <2>3, <2>4 DEF OTypes, OpsTypeOK
<1> QED BY <1>1, OpsTyped, CountsHeld, UsersAreCounted, PTL

\* A cold writer has the file to itself.
THEOREM ColdWriterIsAlone == Spec => []ColdWriterAlone
<1>1. OTypes /\ LocksInv /\ AloneInv => ColdWriterAlone
  <2> SUFFICES ASSUME OTypes, LocksInv, AloneInv, NEW t \in Cold, At(t, "write")
               PROVE  users = 0 /\ \A r \in Reader : ~At(r, "read")
    BY DEF ColdWriterAlone
  <2>1. t \in Task /\ t \in Writer
    BY OpsAssumption DEF OpsAssumption, Task
  <2>2. users = 0 /\ ops = t
    BY <2>1 DEF AloneInv, LocksInv, HoldsOps, At
  <2>3. ASSUME NEW r \in Reader, At(r, "read") PROVE FALSE
    <3>1. r \in Task /\ r # t
      BY <2>3 DEF Task, At
    <3> QED BY <2>2, <2>3, <3>1 DEF LocksInv, HoldsOps, At
  <2> QED BY <2>2, <2>3
<1> QED BY <1>1, OpsTyped, LocksHeld, CountsHeld, PTL

\* A fleet merge finds db._ops_lock free of long holders, but for a rename that
\* validates: its check takes the lock without the outer gate.
THEOREM FleetIsNotMadeToWait == Spec => []FleetFindsOpsFree
<1>1. OTypes /\ LocksInv => FleetFindsOpsFree
  <2> SUFFICES ASSUME OTypes, LocksInv, NEW f \in Fleet, At(f, "lock"), ops \notin Query \cup {None},
                      ~(ops \in Renamer /\ At(ops, "check"))
               PROVE  FALSE
    BY DEF FleetFindsOpsFree
  <2>1. f \in Task /\ HoldsGate(f) /\ rebuild = f
    BY Kinds DEF LocksInv, HoldsGate, At, Task
  <2>2. ops \in Task /\ HoldsOps(ops)
    BY DEF OTypes, LocksInv
  <2>3. HoldsGate(ops)
    <3>1. ops \in Task /\ ops \notin Query /\ Role(ops) /\ HoldsOps(ops)
      BY <2>2 DEF OTypes
    <3>2. pc[ops] # "check"
      BY <3>1 DEF Role, At, Task
    <3>3. pc[ops] \in {"checkpoint", "swap"} => ops \in Merger
      BY <3>1 DEF Role, Task
    <3> QED BY <3>1, <3>2, <3>3 DEF HoldsOps, HoldsGate
  <2>4. ops = f
    BY <2>1, <2>2, <2>3 DEF LocksInv
  <2> QED BY <2>2, <2>4 DEF HoldsOps, At
<1> QED BY <1>1, OpsTyped, LocksHeld, PTL

-----------------------------------------------------------------------------
(* What the file holds.                                                     *)

\* The points at which an update has not taken effect yet, and those of a bundle
\* whose copy is complete.
Fresh == {"precheck", "check", "gate", "lock", "drain", "write", "drain1", "lock1",
          "checkpoint", "stage", "build", "drain2", "lock2", "swap"}
Built == {"drain2", "lock2", "swap"}

\* What is known of a request from the point it is at: the copy of a bundle is
\* the file as it still is, with the bundle's update once it is built.
FileAt(t) ==
  /\ out[t] = "none" <=> pc[t] # "done"
  /\ t \in Writer \cup Merger =>
       /\ pc[t] \in Fresh => t \notin content
       /\ pc[t] \in {"tidy", "end ok"} \/ out[t] = "ok" => t \in content
       /\ pc[t] = "build" => staging[t] = content
       /\ pc[t] \in Built => staging[t] = content \cup {t}

FileInv == \A t \in Task : FileAt(t)

\* What a step of t does to the store: nothing, its update, or its answer.
StoreStep(t) ==
  \/ content' = content /\ out' = out
  \/ t \in Writer \cup Merger /\ HoldsGate(t) /\ Store!Apply(t)
  \/ \E o \in {"ok", "failed"} : Store!Answer(t, o)

FileKept(t) ==
  /\ FileAt(t)' /\ StoreStep(t)
  /\ \A m \in Merger : m # t => staging'[m] = staging[m]

LEMMA StepKeepsFile ==
  ASSUME OTypes, FileInv, NEW t \in Task, Step(t)
  PROVE  FileKept(t)
<1>0. /\ Role(t) /\ FileAt(t) /\ pc \in [Task -> Points]
      /\ out \in [Task -> {"none", "ok", "failed"}]
      /\ staging \in [Merger -> SUBSET (Writer \cup Merger)]
  BY DEF OTypes, FileInv
<1> USE <1>0, Kinds DEF FileKept, FileAt, StoreStep, Store!Apply, Store!Answer, Fresh, Built,
        Role, At, Go, Done, disk, HoldsGate
<1>1. ASSUME TakeGate(t) PROVE FileKept(t)
  <2>1. pc[t] = "gate" /\ content' = content /\ staging' = staging /\ out' = out
    BY <1>1 DEF TakeGate
  <2>2. pc'[t] = "drain1" \/ pc'[t] = "lock"
    BY <1>1 DEF TakeGate
  <2> QED BY <2>1, <2>2
<1>2. ASSUME GiveUpGate(t) PROVE FileKept(t)
  BY <1>2 DEF GiveUpGate
<1>3. ASSUME TakeOps(t) PROVE FileKept(t)
  BY <1>3 DEF TakeOps, AfterLock
<1>4. ASSUME GiveUpOps(t) PROVE FileKept(t)
  BY <1>4 DEF GiveUpOps
<1>5. ASSUME FinishRead(t) PROVE FileKept(t)
  BY <1>5 DEF FinishRead
<1>6. ASSUME Attach(t) PROVE FileKept(t)
  BY <1>6 DEF Attach, AttachFailed
<1>7. ASSUME Detach(t) PROVE FileKept(t)
  BY <1>7 DEF Detach
<1>8. ASSUME BeginWrite(t) PROVE FileKept(t)
  BY <1>8 DEF BeginWrite
<1>9. ASSUME DrainTimeout(t) PROVE FileKept(t)
  BY <1>9 DEF DrainTimeout
<1>10. ASSUME Write(t) PROVE FileKept(t)
  <2>1. t \in Writer /\ t \notin Merger /\ pc[t] = "write" /\ staging' = staging /\ out' = out
    BY <1>10 DEF Write, Task
  <2>2. CASE content' = content \cup {t} /\ pc'[t] \in {"tidy", "tidy failed"}
    BY <2>1, <2>2
  <2>3. CASE content' = content /\ pc'[t] = "tidy failed"
    BY <2>1, <2>3
  <2> QED BY <1>10, <2>2, <2>3 DEF Write
<1>11. ASSUME EndWrite(t) PROVE FileKept(t)
  BY <1>11 DEF EndWrite
<1>12. ASSUME TakeOpsForCheck(t) PROVE FileKept(t)
  BY <1>12 DEF TakeOpsForCheck
<1>13. ASSUME FinishCheck(t) PROVE FileKept(t)
  BY <1>13 DEF FinishCheck
<1>14. ASSUME t \in Merger, DrainSnapshot(t) PROVE FileKept(t)
  BY <1>14 DEF DrainSnapshot
<1>15. ASSUME t \in Merger, CloseForSnapshot(t) PROVE FileKept(t)
  BY <1>15 DEF CloseForSnapshot
<1>16. ASSUME t \in Merger, CheckpointAndReopen(t) PROVE FileKept(t)
  BY <1>16 DEF CheckpointAndReopen
<1>17. ASSUME t \in Merger, CopySnapshot(t) PROVE FileKept(t)
  BY <1>17 DEF CopySnapshot
<1>18. ASSUME t \in Merger, BuildSnapshot(t) PROVE FileKept(t)
  BY <1>18 DEF BuildSnapshot
<1>19. ASSUME t \in Merger, SwapSnapshot(t) PROVE FileKept(t)
  BY <1>19 DEF SwapSnapshot
<1>20. ASSUME t \in Merger, Undo(t) PROVE FileKept(t)
  BY <1>20 DEF Undo
<1>21. ASSUME t \in Merger, EndMerge(t) PROVE FileKept(t)
  BY <1>21 DEF EndMerge
<1>22. ASSUME CloseAll(t) PROVE FileKept(t)
  BY <1>22 DEF CloseAll
<1>23. ASSUME ReopenAll(t) PROVE FileKept(t)
  BY <1>23 DEF ReopenAll
<1> HIDE DEF FileKept
<1> QED BY <1>1, <1>2, <1>3, <1>4, <1>5, <1>6, <1>7, <1>8, <1>9, <1>10, <1>11, <1>12, <1>13, <1>14, <1>15, <1>16, <1>17, <1>18, <1>19, <1>20, <1>21, <1>22, <1>23 DEF Step

\* While a task is inside the gate, no other bundle has a copy.
LEMMA GateAlone ==
  ASSUME OTypes, LocksInv, NEW t \in Task, HoldsGate(t), NEW u \in Task, u # t
  PROVE  pc[u] \notin Built \cup {"build"}
<1>1. ~HoldsGate(u)
  BY DEF LocksInv
<1>2. Role(u) /\ (pc[u] \in Built \cup {"build"} => u \in Merger)
  BY DEF OTypes, Role, Built, Task
<1> QED BY <1>1, <1>2 DEF HoldsGate, Built

\* The others still find the file, and their copies, as their points say.
LEMMA FileStepInv ==
  ASSUME OTypes, LocksInv, FileInv, NEW t \in Task, OthersStay(t), FileKept(t)
  PROVE  FileInv'
<1> SUFFICES ASSUME NEW u \in Task, u # t PROVE FileAt(u)'
  BY DEF FileInv, FileKept
<1>1. pc'[u] = pc[u] /\ FileAt(u) /\ Role(u)
  BY DEF OthersStay, FileInv, OTypes
<1>2. out'[u] = out[u]
  BY DEF FileKept, StoreStep, Store!Apply, Store!Answer, OTypes
<1>3. \/ content' = content
      \/ content' = content \cup {t} /\ pc[u] \notin Built \cup {"build"}
  BY GateAlone DEF FileKept, StoreStep, Store!Apply, Store!Answer
<1>4. pc[u] \in Built \cup {"build"} => u \in Merger /\ staging'[u] = staging[u]
  BY <1>1 DEF FileKept, Role, Built, Task
<1> QED BY <1>1, <1>2, <1>3, <1>4 DEF FileAt, Built

\* The copy of a bundle that is about to be swapped in is the file as it is, with
\* the bundle's update and nothing else.
LEMMA FileHeld == Spec => []FileInv
<1>1. Init => FileInv
  <2> SUFFICES ASSUME Init, NEW t \in Task PROVE FileAt(t)
    BY DEF FileInv
  <2>1. pc[t] \in {"precheck", "lock", "close", "gate"} /\ out[t] = "none" /\ content = {}
    BY DEF Init, First
  <2> QED BY <2>1 DEF FileAt, Built
<1>2. OTypes /\ LocksInv /\ FileInv /\ [Next]_vars => FileInv'
  <2> SUFFICES ASSUME OTypes, LocksInv, FileInv, [Next]_vars PROVE FileInv'
    OBVIOUS
  <2>1. ASSUME NEW t \in Task, Step(t) PROVE FileInv'
    BY <2>1, StepKeepsFile, StepKeepsLocks, FileStepInv
  <2>2. CASE UNCHANGED vars
    BY <2>2 DEF vars, disk, FileInv, FileAt
  <2> QED BY <2>1, <2>2 DEF Next, Quiet
<1> QED BY <1>1, <1>2, OpsTyped, LocksHeld, PTL DEF Spec

\* The ___ops database is an atomic file: an update takes effect once, before its
\* answer, and is never undone by a snapshot.
THEOREM OpsIsAtomic == Spec => OpsStoreSpec
<1>1. Init => Store!Init
  BY DEF Init, Store!Init
<1>2. OTypes /\ FileInv /\ [Next]_vars => [Store!Next]_<<content, out>>
  <2> SUFFICES ASSUME OTypes, FileInv, [Next]_vars PROVE [Store!Next]_<<content, out>>
    OBVIOUS
  <2>1. ASSUME NEW t \in Task, Step(t) PROVE [Store!Next]_<<content, out>>
    BY <2>1, StepKeepsFile DEF FileKept, StoreStep, Store!Next
  <2>2. CASE UNCHANGED vars
    BY <2>2 DEF vars, disk
  <2> QED BY <2>1, <2>2 DEF Next, Quiet
<1> QED BY <1>1, <1>2, OpsTyped, FileHeld, PTL DEF Spec, OpsStoreSpec, Store!Spec

\* No snapshot swapped in undoes an update that was answered with success.
THEOREM OpsWritesAreKept == Spec => []NoLostOpsWrite
<1>1. FileInv => NoLostOpsWrite
  BY DEF FileInv, FileAt, NoLostOpsWrite, Task
<1> QED BY <1>1, FileHeld, PTL

-----------------------------------------------------------------------------
(* The connection a metadata read executes on.                              *)

\* But for a league writer, who takes neither lock, nobody closes the connection
\* a metadata read executes on.
THEOREM ReadersKeepTheirConnection == Spec => ConnectionOwned
<1>1. OTypes /\ LocksInv /\ [Next]_vars
        => [opsConn /\ ~opsConn' =>
              \/ \A r \in Reader : ~At(r, "read")
              \/ \E l \in LeagueWriter : pc'[l] # pc[l]]_vars
  <2> SUFFICES ASSUME OTypes, LocksInv, [Next]_vars, opsConn, ~opsConn',
                      \A l \in LeagueWriter : pc'[l] = pc[l]
               PROVE  \A r \in Reader : ~At(r, "read")
    OBVIOUS
  <2>1. ASSUME NEW t \in Task, Step(t)
        PROVE  ops = None \/ (ops = t /\ t \in Writer \cup Merger)
    <3>0. Role(t) /\ (ops = t <=> HoldsOps(t)) /\ opsConn \in BOOLEAN
      BY DEF OTypes, LocksInv
    <3>1. \/ BeginWrite(t) \/ EndWrite(t)
          \/ t \in Merger /\ (CloseForSnapshot(t) \/ CheckpointAndReopen(t) \/ SwapSnapshot(t))
          \/ CloseAll(t) \/ ReopenAll(t)
      BY <2>1 DEF Step, TakeGate, GiveUpGate, TakeOps, GiveUpOps, FinishRead, Attach, Detach,
         DrainTimeout, Write, TakeOpsForCheck, FinishCheck, DrainSnapshot, CopySnapshot,
         BuildSnapshot, Undo, EndMerge
    <3>2. CASE BeginWrite(t) \/ EndWrite(t)
      BY <3>0, <3>2 DEF BeginWrite, EndWrite, At, HoldsOps, Role, Task
    <3>3. CASE t \in Merger /\ (CloseForSnapshot(t) \/ CheckpointAndReopen(t) \/ SwapSnapshot(t))
      BY <3>0, <3>3 DEF CloseForSnapshot, CheckpointAndReopen, SwapSnapshot, At, HoldsOps
    <3>4. CASE CloseAll(t) \/ ReopenAll(t)
      <4>1. t \in LeagueWriter
        BY <3>0, <3>4 DEF CloseAll, ReopenAll, At, Role, Task
      <4>2. pc'[t] # pc[t]
        BY <3>0, <3>4 DEF CloseAll, ReopenAll, At, Go, Done, OTypes
      <4> QED BY <4>1, <4>2
    <3> QED BY <3>1, <3>2, <3>3, <3>4
  <2>2. ASSUME NEW r \in Reader, At(r, "read") PROVE ops = r /\ r \notin Writer \cup Merger
    BY <2>2, Kinds DEF LocksInv, HoldsOps, At, Task
  <2>3. ~UNCHANGED vars
    BY DEF vars
  <2> QED BY <2>1, <2>2, <2>3, OpsAssumption DEF Next, Quiet, OpsAssumption, Task
<1> QED BY <1>1, OpsTyped, LocksHeld, PTL DEF Spec, ConnectionOwned

-----------------------------------------------------------------------------
(* Every request is answered: what it rests on.  A step takes one request     *)
(* forward, a request has at most 13 steps, and as long as one is unanswered  *)
(* some request can take a step.                                             *)

\* What a request that is not finished waits for: a lock without a timeout.
Waits(t) ==
  \/ At(t, "gate") /\ t \in Fleet \cup Merger \cup (Writer \ Renamer) /\ rebuild # None
  \/ At(t, "lock") /\ t \in Writer \ Renamer /\ ops # None
  \/ pc[t] \in {"precheck", "lock1", "lock2"} /\ ops # None
  \/ At(t, "undo") /\ ~opsConn /\ ops # None
  \/ At(t, "close") /\ \E u \in LeagueWriter : At(u, "league write")

SomeoneMoves ==
  (\E t \in Task : ~At(t, "done")) => \E t \in Task : ~At(t, "done") /\ ~Waits(t)

Rank == [p \in Points |->
  CASE p \in {"precheck", "close"} -> 0
    [] p \in {"check", "league write"} -> 1
    [] p = "gate" -> 2
    [] p \in {"lock", "drain1"} -> 3
    [] p \in {"read", "attach", "drain", "lock1"} -> 4
    [] p \in {"attached", "write", "checkpoint"} -> 5
    [] p \in {"tidy", "tidy failed", "stage"} -> 6
    [] p = "build" -> 7
    [] p = "drain2" -> 8
    [] p = "lock2" -> 9
    [] p = "swap" -> 10
    [] p = "undo" -> 11
    [] p \in {"end", "end ok"} -> 12
    [] OTHER -> 13]

LEMMA RankOf ==
  /\ Rank["precheck"] = 0 /\ Rank["close"] = 0 /\ Rank["check"] = 1 /\ Rank["league write"] = 1
  /\ Rank["gate"] = 2 /\ Rank["lock"] = 3 /\ Rank["drain1"] = 3 /\ Rank["read"] = 4
  /\ Rank["attach"] = 4 /\ Rank["drain"] = 4 /\ Rank["lock1"] = 4 /\ Rank["attached"] = 5
  /\ Rank["write"] = 5 /\ Rank["checkpoint"] = 5 /\ Rank["tidy"] = 6 /\ Rank["tidy failed"] = 6
  /\ Rank["stage"] = 6 /\ Rank["build"] = 7 /\ Rank["drain2"] = 8 /\ Rank["lock2"] = 9
  /\ Rank["swap"] = 10 /\ Rank["undo"] = 11 /\ Rank["end"] = 12 /\ Rank["end ok"] = 12
  /\ Rank["done"] = 13
BY DEF Rank, Points

\* Where a request may go from where it is.
Leads(p, q) ==
  \/ p = "precheck" /\ q = "check"
  \/ p = "check" /\ q \in {"gate", "done"}
  \/ p = "gate" /\ q \in {"lock", "drain1", "done"}
  \/ p = "lock" /\ q \in {"read", "attach", "drain", "done"}
  \/ p = "attach" /\ q \in {"attached", "done"}
  \/ p = "drain" /\ q \in {"write", "tidy failed", "done"}
  \/ p = "write" /\ q \in {"tidy", "tidy failed"}
  \/ p = "drain1" /\ q \in {"lock1", "undo"}
  \/ p = "lock1" /\ q = "checkpoint"
  \/ p = "checkpoint" /\ q \in {"stage", "undo"}
  \/ p = "stage" /\ q = "build"
  \/ p = "build" /\ q \in {"drain2", "undo"}
  \/ p = "drain2" /\ q \in {"lock2", "end"}
  \/ p = "lock2" /\ q = "swap"
  \/ p = "swap" /\ q \in {"end ok", "end"}
  \/ p = "undo" /\ q = "end"
  \/ p = "close" /\ q = "league write"
  \/ p \in {"read", "attached", "tidy", "tidy failed", "end", "end ok", "league write"}
     /\ q = "done"

LEMMA LeadsUp == ASSUME NEW p, NEW q, Leads(p, q) PROVE Rank[q] > Rank[p]
<1>1. CASE p = "precheck" /\ q = "check"
  <2>1. Rank[p] = 0 /\ Rank[q] = 1
    BY <1>1, RankOf
  <2> QED BY <2>1
<1>2. CASE p = "check" /\ q \in {"gate", "done"}
  <2>1. Rank[p] = 1 /\ Rank[q] \in {2, 13}
    BY <1>2, RankOf
  <2> QED BY <2>1
<1>3. CASE p = "gate" /\ q \in {"lock", "drain1", "done"}
  <2>1. Rank[p] = 2 /\ Rank[q] \in {3, 13}
    BY <1>3, RankOf
  <2> QED BY <2>1
<1>4. CASE p = "lock" /\ q \in {"read", "attach", "drain", "done"}
  <2>1. Rank[p] = 3 /\ Rank[q] \in {4, 13}
    BY <1>4, RankOf
  <2> QED BY <2>1
<1>5. CASE p = "attach" /\ q \in {"attached", "done"}
  <2>1. Rank[p] = 4 /\ Rank[q] \in {5, 13}
    BY <1>5, RankOf
  <2> QED BY <2>1
<1>6. CASE p = "drain" /\ q \in {"write", "tidy failed", "done"}
  <2>1. Rank[p] = 4 /\ Rank[q] \in {5, 6, 13}
    BY <1>6, RankOf
  <2> QED BY <2>1
<1>7. CASE p = "write" /\ q \in {"tidy", "tidy failed"}
  <2>1. Rank[p] = 5 /\ Rank[q] = 6
    BY <1>7, RankOf
  <2> QED BY <2>1
<1>8. CASE p = "drain1" /\ q \in {"lock1", "undo"}
  <2>1. Rank[p] = 3 /\ Rank[q] \in {4, 11}
    BY <1>8, RankOf
  <2> QED BY <2>1
<1>9. CASE p = "lock1" /\ q = "checkpoint"
  <2>1. Rank[p] = 4 /\ Rank[q] = 5
    BY <1>9, RankOf
  <2> QED BY <2>1
<1>10. CASE p = "checkpoint" /\ q \in {"stage", "undo"}
  <2>1. Rank[p] = 5 /\ Rank[q] \in {6, 11}
    BY <1>10, RankOf
  <2> QED BY <2>1
<1>11. CASE p = "stage" /\ q = "build"
  <2>1. Rank[p] = 6 /\ Rank[q] = 7
    BY <1>11, RankOf
  <2> QED BY <2>1
<1>12. CASE p = "build" /\ q \in {"drain2", "undo"}
  <2>1. Rank[p] = 7 /\ Rank[q] \in {8, 11}
    BY <1>12, RankOf
  <2> QED BY <2>1
<1>13. CASE p = "drain2" /\ q \in {"lock2", "end"}
  <2>1. Rank[p] = 8 /\ Rank[q] \in {9, 12}
    BY <1>13, RankOf
  <2> QED BY <2>1
<1>14. CASE p = "lock2" /\ q = "swap"
  <2>1. Rank[p] = 9 /\ Rank[q] = 10
    BY <1>14, RankOf
  <2> QED BY <2>1
<1>15. CASE p = "swap" /\ q \in {"end ok", "end"}
  <2>1. Rank[p] = 10 /\ Rank[q] = 12
    BY <1>15, RankOf
  <2> QED BY <2>1
<1>16. CASE p = "undo" /\ q = "end"
  <2>1. Rank[p] = 11 /\ Rank[q] = 12
    BY <1>16, RankOf
  <2> QED BY <2>1
<1>17. CASE p = "close" /\ q = "league write"
  <2>1. Rank[p] = 0 /\ Rank[q] = 1
    BY <1>17, RankOf
  <2> QED BY <2>1
<1>18. CASE p \in {"read", "attached", "tidy", "tidy failed", "end", "end ok", "league write"} /\ q = "done"
  <2>1. Rank[p] \in {1, 4, 5, 6, 12} /\ Rank[q] = 13
    BY <1>18, RankOf
  <2> QED BY <2>1
<1> QED BY ONLY Leads(p, q), <1>1, <1>2, <1>3, <1>4, <1>5, <1>6, <1>7, <1>8, <1>9, <1>10, <1>11, <1>12, <1>13, <1>14, <1>15, <1>16, <1>17, <1>18 DEF Leads

Forward(t) == OthersStay(t) /\ Rank[pc'[t]] > Rank[pc[t]]

\* Holding db._ops_lock, nobody waits; holding the gate, one waits for
\* db._ops_lock at most.
LEMMA HoldersMove ==
  ASSUME OTypes, LocksInv, NEW t \in Task
  PROVE  /\ HoldsOps(t) => ~At(t, "done") /\ ~Waits(t)
         /\ HoldsGate(t) => ~At(t, "done") /\ (Waits(t) => ops # None)
<1>1. Role(t)
  BY DEF OTypes
<1> QED BY <1>1, Kinds DEF HoldsOps, HoldsGate, Waits, At, Role, Task

\* The order of the two locks admits no deadlock: whatever the requests wait
\* for, one of them can take its next step.
THEOREM NoOneIsStuck == Spec => []SomeoneMoves
<1>1. OTypes /\ LocksInv => SomeoneMoves
  <2> SUFFICES ASSUME OTypes, LocksInv, NEW t \in Task, ~At(t, "done"), Waits(t)
               PROVE  \E u \in Task : ~At(u, "done") /\ ~Waits(u)
    BY DEF SomeoneMoves
  <2>1. CASE ops # None
    <3>1. ops \in Task /\ HoldsOps(ops)
      BY <2>1 DEF OTypes, LocksInv
    <3> QED BY <3>1, HoldersMove
  <2>2. CASE ops = None /\ rebuild # None
    <3>1. rebuild \in Task /\ HoldsGate(rebuild)
      BY <2>2 DEF OTypes, LocksInv
    <3> QED BY <2>2, <3>1, HoldersMove
  <2>3. CASE ops = None /\ rebuild = None
    <3>1. PICK u \in LeagueWriter : At(u, "league write")
      BY <2>3 DEF Waits
    <3>2. u \in Task /\ ~At(u, "done") /\ ~Waits(u)
      BY <3>1 DEF At, Waits, Task
    <3> QED BY <3>2
  <2> QED BY <2>1, <2>2, <2>3
<1> QED BY <1>1, OpsTyped, LocksHeld, PTL

LEMMA StepGoesForward ==
  ASSUME OTypes, LocksInv, NEW t \in Task, Step(t)
  PROVE  Forward(t)
<1> DEFINE Goes == Leads(pc[t], pc'[t])
<1>0. Role(t) /\ pc \in [Task -> Points]
  BY DEF OTypes
<1> USE <1>0, Kinds DEF Leads, Role, At, Go, Done
<1>1. ASSUME TakeGate(t) PROVE Goes
  <2>1. pc[t] = "gate" /\ pc'[t] \in {"drain1", "lock"}
    BY <1>1 DEF TakeGate
  <2> QED BY <2>1
<1>2. ASSUME GiveUpGate(t) PROVE Goes
  BY <1>2 DEF GiveUpGate
<1>3. ASSUME TakeOps(t) PROVE Goes
  <2>1. pc[t] = "lock" /\ pc'[t] \in {"read", "drain", "attach", "done"}
    BY <1>3 DEF TakeOps, AfterLock
  <2> QED BY <2>1
<1>4. ASSUME GiveUpOps(t) PROVE Goes
  BY <1>4 DEF GiveUpOps
<1>5. ASSUME FinishRead(t) PROVE Goes
  BY <1>5 DEF FinishRead
<1>6. ASSUME Attach(t) PROVE Goes
  <2>1. pc[t] = "attach" /\ pc'[t] \in {"attached", "done"}
    BY <1>6 DEF Attach, AttachFailed
  <2> QED BY <2>1
<1>7. ASSUME Detach(t) PROVE Goes
  BY <1>7 DEF Detach
<1>8. ASSUME BeginWrite(t) PROVE Goes
  <2>1. pc[t] = "drain" /\ pc'[t] \in {"write", "tidy failed"}
    BY <1>8 DEF BeginWrite
  <2> QED BY <2>1
<1>9. ASSUME DrainTimeout(t) PROVE Goes
  BY <1>9 DEF DrainTimeout
<1>10. ASSUME Write(t) PROVE Goes
  <2>1. pc[t] = "write" /\ pc'[t] \in {"tidy", "tidy failed"}
    BY <1>10 DEF Write
  <2> QED BY <2>1
<1>11. ASSUME EndWrite(t) PROVE Goes
  <2>1. pc[t] \in {"tidy", "tidy failed"} /\ pc'[t] = "done"
    BY <1>11 DEF EndWrite
  <2> QED BY <2>1
<1>12. ASSUME TakeOpsForCheck(t) PROVE Goes
  BY <1>12 DEF TakeOpsForCheck
<1>13. ASSUME FinishCheck(t) PROVE Goes
  <2>1. pc[t] = "check" /\ pc'[t] \in {"gate", "done"}
    BY <1>13 DEF FinishCheck
  <2> QED BY <2>1
<1>14. ASSUME t \in Merger, DrainSnapshot(t) PROVE Goes
  BY <1>14 DEF DrainSnapshot
<1>15. ASSUME t \in Merger, CloseForSnapshot(t) PROVE Goes
  BY <1>15 DEF CloseForSnapshot
<1>16. ASSUME t \in Merger, CheckpointAndReopen(t) PROVE Goes
  BY <1>16 DEF CheckpointAndReopen
<1>17. ASSUME t \in Merger, CopySnapshot(t) PROVE Goes
  BY <1>17 DEF CopySnapshot
<1>18. ASSUME t \in Merger, BuildSnapshot(t) PROVE Goes
  BY <1>18 DEF BuildSnapshot
<1>19. ASSUME t \in Merger, SwapSnapshot(t) PROVE Goes
  <2>1. pc[t] = "swap" /\ pc'[t] \in {"end", "end ok"}
    BY <1>19 DEF SwapSnapshot
  <2> QED BY <2>1
<1>20. ASSUME t \in Merger, Undo(t) PROVE Goes
  BY <1>20 DEF Undo
<1>21. ASSUME t \in Merger, EndMerge(t) PROVE Goes
  BY <1>21 DEF EndMerge
<1>22. ASSUME CloseAll(t) PROVE Goes
  BY <1>22 DEF CloseAll
<1>23. ASSUME ReopenAll(t) PROVE Goes
  <2>1. pc[t] = "league write" /\ pc'[t] = "done"
    BY <1>23 DEF ReopenAll
  <2> QED BY <2>1
<1> HIDE DEF Goes
<1>24. Goes
  BY <1>1, <1>2, <1>3, <1>4, <1>5, <1>6, <1>7, <1>8, <1>9, <1>10, <1>11, <1>12, <1>13, <1>14, <1>15, <1>16, <1>17, <1>18, <1>19, <1>20, <1>21, <1>22, <1>23 DEF Step
<1> QED BY <1>24, LeadsUp, StepKeepsLocks DEF Goes, Forward

\* Every step takes exactly one request forward: no request tries again, so n
\* requests are answered within 13 * n steps, if any step can be taken.
THEOREM RequestsGoForward == Spec => [][\E t \in Task : Forward(t)]_vars
<1>1. OTypes /\ LocksInv /\ [Next]_vars => [\E t \in Task : Forward(t)]_vars
  BY StepGoesForward DEF Next, Quiet
<1> QED BY <1>1, OpsTyped, LocksHeld, PTL DEF Spec

=============================================================================
