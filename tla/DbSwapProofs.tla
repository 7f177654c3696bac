---------------------------- MODULE DbSwapProofs ----------------------------
(***************************************************************************)
(* Proofs for DbSwap, for any number of requests, crashes and damaged       *)
(* uploads, with requests that do not overlap: two uploads to one           *)
(* .incoming file do break the promises, as the README shows.               *)
(*                                                                         *)
(* The argument is the one atomic_swap's comments give: before a rename     *)
(* takes the good file away, another good one is under a name that          *)
(* startup_recovery looks at.                                               *)
(***************************************************************************)
EXTENDS DbSwap, TLAPS

Points == {"new", "upload", "written", "ready", "build", "copy", "check", "unlink", "retire",
           "install", "probe", "rollback", "restore", "done"}

\* The types: where a request of each kind can be, and what the names lead to.
PointTypes ==
  /\ pc \in [Request -> Points]
  /\ out \in [Request -> {"none", "swapped", "failed", "rejected"}]
  /\ recovery \in {"clean", "restore", "verify", "put back", "open", "done"}
  /\ faults \in Nat
  /\ \A r \in Request : /\ pc[r] \in {"upload", "written", "ready"} => r \in Replace
                        /\ pc[r] \in {"build", "copy"} => r \in Compact

FileTypes ==
  /\ live \in Name /\ prev \in Name /\ incoming \in Name
  /\ data \in [Inode -> [of : Inode, state : States]]
  /\ handle \in [Replace -> Name]
  /\ acked \in Inode

STypes == PointTypes /\ FileTypes

Active(r) == pc[r] \notin {"new", "done"}

\* One request at a time, and none while the server recovers.
OneInv ==
  /\ \A r, q \in Request : Active(r) /\ Active(q) => r = q
  /\ recovery # "done" => \A r \in Request : ~Active(r)

\* What an upload has under its handle, and a verified one under its name.
FileAt(r) ==
  /\ pc[r] \in {"upload", "written"} => handle[r] = incoming /\ incoming # None
  /\ r \in Checked /\ pc[r] \in {"ready", "check", "unlink", "retire", "install"} =>
       incoming # None /\ data[incoming] = [of |-> r, state |-> "whole"]
  /\ r \in Checked /\ pc[r] = "probe" =>
       live # None /\ data[live] = [of |-> r, state |-> "whole"]
  /\ pc[r] = "copy" => live # None

FileInv == \A r \in Request : FileAt(r)

\* Nobody writes to an inode that startup_recovery might serve.
NamesInv ==
  /\ incoming # None => incoming \notin {live, prev}
  /\ live # None => live # prev
  /\ \A r \in Request : pc[r] \in {"new", "build"} => r \notin {live, prev, incoming}

\* The points at which the live name leads nowhere.
Gone == {"install", "restore"}

\* The good file while r swaps.
PhaseAt(r) ==
  /\ pc[r] = "copy" => incoming = r /\ data[r].of = r
  /\ pc[r] \in {"unlink", "retire", "install"} => Opens(incoming)
  /\ pc[r] = "retire" => prev = None
  /\ pc[r] \in Gone => live = None
  /\ pc[r] \in Gone \cup {"probe", "rollback"} => prev # None

\* The good file at each point of a recovery.
RecoveryInv ==
  /\ prev # None => Opens(prev)
  /\ recovery \in {"clean", "restore"} => Opens(live) \/ prev # None
  /\ recovery = "verify" => live # None /\ (Opens(live) \/ prev # None)
  /\ recovery = "put back" => live = None /\ prev # None
  /\ recovery = "open" => Opens(live)
  /\ recovery = "done" /\ (\A r \in Request : pc[r] \notin Gone) => Opens(live)

GoodInv == faults = 0 => NamesInv /\ RecoveryInv /\ \A r \in Request : PhaseAt(r)

\* Holds what the last answer promised, or a swap that was never answered.
True(i) == data[i].of = acked \/ (data[i].of \in Replace /\ out[data[i].of] = "none")

\* No file that may be served holds the data of q.
NotMine(q) == /\ acked # q
              /\ prev # None => data[prev].of # q
              /\ live # None => data[live].of # q

\* Where the data of r's swap are.
TruthAt(r) ==
  /\ pc[r] # "done" => /\ out[r] = "none" /\ acked # r
                       /\ prev # None => data[prev].of # r
  /\ pc[r] \notin {"probe", "rollback", "done"} => NotMine(r)
  /\ pc[r] \in {"probe", "rollback"} => True(prev)
  /\ r \in Replace /\ pc[r] \notin {"new", "probe", "rollback", "restore", "done"} =>
       incoming # None /\ data[incoming].of = r
  /\ r \in Compact /\ pc[r] \in {"check", "unlink", "retire"} /\ incoming # None =>
       data[incoming].of = data[live].of
  /\ r \in Compact /\ pc[r] = "install" => data[incoming].of = data[prev].of

ServedTrue == /\ Opens(live) => True(live)
              /\ ~Opens(live) /\ prev # None => True(prev)

TruthInv == faults = 0 => ServedTrue /\ \A r \in Request : TruthAt(r)

-----------------------------------------------------------------------------
\* Every request is at a point of its kind.
LEMMA SwapPoints == Spec => []PointTypes
<1> USE SwapAssumption DEF SwapAssumption, Request
<1>1. Init => PointTypes
  BY DEF Init, PointTypes, Points
<1>2. PointTypes /\ [Next]_vars => PointTypes'
  <2> SUFFICES ASSUME PointTypes, [Next]_vars PROVE PointTypes'
    OBVIOUS
  <2> USE DEF PointTypes, Points, At, Go, Done, budget
  <2>1. ASSUME NEW r \in Request, OpenUpload(r) PROVE PointTypes'
    BY <2>1 DEF OpenUpload, MayStart
  <2>2. ASSUME NEW r \in Request, WriteUpload(r) PROVE PointTypes'
    BY <2>2 DEF WriteUpload
  <2>3. ASSUME NEW r \in Request, CloseUpload(r) PROVE PointTypes'
    BY <2>3 DEF CloseUpload
  <2>4. ASSUME NEW r \in Request, TooLarge(r) PROVE PointTypes'
    BY <2>4 DEF TooLarge
  <2>5. ASSUME NEW r \in Request, TakeLock(r) PROVE PointTypes'
    BY <2>5 DEF TakeLock, MayStart
  <2>6. ASSUME NEW r \in Request, StartBuild(r) PROVE PointTypes'
    BY <2>6 DEF StartBuild
  <2>7. ASSUME NEW r \in Request, FinishBuild(r) PROVE PointTypes'
    BY <2>7 DEF FinishBuild
  <2>8. ASSUME NEW r \in Request, BuildFails(r) PROVE PointTypes'
    BY <2>8 DEF BuildFails, Fail
  <2>9. ASSUME NEW r \in Request, CheckIncoming(r) PROVE PointTypes'
    BY <2>9 DEF CheckIncoming, Fail
  <2>10. ASSUME NEW r \in Request, UnlinkPrev(r) PROVE PointTypes'
    BY <2>10 DEF UnlinkPrev
  <2>11. ASSUME NEW r \in Request, Retire(r) PROVE PointTypes'
    BY <2>11 DEF Retire
  <2>12. ASSUME NEW r \in Request, Install(r) PROVE PointTypes'
    BY <2>12 DEF Install
  <2>13. ASSUME NEW r \in Request, Probe(r) PROVE PointTypes'
    BY <2>13 DEF Probe
  <2>14. ASSUME NEW r \in Request, RollBack(r) PROVE PointTypes'
    BY <2>14 DEF RollBack
  <2>15. ASSUME NEW r \in Request, Restore(r) PROVE PointTypes'
    BY <2>15 DEF Restore, Fail
  <2>16. ASSUME NEW r \in Request, FileError(r) PROVE PointTypes'
    <3>1. CASE Done(r, "failed")
      <4>1. recovery' = recovery /\ faults' = faults + 1
        BY <2>16 DEF FileError
      <4>2. pc' = [pc EXCEPT ![r] = "done"] /\ out' = [out EXCEPT ![r] = "failed"]
        BY <3>1
      <4>3. pc' \in [Request -> Points] /\ out' \in [Request -> {"none", "swapped", "failed", "rejected"}]
        BY <4>2
      <4>4. \A q \in Request : pc'[q] \in {pc[q], "done"}
        BY <4>2
      <4>5. faults' \in Nat
        <5>1. faults \in Nat
          OBVIOUS
        <5> HIDE DEF PointTypes
        <5> QED BY <4>1, <5>1
      <4>6. \A q \in Request : /\ pc'[q] \in {"upload", "written", "ready"} => q \in Replace
                               /\ pc'[q] \in {"build", "copy"} => q \in Compact
        BY <4>4
      <4>7. recovery' \in {"clean", "restore", "verify", "put back", "open", "done"}
        BY <4>1
      <4> HIDE DEF Points
      <4> QED BY <4>3, <4>5, <4>6, <4>7
    <3> QED BY <2>16, <3>1 DEF FileError, Fail
  <2>17. ASSUME RemoveIncoming PROVE PointTypes'
    BY <2>17 DEF RemoveIncoming
  <2>18. ASSUME RestoreMissing PROVE PointTypes'
    BY <2>18 DEF RestoreMissing
  <2>19. ASSUME VerifyLive PROVE PointTypes'
    BY <2>19 DEF VerifyLive
  <2>20. ASSUME PutBack PROVE PointTypes'
    BY <2>20 DEF PutBack
  <2>21. ASSUME OpenPool PROVE PointTypes'
    BY <2>21 DEF OpenPool
  <2>22. ASSUME Crash PROVE PointTypes'
    BY <2>22 DEF Crash, Torn
  <2>23. CASE UNCHANGED vars
    BY <2>23 DEF vars
  <2> HIDE DEF PointTypes, Points, At, Go, Done, budget
  <2> QED BY <2>1, <2>2, <2>3, <2>4, <2>5, <2>6, <2>7, <2>8, <2>9, <2>10, <2>11, <2>12, <2>13, <2>14, <2>15, <2>16, <2>17, <2>18, <2>19, <2>20, <2>21, <2>22, <2>23 DEF Next, Step, Recover, Quiet
<1> QED BY <1>1, <1>2, PTL DEF Spec

\* One request at a time: a request starts alone, and a crash ends them all.
LEMMA SwapOne ==
  ASSUME ~Overlap
  PROVE  Spec => []OneInv
<1>1. Init => OneInv
  BY DEF Init, OneInv, Active
<1>2. PointTypes /\ OneInv /\ [Next]_vars => OneInv'
  <2> SUFFICES ASSUME PointTypes, OneInv, [Next]_vars PROVE OneInv'
    OBVIOUS
  <2> USE DEF PointTypes, OneInv, Active, At, Go, Done
  <2>1. ASSUME NEW r \in Request, OpenUpload(r) PROVE OneInv'
    BY <2>1 DEF OpenUpload, MayStart, Up
  <2>2. ASSUME NEW r \in Request, WriteUpload(r) PROVE OneInv'
    BY <2>2 DEF WriteUpload
  <2>3. ASSUME NEW r \in Request, CloseUpload(r) PROVE OneInv'
    BY <2>3 DEF CloseUpload
  <2>4. ASSUME NEW r \in Request, TooLarge(r) PROVE OneInv'
    BY <2>4 DEF TooLarge
  <2>5. ASSUME NEW r \in Request, TakeLock(r) PROVE OneInv'
    BY <2>5 DEF TakeLock, MayStart, Up, Request
  <2>6. ASSUME NEW r \in Request, StartBuild(r) PROVE OneInv'
    BY <2>6 DEF StartBuild
  <2>7. ASSUME NEW r \in Request, FinishBuild(r) PROVE OneInv'
    BY <2>7 DEF FinishBuild
  <2>8. ASSUME NEW r \in Request, BuildFails(r) PROVE OneInv'
    BY <2>8 DEF BuildFails, Fail
  <2>9. ASSUME NEW r \in Request, CheckIncoming(r) PROVE OneInv'
    BY <2>9 DEF CheckIncoming, Fail
  <2>10. ASSUME NEW r \in Request, UnlinkPrev(r) PROVE OneInv'
    BY <2>10 DEF UnlinkPrev
  <2>11. ASSUME NEW r \in Request, Retire(r) PROVE OneInv'
    BY <2>11 DEF Retire
  <2>12. ASSUME NEW r \in Request, Install(r) PROVE OneInv'
    BY <2>12 DEF Install
  <2>13. ASSUME NEW r \in Request, Probe(r) PROVE OneInv'
    BY <2>13 DEF Probe
  <2>14. ASSUME NEW r \in Request, RollBack(r) PROVE OneInv'
    BY <2>14 DEF RollBack
  <2>15. ASSUME NEW r \in Request, Restore(r) PROVE OneInv'
    BY <2>15 DEF Restore, Fail
  <2>16. ASSUME NEW r \in Request, FileError(r) PROVE OneInv'
    BY <2>16 DEF FileError, Fail
  <2>17. ASSUME RemoveIncoming PROVE OneInv'
    BY <2>17 DEF RemoveIncoming
  <2>18. ASSUME RestoreMissing PROVE OneInv'
    BY <2>18 DEF RestoreMissing
  <2>19. ASSUME VerifyLive PROVE OneInv'
    BY <2>19 DEF VerifyLive
  <2>20. ASSUME PutBack PROVE OneInv'
    BY <2>20 DEF PutBack
  <2>21. ASSUME OpenPool PROVE OneInv'
    BY <2>21 DEF OpenPool
  <2>22. ASSUME Crash PROVE OneInv'
    BY <2>22 DEF Crash, Torn
  <2>23. CASE UNCHANGED vars
    BY <2>23 DEF vars
  <2> HIDE DEF PointTypes, OneInv, Active, At, Go, Done
  <2> QED BY <2>1, <2>2, <2>3, <2>4, <2>5, <2>6, <2>7, <2>8, <2>9, <2>10, <2>11, <2>12, <2>13, <2>14, <2>15, <2>16, <2>17, <2>18, <2>19, <2>20, <2>21, <2>22, <2>23 DEF Next, Step, Recover, Quiet
<1> QED BY <1>1, <1>2, SwapPoints, PTL DEF Spec

\* A step of a request leaves the others idle where they are.
LEMMA StepMoves ==
  ASSUME PointTypes, OneInv, OneInv', NEW r \in Request, Step(r) \/ FileError(r)
  PROVE  /\ \A q \in Request : q # r => pc'[q] = pc[q] /\ ~Active(q) /\ ~Active(q)'
         /\ recovery' = recovery /\ recovery = "done"
<1> DEFINE Moved == /\ \A q \in Request : q # r => pc'[q] = pc[q]
                    /\ recovery' = recovery
                    /\ Active(r) \/ (Active(r)' /\ recovery = "done")
<1> USE DEF PointTypes, Active, At, Go, Done
<1>1. ASSUME OpenUpload(r) PROVE Moved
  BY <1>1 DEF OpenUpload, MayStart, Up
<1>2. ASSUME WriteUpload(r) PROVE Moved
  BY <1>2 DEF WriteUpload
<1>3. ASSUME CloseUpload(r) PROVE Moved
  BY <1>3 DEF CloseUpload
<1>4. ASSUME TooLarge(r) PROVE Moved
  BY <1>4 DEF TooLarge
<1>5. ASSUME TakeLock(r) PROVE Moved
  BY <1>5 DEF TakeLock, Up
<1>6. ASSUME StartBuild(r) PROVE Moved
  BY <1>6 DEF StartBuild
<1>7. ASSUME FinishBuild(r) PROVE Moved
  BY <1>7 DEF FinishBuild
<1>8. ASSUME BuildFails(r) PROVE Moved
  BY <1>8 DEF BuildFails, Fail
<1>9. ASSUME CheckIncoming(r) PROVE Moved
  BY <1>9 DEF CheckIncoming, Fail
<1>10. ASSUME UnlinkPrev(r) PROVE Moved
  BY <1>10 DEF UnlinkPrev
<1>11. ASSUME Retire(r) PROVE Moved
  BY <1>11 DEF Retire
<1>12. ASSUME Install(r) PROVE Moved
  BY <1>12 DEF Install
<1>13. ASSUME Probe(r) PROVE Moved
  BY <1>13 DEF Probe
<1>14. ASSUME RollBack(r) PROVE Moved
  BY <1>14 DEF RollBack
<1>15. ASSUME Restore(r) PROVE Moved
  BY <1>15 DEF Restore, Fail
<1>16. ASSUME FileError(r) PROVE Moved
  BY <1>16 DEF FileError, Fail
<1>17. Moved
  <2> HIDE DEF Moved
  <2> QED BY <1>1, <1>2, <1>3, <1>4, <1>5, <1>6, <1>7, <1>8, <1>9, <1>10, <1>11, <1>12, <1>13, <1>14, <1>15, <1>16 DEF Step
<1> QED BY <1>17 DEF OneInv

\* Every name and every inode keeps its range.
LEMMA SwapFiles ==
  ASSUME ~Overlap
  PROVE  Spec => [](FileTypes /\ FileInv)
<1> USE SwapAssumption DEF SwapAssumption, Request, Inode, Name
<1>1. Init => FileTypes
  BY DEF Init, FileTypes, States
<1>2. PointTypes /\ FileInv /\ FileTypes /\ [Next]_vars => FileTypes'
  <2> SUFFICES ASSUME PointTypes, FileInv, FileTypes, [Next]_vars PROVE FileTypes'
    OBVIOUS
  <2> USE DEF FileTypes, States, At, Opened, names, files
  <2>1. ASSUME NEW r \in Request, OpenUpload(r) PROVE FileTypes'
    BY <2>1 DEF OpenUpload, MayStart
  <2>2. ASSUME NEW r \in Request, WriteUpload(r) PROVE FileTypes'
    <3>1. PICK w \in States : data' = [data EXCEPT ![handle[r]] = [of |-> r, state |-> w]]
      BY <2>2 DEF WriteUpload
    <3>2. data' \in [Inode -> [of : Inode, state : States]]
      BY <3>1
    <3> QED BY <2>2, <3>2 DEF WriteUpload
  <2>3. ASSUME NEW r \in Request, CloseUpload(r) PROVE FileTypes'
    BY <2>3 DEF CloseUpload
  <2>4. ASSUME NEW r \in Request, TooLarge(r) PROVE FileTypes'
    BY <2>4 DEF TooLarge
  <2>5. ASSUME NEW r \in Request, TakeLock(r) PROVE FileTypes'
    BY <2>5 DEF TakeLock, MayStart
  <2>6. ASSUME NEW r \in Request, StartBuild(r) PROVE FileTypes'
    BY <2>6 DEF StartBuild
  <2>7. ASSUME NEW r \in Request, FinishBuild(r) PROVE FileTypes'
    <3>1. live \in Inode /\ r \in Inode
      BY <2>7 DEF FinishBuild, FileInv, FileAt
    <3>2. PICK w \in States : data' = [data EXCEPT ![r] = [of |-> data[live].of, state |-> w]]
      BY <2>7, <3>1 DEF FinishBuild
    <3>3. [of |-> data[live].of, state |-> w] \in [of : Inode, state : States]
      BY <3>1
    <3>4. data' \in [Inode -> [of : Inode, state : States]]
      BY <3>2, <3>3
    <3> QED BY <2>7, <3>4 DEF FinishBuild
  <2>8. ASSUME NEW r \in Request, BuildFails(r) PROVE FileTypes'
    BY <2>8 DEF BuildFails, Fail
  <2>9. ASSUME NEW r \in Request, CheckIncoming(r) PROVE FileTypes'
    BY <2>9 DEF CheckIncoming, Fail
  <2>10. ASSUME NEW r \in Request, UnlinkPrev(r) PROVE FileTypes'
    BY <2>10 DEF UnlinkPrev
  <2>11. ASSUME NEW r \in Request, Retire(r) PROVE FileTypes'
    BY <2>11 DEF Retire
  <2>12. ASSUME NEW r \in Request, Install(r) PROVE FileTypes'
    BY <2>12 DEF Install
  <2>13. ASSUME NEW r \in Request, Probe(r) PROVE FileTypes'
    BY <2>13 DEF Probe, Opens
  <2>14. ASSUME NEW r \in Request, RollBack(r) PROVE FileTypes'
    BY <2>14 DEF RollBack
  <2>15. ASSUME NEW r \in Request, Restore(r) PROVE FileTypes'
    BY <2>15 DEF Restore, RollBackTo, Fail
  <2>16. ASSUME NEW r \in Request, FileError(r) PROVE FileTypes'
    BY <2>16 DEF FileError, Fail
  <2>17. ASSUME RemoveIncoming PROVE FileTypes'
    BY <2>17 DEF RemoveIncoming
  <2>18. ASSUME RestoreMissing PROVE FileTypes'
    BY <2>18 DEF RestoreMissing
  <2>19. ASSUME VerifyLive PROVE FileTypes'
    BY <2>19 DEF VerifyLive
  <2>20. ASSUME PutBack PROVE FileTypes'
    BY <2>20 DEF PutBack
  <2>21. ASSUME OpenPool PROVE FileTypes'
    BY <2>21 DEF OpenPool
  <2>22. ASSUME Crash PROVE FileTypes'
    BY <2>22 DEF Crash, Torn
  <2>23. CASE UNCHANGED vars
    BY <2>23 DEF vars
  <2> HIDE DEF FileTypes, States, At, Opened, names, files
  <2> QED BY <2>1, <2>2, <2>3, <2>4, <2>5, <2>6, <2>7, <2>8, <2>9, <2>10, <2>11, <2>12, <2>13, <2>14, <2>15, <2>16, <2>17, <2>18, <2>19, <2>20, <2>21, <2>22, <2>23 DEF Next, Step, Recover, Quiet
<1>3. Init => FileInv
  BY DEF Init, FileInv, FileAt
<1>4. STypes /\ OneInv /\ OneInv' /\ FileInv /\ [Next]_vars => FileInv'
  <2> SUFFICES ASSUME PointTypes, FileTypes, OneInv, OneInv', FileInv, [Next]_vars PROVE FileInv'
    BY DEF STypes
  <2>0. ASSUME NEW r \in Request, Step(r) \/ FileError(r), FileAt(r)' PROVE FileInv'
    BY <2>0, StepMoves DEF FileInv, FileAt, Active
  <2> USE DEF PointTypes, FileTypes, FileInv, FileAt, At, Go, Done, Opened, names, files
  <2>1. ASSUME NEW r \in Request, OpenUpload(r) PROVE FileAt(r)'
    BY <2>1 DEF OpenUpload, MayStart
  <2>2. ASSUME NEW r \in Request, WriteUpload(r) PROVE FileAt(r)'
    BY <2>2 DEF WriteUpload
  <2>3. ASSUME NEW r \in Request, CloseUpload(r) PROVE FileAt(r)'
    BY <2>3 DEF CloseUpload, Matches
  <2>4. ASSUME NEW r \in Request, TooLarge(r) PROVE FileAt(r)'
    BY <2>4 DEF TooLarge
  <2>5. ASSUME NEW r \in Request, TakeLock(r) PROVE FileAt(r)'
    BY <2>5 DEF TakeLock, MayStart
  <2>6. ASSUME NEW r \in Request, StartBuild(r) PROVE FileAt(r)'
    BY <2>6 DEF StartBuild
  <2>7. ASSUME NEW r \in Request, FinishBuild(r) PROVE FileAt(r)'
    BY <2>7 DEF FinishBuild
  <2>8. ASSUME NEW r \in Request, BuildFails(r) PROVE FileAt(r)'
    BY <2>8 DEF BuildFails, Fail
  <2>9. ASSUME NEW r \in Request, CheckIncoming(r) PROVE FileAt(r)'
    BY <2>9 DEF CheckIncoming, Fail
  <2>10. ASSUME NEW r \in Request, UnlinkPrev(r) PROVE FileAt(r)'
    BY <2>10 DEF UnlinkPrev
  <2>11. ASSUME NEW r \in Request, Retire(r) PROVE FileAt(r)'
    BY <2>11 DEF Retire
  <2>12. ASSUME NEW r \in Request, Install(r) PROVE FileAt(r)'
    BY <2>12 DEF Install
  <2>13. ASSUME NEW r \in Request, Probe(r) PROVE FileAt(r)'
    BY <2>13 DEF Probe
  <2>14. ASSUME NEW r \in Request, RollBack(r) PROVE FileAt(r)'
    BY <2>14 DEF RollBack
  <2>15. ASSUME NEW r \in Request, Restore(r) PROVE FileAt(r)'
    BY <2>15 DEF Restore, Fail
  <2>16. ASSUME NEW r \in Request, FileError(r) PROVE FileAt(r)'
    BY <2>16 DEF FileError, Fail
  <2>17. CASE Recover \/ Crash
    <3>1. \A r \in Request : ~Active(r)'
      BY <2>17 DEF OneInv, Active, Recover, RemoveIncoming, RestoreMissing, VerifyLive, PutBack,
         OpenPool, Crash
    <3> QED BY <3>1 DEF Active
  <2>18. CASE UNCHANGED vars
    BY <2>18 DEF vars
  <2> HIDE DEF PointTypes, FileTypes, FileInv, FileAt, At, Go, Done, Opened, names, files
  <2> QED BY <2>0, <2>1, <2>2, <2>3, <2>4, <2>5, <2>6, <2>7, <2>8, <2>9, <2>10, <2>11, <2>12, <2>13, <2>14, <2>15, <2>16, <2>17, <2>18 DEF Next, Step, Quiet
<1> QED BY <1>1, <1>2, <1>3, <1>4, SwapPoints, SwapOne, PTL DEF Spec, STypes

-----------------------------------------------------------------------------
(* The good file.                                                           *)

\* What GoodInv says while nobody but r is at work.
Local(r) ==
  /\ prev # None => Opens(prev)
  /\ incoming # None => incoming \notin {live, prev}
  /\ live # None => live # prev
  /\ pc[r] \in {"new", "build"} => r \notin {live, prev, incoming}
  /\ pc[r] \notin Gone => Opens(live)
  /\ PhaseAt(r)

\* No name leads to the file of a request that has not begun.
NamesFrom(r) == {live', prev', incoming'} \subseteq {live, prev, incoming, None, r}

\* Then GoodInv holds for everyone.
LEMMA LocalSuffices ==
  ASSUME GoodInv, faults = 0, NEW r \in Request, Local(r)', NamesFrom(r), recovery' = "done",
         \A q \in Request : q # r => pc'[q] = pc[q] /\ ~Active(q)'
  PROVE  GoodInv'
<1> USE SwapAssumption DEF SwapAssumption, Request, Inode
<1>1. NamesInv'
  BY DEF GoodInv, NamesInv, Local, NamesFrom, Active
<1>2. RecoveryInv'
  BY DEF RecoveryInv, Local, Active
<1>3. \A q \in Request : PhaseAt(q)'
  BY DEF Local, PhaseAt, Active, Gone
<1> QED BY <1>1, <1>2, <1>3 DEF GoodInv

\* Every step of r keeps the good file, whatever r replaces it with.
LEMMA StepIsLocal ==
  ASSUME PointTypes, FileTypes, FileInv, NEW r \in Request, Local(r), Step(r)
  PROVE  Local(r)' /\ NamesFrom(r)
<1> DEFINE Kept == Local(r)' /\ NamesFrom(r)
<1>1. /\ live \in Name /\ prev \in Name /\ incoming \in Name /\ r \in Inode /\ None \notin Inode
      /\ data \in [Inode -> [of : Inode, state : States]] /\ pc \in [Request -> Points]
      /\ pc[r] \in {"upload", "written"} => r \in Replace /\ handle[r] = incoming /\ incoming # None
      /\ Replace \cap Compact = {}
  BY SwapAssumption DEF FileTypes, PointTypes, FileInv, FileAt, SwapAssumption, Inode, Request
<1> HIDE DEF Inode
<1> USE <1>1 DEF Local, PhaseAt, NamesFrom, Opens, Gone, At, Go, Done, names, files, Name, States
<1>2. ASSUME OpenUpload(r) PROVE Kept
  BY <1>2 DEF OpenUpload, MayStart
<1>3. ASSUME WriteUpload(r) PROVE Kept
  BY <1>3 DEF WriteUpload
<1>4. ASSUME CloseUpload(r) PROVE Kept
  BY <1>4 DEF CloseUpload
<1>5. ASSUME TooLarge(r) PROVE Kept
  BY <1>5 DEF TooLarge
<1>6. ASSUME TakeLock(r) PROVE Kept
  BY <1>6 DEF TakeLock, MayStart
<1>7. ASSUME StartBuild(r) PROVE Kept
  BY <1>7 DEF StartBuild, Opened
<1>8. ASSUME FinishBuild(r) PROVE Kept
  BY <1>8 DEF FinishBuild
<1>9. ASSUME BuildFails(r) PROVE Kept
  BY <1>9 DEF BuildFails, Fail, Opened
<1>10. ASSUME CheckIncoming(r) PROVE Kept
  BY <1>10 DEF CheckIncoming, Fail, Opened
<1>11. ASSUME UnlinkPrev(r) PROVE Kept
  BY <1>11 DEF UnlinkPrev
<1>12. ASSUME Retire(r) PROVE Kept
  BY <1>12 DEF Retire
<1>13. ASSUME Install(r) PROVE Kept
  BY <1>13 DEF Install
<1>14. ASSUME Probe(r) PROVE Kept
  BY <1>14 DEF Probe
<1>15. ASSUME RollBack(r) PROVE Kept
  BY <1>15 DEF RollBack
<1>16. ASSUME Restore(r) PROVE Kept
  BY <1>16 DEF Restore, Fail, Opened, RollBackTo
<1> HIDE DEF Kept
<1> QED BY <1>2, <1>3, <1>4, <1>5, <1>6, <1>7, <1>8, <1>9, <1>10, <1>11, <1>12, <1>13, <1>14, <1>15, <1>16 DEF Step, Kept

\* As long as no rename or unlink is refused, there is a good file.
LEMMA SwapGood ==
  ASSUME ~Overlap
  PROVE  Spec => []GoodInv
<1>1. Init => GoodInv
  <2> SUFFICES ASSUME Init PROVE GoodInv
    OBVIOUS
  <2>1. Old \notin Request /\ Old # None /\ None \notin Request
    BY SwapAssumption DEF SwapAssumption, Inode
  <2> QED BY <2>1 DEF Init, GoodInv, NamesInv, RecoveryInv, PhaseAt, Opens, Gone, Inode
<1>2. STypes /\ OneInv /\ OneInv' /\ FileInv /\ GoodInv /\ [Next]_vars => GoodInv'
  <2> SUFFICES ASSUME PointTypes, FileTypes, OneInv, OneInv', FileInv, GoodInv, [Next]_vars,
                      faults' = 0
               PROVE  GoodInv'
    BY DEF STypes, GoodInv
  <2>1. ASSUME NEW r \in Request, Step(r), faults = 0 PROVE GoodInv'
    <3>1. /\ \A q \in Request : q # r => pc'[q] = pc[q] /\ ~Active(q) /\ ~Active(q)'
          /\ recovery' = recovery /\ recovery = "done"
      BY <2>1, StepMoves
    <3>2. Local(r)
      BY <2>1, <3>1 DEF Local, GoodInv, NamesInv, RecoveryInv, Active, Gone
    <3>3. Local(r)' /\ NamesFrom(r)
      BY <2>1, <3>2, StepIsLocal
    <3> QED BY <2>1, <3>1, <3>3, LocalSuffices
  <2>2. \A r \in Request : Step(r) => faults' = faults
    BY DEF Step, OpenUpload, WriteUpload, CloseUpload, TooLarge, TakeLock, StartBuild, FinishBuild,
       BuildFails, CheckIncoming, UnlinkPrev, Retire, Install, Probe, RollBack, Restore, budget
  <2>3. ASSUME NEW r \in Request, FileError(r) PROVE FALSE
    <3>1. faults \in Nat /\ faults' = faults + 1
      BY <2>3 DEF FileError, PointTypes
    <3> QED BY <3>1
  <2>4. ASSUME Recover PROVE GoodInv'
    <3>1. recovery # "done" /\ faults = 0 /\ pc' = pc /\ data' = data /\ recovery' # "clean"
      BY <2>4 DEF Recover, RemoveIncoming, RestoreMissing, VerifyLive, PutBack, OpenPool, budget
    <3>2. \A r \in Request : ~Active(r) /\ ~Active(r)'
      BY <3>1 DEF OneInv, Active
    <3>3. {live', prev', incoming'} \subseteq {live, prev, incoming, None}
      BY <2>4, <3>1 DEF Recover, RemoveIncoming, RestoreMissing, VerifyLive, PutBack, OpenPool,
         Opened, GoodInv, RecoveryInv, Opens
    <3>4. NamesInv'
      <4>1. /\ incoming' # None => incoming' \notin {live', prev'}
            /\ live' # None => live' # prev'
        BY <2>4, <3>1 DEF Recover, RemoveIncoming, RestoreMissing, VerifyLive, PutBack, OpenPool,
           Opened, GoodInv, NamesInv, RecoveryInv, Opens
      <4>2. None \notin Request
        BY SwapAssumption DEF SwapAssumption, Inode
      <4> QED BY <3>1, <3>3, <4>1, <4>2 DEF GoodInv, NamesInv
    <3>5. RecoveryInv'
      <4> USE <3>1 DEF GoodInv, NamesInv, RecoveryInv, Opens, Opened, KeepPrev
      <4>1. CASE RemoveIncoming
        BY <4>1 DEF RemoveIncoming
      <4>2. CASE RestoreMissing
        BY <4>2 DEF RestoreMissing
      <4>3. CASE VerifyLive
        BY <4>3 DEF VerifyLive
      <4>4. CASE PutBack
        BY <4>4 DEF PutBack
      <4>5. CASE OpenPool
        BY <4>5 DEF OpenPool
      <4> QED BY <2>4, <4>1, <4>2, <4>3, <4>4, <4>5 DEF Recover
    <3>6. \A r \in Request : PhaseAt(r)'
      BY <3>2 DEF PhaseAt, Active, Gone
    <3> QED BY <3>4, <3>5, <3>6 DEF GoodInv
  <2>5. ASSUME Crash PROVE GoodInv'
    <3>1. /\ faults = 0 /\ recovery' = "clean"
          /\ live' = live /\ prev' = prev /\ incoming' = incoming
          /\ \A r \in Request : pc'[r] \in {"new", "done"} /\ (pc'[r] = "new" => pc[r] = "new")
      BY <2>5 DEF Crash, names, At
    <3>2. NamesInv'
      BY <3>1 DEF GoodInv, NamesInv
    <3>3. Opens(live) \/ prev # None
      BY <3>1 DEF GoodInv, RecoveryInv, PhaseAt, Gone, Opens, PointTypes
    <3>4. (prev # None => Opens(prev)') /\ (Opens(live)' \/ prev # None)
      <4>1. CASE data' = data
        BY <3>1, <3>3, <4>1 DEF GoodInv, RecoveryInv, Opens
      <4>2. CASE prev # None /\ data' = Torn
        <5>1. prev \in Inode /\ prev # live
          BY <3>1, <4>2 DEF GoodInv, NamesInv, FileTypes, Name
        <5>2. data'[prev] = data[prev]
          BY <4>2, <5>1 DEF Torn, FileTypes
        <5> QED BY <3>1, <4>2, <5>2 DEF GoodInv, RecoveryInv, Opens
      <4> QED BY <2>5, <4>1, <4>2 DEF Crash
    <3> QED BY <3>1, <3>2, <3>4 DEF GoodInv, RecoveryInv, PhaseAt, Gone
  <2>6. CASE UNCHANGED vars
    BY <2>6 DEF vars, files, names, budget, GoodInv, NamesInv, RecoveryInv, PhaseAt, Opens
  <2> QED BY <2>1, <2>2, <2>3, <2>4, <2>5, <2>6 DEF Next, Quiet
<1> QED BY <1>1, <1>2, SwapPoints, SwapOne, SwapFiles, PTL DEF Spec, STypes

\* Every name leads to an inode or to nothing, every inode holds what a request
\* can write, and a request is where its kind can be (swap.py's four names).
THEOREM SwapTypeCorrect ==
  ASSUME ~Overlap
  PROVE  Spec => []STypes
BY SwapPoints, SwapFiles, PTL DEF STypes

\* At every instant a database that opens is under a name startup_recovery
\* looks at, as long as no rename or unlink was refused.
THEOREM GoodCopyAlways ==
  ASSUME ~Overlap
  PROVE  Spec => []GoodCopySurvives
<1>1. PointTypes /\ GoodInv => GoodCopySurvives
  BY DEF GoodInv, RecoveryInv, PhaseAt, Gone, Opens, GoodCopySurvives, Recovered, PointTypes
<1> QED BY <1>1, SwapPoints, SwapGood, PTL

\* A .prev is given up for a live file that opens, and for nothing else.
THEOREM PrevIsKept ==
  ASSUME ~Overlap
  PROVE  Spec => PrevOutlivesDoubt
<1>1. PointTypes /\ OneInv /\ OneInv' /\ GoodInv /\ [Next]_vars
        => [faults' = 0 /\ prev # None /\ prev' # prev /\ live' # prev => Opens(live)]_vars
  <2> SUFFICES ASSUME PointTypes, OneInv, OneInv', GoodInv, [Next]_vars, faults' = 0, prev # None,
                      prev' # prev, live' # prev
               PROVE  Opens(live)
    OBVIOUS
  <2>1. ASSUME NEW r \in Request, Step(r) PROVE Opens(live)
    <3>1. faults = 0 /\ (UnlinkPrev(r) \/ Retire(r) \/ Restore(r))
      BY <2>1 DEF Step, OpenUpload, WriteUpload, CloseUpload, TooLarge, TakeLock, StartBuild,
         FinishBuild, BuildFails, CheckIncoming, UnlinkPrev, Retire, Install, Probe, RollBack,
         Restore, budget, files, names
    <3>2. CASE UnlinkPrev(r)
      <4>1. \A q \in Request : q # r => ~Active(q)
        BY <2>1, StepMoves
      <4>2. recovery = "done" /\ pc[r] = "unlink"
        BY <2>1, <3>2, StepMoves DEF UnlinkPrev, At
      <4> QED BY <3>1, <4>1, <4>2 DEF GoodInv, RecoveryInv, Active, Gone
    <3>3. CASE Retire(r)
      BY <3>1, <3>3 DEF Retire, GoodInv, PhaseAt, At
    <3>4. CASE Restore(r)
      BY <3>4 DEF Restore, Fail, RollBackTo, Opened
    <3> QED BY <3>1, <3>2, <3>3, <3>4
  <2>2. ASSUME NEW r \in Request, FileError(r) PROVE FALSE
    BY <2>2 DEF FileError
  <2>3. ASSUME Recover PROVE Opens(live)
    BY <2>3 DEF Recover, RemoveIncoming, RestoreMissing, VerifyLive, PutBack, OpenPool, KeepPrev
  <2>4. ~UNCHANGED vars /\ ~Crash
    BY DEF vars, files, names, Crash
  <2> QED BY <2>1, <2>2, <2>3, <2>4 DEF Next, Quiet
<1> QED BY <1>1, SwapPoints, SwapOne, SwapGood, PTL DEF Spec, PrevOutlivesDoubt

-----------------------------------------------------------------------------
(* The data that are served.                                                *)

\* Every step of r serves what was promised, and gives its data to nobody else.
LEMMA StepIsTrue ==
  ASSUME PointTypes, FileTypes, FileInv, NEW r \in Request, Local(r), ServedTrue, TruthAt(r), Step(r)
  PROVE  /\ ServedTrue' /\ TruthAt(r)'
         /\ \A q \in Request : q # r /\ NotMine(q) => NotMine(q)'
<1> DEFINE Kept == /\ ServedTrue' /\ TruthAt(r)'
                   /\ \A q \in Request : q # r /\ NotMine(q) => NotMine(q)'
<1>1. /\ live \in Name /\ prev \in Name /\ incoming \in Name /\ r \in Inode /\ None \notin Inode
      /\ data \in [Inode -> [of : Inode, state : States]] /\ pc \in [Request -> Points]
      /\ out \in [Request -> {"none", "swapped", "failed", "rejected"}]
      /\ pc[r] \in {"upload", "written", "ready"} => r \in Replace
      /\ pc[r] \in {"build", "copy"} => r \in Compact
      /\ pc[r] \in {"upload", "written"} => handle[r] = incoming /\ incoming # None
      /\ Replace \cap Compact = {} /\ Request = Replace \cup Compact /\ acked \in Inode
  BY SwapAssumption DEF FileTypes, PointTypes, FileInv, FileAt, SwapAssumption, Inode, Request
<1> HIDE DEF Inode, Request
<1> USE <1>1 DEF Local, PhaseAt, Opens, Gone, At, Go, Done, names, files, Name, States,
        True, NotMine, TruthAt, ServedTrue
<1>2. ASSUME OpenUpload(r) PROVE Kept
  BY <1>2 DEF OpenUpload, MayStart
<1>3. ASSUME WriteUpload(r) PROVE Kept
  BY <1>3 DEF WriteUpload
<1>4. ASSUME CloseUpload(r) PROVE Kept
  BY <1>4 DEF CloseUpload
<1>5. ASSUME TooLarge(r) PROVE Kept
  BY <1>5 DEF TooLarge
<1>6. ASSUME TakeLock(r) PROVE Kept
  BY <1>6 DEF TakeLock, MayStart
<1>7. ASSUME StartBuild(r) PROVE Kept
  BY <1>7 DEF StartBuild, Opened
<1>8. ASSUME FinishBuild(r) PROVE Kept
  <2>1. PICK w \in States : data' = [data EXCEPT ![r] = [of |-> data[live].of, state |-> w]]
    BY <1>8 DEF FinishBuild
  <2>2. /\ incoming = r /\ r \notin {live, prev} /\ live \in Inode
        /\ pc[r] = "copy" /\ pc' = [pc EXCEPT ![r] = "check"]
        /\ UNCHANGED <<live, prev, incoming, out, acked>>
    BY <1>8 DEF FinishBuild
  <2>3. /\ data'[r] = [of |-> data[live].of, state |-> w]
        /\ \A j \in Inode : j # r => data'[j] = data[j]
    BY <2>1
  <2>4. data'[live] = data[live] /\ (prev # None => data'[prev] = data[prev])
    BY <2>2, <2>3
  <2>5. ServedTrue'
    BY <2>2, <2>4
  <2>6. \A q \in Request : NotMine(q) => NotMine(q)'
    BY <2>2, <2>4
  <2>7. TruthAt(r)'
    BY <2>2, <2>3, <2>4, <2>6
  <2> QED BY <2>5, <2>6, <2>7
<1>9. ASSUME BuildFails(r) PROVE Kept
  BY <1>9 DEF BuildFails, Fail, Opened
<1>10. ASSUME CheckIncoming(r) PROVE Kept
  BY <1>10 DEF CheckIncoming, Fail, Opened
<1>11. ASSUME UnlinkPrev(r) PROVE Kept
  BY <1>11 DEF UnlinkPrev
<1>12. ASSUME Retire(r) PROVE Kept
  BY <1>12 DEF Retire
<1>13. ASSUME Install(r) PROVE Kept
  BY <1>13 DEF Install
<1>14. ASSUME Probe(r) PROVE Kept
  BY <1>14 DEF Probe
<1>15. ASSUME RollBack(r) PROVE Kept
  BY <1>15 DEF RollBack
<1>16. ASSUME Restore(r) PROVE Kept
  BY <1>16 DEF Restore, Fail, Opened, RollBackTo
<1> HIDE DEF Kept
<1> QED BY <1>2, <1>3, <1>4, <1>5, <1>6, <1>7, <1>8, <1>9, <1>10, <1>11, <1>12, <1>13, <1>14, <1>15, <1>16 DEF Step, Kept

\* What would be served holds the data of the last answer, or of a swap that was
\* never answered.
LEMMA SwapTrue ==
  ASSUME ~Overlap
  PROVE  Spec => []TruthInv
<1>1. Init => TruthInv
  <2> SUFFICES ASSUME Init PROVE TruthInv
    OBVIOUS
  <2>1. Old \notin Request /\ Old # None /\ Old \in Inode
    BY SwapAssumption DEF SwapAssumption, Inode
  <2> QED BY <2>1 DEF Init, TruthInv, ServedTrue, TruthAt, NotMine, True, Opens
<1>2. STypes /\ OneInv /\ OneInv' /\ FileInv /\ GoodInv /\ TruthInv /\ [Next]_vars => TruthInv'
  <2> SUFFICES ASSUME PointTypes, FileTypes, OneInv, OneInv', FileInv, GoodInv, TruthInv,
                      [Next]_vars, faults' = 0
               PROVE  TruthInv'
    BY DEF STypes, TruthInv
  <2>1. ASSUME NEW r \in Request, Step(r), faults = 0 PROVE TruthInv'
    <3>1. /\ \A q \in Request : q # r => pc'[q] = pc[q] /\ ~Active(q) /\ ~Active(q)'
          /\ recovery' = recovery /\ recovery = "done"
      BY <2>1, StepMoves
    <3>2. Local(r)
      BY <2>1, <3>1 DEF Local, GoodInv, NamesInv, RecoveryInv, Active, Gone
    <3>3. /\ ServedTrue' /\ TruthAt(r)'
          /\ \A q \in Request : q # r /\ NotMine(q) => NotMine(q)'
      BY <2>1, <3>2, StepIsTrue DEF TruthInv
    <3>4. \A q \in Request : q # r => out'[q] = out[q]
      BY <2>1 DEF Step, OpenUpload, WriteUpload, CloseUpload, TooLarge, TakeLock, StartBuild,
         FinishBuild, BuildFails, CheckIncoming, UnlinkPrev, Retire, Install, Probe, RollBack,
         Restore, Fail, Go, Done, PointTypes
    <3>5. ASSUME NEW q \in Request, q # r PROVE TruthAt(q)'
      <4>1. TruthAt(q) /\ pc'[q] = pc[q] /\ pc[q] \in {"new", "done"} /\ out'[q] = out[q]
        BY <2>1, <3>1, <3>4, <3>5 DEF TruthInv, Active
      <4>2. pc[q] = "new" => NotMine(q)'
        BY <3>3, <3>5, <4>1 DEF TruthAt
      <4> QED BY <4>1, <4>2 DEF TruthAt, NotMine
    <3> QED BY <3>3, <3>5 DEF TruthInv
  <2>2. \A r \in Request : Step(r) => faults' = faults
    BY DEF Step, OpenUpload, WriteUpload, CloseUpload, TooLarge, TakeLock, StartBuild, FinishBuild,
       BuildFails, CheckIncoming, UnlinkPrev, Retire, Install, Probe, RollBack, Restore, budget
  <2>3. ASSUME NEW r \in Request, FileError(r) PROVE FALSE
    <3>1. faults \in Nat /\ faults' = faults + 1
      BY <2>3 DEF FileError, PointTypes
    <3> QED BY <3>1
  <2>4. ASSUME Recover PROVE TruthInv'
    <3>1. /\ recovery # "done" /\ faults = 0
          /\ UNCHANGED <<pc, data, out, acked>>
      BY <2>4 DEF Recover, RemoveIncoming, RestoreMissing, VerifyLive, PutBack, OpenPool, budget
    <3>2. \A r \in Request : pc[r] \in {"new", "done"}
      BY <3>1 DEF OneInv, Active
    <3>3. /\ {live', prev'} \subseteq {live, prev, None}
          /\ ServedTrue'
      <4> USE <3>1 DEF GoodInv, RecoveryInv, Opens, KeepPrev, Opened, TruthInv, ServedTrue, True
      <4>1. CASE RemoveIncoming
        BY <4>1 DEF RemoveIncoming
      <4>2. CASE RestoreMissing
        BY <4>2 DEF RestoreMissing
      <4>3. CASE VerifyLive
        BY <4>3 DEF VerifyLive
      <4>4. CASE PutBack
        BY <4>4 DEF PutBack
      <4>5. CASE OpenPool
        BY <4>5 DEF OpenPool
      <4> QED BY <2>4, <4>1, <4>2, <4>3, <4>4, <4>5 DEF Recover
    <3>4. \A r \in Request : TruthAt(r)'
      BY <3>1, <3>2, <3>3 DEF TruthInv, TruthAt, NotMine
    <3> QED BY <3>3, <3>4 DEF TruthInv
  <2>5. ASSUME Crash PROVE TruthInv'
    <3>1. /\ faults = 0 /\ out' = out
          /\ live' = live /\ prev' = prev /\ incoming' = incoming
          /\ \A r \in Request : pc'[r] \in {"new", "done"} /\ (pc'[r] = "new" => pc[r] = "new")
      BY <2>5 DEF Crash, names, At
    <3>2. CASE data' = data /\ acked' = acked
      BY <3>1, <3>2 DEF TruthInv, ServedTrue, TruthAt, NotMine, True, Opens
    <3>3. CASE live \in Replace /\ prev # None /\ data' = Torn /\ acked' = data[prev].of
      <4>1. live \in Inode /\ prev \in Inode /\ prev # live /\ live # None
        BY <3>1, <3>3, SwapAssumption
           DEF GoodInv, NamesInv, FileTypes, Name, Inode, Request, SwapAssumption
      <4>2. /\ data'[prev] = data[prev] /\ data'[live].of = data[live].of
            /\ data'[live].state = "torn"
        BY <3>3, <4>1 DEF Torn, FileTypes
      <4>3. ServedTrue'
        BY <3>1, <3>3, <4>2 DEF ServedTrue, True, Opens
      <4>4. \A r \in Request : TruthAt(r)'
        BY <3>1, <3>3, <4>2 DEF TruthInv, TruthAt, NotMine
      <4> QED BY <4>3, <4>4 DEF TruthInv
    <3> QED BY <2>5, <3>2, <3>3 DEF Crash
  <2>6. CASE UNCHANGED vars
    BY <2>6 DEF vars, files, names, budget, TruthInv, ServedTrue, TruthAt, NotMine, True, Opens
  <2> QED BY <2>1, <2>2, <2>3, <2>4, <2>5, <2>6 DEF Next, Quiet
<1> QED BY <1>1, <1>2, SwapPoints, SwapOne, SwapFiles, SwapGood, PTL DEF Spec, STypes

\* Neither a damaged file, nor a crash, nor a rollback, nor an interrupted
\* recovery serves anything else, as long as no rename or unlink was refused.
THEOREM NothingElseEver ==
  ASSUME ~Overlap
  PROVE  Spec => []NothingElseIsLive
<1>1. PointTypes /\ GoodInv /\ TruthInv => NothingElseIsLive
  <2> SUFFICES ASSUME GoodInv, TruthInv, faults = 0, Opens(Recovered) PROVE True(Recovered)
    BY DEF NothingElseIsLive, SwapIsAtomic, True
  <2> QED BY DEF TruthInv, ServedTrue, Recovered, Opens
<1> QED BY <1>1, SwapPoints, SwapGood, SwapTrue, PTL

\* A replacement that sent a checksum and is answered with success has put the
\* file it verified in place.
THEOREM VerifiedIsLive ==
  ASSUME ~Overlap
  PROVE  Spec => SwappedIsVerified
<1>1. STypes /\ FileInv /\ [Next]_vars
        => [\A r \in Checked : out[r] # "swapped" /\ out'[r] = "swapped"
              => data'[live'] = [of |-> r, state |-> "whole"]]_vars
  <2> SUFFICES ASSUME PointTypes, FileInv, [Next]_vars, NEW r \in Checked,
                      out[r] # "swapped", out'[r] = "swapped"
               PROVE  data'[live'] = [of |-> r, state |-> "whole"]
    BY DEF STypes
  <2>1. r \in Request
    BY SwapAssumption DEF SwapAssumption, Request
  <2>2. ASSUME NEW q \in Request, Step(q) \/ FileError(q) PROVE q = r /\ Probe(r)
    BY <2>1, <2>2 DEF Step, OpenUpload, WriteUpload, CloseUpload, TooLarge, TakeLock, StartBuild,
       FinishBuild, BuildFails, CheckIncoming, UnlinkPrev, Retire, Install, Probe, RollBack,
       Restore, FileError, Fail, Go, Done, PointTypes
  <2>3. ~(Recover \/ Crash \/ UNCHANGED vars)
    BY DEF Recover, RemoveIncoming, RestoreMissing, VerifyLive, PutBack, OpenPool, Crash, vars
  <2>4. Probe(r)
    BY <2>2, <2>3 DEF Next, Quiet
  <2> QED BY <2>1, <2>4 DEF Probe, FileInv, FileAt, At, files, names, Go
<1> QED BY <1>1, SwapPoints, SwapFiles, PTL DEF Spec, STypes, SwappedIsVerified

-----------------------------------------------------------------------------
(* Drains end: what is left of ServesAgain when the fairness is taken away.  *)

Locked == Swapping \cup {"build", "copy"}

\* _merge_lock is held by the request that builds or swaps, and by no other.
HolderInv ==
  /\ \A r \in Request : pc[r] \in Locked <=> holder = r
  /\ holder \in Request \cup {None}
  /\ recovery # "done" => holder = None

\* Without a refused file operation, the status tells who will serve again.
DrainInv ==
  /\ status \in {"serving", "draining", "starting"}
  /\ faults = 0 => /\ status = "draining" => holder # None
                   /\ status = "starting" => recovery # "done"

\* The lock has one holder, whether or not uploads overlap.
LEMMA LockHasHolder == Spec => [](HolderInv /\ DrainInv)
<1> USE SwapAssumption DEF SwapAssumption, Inode, Locked, Swapping
<1>1. Init => HolderInv /\ DrainInv
  BY DEF Init, HolderInv, DrainInv
<1>2. PointTypes /\ HolderInv /\ DrainInv /\ [Next]_vars => (HolderInv /\ DrainInv)'
  <2> SUFFICES ASSUME PointTypes, HolderInv, DrainInv, [Next]_vars PROVE (HolderInv /\ DrainInv)'
    OBVIOUS
  <2> USE DEF PointTypes, HolderInv, DrainInv, At, Go, Done, budget
  <2>1. ASSUME NEW r \in Request, OpenUpload(r) PROVE (HolderInv /\ DrainInv)'
    BY <2>1 DEF OpenUpload, MayStart, Up
  <2>2. ASSUME NEW r \in Request, WriteUpload(r) PROVE (HolderInv /\ DrainInv)'
    BY <2>2 DEF WriteUpload, Up
  <2>3. ASSUME NEW r \in Request, CloseUpload(r) PROVE (HolderInv /\ DrainInv)'
    BY <2>3 DEF CloseUpload, Up
  <2>4. ASSUME NEW r \in Request, TooLarge(r) PROVE (HolderInv /\ DrainInv)'
    BY <2>4 DEF TooLarge, Up
  <2>5. ASSUME NEW r \in Request, TakeLock(r) PROVE (HolderInv /\ DrainInv)'
    BY <2>5 DEF TakeLock, MayStart, Up
  <2>6. ASSUME NEW r \in Request, StartBuild(r) PROVE (HolderInv /\ DrainInv)'
    BY <2>6 DEF StartBuild, Up
  <2>7. ASSUME NEW r \in Request, FinishBuild(r) PROVE (HolderInv /\ DrainInv)'
    BY <2>7 DEF FinishBuild, Up
  <2>8. ASSUME NEW r \in Request, BuildFails(r) PROVE (HolderInv /\ DrainInv)'
    BY <2>8 DEF BuildFails, Fail, Status, Up
  <2>9. ASSUME NEW r \in Request, CheckIncoming(r) PROVE (HolderInv /\ DrainInv)'
    BY <2>9 DEF CheckIncoming, Fail, Status
  <2>10. ASSUME NEW r \in Request, UnlinkPrev(r) PROVE (HolderInv /\ DrainInv)'
    BY <2>10 DEF UnlinkPrev
  <2>11. ASSUME NEW r \in Request, Retire(r) PROVE (HolderInv /\ DrainInv)'
    BY <2>11 DEF Retire
  <2>12. ASSUME NEW r \in Request, Install(r) PROVE (HolderInv /\ DrainInv)'
    BY <2>12 DEF Install
  <2>13. ASSUME NEW r \in Request, Probe(r) PROVE (HolderInv /\ DrainInv)'
    BY <2>13 DEF Probe
  <2>14. ASSUME NEW r \in Request, RollBack(r) PROVE (HolderInv /\ DrainInv)'
    BY <2>14 DEF RollBack
  <2>15. ASSUME NEW r \in Request, Restore(r) PROVE (HolderInv /\ DrainInv)'
    BY <2>15 DEF Restore, Fail, Status
  <2>16. ASSUME NEW r \in Request, FileError(r) PROVE (HolderInv /\ DrainInv)'
    <3>1. faults' # 0
      <4>1. faults \in Nat /\ faults' = faults + 1
        BY <2>16 DEF FileError
      <4> HIDE DEF PointTypes, HolderInv, DrainInv
      <4> QED BY <4>1
    <3>2. holder = r /\ holder' = None /\ pc' = [pc EXCEPT ![r] = "done"] /\ recovery' = recovery
      BY <2>16 DEF FileError, Fail
    <3>3. HolderInv'
      BY <3>2
    <3>4. status' \in {"serving", "draining", "starting"}
      BY <2>16 DEF FileError, Fail, Status
    <3> QED BY <3>1, <3>3, <3>4
  <2>17. ASSUME RemoveIncoming PROVE (HolderInv /\ DrainInv)'
    BY <2>17 DEF RemoveIncoming
  <2>18. ASSUME RestoreMissing PROVE (HolderInv /\ DrainInv)'
    BY <2>18 DEF RestoreMissing
  <2>19. ASSUME VerifyLive PROVE (HolderInv /\ DrainInv)'
    BY <2>19 DEF VerifyLive
  <2>20. ASSUME PutBack PROVE (HolderInv /\ DrainInv)'
    BY <2>20 DEF PutBack
  <2>21. ASSUME OpenPool PROVE (HolderInv /\ DrainInv)'
    BY <2>21 DEF OpenPool
  <2>22. ASSUME Crash PROVE (HolderInv /\ DrainInv)'
    BY <2>22 DEF Crash
  <2>23. CASE UNCHANGED vars
    BY <2>23 DEF vars
  <2> HIDE DEF PointTypes, HolderInv, DrainInv, At, Go, Done, budget
  <2> QED BY <2>1, <2>2, <2>3, <2>4, <2>5, <2>6, <2>7, <2>8, <2>9, <2>10, <2>11, <2>12, <2>13, <2>14, <2>15, <2>16, <2>17, <2>18, <2>19, <2>20, <2>21, <2>22, <2>23 DEF Next, Step, Recover, Quiet
<1> QED BY <1>1, <1>2, SwapPoints, PTL DEF Spec

\* Whoever is to reopen the pool waits for nobody: a recovery has no guard but
\* its own place, a swap does not await, and a build has the event loop.
SomeoneReopens ==
  faults = 0 /\ status # "serving" =>
    \/ recovery # "done"
    \/ holder \in Request /\ pc[holder] \in Locked /\ (pc[holder] \in {"build", "copy"} => Up)

\* No drain is left behind: until the file system refuses an operation, a
\* service that does not serve has a recovery or a swap that can go on.
THEOREM DrainGoesOn == Spec => []SomeoneReopens
<1>1. PointTypes /\ HolderInv /\ DrainInv => SomeoneReopens
  BY SwapAssumption DEF PointTypes, HolderInv, DrainInv, SomeoneReopens, Up, Locked, Swapping,
     SwapAssumption, Inode
<1> QED BY <1>1, SwapPoints, LockHasHolder, PTL

\* How many steps a recovery, or the holder of the lock, is from serving again.
RecoverySteps == [p \in {"clean", "restore", "verify", "put back", "open"} |->
  CASE p = "clean" -> 5 [] p = "restore" -> 4 [] p = "verify" -> 3 [] p = "put back" -> 2
    [] p = "open" -> 1]

SwapSteps == [p \in Locked |->
  CASE p = "build" -> 9 [] p = "copy" -> 8 [] p = "check" -> 7 [] p = "unlink" -> 6
    [] p = "retire" -> 5 [] p = "install" -> 4 [] p = "probe" -> 3 [] p = "rollback" -> 2
    [] p = "restore" -> 1]

StepsLeft == IF recovery # "done" THEN RecoverySteps[recovery] ELSE SwapSteps[pc[holder]]

LEMMA StepCounts ==
  /\ RecoverySteps["clean"] = 5 /\ RecoverySteps["restore"] = 4 /\ RecoverySteps["verify"] = 3
  /\ RecoverySteps["put back"] = 2 /\ RecoverySteps["open"] = 1
  /\ SwapSteps["build"] = 9 /\ SwapSteps["copy"] = 8 /\ SwapSteps["check"] = 7
  /\ SwapSteps["unlink"] = 6 /\ SwapSteps["retire"] = 5 /\ SwapSteps["install"] = 4
  /\ SwapSteps["probe"] = 3 /\ SwapSteps["rollback"] = 2 /\ SwapSteps["restore"] = 1
BY DEF RecoverySteps, SwapSteps, Locked, Swapping

\* Nearer to serving, or an upload that goes on beside a build.
Nearer ==
  \/ status' = "serving"
  \/ StepsLeft' < StepsLeft
  \/ StepsLeft' = StepsLeft /\ \E r \in Request : r # holder /\ Step(r)

LEMMA StepIsNearer ==
  ASSUME PointTypes, HolderInv, DrainInv, faults = 0, status # "serving", NEW r \in Request, Step(r)
  PROVE  Nearer
<1>1. CASE holder # r
  <2>1. pc[r] \notin Locked /\ holder # None /\ recovery = "done"
    BY <1>1 DEF HolderInv, DrainInv, Step, OpenUpload, WriteUpload, CloseUpload, TooLarge, TakeLock,
       StartBuild, FinishBuild, BuildFails, CheckIncoming, UnlinkPrev, Retire, Install, Probe,
       RollBack, Restore, Up, MayStart, At, Locked, Swapping
  <2>2. holder \in Request /\ pc'[holder] = pc[holder] /\ holder' = holder /\ recovery' = recovery
    BY <1>1, <2>1 DEF PointTypes, HolderInv, Step, OpenUpload, WriteUpload, CloseUpload, TooLarge,
       TakeLock, StartBuild, FinishBuild, BuildFails, CheckIncoming, UnlinkPrev, Retire, Install,
       Probe, RollBack, Restore, At, Go, Done, Locked, Swapping
  <2>3. StepsLeft' = StepsLeft
    BY <2>1, <2>2 DEF StepsLeft
  <2> QED BY <1>1, <2>3 DEF Nearer
<1>2. CASE holder = r
  <2>1. pc[r] \in Locked /\ recovery = "done"
    BY <1>2, SwapAssumption DEF HolderInv, SwapAssumption, Inode
  <2>2. \/ status' = "serving"
        \/ /\ holder' = holder /\ recovery' = recovery
           /\ \/ pc[r] = "build" /\ pc'[r] = "copy"
              \/ pc[r] = "copy" /\ pc'[r] = "check"
              \/ pc[r] = "check" /\ pc'[r] = "unlink"
              \/ pc[r] = "unlink" /\ pc'[r] = "retire"
              \/ pc[r] = "retire" /\ pc'[r] = "install"
              \/ pc[r] = "install" /\ pc'[r] = "probe"
              \/ pc[r] = "probe" /\ pc'[r] = "rollback"
              \/ pc[r] = "rollback" /\ pc'[r] = "restore"
    BY <1>2, <2>1, SwapAssumption DEF PointTypes, Step, OpenUpload, WriteUpload, CloseUpload,
       TooLarge, TakeLock, StartBuild, FinishBuild, BuildFails, CheckIncoming, UnlinkPrev, Retire,
       Install, Probe, RollBack, Restore, Fail, Status, MayStart, At, Go, Done, Locked, Swapping,
       SwapAssumption, Inode
  <2>3. status' = "serving" \/ SwapSteps[pc'[r]] < SwapSteps[pc[r]]
    <3>1. CASE pc[r] = "build" /\ pc'[r] = "copy"
      <4>1. SwapSteps[pc[r]] = 9 /\ SwapSteps[pc'[r]] = 8
        BY <3>1, StepCounts
      <4> QED BY <4>1
    <3>2. CASE pc[r] = "copy" /\ pc'[r] = "check"
      <4>1. SwapSteps[pc[r]] = 8 /\ SwapSteps[pc'[r]] = 7
        BY <3>2, StepCounts
      <4> QED BY <4>1
    <3>3. CASE pc[r] = "check" /\ pc'[r] = "unlink"
      <4>1. SwapSteps[pc[r]] = 7 /\ SwapSteps[pc'[r]] = 6
        BY <3>3, StepCounts
      <4> QED BY <4>1
    <3>4. CASE pc[r] = "unlink" /\ pc'[r] = "retire"
      <4>1. SwapSteps[pc[r]] = 6 /\ SwapSteps[pc'[r]] = 5
        BY <3>4, StepCounts
      <4> QED BY <4>1
    <3>5. CASE pc[r] = "retire" /\ pc'[r] = "install"
      <4>1. SwapSteps[pc[r]] = 5 /\ SwapSteps[pc'[r]] = 4
        BY <3>5, StepCounts
      <4> QED BY <4>1
    <3>6. CASE pc[r] = "install" /\ pc'[r] = "probe"
      <4>1. SwapSteps[pc[r]] = 4 /\ SwapSteps[pc'[r]] = 3
        BY <3>6, StepCounts
      <4> QED BY <4>1
    <3>7. CASE pc[r] = "probe" /\ pc'[r] = "rollback"
      <4>1. SwapSteps[pc[r]] = 3 /\ SwapSteps[pc'[r]] = 2
        BY <3>7, StepCounts
      <4> QED BY <4>1
    <3>8. CASE pc[r] = "rollback" /\ pc'[r] = "restore"
      <4>1. SwapSteps[pc[r]] = 2 /\ SwapSteps[pc'[r]] = 1
        BY <3>8, StepCounts
      <4> QED BY <4>1
    <3> QED BY <2>2, <3>1, <3>2, <3>3, <3>4, <3>5, <3>6, <3>7, <3>8
  <2> QED BY <1>2, <2>1, <2>2, <2>3 DEF Nearer, StepsLeft
<1> QED BY <1>1, <1>2

\* Every drain and every startup comes nearer to its end with each step, at
\* most nine of its own, but for a crash or a refused operation: a swap is never
\* sent back, a recovery never repeats itself (atomic_swap, startup_recovery).
THEOREM DrainNearsItsEnd ==
  Spec => [][status # "serving" /\ faults' = 0 /\ ~Crash => Nearer]_vars
<1>1. PointTypes /\ HolderInv /\ DrainInv /\ [Next]_vars
        => [status # "serving" /\ faults' = 0 /\ ~Crash => Nearer]_vars
  <2> SUFFICES ASSUME PointTypes, HolderInv, DrainInv, Next, ~UNCHANGED vars, status # "serving",
                      faults' = 0, ~Crash
               PROVE  Nearer
    OBVIOUS
  <2>1. ASSUME NEW r \in Request, FileError(r) PROVE FALSE
    <3>1. faults \in Nat /\ faults' = faults + 1
      BY <2>1 DEF FileError, PointTypes
    <3> QED BY <3>1
  <2>2. ASSUME NEW r \in Request, Step(r) PROVE Nearer
    <3>1. faults' = faults
      BY <2>2 DEF Step, OpenUpload, WriteUpload, CloseUpload, TooLarge, TakeLock, StartBuild,
         FinishBuild, BuildFails, CheckIncoming, UnlinkPrev, Retire, Install, Probe, RollBack,
         Restore, budget
    <3> QED BY <2>2, <3>1, StepIsNearer
  <2>3. ASSUME Recover PROVE Nearer
    <3>1. \/ status' = "serving"
          \/ recovery = "clean" /\ recovery' = "restore"
          \/ recovery = "restore" /\ recovery' = "verify"
          \/ recovery = "verify" /\ recovery' \in {"put back", "open"}
          \/ recovery = "put back" /\ recovery' = "open"
      BY <2>3 DEF Recover, RemoveIncoming, RestoreMissing, VerifyLive, PutBack, OpenPool
    <3>2. CASE recovery = "clean" /\ recovery' = "restore"
      <4>1. StepsLeft = 5 /\ StepsLeft' = 4
        BY <3>2, StepCounts DEF StepsLeft
      <4> QED BY <4>1 DEF Nearer
    <3>3. CASE recovery = "restore" /\ recovery' = "verify"
      <4>1. StepsLeft = 4 /\ StepsLeft' = 3
        BY <3>3, StepCounts DEF StepsLeft
      <4> QED BY <4>1 DEF Nearer
    <3>4. CASE recovery = "verify" /\ recovery' \in {"put back", "open"}
      <4>1. StepsLeft = 3 /\ StepsLeft' \in {2, 1}
        BY <3>4, StepCounts DEF StepsLeft
      <4> QED BY <4>1 DEF Nearer
    <3>5. CASE recovery = "put back" /\ recovery' = "open"
      <4>1. StepsLeft = 2 /\ StepsLeft' = 1
        BY <3>5, StepCounts DEF StepsLeft
      <4> QED BY <4>1 DEF Nearer
    <3> QED BY <3>1, <3>2, <3>3, <3>4, <3>5 DEF Nearer
  <2> QED BY <2>1, <2>2, <2>3 DEF Next, Quiet
<1> QED BY <1>1, SwapPoints, LockHasHolder, PTL DEF Spec

=============================================================================
