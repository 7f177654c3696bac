-------------------------- MODULE ServerGateProofs --------------------------
(***************************************************************************)
(* Proofs for ServerGate, for any number of requests, slots, connections    *)
(* and permits.                                                            *)
(*                                                                         *)
(* Every counter is tied to the tasks it counts, and every lock to the      *)
(* points between its acquire and its release; what excludes what follows.  *)
(***************************************************************************)
EXTENDS ServerGate, FiniteSetTheorems, TLAPS

Actor == Task \cup {Watchdog}

\* The points a task of each kind can be at.
Role(t) ==
  /\ t \in Query => pc[t] \in {"new", "polling", "queued", "slotted", "blocking", "running", "done"}
  /\ t \in Nfl => pc[t] \in {"new", "polling", "polled", "queued", "slotted", "running", "ran",
                           "done"}
  /\ t \in Meta => pc[t] \in {"new", "running", "ran", "done"}
  /\ t \in OpsWriter => pc[t] \in {"new", "locking", "writing", "done"}
  /\ t \in Writer => pc[t] \in {"new", "locking", "draining", "writing", "written", "refilled",
                              "done"}
  /\ t \in Publish => pc[t] \in {"new", "uploading", "admitting", "admitted", "merging", "merged",
                               "done"}
  /\ t = Watchdog => pc[t] \in {"asleep", "waking", "asking", "taken", "probing", "returning",
                             "sound", "broken", "checkpointing", "ck taken", "connected",
                             "ck returning", "ckdone", "ckfailed", "done"}

PointsInv == /\ DOMAIN pc = Actor /\ pc = [t \in Actor |-> pc[t]]
             /\ \A t \in Actor : Role(t)

\* Who a counter counts, and where a lock is held.
HasSlot(t) == t \in Query \cup Nfl /\ pc[t] \in {"slotted", "blocking", "running", "ran"}
IsOut(t) == \/ t \in Query /\ pc[t] = "running"
            \/ t = Watchdog /\ pc[t] \in {"probing", "connected"}
IsAway(t) == t = Watchdog /\ pc[t] \in {"taken", "ck taken", "returning", "ck returning"}
HasConnection(t) == IsOut(t) \/ IsAway(t)
Reads(t) == t \in Meta /\ pc[t] \in {"running", "ran"}
Checkpoints(t) ==
  t = Watchdog /\ pc[t] \in {"checkpointing", "ck taken", "connected", "ck returning"}
HoldsMerge(t) == \/ t \in Writer /\ pc[t] \in {"draining", "writing", "written", "refilled"}
                 \/ t \in Publish /\ pc[t] \in {"merging", "merged"}
                 \/ Checkpoints(t)
                 \/ t = Watchdog /\ pc[t] \in {"ckdone", "ckfailed"}
WritesOps(t) == t \in OpsWriter /\ pc[t] = "writing"

\* The locks and the threads, by the points.
LocksInv ==
  /\ \A t \in Actor : merge = t <=> HoldsMerge(t)
  /\ \A t \in Actor : opsLock = t <=> WritesOps(t) \/ (t \in Nfl \cup Meta /\ t \in exec)
  /\ \A t \in Actor \ Query :
       /\ t \in exec => \/ t \in Nfl \cup Meta /\ pc[t] = "running"
                        \/ WritesOps(t) \/ Checkpoints(t)
                        \/ t \in Writer /\ pc[t] = "writing"
                        \/ t \in Publish /\ pc[t] = "merging"
  /\ exec \subseteq Actor

\* The numbers are numbers.
NumbersInv ==
  /\ slots \in Int /\ idle \in Nat /\ active \in Int /\ drift \in Nat
  /\ reads \in Int

Reading == {m \in Meta : Reads(m)}

\* Every counter counts.
CountInv ==
  /\ slots + Cardinality(Slotted) = Slots
  /\ drift = 0 => active = Cardinality(Out)
  /\ reads = Cardinality(Reading)

\* _ops_write_count, and the statuses that depend on it.
OpsInv ==
  /\ status \in Status /\ saved \in Status \ {"ops_writing"}
  /\ writes = IF \E t \in Actor : WritesOps(t) THEN 1 ELSE 0
  /\ status = "ops_writing" => writes > 0

\* While a checkpoint runs its status stands, and no metadata read starts.
CheckInv == Checkpoints(Watchdog) => status = "checkpointing" /\ reads = 0

\* A writer that drained finds nobody in the pool and nothing to take from it.
Connections == Out \cup Uncounted

DrainInv ==
  \A w \in Writer :
    pc[w] = "writing" /\ ~gaveUp /\ drift = 0 => Connections = {} /\ idle = 0

\* The pool is whole, wherever the status may come from.
Whole == idle + Cardinality(Connections) >= PoolSize

\* From where the checkpoint is admitted to where its status is put back.
InCheck ==
  pc[Watchdog] \in {"checkpointing", "ck taken", "connected", "ck returning", "ckdone"}

PoolInv ==
  /\ status \in {"serving", "ops_writing"} => Whole
  /\ \A w \in Writer : pc[w] = "refilled" => Whole
  /\ InCheck /\ saved = "serving" => Whole

-----------------------------------------------------------------------------
\* A task has one kind, and the watchdog is none.
LEMMA Kinds ==
  ASSUME NEW t \in Actor
  PROVE  /\ t \in Query => t \notin Nfl \cup Meta \cup OpsWriter \cup Writer \cup Publish
         /\ t \in Nfl => t \notin Meta \cup OpsWriter \cup Writer \cup Publish
         /\ t \in Meta => t \notin OpsWriter \cup Writer \cup Publish
         /\ t \in OpsWriter => t \notin Writer \cup Publish
         /\ t \in Writer => t \notin Publish
         /\ t = Watchdog => t \notin Query \cup Nfl \cup Meta \cup OpsWriter \cup Writer \cup Publish
         /\ t # None
         /\ t \in Asks \cup Bare => t \in Writer
         /\ t # Watchdog =>
              t \in Query \cup Nfl \cup Meta \cup OpsWriter \cup Writer \cup Publish
BY GateAssumption DEF GateAssumption, Actor, Task, Reader

\* What a step does to the points: it moves one actor.
Walks(t) == /\ \A u \in Actor : u # t => pc'[u] = pc[u]
            /\ DOMAIN pc' = Actor /\ pc' = [u \in Actor |-> pc'[u]]
            /\ Role(t)'

\* Every step moves its actor to a point of its kind.
LEMMA StepWalks ==
  ASSUME PointsInv,
         NEW t \in Actor,
         ReadStep(t) \/ WriteStep(t) \/ (t = Watchdog /\ DogStep)
  PROVE  Walks(t)
<1>0. DOMAIN pc = Actor /\ pc = [u \in Actor |-> pc[u]] /\ Role(t)
  BY DEF PointsInv
<1> USE Kinds, <1>0 DEF Walks, Role, At, Go
<1>1. ASSUME Arrive(t) PROVE Walks(t)
  BY <1>1 DEF Arrive
<1>2. ASSUME Polled(t) PROVE Walks(t)
  BY <1>2 DEF Polled
<1>3. ASSUME TakeSlot(t) PROVE Walks(t)
  BY <1>3 DEF TakeSlot
<1>4. ASSUME SlotTimeout(t) PROVE Walks(t)
  BY <1>4 DEF SlotTimeout
<1>5. ASSUME Connect(t) PROVE Walks(t)
  BY <1>5 DEF Connect, Connected
<1>6. ASSUME Unblock(t) PROVE Walks(t)
  BY <1>6 DEF Unblock
<1>7. ASSUME BlockTimeout(t) PROVE Walks(t)
  BY <1>7 DEF BlockTimeout
<1>8. ASSUME QueryThreadEnds(t) PROVE Walks(t)
  BY <1>8 DEF QueryThreadEnds
<1>9. ASSUME FinishQuery(t) PROVE Walks(t)
  BY <1>9 DEF FinishQuery
<1>10. ASSUME StartNfl(t) PROVE Walks(t)
  BY <1>10 DEF StartNfl
<1>11. ASSUME ArriveMeta(t) PROVE Walks(t)
  BY <1>11 DEF ArriveMeta
<1>12. ASSUME OpsReadLocked(t) PROVE Walks(t)
  BY <1>12 DEF OpsReadLocked
<1>13. ASSUME OpsReadEnds(t) PROVE Walks(t)
  BY <1>13 DEF OpsReadEnds
<1>14. ASSUME FinishOpsRead(t) PROVE Walks(t)
  BY <1>14 DEF FinishOpsRead
<1>15. ASSUME TurnAway(t) PROVE Walks(t)
  BY <1>15 DEF TurnAway
<1>16. ASSUME ArriveWrite(t) PROVE Walks(t)
  BY <1>16 DEF ArriveWrite
<1>17. ASSUME OpsWriteBegins(t) PROVE Walks(t)
  BY <1>17 DEF OpsWriteBegins
<1>18. ASSUME OpsWriteGivesUp(t) PROVE Walks(t)
  BY <1>18 DEF OpsWriteGivesUp
<1>19. ASSUME OpsWriteEnds(t) PROVE Walks(t)
  BY <1>19 DEF OpsWriteEnds
<1>20. ASSUME BeginDrain(t) PROVE Walks(t)
  BY <1>20 DEF BeginDrain, ClosePool
<1>21. ASSUME EndDrain(t) PROVE Walks(t)
  BY <1>21 DEF EndDrain, ClosePool
<1>22. ASSUME WriteEnds(t) PROVE Walks(t)
  BY <1>22 DEF WriteEnds
<1>23. ASSUME Reopen(t) PROVE Walks(t)
  BY <1>23 DEF Reopen
<1>24. ASSUME Settle(t) PROVE Walks(t)
  BY <1>24 DEF Settle
<1>25. ASSUME ReopenFails(t) PROVE Walks(t)
  BY <1>25 DEF ReopenFails
<1>26. ASSUME RefusePublish(t) PROVE Walks(t)
  BY <1>26 DEF RefusePublish
<1>27. ASSUME AskPermit(t) PROVE Walks(t)
  BY <1>27 DEF AskPermit
<1>28. ASSUME AdmitPublish(t) PROVE Walks(t)
  BY <1>28 DEF AdmitPublish
<1>29. ASSUME Merge(t) PROVE Walks(t)
  BY <1>29 DEF Merge
<1>30. ASSUME MergeDeadline(t) PROVE Walks(t)
  BY <1>30 DEF MergeDeadline
<1>31. ASSUME MergeEnds(t) PROVE Walks(t)
  BY <1>31 DEF MergeEnds
<1>32. ASSUME FinishPublish(t) PROVE Walks(t)
  BY <1>32 DEF FinishPublish
<1>33. ASSUME t = Watchdog, Wake PROVE Walks(t)
  BY <1>33 DEF Wake
<1>34. ASSUME t = Watchdog, Probe PROVE Walks(t)
  BY <1>34 DEF Probe
<1>35. ASSUME t = Watchdog, DogConnects PROVE Walks(t)
  BY <1>35 DEF DogConnects
<1>36. ASSUME t = Watchdog, DogFindsNone PROVE Walks(t)
  BY <1>36 DEF DogFindsNone
<1>37. ASSUME t = Watchdog, DogReleases PROVE Walks(t)
  BY <1>37 DEF DogReleases
<1>38. ASSUME t = Watchdog, OpsCheckpointEnds PROVE Walks(t)
  BY <1>38 DEF OpsCheckpointEnds
<1>39. ASSUME t = Watchdog, Sound PROVE Walks(t)
  BY <1>39 DEF Sound
<1>40. ASSUME t = Watchdog, CheckpointSettles PROVE Walks(t)
  BY <1>40 DEF CheckpointSettles
<1>41. ASSUME t = Watchdog, Broken PROVE Walks(t)
  BY <1>41 DEF Broken
<1>42. ASSUME Recheck(t) PROVE Walks(t)
  BY <1>42 DEF Recheck
<1>43. ASSUME t = Watchdog, DogTakes PROVE Walks(t)
  BY <1>43 DEF DogTakes
<1>44. ASSUME t = Watchdog, DogReturns PROVE Walks(t)
  <2> HIDE DEF Role, Walks
  <2>1. pc'[t] \in {"sound", "broken", "ckdone", "ckfailed"}
    BY <1>44 DEF DogReturns
  <2>2. DOMAIN pc' = Actor /\ pc' = [u \in Actor |-> pc'[u]]
    BY <1>44 DEF DogReturns
  <2>3. \A u \in Actor : u # t => pc'[u] = pc[u]
    BY <1>44 DEF DogReturns
  <2> QED BY <1>44, <2>1, <2>2, <2>3 DEF Role, Walks
<1> HIDE DEF Walks
<1> QED BY <1>1, <1>2, <1>3, <1>4, <1>5, <1>6, <1>7, <1>8, <1>9, <1>10, <1>11, <1>12,
  <1>13, <1>14, <1>15, <1>16, <1>17, <1>18, <1>19, <1>20, <1>21, <1>22, <1>23, <1>24,
  <1>25, <1>26, <1>27, <1>28, <1>29, <1>30, <1>31, <1>32, <1>33, <1>34, <1>35, <1>36,
  <1>37, <1>38, <1>39, <1>40, <1>41, <1>42, <1>43, <1>44 DEF ReadStep, WriteStep, DogStep

\* Every actor is always at a point of its kind.
LEMMA PointsHeld == Spec => []PointsInv
<1>1. Init => PointsInv
  BY Kinds DEF Init, PointsInv, Role, Actor
<1>2. PointsInv /\ [Next]_vars => PointsInv'
  <2> SUFFICES ASSUME PointsInv, [Next]_vars PROVE PointsInv'
    OBVIOUS
  <2>1. ASSUME NEW t \in Actor, Walks(t) PROVE PointsInv'
    BY <2>1 DEF PointsInv, Walks, Role
  <2>2. CASE UNCHANGED vars
    BY <2>2 DEF vars, PointsInv, Role
  <2>3. Reader \subseteq Actor /\ Task \subseteq Actor /\ Watchdog \in Actor
    BY DEF Actor, Task
  <2> QED BY <2>1, <2>2, <2>3, StepWalks DEF Next
<1> QED BY <1>1, <1>2, PTL DEF Spec

-----------------------------------------------------------------------------
(* The locks.                                                               *)

MergeKept(t) ==
  \/ merge' = merge /\ (HoldsMerge(t)' <=> HoldsMerge(t))
  \/ merge = None /\ merge' = t /\ HoldsMerge(t)'
  \/ merge = t /\ merge' = None /\ ~HoldsMerge(t)'

HoldsOps(t) == WritesOps(t) \/ (t \in Nfl \cup Meta /\ t \in exec)

OpsLockKept(t) ==
  \/ opsLock' = opsLock /\ (HoldsOps(t)' <=> HoldsOps(t))
  \/ opsLock = None /\ opsLock' = t /\ HoldsOps(t)'
  \/ opsLock = t /\ opsLock' = None /\ ~HoldsOps(t)'

ExecKept(t) ==
  /\ exec' = exec \/ exec' = exec \cup {t} \/ exec' = exec \ {t}
  /\ t \in exec' => \/ t \in Query
                    \/ t \in Nfl \cup Meta /\ pc'[t] = "running"
                    \/ WritesOps(t)' \/ Checkpoints(t)'
                    \/ t \in Writer /\ pc'[t] = "writing"
                    \/ t \in Publish /\ pc'[t] = "merging"

LocksKept(t) == MergeKept(t) /\ OpsLockKept(t) /\ ExecKept(t)

\* A step takes a free lock, gives back its own, or leaves it.
LEMMA StepKeepsLocks ==
  ASSUME PointsInv, LocksInv,
         NEW t \in Actor,
         ReadStep(t) \/ WriteStep(t) \/ (t = Watchdog /\ DogStep)
  PROVE  LocksKept(t)
<1>0. /\ DOMAIN pc = Actor /\ pc = [u \in Actor |-> pc[u]] /\ Role(t)
      /\ merge = t <=> HoldsMerge(t)
      /\ opsLock = t <=> HoldsOps(t)
      /\ t \in exec \ Query =>
                        \/ t \in Nfl \cup Meta /\ pc[t] = "running"
                        \/ WritesOps(t) \/ Checkpoints(t)
                        \/ t \in Writer /\ pc[t] = "writing"
                        \/ t \in Publish /\ pc[t] = "merging"
  <2>1. DOMAIN pc = Actor /\ pc = [u \in Actor |-> pc[u]] /\ Role(t)
    BY DEF PointsInv
  <2>2. (merge = t <=> HoldsMerge(t)) /\ (opsLock = t <=> HoldsOps(t))
    BY DEF LocksInv, HoldsOps
  <2>3. t \in exec \ Query =>
                        \/ t \in Nfl \cup Meta /\ pc[t] = "running"
                        \/ WritesOps(t) \/ Checkpoints(t)
                        \/ t \in Writer /\ pc[t] = "writing"
                        \/ t \in Publish /\ pc[t] = "merging"
    BY DEF LocksInv
  <2> QED BY <2>1, <2>2, <2>3
<1> USE Kinds, <1>0 DEF LocksKept, MergeKept, OpsLockKept, HoldsOps, ExecKept, HoldsMerge, WritesOps, Checkpoints, Role,
        At, Go, held
<1>1. ASSUME Arrive(t) PROVE LocksKept(t)
  BY <1>1 DEF Arrive
<1>2. ASSUME Polled(t) PROVE LocksKept(t)
  BY <1>2 DEF Polled
<1>3. ASSUME TakeSlot(t) PROVE LocksKept(t)
  BY <1>3 DEF TakeSlot
<1>4. ASSUME SlotTimeout(t) PROVE LocksKept(t)
  BY <1>4 DEF SlotTimeout
<1>5. ASSUME Connect(t) PROVE LocksKept(t)
  BY <1>5 DEF Connect
<1>6. ASSUME Unblock(t) PROVE LocksKept(t)
  BY <1>6 DEF Unblock
<1>7. ASSUME BlockTimeout(t) PROVE LocksKept(t)
  BY <1>7 DEF BlockTimeout
<1>8. ASSUME QueryThreadEnds(t) PROVE LocksKept(t)
  BY <1>8 DEF QueryThreadEnds
<1>9. ASSUME FinishQuery(t) PROVE LocksKept(t)
  BY <1>9 DEF FinishQuery
<1>10. ASSUME StartNfl(t) PROVE LocksKept(t)
  BY <1>10 DEF StartNfl
<1>11. ASSUME ArriveMeta(t) PROVE LocksKept(t)
  BY <1>11 DEF ArriveMeta
<1>12. ASSUME OpsReadLocked(t) PROVE LocksKept(t)
  BY <1>12 DEF OpsReadLocked
<1>13. ASSUME OpsReadEnds(t) PROVE LocksKept(t)
  BY <1>13 DEF OpsReadEnds
<1>14. ASSUME FinishOpsRead(t) PROVE LocksKept(t)
  BY <1>14 DEF FinishOpsRead
<1>15. ASSUME TurnAway(t) PROVE LocksKept(t)
  BY <1>15 DEF TurnAway
<1>16. ASSUME ArriveWrite(t) PROVE LocksKept(t)
  BY <1>16 DEF ArriveWrite
<1>17. ASSUME OpsWriteBegins(t) PROVE LocksKept(t)
  BY <1>17 DEF OpsWriteBegins
<1>18. ASSUME OpsWriteGivesUp(t) PROVE LocksKept(t)
  BY <1>18 DEF OpsWriteGivesUp
<1>19. ASSUME OpsWriteEnds(t) PROVE LocksKept(t)
  BY <1>19 DEF OpsWriteEnds
<1>20. ASSUME BeginDrain(t) PROVE LocksKept(t)
  BY <1>20 DEF BeginDrain, ClosePool
<1>21. ASSUME EndDrain(t) PROVE LocksKept(t)
  BY <1>21 DEF EndDrain, ClosePool
<1>22. ASSUME WriteEnds(t) PROVE LocksKept(t)
  BY <1>22 DEF WriteEnds
<1>23. ASSUME Reopen(t) PROVE LocksKept(t)
  BY <1>23 DEF Reopen
<1>24. ASSUME Settle(t) PROVE LocksKept(t)
  BY <1>24 DEF Settle
<1>25. ASSUME ReopenFails(t) PROVE LocksKept(t)
  BY <1>25 DEF ReopenFails
<1>26. ASSUME RefusePublish(t) PROVE LocksKept(t)
  BY <1>26 DEF RefusePublish
<1>27. ASSUME AskPermit(t) PROVE LocksKept(t)
  BY <1>27 DEF AskPermit
<1>28. ASSUME AdmitPublish(t) PROVE LocksKept(t)
  BY <1>28 DEF AdmitPublish
<1>29. ASSUME Merge(t) PROVE LocksKept(t)
  BY <1>29 DEF Merge
<1>30. ASSUME MergeDeadline(t) PROVE LocksKept(t)
  BY <1>30 DEF MergeDeadline
<1>31. ASSUME MergeEnds(t) PROVE LocksKept(t)
  BY <1>31 DEF MergeEnds
<1>32. ASSUME FinishPublish(t) PROVE LocksKept(t)
  BY <1>32 DEF FinishPublish
<1>33. ASSUME t = Watchdog, Wake PROVE LocksKept(t)
  BY <1>33 DEF Wake
<1>34. ASSUME t = Watchdog, Probe PROVE LocksKept(t)
  BY <1>34 DEF Probe
<1>35. ASSUME t = Watchdog, DogConnects PROVE LocksKept(t)
  BY <1>35 DEF DogConnects
<1>36. ASSUME t = Watchdog, DogFindsNone PROVE LocksKept(t)
  BY <1>36 DEF DogFindsNone
<1>37. ASSUME t = Watchdog, DogReleases PROVE LocksKept(t)
  BY <1>37 DEF DogReleases
<1>38. ASSUME t = Watchdog, OpsCheckpointEnds PROVE LocksKept(t)
  BY <1>38 DEF OpsCheckpointEnds
<1>39. ASSUME t = Watchdog, Sound PROVE LocksKept(t)
  BY <1>39 DEF Sound
<1>40. ASSUME t = Watchdog, CheckpointSettles PROVE LocksKept(t)
  BY <1>40 DEF CheckpointSettles
<1>41. ASSUME t = Watchdog, Broken PROVE LocksKept(t)
  BY <1>41 DEF Broken
<1>42. ASSUME Recheck(t) PROVE LocksKept(t)
  BY <1>42 DEF Recheck
<1>43. ASSUME t = Watchdog, DogTakes PROVE LocksKept(t)
  BY <1>43 DEF DogTakes
<1>44. ASSUME t = Watchdog, DogReturns PROVE LocksKept(t)
  BY <1>44 DEF DogReturns
<1> HIDE DEF LocksKept
<1> QED BY <1>1, <1>2, <1>3, <1>4, <1>5, <1>6, <1>7, <1>8, <1>9, <1>10, <1>11, <1>12,
  <1>13, <1>14, <1>15, <1>16, <1>17, <1>18, <1>19, <1>20, <1>21, <1>22, <1>23, <1>24,
  <1>25, <1>26, <1>27, <1>28, <1>29, <1>30, <1>31, <1>32, <1>33, <1>34, <1>35, <1>36,
  <1>37, <1>38, <1>39, <1>40, <1>41, <1>42, <1>43, <1>44 DEF ReadStep, WriteStep, DogStep

\* The locks are held exactly between their acquires and releases.
LEMMA LocksHeld == Spec => []LocksInv
<1>1. Init => LocksInv
  BY Kinds DEF Init, LocksInv, HoldsMerge, WritesOps, Checkpoints, Actor
<1>2. PointsInv /\ LocksInv /\ [Next]_vars => LocksInv'
  <2> SUFFICES ASSUME PointsInv, LocksInv, [Next]_vars PROVE LocksInv'
    OBVIOUS
  <2>1. ASSUME NEW t \in Actor, Walks(t), LocksKept(t) PROVE LocksInv'
    <3>1. ASSUME NEW u \in Actor, u # t
          PROVE  /\ HoldsMerge(u)' <=> HoldsMerge(u)
                 /\ WritesOps(u)' <=> WritesOps(u)
                 /\ Checkpoints(u)' <=> Checkpoints(u)
                 /\ u \in exec' <=> u \in exec
      BY <2>1, <3>1 DEF Walks, LocksKept, ExecKept, HoldsMerge, WritesOps, Checkpoints
    <3>2. ASSUME NEW u \in Actor PROVE merge' = u <=> HoldsMerge(u)'
      BY <2>1, <3>1, Kinds DEF LocksInv, LocksKept, MergeKept
    <3>3. ASSUME NEW u \in Actor PROVE opsLock' = u <=> HoldsOps(u)'
      BY <2>1, <3>1, Kinds DEF LocksInv, LocksKept, OpsLockKept, HoldsOps
    <3>4. ASSUME NEW u \in Actor \ Query, u \in exec'
          PROVE  \/ u \in Nfl \cup Meta /\ pc'[u] = "running"
                 \/ WritesOps(u)' \/ Checkpoints(u)'
                 \/ u \in Writer /\ pc'[u] = "writing"
                 \/ u \in Publish /\ pc'[u] = "merging"
      <4>1. CASE u = t
        BY <2>1, <3>4, <4>1 DEF LocksKept, ExecKept
      <4>2. CASE u # t
        BY <2>1, <3>1, <3>4, <4>2 DEF LocksInv, Walks
      <4> QED BY <4>1, <4>2
    <3>5. exec' \subseteq Actor
      BY <2>1 DEF LocksInv, LocksKept, ExecKept
    <3> QED BY <3>2, <3>3, <3>4, <3>5 DEF LocksInv, HoldsOps
  <2>2. CASE UNCHANGED vars
    BY <2>2 DEF vars, held, LocksInv, HoldsMerge, WritesOps, Checkpoints
  <2>3. Reader \subseteq Actor /\ Task \subseteq Actor /\ Watchdog \in Actor
    BY DEF Actor, Task
  <2> QED BY <2>1, <2>2, <2>3, StepWalks, StepKeepsLocks DEF Next
<1> QED BY <1>1, <1>2, PointsHeld, PTL DEF Spec

-----------------------------------------------------------------------------
(* The counts.                                                              *)

SlotsKept(t) ==
  \/ slots' = slots /\ (HasSlot(t)' <=> HasSlot(t))
  \/ slots' = slots - 1 /\ ~HasSlot(t) /\ HasSlot(t)'
  \/ slots' = slots + 1 /\ HasSlot(t) /\ ~HasSlot(t)'

ReadsKept(t) ==
  \/ reads' = reads /\ (Reads(t)' <=> Reads(t))
  \/ reads' = reads + 1 /\ ~Reads(t) /\ Reads(t)' /\ status # "checkpointing"
  \/ reads' = reads - 1 /\ Reads(t) /\ ~Reads(t)'

\* A connection is taken out or put back, counted or not yet or no longer, or a
\* writer closes or refills the pool.
PoolKept(t) ==
  \/ /\ idle' = idle /\ active' = active /\ UNCHANGED ghosts
     /\ (IsOut(t)' <=> IsOut(t)) /\ (HasConnection(t)' <=> HasConnection(t))
     /\ t \in Writer => pc'[t] # "refilled" /\ (pc'[t] = "writing" => pc[t] = "writing")
  \/ /\ idle > 0 /\ idle' = idle - 1 /\ UNCHANGED ghosts /\ t \notin Writer
     /\ ~HasConnection(t) /\ HasConnection(t)'
     /\ IF IsOut(t)' THEN active' = active + 1 ELSE active' = active
  \/ /\ idle' = idle + 1 /\ UNCHANGED ghosts /\ t \notin Writer
     /\ HasConnection(t) /\ ~HasConnection(t)'
     /\ IF IsOut(t) THEN active' = active - 1 ELSE active' = active
  \/ /\ idle' = idle /\ UNCHANGED ghosts /\ t \notin Writer
     /\ HasConnection(t) /\ HasConnection(t)'
     /\ \/ active' = active + 1 /\ ~IsOut(t) /\ IsOut(t)'
        \/ active' = active - 1 /\ IsOut(t) /\ ~IsOut(t)'
  \/ /\ idle' = 0 /\ active' = active /\ drift' = drift
     /\ ~gaveUp' => active <= 0 /\ Uncounted = {}
     /\ t \in Writer /\ pc'[t] = "writing" /\ status' \in {"draining", "writing"}
     /\ pc[t] \in {"locking", "draining"} /\ (pc[t] = "locking" => merge = None)
  \/ /\ idle' = idle + PoolSize /\ active' = active /\ UNCHANGED ghosts
     /\ t \in Writer /\ pc[t] = "written" /\ pc'[t] = "refilled"
  \/ /\ idle' >= idle /\ idle' \in Nat /\ active' = active /\ UNCHANGED ghosts
     /\ t \in Writer /\ pc[t] = "written" /\ pc'[t] = "done"
  \/ /\ idle' = idle /\ active' = 0 /\ drift' = Cardinality(Out) /\ gaveUp' = gaveUp
     /\ t \in Writer /\ pc[t] = "refilled" /\ pc'[t] = "done"

CountsKept(t) == SlotsKept(t) /\ ReadsKept(t) /\ PoolKept(t)

\* Every step changes a count with the task it counts.
LEMMA StepKeepsCounts ==
  ASSUME PointsInv, NumbersInv, LocksInv,
         NEW t \in Actor,
         ReadStep(t) \/ WriteStep(t) \/ (t = Watchdog /\ DogStep)
  PROVE  CountsKept(t)
<1>0. /\ DOMAIN pc = Actor /\ pc = [u \in Actor |-> pc[u]] /\ Role(t)
      /\ idle \in Nat /\ PoolSize \in Nat \ {0}
  BY GateAssumption DEF PointsInv, NumbersInv, GateAssumption
<1> USE Kinds, <1>0 DEF CountsKept, SlotsKept, ReadsKept, PoolKept, HasSlot, Reads, IsOut, IsAway,
        HasConnection, Role, At, Go, counts, ghosts
<1>1. ASSUME Arrive(t) PROVE CountsKept(t)
  BY <1>1 DEF Arrive
<1>2. ASSUME Polled(t) PROVE CountsKept(t)
  BY <1>2 DEF Polled
<1>3. ASSUME TakeSlot(t) PROVE CountsKept(t)
  BY <1>3 DEF TakeSlot
<1>4. ASSUME SlotTimeout(t) PROVE CountsKept(t)
  BY <1>4 DEF SlotTimeout
<1>5. ASSUME Connect(t) PROVE CountsKept(t)
  BY <1>5 DEF Connect, Connected
<1>6. ASSUME Unblock(t) PROVE CountsKept(t)
  BY <1>6 DEF Unblock, Connected
<1>7. ASSUME BlockTimeout(t) PROVE CountsKept(t)
  BY <1>7 DEF BlockTimeout
<1>8. ASSUME QueryThreadEnds(t) PROVE CountsKept(t)
  BY <1>8 DEF QueryThreadEnds
<1>9. ASSUME FinishQuery(t) PROVE CountsKept(t)
  BY <1>9 DEF FinishQuery
<1>10. ASSUME StartNfl(t) PROVE CountsKept(t)
  BY <1>10 DEF StartNfl
<1>11. ASSUME ArriveMeta(t) PROVE CountsKept(t)
  BY <1>11 DEF ArriveMeta
<1>12. ASSUME OpsReadLocked(t) PROVE CountsKept(t)
  BY <1>12 DEF OpsReadLocked
<1>13. ASSUME OpsReadEnds(t) PROVE CountsKept(t)
  <2>1. t \in Nfl \cup Meta /\ t \in exec /\ pc'[t] = "ran" /\ t \notin Query \cup Writer
    BY <1>13 DEF OpsReadEnds
  <2>2. pc[t] = "running"
    BY <2>1 DEF LocksInv, WritesOps, Checkpoints
  <2>3. UNCHANGED <<slots, reads, idle, active, ghosts>>
    BY <1>13 DEF OpsReadEnds
  <2> QED BY <2>1, <2>2, <2>3
<1>14. ASSUME FinishOpsRead(t) PROVE CountsKept(t)
  BY <1>14 DEF FinishOpsRead
<1>15. ASSUME TurnAway(t) PROVE CountsKept(t)
  BY <1>15 DEF TurnAway
<1>16. ASSUME ArriveWrite(t) PROVE CountsKept(t)
  BY <1>16 DEF ArriveWrite
<1>17. ASSUME OpsWriteBegins(t) PROVE CountsKept(t)
  BY <1>17 DEF OpsWriteBegins
<1>18. ASSUME OpsWriteGivesUp(t) PROVE CountsKept(t)
  BY <1>18 DEF OpsWriteGivesUp
<1>19. ASSUME OpsWriteEnds(t) PROVE CountsKept(t)
  BY <1>19 DEF OpsWriteEnds
<1>20. ASSUME BeginDrain(t) PROVE CountsKept(t)
  BY <1>20 DEF BeginDrain, ClosePool, Drained
<1>21. ASSUME EndDrain(t) PROVE CountsKept(t)
  BY <1>21 DEF EndDrain, ClosePool, Drained
<1>22. ASSUME WriteEnds(t) PROVE CountsKept(t)
  BY <1>22 DEF WriteEnds
<1>23. ASSUME Reopen(t) PROVE CountsKept(t)
  BY <1>23 DEF Reopen
<1>24. ASSUME Settle(t) PROVE CountsKept(t)
  BY <1>24 DEF Settle
<1>25. ASSUME ReopenFails(t) PROVE CountsKept(t)
  BY <1>25 DEF ReopenFails
<1>26. ASSUME RefusePublish(t) PROVE CountsKept(t)
  BY <1>26 DEF RefusePublish, ReleasePermit
<1>27. ASSUME AskPermit(t) PROVE CountsKept(t)
  BY <1>27 DEF AskPermit
<1>28. ASSUME AdmitPublish(t) PROVE CountsKept(t)
  BY <1>28 DEF AdmitPublish
<1>29. ASSUME Merge(t) PROVE CountsKept(t)
  BY <1>29 DEF Merge
<1>30. ASSUME MergeDeadline(t) PROVE CountsKept(t)
  BY <1>30 DEF MergeDeadline
<1>31. ASSUME MergeEnds(t) PROVE CountsKept(t)
  BY <1>31 DEF MergeEnds
<1>32. ASSUME FinishPublish(t) PROVE CountsKept(t)
  BY <1>32 DEF FinishPublish, ReleasePermit
<1>33. ASSUME t = Watchdog, Wake PROVE CountsKept(t)
  BY <1>33 DEF Wake
<1>34. ASSUME t = Watchdog, Probe PROVE CountsKept(t)
  BY <1>34 DEF Probe
<1>35. ASSUME t = Watchdog, DogConnects PROVE CountsKept(t)
  BY <1>35 DEF DogConnects
<1>36. ASSUME t = Watchdog, DogFindsNone PROVE CountsKept(t)
  BY <1>36 DEF DogFindsNone
<1>37. ASSUME t = Watchdog, DogReleases PROVE CountsKept(t)
  BY <1>37 DEF DogReleases
<1>38. ASSUME t = Watchdog, OpsCheckpointEnds PROVE CountsKept(t)
  BY <1>38 DEF OpsCheckpointEnds
<1>39. ASSUME t = Watchdog, Sound PROVE CountsKept(t)
  BY <1>39 DEF Sound
<1>40. ASSUME t = Watchdog, CheckpointSettles PROVE CountsKept(t)
  BY <1>40 DEF CheckpointSettles
<1>41. ASSUME t = Watchdog, Broken PROVE CountsKept(t)
  BY <1>41 DEF Broken
<1>42. ASSUME Recheck(t) PROVE CountsKept(t)
  BY <1>42 DEF Recheck
<1>43. ASSUME t = Watchdog, DogTakes PROVE CountsKept(t)
  BY <1>43 DEF DogTakes
<1>44. ASSUME t = Watchdog, DogReturns PROVE CountsKept(t)
  BY <1>44 DEF DogReturns
<1> HIDE DEF CountsKept
<1> QED BY <1>1, <1>2, <1>3, <1>4, <1>5, <1>6, <1>7, <1>8, <1>9, <1>10, <1>11, <1>12,
  <1>13, <1>14, <1>15, <1>16, <1>17, <1>18, <1>19, <1>20, <1>21, <1>22, <1>23, <1>24,
  <1>25, <1>26, <1>27, <1>28, <1>29, <1>30, <1>31, <1>32, <1>33, <1>34, <1>35, <1>36,
  <1>37, <1>38, <1>39, <1>40, <1>41, <1>42, <1>43, <1>44 DEF ReadStep, WriteStep, DogStep

\* The sets that are counted, by the tasks.
LEMMA CountedSets ==
  /\ Out = {u \in Actor : IsOut(u)}
  /\ Connections = {u \in Actor : HasConnection(u)}
  /\ Slotted = {u \in Actor : HasSlot(u)}
  /\ Reading = {u \in Actor : Reads(u)}
<1>1. Query \cup Nfl \cup Meta \subseteq Actor /\ Watchdog \in Actor
  BY DEF Actor, Task, Reader
<1>2. Out = {u \in Actor : IsOut(u)}
  BY <1>1 DEF Out, IsOut, At
<1>3. Slotted = {u \in Actor : HasSlot(u)}
  BY <1>1 DEF Slotted, HasSlot
<1>4. Reading = {u \in Actor : Reads(u)}
  BY <1>1 DEF Reading, Reads
<1>5. Uncounted = {u \in Actor : IsAway(u)}
  BY <1>1 DEF Uncounted, IsAway
<1>6. Connections = {u \in Actor : HasConnection(u)}
  BY <1>2, <1>5 DEF Connections, HasConnection
<1> QED BY <1>2, <1>3, <1>4, <1>6

\* They are finite when the requests are.
LEMMA CountedFinite ==
  ASSUME IsFiniteSet(Reader)
  PROVE  /\ IsFiniteSet(Out) /\ IsFiniteSet(Connections)
         /\ IsFiniteSet(Slotted) /\ IsFiniteSet(Reading)
<1>1. IsFiniteSet(Reader \cup {Watchdog})
  BY FS_AddElement
<1>2. /\ Out \subseteq Reader \cup {Watchdog}
      /\ Connections \subseteq Reader \cup {Watchdog}
      /\ Slotted \subseteq Reader \cup {Watchdog}
      /\ Reading \subseteq Reader \cup {Watchdog}
  BY DEF Out, Uncounted, Connections, Slotted, Reading, Reader
<1> QED BY <1>1, <1>2, FS_Subset

\* A step that moves one task moves that task, or nobody, in and out of each.
LEMMA CountedMove ==
  ASSUME NEW t \in Actor, Walks(t)
  PROVE  /\ (IsOut(t)' <=> IsOut(t)) => Out' = Out
         /\ ~IsOut(t) /\ IsOut(t)' => Out' = Out \cup {t} /\ t \notin Out
         /\ IsOut(t) /\ ~IsOut(t)' => Out' = Out \ {t} /\ t \in Out
         /\ (HasConnection(t)' <=> HasConnection(t)) => Connections' = Connections
         /\ ~HasConnection(t) /\ HasConnection(t)'
              => Connections' = Connections \cup {t} /\ t \notin Connections
         /\ HasConnection(t) /\ ~HasConnection(t)'
              => Connections' = Connections \ {t} /\ t \in Connections
         /\ (HasSlot(t)' <=> HasSlot(t)) => Slotted' = Slotted
         /\ ~HasSlot(t) /\ HasSlot(t)' => Slotted' = Slotted \cup {t} /\ t \notin Slotted
         /\ HasSlot(t) /\ ~HasSlot(t)' => Slotted' = Slotted \ {t} /\ t \in Slotted
         /\ (Reads(t)' <=> Reads(t)) => Reading' = Reading
         /\ ~Reads(t) /\ Reads(t)' => Reading' = Reading \cup {t} /\ t \notin Reading
         /\ Reads(t) /\ ~Reads(t)' => Reading' = Reading \ {t} /\ t \in Reading
<1>1. ASSUME NEW u \in Actor, u # t
      PROVE  /\ IsOut(u)' <=> IsOut(u)
             /\ HasConnection(u)' <=> HasConnection(u)
             /\ HasSlot(u)' <=> HasSlot(u)
             /\ Reads(u)' <=> Reads(u)
  BY <1>1 DEF Walks, IsOut, IsAway, HasConnection, HasSlot, Reads
<1>2. /\ Out = {u \in Actor : IsOut(u)} /\ Out' = {u \in Actor : IsOut(u)'}
      /\ Connections = {u \in Actor : HasConnection(u)}
      /\ Connections' = {u \in Actor : HasConnection(u)'}
      /\ Slotted = {u \in Actor : HasSlot(u)} /\ Slotted' = {u \in Actor : HasSlot(u)'}
      /\ Reading = {u \in Actor : Reads(u)} /\ Reading' = {u \in Actor : Reads(u)'}
  <2>1. Query \cup Nfl \cup Meta \subseteq Actor /\ Watchdog \in Actor
    BY DEF Actor, Task, Reader
  <2>2. Out' = {u \in Actor : IsOut(u)'}
    BY <2>1 DEF Out, IsOut, At
  <2>3. Slotted' = {u \in Actor : HasSlot(u)'}
    BY <2>1 DEF Slotted, HasSlot
  <2>4. Reading' = {u \in Actor : Reads(u)'}
    BY <2>1 DEF Reading, Reads
  <2>5. Uncounted' = {u \in Actor : IsAway(u)'}
    BY <2>1 DEF Uncounted, IsAway
  <2>6. Connections' = {u \in Actor : HasConnection(u)'}
    BY <2>2, <2>5 DEF Connections, HasConnection
  <2> QED BY <2>2, <2>3, <2>4, <2>6, CountedSets
<1> HIDE DEF IsOut, IsAway, HasConnection, HasSlot, Reads, Out, Connections, Slotted, Reading
<1> QED BY <1>1, <1>2

\* Every counter is the number of the tasks it counts.
LEMMA CountsHeld ==
  ASSUME IsFiniteSet(Reader)
  PROVE  Spec => [](NumbersInv /\ CountInv)
<1>1. Init => NumbersInv /\ CountInv
  <2> SUFFICES ASSUME Init PROVE NumbersInv /\ CountInv
    OBVIOUS
  <2>1. Out = {} /\ Slotted = {} /\ Reading = {}
    BY Kinds DEF Init, Out, Slotted, Reading, Reads, At, Actor, Task, Reader
  <2>2. Cardinality({}) = 0
    BY FS_EmptySet
  <2> QED BY <2>1, <2>2, GateAssumption DEF Init, NumbersInv, CountInv, GateAssumption
<1>2. ASSUME PointsInv, LocksInv, NumbersInv, CountInv, [Next]_vars
      PROVE  NumbersInv' /\ CountInv'
  <2>1. ASSUME NEW t \in Actor, Walks(t), CountsKept(t) PROVE NumbersInv' /\ CountInv'
    <3>1. /\ IsFiniteSet(Out) /\ Cardinality(Out) \in Nat
          /\ IsFiniteSet(Slotted) /\ Cardinality(Slotted) \in Nat
          /\ IsFiniteSet(Reading) /\ Cardinality(Reading) \in Nat
      BY CountedFinite, FS_CardinalityType
    <3>2. /\ t \notin Out => Cardinality(Out \cup {t}) = Cardinality(Out) + 1
          /\ t \in Out => Cardinality(Out \ {t}) = Cardinality(Out) - 1
          /\ t \notin Slotted => Cardinality(Slotted \cup {t}) = Cardinality(Slotted) + 1
          /\ t \in Slotted => Cardinality(Slotted \ {t}) = Cardinality(Slotted) - 1
          /\ t \notin Reading => Cardinality(Reading \cup {t}) = Cardinality(Reading) + 1
          /\ t \in Reading => Cardinality(Reading \ {t}) = Cardinality(Reading) - 1
      BY <3>1, FS_AddElement, FS_RemoveElement
    <3>3. slots' \in Int /\ slots' + Cardinality(Slotted') = Slots
      <4>1. slots \in Int /\ slots + Cardinality(Slotted) = Slots /\ Slots \in Nat
        BY <1>2, GateAssumption DEF NumbersInv, CountInv, GateAssumption
      <4>2. CASE slots' = slots /\ (HasSlot(t)' <=> HasSlot(t))
        <5>1. Slotted' = Slotted
          BY <2>1, <4>2, CountedMove
        <5> QED BY <4>1, <4>2, <5>1
      <4>3. CASE slots' = slots - 1 /\ ~HasSlot(t) /\ HasSlot(t)'
        <5>1. Slotted' = Slotted \cup {t} /\ t \notin Slotted
          BY <2>1, <4>3, CountedMove
        <5> QED BY <3>1, <3>2, <4>1, <4>3, <5>1
      <4>4. CASE slots' = slots + 1 /\ HasSlot(t) /\ ~HasSlot(t)'
        <5>1. Slotted' = Slotted \ {t} /\ t \in Slotted
          BY <2>1, <4>4, CountedMove
        <5> QED BY <3>1, <3>2, <4>1, <4>4, <5>1
      <4> QED BY <2>1, <4>2, <4>3, <4>4 DEF CountsKept, SlotsKept
    <3>4. reads' \in Int /\ reads' = Cardinality(Reading')
      <4>1. reads \in Int /\ reads = Cardinality(Reading)
        BY <1>2 DEF NumbersInv, CountInv
      <4>2. CASE reads' = reads /\ (Reads(t)' <=> Reads(t))
        <5>1. Reading' = Reading
          BY <2>1, <4>2, CountedMove
        <5> QED BY <4>1, <4>2, <5>1
      <4>3. CASE reads' = reads + 1 /\ ~Reads(t) /\ Reads(t)'
        <5>1. Reading' = Reading \cup {t} /\ t \notin Reading
          BY <2>1, <4>3, CountedMove
        <5> QED BY <3>1, <3>2, <4>1, <4>3, <5>1
      <4>4. CASE reads' = reads - 1 /\ Reads(t) /\ ~Reads(t)'
        <5>1. Reading' = Reading \ {t} /\ t \in Reading
          BY <2>1, <4>4, CountedMove
        <5> QED BY <3>1, <3>2, <4>1, <4>4, <5>1
      <4> QED BY <2>1, <4>2, <4>3, <4>4 DEF CountsKept, ReadsKept
    <3>5. /\ (IsOut(t)' <=> IsOut(t)) => Out' = Out
          /\ ~IsOut(t) /\ IsOut(t)' => Out' = Out \cup {t} /\ t \notin Out
          /\ IsOut(t) /\ ~IsOut(t)' => Out' = Out \ {t} /\ t \in Out
          /\ t \in Writer => Out' = Out
      <4>1. t \in Writer => (IsOut(t)' <=> IsOut(t))
        BY Kinds DEF IsOut
      <4> QED BY <2>1, <4>1, CountedMove
    <3>6. /\ idle' \in Nat /\ active' \in Int /\ drift' \in Nat
          /\ drift' = 0 => active' = Cardinality(Out')
      <4>1. /\ idle \in Nat /\ active \in Int /\ drift \in Nat /\ PoolSize \in Nat
            /\ drift = 0 => active = Cardinality(Out)
        BY <1>2, GateAssumption DEF NumbersInv, CountInv, GateAssumption
      <4>2. PoolKept(t)
        BY <2>1 DEF CountsKept
      <4>3. CASE /\ active' = active /\ UNCHANGED ghosts /\ idle' \in {idle, idle - 1, idle + 1}
                 /\ (idle' = idle - 1 => idle > 0)
                 /\ IsOut(t)' <=> IsOut(t)
        BY <3>5, <4>1, <4>3 DEF ghosts
      <4>4. CASE /\ active' = active + 1 /\ UNCHANGED ghosts /\ idle' \in {idle, idle - 1}
                 /\ (idle' = idle - 1 => idle > 0)
                 /\ ~IsOut(t) /\ IsOut(t)'
        <5>1. Out' = Out \cup {t} /\ t \notin Out
          BY <3>5, <4>4
        <5> QED BY <3>1, <3>2, <4>1, <4>4, <5>1 DEF ghosts
      <4>5. CASE /\ active' = active - 1 /\ UNCHANGED ghosts /\ idle' \in {idle, idle + 1}
                 /\ IsOut(t) /\ ~IsOut(t)'
        <5>1. Out' = Out \ {t} /\ t \in Out
          BY <3>5, <4>5
        <5> QED BY <3>1, <3>2, <4>1, <4>5, <5>1 DEF ghosts
      <4>6. CASE t \in Writer
        <5>1. Out' = Out
          BY <3>5, <4>6
        <5>2. CASE active' = active /\ drift' = drift
          BY <4>1, <4>2, <4>6, <5>1, <5>2 DEF PoolKept, ghosts
        <5>3. CASE idle' = idle /\ active' = 0 /\ drift' = Cardinality(Out)
          BY <3>1, <4>1, <5>1, <5>3
        <5> QED BY <4>2, <4>6, <5>2, <5>3 DEF PoolKept, ghosts
      <4> QED BY <4>1, <4>2, <4>3, <4>4, <4>5, <4>6 DEF PoolKept, HasConnection
    <3> QED BY <3>3, <3>4, <3>6 DEF NumbersInv, CountInv
  <2>2. CASE UNCHANGED vars
    BY <1>2, <2>2 DEF vars, counts, ghosts, NumbersInv, CountInv, Out, Slotted, Reading, Reads, At
  <2>3. Reader \subseteq Actor /\ Task \subseteq Actor /\ Watchdog \in Actor
    BY DEF Actor, Task
  <2> QED BY <1>2, <2>1, <2>2, <2>3, StepWalks, StepKeepsCounts DEF Next
<1> QED BY <1>1, <1>2, PointsHeld, LocksHeld, PTL DEF Spec

-----------------------------------------------------------------------------
(* The status.                                                              *)

\* The one ___ops writer begins, or ends, or neither.
WritesKept(t) ==
  \/ writes' = writes /\ (WritesOps(t)' <=> WritesOps(t))
  \/ writes' = 1 /\ opsLock = None /\ WritesOps(t)'
  \/ writes' = 0 /\ WritesOps(t) /\ ~WritesOps(t)'

StatusKept(t) ==
  /\ WritesKept(t)
  /\ status' \in Status /\ saved' \in Status \ {"ops_writing"}
  /\ status' = "ops_writing" => writes' = 1
  /\ status' \in {"serving", "ops_writing"} =>
       \/ status \in {"serving", "ops_writing"}
       \/ t \in Writer /\ pc[t] = "refilled"
       \/ t = Watchdog /\ InCheck /\ saved = "serving"
  /\ InCheck' => (InCheck /\ saved' = saved) \/ saved' = status
  /\ Checkpoints(Watchdog)' => status' = "checkpointing" /\ reads' = 0

\* Every step leaves a status that its own counts, and the checkpoint, allow.
LEMMA StepKeepsStatus ==
  ASSUME PointsInv, LocksInv, OpsInv, CheckInv,
         NEW t \in Actor,
         Reads(t) => reads # 0,
         ReadStep(t) \/ WriteStep(t) \/ (t = Watchdog /\ DogStep)
  PROVE  StatusKept(t)
<1>0. /\ DOMAIN pc = Actor /\ pc = [u \in Actor |-> pc[u]] /\ Role(t) /\ Watchdog \in Actor
      /\ status \in Status /\ saved \in Status \ {"ops_writing"}
      /\ writes \in {0, 1} /\ (status = "ops_writing" => writes = 1)
      /\ WritesOps(t) => writes = 1
      /\ opsLock = None => writes = 0
      /\ Checkpoints(Watchdog) => merge = Watchdog /\ status = "checkpointing" /\ reads = 0
      /\ merge = t <=> HoldsMerge(t)
      /\ Watchdog # None
  <2>1. Watchdog \in Actor
    BY DEF Actor
  <2>2. opsLock = None => writes = 0
    BY Kinds DEF LocksInv, OpsInv
  <2>3. Checkpoints(Watchdog) => merge = Watchdog
    BY <2>1 DEF LocksInv, HoldsMerge
  <2> QED BY <2>1, <2>2, <2>3, Kinds DEF PointsInv, OpsInv, CheckInv, LocksInv
<1> USE Kinds, <1>0 DEF StatusKept, WritesKept, InCheck, WritesOps, HoldsMerge, Checkpoints, Reads, Status,
        Role, At, Go, counts, held, dog
<1>1. ASSUME Arrive(t) PROVE StatusKept(t)
  BY <1>1 DEF Arrive
<1>2. ASSUME Polled(t) PROVE StatusKept(t)
  BY <1>2 DEF Polled
<1>3. ASSUME TakeSlot(t) PROVE StatusKept(t)
  BY <1>3 DEF TakeSlot
<1>4. ASSUME SlotTimeout(t) PROVE StatusKept(t)
  BY <1>4 DEF SlotTimeout
<1>5. ASSUME Connect(t) PROVE StatusKept(t)
  BY <1>5 DEF Connect, Connected
<1>6. ASSUME Unblock(t) PROVE StatusKept(t)
  BY <1>6 DEF Unblock
<1>7. ASSUME BlockTimeout(t) PROVE StatusKept(t)
  BY <1>7 DEF BlockTimeout
<1>8. ASSUME QueryThreadEnds(t) PROVE StatusKept(t)
  BY <1>8 DEF QueryThreadEnds
<1>9. ASSUME FinishQuery(t) PROVE StatusKept(t)
  BY <1>9 DEF FinishQuery
<1>10. ASSUME StartNfl(t) PROVE StatusKept(t)
  BY <1>10 DEF StartNfl
<1>11. ASSUME ArriveMeta(t) PROVE StatusKept(t)
  BY <1>11 DEF ArriveMeta
<1>12. ASSUME OpsReadLocked(t) PROVE StatusKept(t)
  BY <1>12 DEF OpsReadLocked
<1>13. ASSUME OpsReadEnds(t) PROVE StatusKept(t)
  BY <1>13 DEF OpsReadEnds
<1>14. ASSUME FinishOpsRead(t) PROVE StatusKept(t)
  BY <1>14 DEF FinishOpsRead
<1>15. ASSUME TurnAway(t) PROVE StatusKept(t)
  BY <1>15 DEF TurnAway
<1>16. ASSUME ArriveWrite(t) PROVE StatusKept(t)
  BY <1>16 DEF ArriveWrite
<1>17. ASSUME OpsWriteBegins(t) PROVE StatusKept(t)
  <2> HIDE DEF Role, InCheck, HoldsMerge, Checkpoints, WritesKept, StatusKept, Status
  <2>1. /\ t \in OpsWriter /\ t # Watchdog /\ opsLock = None
        /\ pc' = [pc EXCEPT ![t] = "writing"] /\ writes' = writes + 1
        /\ status' = IF status = "serving" THEN "ops_writing" ELSE status
        /\ UNCHANGED <<saved, reads>>
    BY <1>17 DEF OpsWriteBegins
  <2>2. writes' = 1
    BY <2>1
  <2> USE DEF Checkpoints, WritesKept, StatusKept, Status
  <2>3. WritesKept(t)
    BY <2>1, <2>2
  <2>4. /\ pc'[Watchdog] = pc[Watchdog]
        /\ InCheck' <=> InCheck
        /\ Checkpoints(Watchdog)' <=> Checkpoints(Watchdog)
    BY <2>1 DEF InCheck
  <2> HIDE DEF Role, InCheck, Checkpoints, WritesKept, HoldsMerge, WritesOps
  <2> QED BY <2>1, <2>2, <2>3, <2>4
<1>18. ASSUME OpsWriteGivesUp(t) PROVE StatusKept(t)
  BY <1>18 DEF OpsWriteGivesUp
<1>19. ASSUME OpsWriteEnds(t) PROVE StatusKept(t)
  <2> HIDE DEF Role, InCheck, HoldsMerge, Checkpoints, WritesKept, StatusKept, Status
  <2>1. /\ t \in OpsWriter /\ t # Watchdog /\ WritesOps(t)
        /\ pc' = [pc EXCEPT ![t] = "done"]
        /\ writes' = IF writes > 0 THEN writes - 1 ELSE 0
        /\ status' = IF writes' = 0 /\ status \in {"ops_writing", "ops_snapshotting"}
                       THEN "serving" ELSE status
        /\ UNCHANGED <<saved, reads>>
    BY <1>19 DEF OpsWriteEnds, LastWrite
  <2>2. writes = 1 /\ writes' = 0
    BY <2>1
  <2> USE DEF Checkpoints, WritesKept, StatusKept, Status
  <2>3. WritesKept(t)
    BY <2>1, <2>2
  <2>4. /\ pc'[Watchdog] = pc[Watchdog]
        /\ InCheck' <=> InCheck
        /\ Checkpoints(Watchdog)' <=> Checkpoints(Watchdog)
    BY <2>1 DEF InCheck
  <2> HIDE DEF Role, InCheck, Checkpoints, WritesKept, HoldsMerge, WritesOps
  <2> QED BY <2>1, <2>2, <2>3, <2>4
<1>20. ASSUME BeginDrain(t) PROVE StatusKept(t)
  BY <1>20 DEF BeginDrain, ClosePool
<1>21. ASSUME EndDrain(t) PROVE StatusKept(t)
  BY <1>21 DEF EndDrain, ClosePool
<1>22. ASSUME WriteEnds(t) PROVE StatusKept(t)
  BY <1>22 DEF WriteEnds
<1>23. ASSUME Reopen(t) PROVE StatusKept(t)
  BY <1>23 DEF Reopen
<1>24. ASSUME Settle(t) PROVE StatusKept(t)
  <2>1. /\ t \in Writer /\ t # Watchdog /\ pc[t] = "refilled"
        /\ pc' = [pc EXCEPT ![t] = "done"]
        /\ status' = IF writes > 0 THEN "ops_writing" ELSE "serving"
        /\ HoldsMerge(t) /\ merge = t
        /\ UNCHANGED <<saved, reads, writes>>
    BY <1>24 DEF Settle, SettledStatus
  <2>2. WritesKept(t)
    BY <2>1
  <2>3. /\ pc'[Watchdog] = pc[Watchdog]
        /\ InCheck' <=> InCheck
        /\ Checkpoints(Watchdog)' <=> Checkpoints(Watchdog)
    BY <2>1
  <2> HIDE DEF Role, InCheck, Checkpoints, WritesKept, HoldsMerge, WritesOps
  <2> QED BY <2>1, <2>2, <2>3
<1>25. ASSUME ReopenFails(t) PROVE StatusKept(t)
  BY <1>25 DEF ReopenFails, FailedStatus
<1>26. ASSUME RefusePublish(t) PROVE StatusKept(t)
  BY <1>26 DEF RefusePublish, ReleasePermit
<1>27. ASSUME AskPermit(t) PROVE StatusKept(t)
  BY <1>27 DEF AskPermit
<1>28. ASSUME AdmitPublish(t) PROVE StatusKept(t)
  BY <1>28 DEF AdmitPublish
<1>29. ASSUME Merge(t) PROVE StatusKept(t)
  BY <1>29 DEF Merge
<1>30. ASSUME MergeDeadline(t) PROVE StatusKept(t)
  BY <1>30 DEF MergeDeadline
<1>31. ASSUME MergeEnds(t) PROVE StatusKept(t)
  BY <1>31 DEF MergeEnds
<1>32. ASSUME FinishPublish(t) PROVE StatusKept(t)
  BY <1>32 DEF FinishPublish, ReleasePermit
<1>33. ASSUME t = Watchdog, Wake PROVE StatusKept(t)
  BY <1>33 DEF Wake
<1>34. ASSUME t = Watchdog, Probe PROVE StatusKept(t)
  BY <1>34 DEF Probe
<1>35. ASSUME t = Watchdog, DogConnects PROVE StatusKept(t)
  BY <1>35 DEF DogConnects
<1>36. ASSUME t = Watchdog, DogFindsNone PROVE StatusKept(t)
  BY <1>36 DEF DogFindsNone
<1>37. ASSUME t = Watchdog, DogReleases PROVE StatusKept(t)
  BY <1>37 DEF DogReleases
<1>38. ASSUME t = Watchdog, OpsCheckpointEnds PROVE StatusKept(t)
  BY <1>38 DEF OpsCheckpointEnds
<1>39. ASSUME t = Watchdog, Sound PROVE StatusKept(t)
  <2>1. /\ UNCHANGED <<reads, writes>> /\ pc[Watchdog] = "sound" /\ WritesKept(t)
    BY <1>39 DEF Sound
  <2>2. CASE /\ DatabaseIdle /\ saved' = status /\ status' = "checkpointing"
             /\ pc' = [pc EXCEPT ![Watchdog] = "checkpointing"]
    <3> HIDE DEF Role, InCheck, Checkpoints, WritesKept, HoldsMerge, WritesOps, StatusKept
    <3>1. saved' \in Status \ {"ops_writing"} /\ reads' = 0
      <4> HIDE DEF Status
      <4>1. writes = 0 /\ reads = 0
        BY <2>2 DEF DatabaseIdle
      <4> QED BY <2>1, <2>2, <4>1
    <3> USE DEF StatusKept
    <3> QED BY <2>1, <2>2, <3>1
  <2>3. CASE pc' = [pc EXCEPT ![Watchdog] = "asleep"] /\ UNCHANGED <<saved, status>>
    BY <2>1, <2>3
  <2> QED BY <1>39, <2>2, <2>3 DEF Sound
<1>40. ASSUME t = Watchdog, CheckpointSettles PROVE StatusKept(t)
  BY <1>40 DEF CheckpointSettles
<1>41. ASSUME t = Watchdog, Broken PROVE StatusKept(t)
  BY <1>41 DEF Broken
<1>42. ASSUME Recheck(t) PROVE StatusKept(t)
  BY <1>42 DEF Recheck
<1>43. ASSUME t = Watchdog, DogTakes PROVE StatusKept(t)
  BY <1>43 DEF DogTakes
<1>44. ASSUME t = Watchdog, DogReturns PROVE StatusKept(t)
  BY <1>44 DEF DogReturns
<1> HIDE DEF StatusKept
<1> QED BY <1>1, <1>2, <1>3, <1>4, <1>5, <1>6, <1>7, <1>8, <1>9, <1>10, <1>11, <1>12,
  <1>13, <1>14, <1>15, <1>16, <1>17, <1>18, <1>19, <1>20, <1>21, <1>22, <1>23, <1>24,
  <1>25, <1>26, <1>27, <1>28, <1>29, <1>30, <1>31, <1>32, <1>33, <1>34, <1>35, <1>36,
  <1>37, <1>38, <1>39, <1>40, <1>41, <1>42, <1>43, <1>44 DEF ReadStep, WriteStep, DogStep

\* One ___ops writer at a time, and the statuses that its count allows.
LEMMA StatusHeld ==
  ASSUME IsFiniteSet(Reader)
  PROVE  Spec => [](OpsInv /\ CheckInv)
<1>1. Init => OpsInv /\ CheckInv
  BY Kinds DEF Init, OpsInv, CheckInv, Status, WritesOps, Checkpoints, Actor
<1>2. ASSUME PointsInv, LocksInv, NumbersInv, CountInv, OpsInv, CheckInv, [Next]_vars
      PROVE  OpsInv' /\ CheckInv'
  <2>1. ASSUME NEW t \in Actor, Reads(t) PROVE reads # 0
    <3>1. t \in Reading
      BY <2>1 DEF Reading, Reads
    <3>2. Cardinality(Reading) # 0
      BY <3>1, CountedFinite, FS_EmptySet
    <3> QED BY <1>2, <3>2 DEF CountInv
  <2>2. ASSUME NEW t \in Actor, Walks(t), StatusKept(t) PROVE OpsInv' /\ CheckInv'
    <3>1. ASSUME NEW u \in Actor, u # t PROVE WritesOps(u)' <=> WritesOps(u)
      BY <2>2, <3>1 DEF Walks, WritesOps
    <3>2. ASSUME NEW u \in Actor, NEW v \in Actor, WritesOps(u), WritesOps(v) PROVE u = v
      BY <1>2, <3>2 DEF LocksInv
    <3>3. (\E u \in Actor : WritesOps(u)) <=> writes = 1
      BY <1>2 DEF OpsInv
    <3>4. writes' = IF \E u \in Actor : WritesOps(u)' THEN 1 ELSE 0
      <4>1. CASE writes' = writes /\ (WritesOps(t)' <=> WritesOps(t))
        <5>1. ASSUME NEW u \in Actor PROVE WritesOps(u)' <=> WritesOps(u)
          BY <3>1, <4>1
        <5> QED BY <1>2, <4>1, <5>1 DEF OpsInv
      <4>2. CASE writes' = 1 /\ opsLock = None /\ WritesOps(t)'
        BY <4>2
      <4>3. CASE writes' = 0 /\ WritesOps(t) /\ ~WritesOps(t)'
        BY <3>1, <3>2, <4>3
      <4> QED BY <2>2, <4>1, <4>2, <4>3 DEF StatusKept, WritesKept
    <3> QED BY <2>2, <3>4 DEF OpsInv, CheckInv, StatusKept
  <2>3. CASE UNCHANGED vars
    BY <1>2, <2>3 DEF vars, counts, dog, OpsInv, CheckInv, WritesOps, Checkpoints
  <2>4. Reader \subseteq Actor /\ Task \subseteq Actor /\ Watchdog \in Actor
    BY DEF Actor, Task
  <2> QED BY <1>2, <2>1, <2>2, <2>3, <2>4, StepWalks, StepKeepsStatus DEF Next
<1> QED BY <1>1, <1>2, PointsHeld, LocksHeld, CountsHeld, PTL DEF Spec

\* A league writer closes the pool.
Closes(t) ==
  /\ t \in Writer /\ status' \in {"draining", "writing"}
  /\ pc[t] = "draining" \/ merge = None

\* What a writer that drained relies on, and what stands behind "serving".
LEMMA PoolHeld ==
  ASSUME IsFiniteSet(Reader)
  PROVE  Spec => [](DrainInv /\ PoolInv)
<1>1. Init => DrainInv /\ PoolInv
  <2> SUFFICES ASSUME Init PROVE DrainInv /\ PoolInv
    OBVIOUS
  <2>1. Connections = {} /\ \A w \in Writer : pc[w] = "new"
    BY Kinds DEF Init, Connections, Out, Uncounted, At, Actor, Task, Reader
  <2>2. pc[Watchdog] = "asleep"
    BY DEF Init
  <2>3. idle + Cardinality(Connections) >= PoolSize
    BY <2>1, FS_EmptySet, GateAssumption DEF Init, GateAssumption
  <2> QED BY <2>1, <2>2, <2>3 DEF DrainInv, PoolInv, InCheck, Whole
<1>2. ASSUME PointsInv, LocksInv, NumbersInv, CountInv, DrainInv, PoolInv,
             NEW t \in Actor, Walks(t), CountsKept(t), StatusKept(t)
      PROVE  DrainInv' /\ PoolInv'
  <2>1. /\ Cardinality(Out) \in Nat /\ Cardinality(Connections) \in Nat
        /\ Cardinality(Out) = 0 <=> Out = {}
        /\ t \notin Connections => Cardinality(Connections \cup {t}) = Cardinality(Connections) + 1
        /\ t \in Connections => Cardinality(Connections \ {t}) = Cardinality(Connections) - 1
    BY CountedFinite, FS_CardinalityType, FS_EmptySet, FS_AddElement, FS_RemoveElement
  <2>2. /\ (HasConnection(t)' <=> HasConnection(t)) => Connections' = Connections
        /\ ~HasConnection(t) /\ HasConnection(t)'
             => Connections' = Connections \cup {t} /\ t \notin Connections
        /\ HasConnection(t) /\ ~HasConnection(t)'
             => Connections' = Connections \ {t} /\ t \in Connections
        /\ t \in Writer => Connections' = Connections
    <3>1. t \in Writer => (HasConnection(t)' <=> HasConnection(t))
      BY Kinds DEF IsOut, IsAway, HasConnection
    <3> QED BY <1>2, <3>1, CountedMove
  <2>3. /\ idle \in Nat /\ active \in Int /\ drift \in Nat /\ PoolSize \in Nat
        /\ drift = 0 => active = Cardinality(Out)
    BY <1>2, GateAssumption DEF NumbersInv, CountInv, GateAssumption
  <2>4. ASSUME NEW u \in Actor, NEW v \in Actor, HoldsMerge(u), HoldsMerge(v) PROVE u = v
    BY <1>2, <2>4 DEF LocksInv
  <2>5. ASSUME NEW w \in Writer, pc[w] \in {"draining", "writing", "written", "refilled"}
        PROVE  w \in Actor /\ HoldsMerge(w)
    BY <2>5 DEF HoldsMerge, Actor, Task
  <2>6. InCheck => HoldsMerge(Watchdog) /\ Watchdog \in Actor
    BY DEF InCheck, HoldsMerge, Checkpoints, Actor
  <2>7. PoolKept(t) /\ \A u \in Actor : u # t => pc'[u] = pc[u]
    BY <1>2 DEF CountsKept, Walks
  <2>8. ASSUME NEW w \in Writer, pc'[w] = "writing", ~gaveUp', drift' = 0
        PROVE  Connections' = {} /\ idle' = 0
    <3>1. w \in Actor
      BY DEF Actor, Task
    <3>2. CASE t \notin Writer
      <4>1. pc[w] = "writing" /\ UNCHANGED ghosts
        BY <2>7, <2>8, <3>1, <3>2 DEF PoolKept
      <4>2. Connections = {} /\ idle = 0
        BY <1>2, <2>8, <4>1 DEF DrainInv, ghosts
      <4>3. ~HasConnection(t)
        BY <4>2, CountedSets
      <4> QED BY <2>2, <2>3, <2>7, <3>2, <4>2, <4>3 DEF PoolKept
    <3>3. CASE t \in Writer /\ t # w
      <4>1. pc[w] = "writing" /\ HoldsMerge(w) /\ ~HoldsMerge(t) /\ merge = w
        BY <1>2, <2>4, <2>5, <2>7, <2>8, <3>1, <3>3 DEF LocksInv
      <4>2. pc[t] \notin {"draining", "written", "refilled"} /\ merge # None
        BY <2>5, <3>1, <3>3, <4>1, Kinds
      <4>3. idle' = idle /\ UNCHANGED ghosts
        BY <2>7, <3>3, <4>2 DEF PoolKept
      <4>4. Connections = {} /\ idle = 0
        BY <1>2, <2>8, <4>1, <4>3 DEF DrainInv, ghosts
      <4> QED BY <2>2, <3>3, <4>3, <4>4
    <3>4. CASE t = w
      <4>1. Connections' = Connections
        BY <2>2, <3>4
      <4>2. CASE idle' = idle /\ UNCHANGED ghosts /\ pc[w] = "writing"
        BY <1>2, <2>8, <4>1, <4>2 DEF DrainInv, ghosts
      <4>3. CASE idle' = 0 /\ active <= 0 /\ Uncounted = {} /\ drift' = drift
        <5>1. Out = {}
          BY <2>1, <2>3, <2>8, <4>3
        <5> QED BY <4>1, <4>3, <5>1 DEF Connections
      <4> QED BY <2>7, <2>8, <3>4, <4>2, <4>3 DEF PoolKept
    <3> QED BY <3>2, <3>3, <3>4
  <2>9. Whole => Whole' \/ Closes(t)
    <3>1. CASE idle' = idle /\ Connections' = Connections
      BY <3>1 DEF Whole
    <3>2. CASE idle' = idle - 1 /\ ~HasConnection(t) /\ HasConnection(t)'
      <4>1. Connections' = Connections \cup {t} /\ t \notin Connections
        BY <2>2, <3>2
      <4>2. Cardinality(Connections') = Cardinality(Connections) + 1
        BY <2>1, <4>1
      <4> QED BY <2>1, <2>3, <3>2, <4>2 DEF Whole
    <3>3. CASE idle' = idle + 1 /\ HasConnection(t) /\ ~HasConnection(t)'
      <4>1. Connections' = Connections \ {t} /\ t \in Connections
        BY <2>2, <3>3
      <4>2. Cardinality(Connections') = Cardinality(Connections) - 1
        BY <2>1, <4>1
      <4> QED BY <2>1, <2>3, <3>3, <4>2 DEF Whole
    <3>4. CASE t \in Writer /\ idle' >= idle /\ idle' \in Nat
      BY <2>1, <2>2, <2>3, <3>4 DEF Whole
    <3>5. CASE Closes(t)
      BY <3>5
    <3>6. idle + PoolSize >= idle /\ idle + PoolSize \in Nat
      BY <2>3
    <3> HIDE DEF Whole
    <3> QED BY <2>2, <2>7, <3>1, <3>2, <3>3, <3>4, <3>5, <3>6 DEF PoolKept, Closes
  <2>10. t \in Writer /\ pc'[t] = "refilled" => Whole'
    <3>1. SUFFICES ASSUME t \in Writer, pc'[t] = "refilled" PROVE Whole'
      OBVIOUS
    <3>2. idle' = idle + PoolSize /\ Connections' = Connections
      BY <2>2, <2>7, <3>1 DEF PoolKept
    <3> QED BY <2>1, <2>3, <3>2 DEF Whole
  <2>11. ASSUME Closes(t), NEW u \in Actor, HoldsMerge(u) PROVE u = t
    <3>1. CASE pc[t] = "draining"
      BY <2>4, <2>5, <2>11, <3>1 DEF Closes
    <3>2. CASE merge = None
      BY <1>2, <2>11, <3>2, Kinds DEF LocksInv
    <3> QED BY <2>11, <3>1, <3>2 DEF Closes
  <2>12. status' \in {"serving", "ops_writing"} => Whole'
    BY <1>2, <2>9 DEF StatusKept, PoolInv, InCheck, Closes
  <2>13. ASSUME NEW w \in Writer, pc'[w] = "refilled" PROVE Whole'
    <3>1. CASE w = t
      BY <2>10, <2>13, <3>1
    <3>2. CASE w # t
      <4>1. pc[w] = "refilled" /\ w \in Actor /\ HoldsMerge(w)
        BY <2>5, <2>7, <2>13, <3>2 DEF Actor, Task
      <4> QED BY <1>2, <2>9, <2>11, <3>2, <4>1 DEF PoolInv
    <3> QED BY <3>1, <3>2
  <2>14. ASSUME InCheck', saved' = "serving" PROVE Whole'
    <3>1. Whole
      BY <1>2, <2>14 DEF StatusKept, PoolInv, InCheck
    <3>2. ~Closes(t)
      <4>1. SUFFICES ASSUME Closes(t) PROVE FALSE
        OBVIOUS
      <4>2. t # Watchdog /\ Watchdog \in Actor
        BY <4>1, Kinds DEF Closes, Actor
      <4>3. InCheck
        BY <2>7, <2>14, <4>2 DEF InCheck
      <4> QED BY <2>6, <2>11, <4>1, <4>2, <4>3
    <3> QED BY <2>9, <3>1, <3>2
  <2> QED BY <2>8, <2>12, <2>13, <2>14 DEF DrainInv, PoolInv, InCheck
<1>3. ASSUME DrainInv, PoolInv, UNCHANGED vars PROVE DrainInv' /\ PoolInv'
  BY <1>3 DEF vars, counts, dog, ghosts, DrainInv, PoolInv, InCheck, Whole, Connections, Out, Uncounted, At
<1>4. Reader \subseteq Actor /\ Task \subseteq Actor /\ Watchdog \in Actor
  BY DEF Actor, Task
<1>5. ASSUME NumbersInv, CountInv, NEW t \in Actor, Reads(t) PROVE reads # 0
  <2>1. t \in Reading
    BY <1>5 DEF Reading, Reads
  <2>2. Cardinality(Reading) # 0
    BY <2>1, CountedFinite, FS_EmptySet
  <2> QED BY <1>5, <2>2 DEF CountInv
<1>6. PointsInv /\ LocksInv /\ NumbersInv /\ CountInv /\ OpsInv /\ CheckInv
        /\ DrainInv /\ PoolInv /\ [Next]_vars => DrainInv' /\ PoolInv'
  BY <1>2, <1>3, <1>4, <1>5, StepWalks, StepKeepsCounts, StepKeepsStatus DEF Next
<1> QED BY <1>1, <1>6, PointsHeld, LocksHeld, CountsHeld, StatusHeld, PTL DEF Spec

-----------------------------------------------------------------------------
(* The types.                                                               *)

\* What the other invariants do not say of the variables.
TypesInv ==
  /\ healthy \in BOOLEAN /\ gaveUp \in BOOLEAN
  /\ slots \in Nat /\ permits \in Nat /\ inflight \in Nat
  /\ merge \in Writer \cup Publish \cup {Watchdog, None}
  /\ opsLock \in Nfl \cup Meta \cup OpsWriter \cup {None}
  /\ loop \in Query \cup Writer \cup {None}
  /\ strikes \in 0..Strikes /\ (pc[Watchdog] # "done" => strikes < Strikes)
  /\ wakes \in 0..MaxWakes /\ failures \in 0..MaxReopenFailures

\* Every step keeps them.
LEMMA StepKeepsTypes ==
  ASSUME PointsInv, TypesInv,
         NEW t \in Actor,
         ReadStep(t) \/ WriteStep(t) \/ (t = Watchdog /\ DogStep)
  PROVE  TypesInv'
<1>0. /\ DOMAIN pc = Actor /\ pc = [u \in Actor |-> pc[u]] /\ Role(t) /\ Watchdog \in Actor
      /\ Strikes \in Nat \ {0} /\ MaxWakes \in Nat /\ MaxReopenFailures \in Nat
      /\ healthy \in BOOLEAN /\ gaveUp \in BOOLEAN
      /\ slots \in Nat /\ permits \in Nat /\ inflight \in Nat
      /\ strikes \in 0..Strikes /\ (pc[Watchdog] # "done" => strikes < Strikes)
      /\ wakes \in 0..MaxWakes /\ failures \in 0..MaxReopenFailures
      /\ merge \in Writer \cup Publish \cup {Watchdog, None}
      /\ opsLock \in Nfl \cup Meta \cup OpsWriter \cup {None}
      /\ loop \in Query \cup Writer \cup {None}
  BY GateAssumption DEF PointsInv, TypesInv, GateAssumption, Actor
<1> USE Kinds, <1>0 DEF TypesInv, Role, At, Go, counts, held, dog, ghosts
<1>1. ASSUME Arrive(t) PROVE TypesInv'
  BY <1>1 DEF Arrive
<1>2. ASSUME Polled(t) PROVE TypesInv'
  BY <1>2 DEF Polled
<1>3. ASSUME TakeSlot(t) PROVE TypesInv'
  BY <1>3 DEF TakeSlot
<1>4. ASSUME SlotTimeout(t) PROVE TypesInv'
  BY <1>4 DEF SlotTimeout
<1>5. ASSUME Connect(t) PROVE TypesInv'
  BY <1>5 DEF Connect, Connected
<1>6. ASSUME Unblock(t) PROVE TypesInv'
  BY <1>6 DEF Unblock
<1>7. ASSUME BlockTimeout(t) PROVE TypesInv'
  BY <1>7 DEF BlockTimeout
<1>8. ASSUME QueryThreadEnds(t) PROVE TypesInv'
  BY <1>8 DEF QueryThreadEnds
<1>9. ASSUME FinishQuery(t) PROVE TypesInv'
  BY <1>9 DEF FinishQuery
<1>10. ASSUME StartNfl(t) PROVE TypesInv'
  BY <1>10 DEF StartNfl
<1>11. ASSUME ArriveMeta(t) PROVE TypesInv'
  BY <1>11 DEF ArriveMeta
<1>12. ASSUME OpsReadLocked(t) PROVE TypesInv'
  BY <1>12 DEF OpsReadLocked
<1>13. ASSUME OpsReadEnds(t) PROVE TypesInv'
  BY <1>13 DEF OpsReadEnds
<1>14. ASSUME FinishOpsRead(t) PROVE TypesInv'
  BY <1>14 DEF FinishOpsRead
<1>15. ASSUME TurnAway(t) PROVE TypesInv'
  BY <1>15 DEF TurnAway
<1>16. ASSUME ArriveWrite(t) PROVE TypesInv'
  BY <1>16 DEF ArriveWrite
<1>17. ASSUME OpsWriteBegins(t) PROVE TypesInv'
  BY <1>17 DEF OpsWriteBegins
<1>18. ASSUME OpsWriteGivesUp(t) PROVE TypesInv'
  BY <1>18 DEF OpsWriteGivesUp
<1>19. ASSUME OpsWriteEnds(t) PROVE TypesInv'
  BY <1>19 DEF OpsWriteEnds
<1>20. ASSUME BeginDrain(t) PROVE TypesInv'
  BY <1>20 DEF BeginDrain, ClosePool
<1>21. ASSUME EndDrain(t) PROVE TypesInv'
  BY <1>21 DEF EndDrain, ClosePool
<1>22. ASSUME WriteEnds(t) PROVE TypesInv'
  BY <1>22 DEF WriteEnds
<1>23. ASSUME Reopen(t) PROVE TypesInv'
  BY <1>23 DEF Reopen
<1>24. ASSUME Settle(t) PROVE TypesInv'
  BY <1>24 DEF Settle
<1>25. ASSUME ReopenFails(t) PROVE TypesInv'
  BY <1>25 DEF ReopenFails, FailedStatus
<1>26. ASSUME RefusePublish(t) PROVE TypesInv'
  <2>1. permits' \in Nat /\ inflight' \in Nat
    <3>1. /\ permits' = permits + 1
          /\ inflight' = IF inflight > 0 THEN inflight - 1 ELSE 0
      BY <1>26 DEF RefusePublish, ReleasePermit
    <3>2. permits \in Nat /\ inflight \in Nat
      BY <1>0
    <3> HIDE <1>0 DEF Role, At, Go, TypesInv
    <3> QED BY <3>1, <3>2
  <2>2. UNCHANGED <<healthy, gaveUp, slots, merge, opsLock, loop, strikes, wakes, failures>>
    BY <1>26 DEF RefusePublish
  <2>3. pc'[Watchdog] = pc[Watchdog]
    BY <1>26 DEF RefusePublish
  <2> HIDE DEF Role, At, Go
  <2> QED BY <2>1, <2>2, <2>3
<1>27. ASSUME AskPermit(t) PROVE TypesInv'
  BY <1>27 DEF AskPermit
<1>28. ASSUME AdmitPublish(t) PROVE TypesInv'
  BY <1>28 DEF AdmitPublish
<1>29. ASSUME Merge(t) PROVE TypesInv'
  BY <1>29 DEF Merge
<1>30. ASSUME MergeDeadline(t) PROVE TypesInv'
  BY <1>30 DEF MergeDeadline
<1>31. ASSUME MergeEnds(t) PROVE TypesInv'
  BY <1>31 DEF MergeEnds
<1>32. ASSUME FinishPublish(t) PROVE TypesInv'
  BY <1>32 DEF FinishPublish, ReleasePermit
<1>33. ASSUME t = Watchdog, Wake PROVE TypesInv'
  BY <1>33 DEF Wake
<1>34. ASSUME t = Watchdog, Probe PROVE TypesInv'
  BY <1>34 DEF Probe
<1>35. ASSUME t = Watchdog, DogConnects PROVE TypesInv'
  BY <1>35 DEF DogConnects
<1>36. ASSUME t = Watchdog, DogFindsNone PROVE TypesInv'
  BY <1>36 DEF DogFindsNone
<1>37. ASSUME t = Watchdog, DogReleases PROVE TypesInv'
  BY <1>37 DEF DogReleases
<1>38. ASSUME t = Watchdog, OpsCheckpointEnds PROVE TypesInv'
  BY <1>38 DEF OpsCheckpointEnds
<1>39. ASSUME t = Watchdog, Sound PROVE TypesInv'
  BY <1>39 DEF Sound, DatabaseIdle
<1>40. ASSUME t = Watchdog, CheckpointSettles PROVE TypesInv'
  BY <1>40 DEF CheckpointSettles
<1>41. ASSUME t = Watchdog, Broken PROVE TypesInv'
  <2>1. strikes < Strikes /\ strikes' = strikes + 1
    BY <1>41 DEF Broken
  <2>2. /\ strikes' \in 0..Strikes
        /\ strikes + 1 >= Strikes \/ strikes' < Strikes
    <3> HIDE DEF Role, At, Go, TypesInv
    <3>1. strikes \in Nat /\ Strikes \in Nat
      OBVIOUS
    <3> HIDE <1>0
    <3> QED BY <2>1, <3>1
  <2>3. pc'[Watchdog] = "done" \/ strikes' < Strikes
    BY <1>41, <2>2 DEF Broken
  <2>4. healthy' \in BOOLEAN
    BY <1>41 DEF Broken
  <2>5. UNCHANGED <<slots, permits, inflight, merge, opsLock, loop, wakes, failures, gaveUp>>
    BY <1>41 DEF Broken
  <2> HIDE DEF Role, At, Go
  <2> QED BY <2>2, <2>3, <2>4, <2>5
<1>42. ASSUME Recheck(t) PROVE TypesInv'
  BY <1>42 DEF Recheck
<1>43. ASSUME t = Watchdog, DogTakes PROVE TypesInv'
  BY <1>43 DEF DogTakes
<1>44. ASSUME t = Watchdog, DogReturns PROVE TypesInv'
  BY <1>44 DEF DogReturns
<1> HIDE DEF TypesInv
<1> QED BY <1>1, <1>2, <1>3, <1>4, <1>5, <1>6, <1>7, <1>8, <1>9, <1>10, <1>11, <1>12,
  <1>13, <1>14, <1>15, <1>16, <1>17, <1>18, <1>19, <1>20, <1>21, <1>22, <1>23, <1>24,
  <1>25, <1>26, <1>27, <1>28, <1>29, <1>30, <1>31, <1>32, <1>33, <1>34, <1>35, <1>36,
  <1>37, <1>38, <1>39, <1>40, <1>41, <1>42, <1>43, <1>44 DEF ReadStep, WriteStep, DogStep

\* The types hold.
LEMMA TypesHeld == Spec => []TypesInv
<1>1. Init => TypesInv
  <2> SUFFICES ASSUME Init PROVE TypesInv
    OBVIOUS
  <2>1. pc[Watchdog] = "asleep"
    BY DEF Init
  <2>2. Strikes > 0 /\ 0 \in 0..Strikes /\ 0 \in 0..MaxWakes /\ 0 \in 0..MaxReopenFailures
    BY GateAssumption DEF GateAssumption
  <2>3. slots \in Nat /\ permits \in Nat /\ inflight \in Nat
    BY GateAssumption DEF Init, GateAssumption
  <2> QED BY <2>1, <2>2, <2>3 DEF Init, TypesInv
<1>2. PointsInv /\ TypesInv /\ [Next]_vars => TypesInv'
  <2>1. CASE UNCHANGED vars
    BY <2>1 DEF vars, counts, held, dog, ghosts, TypesInv
  <2>2. Reader \subseteq Actor /\ Task \subseteq Actor /\ Watchdog \in Actor
    BY DEF Actor, Task
  <2> QED BY <2>1, <2>2, StepKeepsTypes DEF Next
<1> QED BY <1>1, <1>2, PointsHeld, PTL DEF Spec

-----------------------------------------------------------------------------
(* The theorems.                                                            *)

\* Type correctness.
THEOREM GateTypeCorrect ==
  ASSUME IsFiniteSet(Reader)
  PROVE  Spec => []GateTypeOK
<1>1. PointsInv /\ LocksInv /\ NumbersInv /\ CountInv /\ OpsInv /\ TypesInv => GateTypeOK
  <2> SUFFICES ASSUME PointsInv, LocksInv, NumbersInv, CountInv, OpsInv, TypesInv
               PROVE  GateTypeOK
    OBVIOUS
  <2>1. slots \in 0..Slots /\ reads \in Nat
    <3>1. Cardinality(Slotted) \in Nat /\ Cardinality(Reading) \in Nat
      BY CountedFinite, FS_CardinalityType
    <3> QED BY <3>1, GateAssumption DEF CountInv, TypesInv, GateAssumption
  <2>2. ASSUME NEW u \in Actor
        PROVE  pc[u] \in
          {"new", "polling", "polled", "queued", "slotted", "blocking", "running", "ran",
           "done", "locking", "draining", "writing", "written", "refilled", "uploading",
           "admitting", "admitted", "merging", "merged", "asleep", "waking", "asking",
           "taken", "probing", "returning", "sound", "broken", "checkpointing",
           "ck taken", "connected", "ck returning", "ckdone", "ckfailed"}
    BY Kinds DEF PointsInv, Role
  <2>3. status \in Status /\ saved \in Status /\ writes \in 0..1
    BY DEF OpsInv
  <2>4. idle \in Nat /\ active \in Int /\ drift \in Nat
    BY DEF NumbersInv
  <2>5. exec \subseteq Actor
    BY DEF LocksInv
  <2> QED BY <2>1, <2>2, <2>3, <2>4, <2>5 DEF GateTypeOK, TypesInv, PointsInv, Actor
<1> QED BY <1>1, PointsHeld, LocksHeld, CountsHeld, StatusHeld, TypesHeld, PTL

\* However a read ends, its permit of _query_semaphore comes back once.
THEOREM SlotsAreConserved ==
  ASSUME IsFiniteSet(Reader)
  PROVE  Spec => []SlotsConserved
<1>1. CountInv => SlotsConserved
  BY DEF CountInv, SlotsConserved
<1> QED BY <1>1, CountsHeld, PTL

\* The count that the drain waits for is the number of connections that are out,
\* as long as no reopening has reset it over one.
THEOREM CountIsExact ==
  ASSUME IsFiniteSet(Reader)
  PROVE  Spec => []CountExact
<1>1. CountInv => CountExact
  BY DEF CountInv, CountExact
<1> QED BY <1>1, CountsHeld, PTL

\* A league writer whose drain succeeded writes with no query in DuckDB that
\* somebody waits for.
THEOREM WritersWriteAlone ==
  ASSUME IsFiniteSet(Reader)
  PROVE  Spec => []ReadsExcluded
<1>1. DrainInv => ReadsExcluded
  BY DEF DrainInv, ReadsExcluded, Connections, Out, At
<1> QED BY <1>1, PoolHeld, PTL

\* The watchdog checkpoints under _merge_lock and its own status, with no
\* metadata read, publication or league writer in DuckDB.
THEOREM CheckpointIsAlone ==
  ASSUME IsFiniteSet(Reader)
  PROVE  Spec => []CheckpointExcludes
<1>1. LocksInv /\ NumbersInv /\ CountInv /\ CheckInv => CheckpointExcludes
  <2> SUFFICES ASSUME LocksInv, NumbersInv, CountInv, CheckInv, Watchdog \in exec
               PROVE  /\ merge = Watchdog /\ reads = 0
                      /\ exec \cap (Meta \cup Writer \cup Publish) = {}
                      /\ status \in {"checkpointing", "storage_unhealthy"}
    BY DEF CheckpointExcludes
  <2>1. Watchdog \in Actor \ Query
    BY Kinds DEF Actor
  <2>2. Checkpoints(Watchdog) /\ merge = Watchdog
    BY <2>1, Kinds DEF LocksInv, Checkpoints, WritesOps, HoldsMerge
  <2>3. status = "checkpointing" /\ reads = 0
    BY <2>2 DEF CheckInv
  <2>4. ASSUME NEW t \in exec \cap (Meta \cup Writer \cup Publish) PROVE FALSE
    <3>1. t \in Actor \ Query
      BY Kinds DEF Actor, Task, Reader
    <3>2. t # Watchdog
      BY Kinds DEF Actor
    <3>3. merge # t /\ ~HoldsMerge(t)
      BY <2>2, <3>1, <3>2 DEF LocksInv
    <3>4. t \in Meta /\ pc[t] = "running"
      BY <3>1, <3>2, <3>3, Kinds DEF LocksInv, HoldsMerge, Checkpoints, WritesOps
    <3>5. t \in Reading
      BY <3>4 DEF Reading, Reads
    <3>6. Cardinality(Reading) # 0
      BY <3>5, CountedFinite, FS_EmptySet
    <3> QED BY <2>3, <3>6 DEF CountInv
  <2> QED BY <2>2, <2>3, <2>4
<1> QED BY <1>1, LocksHeld, CountsHeld, StatusHeld, PTL

\* A service that says it serves has its whole pool.
THEOREM ServingPoolIsWhole ==
  ASSUME IsFiniteSet(Reader)
  PROVE  Spec => []ServingHasPool
<1>1. PoolInv => ServingHasPool
  BY DEF PoolInv, ServingHasPool, Whole, Connections
<1> QED BY <1>1, PoolHeld, PTL

\* "ops_writing" does not outlive the last ___ops write.
THEOREM OpsWritingIsLeft ==
  ASSUME IsFiniteSet(Reader)
  PROVE  Spec => []OpsWritingEnds
<1>1. OpsInv => OpsWritingEnds
  BY DEF OpsInv, OpsWritingEnds
<1> QED BY <1>1, StatusHeld, PTL

-----------------------------------------------------------------------------
(* Every request is answered: what it rests on.  A request never goes back to *)
(* a point it has left, and as long as one is under way, some task can take a *)
(* step of its own.                                                          *)

\* Where a coroutine keeps the event loop to itself.
BlocksLoop(t) == \/ t \in Query /\ pc[t] = "blocking"
                 \/ t \in Writer /\ pc[t] = "refilled"

LoopInv == /\ \A t \in Actor : loop = t <=> BlocksLoop(t)
           /\ loop \in Actor \cup {None}

LoopKept(t) ==
  \/ loop' = loop /\ (BlocksLoop(t)' <=> BlocksLoop(t))
  \/ loop = None /\ loop' = t /\ BlocksLoop(t)'
  \/ BlocksLoop(t) /\ loop' = None /\ ~BlocksLoop(t)'

\* A step blocks the loop, or frees it again, with the task that is there.
LEMMA StepKeepsLoop ==
  ASSUME PointsInv,
         NEW t \in Actor,
         ReadStep(t) \/ WriteStep(t) \/ (t = Watchdog /\ DogStep)
  PROVE  LoopKept(t)
<1> USE Kinds DEF PointsInv, LoopKept, BlocksLoop, Role, At, Go, Free, held
<1>1. ASSUME Arrive(t) PROVE LoopKept(t)
  BY <1>1 DEF Arrive
<1>2. ASSUME Polled(t) PROVE LoopKept(t)
  BY <1>2 DEF Polled
<1>3. ASSUME TakeSlot(t) PROVE LoopKept(t)
  BY <1>3 DEF TakeSlot
<1>4. ASSUME SlotTimeout(t) PROVE LoopKept(t)
  BY <1>4 DEF SlotTimeout
<1>5. ASSUME Connect(t) PROVE LoopKept(t)
  BY <1>5 DEF Connect, Connected
<1>6. ASSUME Unblock(t) PROVE LoopKept(t)
  BY <1>6 DEF Unblock
<1>7. ASSUME BlockTimeout(t) PROVE LoopKept(t)
  BY <1>7 DEF BlockTimeout
<1>8. ASSUME QueryThreadEnds(t) PROVE LoopKept(t)
  BY <1>8 DEF QueryThreadEnds
<1>9. ASSUME FinishQuery(t) PROVE LoopKept(t)
  BY <1>9 DEF FinishQuery
<1>10. ASSUME StartNfl(t) PROVE LoopKept(t)
  BY <1>10 DEF StartNfl
<1>11. ASSUME ArriveMeta(t) PROVE LoopKept(t)
  BY <1>11 DEF ArriveMeta
<1>12. ASSUME OpsReadLocked(t) PROVE LoopKept(t)
  BY <1>12 DEF OpsReadLocked
<1>13. ASSUME OpsReadEnds(t) PROVE LoopKept(t)
  BY <1>13 DEF OpsReadEnds
<1>14. ASSUME FinishOpsRead(t) PROVE LoopKept(t)
  BY <1>14 DEF FinishOpsRead
<1>15. ASSUME TurnAway(t) PROVE LoopKept(t)
  BY <1>15 DEF TurnAway
<1>16. ASSUME ArriveWrite(t) PROVE LoopKept(t)
  BY <1>16 DEF ArriveWrite
<1>17. ASSUME OpsWriteBegins(t) PROVE LoopKept(t)
  BY <1>17 DEF OpsWriteBegins
<1>18. ASSUME OpsWriteGivesUp(t) PROVE LoopKept(t)
  BY <1>18 DEF OpsWriteGivesUp
<1>19. ASSUME OpsWriteEnds(t) PROVE LoopKept(t)
  BY <1>19 DEF OpsWriteEnds
<1>20. ASSUME BeginDrain(t) PROVE LoopKept(t)
  BY <1>20 DEF BeginDrain, ClosePool
<1>21. ASSUME EndDrain(t) PROVE LoopKept(t)
  BY <1>21 DEF EndDrain, ClosePool
<1>22. ASSUME WriteEnds(t) PROVE LoopKept(t)
  BY <1>22 DEF WriteEnds
<1>23. ASSUME Reopen(t) PROVE LoopKept(t)
  BY <1>23 DEF Reopen
<1>24. ASSUME Settle(t) PROVE LoopKept(t)
  BY <1>24 DEF Settle
<1>25. ASSUME ReopenFails(t) PROVE LoopKept(t)
  BY <1>25 DEF ReopenFails
<1>26. ASSUME RefusePublish(t) PROVE LoopKept(t)
  BY <1>26 DEF RefusePublish
<1>27. ASSUME AskPermit(t) PROVE LoopKept(t)
  BY <1>27 DEF AskPermit
<1>28. ASSUME AdmitPublish(t) PROVE LoopKept(t)
  BY <1>28 DEF AdmitPublish
<1>29. ASSUME Merge(t) PROVE LoopKept(t)
  BY <1>29 DEF Merge
<1>30. ASSUME MergeDeadline(t) PROVE LoopKept(t)
  BY <1>30 DEF MergeDeadline
<1>31. ASSUME MergeEnds(t) PROVE LoopKept(t)
  BY <1>31 DEF MergeEnds
<1>32. ASSUME FinishPublish(t) PROVE LoopKept(t)
  BY <1>32 DEF FinishPublish
<1>33. ASSUME t = Watchdog, Wake PROVE LoopKept(t)
  BY <1>33 DEF Wake
<1>34. ASSUME t = Watchdog, Probe PROVE LoopKept(t)
  BY <1>34 DEF Probe
<1>35. ASSUME t = Watchdog, DogConnects PROVE LoopKept(t)
  BY <1>35 DEF DogConnects
<1>36. ASSUME t = Watchdog, DogFindsNone PROVE LoopKept(t)
  BY <1>36 DEF DogFindsNone
<1>37. ASSUME t = Watchdog, DogReleases PROVE LoopKept(t)
  BY <1>37 DEF DogReleases
<1>38. ASSUME t = Watchdog, OpsCheckpointEnds PROVE LoopKept(t)
  BY <1>38 DEF OpsCheckpointEnds
<1>39. ASSUME t = Watchdog, Sound PROVE LoopKept(t)
  BY <1>39 DEF Sound
<1>40. ASSUME t = Watchdog, CheckpointSettles PROVE LoopKept(t)
  BY <1>40 DEF CheckpointSettles
<1>41. ASSUME t = Watchdog, Broken PROVE LoopKept(t)
  BY <1>41 DEF Broken
<1>42. ASSUME Recheck(t) PROVE LoopKept(t)
  BY <1>42 DEF Recheck
<1>43. ASSUME t = Watchdog, DogTakes PROVE LoopKept(t)
  BY <1>43 DEF DogTakes
<1>44. ASSUME t = Watchdog, DogReturns PROVE LoopKept(t)
  BY <1>44 DEF DogReturns
<1> HIDE DEF LoopKept
<1> QED BY <1>1, <1>2, <1>3, <1>4, <1>5, <1>6, <1>7, <1>8, <1>9, <1>10, <1>11, <1>12,
  <1>13, <1>14, <1>15, <1>16, <1>17, <1>18, <1>19, <1>20, <1>21, <1>22, <1>23, <1>24,
  <1>25, <1>26, <1>27, <1>28, <1>29, <1>30, <1>31, <1>32, <1>33, <1>34, <1>35, <1>36,
  <1>37, <1>38, <1>39, <1>40, <1>41, <1>42, <1>43, <1>44 DEF ReadStep, WriteStep, DogStep

\* The event loop is blocked by a query in the queue of an empty pool, or by a
\* writer that reopens the pool, and by nobody else.
LEMMA LoopHeld == Spec => []LoopInv
<1>1. Init => LoopInv
  BY Kinds DEF Init, LoopInv, BlocksLoop, Actor
<1>2. PointsInv /\ LoopInv /\ [Next]_vars => LoopInv'
  <2> SUFFICES ASSUME PointsInv, LoopInv, [Next]_vars PROVE LoopInv'
    OBVIOUS
  <2>1. ASSUME NEW t \in Actor, Walks(t), LoopKept(t) PROVE LoopInv'
    <3>1. ASSUME NEW u \in Actor, u # t PROVE BlocksLoop(u)' <=> BlocksLoop(u)
      BY <2>1, <3>1 DEF Walks, BlocksLoop
    <3> QED BY <2>1, <3>1, Kinds DEF LoopInv, LoopKept
  <2>2. CASE UNCHANGED vars
    BY <2>2 DEF vars, LoopInv, BlocksLoop
  <2>3. Reader \subseteq Actor /\ Task \subseteq Actor /\ Watchdog \in Actor
    BY DEF Actor, Task
  <2> QED BY <2>1, <2>2, <2>3, StepWalks, StepKeepsLoop DEF Next
<1> QED BY <1>1, <1>2, PointsHeld, PTL DEF Spec

\* Who is under way, who needs a turn of the event loop for its next step, and
\* who waits: for that turn, or for _merge_lock.
Started(t) == pc[t] \notin {"new", "asleep", "done"}

NeedsTurn(t) ==
  \/ pc[t] \in {"polling", "polled", "queued", "slotted", "ran", "draining", "written",
               "uploading", "admitting", "admitted", "merged", "sound", "broken", "ckdone", "ckfailed"}
  \/ t \in Query /\ pc[t] = "running"
  \/ t \in Writer /\ pc[t] = "locking"

Waits(t) ==
  \/ NeedsTurn(t) /\ loop # None
  \/ ((t \in Writer /\ pc[t] = "locking") \/ pc[t] = "admitted") /\ merge # None

SomeoneMoves ==
  (\E t \in Actor : Started(t)) => \E t \in Actor : Started(t) /\ ~Waits(t)

\* Whoever blocks the loop gives it back without a turn of its own, and whoever
\* holds _merge_lock waits for a turn at most: the waits form no circle.
THEOREM NoOneIsStuck == Spec => []SomeoneMoves
<1>1. PointsInv /\ LocksInv /\ LoopInv /\ TypesInv => SomeoneMoves
  <2> SUFFICES ASSUME PointsInv, LocksInv, LoopInv, TypesInv, NEW t \in Actor, Started(t)
               PROVE  \E u \in Actor : Started(u) /\ ~Waits(u)
    BY DEF SomeoneMoves
  <2>1. CASE loop # None
    <3>1. loop \in Actor /\ BlocksLoop(loop)
      BY <2>1 DEF LoopInv
    <3>2. Started(loop) /\ ~Waits(loop)
      BY <3>1, Kinds DEF BlocksLoop, Started, Waits, NeedsTurn
    <3> QED BY <3>1, <3>2
  <2>2. CASE loop = None /\ merge # None
    <3>1. merge \in Actor /\ HoldsMerge(merge)
      BY <2>2 DEF LocksInv, TypesInv, Actor, Task
    <3>2. Started(merge) /\ ~Waits(merge)
      BY <2>2, <3>1, Kinds DEF HoldsMerge, Checkpoints, Started, Waits
    <3> QED BY <3>1, <3>2
  <2>3. CASE loop = None /\ merge = None
    BY <2>3 DEF Waits
  <2> QED BY <2>1, <2>2, <2>3
<1> QED BY <1>1, PointsHeld, LocksHeld, LoopHeld, TypesHeld, PTL

(* A point, and the points a request may go to from there.                   *)

Places == {"new", "polling", "locking", "uploading", "polled", "queued", "draining",
            "admitting", "slotted", "writing", "admitted", "blocking", "written",
            "merging", "running", "refilled", "merged", "ran", "done"}

Rank == [p \in Places |->
  CASE p = "new" -> 0
    [] p \in {"polling", "locking", "uploading"} -> 1
    [] p = "polled" -> 2
    [] p \in {"queued", "draining", "admitting"} -> 3
    [] p \in {"slotted", "writing", "admitted"} -> 4
    [] p \in {"blocking", "written", "merging"} -> 5
    [] p \in {"running", "refilled", "merged"} -> 6
    [] p = "ran" -> 7
    [] OTHER -> 8]

LEMMA RankOf ==
  /\ Rank["new"] = 0 /\ Rank["polling"] = 1 /\ Rank["locking"] = 1 /\ Rank["uploading"] = 1
  /\ Rank["polled"] = 2
  /\ Rank["queued"] = 3 /\ Rank["draining"] = 3 /\ Rank["admitting"] = 3 /\ Rank["slotted"] = 4
  /\ Rank["writing"] = 4 /\ Rank["admitted"] = 4 /\ Rank["blocking"] = 5 /\ Rank["written"] = 5
  /\ Rank["merging"] = 5 /\ Rank["running"] = 6 /\ Rank["refilled"] = 6 /\ Rank["merged"] = 6
  /\ Rank["ran"] = 7 /\ Rank["done"] = 8
BY DEF Rank, Places

Leads(p, q) ==
  \/ p = "new" /\ q \in {"polling", "queued", "running", "locking", "uploading", "done"}
  \/ p = "polling" /\ q \in {"polled", "queued", "done"}
  \/ p = "polled" /\ q \in {"queued", "done"}
  \/ p = "queued" /\ q \in {"slotted", "done"}
  \/ p = "slotted" /\ q \in {"blocking", "running"}
  \/ p = "blocking" /\ q \in {"running", "done"}
  \/ p = "running" /\ q \in {"ran", "done"}
  \/ p = "ran" /\ q = "done"
  \/ p = "locking" /\ q \in {"draining", "writing", "done"}
  \/ p = "draining" /\ q = "writing"
  \/ p = "writing" /\ q \in {"written", "done"}
  \/ p = "written" /\ q \in {"refilled", "done"}
  \/ p = "refilled" /\ q = "done"
  \/ p = "uploading" /\ q \in {"admitting", "done"}
  \/ p = "admitting" /\ q \in {"admitted", "done"}
  \/ p = "admitted" /\ q = "merging"
  \/ p = "merging" /\ q = "merged"
  \/ p = "merged" /\ q = "done"

LEMMA LeadsUp == ASSUME NEW p, NEW q, Leads(p, q) PROVE Rank[q] > Rank[p]
<1>1. CASE p = "new" /\ q \in {"polling", "queued", "running", "locking", "uploading", "done"}
  <2>1. Rank[p] = 0 /\ Rank[q] \in {1, 3, 6, 8}
    BY <1>1, RankOf
  <2> QED BY <2>1
<1>2. CASE p = "polling" /\ q \in {"polled", "queued", "done"}
  <2>1. Rank[p] = 1 /\ Rank[q] \in {2, 3, 8}
    BY <1>2, RankOf
  <2> QED BY <2>1
<1>3. CASE p = "queued" /\ q \in {"slotted", "done"}
  <2>1. Rank[p] = 3 /\ Rank[q] \in {4, 8}
    BY <1>3, RankOf
  <2> QED BY <2>1
<1>4. CASE p = "slotted" /\ q \in {"blocking", "running"}
  <2>1. Rank[p] = 4 /\ Rank[q] \in {5, 6}
    BY <1>4, RankOf
  <2> QED BY <2>1
<1>5. CASE p = "blocking" /\ q \in {"running", "done"}
  <2>1. Rank[p] = 5 /\ Rank[q] \in {6, 8}
    BY <1>5, RankOf
  <2> QED BY <2>1
<1>6. CASE p = "running" /\ q \in {"ran", "done"}
  <2>1. Rank[p] = 6 /\ Rank[q] \in {7, 8}
    BY <1>6, RankOf
  <2> QED BY <2>1
<1>7. CASE p = "ran" /\ q = "done"
  <2>1. Rank[p] = 7 /\ Rank[q] = 8
    BY <1>7, RankOf
  <2> QED BY <2>1
<1>8. CASE p = "locking" /\ q \in {"draining", "writing", "done"}
  <2>1. Rank[p] = 1 /\ Rank[q] \in {3, 4, 8}
    BY <1>8, RankOf
  <2> QED BY <2>1
<1>9. CASE p = "draining" /\ q = "writing"
  <2>1. Rank[p] = 3 /\ Rank[q] = 4
    BY <1>9, RankOf
  <2> QED BY <2>1
<1>10. CASE p = "writing" /\ q \in {"written", "done"}
  <2>1. Rank[p] = 4 /\ Rank[q] \in {5, 8}
    BY <1>10, RankOf
  <2> QED BY <2>1
<1>11. CASE p = "written" /\ q \in {"refilled", "done"}
  <2>1. Rank[p] = 5 /\ Rank[q] \in {6, 8}
    BY <1>11, RankOf
  <2> QED BY <2>1
<1>12. CASE p = "refilled" /\ q = "done"
  <2>1. Rank[p] = 6 /\ Rank[q] = 8
    BY <1>12, RankOf
  <2> QED BY <2>1
<1>13. CASE p = "uploading" /\ q \in {"admitting", "done"}
  <2>1. Rank[p] = 1 /\ Rank[q] \in {3, 8}
    BY <1>13, RankOf
  <2> QED BY <2>1
<1>14. CASE p = "admitting" /\ q \in {"admitted", "done"}
  <2>1. Rank[p] = 3 /\ Rank[q] \in {4, 8}
    BY <1>14, RankOf
  <2> QED BY <2>1
<1>15. CASE p = "admitted" /\ q = "merging"
  <2>1. Rank[p] = 4 /\ Rank[q] = 5
    BY <1>15, RankOf
  <2> QED BY <2>1
<1>16. CASE p = "merging" /\ q = "merged"
  <2>1. Rank[p] = 5 /\ Rank[q] = 6
    BY <1>16, RankOf
  <2> QED BY <2>1
<1>17. CASE p = "merged" /\ q = "done"
  <2>1. Rank[p] = 6 /\ Rank[q] = 8
    BY <1>17, RankOf
  <2> QED BY <2>1
<1>18. CASE p = "polled" /\ q \in {"queued", "done"}
  <2>1. Rank[p] = 2 /\ Rank[q] \in {3, 8}
    BY <1>18, RankOf
  <2> QED BY <2>1
<1> QED BY <1>1, <1>2, <1>3, <1>4, <1>5, <1>6, <1>7, <1>8, <1>9, <1>10, <1>11, <1>12,
  <1>13, <1>14, <1>15, <1>16, <1>17, <1>18 DEF Leads

\* A step leaves its task where it is - its thread ends, or its deadline passes -
\* or takes it on.
Forward(t) == pc'[t] = pc[t] \/ Leads(pc[t], pc'[t])

LEMMA StepGoesForward ==
  ASSUME PointsInv, LocksInv,
         NEW t \in Task, ReadStep(t) \/ WriteStep(t)
  PROVE  Forward(t)
<1>0. t \in Actor /\ t # Watchdog
  BY GateAssumption DEF GateAssumption, Actor
<1> USE <1>0, Kinds DEF PointsInv, Forward, Leads, Role, At, Go
<1>1. ASSUME Arrive(t) PROVE Forward(t)
  BY <1>1 DEF Arrive
<1>2. ASSUME Polled(t) PROVE Forward(t)
  BY <1>2 DEF Polled
<1>3. ASSUME TakeSlot(t) PROVE Forward(t)
  BY <1>3 DEF TakeSlot
<1>4. ASSUME SlotTimeout(t) PROVE Forward(t)
  BY <1>4 DEF SlotTimeout
<1>5. ASSUME Connect(t) PROVE Forward(t)
  BY <1>5 DEF Connect, Connected
<1>6. ASSUME Unblock(t) PROVE Forward(t)
  BY <1>6 DEF Unblock
<1>7. ASSUME BlockTimeout(t) PROVE Forward(t)
  BY <1>7 DEF BlockTimeout
<1>8. ASSUME QueryThreadEnds(t) PROVE Forward(t)
  BY <1>8 DEF QueryThreadEnds
<1>9. ASSUME FinishQuery(t) PROVE Forward(t)
  BY <1>9 DEF FinishQuery
<1>10. ASSUME StartNfl(t) PROVE Forward(t)
  BY <1>10 DEF StartNfl
<1>11. ASSUME ArriveMeta(t) PROVE Forward(t)
  BY <1>11 DEF ArriveMeta
<1>12. ASSUME OpsReadLocked(t) PROVE Forward(t)
  BY <1>12 DEF OpsReadLocked
<1>13. ASSUME OpsReadEnds(t) PROVE Forward(t)
  BY <1>13 DEF OpsReadEnds, LocksInv, WritesOps, Checkpoints
<1>14. ASSUME FinishOpsRead(t) PROVE Forward(t)
  BY <1>14 DEF FinishOpsRead
<1>15. ASSUME TurnAway(t) PROVE Forward(t)
  BY <1>15 DEF TurnAway
<1>16. ASSUME ArriveWrite(t) PROVE Forward(t)
  BY <1>16 DEF ArriveWrite
<1>17. ASSUME OpsWriteBegins(t) PROVE Forward(t)
  BY <1>17 DEF OpsWriteBegins
<1>18. ASSUME OpsWriteGivesUp(t) PROVE Forward(t)
  BY <1>18 DEF OpsWriteGivesUp
<1>19. ASSUME OpsWriteEnds(t) PROVE Forward(t)
  BY <1>19 DEF OpsWriteEnds
<1>20. ASSUME BeginDrain(t) PROVE Forward(t)
  BY <1>20 DEF BeginDrain, ClosePool
<1>21. ASSUME EndDrain(t) PROVE Forward(t)
  BY <1>21 DEF EndDrain, ClosePool
<1>22. ASSUME WriteEnds(t) PROVE Forward(t)
  BY <1>22 DEF WriteEnds
<1>23. ASSUME Reopen(t) PROVE Forward(t)
  BY <1>23 DEF Reopen
<1>24. ASSUME Settle(t) PROVE Forward(t)
  BY <1>24 DEF Settle
<1>25. ASSUME ReopenFails(t) PROVE Forward(t)
  BY <1>25 DEF ReopenFails
<1>26. ASSUME RefusePublish(t) PROVE Forward(t)
  BY <1>26 DEF RefusePublish
<1>27. ASSUME AskPermit(t) PROVE Forward(t)
  BY <1>27 DEF AskPermit
<1>28. ASSUME AdmitPublish(t) PROVE Forward(t)
  BY <1>28 DEF AdmitPublish
<1>29. ASSUME Merge(t) PROVE Forward(t)
  BY <1>29 DEF Merge
<1>30. ASSUME MergeDeadline(t) PROVE Forward(t)
  BY <1>30 DEF MergeDeadline
<1>31. ASSUME MergeEnds(t) PROVE Forward(t)
  BY <1>31 DEF MergeEnds
<1>32. ASSUME FinishPublish(t) PROVE Forward(t)
  BY <1>32 DEF FinishPublish
<1>33. ASSUME Recheck(t) PROVE Forward(t)
  BY <1>33 DEF Recheck
<1> HIDE DEF Forward
<1> QED BY <1>1, <1>2, <1>3, <1>4, <1>5, <1>6, <1>7, <1>8, <1>9, <1>10, <1>11, <1>12,
  <1>13, <1>14, <1>15, <1>16, <1>17, <1>18, <1>19, <1>20, <1>21, <1>22, <1>23, <1>24,
  <1>25, <1>26, <1>27, <1>28, <1>29, <1>30, <1>31, <1>32, <1>33 DEF ReadStep, WriteStep

RequestsGoForward ==
  [][\A t \in Task : pc'[t] # pc[t] => Rank[pc'[t]] > Rank[pc[t]]]_vars

\* No request goes back: whatever it waits for, it moves at most eight times.
THEOREM RequestsOnlyGoForward == Spec => RequestsGoForward
<1>1. PointsInv /\ LocksInv /\ [Next]_vars
        => [\A t \in Task : pc'[t] # pc[t] => Rank[pc'[t]] > Rank[pc[t]]]_vars
  <2> SUFFICES ASSUME PointsInv, LocksInv, Next, NEW t \in Task, pc'[t] # pc[t]
               PROVE  Rank[pc'[t]] > Rank[pc[t]]
    BY DEF vars
  <2>1. Reader \subseteq Actor /\ Task \subseteq Actor /\ Watchdog \in Actor
    BY DEF Actor, Task
  <2>2. PICK u \in Actor : ReadStep(u) \/ WriteStep(u) \/ (u = Watchdog /\ DogStep)
    BY <2>1 DEF Next
  <2>3. u = t
    BY <2>1, <2>2, StepWalks DEF Walks
  <2>4. Forward(t)
    BY <2>1, <2>2, <2>3, StepGoesForward, GateAssumption DEF GateAssumption
  <2> QED BY <2>4, LeadsUp DEF Forward
<1> QED BY <1>1, PointsHeld, LocksHeld, PTL DEF Spec, RequestsGoForward

=============================================================================
