-------------------------- MODULE DeltaPublishProofs --------------------------
(***************************************************************************)
(* What the publication protocol guarantees for any leagues, bundles, keys *)
(* and bounds, proved from an inductive invariant.                         *)
(***************************************************************************)
EXTENDS DeltaPublish, FiniteSetTheorems, TLAPS

USE DEF Lanes, Statuses, Codes, Stages, Terminal, PCs

-----------------------------------------------------------------------------
(* Type correctness.                                                       *)

\* A publisher's step keeps every variable in its type.
LEMMA PublisherType ==
  ASSUME TypeOK, PublishAssumption, NEW b \in Bundle, Publisher(b)
  PROVE  TypeOK'
<1> USE DEF TypeOK, PublishAssumption, durable, worker, publishers
<1>1. CASE CaptureGeneration(b)
  <2>1. [l \in League |-> IF l \in Scope[b] THEN gen[l] ELSE 0] \in [League -> Nat]
    OBVIOUS
  <2> QED BY <1>1, <2>1 DEF CaptureGeneration
<1>2. CASE BuildBundle(b)
  <2>1. [l \in League |-> IF l \in Scope[b] THEN facts[l] ELSE {}]
           \in [League -> SUBSET Bundle]
    OBVIOUS
  <2> QED BY <1>2, <2>1 DEF BuildBundle
<1>3. CASE Post(b)
  <2>1. [b |-> b, n |-> tries[b] + 1] \in Request /\ tries[b] + 1 \in 0..MaxTries
    BY <1>3 DEF Post, MayPost, Request
  <2> QED BY <1>3, <2>1 DEF Post
<1>s. \A p \in PCs : Settle(b, p) =>
        pc' \in [Bundle -> PCs] /\ reply' \in [Bundle -> Codes \cup {None}]
  BY DEF Settle
<1>4. CASE HandleReply(b)
  <2>1. pc' \in [Bundle -> PCs] /\ reply' \in [Bundle -> Codes \cup {None}]
    <3>1. \/ \E p \in PCs : Settle(b, p)
          \/ pc' = [pc EXCEPT ![b] = "reconciling"] /\ reply' = reply
      BY <1>4, Zenon DEF HandleReply
    <3> QED BY <3>1, <1>s
  <2> QED BY <1>4, <2>1 DEF HandleReply
<1>5. CASE Timeout(b)
  BY <1>5 DEF Timeout
<1>6. CASE Reconcile(b)
  <2>1. pc' \in [Bundle -> PCs] /\ reply' \in [Bundle -> Codes \cup {None}]
    BY <1>6, <1>s DEF Reconcile
  <2> QED BY <1>6, <2>1 DEF Reconcile
<1> QED BY <1>1, <1>2, <1>3, <1>4, <1>5, <1>6 DEF Publisher

\* A merge worker's step keeps every variable in its type.
LEMMA WorkerType ==
  ASSUME TypeOK, PublishAssumption, NEW b \in Bundle, Worker(b)
  PROVE  TypeOK'
<1> USE DEF TypeOK, PublishAssumption, durable, worker, publishers, Answer, WriteFails
<1>r. \A st \in Statuses : PutReceipt(b, st) => receipt' \in [Key -> Row \cup {None}]
  BY DEF PutReceipt, Row
<1>l. LosesReceipt(b) => receipt' \in [Key -> Row \cup {None}]
  BY DEF LosesReceipt
<1>1. CASE Enter(b)
  BY <1>1, <1>r, <1>l DEF Enter
<1>2. CASE Validate(b)
  BY <1>2, <1>r, <1>l DEF Validate
<1>3. CASE BeginTransaction(b)
  BY <1>3 DEF BeginTransaction
<1>4. CASE StepFails(b)
  BY <1>4 DEF StepFails
<1>5. CASE DeadlineExpires(b)
  BY <1>5 DEF DeadlineExpires
<1>6. CASE Commit(b)
  <2>1. ReplacedFacts(b) \in [League -> SUBSET Bundle] /\ BumpedGen(b) \in [League -> Nat]
    BY DEF ReplacedFacts, BumpedGen
  <2>2. CommitDurably(b) =>
          /\ facts' \in [League -> SUBSET Bundle] /\ gen' \in [League -> Nat]
          /\ receipt' \in [Key -> Row \cup {None}]
          /\ latest' \in [League -> Bundle \cup {None}]
          /\ applied' \in [Bundle -> Nat]
    BY <2>1, <1>r DEF CommitDurably
  <2> QED BY <1>6, <2>2 DEF Commit
<1>7. CASE RecordFailure(b)
  BY <1>7, <1>r, <1>l DEF RecordFailure
<1>8. CASE Respond(b)
  BY <1>8 DEF Respond
<1> QED BY <1>1, <1>2, <1>3, <1>4, <1>5, <1>6, <1>7, <1>8 DEF Worker

\* Admission, the lock, the window and a restart keep every variable in its type.
LEMMA ServerType ==
  ASSUME TypeOK, PublishAssumption,
         \/ \E r \in Request : Admit(r) \/ Refuse(r) \/ TakeLock(r)
         \/ \E on \in BOOLEAN : SetFleetLock(on)
         \/ CrashRestart
  PROVE  TypeOK'
<1> USE DEF TypeOK, PublishAssumption, durable, worker, publishers
<1>1. ASSUME NEW r \in Request, Admit(r) PROVE TypeOK'
  BY <1>1 DEF Admit
<1>2. ASSUME NEW r \in Request, Refuse(r) PROVE TypeOK'
  <2>1. r.b \in Bundle
    BY DEF Request
  <2> QED BY <1>2, <2>1 DEF Refuse
<1>3. ASSUME NEW r \in Request, TakeLock(r) PROVE TypeOK'
  BY <1>3 DEF TakeLock
<1>4. ASSUME NEW on \in BOOLEAN, SetFleetLock(on) PROVE TypeOK'
  BY <1>4 DEF SetFleetLock
<1>5. CASE CrashRestart
  <2>1. inbox' \subseteq Request /\ admitted' \subseteq Request
    BY <1>5 DEF CrashRestart
  <2>2. healthy' \in BOOLEAN /\ armed' \in BOOLEAN
    BY <1>5, Zenon DEF CrashRestart
  <2>c. crashes' \in Nat
    BY <1>5 DEF CrashRestart
  <2>3. cur' \in Request \cup {None} /\ stage' \in Stages /\ code' \in Codes \cup {None}
    BY <1>5 DEF CrashRestart
  <2> QED BY <1>5, <2>1, <2>2, <2>c, <2>3 DEF CrashRestart
<1> QED BY <1>1, <1>2, <1>3, <1>4, <1>5

\* Type correctness is inductive.
LEMMA TypeStep == ASSUME PublishAssumption PROVE TypeOK /\ [Next]_vars => TypeOK'
<1> SUFFICES ASSUME TypeOK, [Next]_vars PROVE TypeOK'
  OBVIOUS
<1>1. CASE UNCHANGED vars
  BY <1>1 DEF TypeOK, vars, durable, worker, publishers, Row
<1>2. CASE Next
  BY <1>2, PublisherType, WorkerType, ServerType DEF Next
<1> QED BY <1>1, <1>2

\* The initial state is type-correct.
LEMMA InitType == ASSUME PublishAssumption, Init PROVE TypeOK
<1> USE DEF Init, PublishAssumption
<1>1. inbox \subseteq Request /\ admitted \subseteq Request /\ cur \in Request \cup {None}
  OBVIOUS
<1>2. stage \in Stages /\ code \in Codes \cup {None} /\ healthy \in BOOLEAN
        /\ fleetLock \in BOOLEAN /\ armed \in BOOLEAN
  OBVIOUS
<1>3. tries \in [Bundle -> 0..MaxTries] /\ pc \in [Bundle -> PCs]
        /\ reply \in [Bundle -> Codes \cup {None}] /\ receipt \in [Key -> Row \cup {None}]
  OBVIOUS
<1> QED BY <1>1, <1>2, <1>3 DEF TypeOK

\* Every variable of the protocol (main.py's globals, the DuckDB state tables,
\* the local variables of a publisher) keeps its type, for any constants.
THEOREM TypeCorrect == Spec => []TypeOK
<1>1. Init => TypeOK
  BY InitType, PublishAssumption
<1>2. TypeOK /\ [Next]_vars => TypeOK'
  BY TypeStep, PublishAssumption
<1> QED BY <1>1, <1>2, PTL DEF Spec
-----------------------------------------------------------------------------
(* The inductive invariant.                                                *)

Started(b) == pc[b] \notin {"new", "fetching"}

\* The worker runs for the request that holds the lock, and only then.
LockInv ==
  /\ stage = "idle" <=> cur = None
  /\ code = "committed" => stage = "done" /\ Committed(cur.b)

\* A bundle on the server, or committed by it, has been built.
StartedInv ==
  /\ \A r \in inbox \cup admitted : Started(r.b)
  /\ cur # None => Started(cur.b)
  /\ \A b \in Bundle : Committed(b) => Started(b)

\* From its first receipt on, the worker's key is its own, and not COMMITTED
\* before its commit.
ReceiptInv ==
  stage \in {"received", "validated", "staged", "failing"} =>
    /\ receipt[KeyOf[cur.b]] # None
    /\ receipt[KeyOf[cur.b]].by = cur.b
    /\ stage # "failing" => receipt[KeyOf[cur.b]].st # "COMMITTED"

\* The fence: a bundle whose base is still the generation of a league was built
\* from what that league holds.
FenceInv ==
  /\ \A b \in Bundle, l \in League : base[b][l] <= gen[l]
  /\ \A b \in Bundle : Started(b) =>
       \A l \in Scope[b] : base[b][l] = gen[l] => seen[b][l] = facts[l]

\* What the worker found when it compared the generations, and what it found
\* of the manifest, still holds when it commits.
StagedInv ==
  /\ stage = "staged" /\ cur.b \in Fenced => Current(cur.b)
  /\ stage \in {"received", "validated", "staged"} /\ RequireBase => cur.b \in Fenced

\* A success reported, or on its way to the publisher, has its receipt.
OutcomeInv ==
  /\ \A b \in Bundle : reply[b] = "committed" => Committed(b)
  /\ \A b \in Bundle : pc[b] = "committed" => Committed(b)
  /\ \A b \in Bundle : Committed(b) => \A l \in Scope[b] : base[b][l] < gen[l]

IInv ==
  /\ TypeOK /\ LockInv /\ StartedInv /\ ReceiptInv /\ ExactlyOnce
  /\ FenceInv /\ StagedInv /\ OutcomeInv

\* The initial state satisfies the invariant.
LEMMA InitInv == ASSUME PublishAssumption, Init PROVE IInv
<1> USE DEF Init, PublishAssumption
<1>1. TypeOK
  BY InitType
<1>2. \A b \in Bundle : ~Committed(b) /\ ~Started(b)
  BY DEF Committed, Started
<1>3. LockInv /\ ReceiptInv
  BY DEF LockInv, ReceiptInv
<1>4. StartedInv
  BY <1>2 DEF StartedInv
<1>5. ExactlyOnce
  BY <1>2 DEF ExactlyOnce
<1>6. FenceInv /\ StagedInv
  BY <1>2 DEF FenceInv, StagedInv
<1>7. OutcomeInv
  BY <1>2 DEF OutcomeInv
<1> QED BY <1>1, <1>3, <1>4, <1>5, <1>6, <1>7 DEF IInv

\* A step that shows nothing to the reader of the store.
Quiet ==
  UNCHANGED <<facts, gen, latest>> /\ \A c \in Bundle : Committed(c)' <=> Committed(c)

\* A publisher's step preserves the invariant and commits nothing.
LEMMA PublisherInv ==
  ASSUME IInv, PublishAssumption, NEW b \in Bundle, Publisher(b)
  PROVE  IInv' /\ Quiet
<1> USE DEF PublishAssumption
<1>t. TypeOK /\ TypeOK'
  BY PublisherType DEF IInv
<1>0. /\ UNCHANGED <<durable, worker, admitted, applied>>
      /\ \A c \in Bundle : Committed(c)' <=> Committed(c)
  BY DEF Publisher, CaptureGeneration, BuildBundle, Post, HandleReply, Timeout, Reconcile,
         Committed, durable, worker
<1> USE <1>0 DEF durable, worker
<1>1. LockInv' /\ ReceiptInv' /\ ExactlyOnce'
  <2>1. LockInv' = LockInv /\ ReceiptInv' = ReceiptInv
    BY DEF LockInv, ReceiptInv, Committed
  <2>2. ExactlyOnce'
    BY DEF IInv, ExactlyOnce
  <2> QED BY <2>1, <2>2 DEF IInv
<1>2. \A c \in Bundle : Started(c) => Started(c)'
  BY <1>t DEF Publisher, CaptureGeneration, BuildBundle, Post, HandleReply, Timeout, Reconcile,
              Settle, Started, TypeOK
<1>3. StartedInv'
  <2>1. inbox' = inbox \/ (inbox' = inbox \cup {[b |-> b, n |-> tries[b] + 1]} /\ Started(b)')
    BY <1>t DEF Publisher, CaptureGeneration, BuildBundle, Post, HandleReply, Timeout, Reconcile,
                Started, TypeOK
  <2>2. \A r \in inbox \cup admitted : r.b \in Bundle
    BY <1>t DEF TypeOK, Request
  <2>3. cur # None => cur.b \in Bundle
    BY <1>t DEF TypeOK, Request
  <2> QED BY <1>2, <2>1, <2>2, <2>3 DEF IInv, StartedInv
<1>4. FenceInv' /\ StagedInv'
  <2>1. CASE CaptureGeneration(b)
    <3>1. \A c \in Bundle, l \in League : base'[c][l] <= gen[l]
      BY <1>t, <2>1 DEF CaptureGeneration, IInv, FenceInv, TypeOK
    <3>2. \A c \in Bundle : Started(c)' => c # b /\ Started(c)
      BY <1>t, <2>1 DEF CaptureGeneration, Started, TypeOK
    <3>3. \A c \in Bundle : c # b => base'[c] = base[c] /\ seen'[c] = seen[c]
      BY <1>t, <2>1 DEF CaptureGeneration, TypeOK
    <3>4. cur # None => cur.b \in Bundle /\ cur.b # b
      BY <1>t, <2>1 DEF CaptureGeneration, IInv, StartedInv, Started, TypeOK, Request
    <3>5. stage = "staged" => cur # None
      BY DEF IInv, LockInv
    <3> QED BY <3>1, <3>2, <3>3, <3>4, <3>5 DEF IInv, FenceInv, StagedInv, Current
  <2>2. CASE BuildBundle(b)
    <3>1. \A l \in Scope[b] : seen'[b][l] = facts[l]
      BY <1>t, <2>2 DEF BuildBundle, TypeOK
    <3>2. \A c \in Bundle : c # b => (Started(c)' => Started(c)) /\ seen'[c] = seen[c]
      BY <1>t, <2>2 DEF BuildBundle, Started, TypeOK
    <3>3. base' = base
      BY <2>2 DEF BuildBundle
    <3> QED BY <3>1, <3>2, <3>3 DEF IInv, FenceInv, StagedInv, Current
  <2>3. CASE Post(b) \/ HandleReply(b) \/ Timeout(b) \/ Reconcile(b)
    <3>1. \A c \in Bundle : Started(c)' => Started(c)
      BY <1>t, <2>3 DEF Post, HandleReply, Timeout, Reconcile, Settle, Started, TypeOK
    <3>2. base' = base /\ seen' = seen
      BY <2>3 DEF Post, HandleReply, Timeout, Reconcile
    <3> QED BY <3>1, <3>2 DEF IInv, FenceInv, StagedInv, Current
  <2> QED BY <2>1, <2>2, <2>3 DEF Publisher
<1>5. OutcomeInv'
  <2>1. \A c \in Bundle : reply'[c] = "committed" => Committed(c)
    BY <1>t DEF Publisher, CaptureGeneration, BuildBundle, Post, HandleReply, Timeout, Reconcile,
                Settle, IInv, OutcomeInv, TypeOK
  <2>2. \A c \in Bundle : pc'[c] = "committed" => Committed(c)
    BY <1>t DEF Publisher, CaptureGeneration, BuildBundle, Post, HandleReply, Timeout, Reconcile,
                Settle, Trusted, IInv, OutcomeInv, TypeOK
  <2>3. \A c \in Bundle : Committed(c) => base'[c] = base[c]
    BY <1>t DEF Publisher, CaptureGeneration, BuildBundle, Post, HandleReply, Timeout, Reconcile,
                IInv, StartedInv, Started, TypeOK
  <2> QED BY <2>1, <2>2, <2>3 DEF IInv, OutcomeInv
<1>q. Quiet
  BY DEF Quiet
<1> QED BY <1>q, <1>t, <1>1, <1>3, <1>4, <1>5 DEF IInv

Server ==
  \/ \E r \in Request : Admit(r) \/ Refuse(r) \/ TakeLock(r)
  \/ \E on \in BOOLEAN : SetFleetLock(on)
  \/ CrashRestart

\* So do admission, the lock, the window and a restart.
LEMMA ServerInv == ASSUME IInv, PublishAssumption, Server PROVE IInv' /\ Quiet
<1> USE DEF PublishAssumption
<1>t. TypeOK /\ TypeOK'
  BY ServerType DEF IInv, Server
<1>0. /\ UNCHANGED <<facts, gen, latest, receipt, pc, base, seen, applied>>
      /\ \A c \in Bundle : Committed(c)' <=> Committed(c)
      /\ \A c \in Bundle : Started(c)' <=> Started(c)
  BY DEF Server, Admit, Refuse, TakeLock, SetFleetLock, CrashRestart, durable, publishers,
         Committed, Started
<1>1. /\ inbox' \cup admitted' \subseteq inbox \cup admitted
      /\ cur' \in {cur, None} \cup admitted
  BY DEF Server, Admit, Refuse, TakeLock, SetFleetLock, CrashRestart, worker
<1>2. \/ cur' = cur /\ stage' = stage /\ code' = code
      \/ cur' # None /\ stage' = "entered" /\ code' = None
      \/ cur' = None /\ stage' = "idle" /\ code' = None
  BY <1>t DEF Server, Admit, Refuse, TakeLock, SetFleetLock, CrashRestart, worker, TypeOK
<1>3. \A r \in Request : r.b \in Bundle
  BY DEF Request
<1>4. LockInv' /\ ReceiptInv'
  <2>1. cur # None => cur.b \in Bundle
    BY <1>t, <1>3 DEF TypeOK
  <2>2. code = "committed" => cur # None
    BY DEF IInv, LockInv
  <2> QED BY <1>0, <1>2, <2>1, <2>2 DEF IInv, LockInv, ReceiptInv
<1>5. StartedInv'
  BY <1>t, <1>0, <1>1, <1>3 DEF IInv, StartedInv, TypeOK
<1>6. ExactlyOnce'
  BY <1>0 DEF IInv, ExactlyOnce
<1>7. FenceInv' /\ StagedInv'
  BY <1>0, <1>2 DEF IInv, FenceInv, StagedInv, Current
<1>8. OutcomeInv'
  <2>1. \A c \in Bundle : reply'[c] = "committed" => reply[c] = "committed"
    BY <1>t DEF Server, Admit, Refuse, TakeLock, SetFleetLock, CrashRestart, publishers, TypeOK
  <2> QED BY <1>0, <2>1 DEF IInv, OutcomeInv
<1>q. Quiet
  BY <1>0 DEF Quiet
<1> QED BY <1>q, <1>t, <1>4, <1>5, <1>6, <1>7, <1>8 DEF IInv

\* A receipt written for b while its key is free, or b's own and not COMMITTED,
\* changes what is committed for b only.
LEMMA ReceiptWrite ==
  ASSUME TypeOK, PublishAssumption, NEW b \in Bundle, NEW st \in Statuses,
         ~HashMismatch(b), ~Committed(b), PutReceipt(b, st)
  PROVE  /\ \A c \in Bundle \ {b} : ~(KeyOf[c] = KeyOf[b] /\ Committed(c))
         /\ \A c \in Bundle \ {b} : Committed(c)' <=> Committed(c)
         /\ Committed(b)' <=> st = "COMMITTED"
         /\ receipt'[KeyOf[b]] # None
         /\ receipt'[KeyOf[b]].by = b /\ receipt'[KeyOf[b]].st = st
<1>1. receipt' \in [Key -> Row \cup {None}] /\ KeyOf[b] \in Key
  BY DEF TypeOK, PublishAssumption, PutReceipt, Row
<1>2. receipt'[KeyOf[b]] = [st |-> st, by |-> b] /\ [st |-> st, by |-> b] \in Row
  BY <1>1 DEF PutReceipt, TypeOK, Row
<1>3. receipt'[KeyOf[b]] # None
  BY <1>2 DEF PublishAssumption
<1>4. \A c \in Bundle \ {b} : ~(KeyOf[c] = KeyOf[b] /\ Committed(c))
  BY DEF HashMismatch, Committed
<1>5. \A k \in Key \ {KeyOf[b]} : receipt'[k] = receipt[k]
  BY DEF PutReceipt, TypeOK
<1>6. \A c \in Bundle \ {b} : Committed(c)' <=> Committed(c)
  <2> SUFFICES ASSUME NEW c \in Bundle \ {b} PROVE Committed(c)' <=> Committed(c)
    OBVIOUS
  <2>1. CASE KeyOf[c] = KeyOf[b]
    BY <2>1, <1>2, <1>4 DEF Committed
  <2>2. CASE KeyOf[c] # KeyOf[b]
    <3>1. KeyOf[c] \in Key \ {KeyOf[b]}
      BY <2>2 DEF PublishAssumption
    <3> QED BY <3>1, <1>5 DEF Committed
  <2> QED BY <2>1, <2>2
<1> QED BY <1>2, <1>3, <1>4, <1>6 DEF Committed

\* Nor does the loss of such a receipt.
LEMMA ReceiptLoss ==
  ASSUME TypeOK, PublishAssumption, NEW b \in Bundle,
         ~HashMismatch(b), ~Committed(b), LosesReceipt(b)
  PROVE  \A c \in Bundle : Committed(c)' <=> Committed(c)
<1> SUFFICES ASSUME NEW c \in Bundle PROVE Committed(c)' <=> Committed(c)
  OBVIOUS
<1>1. KeyOf[b] \in Key /\ KeyOf[c] \in Key
  BY DEF PublishAssumption
<1>2. CASE KeyOf[c] = KeyOf[b]
  <2>1. receipt'[KeyOf[c]] = None
    BY <1>1, <1>2 DEF LosesReceipt, TypeOK
  <2>2. ~Committed(c)
    BY <1>2 DEF HashMismatch, Committed
  <2> QED BY <2>1, <2>2 DEF Committed
<1>3. CASE KeyOf[c] # KeyOf[b]
  <2>1. receipt'[KeyOf[c]] = receipt[KeyOf[c]]
    BY <1>1, <1>3 DEF LosesReceipt, TypeOK
  <2> QED BY <2>1 DEF Committed
<1> QED BY <1>2, <1>3

\* What a worker may do to the receipts outside a COMMIT: nothing, or write or
\* lose its own while its key is free or its own and not COMMITTED.
TouchesReceipt(b) ==
  \/ receipt' = receipt
  \/ /\ ~HashMismatch(b) /\ ~Committed(b)
     /\ LosesReceipt(b) \/ \E st \in Statuses \ {"COMMITTED"} : PutReceipt(b, st)

\* What the worker of b knows of its own receipt.
LEMMA WorkerKey ==
  ASSUME IInv, PublishAssumption, NEW b \in Bundle,
         stage \in {"received", "validated", "staged"}, cur.b = b
  PROVE  ~HashMismatch(b) /\ ~Committed(b)
BY DEF IInv, ReceiptInv, HashMismatch, Committed

\* A worker step is taken for the request that holds the lock.
LEMMA WorkerBusy ==
  ASSUME IInv, NEW b \in Bundle, Worker(b)
  PROVE  stage # "idle" /\ cur # None /\ cur.b = b /\ Started(b)
<1>1. stage # "idle" /\ cur.b = b
  BY DEF Worker, Enter, Validate, BeginTransaction, StepFails, DeadlineExpires, Commit,
         RecordFailure, Finished, Respond
<1> QED BY <1>1 DEF IInv, LockInv, StartedInv

\* A worker step that commits nothing leaves all but the worker's own part of
\* the invariant as it was.
LEMMA NothingCommitted ==
  ASSUME IInv, PublishAssumption, NEW b \in Bundle, cur # None, cur.b = b, TypeOK',
         UNCHANGED <<facts, gen, inbox, admitted, pc, base, seen, applied>>,
         cur' = cur, reply' = reply, TouchesReceipt(b)
  PROVE  /\ \A c \in Bundle : Committed(c)' <=> Committed(c)
         /\ StartedInv' /\ ExactlyOnce' /\ FenceInv' /\ OutcomeInv'
<1>1. \A c \in Bundle : Committed(c)' <=> Committed(c)
  <2>1. CASE receipt' = receipt
    BY <2>1 DEF Committed
  <2>2. ASSUME ~HashMismatch(b), ~Committed(b),
               NEW st \in Statuses \ {"COMMITTED"}, PutReceipt(b, st)
        PROVE  \A c \in Bundle : Committed(c)' <=> Committed(c)
    <3>1. /\ \A c \in Bundle \ {b} : Committed(c)' <=> Committed(c)
          /\ Committed(b)' <=> st = "COMMITTED"
      BY <2>2, ReceiptWrite DEF IInv
    <3> QED BY <3>1, <2>2
  <2>3. CASE ~HashMismatch(b) /\ ~Committed(b) /\ LosesReceipt(b)
    BY <2>3, ReceiptLoss DEF IInv
  <2> QED BY <2>1, <2>2, <2>3 DEF TouchesReceipt
<1>2. \A c \in Bundle : Started(c)' <=> Started(c)
  BY DEF Started
<1>3. \A r \in inbox \cup admitted : r.b \in Bundle
  BY DEF IInv, TypeOK, Request
<1>4. StartedInv'
  BY <1>1, <1>2, <1>3 DEF IInv, StartedInv
<1>5. ExactlyOnce' /\ FenceInv' /\ OutcomeInv'
  BY <1>1, <1>2 DEF IInv, ExactlyOnce, FenceInv, OutcomeInv
<1> QED BY <1>1, <1>4, <1>5

\* The checks before the transaction preserve the invariant.
LEMMA EnterInv ==
  ASSUME IInv, PublishAssumption, NEW b \in Bundle, Enter(b) PROVE IInv' /\ Quiet
<1>t. TypeOK /\ TypeOK'
  BY WorkerType DEF Worker, IInv
<1>0. stage # "idle" /\ cur # None /\ cur.b = b /\ cur' = cur
  BY WorkerBusy DEF Worker, Enter, Answer, WriteFails
<1>1. \/ /\ receipt' = receipt /\ stage' = "done" /\ code' # "committed"
      \/ /\ ~HashMismatch(b) /\ ~Committed(b)
         /\ LosesReceipt(b) /\ stage' = "done" /\ code' = "error"
      \/ /\ receipt' = receipt /\ stage' = "done" /\ Committed(b)
      \/ /\ ~HashMismatch(b) /\ ~Committed(b)
         /\ PutReceipt(b, "CONFLICT") /\ stage' = "done" /\ code' = "stale"
      \/ /\ ~HashMismatch(b) /\ ~Committed(b) /\ ~Unfenced(b)
         /\ PutReceipt(b, "RECEIVED") /\ stage' = "received" /\ code' = code
  BY DEF Enter, Answer, WriteFails
<1>2. /\ UNCHANGED <<facts, gen, latest, inbox, admitted, pc, base, seen, reply, applied>>
      /\ TouchesReceipt(b)
  BY <1>1 DEF Enter, publishers, TouchesReceipt
<1>3. /\ \A c \in Bundle : Committed(c)' <=> Committed(c)
      /\ StartedInv' /\ ExactlyOnce' /\ FenceInv' /\ OutcomeInv'
  BY <1>t, <1>0, <1>2, NothingCommitted
<1>4. code # "committed"
  BY DEF Enter, IInv, LockInv
<1>5. LockInv'
  BY <1>0, <1>1, <1>3, <1>4 DEF LockInv
<1>6. ReceiptInv' /\ StagedInv'
  <2>1. CASE stage' = "done"
    BY <2>1 DEF ReceiptInv, StagedInv
  <2>2. CASE ~HashMismatch(b) /\ ~Committed(b) /\ ~Unfenced(b)
             /\ PutReceipt(b, "RECEIVED") /\ stage' = "received"
    <3>1. /\ receipt'[KeyOf[b]] # None
          /\ receipt'[KeyOf[b]].by = b /\ receipt'[KeyOf[b]].st = "RECEIVED"
      BY <1>t, <2>2, ReceiptWrite
    <3>2. RequireBase => b \in Fenced
      BY <2>2 DEF Unfenced, PublishAssumption
    <3> QED BY <3>1, <3>2, <1>0, <2>2 DEF ReceiptInv, StagedInv
  <2> QED BY <1>1, <2>1, <2>2
<1>q. Quiet
  BY <1>2, <1>3 DEF Quiet
<1> QED BY <1>q, <1>t, <1>3, <1>5, <1>6 DEF IInv

\* Recording VALIDATED preserves the invariant, and so does failing to.
LEMMA ValidateInv ==
  ASSUME IInv, PublishAssumption, NEW b \in Bundle, Validate(b) PROVE IInv' /\ Quiet
<1>t. TypeOK /\ TypeOK'
  BY WorkerType DEF Worker, IInv
<1>0. stage # "idle" /\ cur # None /\ cur.b = b /\ cur' = cur
  BY WorkerBusy DEF Worker, Validate, WriteFails, Answer
<1>1. ~HashMismatch(b) /\ ~Committed(b)
  BY <1>0, WorkerKey DEF Validate
<1>2. /\ UNCHANGED <<facts, gen, latest, inbox, admitted, pc, base, seen, reply, applied>>
      /\ TouchesReceipt(b)
  BY <1>1 DEF Validate, WriteFails, publishers, TouchesReceipt
<1>3. /\ \A c \in Bundle : Committed(c)' <=> Committed(c)
      /\ StartedInv' /\ ExactlyOnce' /\ FenceInv' /\ OutcomeInv'
  BY <1>t, <1>0, <1>2, NothingCommitted
<1>q. Quiet
  BY <1>2, <1>3 DEF Quiet
<1>4. CASE PutReceipt(b, "VALIDATED") /\ stage' = "validated" /\ code' = code
  <2>1. /\ receipt'[KeyOf[b]] # None
        /\ receipt'[KeyOf[b]].by = b /\ receipt'[KeyOf[b]].st = "VALIDATED"
    BY <1>t, <1>1, <1>4, ReceiptWrite
  <2>2. LockInv'
    BY <1>0, <1>4 DEF Validate, IInv, LockInv
  <2>3. ReceiptInv' /\ StagedInv'
    BY <1>0, <1>4, <2>1 DEF Validate, IInv, ReceiptInv, StagedInv
  <2> QED BY <1>q, <1>t, <1>3, <2>2, <2>3 DEF IInv
<1>5. CASE stage' = "done" /\ code' = "error"
  <2>1. LockInv' /\ ReceiptInv' /\ StagedInv'
    BY <1>0, <1>5 DEF LockInv, ReceiptInv, StagedInv
  <2> QED BY <1>q, <1>t, <1>3, <2>1 DEF IInv
<1> QED BY <1>4, <1>5 DEF Validate, WriteFails, Answer

\* Opening the transaction, a failing statement and the deadline preserve the invariant.
LEMMA TransactionInv ==
  ASSUME IInv, PublishAssumption, NEW b \in Bundle,
         BeginTransaction(b) \/ StepFails(b) \/ DeadlineExpires(b)
  PROVE  IInv' /\ Quiet
<1>t. TypeOK /\ TypeOK'
  BY WorkerType DEF Worker, IInv
<1>0. stage # "idle" /\ cur # None /\ cur.b = b /\ cur' = cur
  BY WorkerBusy DEF Worker, BeginTransaction, StepFails, DeadlineExpires
<1>1. UNCHANGED <<facts, gen, latest, receipt, inbox, admitted, pc, base, seen, reply, applied>>
  BY DEF BeginTransaction, StepFails, DeadlineExpires, durable, publishers
<1>r. TouchesReceipt(b)
  BY <1>1 DEF TouchesReceipt
<1>2. /\ \A c \in Bundle : Committed(c)' <=> Committed(c)
      /\ StartedInv' /\ ExactlyOnce' /\ FenceInv' /\ OutcomeInv'
  BY <1>t, <1>0, <1>1, <1>r, NothingCommitted
<1>3. LockInv'
  BY <1>0 DEF BeginTransaction, StepFails, DeadlineExpires, IInv, LockInv
<1>4. ReceiptInv' /\ StagedInv'
  BY <1>0, <1>1 DEF BeginTransaction, StepFails, DeadlineExpires, IInv, ReceiptInv, StagedInv,
                    Current
<1>q. Quiet
  BY <1>1, <1>2 DEF Quiet
<1> QED BY <1>q, <1>t, <1>2, <1>3, <1>4 DEF IInv

\* What COMMIT makes durable is one step of the store: b becomes committed, and
\* nothing else does.
LEMMA DurableStep ==
  ASSUME IInv, PublishAssumption, NEW b \in Bundle, stage = "staged", cur.b = b,
         CommitDurably(b)
  PROVE  /\ ~Committed(b) /\ Committed(b)'
         /\ \A c \in Bundle \ {b} : Committed(c)' <=> Committed(c)
         /\ applied' = [applied EXCEPT ![b] = applied[b] + 1]
         /\ \A l \in League : gen'[l] = IF l \in Scope[b] THEN gen[l] + 1 ELSE gen[l]
         /\ \A l \in League :
              facts'[l] = IF l \in Scope[b] THEN seen[b][l] \cup {b} ELSE facts[l]
<1>1. ~HashMismatch(b) /\ ~Committed(b)
  BY WorkerKey
<1>2. /\ Committed(b)' /\ \A c \in Bundle \ {b} : Committed(c)' <=> Committed(c)
  BY <1>1, ReceiptWrite DEF CommitDurably, IInv
<1> QED BY <1>1, <1>2 DEF CommitDurably, BumpedGen, ReplacedFacts

\* COMMIT, whatever comes of it, preserves the invariant.
LEMMA CommitInv ==
  ASSUME IInv, PublishAssumption, NEW b \in Bundle, Commit(b)
  PROVE  IInv' /\ (CommitDurably(b) \/ Quiet)
<1>t. TypeOK /\ TypeOK'
  BY WorkerType DEF Worker, IInv
<1>0. stage = "staged" /\ cur # None /\ cur.b = b /\ cur' = cur
  BY WorkerBusy DEF Worker, Commit
<1>1. stage' \in {"failing", "done"} /\ (code' = "committed" => stage' = "done" /\ CommitDurably(b))
  BY DEF Commit
<1>2. ReceiptInv' /\ StagedInv'
  <2>1. CommitDurably(b) => receipt'[KeyOf[b]] # None /\ receipt'[KeyOf[b]].by = b
    <3>1. ~HashMismatch(b) /\ ~Committed(b)
      BY <1>0, WorkerKey
    <3> QED BY <1>t, <3>1, ReceiptWrite DEF CommitDurably
  <2>2. ~CommitDurably(b) => receipt' = receipt
    BY DEF Commit
  <2> QED BY <1>0, <1>1, <2>1, <2>2 DEF IInv, ReceiptInv, StagedInv
<1>3. UNCHANGED <<inbox, admitted, pc, base, seen, reply>>
  BY DEF Commit, publishers
<1>4. CASE CommitDurably(b)
  <2>1. /\ ~Committed(b) /\ Committed(b)'
        /\ \A c \in Bundle \ {b} : Committed(c)' <=> Committed(c)
        /\ applied' = [applied EXCEPT ![b] = applied[b] + 1]
        /\ \A l \in League : gen'[l] = IF l \in Scope[b] THEN gen[l] + 1 ELSE gen[l]
        /\ \A l \in League :
             facts'[l] = IF l \in Scope[b] THEN seen[b][l] \cup {b} ELSE facts[l]
    BY <1>0, <1>4, DurableStep
  <2>2. LockInv'
    BY <1>0, <1>1, <2>1 DEF LockInv
  <2>3. StartedInv'
    <3>1. Started(b)
      BY <1>0 DEF IInv, StartedInv
    <3> QED BY <1>3, <1>0, <2>1, <3>1 DEF IInv, StartedInv, Started
  <2>4. ExactlyOnce'
    BY <1>t, <2>1 DEF IInv, ExactlyOnce, TypeOK
  <2>5. \A l \in League : gen[l] \in Nat /\ \A c \in Bundle : base[c][l] \in Nat
    BY <1>t DEF TypeOK
  <2>6. \A c \in Bundle : Scope[c] \subseteq League
    BY DEF PublishAssumption
  <2>7. FenceInv'
    <3>1. \A c \in Bundle, l \in League : base[c][l] <= gen'[l]
      BY <2>1, <2>5 DEF IInv, FenceInv
    <3>2. ASSUME NEW c \in Bundle, Started(c), NEW l \in Scope[c], base[c][l] = gen'[l]
          PROVE  seen[c][l] = facts'[l]
      <4>1. l \in League /\ base[c][l] <= gen[l]
        BY <2>6 DEF IInv, FenceInv
      <4>2. gen[l] \in Nat /\ base[c][l] \in Nat
        BY <4>1, <2>5
      <4>3. gen'[l] # gen[l] + 1
        BY <3>2, <4>1, <4>2
      <4>4. l \notin Scope[b] /\ gen'[l] = gen[l] /\ facts'[l] = facts[l]
        BY <4>1, <4>3, <2>1
      <4> QED BY <3>2, <4>4 DEF IInv, FenceInv
    <3> QED BY <1>3, <3>1, <3>2 DEF FenceInv, Started
  <2>8. OutcomeInv'
    <3>1. \A l \in Scope[b] : base[b][l] < gen'[l]
      BY <2>1, <2>5, <2>6 DEF IInv, FenceInv
    <3>2. \A c \in Bundle \ {b} : Committed(c) => \A l \in Scope[c] : base[c][l] < gen'[l]
      BY <2>1, <2>5, <2>6 DEF IInv, OutcomeInv
    <3> QED BY <1>3, <2>1, <3>1, <3>2 DEF IInv, OutcomeInv
  <2> QED BY <1>t, <1>4, <1>2, <2>2, <2>3, <2>4, <2>7, <2>8 DEF IInv
<1>5. CASE ~CommitDurably(b)
  <2>1. UNCHANGED <<facts, gen, latest, receipt, applied>>
    BY <1>5 DEF Commit
  <2>2. /\ \A c \in Bundle : Committed(c)' <=> Committed(c)
        /\ StartedInv' /\ ExactlyOnce' /\ FenceInv' /\ OutcomeInv'
    BY <1>t, <1>0, <1>3, <2>1, NothingCommitted DEF TouchesReceipt
  <2>3. LockInv'
    BY <1>0, <1>1, <1>5 DEF LockInv
  <2> QED BY <1>t, <1>2, <2>1, <2>2, <2>3 DEF IInv, Quiet
<1> QED BY <1>4, <1>5

\* Recording a failure preserves the invariant: a COMMITTED receipt is kept.
LEMMA RecordFailureInv ==
  ASSUME IInv, PublishAssumption, NEW b \in Bundle, RecordFailure(b) PROVE IInv' /\ Quiet
<1>t. TypeOK /\ TypeOK'
  BY WorkerType DEF Worker, IInv
<1>0. stage = "failing" /\ cur # None /\ cur.b = b /\ cur' = cur
  BY WorkerBusy DEF Worker, RecordFailure
<1>1. stage' = "done" /\ code' # "committed"
  BY DEF RecordFailure, IInv, LockInv
<1>2. UNCHANGED <<facts, gen, latest, inbox, admitted, pc, base, seen, reply, applied>>
  BY DEF RecordFailure, publishers
<1>3. TouchesReceipt(b)
  <2>1. ~KeepsReceipt(b) => ~HashMismatch(b) /\ ~Committed(b)
    BY <1>0 DEF IInv, ReceiptInv, KeepsReceipt, HashMismatch, Committed
  <2> QED BY <2>1 DEF RecordFailure, TouchesReceipt
<1>4. /\ \A c \in Bundle : Committed(c)' <=> Committed(c)
      /\ StartedInv' /\ ExactlyOnce' /\ FenceInv' /\ OutcomeInv'
  BY <1>t, <1>0, <1>2, <1>3, NothingCommitted
<1>5. LockInv' /\ ReceiptInv' /\ StagedInv'
  BY <1>0, <1>1 DEF LockInv, ReceiptInv, StagedInv
<1>q. Quiet
  BY <1>2, <1>4 DEF Quiet
<1> QED BY <1>q, <1>t, <1>4, <1>5 DEF IInv

\* Releasing the lock preserves the invariant.
LEMMA RespondInv ==
  ASSUME IInv, PublishAssumption, NEW b \in Bundle, Respond(b) PROVE IInv' /\ Quiet
<1>t. TypeOK /\ TypeOK'
  BY WorkerType DEF Worker, IInv
<1>0. stage = "done" /\ cur # None /\ cur.b = b
  BY WorkerBusy DEF Worker, Respond, Finished
<1>1. /\ cur' = None /\ stage' = "idle" /\ code' = None
      /\ UNCHANGED <<facts, gen, latest, receipt, inbox, admitted, pc, base, seen, applied>>
      /\ \A c \in Bundle : Committed(c)' <=> Committed(c)
      /\ \A c \in Bundle : Started(c)' <=> Started(c)
  BY DEF Respond, durable, Committed, Started
<1>2. LockInv' /\ ReceiptInv' /\ StagedInv'
  BY <1>1 DEF LockInv, ReceiptInv, StagedInv, PublishAssumption
<1>3. StartedInv'
  <2>1. \A r \in inbox \cup admitted : r.b \in Bundle
    BY <1>t DEF TypeOK, Request
  <2> QED BY <1>1, <2>1 DEF IInv, StartedInv
<1>4. ExactlyOnce' /\ FenceInv'
  BY <1>1 DEF IInv, ExactlyOnce, FenceInv
<1>5. OutcomeInv'
  <2>1. \A c \in Bundle : reply'[c] = "committed" => Committed(c)
    BY <1>t, <1>0 DEF Respond, IInv, OutcomeInv, LockInv, TypeOK
  <2> QED BY <1>1, <2>1 DEF IInv, OutcomeInv
<1>q. Quiet
  BY <1>1 DEF Quiet
<1> QED BY <1>q, <1>t, <1>2, <1>3, <1>4, <1>5 DEF IInv

\* Every worker step preserves the invariant; only a COMMIT shows in the store.
LEMMA WorkerInv ==
  ASSUME IInv, PublishAssumption, NEW b \in Bundle, Worker(b)
  PROVE  IInv' /\ (Quiet \/ (Commit(b) /\ CommitDurably(b)))
BY EnterInv, ValidateInv, TransactionInv, CommitInv, RecordFailureInv, RespondInv DEF Worker

\* The invariant is inductive, and a step is quiet or a COMMIT.
LEMMA InvStep ==
  ASSUME PublishAssumption, IInv, [Next]_vars
  PROVE  IInv' /\ (Quiet \/ \E b \in Bundle : Commit(b) /\ CommitDurably(b))
<1>1. CASE UNCHANGED vars
  <2>1. TypeOK'
    BY <1>1, TypeStep DEF IInv
  <2>2. /\ LockInv' = LockInv /\ StartedInv' = StartedInv /\ ReceiptInv' = ReceiptInv
        /\ ExactlyOnce' = ExactlyOnce /\ FenceInv' = FenceInv /\ StagedInv' = StagedInv
        /\ OutcomeInv' = OutcomeInv
        /\ Quiet
    BY <1>1 DEF vars, durable, worker, publishers, LockInv, StartedInv, Started, ReceiptInv,
                ExactlyOnce, Committed, FenceInv, StagedInv, Current, OutcomeInv, Quiet
  <2> QED BY <2>1, <2>2 DEF IInv
<1>2. CASE Next
  BY <1>2, PublisherInv, WorkerInv, ServerInv DEF Next, Server
<1> QED BY <1>1, <1>2

\* The inductive invariant holds of every behaviour of the protocol.
THEOREM Invariance == Spec => []IInv
<1>1. Init => IInv
  BY InitInv, PublishAssumption
<1>2. IInv /\ [Next]_vars => IInv'
  BY InvStep, PublishAssumption
<1> QED BY <1>1, <1>2, PTL DEF Spec

-----------------------------------------------------------------------------
(* What follows.                                                           *)

\* A bundle's update reaches the disk exactly as often as its receipt says.
THEOREM CommitsOnce == Spec => []ExactlyOnce
<1>1. IInv => ExactlyOnce
  BY DEF IInv
<1> QED BY <1>1, Invariance, PTL

\* A publisher that reports success has its data on disk.
THEOREM SuccessDurable == Spec => []SuccessIsDurable
<1>1. IInv => SuccessIsDurable
  <2> SUFFICES ASSUME IInv, NEW b \in Bundle, pc[b] = "committed"
               PROVE  Committed(b) /\ \A l \in Scope[b] : gen[l] > base[b][l]
    BY DEF SuccessIsDurable
  <2>1. Committed(b) /\ \A l \in Scope[b] : base[b][l] < gen[l]
    BY DEF IInv, OutcomeInv
  <2>2. \A l \in Scope[b] : base[b][l] \in Nat /\ gen[l] \in Nat
    BY PublishAssumption DEF IInv, TypeOK, PublishAssumption
  <2> QED BY <2>1, <2>2
<1> QED BY <1>1, Invariance, PTL

\* A step either commits one bundle, as the store's Publish does, or leaves what
\* the store shows alone.  The fence is what makes the first true.
LEMMA StoreStep ==
  ASSUME PublishAssumption, RequireBase, IInv, [Next]_vars
  PROVE  [\E b \in Bundle : Store!Publish(b)]_<<facts, gen, {b \in Bundle : Committed(b)}>>
<1>1. ASSUME NEW b \in Bundle, Commit(b), CommitDurably(b)
      PROVE  Store!Publish(b)
  <2>1. stage = "staged" /\ cur.b = b /\ Current(b) /\ Started(b)
    BY <1>1, WorkerBusy DEF Commit, Worker, IInv, StagedInv
  <2>2. /\ ~Committed(b) /\ Committed(b)'
        /\ \A c \in Bundle \ {b} : Committed(c)' <=> Committed(c)
    BY <1>1, <2>1, DurableStep
  <2>3. {c \in Bundle : Committed(c)}' = {c \in Bundle : Committed(c)} \cup {b}
    BY <2>2
  <2>4. \A l \in Scope[b] : seen[b][l] = facts[l]
    BY <2>1 DEF Current, IInv, FenceInv
  <2> QED BY <1>1, <2>2, <2>3, <2>4
          DEF Store!Publish, CommitDurably, ReplacedFacts, BumpedGen
<1>2. ASSUME Quiet
      PROVE  UNCHANGED <<facts, gen, {b \in Bundle : Committed(b)}>>
  BY <1>2 DEF Quiet
<1>3. Quiet \/ \E b \in Bundle : Commit(b) /\ CommitDurably(b)
  BY InvStep
<1> QED BY <1>1, <1>2, <1>3

\* The initial states of the protocol are initial states of the store.
LEMMA StoreInit == ASSUME Init PROVE Store!Init
<1>1. {b \in Bundle : Committed(b)} = {}
  BY PublishAssumption DEF Init, Committed, PublishAssumption
<1> QED BY <1>1 DEF Init, Store!Init

\* Under the fence the protocol implements the store: each merge is one atomic
\* step that loses nothing, whatever the publishers, the workers and the crashes do.
THEOREM Refinement == ASSUME RequireBase PROVE Spec => StoreSpec
<1>1. Init => Store!Init
  BY StoreInit
<1>2. IInv /\ [Next]_vars
        => [Store!Next]_<<facts, gen, {b \in Bundle : Committed(b)}>>
  BY StoreStep, PublishAssumption DEF Store!Next
<1> QED BY <1>1, <1>2, Invariance, PTL DEF Spec, StoreSpec, Store!Spec

\* G14: no merge of either lane loses an update that a league reflects.
THEOREM NoLostUpdate == ASSUME RequireBase PROVE Spec => NoRewind
<1>1. IInv /\ [Next]_vars => [\A l \in League : facts[l] \subseteq facts'[l]]_vars
  <2> SUFFICES ASSUME IInv, [Next]_vars
               PROVE  \A l \in League : facts[l] \subseteq facts'[l]
    OBVIOUS
  <2>1. \/ \E b \in Bundle : Store!Publish(b)
        \/ facts' = facts
    BY StoreStep, PublishAssumption
  <2>2. ASSUME NEW b \in Bundle, Store!Publish(b)
        PROVE  \A l \in League : facts[l] \subseteq facts'[l]
    BY <2>2 DEF Store!Publish
  <2> QED BY <2>1, <2>2
<1> QED BY <1>1, Invariance, PTL DEF Spec, NoRewind

-----------------------------------------------------------------------------
(* The fleet window, the generations and the order of the runs.            *)

\* A merge under way has passed the checks that precede its transaction, and
\* nobody can undo that while it holds the lock.
Merging == stage \in {"received", "validated", "staged"}

WindowInv == Merging => ~WindowShut(cur.b)

\* The window stays as the merge under way found it.
LEMMA WindowStep ==
  ASSUME PublishAssumption, IInv, WindowInv, [Next]_vars PROVE WindowInv'
<1> SUFFICES ASSUME Merging' PROVE ~WindowShut(cur.b)'
  BY DEF WindowInv
<1>t. IInv'
  BY InvStep
<1>1. CASE UNCHANGED vars
  BY <1>1 DEF vars, durable, worker, WindowInv, WindowShut, Merging
<1>2. ASSUME NEW b \in Bundle, Publisher(b) PROVE ~WindowShut(cur.b)'
  BY <1>2 DEF Publisher, CaptureGeneration, BuildBundle, Post, HandleReply, Timeout, Reconcile,
              durable, worker, WindowInv, WindowShut, Merging
<1>3. ASSUME NEW b \in Bundle, Worker(b) PROVE ~WindowShut(cur.b)'
  BY <1>3 DEF Worker, Enter, Validate, BeginTransaction, StepFails, DeadlineExpires, Commit,
              RecordFailure, Respond, Answer, WriteFails, durable, WindowInv, WindowShut, Merging
<1>4. CASE Server
  <2>1. SetFleetLock(TRUE) \/ SetFleetLock(FALSE) => ~Merging'
    BY DEF SetFleetLock, worker, Merging, IInv, LockInv
  <2>2. \A on \in BOOLEAN : SetFleetLock(on) => ~Merging'
    BY <2>1
  <2> QED BY <1>4, <2>2 DEF Server, Admit, Refuse, TakeLock, CrashRestart, worker, durable,
                            WindowInv, WindowShut, Merging
<1> QED BY <1>1, <1>2, <1>3, <1>4 DEF Next, Server

\* While the fleet publish window is open for the fleet, no repair bundle commits.
THEOREM WindowRespected == Spec => LockWindow
<1>1. Init => WindowInv
  BY DEF Init, WindowInv, Merging
<1>2. IInv /\ WindowInv /\ [Next]_vars => WindowInv'
  BY WindowStep, PublishAssumption
<1>3. IInv /\ WindowInv /\ [Next]_vars =>
        [\A b \in Bundle : fleetLock /\ Lane[b] = "repair" /\ ~Committed(b) => ~Committed(b)']_vars
  <2> SUFFICES ASSUME IInv, WindowInv, [Next]_vars, NEW b \in Bundle, fleetLock,
                      Lane[b] = "repair", ~Committed(b)
               PROVE  ~Committed(b)'
    OBVIOUS
  <2>1. CASE Quiet
    BY <2>1 DEF Quiet
  <2>2. ASSUME NEW c \in Bundle, Commit(c), CommitDurably(c) PROVE ~Committed(b)'
    <3>1. stage = "staged" /\ cur.b = c
      BY <2>2 DEF Commit
    <3>2. c # b
      BY <3>1 DEF WindowInv, Merging, WindowShut
    <3> QED BY <2>2, <3>1, <3>2, DurableStep, PublishAssumption
  <2> QED BY <2>1, <2>2, InvStep, PublishAssumption
<1> QED BY <1>1, <1>2, <1>3, Invariance, PTL DEF Spec, LockWindow

\* The generation of a league counts the bundles committed to it.
THEOREM GenerationCounts ==
  ASSUME IsFiniteSet(Bundle) PROVE Spec => []GenerationCountsCommits
<1> DEFINE Done(l) == {b \in Bundle : Committed(b) /\ l \in Scope[b]}
<1>1. Init => GenerationCountsCommits
  <2> SUFFICES ASSUME Init, NEW l \in League PROVE gen[l] = Cardinality(Done(l))
    BY DEF GenerationCountsCommits
  <2>1. Done(l) = {}
    BY PublishAssumption DEF Init, Committed, PublishAssumption
  <2> QED BY <2>1, FS_EmptySet DEF Init
<1>2. IInv /\ GenerationCountsCommits /\ [Next]_vars => GenerationCountsCommits'
  <2> SUFFICES ASSUME IInv, GenerationCountsCommits, [Next]_vars, NEW l \in League
               PROVE  gen'[l] = Cardinality(Done(l)')
    BY DEF GenerationCountsCommits
  <2>0. gen[l] = Cardinality(Done(l))
    BY DEF GenerationCountsCommits
  <2>1. CASE Quiet
    <3>1. Done(l)' = Done(l)
      BY <2>1 DEF Quiet
    <3> HIDE DEF Done
    <3> QED BY <2>0, <2>1, <3>1 DEF Quiet
  <2>2. ASSUME NEW b \in Bundle, Commit(b), CommitDurably(b)
        PROVE  gen'[l] = Cardinality(Done(l)')
    <3>1. stage = "staged" /\ cur.b = b
      BY <2>2 DEF Commit
    <3>2. /\ ~Committed(b) /\ Committed(b)'
          /\ \A c \in Bundle \ {b} : Committed(c)' <=> Committed(c)
          /\ gen'[l] = IF l \in Scope[b] THEN gen[l] + 1 ELSE gen[l]
      BY <2>2, <3>1, DurableStep, PublishAssumption
    <3>3. Done(l)' = IF l \in Scope[b] THEN Done(l) \cup {b} ELSE Done(l)
      BY <3>2
    <3>4. b \notin Done(l)
      BY <3>2
    <3>5. IsFiniteSet(Done(l))
      BY FS_Subset
    <3> HIDE DEF Done
    <3>6. Cardinality(Done(l) \cup {b}) = Cardinality(Done(l)) + 1
      BY <3>4, <3>5, FS_AddElement
    <3> QED BY <2>0, <3>2, <3>3, <3>6
  <2> QED BY <2>1, <2>2, InvStep, PublishAssumption
<1> QED BY <1>1, <1>2, Invariance, PTL DEF Spec

\* Every repair run has an integer id (the order_gap run shows what happens
\* when one has not).
IntegerOrders == \A b \in Bundle : Lane[b] = "repair" => Order[b] \in Nat

\* b has been, or is about to be, given up as older.
Skipped(b) ==
  \/ reply[b] = "stale" \/ pc[b] = "stale"
  \/ cur # None /\ cur.b = b /\ code = "stale"

OrderInv ==
  /\ \A l \in League : latest[l] # None => Lane[latest[l]] = "repair"
  /\ \A b \in Bundle : Committed(b) /\ Lane[b] = "repair" =>
       \A l \in Scope[b] : latest[l] # None /\ Order[b] <= Order[latest[l]]
  /\ Merging => ~Older(cur.b)
  /\ \A b \in Bundle : Skipped(b) => Older(b) /\ ~Committed(b)

\* A commit that passed the order check leaves every older bundle older.
LEMMA CommitOrder ==
  ASSUME PublishAssumption, IntegerOrders, IInv, OrderInv,
         NEW b \in Bundle, Commit(b), CommitDurably(b)
  PROVE  /\ ~Older(b)
         /\ \A c \in Bundle : Older(c) => Older(c)' /\ c # b
         /\ \A l \in League : latest'[l] # None => Lane[latest'[l]] = "repair"
         /\ \A c \in Bundle : Committed(c)' /\ Lane[c] = "repair" =>
              \A l \in Scope[c] : latest'[l] # None /\ Order[c] <= Order[latest'[l]]
<1>0. ~Older(b) /\ stage = "staged" /\ cur.b = b
  BY DEF Commit, OrderInv, Merging
<1>1. \A l \in League : latest'[l] = IF l \in Scope[b] /\ Lane[b] = "repair" THEN b ELSE latest[l]
  BY DEF CommitDurably
<1>2. \A c \in Bundle : Scope[c] \subseteq League
  BY DEF PublishAssumption
<1>3. \A l \in League : latest[l] # None => latest[l] \in Bundle /\ Order[latest[l]] \in Nat
  BY DEF IInv, TypeOK, OrderInv, IntegerOrders
<1>4. NoOrder \notin Nat /\ b # None
  BY DEF PublishAssumption
<1>5. \A l \in Scope[b] : Lane[b] = "repair" /\ latest[l] # None =>
        Order[b] \in Nat /\ Order[latest[l]] <= Order[b]
  BY <1>0, <1>2, <1>3, <1>4 DEF Older, IntegerOrders
<1>6. \A c \in Bundle : Older(c) => Older(c)' /\ c # b
  <2> SUFFICES ASSUME NEW c \in Bundle, Older(c) PROVE Older(c)'
    BY <1>0
  <2>1. PICK l \in Scope[c] : latest[l] # None /\ Order[c] < Order[latest[l]]
    BY DEF Older
  <2>2. Lane[c] = "repair" /\ Order[c] \in Nat /\ l \in League
    BY <1>2 DEF Older, IntegerOrders
  <2>3. CASE l \in Scope[b] /\ Lane[b] = "repair"
    <3>1. latest'[l] = b /\ Order[b] \in Nat /\ Order[c] < Order[b]
      BY <1>1, <1>3, <1>5, <2>1, <2>2, <2>3
    <3> QED BY <3>1, <2>2, <1>4 DEF Older
  <2>4. CASE ~(l \in Scope[b] /\ Lane[b] = "repair")
    <3>1. latest'[l] = latest[l] /\ Order[latest[l]] \in Nat
      BY <1>1, <1>3, <2>1, <2>2, <2>4
    <3> QED BY <3>1, <2>1, <2>2, <1>4 DEF Older
  <2> QED BY <2>3, <2>4
<1>7. \A l \in League : latest'[l] # None => Lane[latest'[l]] = "repair"
  BY <1>1 DEF OrderInv
<1>8. ASSUME NEW c \in Bundle, Committed(c)', Lane[c] = "repair", NEW l \in Scope[c]
      PROVE  latest'[l] # None /\ Order[c] <= Order[latest'[l]]
  <2>1. l \in League /\ Order[c] \in Nat
    BY <1>2, <1>8 DEF IntegerOrders
  <2>2. CASE c = b
    BY <1>1, <1>4, <1>8, <2>1, <2>2
  <2>3. CASE c # b
    <3>1. Committed(c)
      BY <1>0, <1>8, <2>3, DurableStep
    <3>2. latest[l] # None /\ Order[c] <= Order[latest[l]]
      BY <1>8, <3>1 DEF OrderInv
    <3> QED BY <1>1, <1>3, <1>4, <1>5, <2>1, <3>2
  <2> QED BY <2>2, <2>3
<1> QED BY <1>0, <1>6, <1>7, <1>8

\* A bundle becomes skipped only by the order check of its own merge.
LEMMA SkippedStep ==
  ASSUME PublishAssumption, IInv, [Next]_vars, NEW b \in Bundle, Skipped(b)'
  PROVE  Skipped(b) \/ (Enter(b) /\ Older(b) /\ ~Committed(b))
<1>1. CASE UNCHANGED vars
  BY <1>1 DEF vars, worker, publishers, Skipped
<1>2. ASSUME NEW c \in Bundle, Publisher(c) PROVE Skipped(b)
  BY <1>2 DEF Publisher, CaptureGeneration, BuildBundle, Post, HandleReply, Timeout, Reconcile,
              Settle, StaleAnswer, worker, Skipped, IInv, TypeOK
<1>3. ASSUME NEW c \in Bundle, Enter(c) PROVE Skipped(b) \/ (Enter(b) /\ Older(b) /\ ~Committed(b))
  BY <1>3 DEF Enter, Answer, WriteFails, publishers, Skipped
<1>4. ASSUME NEW c \in Bundle,
             Validate(c) \/ BeginTransaction(c) \/ StepFails(c) \/ DeadlineExpires(c)
               \/ Commit(c) \/ RecordFailure(c)
      PROVE  Skipped(b)
  BY <1>4 DEF Validate, Answer, WriteFails, BeginTransaction, StepFails, DeadlineExpires, Commit,
              RecordFailure, publishers, Skipped
<1>5. ASSUME NEW c \in Bundle, Respond(c) PROVE Skipped(b)
  <2>1. cur # None
    BY <1>5, WorkerBusy DEF Worker
  <2> QED BY <1>5, <2>1 DEF Respond, Finished, Skipped, IInv, TypeOK
<1>6. CASE Server
  BY <1>6 DEF Server, Admit, Refuse, TakeLock, SetFleetLock, CrashRestart, worker, publishers,
              Skipped, IInv, TypeOK, PublishAssumption
<1> QED BY <1>1, <1>2, <1>3, <1>4, <1>5, <1>6 DEF Next, Server, Worker

\* The order invariant is inductive when run ids are integers.
LEMMA OrderStep ==
  ASSUME PublishAssumption, IntegerOrders, IInv, OrderInv, [Next]_vars
  PROVE  OrderInv'
<1>1. CASE Quiet
  <2>1. \A b \in Bundle : Older(b)' <=> Older(b)
    BY <1>1 DEF Quiet, Older
  <2>2. Merging' => ~Older(cur.b)'
    <3>1. \/ Merging /\ cur' = cur
          \/ ~Merging'
          \/ \E b \in Bundle : Enter(b) /\ cur' = cur /\ cur.b = b /\ ~Older(b)
      <4>1. CASE UNCHANGED vars
        BY <4>1 DEF vars, worker, Merging
      <4>2. CASE \E b \in Bundle : Publisher(b)
        BY <4>2 DEF Publisher, CaptureGeneration, BuildBundle, Post, HandleReply, Timeout,
                    Reconcile, worker, Merging
      <4>3. ASSUME NEW b \in Bundle, Enter(b)
            PROVE  ~Merging' \/ (cur' = cur /\ cur.b = b /\ ~Older(b))
        BY <4>3 DEF Enter, Answer, WriteFails, Merging
      <4>4. ASSUME NEW b \in Bundle, Worker(b), ~Enter(b)
            PROVE  (Merging /\ cur' = cur) \/ ~Merging'
        BY <4>4 DEF Worker, Validate, BeginTransaction, StepFails, DeadlineExpires, Commit,
                    RecordFailure, Respond, Answer, WriteFails, Merging
      <4>5. CASE Server
        BY <4>5 DEF Server, Admit, Refuse, TakeLock, SetFleetLock, CrashRestart, worker, Merging
      <4> QED BY <4>1, <4>2, <4>3, <4>4, <4>5 DEF Next, Server
    <3>2. Older(cur.b)' <=> Older(cur'.b)
      BY <1>1 DEF Quiet, Older
    <3> QED BY <1>1, <3>1 DEF OrderInv, Quiet, Older
  <2>3. \A b \in Bundle : Skipped(b)' => Older(b)' /\ ~Committed(b)'
    BY <1>1, <2>1, SkippedStep DEF OrderInv, Quiet
  <2> QED BY <1>1, <2>2, <2>3 DEF OrderInv, Quiet
<1>2. ASSUME NEW b \in Bundle, Commit(b), CommitDurably(b) PROVE OrderInv'
  <2>1. ~Merging' /\ stage = "staged" /\ cur.b = b
    BY <1>2 DEF Commit, Merging
  <2>2. \A c \in Bundle : Skipped(c)' => Older(c) /\ ~Committed(c)
    BY <2>1, SkippedStep DEF Enter, OrderInv
  <2>3. /\ \A c \in Bundle : Older(c) => Older(c)' /\ c # b
        /\ \A l \in League : latest'[l] # None => Lane[latest'[l]] = "repair"
        /\ \A c \in Bundle : Committed(c)' /\ Lane[c] = "repair" =>
             \A l \in Scope[c] : latest'[l] # None /\ Order[c] <= Order[latest'[l]]
    BY <1>2, CommitOrder
  <2>4. \A c \in Bundle \ {b} : Committed(c)' <=> Committed(c)
    BY <1>2, <2>1, DurableStep
  <2> QED BY <2>1, <2>2, <2>3, <2>4 DEF OrderInv
<1> QED BY <1>1, <1>2, InvStep

\* The order invariant holds initially.
LEMMA OrderInit == ASSUME PublishAssumption, Init PROVE OrderInv
<1>1. \A b \in Bundle : ~Committed(b) /\ ~Skipped(b)
  BY DEF Init, Committed, Skipped, PublishAssumption
<1> QED BY <1>1 DEF Init, OrderInv, Merging

\* With integer run ids a skipped bundle stays skipped: no attempt of it that is
\* still in the server commits later.
THEOREM StaleFinal == ASSUME IntegerOrders PROVE Spec => []StaleIsFinal
<1>1. Init => OrderInv
  BY OrderInit, PublishAssumption
<1>2. IInv /\ OrderInv /\ [Next]_vars => OrderInv'
  BY OrderStep, PublishAssumption
<1>3. OrderInv => StaleIsFinal
  BY DEF OrderInv, Skipped, StaleIsFinal
<1> QED BY <1>1, <1>2, <1>3, Invariance, PTL DEF Spec

\* With integer run ids an older repair bundle never commits over a newer one.
THEOREM OrderRespected == ASSUME IntegerOrders PROVE Spec => NoOlderOverNewer
<1> DEFINE InOrder ==
      \A b, c \in Bundle :
        /\ Lane[b] = "repair" /\ Lane[c] = "repair"
        /\ Scope[b] = Scope[c]
        /\ Committed(c) /\ ~Committed(b) /\ Committed(b)'
        /\ Order[b] # NoOrder /\ Order[c] # NoOrder
        => Order[c] <= Order[b]
<1>1. Init => OrderInv
  BY OrderInit, PublishAssumption
<1>2. IInv /\ OrderInv /\ [Next]_vars => OrderInv'
  BY OrderStep, PublishAssumption
<1>3. IInv /\ OrderInv /\ [Next]_vars => [InOrder]_vars
  <2> SUFFICES ASSUME IInv, OrderInv, [Next]_vars, NEW b \in Bundle, NEW c \in Bundle,
                      Lane[b] = "repair", Lane[c] = "repair", Scope[b] = Scope[c],
                      Committed(c), ~Committed(b), Committed(b)'
               PROVE  Order[c] <= Order[b]
    OBVIOUS
  <2>1. PICK d \in Bundle : Commit(d) /\ CommitDurably(d)
    BY InvStep, PublishAssumption DEF Quiet
  <2>2. stage = "staged" /\ cur.b = d
    BY <2>1 DEF Commit
  <2>3. d = b
    BY <2>1, <2>2, DurableStep, PublishAssumption
  <2>4. ~Older(b)
    BY <2>2, <2>3 DEF OrderInv, Merging
  <2>5. PICK l \in Scope[b] : TRUE
    BY PublishAssumption DEF PublishAssumption
  <2>6. latest[l] # None /\ Order[c] <= Order[latest[l]] /\ l \in League
    BY <2>5, PublishAssumption DEF OrderInv, PublishAssumption
  <2>7. latest[l] \in Bundle /\ Lane[latest[l]] = "repair"
    BY <2>6 DEF IInv, TypeOK, OrderInv
  <2>8. Order[latest[l]] \in Nat /\ Order[b] \in Nat /\ Order[c] \in Nat /\ NoOrder \notin Nat
    BY <2>7, PublishAssumption DEF IntegerOrders, PublishAssumption
  <2>9. ~(Order[b] < Order[latest[l]])
    BY <2>4, <2>5, <2>6, <2>8 DEF Older
  <2> QED BY <2>6, <2>8, <2>9
<1> QED BY <1>1, <1>2, <1>3, Invariance, PTL DEF Spec, NoOlderOverNewer
-----------------------------------------------------------------------------
(* The fence without RequireBase, and what is left of PublisherSettles and   *)
(* LockReleased when the fairness is taken away.                             *)

\* A bundle that carries its base generation adds its update to what its leagues
\* hold and loses none, also on a server that takes unfenced bundles beside it.
FencedOnlyAdds ==
  [][\A b \in Fenced : ~Committed(b) /\ Committed(b)' =>
       facts' = [l \in League |-> IF l \in Scope[b] THEN facts[l] \cup {b} ELSE facts[l]]]_vars

\* The fence protects whoever uses it: nothing is required of the other bundles
\* (_merge_delta_bundle compares the generation inside the transaction).
THEOREM FencedLosesNothing == Spec => FencedOnlyAdds
<1>1. IInv /\ [Next]_vars
        => [\A b \in Fenced : ~Committed(b) /\ Committed(b)' =>
              facts' = [l \in League |->
                          IF l \in Scope[b] THEN facts[l] \cup {b} ELSE facts[l]]]_vars
  <2> SUFFICES ASSUME IInv, [Next]_vars, NEW b \in Fenced, ~Committed(b), Committed(b)'
               PROVE  facts' = [l \in League |->
                                  IF l \in Scope[b] THEN facts[l] \cup {b} ELSE facts[l]]
    OBVIOUS
  <2>1. b \in Bundle
    BY PublishAssumption DEF PublishAssumption
  <2>2. PICK c \in Bundle : Commit(c) /\ CommitDurably(c)
    BY <2>1, InvStep, PublishAssumption DEF Quiet
  <2>3. stage = "staged" /\ cur.b = c /\ Started(c)
    BY <2>2, WorkerBusy DEF Commit, Worker
  <2>4. c = b
    BY <2>1, <2>2, <2>3, DurableStep, PublishAssumption
  <2>5. \A l \in Scope[b] : seen[b][l] = facts[l]
    BY <2>1, <2>3, <2>4 DEF Current, IInv, FenceInv, StagedInv
  <2> QED BY <2>2, <2>4, <2>5 DEF CommitDurably, ReplacedFacts
<1> QED BY <1>1, Invariance, PTL DEF Spec, FencedOnlyAdds

\* How far a merge is from giving _merge_lock back; a deadline that expires
\* without stopping the merge can do so once.
MergeLeft ==
  CASE stage = "entered" -> 7 [] stage = "received" -> 6 [] stage = "validated" -> 5
    [] stage = "staged" -> IF armed THEN 4 ELSE 3
    [] stage = "failing" -> 2 [] stage = "done" -> 1 [] stage = "idle" -> 0

\* Whoever takes a step for a merge holds the lock and comes nearer to giving it
\* back; nobody else touches the merge or takes the lock away, but a crash.
MergeGoesForward ==
  [][/\ \A b \in Bundle : Worker(b) =>
          cur # None /\ cur.b = b /\ cur' \in {cur, None} /\ MergeLeft' < MergeLeft
     /\ cur # None /\ ~CrashRestart /\ ~(\E b \in Bundle : Worker(b)) => UNCHANGED worker]_vars

\* A step of a merge leads forward.
LEMMA WorkerForward ==
  ASSUME IInv, NEW b \in Bundle, Worker(b)
  PROVE  cur' \in {cur, None} /\ MergeLeft' < MergeLeft
<1>1. ASSUME Enter(b) PROVE MergeLeft = 7 /\ MergeLeft' \in {6, 1} /\ cur' = cur
  BY <1>1 DEF Enter, Answer, WriteFails, MergeLeft
<1>2. ASSUME Validate(b) PROVE MergeLeft = 6 /\ MergeLeft' \in {5, 1} /\ cur' = cur
  BY <1>2 DEF Validate, Answer, WriteFails, MergeLeft
<1>3. ASSUME BeginTransaction(b) PROVE MergeLeft = 5 /\ MergeLeft' \in {4, 2} /\ cur' = cur
  BY <1>3 DEF BeginTransaction, MergeLeft
<1>4. ASSUME StepFails(b) PROVE MergeLeft \in {3, 4} /\ MergeLeft' = 2 /\ cur' = cur
  BY <1>4 DEF StepFails, MergeLeft
<1>5. ASSUME DeadlineExpires(b) PROVE MergeLeft = 4 /\ MergeLeft' \in {3, 2} /\ cur' = cur
  BY <1>5 DEF DeadlineExpires, MergeLeft
<1>6. ASSUME Commit(b) PROVE MergeLeft \in {3, 4} /\ MergeLeft' \in {2, 1} /\ cur' = cur
  BY <1>6 DEF Commit, MergeLeft
<1>7. ASSUME RecordFailure(b) PROVE MergeLeft = 2 /\ MergeLeft' = 1 /\ cur' = cur
  BY <1>7 DEF RecordFailure, MergeLeft
<1>8. ASSUME Respond(b) PROVE MergeLeft = 1 /\ MergeLeft' = 0 /\ cur' = None
  BY <1>8 DEF Respond, Finished, MergeLeft
<1> QED BY <1>1, <1>2, <1>3, <1>4, <1>5, <1>6, <1>7, <1>8 DEF Worker

\* No merge is tried again, waits for another, or keeps the lock: a holder is at
\* most seven steps of its own from giving it back, whatever fails, the timer and
\* the writing of its receipt included.
THEOREM MergesGoForward == Spec => [](cur # None => stage # "idle") /\ MergeGoesForward
<1>1. IInv => (cur # None => stage # "idle")
  BY DEF IInv, LockInv
<1>2. IInv /\ [Next]_vars
        => [/\ \A b \in Bundle : Worker(b) =>
                 cur # None /\ cur.b = b /\ cur' \in {cur, None} /\ MergeLeft' < MergeLeft
            /\ cur # None /\ ~CrashRestart /\ ~(\E b \in Bundle : Worker(b)) => UNCHANGED worker]_vars
  <2> SUFFICES ASSUME IInv, Next
               PROVE  /\ \A b \in Bundle : Worker(b) =>
                           cur # None /\ cur.b = b /\ cur' \in {cur, None} /\ MergeLeft' < MergeLeft
                      /\ cur # None /\ ~CrashRestart /\ ~(\E b \in Bundle : Worker(b))
                           => UNCHANGED worker
    OBVIOUS
  <2>1. \A b \in Bundle : Worker(b) =>
          cur # None /\ cur.b = b /\ cur' \in {cur, None} /\ MergeLeft' < MergeLeft
    BY WorkerBusy, WorkerForward
  <2>2. \A b \in Bundle : Publisher(b) => UNCHANGED worker
    BY DEF Publisher, CaptureGeneration, BuildBundle, Post, HandleReply, Timeout, Reconcile
  <2>3. cur # None /\ (\/ \E r \in Request : Admit(r) \/ Refuse(r) \/ TakeLock(r)
                       \/ \E on \in BOOLEAN : SetFleetLock(on)) => UNCHANGED worker
    BY DEF Admit, Refuse, TakeLock, SetFleetLock
  <2> QED BY <2>1, <2>2, <2>3 DEF Next
<1> QED BY <1>1, <1>2, Invariance, PTL DEF Spec, MergeGoesForward

\* A publisher that is to post has an attempt left.
TriesInv ==
  \A b \in Bundle : /\ pc[b] \in {"new", "fetching"} => tries[b] = 0
                    /\ pc[b] = "built" => MayPost(b)

\* How far a publisher is from its outcome: three steps for each attempt.
TriesLeft(b) == MaxTries - tries[b]

Left(b) ==
  CASE pc[b] = "new"         -> 3 * TriesLeft(b) + 4
    [] pc[b] = "fetching"    -> 3 * TriesLeft(b) + 3
    [] pc[b] = "built"       -> 3 * TriesLeft(b) + 2
    [] pc[b] = "waiting"     -> 3 * TriesLeft(b) + 4
    [] pc[b] = "reconciling" -> 1
    [] pc[b] \in Terminal    -> 0

\* Every step of a publisher brings it nearer to its outcome.
LEMMA PublisherForward ==
  ASSUME TypeOK, TriesInv, NEW b \in Bundle, Publisher(b)
  PROVE  /\ Left(b)' < Left(b)
         /\ pc'[b] \in {"new", "fetching"} => tries'[b] = 0
         /\ pc'[b] = "built" => MayPost(b)'
         /\ \A c \in Bundle : c # b => pc'[c] = pc[c] /\ tries'[c] = tries[c]
<1> DEFINE Ahead == /\ Left(b)' < Left(b)
                    /\ pc'[b] \in {"new", "fetching"} => tries'[b] = 0
                    /\ pc'[b] = "built" => MayPost(b)'
                    /\ \A c \in Bundle : c # b => pc'[c] = pc[c] /\ tries'[c] = tries[c]
<1>t. /\ MaxTries \in Nat \ {0} /\ tries[b] \in 0..MaxTries
      /\ pc \in [Bundle -> PCs] /\ tries \in [Bundle -> 0..MaxTries]
  BY PublishAssumption DEF TypeOK, PublishAssumption
<1> USE <1>t DEF Left, TriesLeft, MayPost
<1>1. ASSUME CaptureGeneration(b) PROVE Ahead
  BY <1>1 DEF CaptureGeneration, TriesInv
<1>2. ASSUME BuildBundle(b) PROVE Ahead
  BY <1>2 DEF BuildBundle, TriesInv
<1>3. ASSUME Post(b) PROVE Ahead
  BY <1>3 DEF Post, TriesInv
<1>4. ASSUME HandleReply(b) PROVE Ahead
  <2>1. /\ tries' = tries /\ pc[b] = "waiting"
        /\ \/ \E p \in Terminal \cup {"reconciling"} : pc' = [pc EXCEPT ![b] = p]
           \/ pc' = [pc EXCEPT ![b] = "built"] /\ MayPost(b)
    BY <1>4 DEF HandleReply, Settle
  <2> QED BY <2>1
<1>5. ASSUME Timeout(b) PROVE Ahead
  BY <1>5 DEF Timeout
<1>6. ASSUME Reconcile(b) PROVE Ahead
  <2>1. /\ tries' = tries /\ pc[b] = "reconciling"
        /\ \E p \in Terminal : pc' = [pc EXCEPT ![b] = p]
    BY <1>6 DEF Reconcile, Settle
  <2> QED BY <2>1
<1> HIDE DEF Ahead
<1> QED BY <1>1, <1>2, <1>3, <1>4, <1>5, <1>6 DEF Publisher, Ahead

PublisherGoesForward ==
  [][\A b \in Bundle : /\ Publisher(b) => Left(b)' < Left(b)
                       /\ ~Publisher(b) => Left(b)' = Left(b)]_vars

\* No publisher stands with a bundle to post and no attempt left, and each of
\* its steps, whatever answer or silence it follows, brings it nearer to its
\* outcome; the server cannot send it back (_post_file, merge_league_delta).
THEOREM PublishersGoForward == Spec => []TriesInv /\ PublisherGoesForward
<1>1. Init => TriesInv
  BY DEF Init, TriesInv
<1>2. TypeOK /\ TriesInv /\ [Next]_vars =>
        /\ TriesInv'
        /\ [\A b \in Bundle : /\ Publisher(b) => Left(b)' < Left(b)
                              /\ ~Publisher(b) => Left(b)' = Left(b)]_vars
  <2> SUFFICES ASSUME TypeOK, TriesInv, [Next]_vars
               PROVE  /\ TriesInv'
                      /\ [\A b \in Bundle : /\ Publisher(b) => Left(b)' < Left(b)
                                            /\ ~Publisher(b) => Left(b)' = Left(b)]_vars
    OBVIOUS
  <2>1. ASSUME NEW b \in Bundle, Publisher(b)
        PROVE  /\ TriesInv'
               /\ \A c \in Bundle : /\ Publisher(c) => Left(c)' < Left(c)
                                    /\ ~Publisher(c) => Left(c)' = Left(c)
    <3>1. /\ pc'[b] \in {"new", "fetching"} => tries'[b] = 0
          /\ pc'[b] = "built" => MayPost(b)'
          /\ \A c \in Bundle : c # b => pc'[c] = pc[c] /\ tries'[c] = tries[c]
      BY <2>1, PublisherForward
    <3>2. TriesInv'
      BY <3>1 DEF TriesInv, MayPost
    <3>3. \A c \in Bundle : c # b => Left(c)' = Left(c)
      BY <3>1 DEF Left, TriesLeft
    <3>4. \A c \in Bundle : Publisher(c) => Left(c)' < Left(c)
      BY PublisherForward
    <3> QED BY <2>1, <3>2, <3>3, <3>4
  <2>2. CASE UNCHANGED <<pc, tries>>
    <3>1. TriesInv' /\ \A c \in Bundle : Left(c)' = Left(c)
      BY <2>2 DEF TriesInv, MayPost, Left, TriesLeft
    <3>2. \A c \in Bundle : Publisher(c) => Left(c)' < Left(c)
      BY PublisherForward
    <3> QED BY <3>1, <3>2
  <2>3. (\E b \in Bundle : Publisher(b)) \/ UNCHANGED <<pc, tries>>
    BY DEF Next, Worker, Enter, Validate, BeginTransaction, StepFails, DeadlineExpires, Commit,
       RecordFailure, Respond, Admit, Refuse, TakeLock, SetFleetLock, CrashRestart, publishers, vars
  <2> QED BY <2>1, <2>2, <2>3
<1> QED BY <1>1, <1>2, TypeCorrect, PTL DEF Spec, PublisherGoesForward

=============================================================================
