--------------------------- MODULE UpdateClaimProofs ---------------------------
(***************************************************************************)
(* Proofs for UpdateClaim, for any number of runs and recoveries of a       *)
(* league and any number of publications beside them.                      *)
(*                                                                         *)
(* Everything rests on one fact of the server: a bundle commits at most     *)
(* once, and whoever speaks of its commit speaks after it.                  *)
(***************************************************************************)
EXTENDS UpdateClaim, TLAPS

RowType == [owner : Run \cup {None}, status : Report, verified : BOOLEAN,
            bundle : Run \cup {None}]

\* ClaimTypeOK, with the ranges of records and functions that the proofs need.
CTypes ==
  /\ ClaimTypeOK /\ row \in RowType
  /\ gen \in Nat /\ base \in [Run -> Nat] /\ at \in [Run -> Nat] /\ warm \in Nat
  /\ rec \in [Recovery -> [pc : {"idle", "warming", "warmed", "done"}, run : Run \cup {None}]]
  /\ \A c \in Recovery : rec[c].pc \in {"warming", "warmed"} => rec[c].run \in Run

-----------------------------------------------------------------------------
(* What the execution of a script does.                                     *)

NewRow(r, s) == IF s \in Report THEN Reported(r, s) ELSE Claimed(r, s)

\* A script leaves the row alone, reports for its owner, or moves a claim.
LEMMA RowStep ==
  ASSUME CTypes, NEW r \in Run, NEW s \in Statement
  PROVE  /\ NewRow(r, s) \in RowType
         /\ \/ NewRow(r, s) = row
            \/ /\ s \in Report /\ row.owner \in {None, r}
               /\ NewRow(r, s).owner = r /\ NewRow(r, s).status = s
               /\ s \in Publication => NewRow(r, s).bundle = r
               /\ row.owner = r => row.status \in Prior(s) /\ ~(s \in Terminal /\ row.status = s)
            \/ /\ s = "take_over" /\ row.owner \notin {None, r}
               /\ NewRow(r, s).owner = r /\ NewRow(r, s).status = "dispatching"
            \/ /\ s = "fail_partial" /\ row.owner = r /\ row.status = "dispatching"
               /\ NewRow(r, s).owner = r /\ NewRow(r, s).status = "failed"
<1> USE ClaimAssumption DEF CTypes, RowType, ClaimAssumption
<1>1. CASE s \in Report
  <2>1. NewRow(r, s) = Reported(r, s)
    BY <1>1 DEF NewRow
  <2>2. CASE row.owner = None
    <3> DEFINE v == (s = "succeeded")
               b == IF s \in Publication THEN r ELSE None
    <3>1. NewRow(r, s) = [owner |-> r, status |-> s, verified |-> v, bundle |-> b]
      BY <2>1, <2>2 DEF Reported
    <3>2. v \in BOOLEAN /\ b \in Run \cup {None} /\ (s \in Publication => b = r)
      OBVIOUS
    <3> HIDE DEF v, b
    <3> QED BY <1>1, <2>2, <3>1, <3>2
  <2>3. CASE row.owner # None /\ row.owner = r /\ row.status \in Prior(s)
             /\ ~(s \in Terminal /\ row.status = s)
    <3> DEFINE v == row.verified \/ (s = "succeeded")
               b == IF s \in Publication THEN r ELSE row.bundle
    <3>1. NewRow(r, s) = [owner |-> r, status |-> s, verified |-> v, bundle |-> b]
      BY <2>1, <2>3 DEF Reported
    <3>2. v \in BOOLEAN /\ b \in Run \cup {None} /\ (s \in Publication => b = r)
      OBVIOUS
    <3> HIDE DEF v, b
    <3> QED BY <1>1, <2>3, <3>1, <3>2
  <2>4. CASE row.owner # None /\ ~(row.owner = r /\ row.status \in Prior(s)
             /\ ~(s \in Terminal /\ row.status = s))
    BY <2>1, <2>4 DEF Reported
  <2> QED BY <2>2, <2>3, <2>4
<1>2. CASE s \notin Report
  <2>1. NewRow(r, s) = Claimed(r, s)
    BY <1>2 DEF NewRow
  <2>2. {"dispatching", "failed"} \subseteq Report
    BY DEF Report, InFlight, Terminal
  <2>3. CASE s = "take_over" /\ row.owner \notin {None, r} /\ Claimable
    <3>1. NewRow(r, s) = [owner |-> r, status |-> "dispatching", verified |-> row.verified,
                          bundle |-> row.bundle]
      BY <2>1, <2>3, Zenon DEF Claimed
    <3> QED BY <2>2, <2>3, <3>1
  <2>4. CASE s = "fail_partial" /\ row.owner = r /\ row.status = "dispatching"
    <3>1. NewRow(r, s) = [row EXCEPT !.status = "failed"]
      BY <2>1, <2>4, <1>2, Zenon DEF Claimed
    <3> QED BY <2>2, <2>4, <3>1
  <2>5. CASE ~(s = "take_over" /\ row.owner \notin {None, r} /\ Claimable)
             /\ ~(s = "fail_partial" /\ row.owner = r /\ row.status = "dispatching")
    BY <2>1, <2>5, Zenon DEF Claimed
  <2> QED BY <2>3, <2>4, <2>5
<1> QED BY <1>1, <1>2

\* Places of a run before its bundle is posted, and after its commit is recorded.
Early == {"new", "claiming", "renewing", "taking", "unclaimed", "claimed", "starting",
          "refreshing", "refreshed", "keeping", "renewed"}
Settled == {"warming", "warmed", "completing"}

\* An answer leads a run on, out of the early places for good, and to the cache
\* only from the record of its commit.
LEMMA AnswerLeads ==
  ASSUME NEW p \in Places, NEW yes \in BOOLEAN, Awaits(p) # "nothing"
  PROVE  /\ After(p, yes) \in Places
         /\ After(p, yes) \in Early => p \in Early
         /\ After(p, yes) \notin {"told", "recording", "warmed", "completing", "pending"}
         /\ After(p, yes) = "warming" => p = "recording" /\ yes
         /\ Awaits(After(p, yes)) \in {"renew", "take_over", "nothing"}
  BY DEF Awaits, After, Places, Working, Early

\* A run waits for the answer of one kind of statement.
LEMMA AwaitsStatement ==
  ASSUME NEW p \in Places
  PROVE  Awaits(p) \in Statement \cup {"nothing"}
  BY DEF Awaits, Places, Working, Statement, Report, InFlight, Terminal, Publication

\* The whole effect of a served script, as the other proofs use it.
LEMMA ServeStep ==
  ASSUME CTypes, NEW m \in wire, Serve(m)
  PROVE  /\ m.run \in Run /\ m.stmt \in Statement
         /\ row' = NewRow(m.run, m.stmt)
         /\ \/ published' = published
            \/ /\ m.stmt \in Publication /\ row'.owner = m.run /\ row'.status = m.stmt
               /\ published' = m.run
         /\ \/ UNCHANGED <<pc, wire>>
            \/ \E yes \in BOOLEAN :
                 /\ Awaits(pc[m.run]) = m.stmt
                 /\ pc' = [pc EXCEPT ![m.run] = After(pc[m.run], yes)]
                 /\ wire' \subseteq wire \cup {Msg(m.run, "renew"), Msg(m.run, "take_over")}
                 /\ yes /\ m.stmt \in Publication => published' = m.run /\ row'.owner = m.run
         /\ m.stmt = "take_over" /\ ~LateClaims => pc[m.run] = "taking"
         /\ fresh' \in BOOLEAN /\ UNCHANGED <<league, receipt, rec>>
<1> DEFINE r == m.run
           s == m.stmt
           new == NewRow(r, s)
           pub == IF Promotes(r, s, new) THEN r ELSE published
           yes == IF s \in Report THEN Accepted(r, s, new, pub)
                  ELSE new # row \/ (s = "renew" /\ Refreshes(r, s))
<1>1. m \in [run : Run, stmt : Statement]
  BY DEF CTypes, ClaimTypeOK
<1>2. r \in Run /\ s \in Statement
  BY <1>1
<1>3. /\ s = "take_over" /\ ~LateClaims => pc[r] = "taking"
      /\ row' = new /\ published' = pub /\ fresh' = (fresh \/ Refreshes(r, s))
      /\ UNCHANGED <<league, receipt, rec>>
      /\ \/ UNCHANGED wire /\ UNCHANGED pc
         \/ /\ Awaits(pc[r]) = s
            /\ pc' = [pc EXCEPT ![r] = After(pc[r], yes)]
            /\ wire' = IF Awaits(After(pc[r], yes)) = "nothing" THEN wire
                       ELSE wire \cup {Msg(r, Awaits(After(pc[r], yes)))}
  BY Zenon DEF Serve, NewRow
<1>4. published' = published \/ (s \in Publication /\ row'.owner = r /\ row'.status = s
                                 /\ published' = r)
  BY <1>3 DEF Promotes
<1>5. yes \in BOOLEAN
  BY DEF Accepted
<1>6. yes /\ s \in Publication => published' = r /\ row'.owner = r
  <2>1. Publication \subseteq Report
    BY DEF Publication, Report, Terminal, InFlight
  <2>2. HAVE yes /\ s \in Publication
  <2> QED BY <1>3, <2>1, <2>2, <1>2 DEF Accepted
<1>7. ASSUME Awaits(pc[r]) = s,
             wire' = IF Awaits(After(pc[r], yes)) = "nothing" THEN wire
                     ELSE wire \cup {Msg(r, Awaits(After(pc[r], yes)))}
      PROVE  wire' \subseteq wire \cup {Msg(r, "renew"), Msg(r, "take_over")}
  <2>1. pc[r] \in Places
    BY <1>2 DEF CTypes, ClaimTypeOK
  <2>2. s # "nothing"
    BY <1>2 DEF Statement, Report, InFlight, Terminal, Publication
  <2> HIDE DEF yes, s, r
  <2>3. Awaits(After(pc[r], yes)) \in {"renew", "take_over", "nothing"}
    BY <1>5, <1>7, <2>1, <2>2, AnswerLeads
  <2> QED BY <1>7, <2>3
<1>8. fresh' \in BOOLEAN
  BY <1>3 DEF Refreshes
<1> HIDE DEF yes, new, pub
<1> QED BY <1>2, <1>3, <1>4, <1>5, <1>6, <1>7, <1>8, Zenon DEF new

-----------------------------------------------------------------------------
(* Types.                                                                   *)

\* A statement that is sent has the type of one.
LEMMA SendType ==
  ASSUME CTypes, NEW r \in Run, NEW p \in Places, Awaits(p) # "nothing", Send(r, p)
  PROVE  pc' \in [Run -> Places] /\ wire' \subseteq [run : Run, stmt : Statement]
<1>1. Awaits(p) \in Statement
  BY AwaitsStatement
<1> QED BY <1>1 DEF Send, Msg, CTypes, ClaimTypeOK

\* The steps of a run keep the types.
LEMMA RunType ==
  ASSUME CTypes, NEW r \in Run, RunStep(r)
  PROVE  CTypes'
<1> USE DEF CTypes, ClaimTypeOK, league
<1>1. CASE Proceed(r) \/ FailJob(r)
  <2>1. \E p \in Places : Awaits(p) # "nothing" /\ Send(r, p)
    BY <1>1 DEF Proceed, FailJob, FailureStatus, Places, Working, Awaits
  <2>2. pc' \in [Run -> Places] /\ wire' \subseteq [run : Run, stmt : Statement]
    BY <2>1, SendType
  <2>3. UNCHANGED <<row, fresh, published, league, receipt, rec>>
    BY <1>1 DEF Proceed, FailJob
  <2> QED BY <2>2, <2>3
<1>2. CASE Capture(r)
  BY <1>2 DEF Capture, Move, Places, Working
<1>3. CASE Publish(r)
  BY <1>3 DEF Publish, Move, Places, Working
<1>4. CASE Commit(r)
  BY <1>4 DEF Commit
<1>5. CASE Told(r)
  BY <1>5 DEF Told, Move, Places, Working
<1>6. CASE Warm(r)
  BY <1>6 DEF Warm, Move, Places, Working
<1>7. CASE LoseRun(r)
  BY <1>7 DEF LoseRun, Move, Places
<1> QED BY <1>1, <1>2, <1>3, <1>4, <1>5, <1>6, <1>7 DEF RunStep

\* So do the server's, which execute a statement.
LEMMA WireType ==
  ASSUME CTypes, NEW m \in wire, Serve(m) \/ Tear(m)
  PROVE  CTypes'
<1> USE DEF league
<1>1. m.run \in Run /\ m.stmt \in Statement
  BY DEF CTypes, ClaimTypeOK
<1>2. NewRow(m.run, m.stmt) \in RowType
  BY <1>1, RowStep
<1>3. CASE Tear(m)
  <2>1. row' = NewRow(m.run, m.stmt)
    BY <1>3 DEF Tear, NewRow, Report, Publication
  <2> QED BY <1>2, <1>3, <2>1 DEF Tear, CTypes, ClaimTypeOK, RowType
<1>4. CASE Serve(m)
  <2>1. row' \in RowType /\ published' \in Run \cup {None} /\ fresh' \in BOOLEAN
        /\ UNCHANGED <<league, receipt, rec>>
    BY <1>1, <1>2, <1>4, ServeStep DEF CTypes, ClaimTypeOK
  <2>2. CASE UNCHANGED <<pc, wire>>
    BY <2>1, <2>2 DEF CTypes, ClaimTypeOK, RowType
  <2>3. ASSUME NEW yes \in BOOLEAN, Awaits(pc[m.run]) = m.stmt,
               pc' = [pc EXCEPT ![m.run] = After(pc[m.run], yes)],
               wire' \subseteq wire \cup {Msg(m.run, "renew"), Msg(m.run, "take_over")}
        PROVE  CTypes'
    <3>1. pc[m.run] \in Places /\ m.stmt # "nothing"
      BY <1>1 DEF CTypes, ClaimTypeOK, Statement, Report, InFlight, Terminal, Publication
    <3>2. After(pc[m.run], yes) \in Places
      BY <2>3, <3>1, AnswerLeads
    <3>3. pc' \in [Run -> Places]
      BY <2>3, <3>2, <1>1 DEF CTypes, ClaimTypeOK
    <3>4. wire' \subseteq [run : Run, stmt : Statement]
      BY <2>3, <1>1 DEF CTypes, ClaimTypeOK, Msg, Statement
    <3> QED BY <2>1, <3>3, <3>4 DEF CTypes, ClaimTypeOK, RowType
  <2> QED BY <1>4, <2>2, <2>3, ServeStep
<1> QED BY <1>3, <1>4

\* So do those of a cache recovery.
LEMMA RecoveryType ==
  ASSUME CTypes, NEW c \in Recovery, RecoveryStep(c)
  PROVE  CTypes'
<1> USE DEF CTypes, ClaimTypeOK, RowType, league
<1>1. CASE StartRecovery(c)
  BY <1>1 DEF StartRecovery
<1>2. CASE RecoveryWarms(c)
  BY <1>2 DEF RecoveryWarms
<1>3. CASE RecoveryReports(c)
  BY <1>3 DEF RecoveryReports, Msg, Statement, Report, Terminal
<1>4. ASSUME NEW r \in Run, Reconcile(c, r)
      PROVE  CTypes'
  BY <1>4 DEF Reconcile, Msg, Statement, Report, Publication
<1> QED BY <1>1, <1>2, <1>3, <1>4 DEF RecoveryStep

\* Type correctness, for any set of runs and any number of publications.
THEOREM ClaimTyped == Spec => []CTypes
<1> USE ClaimAssumption DEF ClaimAssumption
<1>1. Init => CTypes
  <2> SUFFICES ASSUME Init PROVE CTypes
    OBVIOUS
  <2>1. row \in RowType /\ fresh \in BOOLEAN
    BY DEF Init, RowType, Report, Terminal
  <2>2. rec \in [Recovery -> [pc : {"idle", "warming", "warmed", "done"}, run : Run \cup {None}]]
        /\ \A c \in Recovery : rec[c].pc = "idle"
    BY DEF Init
  <2>3. pc \in [Run -> Places]
    BY DEF Init, Places, Working
  <2>4. /\ published \in Run \cup {None} /\ gen = 0 /\ warm = 0
        /\ base = [r \in Run |-> 0] /\ at = [r \in Run |-> 0]
        /\ posted = {} /\ wire = {} /\ receipt = {}
    BY DEF Init
  <2> QED BY <2>1, <2>2, <2>3, <2>4 DEF CTypes, ClaimTypeOK, RowType
<1>2. CTypes /\ [Next]_vars => CTypes'
  <2> SUFFICES ASSUME CTypes, [Next]_vars PROVE CTypes'
    OBVIOUS
  <2>1. ASSUME NEW r \in Run, RunStep(r) PROVE CTypes'
    BY <2>1, RunType
  <2>2. ASSUME NEW m \in wire, Serve(m) \/ Tear(m) PROVE CTypes'
    BY <2>2, WireType
  <2>3. ASSUME NEW c \in Recovery, RecoveryStep(c) PROVE CTypes'
    BY <2>3, RecoveryType
  <2>4. CASE TimePasses
    BY <2>4 DEF TimePasses, CTypes, ClaimTypeOK, RowType, league
  <2>5. CASE OtherPublish
    BY <2>5 DEF OtherPublish, CTypes, ClaimTypeOK, RowType
  <2>6. CASE UNCHANGED vars
    BY <2>6 DEF vars, CTypes, ClaimTypeOK, RowType, league
  <2> QED BY <2>1, <2>2, <2>3, <2>4, <2>5, <2>6 DEF Next
<1> QED BY <1>1, <1>2, PTL DEF Spec

-----------------------------------------------------------------------------
(* The inductive invariant.                                                 *)

\* A run posts its bundle once, and it has not become a generation before.
OnceInv ==
  \A r \in Run : /\ pc[r] \in Early => at[r] = 0 /\ r \notin posted
                 /\ r \in posted => at[r] = 0

\* Whoever speaks of a commit - the row, a script, a run past it, a receipt, a
\* recovery, the manifest - speaks of one that took place.
TruthInv ==
  /\ row.status \in Publication =>
       row.owner \in Run /\ row.bundle = row.owner /\ at[row.owner] # 0
  /\ \A m \in wire : m.stmt \in Publication => at[m.run] # 0
  /\ \A r \in Run : pc[r] \in {"told", "recording", "pending"} \cup Settled \/ r \in receipt
       => at[r] # 0
  /\ \A c \in Recovery : rec[c].pc \in {"warming", "warmed"} => at[rec[c].run] # 0
  /\ published # None => at[published] # 0

\* The same for the cache and whoever speaks of success.
WarmInv ==
  /\ SucceededIsWarm
  /\ \A m \in wire : m.stmt = "succeeded" => warm >= at[m.run]
  /\ \A r \in Run : pc[r] \in {"warmed", "completing"} => warm >= at[r]
  /\ \A c \in Recovery : rec[c].pc = "warmed" => warm >= at[rec[c].run]

\* The owner of the row, when it has committed, has done so after every run
\* whose commit was recorded before.
OrderInv ==
  /\ row.owner = None => published = None /\ \A r \in Run : pc[r] \notin Settled
  /\ \A r \in Run :
       row.owner # None /\ r # row.owner /\ (pc[r] \in Settled \/ published = r)
         => at[row.owner] = 0 \/ at[row.owner] > at[r]
  /\ AcceptedIsPromoted

-----------------------------------------------------------------------------
(* The steps preserve it.                                                   *)

\* A run that sends: where to, and what it must have seen for that.
LEMMA RunSends ==
  ASSUME CTypes, NEW r \in Run, Proceed(r) \/ FailJob(r)
  PROVE  /\ \E p \in Places :
              /\ pc' = [pc EXCEPT ![r] = p] /\ wire' = wire \cup {Msg(r, Awaits(p))}
              /\ p \in Early => pc[r] \in Early
              /\ p \in Settled => p = "completing" /\ pc[r] = "warmed"
              /\ p # "told" /\ (p = "recording" => pc[r] = "told")
              /\ p = "pending" => r \in receipt
              /\ Awaits(p) \in Publication => p \in {"recording", "completing", "pending"}
              /\ Awaits(p) = "succeeded" => p = "completing"
         /\ UNCHANGED <<row, fresh, published, league, receipt, rec>>
<1> USE DEF Send, Places, Working, Early, Settled, Publication, Awaits
<1>1. CASE Proceed(r)
  BY <1>1 DEF Proceed
<1>2. CASE FailJob(r)
  BY <1>2 DEF FailJob, FailureStatus
<1> QED BY <1>1, <1>2

\* A run posts its bundle once, and has no commit before.
LEMMA OnceStep ==
  ASSUME CTypes, OnceInv, [Next]_vars
  PROVE  OnceInv'
<1> USE DEF OnceInv, league
<1>t. pc \in [Run -> Places] /\ at \in [Run -> Nat] /\ gen \in Nat
  BY DEF CTypes, ClaimTypeOK
<1>1. ASSUME NEW r \in Run, RunStep(r)
      PROVE  OnceInv'
  <2>1. CASE Proceed(r) \/ FailJob(r)
    BY <2>1, <1>t, RunSends
  <2>2. CASE Capture(r) \/ Told(r) \/ Warm(r) \/ LoseRun(r)
    BY <2>2, <1>t DEF Capture, Told, Warm, LoseRun, Move, Early
  <2>3. CASE Publish(r)
    BY <2>3, <1>t DEF Publish, Move, Early
  <2>4. CASE Commit(r)
    BY <2>4, <1>t DEF Commit
  <2> QED BY <1>1, <2>1, <2>2, <2>3, <2>4 DEF RunStep
<1>2. ASSUME NEW m \in wire, Serve(m)
      PROVE  OnceInv'
  <2>1. m.run \in Run /\ m.stmt # "nothing" /\ UNCHANGED <<at, posted>>
    BY <1>2, ServeStep DEF Statement, Report, InFlight, Terminal, Publication
  <2>2. CASE UNCHANGED pc
    BY <2>1, <2>2
  <2>3. ASSUME NEW yes \in BOOLEAN, Awaits(pc[m.run]) = m.stmt,
               pc' = [pc EXCEPT ![m.run] = After(pc[m.run], yes)]
        PROVE  OnceInv'
    <3>1. After(pc[m.run], yes) \in Early => pc[m.run] \in Early
      BY <2>1, <2>3, <1>t, AnswerLeads
    <3> QED BY <2>1, <2>3, <3>1, <1>t
  <2> QED BY <1>2, <2>2, <2>3, ServeStep
<1>3. ASSUME NEW c \in Recovery, RecoveryStep(c)
      PROVE  OnceInv'
  BY <1>3 DEF RecoveryStep, StartRecovery, RecoveryWarms, RecoveryReports, Reconcile
<1>4. ASSUME NEW m \in wire, Tear(m)
      PROVE  OnceInv'
  BY <1>4 DEF Tear
<1>5. CASE TimePasses \/ OtherPublish \/ UNCHANGED vars
  BY <1>5 DEF TimePasses, OtherPublish, vars
<1> QED BY <1>1, <1>2, <1>3, <1>4, <1>5 DEF Next

\* Whoever speaks of a commit after a step speaks of one that took place.
LEMMA TruthStep ==
  ASSUME CTypes, OnceInv, TruthInv, [Next]_vars
  PROVE  TruthInv'
<1> USE DEF TruthInv, league
<1>t. /\ pc \in [Run -> Places] /\ at \in [Run -> Nat] /\ gen \in Nat
      /\ wire \subseteq [run : Run, stmt : Statement]
      /\ row.owner \in Run \cup {None} /\ published \in Run \cup {None}
      /\ rec \in [Recovery -> [pc : {"idle", "warming", "warmed", "done"}, run : Run \cup {None}]]
      /\ \A c \in Recovery : rec[c].pc \in {"warming", "warmed"} => rec[c].run \in Run
  BY DEF CTypes, ClaimTypeOK
<1>1. ASSUME NEW r \in Run, RunStep(r)
      PROVE  TruthInv'
  <2>1. CASE Proceed(r) \/ FailJob(r)
    <3>1. PICK p \in Places :
            /\ pc' = [pc EXCEPT ![r] = p] /\ wire' = wire \cup {Msg(r, Awaits(p))}
            /\ p \in Settled => pc[r] = "warmed"
            /\ p # "told" /\ (p = "recording" => pc[r] = "told")
            /\ p = "pending" => r \in receipt
            /\ Awaits(p) \in Publication => p \in {"recording", "completing", "pending"}
      BY <2>1, RunSends
    <3>2. UNCHANGED <<row, published, at, receipt, rec>>
      BY <2>1, RunSends
    <3>3. p \in {"recording", "pending", "told"} \cup Settled => at[r] # 0
      BY <3>1 DEF Settled
    <3>4. \A q \in Run : pc'[q] \in {"told", "recording", "pending"} \cup Settled \/ q \in receipt
            => at[q] # 0
      BY <3>1, <3>3, <1>t
    <3>5. \A m \in wire' : m.stmt \in Publication => at[m.run] # 0
      BY <3>1, <3>3, <1>t DEF Msg, Settled
    <3> QED BY <3>2, <3>4, <3>5
  <2>2. CASE Capture(r) \/ Publish(r) \/ LoseRun(r)
    BY <2>2, <1>t DEF Capture, Publish, LoseRun, Move, Settled
  <2>3. CASE Told(r)
    BY <2>3, <1>t DEF Told, Move
  <2>4. CASE Warm(r)
    BY <2>4, <1>t DEF Warm, Move, Settled
  <2>5. CASE Commit(r)
    <3>1. \A q \in Run : at'[q] = at[q] \/ at'[q] # 0
      BY <2>5, <1>t DEF Commit
    <3>2. UNCHANGED <<row, published, wire, pc, receipt, rec>>
      BY <2>5 DEF Commit
    <3> QED BY <3>1, <3>2, <1>t
  <2> QED BY <1>1, <2>1, <2>2, <2>3, <2>4, <2>5 DEF RunStep
<1>2. ASSUME NEW m \in wire, Serve(m) \/ Tear(m)
      PROVE  TruthInv'
  <2>1. m.run \in Run /\ m.stmt \in Statement /\ (m.stmt \in Publication => at[m.run] # 0)
    BY <1>t
  <2>2. row' = NewRow(m.run, m.stmt) /\ at' = at
    BY <1>2, ServeStep DEF Tear, NewRow, Report
  <2>3. row'.status \in Publication =>
          row'.owner \in Run /\ row'.bundle = row'.owner /\ at'[row'.owner] # 0
    <3>1. "dispatching" \notin Publication /\ "failed" \notin Publication
      BY DEF Publication
    <3> QED BY <2>1, <2>2, <3>1, RowStep
  <2>4. CASE Tear(m)
    BY <2>3, <2>4 DEF Tear
  <2>5. CASE Serve(m)
    <3>1. UNCHANGED <<at, receipt, rec>> /\ (published' = published \/
            (m.stmt \in Publication /\ published' = m.run))
      BY <2>5, ServeStep
    <3>2. CASE UNCHANGED <<pc, wire>>
      BY <2>1, <2>3, <3>1, <3>2
    <3>3. ASSUME NEW yes \in BOOLEAN, Awaits(pc[m.run]) = m.stmt,
                 pc' = [pc EXCEPT ![m.run] = After(pc[m.run], yes)],
                 wire' \subseteq wire \cup {Msg(m.run, "renew"), Msg(m.run, "take_over")}
          PROVE  TruthInv'
      <4>1. m.stmt # "nothing"
        BY <2>1 DEF Statement, Report, InFlight, Terminal, Publication
      <4>2. /\ After(pc[m.run], yes) \notin {"told", "recording", "warmed", "completing", "pending"}
            /\ After(pc[m.run], yes) = "warming" => pc[m.run] = "recording"
        BY <2>1, <3>3, <4>1, <1>t, AnswerLeads
      <4>3. \A q \in Run : pc'[q] \in {"told", "recording", "pending"} \cup Settled \/ q \in receipt
              => at[q] # 0
        BY <2>1, <3>3, <4>2, <1>t DEF Settled
      <4>4. \A n \in wire' : n.stmt \in Publication => at[n.run] # 0
        BY <3>3 DEF Msg, Publication
      <4> QED BY <2>1, <2>3, <3>1, <4>3, <4>4
    <3> QED BY <2>5, <3>2, <3>3, ServeStep
  <2> QED BY <1>2, <2>4, <2>5
<1>3. ASSUME NEW c \in Recovery, RecoveryStep(c)
      PROVE  TruthInv'
  <2>1. CASE StartRecovery(c)
    BY <2>1, <1>t DEF StartRecovery, Eligible, Publication
  <2>2. CASE RecoveryWarms(c)
    BY <2>2, <1>t DEF RecoveryWarms
  <2>3. CASE RecoveryReports(c)
    BY <2>3, <1>t DEF RecoveryReports, Msg
  <2>4. ASSUME NEW r \in Run, Reconcile(c, r)
        PROVE  TruthInv'
    BY <2>4, <1>t DEF Reconcile, Msg
  <2> QED BY <1>3, <2>1, <2>2, <2>3, <2>4 DEF RecoveryStep
<1>4. CASE TimePasses \/ OtherPublish \/ UNCHANGED vars
  BY <1>4 DEF TimePasses, OtherPublish, vars
<1> QED BY <1>1, <1>2, <1>3, <1>4 DEF Next

\* A commit adds a generation to a run that had none, and warming the cache
\* reaches every generation there is.
LEMMA CommitAdds ==
  ASSUME CTypes, OnceInv, NEW r \in Run, Commit(r)
  PROVE  /\ \A q \in Run : at[q] # 0 => at'[q] = at[q]
         /\ \A q \in Run : at'[q] = at[q] \/ (at[q] = 0 /\ at'[q] = gen + 1)
         /\ UNCHANGED <<row, published, warm, wire, pc, receipt, rec>>
  BY DEF Commit, CTypes, OnceInv

\* Whoever speaks of success after a step has a warm cache.
LEMMA WarmStep ==
  ASSUME CTypes, OnceInv, TruthInv, WarmInv, [Next]_vars
  PROVE  WarmInv'
<1> USE DEF WarmInv, SucceededIsWarm, league
<1>t. /\ pc \in [Run -> Places] /\ at \in [Run -> Nat] /\ gen \in Nat /\ warm \in Nat
      /\ wire \subseteq [run : Run, stmt : Statement]
      /\ row.owner \in Run \cup {None} /\ \A r \in Run : at[r] <= gen
      /\ rec \in [Recovery -> [pc : {"idle", "warming", "warmed", "done"}, run : Run \cup {None}]]
      /\ \A c \in Recovery : rec[c].pc \in {"warming", "warmed"} => rec[c].run \in Run
  BY DEF CTypes, ClaimTypeOK
<1>1. ASSUME NEW r \in Run, RunStep(r)
      PROVE  WarmInv'
  <2>1. CASE Proceed(r) \/ FailJob(r)
    <3>1. PICK p \in Places :
            /\ pc' = [pc EXCEPT ![r] = p] /\ wire' = wire \cup {Msg(r, Awaits(p))}
            /\ p \in Settled => p = "completing" /\ pc[r] = "warmed"
            /\ Awaits(p) = "succeeded" => p = "completing"
      BY <2>1, RunSends
    <3>2. UNCHANGED <<row, at, warm, rec>>
      BY <2>1, RunSends
    <3>3. p \in {"warmed", "completing"} => warm >= at[r]
      BY <3>1 DEF Settled
    <3>4. \A m \in wire' : m.stmt = "succeeded" => warm >= at[m.run]
      BY <3>1, <3>3, <1>t DEF Msg
    <3> QED BY <3>1, <3>2, <3>3, <3>4, <1>t
  <2>2. CASE Capture(r) \/ Publish(r) \/ LoseRun(r) \/ Told(r)
    BY <2>2, <1>t DEF Capture, Publish, LoseRun, Told, Move
  <2>3. CASE Warm(r)
    BY <2>3, <1>t DEF Warm, Move
  <2>4. CASE Commit(r)
    <3>1. /\ \A q \in Run : at[q] # 0 => at'[q] = at[q]
          /\ UNCHANGED <<row, warm, wire, pc, rec>>
      BY <2>4, CommitAdds
    <3>2. row.status = "succeeded" /\ row.owner # None => at'[row.owner] = at[row.owner]
      BY <3>1 DEF TruthInv, Publication
    <3>3. \A m \in wire : m.stmt = "succeeded" => at'[m.run] = at[m.run]
      BY <3>1, <1>t DEF TruthInv, Publication
    <3>4. \A q \in Run : pc[q] \in {"warmed", "completing"} => at'[q] = at[q]
      BY <3>1 DEF TruthInv, Settled
    <3>5. \A c \in Recovery : rec[c].pc = "warmed" => at'[rec[c].run] = at[rec[c].run]
      BY <3>1, <1>t DEF TruthInv
    <3> QED BY <3>1, <3>2, <3>3, <3>4, <3>5
  <2> QED BY <1>1, <2>1, <2>2, <2>3, <2>4 DEF RunStep
<1>2. ASSUME NEW m \in wire, Serve(m) \/ Tear(m)
      PROVE  WarmInv'
  <2>1. m.run \in Run /\ m.stmt \in Statement
    BY <1>t
  <2>2. row' = NewRow(m.run, m.stmt) /\ UNCHANGED <<at, warm, rec>>
    BY <1>2, ServeStep DEF Tear, NewRow, Report
  <2>3. row'.status = "succeeded" /\ row'.owner # None => warm' >= at'[row'.owner]
    BY <2>1, <2>2, RowStep
  <2>4. CASE UNCHANGED <<pc, wire>>
    BY <2>2, <2>3, <2>4
  <2>5. ASSUME NEW yes \in BOOLEAN, Awaits(pc[m.run]) = m.stmt,
               pc' = [pc EXCEPT ![m.run] = After(pc[m.run], yes)],
               wire' \subseteq wire \cup {Msg(m.run, "renew"), Msg(m.run, "take_over")}
        PROVE  WarmInv'
    <3>1. m.stmt # "nothing"
      BY <2>1 DEF Statement, Report, InFlight, Terminal, Publication
    <3>2. After(pc[m.run], yes) \notin {"warmed", "completing"}
      BY <2>1, <2>5, <3>1, <1>t, AnswerLeads
    <3>3. \A n \in wire' : n.stmt = "succeeded" => n \in wire
      BY <2>5 DEF Msg
    <3>4. \A q \in Run : pc'[q] \in {"warmed", "completing"} => pc[q] \in {"warmed", "completing"}
      BY <2>1, <2>5, <3>2, <1>t
    <3> QED BY <2>2, <2>3, <3>3, <3>4
  <2> QED BY <1>2, <2>4, <2>5, ServeStep DEF Tear
<1>3. ASSUME NEW c \in Recovery, RecoveryStep(c)
      PROVE  WarmInv'
  <2>1. CASE StartRecovery(c)
    BY <2>1, <1>t DEF StartRecovery
  <2>2. CASE RecoveryWarms(c)
    BY <2>2, <1>t DEF RecoveryWarms
  <2>3. CASE RecoveryReports(c)
    BY <2>3, <1>t DEF RecoveryReports, Msg
  <2>4. ASSUME NEW r \in Run, Reconcile(c, r)
        PROVE  WarmInv'
    BY <2>4, <1>t DEF Reconcile, Msg
  <2> QED BY <1>3, <2>1, <2>2, <2>3, <2>4 DEF RecoveryStep
<1>4. CASE TimePasses \/ OtherPublish \/ UNCHANGED vars
  BY <1>4 DEF TimePasses, OtherPublish, vars
<1> QED BY <1>1, <1>2, <1>3, <1>4 DEF Next

\* Every step keeps the order of the owners' commits.
LEMMA OrderStep ==
  ASSUME ~LateClaims, CTypes, OnceInv, TruthInv, OrderInv, [Next]_vars
  PROVE  OrderInv'
<1> USE ClaimAssumption DEF ClaimAssumption, OrderInv, AcceptedIsPromoted, league
<1>t. /\ pc \in [Run -> Places] /\ at \in [Run -> Nat] /\ gen \in Nat
      /\ wire \subseteq [run : Run, stmt : Statement] /\ row \in RowType
      /\ row.owner \in Run \cup {None} /\ published \in Run \cup {None}
      /\ \A r \in Run : at[r] <= gen
  BY DEF CTypes, ClaimTypeOK
<1>1. ASSUME NEW r \in Run, RunStep(r)
      PROVE  OrderInv'
  <2>1. CASE Proceed(r) \/ FailJob(r)
    <3>1. PICK p \in Places :
            /\ pc' = [pc EXCEPT ![r] = p]
            /\ p \in Settled => p = "completing" /\ pc[r] = "warmed"
      BY <2>1, RunSends
    <3>2. UNCHANGED <<row, published, at>>
      BY <2>1, RunSends
    <3>3. \A q \in Run : pc'[q] \in Settled => pc[q] \in Settled
      BY <3>1, <1>t DEF Settled
    <3> QED BY <3>2, <3>3 DEF Settled
  <2>2. CASE Capture(r) \/ Publish(r) \/ LoseRun(r) \/ Told(r) \/ Warm(r)
    <3>1. UNCHANGED <<row, published, at>>
      BY <2>2 DEF Capture, Publish, LoseRun, Told, Warm
    <3>2. \A q \in Run : pc'[q] \in Settled => pc[q] \in Settled
      BY <2>2, <1>t DEF Capture, Publish, LoseRun, Told, Warm, Move, Settled
    <3> QED BY <3>1, <3>2 DEF Settled
  <2>3. CASE Commit(r)
    <3>1. /\ \A q \in Run : at[q] # 0 => at'[q] = at[q]
          /\ \A q \in Run : at'[q] = at[q] \/ (at[q] = 0 /\ at'[q] = gen + 1)
          /\ UNCHANGED <<row, published, pc>>
      BY <2>3, CommitAdds
    <3>2. \A q \in Run : pc[q] \in Settled \/ published = q => at'[q] = at[q]
      BY <3>1 DEF TruthInv
    <3>3. published # None => at'[published] = at[published]
      BY <3>2, <1>t
    <3>4. ASSUME NEW q \in Run, row.owner # None, q # row.owner,
                 pc[q] \in Settled \/ published = q
          PROVE  at'[row.owner] = 0 \/ at'[row.owner] > at'[q]
      BY <3>1, <3>2, <3>4, <1>t
    <3> QED BY <3>1, <3>2, <3>3, <3>4 DEF Settled
  <2> QED BY <1>1, <2>1, <2>2, <2>3 DEF RunStep
<1>2. ASSUME NEW m \in wire, Serve(m) \/ Tear(m)
      PROVE  OrderInv'
  <2> DEFINE r == m.run
             s == m.stmt
  <2>1. r \in Run /\ s \in Statement /\ (s \in Publication => at[r] # 0)
    BY <1>t DEF TruthInv
  <2>2. row' = NewRow(r, s) /\ UNCHANGED at
    BY <1>2, ServeStep DEF Tear, NewRow, Report
  <2>3. \/ row'.owner = row.owner
        \/ row'.owner = r /\ row.owner = None
        \/ row'.owner = r /\ s = "take_over"
    BY <2>1, <2>2, RowStep
  <2>4. row'.owner # row.owner /\ s = "take_over" /\ row.owner # None => at[row'.owner] = 0
    <3>1. CASE Serve(m)
      BY <2>1, <2>3, <3>1, ServeStep DEF OnceInv, Early
    <3>2. CASE Tear(m)
      BY <3>2 DEF Tear, Publication
    <3> QED BY <1>2, <3>1, <3>2
  <2>5. row'.owner = None => row.owner = None
    BY <2>1, <2>3
  \* The old owner of the row, or a new one that has not committed yet.
  <2>6. \A q \in Run : row'.owner # None /\ q # row'.owner /\ (pc[q] \in Settled \/ published = q)
          => at[row'.owner] = 0 \/ at[row'.owner] > at[q]
    BY <2>1, <2>3, <2>4
  <2>7. \/ published' = published
        \/ s \in Publication /\ row'.owner = r /\ published' = r
    BY <1>2, ServeStep DEF Tear
  <2>8. \A q \in Run : pc'[q] \in Settled =>
          \/ pc[q] \in Settled
          \/ q = r /\ published' = r /\ row'.owner = r /\ s \in Publication
    <3>1. CASE UNCHANGED pc
      BY <3>1
    <3>2. ASSUME NEW yes \in BOOLEAN, Awaits(pc[r]) = s, Serve(m),
                 pc' = [pc EXCEPT ![r] = After(pc[r], yes)],
                 yes /\ s \in Publication => published' = r /\ row'.owner = r
          PROVE  \A q \in Run : pc'[q] \in Settled =>
                   \/ pc[q] \in Settled
                   \/ q = r /\ published' = r /\ row'.owner = r /\ s \in Publication
      <4>1. s # "nothing"
        BY <2>1 DEF Statement, Report, InFlight, Terminal, Publication
      <4>2. After(pc[r], yes) \in Settled => pc[r] = "recording" /\ yes
        BY <2>1, <3>2, <4>1, <1>t, AnswerLeads DEF Settled
      <4>3. pc[r] = "recording" => s \in Publication
        BY <3>2 DEF Awaits, Publication
      <4> QED BY <2>1, <3>2, <4>2, <4>3, <1>t
    <3> QED BY <1>2, <3>1, <3>2, ServeStep DEF Tear
  <2> QED BY <2>1, <2>2, <2>5, <2>6, <2>7, <2>8, <1>t DEF TruthInv, Settled
<1>3. ASSUME NEW c \in Recovery, RecoveryStep(c)
      PROVE  OrderInv'
  BY <1>3 DEF RecoveryStep, StartRecovery, RecoveryWarms, RecoveryReports, Reconcile
<1>4. CASE TimePasses \/ OtherPublish \/ UNCHANGED vars
  BY <1>4 DEF TimePasses, OtherPublish, vars
<1> QED BY <1>1, <1>2, <1>3, <1>4 DEF Next

-----------------------------------------------------------------------------
(* The results.                                                             *)

\* ClaimTypeOK, for any set of runs.
THEOREM ClaimTypeCorrect == Spec => []ClaimTypeOK
<1>1. CTypes => ClaimTypeOK
  BY DEF CTypes
<1> QED BY <1>1, ClaimTyped, PTL

\* Commits are spoken of truly in every reachable state.
LEMMA TruthHolds == Spec => [](OnceInv /\ TruthInv)
<1> USE ClaimAssumption DEF ClaimAssumption
<1>1. Init => OnceInv /\ TruthInv
  BY DEF Init, OnceInv, TruthInv, Publication, Settled
<1>2. CTypes /\ (OnceInv /\ TruthInv) /\ [Next]_vars => (OnceInv /\ TruthInv)'
  BY OnceStep, TruthStep
<1> QED BY <1>1, <1>2, ClaimTyped, PTL DEF Spec

\* A row that shows a publication shows a committed one of its owner, whatever
\* reports come late, twice or torn.
THEOREM RowIsTrue == Spec => []RowTellsTruth
<1>1. TruthInv => RowTellsTruth
  BY DEF TruthInv, RowTellsTruth
<1> QED BY <1>1, TruthHolds, PTL

\* An update that shows success had its cache warmed after its commit.
THEOREM SuccessIsWarm == Spec => []SucceededIsWarm
<1> USE ClaimAssumption DEF ClaimAssumption
<1>1. Init => WarmInv
  BY DEF Init, WarmInv, SucceededIsWarm
<1>2. CTypes /\ (OnceInv /\ TruthInv) /\ WarmInv /\ [Next]_vars => WarmInv'
  BY WarmStep
<1>3. WarmInv => SucceededIsWarm
  BY DEF WarmInv
<1> QED BY <1>1, <1>2, <1>3, ClaimTyped, TruthHolds, PTL DEF Spec

\* Under one owner the row only goes forward.
THEOREM GoesForward == Spec => NoGoingBack
<1> DEFINE Forward ==
      row.owner # None /\ row'.owner = row.owner /\ row'.status # row.status
        => Rank(row'.status) > Rank(row.status)
<1> USE ClaimAssumption DEF ClaimAssumption
<1>1. CTypes /\ [Next]_vars => [Forward]_row
  <2> SUFFICES ASSUME CTypes, [Next]_vars, row' # row, row.owner # None,
                      row'.owner = row.owner, row'.status # row.status
               PROVE  Rank(row'.status) > Rank(row.status)
    OBVIOUS
  <2>1. PICK m \in wire : Serve(m) \/ Tear(m)
    BY DEF Next, vars, league, RunStep, Proceed, Capture, Publish, Commit, Told, Warm,
           FailJob, LoseRun, TimePasses, OtherPublish, RecoveryStep, StartRecovery,
           RecoveryWarms, RecoveryReports, Reconcile
  <2>2. m.run \in Run /\ m.stmt \in Statement
    BY DEF CTypes, ClaimTypeOK
  <2>3. row' = NewRow(m.run, m.stmt)
    BY <2>1, ServeStep DEF Tear, NewRow, Report
  <2>4. \/ /\ m.stmt \in Report /\ row'.status = m.stmt /\ row.status \in Prior(m.stmt)
           /\ ~(m.stmt \in Terminal /\ row.status = m.stmt)
        \/ row.status = "dispatching" /\ row'.status = "failed"
    BY <2>2, <2>3, RowStep
  <2> QED BY <2>4 DEF Rank, Prior, Report, InFlight, Publication, Terminal
<1>2. NoGoingBack <=> [][Forward]_row
  BY DEF NoGoingBack
<1> QED BY <1>1, <1>2, ClaimTyped, PTL DEF Spec

\* The order of commits holds in every reachable state.
LEMMA OrderHolds == ASSUME ~LateClaims PROVE Spec => []OrderInv
<1> USE ClaimAssumption DEF ClaimAssumption
<1>1. Init => OrderInv
  BY DEF Init, OrderInv, AcceptedIsPromoted, Settled
<1>2. CTypes /\ (OnceInv /\ TruthInv) /\ OrderInv /\ [Next]_vars => OrderInv'
  BY OrderStep
<1> QED BY <1>1, <1>2, ClaimTyped, TruthHolds, PTL DEF Spec

\* A run that was told that its commit is recorded finds its manifest, or a
\* later one, published; unless a copy of a take-over comes late.
THEOREM AcceptedIsSafe == ASSUME ~LateClaims PROVE Spec => []AcceptedIsPromoted
<1>1. OrderInv => AcceptedIsPromoted
  BY DEF OrderInv
<1> QED BY <1>1, OrderHolds, PTL

\* The published manifest never goes back to an earlier commit; again unless a
\* copy of a take-over comes late.
THEOREM ManifestForward == ASSUME ~LateClaims PROVE Spec => ManifestFollowsCommits
<1> DEFINE Later == published' # published /\ published # None
                      => at[published'] > at[published]
<1> USE ClaimAssumption DEF ClaimAssumption
<1>1. CTypes /\ (OnceInv /\ TruthInv) /\ OrderInv /\ [Next]_vars => [Later]_published
  <2> SUFFICES ASSUME CTypes, TruthInv, OrderInv, [Next]_vars, published' # published,
                      published # None
               PROVE  at[published'] > at[published]
    OBVIOUS
  <2>1. PICK m \in wire : Serve(m)
    BY DEF Next, vars, league, RunStep, Proceed, Capture, Publish, Commit, Told, Warm,
           FailJob, LoseRun, TimePasses, OtherPublish, RecoveryStep, StartRecovery,
           RecoveryWarms, RecoveryReports, Reconcile, Tear
  <2>2. m.run \in Run /\ m.stmt \in Statement /\ published \in Run
        /\ at \in [Run -> Nat]
    BY DEF CTypes, ClaimTypeOK
  <2>3. /\ row' = NewRow(m.run, m.stmt) /\ row'.owner = m.run /\ published' = m.run
        /\ m.stmt \in Publication
    BY <2>1, ServeStep
  <2>4. row.owner # None
    BY DEF OrderInv
  <2>5. row.owner = m.run
    BY <2>2, <2>3, <2>4, RowStep DEF Publication
  <2>6. at[m.run] # 0
    BY <2>1, <2>3 DEF TruthInv
  <2> QED BY <2>2, <2>3, <2>4, <2>5, <2>6 DEF OrderInv
<1>2. ManifestFollowsCommits <=> [][Later]_published
  BY DEF ManifestFollowsCommits
<1> QED BY <1>1, <1>2, ClaimTyped, TruthHolds, OrderHolds, PTL DEF Spec

-----------------------------------------------------------------------------
(* What a row settled as failed still says.                                  *)

\* Places from which a run only stops.
Over == {"settling", "parting", "done"}

\* A run that reports failure has no receipt, and no longer gets one.
FailedInv ==
  /\ \A m \in wire : m.stmt \in {"failed", "fail_partial"} => pc[m.run] \in Over /\ m.run \notin receipt
  /\ row.status = "failed" /\ row.owner # None => pc[row.owner] \in Over /\ row.owner \notin receipt

LEMMA FailedStep ==
  ASSUME CTypes, OnceInv, TruthInv, FailedInv, [Next]_vars
  PROVE  FailedInv'
<1> USE DEF FailedInv, Over, league
<1>t. /\ pc \in [Run -> Places] /\ wire \subseteq [run : Run, stmt : Statement]
      /\ row.owner \in Run \cup {None} /\ receipt \subseteq Run
  BY DEF CTypes, ClaimTypeOK
<1>1. ASSUME NEW r \in Run, RunStep(r)
      PROVE  FailedInv'
  <2>1. CASE Proceed(r) \/ FailJob(r)
    <3>1. PICK p \in Places : pc' = [pc EXCEPT ![r] = p] /\ wire' = wire \cup {Msg(r, Awaits(p))}
      BY <2>1, RunSends
    <3>2. UNCHANGED <<row, receipt>> /\ pc[r] \notin Over
      BY <2>1 DEF Proceed, FailJob, Working
    <3>3. Awaits(p) \in {"failed", "fail_partial"} => p \in Over
      BY DEF Awaits
    <3>4. Awaits(p) \in {"failed", "fail_partial"} => r \notin receipt
      <4>1. pc[r] \in Early => r \notin receipt
        BY DEF OnceInv, TruthInv
      <4>2. CASE Proceed(r)
        <5>1. CASE pc[r] = "unclaimed"
          BY <4>1, <5>1 DEF Early
        <5>2. CASE pc[r] # "unclaimed"
          <6>1. p \in {"claiming", "starting", "keeping", "idling", "recording", "completing"}
            BY <3>1, <4>2, <5>2, <1>t DEF Proceed, Send
          <6> QED BY <6>1 DEF Awaits
        <5> QED BY <5>1, <5>2
      <4>3. CASE FailJob(r)
        <5>1. CASE pc[r] \in {"claiming", "renewing", "taking", "unclaimed"}
          BY <4>1, <5>1 DEF Early
        <5>2. CASE pc[r] \notin {"claiming", "renewing", "taking", "unclaimed"}
          <6>1. p = FailureStatus(r)
            BY <3>1, <4>3, <5>2, <1>t DEF FailJob, Send
          <6> QED BY <6>1 DEF FailureStatus, Awaits
        <5> QED BY <5>1, <5>2
      <4> QED BY <2>1, <4>2, <4>3
    <3>5. ASSUME NEW m \in wire', m.stmt \in {"failed", "fail_partial"}
          PROVE  pc'[m.run] \in Over /\ m.run \notin receipt'
      <4>1. CASE m \in wire
        BY <3>1, <3>2, <3>5, <4>1, <1>t
      <4>2. CASE m = Msg(r, Awaits(p))
        BY <3>1, <3>2, <3>3, <3>4, <3>5, <4>2, <1>t DEF Msg
      <4> QED BY <3>1, <4>1, <4>2
    <3> QED BY <3>1, <3>2, <3>5, <1>t
  <2>2. CASE Capture(r) \/ Publish(r) \/ Warm(r) \/ LoseRun(r) \/ Told(r) \/ Commit(r)
    BY <2>2, <1>t DEF Capture, Publish, Warm, LoseRun, Told, Commit, Move
  <2> QED BY <1>1, <2>1, <2>2 DEF RunStep
<1>2. ASSUME NEW m \in wire, Serve(m) \/ Tear(m)
      PROVE  FailedInv'
  <2>1. m.run \in Run /\ m.stmt \in Statement /\ m.stmt # "nothing"
    BY <1>t DEF Statement, Report, InFlight, Terminal, Publication
  <2>2. row' = NewRow(m.run, m.stmt) /\ receipt' = receipt
    BY <1>2, ServeStep DEF Serve, Tear, NewRow, Report
  <2>3. \A q \in Run : pc[q] \in Over => pc'[q] \in Over
    <3>1. CASE UNCHANGED pc
      BY <3>1
    <3>2. ASSUME NEW yes \in BOOLEAN, pc' = [pc EXCEPT ![m.run] = After(pc[m.run], yes)]
          PROVE  \A q \in Run : pc[q] \in Over => pc'[q] \in Over
      <4>1. pc[m.run] \in Over => After(pc[m.run], yes) = "done"
        BY DEF After
      <4> QED BY <2>1, <3>2, <4>1, <1>t
    <3> QED BY <1>2, <3>1, <3>2, ServeStep DEF Tear
  <2>4. row'.status = "failed" /\ row'.owner # None
          => row' = row \/ (row'.owner = m.run /\ m.stmt \in {"failed", "fail_partial"})
    BY <2>1, <2>2, RowStep
  <2>5. row'.status = "failed" /\ row'.owner # None => pc'[row'.owner] \in Over /\ row'.owner \notin receipt'
    BY <2>1, <2>2, <2>3, <2>4, <1>t
  <2>6. \A n \in wire' : n.stmt \in {"failed", "fail_partial"} => n \in wire
    BY <1>2, ServeStep DEF Tear, Msg
  <2> QED BY <2>2, <2>3, <2>5, <2>6, <1>t
<1>3. ASSUME NEW c \in Recovery, RecoveryStep(c)
      PROVE  FailedInv'
  BY <1>3, <1>t DEF RecoveryStep, StartRecovery, RecoveryWarms, RecoveryReports, Reconcile, Msg
<1>4. CASE TimePasses \/ OtherPublish \/ UNCHANGED vars
  BY <1>4 DEF TimePasses, OtherPublish, vars
<1> QED BY <1>1, <1>2, <1>3, <1>4 DEF Next

\* A row settled as failed names a run that holds no receipt of a commit.
FailedHasNoReceipt ==
  row.status = "failed" /\ row.owner # None => row.owner \notin receipt

\* The failed row that FailedDidNotPublish is about, whose bundle is in after
\* all, is only ever one of a run that was not told: no run that has saved a
\* receipt is settled as failed, by whatever copy of a report (failure_status).
THEOREM ToldIsNotSettledAsFailed == Spec => []FailedHasNoReceipt
<1>1. Init => FailedInv
  BY DEF Init, FailedInv
<1>2. FailedInv => FailedHasNoReceipt
  BY DEF FailedInv, FailedHasNoReceipt
<1> QED BY <1>1, <1>2, FailedStep, ClaimTyped, TruthHolds, PTL DEF Spec

-----------------------------------------------------------------------------
(* The server of this module and that of DeltaPublish keep one promise.      *)

\* One league; its bundles are the runs and the publications of other lanes.
ThisLeague == {"this league"}
Bundle     == Run \cup (1..MaxOther)
Landed     == {r \in Run : at[r] # 0} \cup (1..others)

Store == INSTANCE LeagueStore WITH
  League <- ThisLeague, Scope <- [b \in Bundle |-> ThisLeague], published <- Landed,
  facts <- [l \in ThisLeague |-> Landed], gen <- [l \in ThisLeague |-> gen]

ClaimStoreSpec == Store!Spec

\* The other lanes are counted up to their bound.
LEMMA OthersCounted == Spec => [](others \in 0..MaxOther)
<1>1. Init => others \in 0..MaxOther
  BY ClaimAssumption DEF Init, ClaimAssumption
<1>2. others \in 0..MaxOther /\ [Next]_vars => (others \in 0..MaxOther)'
  <2> SUFFICES ASSUME others \in 0..MaxOther, [Next]_vars PROVE others' \in 0..MaxOther
    OBVIOUS
  <2>1. CASE OtherPublish
    BY <2>1, ClaimAssumption DEF OtherPublish, ClaimAssumption
  <2>2. CASE UNCHANGED others
    BY <2>2
  <2> QED BY <2>1, <2>2 DEF Next, RunStep, Proceed, Capture, Publish, Commit, Told, Warm, FailJob,
      LoseRun, Serve, Tear, RecoveryStep, StartRecovery, RecoveryWarms, RecoveryReports,
      Reconcile, TimePasses, vars, league
<1> QED BY <1>1, <1>2, PTL DEF Spec

\* What a run or another lane commits is added to the league in one step, once,
\* and moves the generation by one; nothing else does, whatever the row says.
THEOREM ClaimImplementsStore ==
  ASSUME Run \cap Nat = {}
  PROVE  Spec => ClaimStoreSpec
<1> USE DEF Store!Publish, ThisLeague, Landed, league
<1>1. Init => Store!Init
  BY DEF Init, Store!Init
<1>2. CTypes /\ OnceInv /\ others \in 0..MaxOther /\ [Next]_vars
        => [Store!Next]_<<[l \in ThisLeague |-> Landed], [l \in ThisLeague |-> gen], Landed>>
  <2> SUFFICES ASSUME CTypes, OnceInv, others \in 0..MaxOther, [Next]_vars
               PROVE  \/ \E b \in Bundle : Store!Publish(b)
                      \/ UNCHANGED <<at, others, gen>>
    BY DEF Store!Next
  <2>t. at \in [Run -> Nat] /\ gen \in Nat /\ others \in Nat
    BY ClaimAssumption DEF CTypes, ClaimTypeOK, ClaimAssumption
  <2>1. ASSUME NEW r \in Run, Commit(r), gen = base[r] PROVE Store!Publish(r)
    <3>1. /\ gen' = gen + 1 /\ at' = [at EXCEPT ![r] = gen + 1] /\ others' = others
          /\ at[r] = 0 /\ r \notin 1..others /\ r \in Bundle
      BY <2>1, <2>t DEF Commit, OnceInv, Bundle
    <3>2. Landed' = Landed \cup {r} /\ r \notin Landed
      BY <3>1, <2>t
    <3> QED BY <3>1, <3>2
  <2>2. ASSUME OtherPublish PROVE Store!Publish(others + 1) /\ others + 1 \in Bundle
    <3>1. /\ gen' = gen + 1 /\ at' = at /\ others' = others + 1
          /\ others + 1 \in 1..MaxOther /\ others + 1 \notin Run
      BY <2>2, <2>t, ClaimAssumption DEF OtherPublish, ClaimAssumption
    <3>2. Landed' = Landed \cup {others + 1} /\ others + 1 \notin Landed
      BY <3>1, <2>t
    <3> QED BY <3>1, <3>2 DEF Bundle
  <2>3. CASE UNCHANGED <<at, others, gen>>
    BY <2>3
  <2>4. \/ \E r \in Run : Commit(r) /\ gen = base[r]
        \/ OtherPublish
        \/ UNCHANGED <<at, others, gen>>
    BY DEF Next, RunStep, Proceed, Capture, Publish, Commit, Told, Warm, FailJob, LoseRun, Serve,
       Tear, RecoveryStep, StartRecovery, RecoveryWarms, RecoveryReports, Reconcile, TimePasses, vars
  <2> QED BY <2>1, <2>2, <2>3, <2>4 DEF Bundle
<1> QED BY <1>1, <1>2, ClaimTyped, TruthHolds, OthersCounted, PTL DEF Spec, ClaimStoreSpec, Store!Spec

=============================================================================
