------------------------------- MODULE OpsStore -------------------------------
(***************************************************************************)
(* What the ___ops database promises its clients: every update takes       *)
(* effect at one instant, at most once and before it is answered; success  *)
(* means that it did; and nothing that took effect is undone.  An update   *)
(* answered with failure may have taken effect or not, but no longer will. *)
(***************************************************************************)
EXTENDS Naturals

CONSTANTS Request, Update     \* Update: the requests that change the content

VARIABLES
  content,  \* the updates that have taken effect
  out       \* [Request -> its answer]

Init == content = {} /\ out = [t \in Request |-> "none"]

Apply(u) ==
  /\ u \notin content /\ out[u] = "none"
  /\ content' = content \cup {u}
  /\ UNCHANGED out

Answer(t, o) ==
  /\ out[t] = "none"
  /\ o = "ok" /\ t \in Update => t \in content
  /\ out' = [out EXCEPT ![t] = o]
  /\ UNCHANGED content

Next == \/ \E u \in Update : Apply(u)
        \/ \E t \in Request, o \in {"ok", "failed"} : Answer(t, o)

Spec == Init /\ [][Next]_<<content, out>>
=============================================================================
