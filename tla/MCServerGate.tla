---------------------------- MODULE MCServerGate ----------------------------
(***************************************************************************)
(* ServerGate for TLC.  Queries on leagues are alike, and so are            *)
(* publications: the safety runs may exchange them.                        *)
(***************************************************************************)
EXTENDS ServerGate, TLC

Alike == Permutations(Query) \cup Permutations(Publish)
=============================================================================
