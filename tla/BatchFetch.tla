----------------------------- MODULE BatchFetch -----------------------------
(***************************************************************************)
(* What reqPositions promises its caller: one call that ends, once, either *)
(* with a result for every request, each correlation key exactly once and *)
(* in any order, or with an error and no result at all.  ReqPositions      *)
(* refines this specification.                                             *)
(***************************************************************************)
EXTENDS Sequences, SequencesExt, FiniteSets

CONSTANT Keys   \* the correlation keys of the requests

VARIABLES status, result

\* The orderings of the keys: the answers the call may return.
Answers == { s \in [1..Cardinality(Keys) -> Keys] : ToSet(s) = Keys }

Init ==
  /\ status = "pending"
  /\ result = <<>>

Succeed ==
  /\ status = "pending"
  /\ status' = "ok"
  /\ result' \in Answers

Fail ==
  /\ status = "pending"
  /\ status' = "err"
  /\ UNCHANGED result

Spec == Init /\ [][Succeed \/ Fail]_<<status, result>>
=============================================================================
