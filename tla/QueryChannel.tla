---------------------------- MODULE QueryChannel ----------------------------
(***************************************************************************)
(* What the camera service promises a GenyClient, seen from the calls of   *)
(* doQuery: queries are numbered in the order they are made, each returns  *)
(* an answer or a failure, and an answer may belong to an earlier query.   *)
(* Answers are used in order, at most once, and lag behind by no more      *)
(* queries than have failed.                                               *)
(***************************************************************************)
EXTENDS Naturals

CONSTANT MaxQueries    (* bound on the number of queries *)

VARIABLES
  asked,     (* queries made so far                                 *)
  pending,   (* doQuery has not returned from the last of them      *)
  answered,  (* the query whose answer was used last, 0 before any  *)
  failures   (* queries that have failed                            *)

vars == <<asked, pending, answered, failures>>

Init == asked = 0 /\ pending = FALSE /\ answered = 0 /\ failures = 0

Ask ==
  /\ ~pending
  /\ asked < MaxQueries
  /\ asked' = asked + 1
  /\ pending' = TRUE
  /\ UNCHANGED <<answered, failures>>

\* The answer used is that of a query not yet answered, late by the failures.
Answer ==
  /\ pending
  /\ answered' \in answered + 1 .. asked
  /\ asked <= answered' + failures
  /\ pending' = FALSE
  /\ UNCHANGED <<asked, failures>>

Fail ==
  /\ pending
  /\ failures' = failures + 1
  /\ pending' = FALSE
  /\ UNCHANGED <<asked, answered>>

Next == Ask \/ Answer \/ Fail
Spec == Init /\ [][Next]_vars
=============================================================================
