----------------------------- MODULE Occurrence -----------------------------
(***************************************************************************)
(* The promise of the reviewed local copy, stated without callers, locks,  *)
(* records or time: one occurrence is put to the provider once, its review *)
(* is accepted once, it is granted once, its authority is spent once, one  *)
(* attempt makes at most one copy, and the attempt is settled once.  Every *)
(* step needs the one before it, and every step may fail to come.          *)
(***************************************************************************)
EXTENDS Naturals

VARIABLES requests, accepted, grants, spends, attempts, copies, outcome

vars == <<requests, accepted, grants, spends, attempts, copies, outcome>>

Init ==
  /\ requests = 0 /\ accepted = FALSE /\ grants = 0 /\ spends = 0
  /\ attempts = 0 /\ copies = 0 /\ outcome = "none"

Ask ==
  /\ requests = 0 /\ requests' = 1
  /\ UNCHANGED <<accepted, grants, spends, attempts, copies, outcome>>

Accept ==
  /\ requests = 1 /\ ~accepted /\ accepted' = TRUE
  /\ UNCHANGED <<requests, grants, spends, attempts, copies, outcome>>

Grant ==
  /\ accepted /\ grants = 0 /\ grants' = 1
  /\ UNCHANGED <<requests, accepted, spends, attempts, copies, outcome>>

Spend ==
  /\ grants = 1 /\ spends = 0 /\ spends' = 1
  /\ UNCHANGED <<requests, accepted, grants, attempts, copies, outcome>>

\* The attempt may be interrupted before the file is made.
Attempt ==
  /\ spends = 1 /\ attempts = 0 /\ attempts' = 1
  /\ copies' \in {0, 1}
  /\ UNCHANGED <<requests, accepted, grants, spends, outcome>>

\* Without a durable success record the attempt settles as indeterminate.
Settle ==
  /\ attempts = 1 /\ outcome = "none"
  /\ outcome' \in {"success", "indeterminate"}
  /\ outcome' = "success" => copies = 1
  /\ UNCHANGED <<requests, accepted, grants, spends, attempts, copies>>

Next == Ask \/ Accept \/ Grant \/ Spend \/ Attempt \/ Settle

Spec == Init /\ [][Next]_vars

=============================================================================
