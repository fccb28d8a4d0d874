-------------------------- MODULE MCReviewedAction --------------------------
(* Instances of ReviewedAction for TLC. *)
EXTENDS ReviewedAction, TLC

\* Invocations are interchangeable: no action or property names one.
CallerSymmetry == Permutations(Caller)
=============================================================================
