----------------------------- MODULE NativeCall -----------------------------
(***************************************************************************)
(* What Caller.call promises to whoever drives it, one call after another: *)
(* a call is announced before its program runs, is announced once, is      *)
(* recorded as finished only when its program answered, and nothing is     *)
(* called after a call that was left without an answer.                    *)
(***************************************************************************)
EXTENDS Naturals

CONSTANT Name   \* names of the calls one output directory may record

VARIABLES
  state,      \* of the invocation: between calls, in one, or over
  started,    \* calls with a started record
  finished    \* calls with a finished record

vars == <<state, started, finished>>

Init == state = "ready" /\ started = {} /\ finished = {}

Begin ==
  /\ state = "ready" /\ started = finished
  /\ \E n \in Name \ started : started' = started \cup {n}
  /\ state' = "recorded"
  /\ UNCHANGED finished

Spawn ==
  /\ state = "recorded" /\ state' = "running"
  /\ UNCHANGED <<started, finished>>

Answer ==
  /\ state = "running" /\ state' \in {"exited", "refused"}
  /\ UNCHANGED <<started, finished>>

\* The answer is recorded; what it says may still end the invocation.
Finish ==
  /\ state \in {"exited", "refused"}
  /\ state' \in IF state = "exited" THEN {"ready", "over"} ELSE {"over"}
  /\ finished' = started
  /\ UNCHANGED started

\* No answer: whatever the program started may outlive the invocation.
Abandon ==
  /\ state \notin {"over", "orphan"}
  /\ state' \in IF state = "running" THEN {"orphan", "over"} ELSE {"over"}
  /\ UNCHANGED <<started, finished>>

Vanish ==
  /\ state = "orphan" /\ state' = "over"
  /\ UNCHANGED <<started, finished>>

Next == Begin \/ Spawn \/ Answer \/ Finish \/ Abandon \/ Vanish

Spec == Init /\ [][Next]_vars

=============================================================================
