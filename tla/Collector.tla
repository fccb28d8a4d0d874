----------------------------- MODULE Collector ------------------------------
(***************************************************************************)
(* One Caller.call of reviewed_action.py: the started record, the program, *)
(* the loop that drains its two pipes against one deadline and one bound   *)
(* per stream, the ladder that ends the program, and the finished record.  *)
(*                                                                         *)
(* The program, and a helper it may leave behind with the pipes inherited, *)
(* are external: they write, block on a full pipe, close, exit or hang.    *)
(* Sizes are in small units; left is the time to the current deadline.     *)
(***************************************************************************)
EXTENDS Integers

CONSTANTS
  Limit,     \* bytes kept of one stream (16 MiB)
  Block,     \* bytes of one read (64 KiB)
  Pipe,      \* capacity of a pipe
  MaxWrite,  \* bound on what is written to one stream
  Timeout,   \* the call's timeout
  Grace,     \* from TERM to KILL (5 s)
  Helpers    \* may the program leave a helper behind

ASSUME SizeAssumption ==
  /\ Limit \in Nat /\ Block \in Nat \ {0} /\ Pipe \in Nat \ {0}
  /\ MaxWrite \in Nat /\ Timeout \in Nat /\ Grace \in Nat
  /\ Helpers \in BOOLEAN

VARIABLES
  pc,        \* where the call is
  left,      \* time to its current deadline
  child,     \* the direct child
  code,      \* its exit code, once it exited
  signalled, \* it was terminated or killed
  pending,   \* stream the child is blocked on, in write(2)
  helper,    \* a helper is alive
  stream,    \* the two pipes and the files they are drained to
  registered,\* the streams whose end the loop has not read
  ready,     \* what select returned and the loop has not read yet
  started,   \* started.json is written
  answered,  \* process.wait returned the exit code
  finished   \* finished.json, once written, holds an exit code

vars == <<pc, left, child, code, signalled, pending, helper, stream,
          registered, ready, started, answered, finished>>

collection == <<stream, registered, ready>>
program == <<child, code, pending, helper>>
evidence == <<signalled, started, answered, finished>>

Stream == {"stdout", "stderr"}
Over == {"returned", "raised", "crashed"}

Pc == {"idle", "recorded", "collect", "read", "cleanup", "term", "kill",
       "close", "record"} \cup Over

TypeOK ==
  /\ pc \in Pc /\ left \in Nat
  /\ child \in {"none", "alive", "exited", "reaped"}
  /\ code \in {-1, 0, 1}
  /\ helper \in BOOLEAN /\ signalled \in BOOLEAN
  /\ started \in BOOLEAN /\ answered \in BOOLEAN
  /\ pending \in Stream \cup {"none"}
  /\ stream \in [Stream ->
       [writers : SUBSET {"child", "helper"}, wrote : Nat, pipe : 0..Pipe, kept : 0..Limit, disk : 0..Limit]]
  /\ ready \subseteq registered /\ registered \subseteq Stream
  /\ finished \in {"absent", "ok", "failed"}

Init ==
  /\ pc = "idle" /\ left = 0 /\ child = "none" /\ code = -1
  /\ pending = "none" /\ helper = FALSE
  /\ signalled = FALSE /\ started = FALSE /\ answered = FALSE
  /\ stream = [s \in Stream |->
       [writers |-> {}, wrote |-> 0, pipe |-> 0, kept |-> 0, disk |-> 0]]
  /\ registered = {} /\ ready = {} /\ finished = "absent"

-----------------------------------------------------------------------------
(* Before the program runs. *)

Announce ==
  /\ pc = "idle" /\ pc' = "recorded" /\ started' = TRUE
  /\ UNCHANGED <<left, program, signalled, answered, finished, collection>>

\* A name is taken, the temporary directory differs, or Popen fails.
FailEarly ==
  /\ pc \in {"idle", "recorded"} /\ pc' = "raised"
  /\ UNCHANGED <<left, program, evidence, collection>>

Spawn ==
  /\ pc = "recorded" /\ pc' = "collect" /\ left' = Timeout
  /\ child' = "alive"
  /\ stream' = [s \in Stream |->
       [stream[s] EXCEPT !.writers = {"child"}]]
  /\ registered' = Stream
  /\ UNCHANGED <<code, pending, helper, evidence, ready>>

-----------------------------------------------------------------------------
(* The loop. *)

\* Mutant: one stream at a time, standard output first.
ReadableInTurn ==
  {s \in registered : /\ s = "stderr" => "stdout" \notin registered
                      /\ stream[s].pipe > 0 \/ stream[s].writers = {}}

\* Data, or the end of the stream.
Readable ==
  {s \in registered : stream[s].pipe > 0 \/ stream[s].writers = {}}

Select ==
  /\ pc = "collect" /\ left > 0 /\ Readable # {}
  /\ ready' = Readable /\ pc' = "read"
  /\ UNCHANGED <<left, program, evidence, stream, registered>>

CollectionTimedOut ==
  /\ pc = "collect" /\ registered # {} /\ left = 0
  /\ pc' = "cleanup"
  /\ UNCHANGED <<left, program, evidence, collection>>

AfterRead(s) ==
  /\ ready' = ready \ {s}
  /\ pc' = IF ready = {s} THEN "collect" ELSE "read"

BlockOf(s) == IF stream[s].pipe < Block THEN stream[s].pipe ELSE Block

\* Mutant: the bound is looked at before the block is counted.
FitsBefore(s) == stream[s].kept <= Limit

Taken(s, kept) ==
  [stream[s] EXCEPT !.pipe = @ - BlockOf(s), !.kept = @ + kept]

\* The block is counted before it is kept.
Fits(s) == stream[s].kept + BlockOf(s) <= Limit

ReadBlock(s) ==
  /\ pc = "read" /\ s \in ready /\ stream[s].pipe > 0
  /\ Fits(s)
  /\ stream' = [stream EXCEPT ![s] = Taken(s, BlockOf(s))]
  /\ AfterRead(s)
  /\ UNCHANGED <<left, program, evidence, registered>>

BoundExceeded(s) ==
  /\ pc = "read" /\ s \in ready /\ stream[s].pipe > 0
  /\ ~Fits(s)
  /\ stream' = [stream EXCEPT ![s] = Taken(s, 0)]
  /\ ready' = {} /\ pc' = "cleanup"
  /\ UNCHANGED <<left, program, evidence, registered>>

ReadEnd(s) ==
  /\ pc = "read" /\ s \in ready /\ stream[s].pipe = 0
  /\ registered' = registered \ {s}
  /\ AfterRead(s)
  /\ UNCHANGED <<left, program, evidence, stream>>

\* Mutant: the child's exit is taken for the end of its output.
DrainedAtExit == child = "exited"

\* Both streams have ended.
Drained == registered = {}

\* process.wait reaps the child at once when it has already exited.
WaitForExit ==
  /\ pc = "collect" /\ Drained /\ child = "exited"
  /\ child' = "reaped" /\ answered' = TRUE /\ pc' = "close"
  /\ UNCHANGED <<left, code, pending, helper, signalled, started, finished,
                 collection>>

WaitTimedOut ==
  /\ pc = "collect" /\ Drained /\ child = "alive" /\ left = 0
  /\ pc' = "cleanup"
  /\ UNCHANGED <<left, program, evidence, collection>>

-----------------------------------------------------------------------------
(* finally. *)

\* poll reaps a child that exited meanwhile; otherwise it gets TERM.
Cleanup ==
  /\ pc = "cleanup"
  /\ IF child = "exited"
     THEN /\ child' = "reaped" /\ pc' = "close"
          /\ UNCHANGED <<left, signalled>>
     ELSE /\ pc' = "term" /\ signalled' = TRUE /\ left' = Grace
          /\ UNCHANGED child
  /\ UNCHANGED <<code, pending, helper, started, answered, finished, collection>>

\* Mutant: no KILL, the child is left to itself.
AfterGraceCloses == "close"

\* Mutant: TERM is sent again.
AfterGraceWaits == "term"

\* KILL.
AfterGrace == "kill"

GraceOver ==
  /\ pc = "term" /\ child = "alive" /\ left = 0
  /\ pc' = AfterGrace
  /\ UNCHANGED <<left, program, evidence, collection>>

Reap ==
  /\ pc \in {"term", "kill"} /\ child = "exited"
  /\ child' = "reaped" /\ pc' = "close"
  /\ UNCHANGED <<left, code, pending, helper, evidence, collection>>

\* Mutant: whatever was collected is recorded as finished.
AfterCloseRecords == "record"

\* Only a collected exit goes on to the finished record.
AfterClose == IF answered THEN "record" ELSE "raised"

\* Both files are flushed and synced, both pipes closed.
Close ==
  /\ pc = "close" /\ pc' = AfterClose
  /\ stream' = [s \in Stream |->
       [stream[s] EXCEPT !.disk = stream[s].kept, !.pipe = 0]]
  /\ registered' = {} /\ ready' = {}
  /\ UNCHANGED <<left, program, evidence>>

\* A nonzero code, or output that does not parse, is recorded and raised.
Record ==
  /\ pc = "record"
  /\ finished' = IF code = 0 THEN "ok" ELSE "failed"
  /\ pc' \in IF code = 0 THEN {"returned", "raised"} ELSE {"raised"}
  /\ UNCHANGED <<left, program, signalled, started, answered, collection>>

Crash ==
  /\ pc \notin Over \cup {"idle"} /\ pc' = "crashed"
  /\ stream' = [s \in Stream |->
       [stream[s] EXCEPT !.pipe = 0]]
  /\ registered' = {} /\ ready' = {}
  /\ UNCHANGED <<left, program, evidence>>

-----------------------------------------------------------------------------
(* The program and its helper. *)

Filled(s) == [stream[s] EXCEPT !.pipe = @ + 1, !.wrote = @ + 1]

Writes(s, w) ==
  /\ w \in stream[s].writers /\ s \in registered
  /\ stream[s].pipe < Pipe /\ stream[s].wrote < MaxWrite
  /\ stream' = [stream EXCEPT ![s] = Filled(s)]

\* write(2) begins; it ends when there is room.
ChildBegins(s) ==
  /\ child = "alive" /\ pending = "none" /\ "child" \in stream[s].writers
  /\ s \in registered /\ stream[s].wrote < MaxWrite
  /\ pending' = s
  /\ UNCHANGED <<pc, left, child, code, helper, evidence, collection>>

ChildWrites(s) ==
  /\ child = "alive" /\ pending = s /\ Writes(s, "child")
  /\ pending' = "none"
  /\ UNCHANGED <<pc, left, child, code, evidence, helper, registered, ready>>

ChildCloses(s) ==
  /\ child = "alive" /\ pending = "none" /\ "child" \in stream[s].writers
  /\ stream' = [stream EXCEPT ![s].writers = @ \ {"child"}]
  /\ UNCHANGED <<pc, left, program, evidence, registered, ready>>

\* A dead process holds no pipe.
WithoutWriter(w) ==
  [s \in Stream |-> [stream[s] EXCEPT !.writers = @ \ {w}]]

\* A blocked child cannot exit by itself; a signal or a closed pipe can
\* end it.
ChildExits(c) ==
  /\ child = "alive"
  /\ pending # "none" =>
       c = 1 /\ (signalled \/ pending \notin registered)
  /\ child' = "exited" /\ code' = c /\ pending' = "none"
  /\ stream' = WithoutWriter("child")
  /\ UNCHANGED <<pc, left, evidence, helper, registered, ready>>

Killed ==
  /\ pc = "kill" /\ child = "alive"
  /\ child' = "exited" /\ code' = 1 /\ pending' = "none"
  /\ stream' = WithoutWriter("child")
  /\ UNCHANGED <<pc, left, evidence, helper, registered, ready>>

\* The helper inherits what the child still holds.
Inherited(s) ==
  [stream[s] EXCEPT
    !.writers = IF "child" \in @ THEN @ \cup {"helper"} ELSE @]

HelperStarts ==
  /\ Helpers /\ child = "alive" /\ pending = "none" /\ ~helper
  /\ helper' = TRUE
  /\ stream' = [s \in Stream |-> Inherited(s)]
  /\ UNCHANGED <<pc, left, child, code, evidence, pending, registered, ready>>

HelperWrites(s) ==
  /\ Writes(s, "helper")
  /\ UNCHANGED <<pc, left, program, evidence, registered, ready>>

HelperExits ==
  /\ helper /\ helper' = FALSE
  /\ stream' = WithoutWriter("helper")
  /\ UNCHANGED <<pc, left, child, code, evidence, pending, registered, ready>>

Tick ==
  /\ left > 0 /\ pc \notin Over /\ left' = left - 1
  /\ UNCHANGED <<pc, program, evidence, collection>>

-----------------------------------------------------------------------------
CallStep ==
  \/ Announce \/ FailEarly \/ Spawn
  \/ Select \/ CollectionTimedOut \/ WaitForExit \/ WaitTimedOut
  \/ \E s \in Stream : ReadBlock(s) \/ BoundExceeded(s) \/ ReadEnd(s)
  \/ Cleanup \/ GraceOver \/ Reap \/ Close \/ Record

ChildStep ==
  \E s \in Stream : ChildBegins(s) \/ ChildWrites(s) \/ ChildCloses(s)

HelperStep ==
  HelperStarts \/ HelperExits \/ \E s \in Stream : HelperWrites(s)

Next ==
  \/ CallStep \/ Crash \/ Killed \/ Tick \/ ChildStep \/ HelperStep
  \/ \E c \in {0, 1} : ChildExits(c)

Spec == Init /\ [][Next]_vars

\* The caller is a running process; nobody else owes it anything.
FairSpec == Spec /\ WF_vars(CallStep)

-----------------------------------------------------------------------------
(* Collector as the one call of NativeCall. *)

CallState ==
  CASE pc = "idle" -> "ready"
    [] pc = "recorded" -> "recorded"
    [] pc \in {"collect", "read", "cleanup", "term", "kill"} -> "running"
    [] pc = "close" -> IF answered THEN "exited" ELSE "running"
    [] pc = "record" -> "exited"
    [] pc = "returned" -> "ready"
    [] OTHER -> IF child = "alive" \/ (helper /\ ~answered) THEN "orphan"
                                                           ELSE "over"

Call == INSTANCE NativeCall WITH
  Name <- {"call"}, state <- CallState,
  started <- IF started THEN {"call"} ELSE {},
  finished <- IF finished = "absent" THEN {} ELSE {"call"}

\* A call is announced before its program runs and finished only by an
\* answer.
ImplementsNativeCall == Call!Spec

-----------------------------------------------------------------------------
(* Properties. *)

\* A finished record vouches for the whole output: both files hold, durably,
\* every byte that was written, nobody can write any more, and the program
\* ended by itself.
FinishedIsComplete ==
  finished # "absent" =>
    /\ ~signalled /\ child = "reaped"
    /\ \A s \in Stream : /\ stream[s].disk = stream[s].wrote
                         /\ stream[s].writers = {}

\* A call that came back, with an answer or an error, left no child of its
\* own behind, not even a dead one.
NoChildLeft == pc \in {"returned", "raised"} => child \in {"none", "reaped"}

\* Time passes, and KILL is not survived.
TimePasses == WF_vars(Tick) /\ WF_vars(Killed)

\* A program that hangs, ignores TERM, or leaves a helper with the pipes
\* open cannot hold the call.
CallEnds == TimePasses => (pc = "recorded" ~> pc \in Over)

\* A program that writes what it has to and exits, and starts no helper,
\* however slow the clock.
ProgramDoesItsPart ==
  /\ \A s \in Stream : WF_vars(ChildWrites(s))
  /\ WF_vars(ChildExits(0))
  /\ []~helper

\* A program that fills one pipe while the loop could wait on the other is
\* not left blocked until the deadline.
DrainsBothStreams ==
  ProgramDoesItsPart =>
    (pc = "collect" ~> pc \notin {"collect", "read"} \/ left = 0)

=============================================================================
