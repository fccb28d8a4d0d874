-------------------------- MODULE Collector_proofs --------------------------
(***************************************************************************)
(* Proofs about Collector, for every size of the pipes, blocks and bounds, *)
(* and every timeout.                                                      *)
(***************************************************************************)
EXTENDS Collector, TLAPS

USE SizeAssumption

-----------------------------------------------------------------------------
(* What a finished record vouches for. *)

Pipes ==
  [writers : SUBSET {"child", "helper"}, wrote : Nat, pipe : Nat,
   kept : Nat, disk : Nat]

\* Nobody can write to s and nothing is left to read.
Ended(s) == stream[s].writers = {} /\ stream[s].pipe = 0

\* Every byte written to s is kept, or still to be read.
Intact(s) == stream[s].wrote = stream[s].kept + stream[s].pipe

Before == {"idle", "recorded"}
Looping == {"collect", "read"}

\* The shape the proof needs, weaker than TypeOK.
Shaped ==
  /\ stream \in [Stream -> Pipes]
  /\ ready \subseteq Stream /\ registered \subseteq Stream
  /\ pc \in Pc
  /\ finished \in {"absent", "ok", "failed"}
  /\ answered \in BOOLEAN /\ signalled \in BOOLEAN

\* Nothing was spawned yet.
Unspawned ==
  pc \in Before =>
    /\ child = "none" /\ ~helper /\ ~answered /\ ~signalled
    /\ finished = "absent"
    /\ \A s \in Stream : Intact(s) /\ Ended(s)

\* The loop has lost nothing, and a stream it let go of has ended.
LoopKeepsAll ==
  pc \in Looping =>
    /\ ~signalled /\ ~answered /\ child \in {"alive", "exited"}
    /\ \A s \in Stream :
         /\ Intact(s)
         /\ s \notin registered => Ended(s)

\* What select reported is still true when it is read.
ReportStands ==
  pc = "read" =>
    \A s \in ready : stream[s].pipe > 0 \/ stream[s].writers = {}

\* A collected answer comes with everything that was written.
AnswerIsComplete ==
  answered =>
    /\ ~signalled /\ child = "reaped"
    /\ pc \in {"close", "record"} \cup Over
    /\ \A s \in Stream : Intact(s) /\ Ended(s)

RecordIsDurable ==
  pc = "record" \/ finished # "absent" =>
    /\ answered
    /\ \A s \in Stream : stream[s].disk = stream[s].kept
    /\ pc \in {"record"} \cup Over

\* The child is reaped before the pipes are closed.
ReapedBeforeClose ==
  /\ pc \in {"close", "record"} => child = "reaped"
  /\ pc \in {"returned", "raised"} => child \in {"none", "reaped"}
  /\ pc \in {"cleanup", "term", "kill"} => child \in {"alive", "exited"}

CallInv ==
  /\ Shaped /\ Unspawned /\ LoopKeepsAll /\ ReportStands
  /\ AnswerIsComplete /\ RecordIsDurable /\ ReapedBeforeClose

\* What the steps do to one stream, field by field.
LEMMA PipeFields ==
  ASSUME NEW r \in Pipes
  PROVE  /\ LET q == [r EXCEPT !.disk = r.kept, !.pipe = 0]
            IN /\ q \in Pipes /\ q.writers = r.writers /\ q.wrote = r.wrote
               /\ q.kept = r.kept /\ q.pipe = 0 /\ q.disk = r.kept
         /\ LET q == [r EXCEPT !.pipe = 0]
            IN /\ q \in Pipes /\ q.writers = r.writers /\ q.wrote = r.wrote
               /\ q.kept = r.kept /\ q.pipe = 0 /\ q.disk = r.disk
BY DEF Pipes

LEMMA Reading ==
  ASSUME Shaped, NEW s \in Stream
  PROVE  /\ stream[s] \in Pipes /\ BlockOf(s) \in Nat
         /\ BlockOf(s) <= stream[s].pipe
         /\ \A k \in {0, BlockOf(s)} :
              /\ Taken(s, k) \in Pipes
              /\ Taken(s, k).writers = stream[s].writers
              /\ Taken(s, k).wrote = stream[s].wrote
              /\ Taken(s, k).pipe = stream[s].pipe - BlockOf(s)
              /\ Taken(s, k).kept = stream[s].kept + k
<1>1. stream[s] \in Pipes
  BY DEF Shaped
<1>2. stream[s].pipe \in Nat /\ stream[s].kept \in Nat
  BY <1>1 DEF Pipes
<1>3. BlockOf(s) \in Nat /\ BlockOf(s) <= stream[s].pipe
  BY <1>2 DEF BlockOf
<1>4. /\ stream[s].pipe - BlockOf(s) \in Nat
      /\ \A k \in {0, BlockOf(s)} : stream[s].kept + k \in Nat
  BY <1>2, <1>3
<1>5. ASSUME NEW k \in {0, BlockOf(s)}
      PROVE  /\ Taken(s, k) \in Pipes
             /\ Taken(s, k).writers = stream[s].writers
             /\ Taken(s, k).wrote = stream[s].wrote
             /\ Taken(s, k).pipe = stream[s].pipe - BlockOf(s)
             /\ Taken(s, k).kept = stream[s].kept + k
  BY <1>1, <1>4 DEF Taken, Pipes
<1> QED
  BY <1>1, <1>3, <1>5

LEMMA Writing ==
  ASSUME Shaped, NEW s \in Stream
  PROVE  /\ Filled(s) \in Pipes
         /\ Filled(s).writers = stream[s].writers
         /\ Filled(s).wrote = stream[s].wrote + 1
         /\ Filled(s).pipe = stream[s].pipe + 1
         /\ Filled(s).kept = stream[s].kept
<1>1. stream[s] \in Pipes
  BY DEF Shaped
<1>2. stream[s].pipe + 1 \in Nat /\ stream[s].wrote + 1 \in Nat
  BY <1>1 DEF Pipes
<1> QED
  BY <1>1, <1>2 DEF Filled, Pipes

LEMMA InitCall == Init => CallInv
<1> SUFFICES ASSUME Init PROVE CallInv
  OBVIOUS
<1>1. Shaped
  BY DEF Init, Shaped, Pipes, Pc, Over
<1>2. \A s \in Stream : Intact(s) /\ Ended(s)
  BY DEF Init, Intact, Ended
<1> QED
  BY <1>1, <1>2 DEF Init, CallInv, Unspawned, LoopKeepsAll, ReportStands,
     AnswerIsComplete, RecordIsDurable, ReapedBeforeClose, Before, Looping

LEMMA EarlyCall ==
  ASSUME CallInv, Announce \/ FailEarly \/ Spawn
  PROVE  CallInv'
<1> USE DEF collection, program, evidence
<1>1. CASE Announce \/ FailEarly
  <2>1. Shaped'
    BY <1>1 DEF Announce, FailEarly, Shaped, CallInv, Pc, Over
  <2> QED
    BY <1>1, <2>1 DEF Announce, FailEarly, CallInv, Unspawned, LoopKeepsAll,
       ReportStands, AnswerIsComplete, RecordIsDurable, ReapedBeforeClose,
       Over, Before, Looping, Intact, Ended
<1>2. CASE Spawn
  <2> DEFINE w == {"child"}
  <2>0. w \in SUBSET {"child", "helper"}
    OBVIOUS
  <2>1. \A s \in Stream :
          /\ stream'[s] = [stream[s] EXCEPT !.writers = w]
          /\ stream[s] \in Pipes
    BY <1>2 DEF Spawn, Shaped, CallInv
  <2> HIDE DEF w
  <2>2. \A s \in Stream :
          /\ stream'[s] \in Pipes
          /\ stream'[s].wrote = stream[s].wrote
          /\ stream'[s].pipe = stream[s].pipe
          /\ stream'[s].kept = stream[s].kept
    BY <2>0, <2>1 DEF Pipes
  <2>3. Shaped'
    BY <1>2, <2>2 DEF Spawn, Shaped, CallInv, Pc
  <2>4. /\ pc' = "collect" /\ child' = "alive" /\ registered' = Stream
        /\ ~signalled' /\ ~answered' /\ finished' = "absent"
    BY <1>2 DEF Spawn, CallInv, Unspawned, Before
  <2>5. \A s \in Stream : Intact(s)'
    BY <1>2, <2>2 DEF Spawn, CallInv, Unspawned, Before, Intact
  <2> QED
    BY <2>3, <2>4, <2>5 DEF CallInv, Unspawned, LoopKeepsAll, ReportStands,
       AnswerIsComplete, RecordIsDurable, ReapedBeforeClose, Over, Before,
       Looping
<1> QED
  BY <1>1, <1>2

LEMMA SelectCall ==
  ASSUME CallInv,
         Select \/ CollectionTimedOut \/ WaitForExit \/ WaitTimedOut
  PROVE  CallInv'
<1> USE DEF CallInv, Unspawned, LoopKeepsAll, ReportStands, collection,
   AnswerIsComplete, RecordIsDurable, ReapedBeforeClose, Over, Before,
   Looping, Intact, Ended, program, evidence, Readable, Drained
<1>1. Shaped'
  BY DEF Shaped, Pc, Select, CollectionTimedOut, WaitForExit, WaitTimedOut
<1>2. CASE Select
  BY <1>1, <1>2 DEF Select
<1>3. CASE CollectionTimedOut
  BY <1>1, <1>3 DEF CollectionTimedOut
<1>4. CASE WaitForExit
  BY <1>1, <1>4 DEF WaitForExit
<1>5. CASE WaitTimedOut
  BY <1>1, <1>5 DEF WaitTimedOut
<1> QED
  BY <1>2, <1>3, <1>4, <1>5

LEMMA ReadCall ==
  ASSUME CallInv, NEW s \in Stream,
         ReadBlock(s) \/ BoundExceeded(s) \/ ReadEnd(s)
  PROVE  CallInv'
<1>0. /\ pc = "read" /\ s \in ready /\ ready \subseteq Stream
      /\ UNCHANGED <<child, answered, signalled, finished>>
      /\ ready' \subseteq ready \ {s}
      /\ pc' \in {"collect", "read", "cleanup"}
      /\ Shaped
  BY DEF ReadBlock, BoundExceeded, ReadEnd, CallInv, Shaped, program, evidence,
     AfterRead
<1>1. PICK q \in Pipes :
        /\ stream' = [stream EXCEPT ![s] = q]
        /\ q.writers = stream[s].writers
        /\ pc' # "cleanup" /\ Intact(s) => q.wrote = q.kept + q.pipe
        /\ \/ registered' = registered /\ stream[s].pipe > 0
           \/ registered' = registered \ {s} /\ q = stream[s] /\ q.pipe = 0
  <2>1. CASE ReadBlock(s)
    <3> DEFINE q == Taken(s, BlockOf(s))
    <3>1. /\ q \in Pipes /\ q.writers = stream[s].writers
          /\ Intact(s) => q.wrote = q.kept + q.pipe
      BY <1>0, Reading DEF Intact, Pipes
    <3>2. /\ stream' = [stream EXCEPT ![s] = q] /\ registered' = registered
          /\ stream[s].pipe > 0
      BY <2>1 DEF ReadBlock
    <3> HIDE DEF q
    <3> QED
      BY <3>1, <3>2
  <2>2. CASE BoundExceeded(s)
    <3> DEFINE q == Taken(s, 0)
    <3>1. q \in Pipes /\ q.writers = stream[s].writers
      BY <1>0, Reading
    <3>2. /\ stream' = [stream EXCEPT ![s] = q] /\ registered' = registered
          /\ stream[s].pipe > 0 /\ pc' = "cleanup"
      BY <2>2 DEF BoundExceeded
    <3> HIDE DEF q
    <3> QED
      BY <3>1, <3>2
  <2>3. CASE ReadEnd(s)
    <3>1. stream[s] \in Pipes /\ stream' = [stream EXCEPT ![s] = stream[s]]
      BY <1>0, <2>3 DEF ReadEnd, Shaped
    <3> QED
      BY <2>3, <3>1 DEF ReadEnd, Intact
  <2> QED
    BY <2>1, <2>2, <2>3
<1>2. Shaped'
  BY <1>0, <1>1 DEF Shaped, Pc
<1>3. /\ stream'[s] = q
      /\ \A t \in Stream : t # s => stream'[t] = stream[t]
  BY <1>0, <1>1 DEF Shaped
<1>4. \A t \in ready' : stream'[t].pipe > 0 \/ stream'[t].writers = {}
  BY <1>0, <1>3 DEF CallInv, ReportStands
<1>5. ASSUME pc' # "cleanup"
      PROVE  \A t \in Stream : Intact(t)' /\ (t \notin registered' => Ended(t)')
  <2>1. \A t \in Stream : Intact(t) /\ (t \notin registered => Ended(t))
    BY <1>0 DEF CallInv, LoopKeepsAll, Looping
  <2>2. stream[s].pipe > 0 \/ stream[s].writers = {}
    BY <1>0 DEF CallInv, ReportStands
  <2>3. Intact(s)'
    BY <1>1, <1>3, <1>5, <2>1 DEF Intact
  <2>4. s \notin registered' => Ended(s)'
    <3>1. CASE registered' = registered /\ stream[s].pipe > 0
      BY <2>1, <3>1, <1>0 DEF Ended, Shaped, Pipes
    <3>2. CASE registered' = registered \ {s} /\ q = stream[s] /\ q.pipe = 0
      BY <2>2, <3>2, <1>3 DEF Ended
    <3> QED
      BY <1>1, <3>1, <3>2
  <2>5. \A t \in Stream \ {s} : Intact(t)' /\ (t \notin registered' => Ended(t)')
    BY <1>1, <1>3, <2>1 DEF Intact, Ended
  <2> QED
    BY <2>3, <2>4, <2>5
<1> QED
  BY <1>0, <1>2, <1>4, <1>5 DEF CallInv, Unspawned, LoopKeepsAll, ReportStands,
     AnswerIsComplete, RecordIsDurable, ReapedBeforeClose, Before, Looping, Over

LEMMA LadderCall ==
  ASSUME CallInv, Cleanup \/ GraceOver \/ Reap
  PROVE  CallInv'
<1>1. Shaped'
  BY DEF CallInv, Shaped, Pc, Cleanup, GraceOver, AfterGrace, Reap, evidence,
     program, collection
<1> QED
  BY <1>1 DEF Cleanup, GraceOver, AfterGrace, Reap, program, evidence, CallInv,
     Unspawned, LoopKeepsAll, ReportStands, AnswerIsComplete, RecordIsDurable,
     ReapedBeforeClose, Over, Before, Looping, Intact, Ended, collection

LEMMA CloseCall ==
  ASSUME CallInv, Close \/ Crash
  PROVE  CallInv'
<1>1. ASSUME NEW s \in Stream
      PROVE  /\ stream'[s] \in Pipes
             /\ stream'[s].writers = stream[s].writers
             /\ stream'[s].wrote = stream[s].wrote
             /\ stream'[s].kept = stream[s].kept
             /\ stream'[s].pipe = 0
             /\ stream'[s].disk = IF pc' = "crashed" THEN stream[s].disk
                                                     ELSE stream[s].kept
  <2>1. stream[s] \in Pipes
    BY DEF CallInv, Shaped
  <2>2. CASE Close
    <3>1. pc' # "crashed"
      BY <2>2 DEF Close, AfterClose
    <3>2. stream'[s] = [stream[s] EXCEPT !.disk = stream[s].kept, !.pipe = 0]
      BY <2>2 DEF Close
    <3> QED
      BY <2>1, <3>1, <3>2, PipeFields
  <2>3. CASE Crash
    <3>1. /\ pc' = "crashed"
          /\ stream'[s] = [stream[s] EXCEPT !.pipe = 0]
      BY <2>3 DEF Crash
    <3> QED
      BY <2>1, <3>1, PipeFields
  <2> QED
    BY <2>2, <2>3
<1>2. Shaped'
  <2>1. stream' \in [Stream -> Pipes]
    BY <1>1 DEF Close, Crash
  <2> QED
    BY <2>1 DEF Close, AfterClose, Crash, CallInv, Shaped, Pc, Over, program,
       evidence
<1>3. answered => \A s \in Stream : Intact(s)' /\ Ended(s)'
  <2> SUFFICES ASSUME answered, NEW s \in Stream
               PROVE  Intact(s)' /\ Ended(s)'
    OBVIOUS
  <2>1. Intact(s) /\ Ended(s)
    BY DEF CallInv, AnswerIsComplete
  <2> QED
    BY <1>1, <2>1 DEF Intact, Ended
<1>4. pc = "close" => finished = "absent"
  BY DEF CallInv, RecordIsDurable, Over
<1>5. CASE Close
  BY <1>1, <1>2, <1>3, <1>4, <1>5 DEF Close, AfterClose, program, evidence,
     CallInv, Unspawned, LoopKeepsAll, ReportStands, AnswerIsComplete,
     RecordIsDurable, ReapedBeforeClose, Over, Before, Looping
<1>6. CASE Crash
  BY <1>1, <1>2, <1>3, <1>6 DEF Crash, program, evidence,
     CallInv, Unspawned, LoopKeepsAll, ReportStands, AnswerIsComplete,
     RecordIsDurable, ReapedBeforeClose, Over, Before, Looping
<1> QED
  BY <1>5, <1>6

LEMMA RecordCall ==
  ASSUME CallInv, Record
  PROVE  CallInv'
<1>1. Shaped'
  BY DEF Record, CallInv, Shaped, Pc, Over, program, evidence, collection
<1> QED
  BY <1>1 DEF Record, program, evidence, CallInv, Unspawned, LoopKeepsAll,
     ReportStands, AnswerIsComplete, RecordIsDurable, ReapedBeforeClose, Over,
     Before, Looping, Intact, Ended, collection

\* The program and its helper can add to a stream that has not ended, and
\* can end it, but take nothing back.
LEMMA ProgramCall ==
  ASSUME CallInv,
         stream' \in [Stream -> Pipes],
         UNCHANGED <<pc, registered, ready, signalled, answered, finished>>,
         child' = child \/ (child = "alive" /\ child' = "exited"),
         helper' => helper \/ child = "alive",
         \A t \in Stream :
           /\ Intact(t) => Intact(t)'
           /\ Ended(t) => Ended(t)'
           /\ stream[t].pipe > 0 => stream'[t].pipe > 0
           /\ stream[t].writers = {} => stream'[t].writers = {}
           /\ stream'[t].kept = stream[t].kept
           /\ stream'[t].disk = stream[t].disk
  PROVE  CallInv'
<1>1. Shaped'
  BY DEF CallInv, Shaped
<1>2. Unspawned'
  BY DEF CallInv, Unspawned
<1>3. LoopKeepsAll'
  BY DEF CallInv, LoopKeepsAll
<1>4. ReportStands'
  BY DEF CallInv, ReportStands, Shaped
<1>5. AnswerIsComplete'
  BY DEF CallInv, AnswerIsComplete
<1>6. RecordIsDurable'
  BY DEF CallInv, RecordIsDurable
<1>7. ReapedBeforeClose'
  BY DEF CallInv, ReapedBeforeClose
<1> QED
  BY <1>1, <1>2, <1>3, <1>4, <1>5, <1>6, <1>7 DEF CallInv

LEMMA WriteCall ==
  ASSUME CallInv, NEW s \in Stream, ChildWrites(s) \/ HelperWrites(s)
  PROVE  CallInv'
<1> DEFINE q == Filled(s)
<1>0. /\ stream' = [stream EXCEPT ![s] = q] /\ stream[s].writers # {}
      /\ UNCHANGED <<pc, registered, ready, signalled, answered, finished,
                    child, helper>>
  BY DEF ChildWrites, HelperWrites, Writes, program, evidence
<1>1. /\ stream[s] \in Pipes /\ q \in Pipes /\ q.writers = stream[s].writers
      /\ q.kept = stream[s].kept
      /\ q.wrote = stream[s].wrote + 1 /\ q.pipe = stream[s].pipe + 1
  BY Writing DEF CallInv, Shaped
<1>2. q.disk = stream[s].disk
  BY <1>1 DEF Filled, Pipes
<1> HIDE DEF q
<1>3. stream'[s] = q /\ \A t \in Stream : t # s => stream'[t] = stream[t]
  BY <1>0 DEF CallInv, Shaped
<1>4. stream' \in [Stream -> Pipes]
  BY <1>0, <1>1 DEF CallInv, Shaped
<1>5. Intact(s) => Intact(s)'
  BY <1>1, <1>3 DEF Intact, Pipes
<1>6. ~Ended(s) /\ stream'[s].pipe > 0
  BY <1>0, <1>1, <1>3 DEF Ended, Pipes
<1>7. \A t \in Stream :
        /\ Intact(t) => Intact(t)'
        /\ Ended(t) => Ended(t)'
        /\ stream[t].pipe > 0 => stream'[t].pipe > 0
        /\ stream[t].writers = {} => stream'[t].writers = {}
        /\ stream'[t].kept = stream[t].kept
        /\ stream'[t].disk = stream[t].disk
  <2> TAKE t \in Stream
  <2>1. CASE t = s
    BY <2>1, <1>0, <1>1, <1>2, <1>3, <1>5, <1>6
  <2>2. CASE t # s
    BY <2>2, <1>3 DEF Intact, Ended
  <2> QED
    BY <2>1, <2>2
<1> QED
  BY <1>0, <1>4, <1>7, ProgramCall

\* The holders of the pipes change: a close, an exit, or an inheritance.
LEMMA HoldersCall ==
  ASSUME CallInv, NEW W \in [Stream -> SUBSET {"child", "helper"}],
         \A t \in Stream :
           /\ stream'[t] = [stream[t] EXCEPT !.writers = W[t]]
           /\ stream[t].writers = {} => W[t] = {},
         stream' = [t \in Stream |-> stream'[t]],
         UNCHANGED <<pc, registered, ready, signalled, answered, finished>>,
         child' = child \/ (child = "alive" /\ child' = "exited"),
         helper' => helper \/ child = "alive"
  PROVE  CallInv'
<1>1. ASSUME NEW t \in Stream
      PROVE  /\ stream'[t] \in Pipes /\ stream'[t].writers = W[t]
             /\ stream'[t].wrote = stream[t].wrote
             /\ stream'[t].kept = stream[t].kept
             /\ stream'[t].pipe = stream[t].pipe
             /\ stream'[t].disk = stream[t].disk
  <2>1. stream[t] \in Pipes /\ W[t] \in SUBSET {"child", "helper"}
    BY DEF CallInv, Shaped
  <2>2. stream'[t] = [stream[t] EXCEPT !.writers = W[t]]
    OBVIOUS
  <2> QED
    BY <2>1, <2>2 DEF Pipes
<1>2. stream' \in [Stream -> Pipes]
  BY <1>1
<1>3. \A t \in Stream :
        /\ Intact(t) => Intact(t)'
        /\ Ended(t) => Ended(t)'
        /\ stream[t].pipe > 0 => stream'[t].pipe > 0
        /\ stream[t].writers = {} => stream'[t].writers = {}
        /\ stream'[t].kept = stream[t].kept
        /\ stream'[t].disk = stream[t].disk
  BY <1>1 DEF Intact, Ended
<1> QED
  BY <1>2, <1>3, ProgramCall

LEMMA ExitCall ==
  ASSUME CallInv,
         \/ Killed \/ HelperStarts \/ HelperExits
         \/ \E c \in {0, 1} : ChildExits(c)
         \/ \E s \in Stream : ChildCloses(s)
  PROVE  CallInv'
<1>0. \A t \in Stream : stream[t].writers \in SUBSET {"child", "helper"}
  BY DEF CallInv, Shaped, Pipes
<1>1. CASE Killed \/ \E c \in {0, 1} : ChildExits(c)
  <2> DEFINE W == [t \in Stream |-> stream[t].writers \ {"child"}]
  <2>1. /\ W \in [Stream -> SUBSET {"child", "helper"}]
        /\ \A t \in Stream : stream[t].writers = {} => W[t] = {}
    BY <1>0
  <2>2. /\ stream' = [t \in Stream |-> [stream[t] EXCEPT !.writers = W[t]]]
        /\ UNCHANGED <<pc, registered, ready, signalled, answered, finished,
                      helper>>
        /\ child = "alive" /\ child' = "exited"
    BY <1>1 DEF Killed, ChildExits, WithoutWriter, evidence
  <2> HIDE DEF W
  <2> QED
    BY <2>1, <2>2, HoldersCall
<1>2. CASE HelperExits
  <2> DEFINE W == [t \in Stream |-> stream[t].writers \ {"helper"}]
  <2>1. /\ W \in [Stream -> SUBSET {"child", "helper"}]
        /\ \A t \in Stream : stream[t].writers = {} => W[t] = {}
    BY <1>0
  <2>2. /\ stream' = [t \in Stream |-> [stream[t] EXCEPT !.writers = W[t]]]
        /\ UNCHANGED <<pc, registered, ready, signalled, answered, finished,
                      child>>
        /\ ~helper'
    BY <1>2 DEF HelperExits, WithoutWriter, evidence
  <2> HIDE DEF W
  <2> QED
    BY <2>1, <2>2, HoldersCall
<1>3. CASE HelperStarts
  <2> DEFINE W == [t \in Stream |-> IF "child" \in stream[t].writers
                                   THEN stream[t].writers \cup {"helper"}
                                   ELSE stream[t].writers]
  <2>1. /\ W \in [Stream -> SUBSET {"child", "helper"}]
        /\ \A t \in Stream : stream[t].writers = {} => W[t] = {}
    BY <1>0
  <2>2. /\ stream' = [t \in Stream |-> [stream[t] EXCEPT !.writers = W[t]]]
        /\ UNCHANGED <<pc, registered, ready, signalled, answered, finished,
                      child>>
        /\ child = "alive"
    BY <1>3 DEF HelperStarts, Inherited, evidence
  <2> HIDE DEF W
  <2> QED
    BY <2>1, <2>2, HoldersCall
<1>4. ASSUME NEW s \in Stream, ChildCloses(s)
      PROVE  CallInv'
  <2> DEFINE w == stream[s].writers \ {"child"}
             q == [stream[s] EXCEPT !.writers = w]
  <2>1. /\ stream' = [stream EXCEPT ![s] = q]
        /\ UNCHANGED <<pc, registered, ready, signalled, answered, finished,
                      child, helper>>
    BY <1>4 DEF ChildCloses, program, evidence
  <2>2. /\ q \in Pipes /\ q.wrote = stream[s].wrote /\ q.kept = stream[s].kept
        /\ q.pipe = stream[s].pipe /\ q.disk = stream[s].disk
        /\ stream[s].writers = {} => q.writers = {}
    <3>1. stream[s] \in Pipes /\ w \in SUBSET {"child", "helper"}
      BY <1>0 DEF CallInv, Shaped
    <3>2. stream[s].writers = {} => w = {}
      OBVIOUS
    <3>3. q = [stream[s] EXCEPT !.writers = w]
      OBVIOUS
    <3> HIDE DEF w, q
    <3> QED
      BY <3>1, <3>2, <3>3 DEF Pipes
  <2> HIDE DEF q
  <2>3. /\ stream' \in [Stream -> Pipes] /\ stream'[s] = q
        /\ \A t \in Stream : t # s => stream'[t] = stream[t]
    BY <2>1, <2>2 DEF CallInv, Shaped
  <2>4. \A t \in Stream :
          /\ Intact(t) => Intact(t)'
          /\ Ended(t) => Ended(t)'
          /\ stream[t].pipe > 0 => stream'[t].pipe > 0
          /\ stream[t].writers = {} => stream'[t].writers = {}
          /\ stream'[t].kept = stream[t].kept
          /\ stream'[t].disk = stream[t].disk
    BY <2>2, <2>3 DEF Intact, Ended
  <2> QED
    BY <2>1, <2>3, <2>4, ProgramCall
<1> QED
  BY <1>1, <1>2, <1>3, <1>4

LEMMA NextCall ==
  ASSUME CallInv, [Next]_vars
  PROVE  CallInv'
<1>1. CASE UNCHANGED vars \/ Tick \/ \E s \in Stream : ChildBegins(s)
  BY <1>1 DEF vars, Tick, ChildBegins, program, evidence, collection, CallInv,
     Shaped, Unspawned, LoopKeepsAll, ReportStands, AnswerIsComplete,
     RecordIsDurable, ReapedBeforeClose, Intact, Ended
<1>2. CASE CallStep
  BY <1>2, EarlyCall, SelectCall, ReadCall, LadderCall, CloseCall, RecordCall
     DEF CallStep
<1>3. CASE Crash
  BY <1>3, CloseCall
<1>4. CASE \E s \in Stream : ChildWrites(s) \/ HelperWrites(s)
  BY <1>4, WriteCall
<1>5. CASE \/ Killed \/ HelperStarts \/ HelperExits
           \/ \E c \in {0, 1} : ChildExits(c)
           \/ \E s \in Stream : ChildCloses(s)
  BY <1>5, ExitCall
<1> QED
  BY <1>1, <1>2, <1>3, <1>4, <1>5 DEF Next, ChildStep, HelperStep

LEMMA CallInvariance == Spec => []CallInv
<1>1. Init => CallInv
  BY InitCall
<1>2. CallInv /\ [Next]_vars => CallInv'
  BY NextCall
<1> QED
  BY <1>1, <1>2, PTL DEF Spec

\* A finished record is never written for part of the output, nor for a
\* program that was ended by the caller.
THEOREM FinishedVouches == Spec => []FinishedIsComplete
<1>1. CallInv => FinishedIsComplete
  BY DEF CallInv, FinishedIsComplete, RecordIsDurable, AnswerIsComplete,
     Shaped, Pipes, Intact, Ended
<1> QED
  BY <1>1, CallInvariance, PTL

\* However a call comes back, its direct child has been waited for.
THEOREM ChildReaped == Spec => []NoChildLeft
<1>1. CallInv => NoChildLeft
  BY DEF CallInv, NoChildLeft, ReapedBeforeClose
<1> QED
  BY <1>1, CallInvariance, PTL

-----------------------------------------------------------------------------
(* Types: in particular, no stream is kept or written beyond its bound. *)

Measured ==
  [writers : SUBSET {"child", "helper"}, wrote : Nat, pipe : 0..Pipe,
   kept : 0..Limit, disk : 0..Limit]

\* What becomes of one stream, for each of the steps that touch it.
LEMMA MeasuredSteps ==
  ASSUME NEW r \in Measured, NEW W \in SUBSET {"child", "helper"}
  PROVE  /\ [r EXCEPT !.writers = W] \in Measured
         /\ [r EXCEPT !.disk = r.kept, !.pipe = 0] \in Measured
         /\ [r EXCEPT !.pipe = 0] \in Measured
         /\ r.pipe < Pipe =>
              [r EXCEPT !.pipe = @ + 1, !.wrote = @ + 1] \in Measured
         /\ \A b \in 0..r.pipe, k \in Nat :
              r.kept + k <= Limit =>
                [r EXCEPT !.pipe = @ - b, !.kept = @ + k] \in Measured
<1>1. /\ r.writers \in SUBSET {"child", "helper"} /\ r.wrote \in Nat
      /\ r.pipe \in 0..Pipe /\ r.kept \in 0..Limit /\ r.disk \in 0..Limit
      /\ 0 \in 0..Pipe
  BY DEF Measured
<1>2. [r EXCEPT !.writers = W] \in Measured
  BY <1>1 DEF Measured
<1>3. /\ [r EXCEPT !.disk = r.kept, !.pipe = 0] \in Measured
      /\ [r EXCEPT !.pipe = 0] \in Measured
  BY <1>1 DEF Measured
<1>4. ASSUME r.pipe < Pipe
      PROVE  [r EXCEPT !.pipe = @ + 1, !.wrote = @ + 1] \in Measured
  <2>1. r.pipe + 1 \in 0..Pipe /\ r.wrote + 1 \in Nat
    BY <1>1, <1>4
  <2> QED
    BY <1>1, <2>1 DEF Measured
<1>5. ASSUME NEW b \in 0..r.pipe, NEW k \in Nat, r.kept + k <= Limit
      PROVE  [r EXCEPT !.pipe = @ - b, !.kept = @ + k] \in Measured
  <2>1. r.pipe - b \in 0..Pipe /\ r.kept + k \in 0..Limit
    BY <1>1, <1>5
  <2> QED
    BY <1>1, <2>1 DEF Measured
<1> QED
  BY <1>2, <1>3, <1>4, <1>5

LEMMA StreamTyped ==
  ASSUME TypeOK, [Next]_vars
  PROVE  stream' \in [Stream -> Measured]
<1>0. stream \in [Stream -> Measured]
  BY DEF TypeOK, Measured
<1>1. CASE UNCHANGED stream
  BY <1>0, <1>1
<1>2. ASSUME NEW r \in [Stream -> Measured], stream' = r
      PROVE  stream' \in [Stream -> Measured]
  BY <1>2
<1>3. ASSUME NEW s \in Stream, NEW q \in Measured,
             stream' = [stream EXCEPT ![s] = q]
      PROVE  stream' \in [Stream -> Measured]
  BY <1>0, <1>3
<1>4. CASE \E s \in Stream : ReadBlock(s) \/ BoundExceeded(s)
  <2>1. PICK s \in Stream : ReadBlock(s) \/ BoundExceeded(s)
    BY <1>4
  <2>2. /\ stream[s] \in Measured /\ BlockOf(s) \in 0..stream[s].pipe
        /\ stream[s].kept \in 0..Limit
    <3>1. stream[s] \in Measured
      BY <1>0
    <3>2. stream[s].pipe \in Nat /\ stream[s].kept \in 0..Limit
      BY <3>1 DEF Measured
    <3> QED
      BY <3>1, <3>2 DEF BlockOf
  <2>3. PICK k \in Nat : /\ stream' = [stream EXCEPT ![s] = Taken(s, k)]
                         /\ stream[s].kept + k <= Limit
    BY <2>1, <2>2 DEF ReadBlock, BoundExceeded, Fits
  <2>4. Taken(s, k) \in Measured
    BY <2>2, <2>3, MeasuredSteps DEF Taken
  <2> QED
    BY <1>3, <2>3, <2>4
<1>5. CASE Spawn \/ Close \/ Crash \/ Killed \/ HelperStarts \/ HelperExits
             \/ \E c \in {0, 1} : ChildExits(c)
  <2>0. stream' = [t \in Stream |-> stream'[t]]
    BY <1>5 DEF Spawn, Close, Crash, Killed, HelperStarts, HelperExits,
       ChildExits, WithoutWriter
  <2> SUFFICES ASSUME NEW s \in Stream
               PROVE  stream'[s] \in Measured
    BY <2>0
  <2>1. stream[s] \in Measured
    BY <1>0
  <2>2. stream[s].writers \in SUBSET {"child", "helper"}
    BY <2>1 DEF Measured
  <2>3. CASE Spawn
    BY <2>1, <2>3, MeasuredSteps DEF Spawn
  <2>4. CASE Close \/ Crash
    BY <2>1, <2>4, MeasuredSteps DEF Close, Crash
  <2>5. CASE Killed \/ HelperExits \/ \E c \in {0, 1} : ChildExits(c)
    <3>1. PICK w \in {"child", "helper"} : stream' = WithoutWriter(w)
      BY <2>5 DEF Killed, HelperExits, ChildExits
    <3>2. stream[s].writers \ {w} \in SUBSET {"child", "helper"}
      BY <2>2
    <3> QED
      BY <2>1, <3>1, <3>2, MeasuredSteps DEF WithoutWriter
  <2>6. CASE HelperStarts
    <3> DEFINE W == IF "child" \in stream[s].writers
                    THEN stream[s].writers \cup {"helper"} ELSE stream[s].writers
    <3>1. W \in SUBSET {"child", "helper"}
      BY <2>2
    <3>2. stream'[s] = [stream[s] EXCEPT !.writers = W]
      BY <2>6 DEF HelperStarts, Inherited
    <3>3. [stream[s] EXCEPT !.writers = W] \in Measured
      BY <2>1, <3>1, MeasuredSteps
    <3> QED
      BY <3>2, <3>3
  <2> QED
    BY <1>5, <2>3, <2>4, <2>5, <2>6
<1>6. CASE \E s \in Stream : ChildWrites(s) \/ HelperWrites(s)
  <2>1. PICK s \in Stream : ChildWrites(s) \/ HelperWrites(s)
    BY <1>6
  <2>2. stream' = [stream EXCEPT ![s] = Filled(s)] /\ stream[s].pipe < Pipe
    BY <2>1 DEF ChildWrites, HelperWrites, Writes
  <2>3. Filled(s) \in Measured
    BY <1>0, <2>2, MeasuredSteps DEF Filled
  <2> QED
    BY <1>3, <2>2, <2>3
<1>7. CASE \E s \in Stream : ChildCloses(s)
  <2>1. PICK s \in Stream : ChildCloses(s)
    BY <1>7
  <2> DEFINE q == [stream[s] EXCEPT !.writers = @ \ {"child"}]
  <2>2. stream[s] \in Measured
    BY <1>0
  <2>3. stream[s].writers \ {"child"} \in SUBSET {"child", "helper"}
    BY <2>2 DEF Measured
  <2>4. q \in Measured
    BY <2>2, <2>3, MeasuredSteps
  <2>5. stream' = [stream EXCEPT ![s] = q]
    BY <2>1 DEF ChildCloses
  <2> HIDE DEF q
  <2> QED
    BY <1>3, <2>4, <2>5
<1> QED
  BY <1>1, <1>4, <1>5, <1>6, <1>7 DEF Next, CallStep, ChildStep, HelperStep,
     vars, collection, Announce, FailEarly, Select, CollectionTimedOut,
     WaitForExit, WaitTimedOut, ReadEnd, Cleanup, GraceOver, Reap, Record, Tick,
     ChildBegins

\* The declared types: what select reported is registered, no pipe holds more
\* than it can, and no file of a call ever holds more than the bound.
THEOREM CallTyped == Spec => []TypeOK
<1>1. Init => TypeOK
  <2> SUFFICES ASSUME Init
               PROVE  TypeOK
    OBVIOUS
  <2>1. stream \in [Stream -> Measured]
    BY DEF Init, Measured
  <2> QED
    BY <2>1 DEF Init, TypeOK, Measured, Pc, Over
<1>2. ASSUME TypeOK, [Next]_vars
      PROVE  TypeOK'
  <2>1. stream' \in [Stream -> Measured]
    BY <1>2, StreamTyped
  <2> USE DEF TypeOK, Pc, Over, collection, program, evidence
  <2>2. CASE UNCHANGED vars \/ Tick \/ ChildStep \/ HelperStep \/ Killed
               \/ \E c \in {0, 1} : ChildExits(c)
    <3>1. /\ pc' = pc /\ left' \in Nat /\ started' = started
          /\ signalled' = signalled /\ answered' = answered
          /\ finished' = finished /\ registered' = registered
          /\ ready' = ready
      BY <1>2, <2>2 DEF vars, Tick, ChildStep, HelperStep, Killed,
         ChildExits, ChildBegins, ChildWrites, ChildCloses, HelperStarts,
         HelperWrites, HelperExits
    <3>2. /\ child' \in {child, "exited"} /\ code' \in {code, 0, 1}
          /\ pending' \in Stream \cup {pending, "none"}
      BY <1>2, <2>2 DEF vars, Tick, ChildStep, HelperStep, Killed,
         ChildExits, ChildBegins, ChildWrites, ChildCloses, HelperStarts,
         HelperWrites, HelperExits
    <3>3. helper' \in BOOLEAN
      <4>1. CASE HelperStarts \/ HelperExits
        BY <4>1 DEF HelperStarts, HelperExits
      <4>2. CASE ~(HelperStarts \/ HelperExits)
        <5>1. helper' = helper
          BY <2>2, <4>2 DEF vars, Tick, ChildStep, HelperStep, Killed, ChildExits,
             ChildBegins, ChildWrites, ChildCloses, HelperWrites
        <5> QED
          BY <1>2, <5>1
      <4> QED
        BY <4>1, <4>2
    <3>4. /\ child' \in {"none", "alive", "exited", "reaped"}
          /\ code' \in {-1, 0, 1} /\ pending' \in Stream \cup {"none"}
      BY <1>2, <3>2
    <3> QED
      BY <1>2, <2>1, <3>1, <3>3, <3>4 DEF Measured
  <2>3. CASE CallStep \/ Crash
    <3>1. /\ ready' \subseteq registered' /\ registered' \subseteq Stream
      BY <1>2, <2>3 DEF CallStep, Crash, Announce, FailEarly, Spawn, Select,
         CollectionTimedOut, WaitForExit, WaitTimedOut, ReadBlock,
         BoundExceeded, ReadEnd, Cleanup, GraceOver, Reap, Close, Record,
         Readable, AfterRead
    <3>2. /\ pc' \in Pc /\ left' \in Nat
          /\ child' \in {"none", "alive", "exited", "reaped"}
      BY <1>2, <2>3 DEF CallStep, Crash, Announce, FailEarly, Spawn, Select,
         CollectionTimedOut, WaitForExit, WaitTimedOut, ReadBlock,
         BoundExceeded, ReadEnd, Cleanup, GraceOver, Reap, Close, Record,
         AfterRead, AfterGrace, AfterClose
    <3>3. /\ code' = code /\ helper' = helper /\ pending' = pending
          /\ signalled' \in BOOLEAN /\ started' \in BOOLEAN
          /\ answered' \in BOOLEAN /\ finished' \in {"absent", "ok", "failed"}
      BY <1>2, <2>3 DEF CallStep, Crash, Announce, FailEarly, Spawn, Select,
         CollectionTimedOut, WaitForExit, WaitTimedOut, ReadBlock,
         BoundExceeded, ReadEnd, Cleanup, GraceOver, Reap, Close, Record
    <3> QED
      BY <1>2, <2>1, <3>1, <3>2, <3>3 DEF Measured
  <2> QED
    BY <1>2, <2>2, <2>3 DEF Next
<1> QED
  BY <1>1, <1>2, PTL DEF Spec

-----------------------------------------------------------------------------
(* The call implements NativeCall. *)

\* The started record is there as long as the call is under way.
Announced ==
  /\ pc = "idle" => ~started
  /\ pc \notin Over \cup {"idle"} => started

RefineInv == CallInv /\ Announced

LEMMA RefineInvariance == Spec => []RefineInv
<1>1. Init => RefineInv
  BY InitCall DEF Init, RefineInv, Announced, Over
<1>2. ASSUME RefineInv, [Next]_vars
      PROVE  RefineInv'
  <2>1. CallInv'
    BY <1>2, NextCall DEF RefineInv
  <2>2. CASE UNCHANGED <<pc, started>>
    <3>1. Announced
      BY <1>2 DEF RefineInv
    <3>2. Announced'
      BY <2>2, <3>1 DEF Announced, Over
    <3> QED
      BY <2>1, <3>2 DEF RefineInv
  <2>3. CASE CallStep \/ Crash
    <3>1. Announced
      BY <1>2 DEF RefineInv
    <3>2. CASE Announce
      BY <2>1, <3>2 DEF Announce, RefineInv, Announced, Over
    <3>3. CASE ~Announce
      <4>1. /\ started' = started
            /\ pc' \in Over \/ pc \notin Over \cup {"idle"}
            /\ pc' # "idle"
        BY <1>2, <2>3, <3>3 DEF RefineInv, Announced, CallStep, Crash, Announce,
       FailEarly, Spawn, Select, CollectionTimedOut, WaitForExit, WaitTimedOut,
       ReadBlock, BoundExceeded, ReadEnd, Cleanup, GraceOver, Reap, Close,
       Record, AfterRead, AfterGrace, AfterClose, evidence, Over
      <4>2. Announced'
        BY <3>1, <4>1 DEF Announced, Over
      <4> QED
        BY <2>1, <4>2 DEF RefineInv
    <3> QED
      BY <3>2, <3>3
  <2>4. ASSUME ~(CallStep \/ Crash)
        PROVE  UNCHANGED <<pc, started>>
    BY <1>2, <2>4 DEF Next, ChildStep, HelperStep, vars, Tick, Killed,
       ChildExits, ChildBegins, ChildWrites, ChildCloses, HelperStarts,
       HelperWrites, HelperExits, evidence
  <2> QED
    BY <2>1, <2>2, <2>3, <2>4 DEF RefineInv
<1> QED
  BY <1>1, <1>2, PTL DEF Spec

\* The states of NativeCall, spelled out.
LEMMA StateTable ==
  /\ pc = "idle" => CallState = "ready"
  /\ pc = "recorded" => CallState = "recorded"
  /\ pc \in {"collect", "read", "cleanup", "term", "kill"} =>
       CallState = "running"
  /\ pc = "close" => CallState = IF answered THEN "exited" ELSE "running"
  /\ pc = "record" => CallState = "exited"
  /\ pc = "returned" => CallState = "ready"
  /\ pc \in {"raised", "crashed"} =>
       CallState = IF child = "alive" \/ (helper /\ ~answered) THEN "orphan"
                                                             ELSE "over"
BY DEF CallState

LEMMA CallerImplements ==
  ASSUME RefineInv, CallStep \/ Crash
  PROVE  [Call!Next]_(Call!vars)
<1> USE DEF Call!Next, Call!vars, program, evidence
<1>0. /\ pc = "idle" => ~started
      /\ pc \notin Over \cup {"idle"} => started
      /\ CallInv
  BY DEF RefineInv, Announced
<1>1. CASE Announce
  <2>1. pc = "idle" /\ pc' = "recorded" /\ finished = "absent"
    BY <1>0, <1>1 DEF Announce, CallInv, Unspawned, Before
  <2> QED
    BY <1>0, <1>1, <2>1, StateTable DEF Announce, Call!Begin, CallState
<1>2. CASE FailEarly
  <2>1. /\ pc' = "raised" /\ child = "none" /\ ~helper
        /\ pc \in {"idle", "recorded"}
    BY <1>0, <1>2 DEF FailEarly, CallInv, Unspawned, Before
  <2>2. CallState' = "over" /\ CallState \in {"ready", "recorded"}
    BY <1>2, <2>1, StateTable DEF FailEarly, CallState
  <2> QED
    BY <1>2, <2>2 DEF FailEarly, Call!Abandon
<1>3. CASE Spawn
  BY <1>3 DEF Spawn, Call!Spawn, CallState
<1>4. CASE \/ Select \/ CollectionTimedOut \/ WaitTimedOut
           \/ \E s \in Stream : ReadBlock(s) \/ BoundExceeded(s) \/ ReadEnd(s)
           \/ GraceOver
  BY <1>4 DEF Select, CollectionTimedOut, WaitTimedOut, ReadBlock,
     BoundExceeded, ReadEnd, GraceOver, AfterRead, AfterGrace, CallState
<1>5. CASE WaitForExit
  <2>1. pc = "collect" /\ pc' = "close" /\ answered'
    BY <1>5 DEF WaitForExit
  <2> QED
    BY <1>5, <2>1 DEF WaitForExit, CallState, Call!Answer
<1>6. CASE Cleanup \/ Reap
  <2>1. /\ pc \in {"cleanup", "term", "kill"} /\ pc' \in {"close", "term"}
        /\ answered' = answered
    BY <1>6 DEF Cleanup, Reap
  <2>2. ~answered
    BY <1>0, <2>1 DEF CallInv, AnswerIsComplete, Over
  <2>3. CallState = "running" /\ CallState' = "running"
    BY <2>1, <2>2 DEF CallState
  <2> QED
    BY <1>6, <2>3 DEF Cleanup, Reap
<1>7. CASE Close
  <2>1. child = "reaped" /\ child' = child /\ answered' = answered
    BY <1>0, <1>7 DEF Close, CallInv, ReapedBeforeClose
  <2>2. CASE answered
    BY <1>7, <2>1, <2>2 DEF Close, AfterClose, CallState
  <2>3. CASE ~answered
    BY <1>7, <2>1, <2>3 DEF Close, AfterClose, CallState, Call!Abandon
  <2> QED
    BY <2>2, <2>3
<1>8. CASE Record
  <2>1. /\ child = "reaped" /\ child' = child /\ answered /\ answered'
        /\ started /\ pc = "record"
    BY <1>0, <1>8 DEF Record, CallInv, ReapedBeforeClose, RecordIsDurable, Over
  <2>2. /\ CallState = "exited" /\ CallState' \in {"ready", "over"}
    BY <1>8, <2>1 DEF Record, CallState
  <2>3. finished' # "absent" /\ started' = started
    BY <1>8 DEF Record
  <2> QED
    BY <2>1, <2>2, <2>3 DEF Call!Finish
<1>9. CASE Crash
  <2>1. /\ pc \notin Over \cup {"idle"} /\ pc' = "crashed"
        /\ child' = child /\ helper' = helper /\ answered' = answered
        /\ pc \in Pc
    BY <1>0, <1>9 DEF Crash, CallInv, Shaped
  <2>2. CallState \notin {"over", "orphan"}
    BY <2>1 DEF CallState, Pc, Over
  <2>3. CallState' = IF child = "alive" \/ (helper /\ ~answered) THEN "orphan"
                                                               ELSE "over"
    BY <2>1 DEF CallState
  <2>4. CallState # "running" => ~(child = "alive" \/ (helper /\ ~answered))
    BY <1>0, <2>1 DEF CallState, Pc, Over, CallInv, Unspawned, Before,
       ReapedBeforeClose, RecordIsDurable
  <2> QED
    BY <1>9, <2>2, <2>3, <2>4 DEF Crash, Call!Abandon
<1> QED
  BY <1>1, <1>2, <1>3, <1>4, <1>5, <1>6, <1>7, <1>8, <1>9 DEF CallStep

\* The program, and what it left behind, are not seen until they are all gone.
LEMMA ProgramImplements ==
  ASSUME RefineInv, [Next]_vars, ~(CallStep \/ Crash)
  PROVE  [Call!Next]_(Call!vars)
<1> USE DEF Call!Next, Call!vars
<1>1. UNCHANGED <<pc, started, answered, finished>> /\ pc \in Pc
  BY DEF Next, ChildStep, HelperStep, vars, Tick, Killed, ChildExits,
     ChildBegins, ChildWrites, ChildCloses, HelperStarts, HelperWrites,
     HelperExits, evidence, RefineInv, CallInv, Shaped
<1>2. /\ child' = child \/ (child = "alive" /\ child' = "exited")
      /\ helper' => helper \/ child = "alive"
      /\ helper' /\ ~helper => child' = child
  BY DEF Next, ChildStep, HelperStep, vars, Tick, Killed, ChildExits,
     ChildBegins, ChildWrites, ChildCloses, HelperStarts, HelperWrites,
     HelperExits, program
<1>3. CASE pc \in {"raised", "crashed"}
  BY <1>1, <1>2, <1>3 DEF CallState, Call!Vanish
<1>4. CASE pc \notin {"raised", "crashed"}
  <2>1. CallState' = CallState
    BY <1>1, <1>4 DEF CallState, Pc, Over
  <2> QED
    BY <1>1, <2>1
<1> QED
  BY <1>3, <1>4

\* A call is announced before its program runs, and finished only by an
\* answer; without one nothing is said to be finished, and what the program
\* started may outlive the call.
THEOREM CallImplemented == Spec => ImplementsNativeCall
<1>1. Init => Call!Init
  BY DEF Init, Call!Init, CallState
<1>2. RefineInv /\ [Next]_vars => [Call!Next]_(Call!vars)
  BY CallerImplements, ProgramImplements
<1> QED
  BY <1>1, <1>2, RefineInvariance, PTL
     DEF Spec, ImplementsNativeCall, Call!Spec

=============================================================================
