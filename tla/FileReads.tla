------------------------------ MODULE FileReads ------------------------------
(* Reading one exact file while somebody else saves it: load_contract of    *)
(* the integration contract tool and sealed_checker of the objective        *)
(* capture. The reader takes its file in pieces; a writer may replace the   *)
(* path, or truncate the file and fill it again, between any two of the     *)
(* reader's calls. load_contract compares the file's metadata before and    *)
(* after; sealed_checker compares the digest of what it read and runs a     *)
(* sealed copy of exactly those bytes.                                      *)
EXTENDS Integers, Sequences, FiniteSets

CONSTANTS Version,    \* the contents a save may leave; a file is two pieces
          Expected,  \* the version whose digest the capture was given
          Inode,      \* inode numbers of the directory's file system
          MaxClock    \* bound: ticks of the file system's timestamp

ASSUME FileReadsAssumption ==
  /\ Expected \in Version
  /\ IsFiniteSet(Inode) /\ Cardinality(Inode) >= 3
  /\ MaxClock \in Nat

VARIABLES inode,   \* what each inode holds: pieces and modification time
          path,    \* the inode the path names
          saving,  \* version a writer is filling the file with, or <<>>
          clock,   \* the timestamp a write gets: it does not tick per write
          reader   \* the reading program

readVars == <<inode, path, saving, clock, reader>>

Pieces == 2
File(v) == [i \in 1..Pieces |-> v]

\* What stat reports and the reader compares.
Stat(i) == [ino |-> i, size |-> Len(inode[i].held), time |-> inode[i].time]
NoStat == [ino |-> 0, size |-> 0, time |-> 0]
Free == [held |-> <<>>, time |-> 0]

ReadInit ==
  /\ path = CHOOSE i \in Inode : TRUE
  /\ \E v \in Version : inode =
       [i \in Inode |-> IF i = path THEN [held |-> File(v), time |-> 0] ELSE Free]
  /\ saving = <<>>
  /\ clock = 0
  /\ reader \in [tool : {"load", "checker"}, at : {"start"}, before : {NoStat},
                 opened : {NoStat}, got : {<<>>}, blurred : {FALSE}]

Held(i) == reader.at \in {"read", "stat"} /\ reader.opened.ino = i

(********************************* writers *********************************)

\* A new file renamed over the path. The old inode lives on while the
\* reader holds it open; a number nobody holds may come back.
Rename(v) ==
  /\ saving = <<>>
  /\ \E i \in Inode \ {path} :
       /\ ~Held(i)
       /\ path' = i
       /\ inode' = [inode EXCEPT ![i] = [held |-> File(v), time |-> clock],
                                ![path] = IF Held(path) THEN @ ELSE Free]
  /\ UNCHANGED <<saving, clock, reader>>

\* One write to the file the path names; one that falls in the same tick as
\* the time the reader saw leaves no trace in the metadata.
Touch(held) ==
  /\ inode' = [inode EXCEPT ![path] = [held |-> held, time |-> clock]]
  /\ reader' = [reader EXCEPT !.blurred =
       @ \/ (Held(path) /\ reader.opened.time = clock)]
  /\ UNCHANGED <<path, clock>>

Truncate(v) == saving = <<>> /\ saving' = <<v>> /\ Touch(<<>>)

Fill ==
  /\ saving # <<>>
  /\ LET held == Append(inode[path].held, saving[1])
     IN Touch(held) /\ saving' = IF Len(held) = Pieces THEN <<>> ELSE saving

ClockTicks ==
  /\ clock < MaxClock
  /\ clock' = clock + 1
  /\ UNCHANGED <<inode, path, saving, reader>>

(********************************* readers *********************************)

LStat ==
  /\ reader.tool = "load" /\ reader.at = "start"
  /\ reader' = [reader EXCEPT !.at = "open", !.before = Stat(path)]
  /\ UNCHANGED <<inode, path, saving, clock>>

\* READ_PATH_REPLACED unless the descriptor is of the inode just looked at;
\* the checker opens without a first look.
Open ==
  /\ reader.at = IF reader.tool = "load" THEN "open" ELSE "start"
  /\ reader' = IF reader.tool = "load" /\ reader.before.ino # path
                 THEN [reader EXCEPT !.at = "refused"]
                 ELSE [reader EXCEPT !.at = "read", !.opened = Stat(path)]
  /\ UNCHANGED <<inode, path, saving, clock>>

\* Each call returns the next piece there is now; none means end of file.
ReadPiece ==
  /\ reader.at = "read"
  /\ LET next == Len(reader.got) + 1
         held == inode[reader.opened.ino].held
     IN reader' = IF next \in DOMAIN held
                    THEN [reader EXCEPT !.got = Append(@, held[next])]
                    ELSE [reader EXCEPT !.at = "stat"]
  /\ UNCHANGED <<inode, path, saving, clock>>

\* Mutant: a file of the same length is the same file.
StableMutant(opened, after) ==
  opened.ino = after.ino /\ opened.size = after.size

\* READ_CONTENT_CHANGED unless inode, size and time are as at the opening.
Stable(opened, after) == opened = after

\* A truncated contract is not JSON; the digest is of the whole content.
Accepts ==
  IF reader.tool = "load"
    THEN Stable(reader.opened, Stat(reader.opened.ino))
         /\ Len(reader.got) = Pieces
    ELSE reader.got = File(Expected)

Judge ==
  /\ reader.at = "stat"
  /\ reader' = [reader EXCEPT !.at = IF Accepts THEN "accepted" ELSE "refused"]
  /\ UNCHANGED <<inode, path, saving, clock>>

ReadNext ==
  \/ \E v \in Version : Rename(v) \/ Truncate(v)
  \/ Fill \/ ClockTicks
  \/ LStat \/ Open \/ ReadPiece \/ Judge

ReadSpec == ReadInit /\ [][ReadNext]_readVars

(******************************** properties *******************************)

\* A contract that is validated, or a checker that is run, is one version
\* somebody saved, never the head of one and the tail of another. For the
\* contract this holds unless the save fell in the very tick of the file's
\* previous modification, which the metadata cannot show.
AcceptedIsOneVersion ==
  reader.at = "accepted" =>
    \/ \E v \in Version : reader.got = File(v)
    \/ reader.tool = "load" /\ reader.blurred
=============================================================================
