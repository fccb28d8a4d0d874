--------------------------- MODULE FileReads_proofs ---------------------------
(* That what is accepted is one version, for every set of versions and of    *)
(* inodes, and however long the clock runs.                                  *)
EXTENDS FileReads, FiniteSetTheorems, TLAPS

\* What a save under way or done may leave of a version.
Heads(v) == {<<>>, <<v>>, <<v, v>>}

Inodes ==
  /\ inode \in [Inode -> [held : UNION {Heads(v) : v \in Version}, time : Nat]]
  /\ path \in Inode
  /\ clock \in Nat
  /\ \A i \in Inode : inode[i].time <= clock

\* A save fills a file that has only pieces of its own version.
Filling ==
  saving # <<>> =>
    \E v \in Version : saving = <<v>> /\ inode[path].held \in {<<>>, <<v>>}

Readers ==
  [tool : {"load", "checker"},
   at : {"start", "open", "read", "stat", "accepted", "refused"},
   before : [ino : Inode \cup {0}, size : Nat, time : Nat],
   opened : [ino : Inode \cup {0}, size : Nat, time : Nat],
   got : Seq(Version), blurred : BOOLEAN]

Reading == reader.at \in {"read", "stat"}

\* While the opened inode shows the time it had at the opening, and no write
\* hid in that tick, what was read is the beginning of what it holds.
ReadOfOpened ==
  /\ reader.at \in {"start", "open"} => reader.got = <<>>
  /\ Reading =>
       /\ reader.opened.ino \in Inode
       /\ reader.opened.time <= clock
       /\ ~reader.blurred /\ inode[reader.opened.ino].time = reader.opened.time =>
            /\ Len(reader.got) <= Len(inode[reader.opened.ino].held)
            /\ \A k \in 1..Len(reader.got) :
                 reader.got[k] = inode[reader.opened.ino].held[k]

ReadInv ==
  /\ Inodes /\ Filling
  /\ reader \in Readers
  /\ ReadOfOpened
  /\ AcceptedIsOneVersion

-----------------------------------------------------------------------------
LEMMA HeadsAreSequences ==
  ASSUME NEW h \in UNION {Heads(v) : v \in Version}
  PROVE  /\ h \in Seq(Version) /\ Len(h) \in 0..2
         /\ Len(h) = 2 => \E v \in Version : h = <<v, v>>
  <1>1. PICK v \in Version : h = <<>> \/ h = <<v>> \/ h = <<v, v>>
    BY DEF Heads
  <1>2. CASE h = <<>>
    BY <1>2
  <1>3. CASE h = <<v>>
    BY <1>3
  <1>4. CASE h = <<v, v>>
    BY <1>4
  <1> QED  BY <1>1, <1>2, <1>3, <1>4

LEMMA TwoPieces ==
  ASSUME NEW q \in Seq(Version), NEW v, Len(q) = 2, q[1] = v, q[2] = v
  PROVE  q = <<v, v>>
  OBVIOUS

LEMMA SecondPiece ==
  ASSUME NEW v \in Version
  PROVE  Append(<<v>>, v) = <<v, v>>
  <1>1. <<v>> \in Seq(Version) /\ Len(<<v>>) = 1 /\ <<v>>[1] = v
    OBVIOUS
  <1>2. ASSUME NEW q \in Seq(Version), Len(q) = 1, q[1] = v
        PROVE  Append(q, v) = <<v, v>>
    <2>1. Append(q, v) \in Seq(Version)
      OBVIOUS
    <2>2. /\ Len(Append(q, v)) = Len(q) + 1 /\ Append(q, v)[Len(q) + 1] = v
          /\ \A i \in 1 .. Len(q) : Append(q, v)[i] = q[i]
      OBVIOUS
    <2>3. Len(Append(q, v)) = 2 /\ Append(q, v)[1] = v /\ Append(q, v)[2] = v
      BY <1>2, <2>2
    <2> QED  BY <2>1, <2>3, TwoPieces
  <1> QED  BY <1>1, <1>2

LEMMA FilesAreHeads ==
  ASSUME NEW v \in Version
  PROVE  File(v) = <<v, v>> /\ File(v) \in UNION {Heads(w) : w \in Version}
  <1>1. File(v) = <<v, v>>
    BY DEF File, Pieces
  <1> QED  BY <1>1 DEF Heads

LEMMA InitReadInv == ReadInit => ReadInv
  <1> SUFFICES ASSUME ReadInit PROVE ReadInv
    OBVIOUS
  <1>1. path \in Inode
    <2>1. Inode # {}
      BY FileReadsAssumption, FS_EmptySet
    <2> QED  BY <2>1 DEF ReadInit
  <1>2. Inodes
    <2>1. PICK v \in Version : inode =
            [i \in Inode |-> IF i = path THEN [held |-> File(v), time |-> 0] ELSE Free]
      BY DEF ReadInit
    <2>2. File(v) \in UNION {Heads(w) : w \in Version}
      BY FilesAreHeads
    <2>3. <<>> \in UNION {Heads(w) : w \in Version}
      BY DEF Heads
    <2>4. inode \in [Inode -> [held : UNION {Heads(w) : w \in Version}, time : Nat]]
      BY <2>1, <2>2, <2>3 DEF Free
    <2>5. clock = 0 /\ \A i \in Inode : inode[i].time = 0
      BY <2>1 DEF ReadInit, Free
    <2>6. clock \in Nat /\ \A i \in Inode : inode[i].time <= clock
      BY <2>5
    <2> QED  BY <1>1, <2>4, <2>6 DEF Inodes
  <1>3. reader \in Readers
    <2>1. <<>> \in Seq(Version)
      OBVIOUS
    <2>2. NoStat \in [ino : Inode \cup {0}, size : Nat, time : Nat]
      BY DEF NoStat
    <2>3. reader \in [tool : {"load", "checker"}, at : {"start"}, before : {NoStat},
                      opened : {NoStat}, got : {<<>>}, blurred : {FALSE}]
      BY DEF ReadInit
    <2>4. \A n \in [ino : Inode \cup {0}, size : Nat, time : Nat], q \in Seq(Version) :
             [tool : {"load", "checker"}, at : {"start"}, before : {n},
              opened : {n}, got : {q}, blurred : {FALSE}] \subseteq Readers
      BY DEF Readers
    <2> QED  BY <2>1, <2>2, <2>3, <2>4
  <1> QED  BY <1>2, <1>3 DEF ReadInv, ReadInit, Filling, ReadOfOpened, Reading, AcceptedIsOneVersion

\* A write to the file the path names, by either of its writers: the reader
\* keeps its place, and an opened file that is written to while its time is
\* the clock's is blurred, else shows a later time.
LEMMA TouchKeepsReading ==
  ASSUME ReadInv, NEW h \in UNION {Heads(v) : v \in Version}, Touch(h)
  PROVE  Inodes' /\ reader' \in Readers /\ ReadOfOpened' /\ AcceptedIsOneVersion'
  <1> USE DEF ReadInv
  <1>1. /\ path \in Inode /\ path' = path /\ clock' = clock
        /\ inode' = [inode EXCEPT ![path] = [held |-> h, time |-> clock]]
    BY DEF Touch, Inodes
  <1>2. inode' \in [Inode -> [held : UNION {Heads(v) : v \in Version}, time : Nat]]
    BY <1>1 DEF Inodes
  <1>3. \A i \in Inode : inode'[i].time <= clock'
    BY <1>1 DEF Inodes
  <1>4. Inodes'
    BY <1>1, <1>2, <1>3 DEF Inodes
  <1>5. PICK b \in BOOLEAN :
          /\ reader' = [reader EXCEPT !.blurred = b]
          /\ reader.blurred => b
          /\ Held(path) /\ reader.opened.time = clock => b
    BY DEF Touch, Readers
  <1>6. /\ reader' \in Readers
        /\ reader'.at = reader.at /\ reader'.tool = reader.tool
        /\ reader'.got = reader.got /\ reader'.opened = reader.opened
        /\ reader'.blurred = b
    BY <1>5 DEF Readers
  <1>7. ReadOfOpened'
    <2>1. CASE ~Reading
      BY <2>1, <1>6 DEF ReadOfOpened, Reading
    <2>2. CASE Reading
      <3>1. reader.opened.ino \in Inode /\ reader.opened.time <= clock
        BY <2>2 DEF ReadOfOpened
      <3>2. CASE reader.opened.ino = path
        <4>1. Held(path)
          BY <2>2, <3>2 DEF Held, Reading
        <4>2. inode'[reader.opened.ino].time = clock
          BY <1>1, <3>2 DEF Inodes
        <4>3. reader.opened.time = clock => reader'.blurred
          BY <4>1, <1>5, <1>6
        <4> QED  BY <2>2, <3>1, <4>2, <4>3, <1>1, <1>6 DEF ReadOfOpened, Reading
      <3>3. CASE reader.opened.ino # path
        <4>1. inode'[reader.opened.ino] = inode[reader.opened.ino]
          BY <1>1, <3>1, <3>3 DEF Inodes
        <4>2. ~reader'.blurred => ~reader.blurred
          BY <1>5, <1>6
        <4> QED  BY <2>2, <3>1, <4>1, <4>2, <1>1, <1>6 DEF ReadOfOpened, Reading
      <3> QED  BY <3>2, <3>3
    <2> QED  BY <2>1, <2>2
  <1>8. AcceptedIsOneVersion'
    BY <1>5, <1>6 DEF AcceptedIsOneVersion, File, Pieces
  <1> QED  BY <1>4, <1>6, <1>7, <1>8

\* What every step of the reader leaves alone.
LEMMA ReaderStepKeepsFiles ==
  ASSUME ReadInv, UNCHANGED <<inode, path, saving, clock>>
  PROVE  Inodes' /\ Filling'
  BY DEF ReadInv, Inodes, Filling

LEMMA RenameStep ==
  ASSUME ReadInv, NEW v \in Version, Rename(v)
  PROVE  ReadInv'
  <1>1. PICK i \in Inode \ {path} :
          /\ ~Held(i) /\ path' = i
          /\ inode' = [inode EXCEPT ![i] = [held |-> File(v), time |-> clock],
                                    ![path] = IF Held(path) THEN @ ELSE Free]
    BY DEF Rename
  <1>2. saving = <<>> /\ UNCHANGED <<saving, clock, reader>>
    BY DEF Rename
  <1>3. /\ path \in Inode /\ clock \in Nat
        /\ inode \in [Inode -> [held : UNION {Heads(w) : w \in Version}, time : Nat]]
        /\ \A j \in Inode : inode[j].time <= clock
    BY DEF ReadInv, Inodes
  <1>4. \A j \in Inode :
          inode'[j] = IF j = i THEN [held |-> File(v), time |-> clock]
                      ELSE IF j = path /\ ~Held(path) THEN Free ELSE inode[j]
    BY <1>1, <1>3
  <1>5. Inodes'
    <2>1. [held |-> File(v), time |-> clock]
            \in [held : UNION {Heads(w) : w \in Version}, time : Nat]
      BY <1>3, FilesAreHeads
    <2>2. <<>> \in UNION {Heads(w) : w \in Version}
      BY DEF Heads
    <2>3. Free \in [held : UNION {Heads(w) : w \in Version}, time : Nat]
      BY <2>2 DEF Free
    <2>4. inode' \in [Inode -> [held : UNION {Heads(w) : w \in Version}, time : Nat]]
      BY <1>1, <1>3, <2>1, <2>3
    <2>5. \A j \in Inode : inode'[j].time <= clock
      BY <1>3, <1>4 DEF Free
    <2> QED  BY <1>1, <1>2, <1>3, <2>4, <2>5 DEF Inodes
  <1>6. ReadOfOpened'
    <2>1. CASE ~Reading
      BY <2>1, <1>2 DEF ReadInv, ReadOfOpened, Reading
    <2>2. CASE Reading
      <3>1. reader.opened.ino \in Inode /\ Held(reader.opened.ino)
        BY <2>2 DEF ReadInv, ReadOfOpened, Reading, Held
      <3>2. inode'[reader.opened.ino] = inode[reader.opened.ino]
        BY <3>1, <1>1, <1>4
      <3> QED  BY <2>2, <3>1, <3>2, <1>2 DEF ReadInv, ReadOfOpened, Reading
    <2> QED  BY <2>1, <2>2
  <1> QED  BY <1>2, <1>5, <1>6 DEF ReadInv, Filling, AcceptedIsOneVersion

LEMMA TruncateStep ==
  ASSUME ReadInv, NEW v \in Version, Truncate(v)
  PROVE  ReadInv'
  <1>1. Touch(<<>>) /\ saving' = <<v>>
    BY DEF Truncate
  <1>2. <<>> \in UNION {Heads(w) : w \in Version}
    BY DEF Heads
  <1>3. Inodes' /\ reader' \in Readers /\ ReadOfOpened' /\ AcceptedIsOneVersion'
    BY <1>1, <1>2, TouchKeepsReading
  <1>4. path' = path /\ inode'[path].held = <<>>
    BY <1>1 DEF ReadInv, Inodes, Touch
  <1>5. Filling'
    BY <1>1, <1>4 DEF Filling
  <1> QED  BY <1>3, <1>5 DEF ReadInv

LEMMA FillStep ==
  ASSUME ReadInv, Fill
  PROVE  ReadInv'
  <1> DEFINE held == Append(inode[path].held, saving[1])
  <1>1. /\ saving # <<>> /\ Touch(held)
        /\ saving' = IF Len(held) = Pieces THEN <<>> ELSE saving
    BY DEF Fill
  <1>2. PICK v \in Version : saving = <<v>> /\ inode[path].held \in {<<>>, <<v>>}
    BY <1>1 DEF ReadInv, Filling
  <1>3. held = <<v>> \/ held = <<v, v>>
    <2>1. saving[1] = v
      BY <1>2
    <2>2. CASE inode[path].held = <<>>
      BY <1>2, <2>1, <2>2
    <2>3. CASE inode[path].held = <<v>>
      BY <2>1, <2>3, SecondPiece
    <2> QED  BY <1>2, <2>2, <2>3
  <1>4. held \in UNION {Heads(w) : w \in Version}
    BY <1>3 DEF Heads
  <1>5. held = <<v, v>> => Len(held) = Pieces
    BY DEF Pieces
  <1>6. Inodes' /\ reader' \in Readers /\ ReadOfOpened' /\ AcceptedIsOneVersion'
    <2> HIDE DEF held
    <2> QED  BY <1>1, <1>4, TouchKeepsReading
  <1>7. path' = path /\ inode'[path].held = held
    <2> HIDE DEF held
    <2> QED  BY <1>1 DEF ReadInv, Inodes, Touch
  <1>8. Filling'
    <2> HIDE DEF held
    <2> QED  BY <1>1, <1>2, <1>3, <1>5, <1>7 DEF Filling
  <1> QED  BY <1>6, <1>8 DEF ReadInv

LEMMA OpenStep ==
  ASSUME ReadInv, LStat \/ Open
  PROVE  ReadInv'
  <1>1. UNCHANGED <<inode, path, saving, clock>>
    BY DEF LStat, Open
  <1>2. Inodes' /\ Filling'
    BY <1>1, ReaderStepKeepsFiles
  <1>3. Stat(path) \in [ino : Inode \cup {0}, size : Nat, time : Nat]
    <2>1. Len(inode[path].held) \in Nat
      BY HeadsAreSequences DEF ReadInv, Inodes
    <2> QED  BY <2>1 DEF ReadInv, Inodes, Stat
  <1>4. reader \in Readers /\ reader.got = <<>> /\ reader.at \in {"start", "open"}
    BY DEF ReadInv, ReadOfOpened, LStat, Open
  <1>5. CASE LStat
    <2>1. reader' \in Readers /\ reader'.at = "open" /\ reader'.got = <<>>
      BY <1>3, <1>4, <1>5 DEF LStat, Readers
    <2> QED  BY <1>2, <2>1 DEF ReadInv, ReadOfOpened, Reading, AcceptedIsOneVersion
  <1>6. CASE Open
    <2>1. CASE reader' = [reader EXCEPT !.at = "refused"]
      <3>1. reader' \in Readers /\ reader'.at = "refused"
        BY <1>4, <2>1 DEF Readers
      <3> QED  BY <1>2, <3>1 DEF ReadInv, ReadOfOpened, Reading, AcceptedIsOneVersion
    <2>2. CASE reader' = [reader EXCEPT !.at = "read", !.opened = Stat(path)]
      <3>1. /\ reader' \in Readers /\ reader'.at = "read" /\ reader'.got = <<>>
            /\ reader'.opened = Stat(path)
        BY <1>3, <1>4, <2>2 DEF Readers
      <3>2. /\ reader'.opened.ino = path /\ path \in Inode
            /\ reader'.opened.time = inode[path].time /\ inode[path].time <= clock
        BY <3>1 DEF ReadInv, Inodes, Stat
      <3>3. Len(inode[path].held) \in Nat
        BY HeadsAreSequences DEF ReadInv, Inodes
      <3>4. ReadOfOpened'
        BY <1>1, <3>1, <3>2, <3>3 DEF ReadOfOpened, Reading
      <3> QED  BY <1>2, <3>1, <3>4 DEF ReadInv, AcceptedIsOneVersion
    <2> QED  BY <1>6, <2>1, <2>2 DEF Open
  <1> QED  BY <1>5, <1>6

LEMMA ReadPieceStep ==
  ASSUME ReadInv, ReadPiece
  PROVE  ReadInv'
  <1> DEFINE next == Len(reader.got) + 1
             held == inode[reader.opened.ino].held
  <1>1. /\ reader.at = "read" /\ UNCHANGED <<inode, path, saving, clock>>
        /\ reader' = IF next \in DOMAIN held
                       THEN [reader EXCEPT !.got = Append(@, held[next])]
                       ELSE [reader EXCEPT !.at = "stat"]
    BY DEF ReadPiece
  <1>2. Inodes' /\ Filling'
    BY <1>1, ReaderStepKeepsFiles
  <1>3. /\ reader \in Readers /\ reader.got \in Seq(Version)
        /\ reader.opened.ino \in Inode /\ reader.opened.time <= clock
    BY <1>1 DEF ReadInv, ReadOfOpened, Reading, Readers
  <1>4. held \in Seq(Version)
    BY <1>3, HeadsAreSequences DEF ReadInv, Inodes
  <1>5. CASE next \in DOMAIN held
    <2>1. held[next] \in Version /\ next <= Len(held)
      <3> HIDE DEF held
      <3> QED  BY <1>3, <1>4, <1>5
    <2>2. /\ reader' \in Readers /\ reader'.at = "read"
          /\ reader'.got = Append(reader.got, held[next])
          /\ reader'.opened = reader.opened /\ reader'.blurred = reader.blurred
      <3> DEFINE longer == Append(reader.got, held[next])
      <3>1. longer \in Seq(Version)
        <4> HIDE DEF held, next
        <4> QED  BY <1>3, <2>1
      <3>2. reader' = [reader EXCEPT !.got = longer]
        BY <1>1, <1>5
      <3> HIDE DEF longer
      <3>3. /\ reader' \in Readers /\ reader'.at = reader.at /\ reader'.got = longer
            /\ reader'.opened = reader.opened /\ reader'.blurred = reader.blurred
        BY <1>3, <3>1, <3>2 DEF Readers
      <3> QED  BY <1>1, <3>3 DEF longer
    <2>3. /\ Len(reader'.got) = next
          /\ \A k \in 1..Len(reader.got) : reader'.got[k] = reader.got[k]
          /\ reader'.got[next] = held[next]
      BY <1>3, <2>2
    <2>4. ASSUME ~reader.blurred, inode[reader.opened.ino].time = reader.opened.time
          PROVE  \A k \in 1..next : reader'.got[k] = held[k]
      <3>1. \A k \in 1..Len(reader.got) : reader.got[k] = held[k]
        BY <1>1, <2>4 DEF ReadInv, ReadOfOpened, Reading
      <3>2. ASSUME NEW k \in 1..next PROVE k \in 1..Len(reader.got) \/ k = next
        BY <1>3
      <3> QED  BY <3>1, <3>2, <2>3
    <2>5. ReadOfOpened'
      BY <1>1, <1>3, <2>1, <2>2, <2>3, <2>4 DEF ReadOfOpened, Reading
    <2> QED  BY <1>2, <2>2, <2>5 DEF ReadInv, AcceptedIsOneVersion
  <1>6. CASE next \notin DOMAIN held
    <2>1. /\ reader' \in Readers /\ reader'.at = "stat" /\ reader'.got = reader.got
          /\ reader'.opened = reader.opened /\ reader'.blurred = reader.blurred
      BY <1>1, <1>3, <1>6 DEF Readers
    <2>2. ReadOfOpened'
      BY <1>1, <2>1 DEF ReadInv, ReadOfOpened, Reading
    <2> QED  BY <1>2, <2>1, <2>2 DEF ReadInv, AcceptedIsOneVersion
  <1> QED  BY <1>5, <1>6

\* The comparison after the last read: equal metadata, so what was read is
\* the beginning of what the inode holds, and two pieces of it are all of it.
LEMMA JudgeStep ==
  ASSUME ReadInv, Judge
  PROVE  ReadInv'
  <1>1. /\ reader.at = "stat" /\ UNCHANGED <<inode, path, saving, clock>>
        /\ reader' = [reader EXCEPT !.at = IF Accepts THEN "accepted" ELSE "refused"]
    BY DEF Judge
  <1>2. Inodes' /\ Filling'
    BY <1>1, ReaderStepKeepsFiles
  <1>3. /\ reader \in Readers /\ reader.got \in Seq(Version)
        /\ reader.opened.ino \in Inode
    BY <1>1 DEF ReadInv, ReadOfOpened, Reading, Readers
  <1>4. /\ reader' \in Readers /\ reader'.at \in {"accepted", "refused"}
        /\ reader'.got = reader.got /\ reader'.tool = reader.tool
        /\ reader'.blurred = reader.blurred
        /\ reader'.at = "accepted" => Accepts
    BY <1>1, <1>3 DEF Readers
  <1>5. ASSUME Accepts, ~(reader.tool = "load" /\ reader.blurred)
        PROVE  \E v \in Version : reader.got = File(v)
    <2>1. CASE reader.tool # "load"
      BY <1>5, <2>1, FileReadsAssumption DEF Accepts
    <2>2. CASE reader.tool = "load"
      <3> DEFINE held == inode[reader.opened.ino].held
      <3>1. /\ reader.opened.time = inode[reader.opened.ino].time
            /\ reader.opened.size = Len(held) /\ Len(reader.got) = 2
        BY <1>5, <2>2 DEF Accepts, Stable, Stat, Pieces
      <3>2. ~reader.blurred
        BY <1>5, <2>2
      <3>3. /\ 2 <= Len(held)
            /\ \A k \in 1..2 : reader.got[k] = held[k]
        BY <1>1, <3>1, <3>2 DEF ReadInv, ReadOfOpened, Reading
      <3>4. /\ held \in UNION {Heads(v) : v \in Version}
        BY <1>3 DEF ReadInv, Inodes
      <3>5. PICK v \in Version : held = <<v, v>>
        <4> HIDE DEF held
        <4>1. Len(held) = 2
          BY <3>3, <3>4, HeadsAreSequences
        <4> QED  BY <3>4, <4>1, HeadsAreSequences
      <3>6. reader.got[1] = v /\ reader.got[2] = v
        BY <3>3, <3>5
      <3>7. reader.got = <<v, v>>
        BY <1>3, <3>1, <3>6, TwoPieces
      <3> QED  BY <3>7, FilesAreHeads
    <2> QED  BY <2>1, <2>2
  <1>6. AcceptedIsOneVersion'
    BY <1>4, <1>5 DEF AcceptedIsOneVersion, File, Pieces
  <1>7. ReadOfOpened'
    BY <1>4 DEF ReadOfOpened, Reading
  <1> QED  BY <1>2, <1>4, <1>6, <1>7 DEF ReadInv

LEMMA ClockStep ==
  ASSUME ReadInv, ClockTicks
  PROVE  ReadInv'
  <1>1. clock' = clock + 1 /\ UNCHANGED <<inode, path, saving, reader>>
    BY DEF ClockTicks
  <1>2. Inodes'
    BY <1>1 DEF ReadInv, Inodes
  <1>3. ReadOfOpened'
    <2>1. Reading => reader.opened.time \in Nat /\ clock \in Nat
      BY DEF ReadInv, Inodes, Readers
    <2> QED  BY <1>1, <2>1 DEF ReadInv, ReadOfOpened, Reading
  <1> QED  BY <1>1, <1>2, <1>3 DEF ReadInv, Filling, AcceptedIsOneVersion

\* A contract that is loaded or a checker that is run is one version somebody
\* saved (load_contract, sealed_checker), whatever the savers do meanwhile,
\* unless a save fell in the very tick of the time the reader saw.
THEOREM OneVersionAccepted == ReadSpec => []AcceptedIsOneVersion
  <1>1. ReadInit => ReadInv
    BY InitReadInv
  <1>2. ReadInv /\ [ReadNext]_readVars => ReadInv'
    <2> SUFFICES ASSUME ReadInv, [ReadNext]_readVars PROVE ReadInv'
      OBVIOUS
    <2>1. ASSUME NEW v \in Version, Rename(v) PROVE ReadInv'
      BY <2>1, RenameStep
    <2>2. ASSUME NEW v \in Version, Truncate(v) PROVE ReadInv'
      BY <2>2, TruncateStep
    <2>3. CASE Fill
      BY <2>3, FillStep
    <2>4. CASE ClockTicks
      BY <2>4, ClockStep
    <2>5. CASE LStat \/ Open
      BY <2>5, OpenStep
    <2>6. CASE ReadPiece
      BY <2>6, ReadPieceStep
    <2>7. CASE Judge
      BY <2>7, JudgeStep
    <2>8. CASE UNCHANGED readVars
      BY <2>8 DEF readVars, ReadInv, Inodes, Filling, ReadOfOpened, Reading,
                  AcceptedIsOneVersion
    <2> QED  BY <2>1, <2>2, <2>3, <2>4, <2>5, <2>6, <2>7, <2>8 DEF ReadNext
  <1>3. ReadInv => AcceptedIsOneVersion
    BY DEF ReadInv
  <1> QED  BY <1>1, <1>2, <1>3, PTL DEF ReadSpec
=============================================================================
