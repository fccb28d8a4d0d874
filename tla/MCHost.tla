------------------------------- MODULE MCHost -------------------------------
(* One operator's hosts for TLC: each behaviour is on one host, running its *)
(* scripts there, or on the host "editor", where a file is read while it is *)
(* being saved.                                                             *)
EXTENDS HostScripts, FileReads

\* The preparation takes five scripts.
MCMaxRuns == [h \in Hosts |-> IF h = "preparation" THEN 5 ELSE 4]

hostVars == <<vars, readVars>>

\* Where nobody reads, one value of the file will do.
HostInit ==
  /\ Init /\ ReadInit
  /\ host # "editor" =>
       reader.tool = "load" /\ inode[path].held = File(Expected)
HostNext == \/ Next /\ UNCHANGED readVars
            \/ host = "editor" /\ ReadNext /\ UNCHANGED vars
HostSpec == HostInit /\ [][HostNext]_hostVars
=============================================================================
