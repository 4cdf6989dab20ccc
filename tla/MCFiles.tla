------------------------------- MODULE MCFiles ------------------------------
(***************************************************************************)
(* The parts that share files between processes and with crashes, one at a *)
(* time: `part` says which of them runs, the others stay as they are at    *)
(* first.                                                                  *)
(*                                                                         *)
(* workspace: a publish_many of a directory with two files, one of one of  *)
(*   the files, a write_bytes of the other, and a mkdir of the directory.  *)
(* telemetry: two processes, a log of two frames and a log that repeats    *)
(*   one of their bindings: ingested twice, at once, under one run and     *)
(*   under two. A third log repeats a binding of its own and is never      *)
(*   ingested.                                                             *)
(* cache: two runs, a tree edited back and forth and one update of the     *)
(*   dependencies, over a cache of two directories.                        *)
(* experience: three keys for an index of two, and a log long enough that  *)
(*   loading consolidates on the way and again at its end.                 *)
(* seal: an addition, a maximum (version 2) and a program of version 3,    *)
(*   two edits and two commands.                                           *)
(***************************************************************************)
EXTENDS WorkspacePublish, TelemetryJournal, BuildCache, DynamicSeal

CONSTANT Parts

VARIABLES part,
  x_lines, x_tail, x_pc, x_line, x_store, x_clone, x_pending, x_acked

----------------------------------------------------------------------------
D == <<"d">>
E == <<"d", "e">>
F == <<"d", "f">>

MCPaths == {D, E, F}
MCMethod == [c \in Calls |-> IF c = "w" THEN "write_bytes"
                             ELSE IF c = "m" THEN "mkdir" ELSE "publish_many"]
MCEntries == [c \in Calls |-> CASE c = "a" -> {D, E, F}
                                [] c = "b" -> {F}
                                [] c = "w" -> {E}
                                [] c = "m" -> {D}]
MCDirs == [c \in Calls |-> IF c \in {"a", "m"} THEN {D} ELSE {}]

----------------------------------------------------------------------------
LogContent == [a |-> <<1, 2>>, b |-> <<2>>, c |-> <<3, 3>>]

----------------------------------------------------------------------------
evars ==
  <<x_lines, x_tail, x_pc, x_line, x_store, x_clone, x_pending, x_acked>>

Experience == INSTANCE ExperienceStore WITH
  Keys <- {"k1", "k2", "k3"}, active_limit <- 2, MaxLog <- 5, MaxForked <- 3, lines <- x_lines,
  tail <- x_tail, pc <- x_pc, line <- x_line, store <- x_store, clone <- x_clone,
  pending <- x_pending, acked <- x_acked

----------------------------------------------------------------------------
Load(d, a) == [op |-> 1, dst |-> d, left |-> a, right |-> 0]
Two(op, d, l, r) == [op |-> op, dst |-> d, left |-> l, right |-> r]
Store(d) == [op |-> 3, dst |-> d, left |-> 0, right |-> 0]

SealPrograms ==
  [d \in {"add", "max", "later"} |->
     [version |-> CASE d = "add" -> 1 [] d = "max" -> 2 [] d = "later" -> 3,
      words |-> <<Load(0, 1), Load(1, 2),
                  Two(IF d = "add" THEN 2 ELSE 4, 2, 0, 1), Store(2)>>]]
SealShapes == [d \in {"add", "max", "later"} |-> "baseline"]

----------------------------------------------------------------------------
\* A part that is not selected stays in one of its initial states.
FilesInit ==
  /\ part \in Parts
  /\ IF part = "cache" THEN TRUE ELSE tree = "t1"
  /\ IF part = "seal" THEN TRUE ELSE descriptor = [p \in DescriptorPaths |-> "add"]
  /\ WorkspaceInit /\ JournalInit /\ CacheInit /\ Experience!StoreInit /\ SealInit

FilesNext ==
  /\ UNCHANGED part
  /\ \/ part = "workspace" /\ WorkspaceNext /\ UNCHANGED <<jvars, cvars, evars, sealvars>>
     \/ part = "telemetry" /\ JournalNext /\ UNCHANGED <<wvars, cvars, evars, sealvars>>
     \/ part = "cache" /\ CacheNext /\ UNCHANGED <<wvars, jvars, evars, sealvars>>
     \/ part = "experience" /\ Experience!StoreNext /\ UNCHANGED <<wvars, jvars, cvars, sealvars>>
     \/ part = "seal" /\ SealNext /\ UNCHANGED <<wvars, jvars, cvars, evars>>
     \/ \* Nobody calls again.
        part \in {"workspace", "seal"}
          /\ UNCHANGED <<wvars, jvars, cvars, evars, sealvars>>

FilesSpec == FilesInit /\ [][FilesNext]_<<part, wvars, jvars, cvars, evars, sealvars>>

\* The active records, the counts and the evidence agree with what was
\* acknowledged, through crashes and reloads (ExperienceStore).
StoreSound == part = "experience" => Experience!StoreSound
=============================================================================
