------------------------------- MODULE MCShell ------------------------------
(***************************************************************************)
(* The command graph, its showcase and the research bundle, one part at a  *)
(* time: `part` says which of them runs, the others stay as they are at    *)
(* first.                                                                  *)
(*                                                                         *)
(* graph: lines of up to MaxLen commands over two outputs and one input,   *)
(*   or, for the join, the lines of four bare commands.                    *)
(* showcase: two inputs, three runs, a damaged cache file and an edited    *)
(*   input.                                                                *)
(* bundle: three candidates under three policies; a manifest that is       *)
(*   sound, one for the pilot stage and one that trusts another policy.    *)
(***************************************************************************)
EXTENDS ResearchBundle, CommandShowcase

CONSTANTS Parts, MaxLen, MAX_NODES, Repetitions, MaxEdits, Family

VARIABLES part,
  g_pc, g_line, g_ws, g_stale, g_program, g_arms, g_initial, g_files, g_status, g_stdin,
  g_stream, g_result, g_accepted, g_rejected, g_committed, g_edits, g_timeouts

----------------------------------------------------------------------------
Ops == {"|", "&&", ";", "|||"}
Cmd(t, a, i, o) == [tool |-> t, args |-> a, stdin |-> i, stdout |-> o]

FileCmds == {Cmd("echo", <<>>, "none", "x"),
             Cmd("cp", <<"i", "x">>, "none", "none"), Cmd("cp", <<"x", "y">>, "none", "none"),
             Cmd("tee", <<"x">>, "none", "none")}
StreamCmds == {Cmd("cat", <<"i">>, "none", "none"), Cmd("sort", <<>>, "i", "x"),
               Cmd("tee", <<"x">>, "none", "none"), Cmd("sort", <<>>, "none", "x")}
BareCmds == {Cmd("cat", <<"i">>, "none", "none"), Cmd("echo", <<>>, "none", "none")}

LinesOf(cmds, len, jobs) ==
    UNION {[cmds : [1..k -> cmds], ops : [1..(k - 1) -> Ops], job : jobs] : k \in 1..len}

CommandLines ==
    IF Family = "files"
      THEN LinesOf(FileCmds, MaxLen, {"compare"}) \cup LinesOf(StreamCmds, MaxLen - 1, {"compare"})
           \cup LinesOf(FileCmds, MaxLen - 1, {"direct", "benchmark"})
      ELSE [cmds : [1..MaxLen -> BareCmds], ops : [1..(MaxLen - 1) -> Ops], job : {"compare"}]

gvars ==
  <<g_pc, g_line, g_ws, g_stale, g_program, g_arms, g_initial, g_files, g_status, g_stdin,
    g_stream, g_result, g_accepted, g_rejected, g_committed, g_edits, g_timeouts>>

Graph == INSTANCE CommandGraph WITH
  Sources <- CommandLines, Paths <- {"i", "x", "y"}, Input <- "i", MAX_NODES <- MAX_NODES,
  MAX_PARALLEL <- 2, Repetitions <- Repetitions, MaxEdits <- MaxEdits, MaxTimeouts <- 1,
  pc <- g_pc, line <- g_line, ws <- g_ws, stale <- g_stale, program <- g_program, arms <- g_arms,
  initial <- g_initial, files <- g_files, status <- g_status, stdin <- g_stdin,
  stream <- g_stream, result <- g_result, accepted <- g_accepted, rejected <- g_rejected,
  committed <- g_committed, edits <- g_edits, timeouts <- g_timeouts

----------------------------------------------------------------------------
BundleCandidates == <<"base", "c1", "c2">>
BundlePolicies == <<"cold", "bounded", "full-history">>
BundlePriority == [base |-> 0, c1 |-> 0, c2 |-> 1]
BundleManifests ==
  LET good == [backend |-> "native-c", evidence |-> "silicon", repetitions |-> 1,
               budget |-> 2, limit |-> 1, trusted |-> <<TRUE, FALSE, FALSE>>,
               stage |-> "full", varied |-> TRUE]
  IN {good, [good EXCEPT !.stage = "pilot"],
      [good EXCEPT !.trusted = <<FALSE, TRUE, FALSE>>]}
BundleTarget == [family |-> "gemm", lineage |-> "a", m |-> 5, n |-> 5, k |-> 5,
                 working_set |-> "l1", composition |-> "plain"]
BundleSource == [BundleTarget EXCEPT !.lineage = "b", !.m = 4]
\* Of the bundles that change during a sync, those with a ready gate suffice: no
\* command after the seal looks at the analysis.
ReadyChanges == bundle'.foreign = 2 => bundle.analysis.gate

BundleTexts ==
  {[powers |-> 2, thermals |-> {"Nominal"}], [powers |-> 1, thermals |-> {"Nominal"}],
   [powers |-> 2, thermals |-> {"Nominal", "Heavy"}]}

----------------------------------------------------------------------------
\* A part that is not selected stays in one of its initial states.
ShellInit ==
  /\ part \in Parts
  /\ IF part = "graph" THEN TRUE ELSE g_line = CHOOSE l \in CommandLines : TRUE
  /\ Graph!Init /\ ShowcaseInit /\ Init

ShellNext ==
  /\ UNCHANGED part
  /\ \/ part = "graph" /\ Graph!Next /\ UNCHANGED <<showcase_vars, vars>>
     \/ part = "showcase" /\ ShowcaseNext /\ UNCHANGED <<gvars, vars>>
     \/ part = "bundle" /\ Next /\ ReadyChanges /\ UNCHANGED <<gvars, showcase_vars>>
     \/ \* Nobody calls again.
        part \in {"showcase", "bundle"}
          /\ UNCHANGED <<gvars, showcase_vars, vars>>

ShellSpec == ShellInit /\ [][ShellNext]_<<part, gvars, showcase_vars, vars>>

\* What is committed is what the line means on the workspace it was read from:
\* every command succeeded, and every published file has the content that
\* running the commands one after another gives (CommandGraph).
CommitSound == part = "graph" => Graph!CommitSound

\* ADR-0036: "a following `&&` node depends on every branch" of a fan-out, which
\* the compiler does not do (CommandGraph).
JoinWaits == part = "graph" => Graph!JoinWaits
=============================================================================
