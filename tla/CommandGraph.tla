---------------------------- MODULE CommandGraph ----------------------------
(***************************************************************************)
(* The command graph of the native shell (raveil/command_graph.py): a line *)
(* of commands joined by | && ; and ||| is compiled into a graph, run once  *)
(* in source order and once by ready sets on two private copies of the      *)
(* workspace, and its declared outputs are published only when the two      *)
(* agree. Nodes of one batch run concurrently on a bounded pool; the user   *)
(* keeps editing the workspace and may replace a tool.                      *)
(*                                                                          *)
(* A command is [tool, args, stdin, stdout]; a file's content is a sequence *)
(* of values. Five tools stand for the eighteen: a source (echo), readers   *)
(* (cat), filters of stdin (sort), and the two that write files (tee, cp).  *)
(***************************************************************************)
EXTENDS Integers, Sequences, SequencesExt, FiniteSetsExt

CONSTANTS Sources,      \* the lines typed and what is asked: [cmds, ops, job]
          Paths,        \* the virtual paths
          Input,        \* the path that exists before anything runs
          MAX_NODES, MAX_PARALLEL, Repetitions,
          MaxEdits, MaxTimeouts

VARIABLES pc, line, ws, stale, program, arms, initial, files, status, stdin, stream,
          result, accepted, rejected, committed, edits, timeouts

vars == <<pc, line, ws, stale, program, arms, initial, files, status, stdin, stream,
          result, accepted, rejected, committed, edits, timeouts>>

job == line.job
ABSENT == <<0>>
NONE == "none"
Scratch == "scratch"           \* a tool's temporary file: TMPDIR is the stage
Echoed == <<9>>
Stage == Paths \cup {Scratch}
Exists(fs, p) == fs[p] # ABSENT

---------------------------------------------------------------------------
(* The compiler. *)

(* What a tool reads and writes by name, from the positions of its operands. *)
_tool_paths(c) ==
    [reads  |-> IF c.tool = "cat" THEN Range(c.args)
                ELSE IF c.tool = "cp" THEN {c.args[1]} ELSE {},
     writes |-> IF c.tool = "tee" THEN Range(c.args)
                ELSE IF c.tool = "cp" THEN {c.args[2]} ELSE {}]

Redirect(p) == IF p = NONE THEN {} ELSE {p}
declared_writes(c) == _tool_paths(c).writes \cup Redirect(c.stdout)
declared_reads(c) == _tool_paths(c).reads \cup Redirect(c.stdin)

(* emit: how the operator before a command makes its dependencies. `previous *)
(* is what the next && or ; waits for: the fan-out so far, or the last node. *)
emit(state, k) ==
    LET op == IF k = 1 THEN NONE ELSE line.ops[k - 1]
        mode == IF op = "|" THEN "stream" ELSE IF op = "&&" THEN "success" ELSE "always"
        deps == IF op = "|" THEN {state.previous[Len(state.previous)]}
                ELSE IF op \in {"&&", ";"} THEN Range(state.previous) ELSE {}
    IN [nodes |-> Append(state.nodes, [cmd |-> line.cmds[k], mode |-> mode, deps |-> deps]),
        previous |-> IF op = "|||" THEN Append(state.previous, k) ELSE <<k>>]

Parsed == FoldLeft(emit, [nodes |-> <<>>, previous |-> <<>>], [k \in 1..Len(line.cmds) |-> k]).nodes

Compiled(nodes) ==
    LET reads == UNION {declared_reads(nodes[n].cmd) : n \in DOMAIN nodes}
        writes == UNION {declared_writes(nodes[n].cmd) : n \in DOMAIN nodes}
    IN [nodes |-> nodes,
        edges |-> {<<d, n>> \in (DOMAIN nodes) \X (DOMAIN nodes) : d \in nodes[n].deps},
        inputs |-> {p \in reads : Exists(ws, p)}, outputs |-> writes,
        admitted |-> /\ Len(nodes) <= MAX_NODES
                     /\ \A p \in reads : Exists(ws, p) \/ p \in writes
                     /\ \A p \in writes : ~Exists(ws, p)]

NoProgram == [nodes |-> <<>>, edges |-> {}, inputs |-> {}, outputs |-> {}, admitted |-> FALSE]

compile ==
    /\ pc = "typed"
    /\ program' = Compiled(Parsed)
    /\ pc' = IF program'.admitted THEN "compiled" ELSE "refused"
    /\ UNCHANGED <<line, ws, stale, arms, initial, files, status, stdin, stream, result,
                   accepted, rejected, committed, edits, timeouts>>

(* validate and _validate_executable, again before each execution: the tools *)
(* are the ones compiled in, the graph is topological, and its edges and     *)
(* files are those of its nodes.                                             *)
Executable ==
    /\ ~stale
    /\ \A n \in DOMAIN program.nodes : \A d \in program.nodes[n].deps : d < n
    /\ program.outputs = UNION {declared_writes(program.nodes[n].cmd) : n \in DOMAIN program.nodes}
    /\ program.inputs = UNION {declared_reads(program.nodes[n].cmd) : n \in DOMAIN program.nodes}
                        \ program.outputs

---------------------------------------------------------------------------
(* The stages: each arm copies the workspace separately. *)

Nodes == DOMAIN program.nodes
Arm == arms[1]
Copy == [p \in Stage |-> IF p = Scratch THEN ABSENT ELSE ws[p]]
Fresh == [n \in Nodes |-> "pending"]
Empty == [n \in Nodes |-> <<>>]

BeginArm ==
    /\ files' = initial'[Arm'] /\ status' = Fresh /\ stdin' = Empty /\ stream' = Empty

Execute ==
    /\ pc = "compiled"
    /\ IF ~Executable
         THEN pc' = "raised" /\ UNCHANGED <<arms, initial, files, status, stdin, stream>>
         ELSE \E order \in IF job = "direct" THEN {<<"direct">>}
                           ELSE IF job = "compare" THEN {<<"direct", "graph">>}
                           ELSE {<<"direct", "graph">>, <<"graph", "direct">>} :
                /\ arms' = order
                /\ initial' = [a \in {"direct", "graph"} |-> Copy]
                /\ IF job = "direct" THEN pc' = "run" /\ BeginArm
                                     ELSE pc' = "copy" /\ UNCHANGED <<files, status, stdin, stream>>
    /\ UNCHANGED <<line, ws, stale, program, result, accepted, rejected, committed, edits, timeouts>>

(* The second copy of the workspace, some time after the first. *)
_snapshot ==
    /\ pc = "copy"
    /\ initial' = [initial EXCEPT !["graph"] = Copy]
    /\ arms' = arms
    /\ BeginArm
    /\ pc' = "run"
    /\ UNCHANGED <<line, ws, stale, program, result, accepted, rejected, committed, edits, timeouts>>

---------------------------------------------------------------------------
(* Running the nodes of one arm. *)

Terminal == {"executed", "failed", "timeout", "skipped"}
Ended(n) == status[n] \in Terminal
Idle == \A n \in Nodes : status[n] = "pending" \/ Ended(n)
Pending == {n \in Nodes : status[n] = "pending"}

(* Source order: the next node alone, or with the nodes after it that depend *)
(* on nothing when it depends on nothing itself.                             *)
DirectBatch ==
    LET first == Min(Pending) IN
    {n \in Pending : n = first \/ \A k \in first..n : program.nodes[k].deps = {}}

(* Ready sets: every node whose dependencies have ended. *)
GraphBatch == {n \in Pending : \A d \in program.nodes[n].deps : Ended(d)}

Unmet(n) == program.nodes[n].mode \in {"success", "stream"}
            /\ \E d \in program.nodes[n].deps : status[d] # "executed"

StartBatch ==
    /\ pc = "run" /\ Idle /\ Pending # {}
    /\ LET batch == IF Arm = "direct" THEN DirectBatch ELSE GraphBatch IN
       /\ batch # {}
       /\ status' = [n \in Nodes |-> IF n \notin batch THEN status[n]
                                     ELSE IF Unmet(n) THEN "skipped" ELSE "queued"]
    /\ UNCHANGED <<pc, line, ws, stale, program, arms, initial, files, stdin, stream, result,
                   accepted, rejected, committed, edits, timeouts>>

(* A worker takes the nodes in order: it checks the tool again, reads a      *)
(* redirected input, and refuses a redirected output that is already there.  *)
Busy == {n \in Nodes : status[n] \in {"started", "ran"}}
StartNode(n) ==
    /\ pc = "run" /\ status[n] = "queued" /\ Cardinality(Busy) < MAX_PARALLEL
    /\ \A k \in 1..(n - 1) : status[k] # "queued"
    /\ LET c == program.nodes[n].cmd
           missing == c.stdin # NONE /\ ~Exists(files, c.stdin)
           collision == c.stdout # NONE /\ Exists(files, c.stdout)
           piped == program.nodes[n].mode = "stream"
       IN IF stale \/ missing \/ collision
            THEN pc' = "raised" /\ UNCHANGED <<status, stdin>>
            ELSE /\ status' = [status EXCEPT ![n] = "started"]
                 /\ stdin' = [stdin EXCEPT ![n] =
                        IF c.stdin # NONE THEN files[c.stdin]
                        ELSE IF piped THEN stream[Max(program.nodes[n].deps)] ELSE <<>>]
                 /\ pc' = pc
    /\ UNCHANGED <<line, ws, stale, program, arms, initial, files, stream, result,
                   accepted, rejected, committed, edits, timeouts>>

(* The tool itself: its exit, what it prints and what it writes by name. *)
Tool(c, fs, in) ==
    IF c.tool = "echo" THEN [ok |-> TRUE, out |-> Echoed, fs |-> fs]
    ELSE IF c.tool = "cat"
      THEN [ok |-> \A p \in Range(c.args) : Exists(fs, p), fs |-> fs,
            out |-> FlattenSeq([k \in DOMAIN c.args |-> IF Exists(fs, c.args[k]) THEN fs[c.args[k]] ELSE <<>>])]
    ELSE IF c.tool = "sort" THEN [ok |-> TRUE, out |-> in, fs |-> fs]
    ELSE IF c.tool = "tee"
      THEN [ok |-> TRUE, out |-> in, fs |-> [p \in DOMAIN fs |-> IF p \in Range(c.args) THEN in ELSE fs[p]]]
    ELSE [ok |-> Exists(fs, c.args[1]), out |-> <<>>,
          fs |-> IF Exists(fs, c.args[1]) THEN [fs EXCEPT ![c.args[2]] = fs[c.args[1]]] ELSE fs]

(* The process runs, or outlives the limit and is killed with its group,     *)
(* which leaves its temporary file and prints nothing.                       *)
RunNode(n) ==
    /\ pc = "run" /\ status[n] = "started"
    /\ \/ LET r == Tool(program.nodes[n].cmd, files, stdin[n]) IN
          /\ files' = r.fs
          /\ stream' = [stream EXCEPT ![n] = r.out]
          /\ status' = [status EXCEPT ![n] = IF r.ok THEN "ran" ELSE "failed"]
          /\ UNCHANGED timeouts
       \/ /\ timeouts < MaxTimeouts
          /\ timeouts' = timeouts + 1
          /\ files' = [files EXCEPT ![Scratch] = Echoed]
          /\ status' = [status EXCEPT ![n] = "timeout"]
          /\ UNCHANGED stream
    /\ UNCHANGED <<pc, line, ws, stale, program, arms, initial, stdin, result,
                   accepted, rejected, committed, edits>>

(* A redirected output is written by the executor after the tool ended. *)
FinishNode(n) ==
    /\ pc = "run" /\ status[n] = "ran"
    /\ status' = [status EXCEPT ![n] = "executed"]
    /\ LET to == program.nodes[n].cmd.stdout IN
       IF to = NONE THEN UNCHANGED <<files, stream>>
       ELSE files' = [files EXCEPT ![to] = stream[n]] /\ stream' = [stream EXCEPT ![n] = <<>>]
    /\ UNCHANGED <<pc, line, ws, stale, program, arms, initial, stdin, result,
                   accepted, rejected, committed, edits, timeouts>>

(* _finish: undeclared changes and missing outputs overrule the first node   *)
(* that did not execute; stdout is that of the nodes nothing depends on.     *)
_finish ==
    LET unexpected == {p \in Stage : files[p] # initial[Arm][p]} \ program.outputs
        missing == {p \in program.outputs : ~Exists(files, p)}
        bad == {n \in Nodes : status[n] # "executed"}
        last == SelectSeq([n \in Nodes |-> n], LAMBDA n : \A e \in program.edges : e[1] # n)
    IN [status |-> IF unexpected \cup missing # {} THEN "invalid-mutation"
                   ELSE IF bad # {} THEN status[Min(bad)] ELSE "executed",
        stdout |-> FlattenSeq([k \in DOMAIN last |-> stream[last[k]]]),
        outputs |-> [p \in program.outputs |-> files[p]],
        timedout |-> \E n \in Nodes : status[n] = "timeout"]

NoResult == [status |-> NONE, stdout |-> <<>>, outputs |-> [p \in {} |-> <<>>], timedout |-> FALSE]

EndArm ==
    /\ pc = "run" /\ Idle /\ Pending = {}
    /\ result' = [result EXCEPT ![Arm] = _finish]
    /\ IF Len(arms) = 1
         THEN pc' = "decide" /\ UNCHANGED <<arms, initial, files, status, stdin, stream>>
         ELSE arms' = Tail(arms) /\ initial' = initial /\ BeginArm /\ pc' = "run"
    /\ UNCHANGED <<line, ws, stale, program, accepted, rejected, committed, edits, timeouts>>

---------------------------------------------------------------------------
(* The decision. *)

Mutant_differences == {}

_differences ==
    {f \in {"stdout", "status", "outputs"} : result["direct"][f] # result["graph"][f]}

semantic_valid ==
    IF job = "direct" THEN result["direct"].status = "executed"
    ELSE /\ _differences = {}
         /\ result["direct"].status = "executed" /\ result["graph"].status = "executed"

Published == IF job = "direct" THEN result["direct"].outputs ELSE result["graph"].outputs

(* publish_many refuses as a whole when an output exists by now. *)
Decide ==
    /\ pc = "decide" /\ job # "benchmark"
    /\ LET clear == \A p \in program.outputs : ~Exists(ws, p) IN
       /\ committed' = (semantic_valid /\ clear)
       /\ ws' = IF committed' THEN [p \in Paths |-> IF p \in program.outputs THEN Published[p] ELSE ws[p]]
                ELSE ws
       /\ pc' = IF semantic_valid /\ ~clear THEN "raised" ELSE "reported"
    /\ UNCHANGED <<line, stale, program, arms, initial, files, status, stdin, stream, result,
                   accepted, rejected, edits, timeouts>>

(* benchmark: a pair counts only when both arms are valid; nothing is       *)
(* published, and statistics need every repetition.                          *)
TimedOut == "timeout" \in {result["direct"].status, result["graph"].status}
Sample ==
    /\ pc = "decide" /\ job = "benchmark"
    /\ accepted' = accepted + (IF semantic_valid /\ ~TimedOut THEN 1 ELSE 0)
    /\ rejected' = rejected + (IF semantic_valid /\ ~TimedOut THEN 0 ELSE 1)
    /\ pc' = IF accepted' + rejected' = Repetitions THEN "reported" ELSE "compiled"
    /\ UNCHANGED <<line, ws, stale, program, arms, initial, files, status, stdin, stream, result,
                   committed, edits, timeouts>>
comparison_valid == rejected = 0 /\ accepted = Repetitions

---------------------------------------------------------------------------
(* The user, at any moment before the outcome. *)
Active == pc \notin {"reported", "raised", "refused"}
Edit ==
    /\ Active /\ edits < MaxEdits /\ edits' = edits + 1
    /\ \E p \in Paths : ws' = [ws EXCEPT ![p] = <<edits + 2>>]
    /\ UNCHANGED <<pc, line, stale, program, arms, initial, files, status, stdin, stream, result,
                   accepted, rejected, committed, timeouts>>
ReplaceTool ==
    /\ Active /\ ~stale /\ edits < MaxEdits /\ edits' = edits + 1
    /\ stale' = TRUE
    /\ UNCHANGED <<pc, line, ws, program, arms, initial, files, status, stdin, stream, result,
                   accepted, rejected, committed, timeouts>>

Over == ~Active /\ UNCHANGED vars

Init ==
    /\ pc = "typed" /\ line \in Sources
    /\ ws = [p \in Paths |-> IF p = Input THEN <<1>> ELSE ABSENT]
    /\ stale = FALSE /\ program = NoProgram /\ arms = <<>>
    /\ initial = [a \in {"direct", "graph"} |-> [p \in Stage |-> ABSENT]]
    /\ files = [p \in Stage |-> ABSENT]
    /\ status = <<>> /\ stdin = <<>> /\ stream = <<>>
    /\ result = [a \in {"direct", "graph"} |-> NoResult]
    /\ accepted = 0 /\ rejected = 0 /\ committed = FALSE /\ edits = 0 /\ timeouts = 0

Next ==
    \/ compile \/ Execute \/ _snapshot \/ StartBatch
    \/ \E n \in Nodes : StartNode(n) \/ RunNode(n) \/ FinishNode(n)
    \/ EndArm \/ Decide \/ Sample \/ Edit \/ ReplaceTool \/ Over

Spec == Init /\ [][Next]_vars
---------------------------------------------------------------------------
(* What the line means: its commands one after another.                      *)
Meaning ==
    LET step(s, n) ==
          LET node == program.nodes[n]
              c == node.cmd
              in == IF c.stdin # NONE THEN s.fs[c.stdin]
                    ELSE IF node.mode = "stream" THEN s.out[n - 1] ELSE <<>>
              r == Tool(c, s.fs, in)
          IN [fs |-> IF c.stdout = NONE THEN r.fs ELSE [r.fs EXCEPT ![c.stdout] = r.out],
              out |-> Append(s.out, IF c.stdout = NONE THEN r.out ELSE <<>>),
              ok |-> s.ok /\ r.ok]
    IN FoldLeft(step, [fs |-> initial["direct"], out |-> <<>>, ok |-> TRUE], [n \in Nodes |-> n])

(* No command of a fan-out touches a file that another one writes. *)
Touches(n) == declared_reads(program.nodes[n].cmd) \cup declared_writes(program.nodes[n].cmd)
FanoutIndependent ==
    \A m, n \in Nodes : m < n /\ (\A k \in m..n : program.nodes[k].deps = {})
        => /\ declared_writes(program.nodes[m].cmd) \cap Touches(n) = {}
           /\ declared_writes(program.nodes[n].cmd) \cap Touches(m) = {}

(* What is committed is what the line means on the workspace it was read     *)
(* from: every command succeeded and every published file has the content    *)
(* that running the commands one after another gives, although the graph arm *)
(* may run a command before one that precedes it, edits fall between the two *)
(* copies, and tools are killed. For lines whose fan-outs are independent.   *)
(* A benchmark publishes nothing, and reports statistics only when every     *)
(* pair of it ran to the end.                                                *)
CommitSound ==
    /\ committed /\ FanoutIndependent =>
          Meaning.ok /\ \A p \in program.outputs : Published[p] = Meaning.fs[p]
    /\ committed => job # "benchmark" /\ ~(\E a \in Range(arms) : result[a].timedout)
    /\ pc = "reported" /\ comparison_valid => timeouts = 0

(* docs/guides/NATIVE_COMMAND_GRAPH.md: "A mismatch, timeout, stale tool,    *)
(* undeclared change, or collision keeps graph output uncommitted": no       *)
(* committed line redirects two commands to one file. Not so of the code: a  *)
(* node looks for its output only when it starts.                            *)
CollisionUncommitted ==
    committed => \A m, n \in Nodes : m # n =>
        \/ program.nodes[m].cmd.stdout = NONE
        \/ program.nodes[m].cmd.stdout # program.nodes[n].cmd.stdout

(* ADR-0036: "a following `&&` node depends on every branch" of a fan-out:   *)
(* a command after && starts only when every command since the previous ; or *)
(* && has executed.                                                          *)
Branches(n) ==
    {m \in 1..(n - 1) : \A k \in m..(n - 2) : line.ops[k] \in {"|", "|||"}}
JoinWaits ==
    pc = "run" => \A n \in Nodes :
        n > 1 /\ line.ops[n - 1] = "&&" /\ status[n] \in {"queued", "started", "ran", "executed"}
            => \A m \in Branches(n) : status[m] = "executed"
=============================================================================
