----------------------------- MODULE ProjectRuns -----------------------------
(* The project workspace of raveil/project.py: recipes and inputs that the   *)
(* user keeps editing, runs that snapshot them, execute the snapshot and     *)
(* seal a record, and the readers of a sealed run: load_run, garden, output, *)
(* the export of selected files (raveil/project_export.py) and the           *)
(* prerequisite report (raveil/project_preflight.py).                        *)
(* One command runs at a time (the workspace is single-writer); the editor   *)
(* acts between any two of its steps, and a stray edit may hit a saved run.  *)
EXTENDS Naturals, Sequences, FiniteSets

CONSTANTS MaxFileEdits, MaxRuns, MaxTampers, MAX_ENTRIES

VARIABLES
    recipes,   \* recipe name -> content
    inputs,    \* file of inputs/ -> content
    runs,      \* the directories of runs/, in creation order
    task,      \* the command in progress
    reviewed,  \* the export preview the user last accepted
    bundle,    \* the exported file
    report,    \* the last prerequisite report
    displayed, \* what garden or output last displayed
    fileEdits, tampers

runvars == <<recipes, inputs, runs, task, reviewed, bundle, report, displayed, fileEdits, tampers>>

(* File contents are sequences of numbers; a file that is absent is <<>>, an *)
(* unreadable one <<0>>.                                                     *)
Absent == <<>>
Bad == <<0>>
Files == {"data", "descriptor", "text"}
Order == [data |-> 1, descriptor |-> 2, text |-> 3]
FirstOf(files) == CHOOSE f \in files : \A g \in files : Order[f] <= Order[g]
Present == {f \in Files : inputs[f] # Absent}
Valid(content) == content \notin {Absent, Bad}

Kind == [grid |-> "graph-device", logs |-> "command", gemm |-> "gemm"]
Names == DOMAIN Kind
Backends == {"native", "rtl-sim", "sonatine-qemu"}

(* Project.recipe, then the backend admission of Project.run.                *)
Admitted(n, backend) ==
    /\ recipes[n] # Bad
    /\ (backend = "rtl-sim") <=> (Kind[n] = "graph-device")
    /\ backend = "sonatine-qemu" => Kind[n] = "gemm"

(* A command run keeps two copies of every input: the entry budget is        *)
(* checked before the run directory exists.                                  *)
WithinBudget(n) == Kind[n] = "command" => 2 * Cardinality(Present) <= MAX_ENTRIES

(* The files a kind of recipe compiles from, and what compilation requires.  *)
Needs(kind) ==
    CASE kind = "graph-device" -> {"descriptor", "data"}
      [] kind = "command" -> {"text"}
      [] kind = "gemm" -> {}

Compiles(kind, contents) == \A f \in Needs(kind) : Valid(contents[f])

(* project_preflight.check: what `project check` reports as passing.         *)
check(n, backend) == Admitted(n, backend) /\ Compiles(Kind[n], inputs)

(* The result of executing a recipe on file contents.                        *)
Oracle(kind, recipe, contents) ==
    recipe \o (IF kind = "graph-device" THEN contents["descriptor"] \o contents["data"]
               ELSE IF kind = "command" THEN contents["text"] ELSE <<>>)

Artifacts == Files \cup {"recipe", "graph", "stage", "receipt", "output"}
NoContents == [f \in Files |-> Absent]
NoRecord == [status |-> "none"]
HalfRecord == [status |-> "half"]
NoTask == [cmd |-> "none"]
NoView == [of |-> 0]

RunsInit ==
    /\ recipes = [n \in Names |-> <<1>>]
    /\ inputs = [f \in Files |-> <<1>>]
    /\ runs = <<>>
    /\ task = NoTask
    /\ reviewed = NoView /\ bundle = NoView /\ displayed = NoView
    /\ report = [ok |-> FALSE]
    /\ fileEdits = 0 /\ tampers = 0

-----------------------------------------------------------------------------
(* The editor, and stray edits of saved runs.                                *)

(* Nothing reads inputs/ or recipes/ once the last run has its snapshot.     *)
EditFiles ==
    /\ fileEdits < MaxFileEdits /\ fileEdits' = fileEdits + 1
    /\ Len(runs) < MaxRuns \/ (task.cmd = "run" /\ task.pc = "snapshot")
    /\ \/ \E f \in Files, content \in {Absent, Bad, <<2>>} :
             content # inputs[f] /\ inputs' = [inputs EXCEPT ![f] = content]
             /\ UNCHANGED recipes
       \/ \E n \in Names, content \in {Bad, <<2>>} :
             content # recipes[n] /\ recipes' = [recipes EXCEPT ![n] = content]
             /\ UNCHANGED inputs
    /\ UNCHANGED <<runs, task, reviewed, bundle, report, displayed, tampers>>

Tamper ==
    /\ tampers < MaxTampers /\ tampers' = tampers + 1
    /\ \E i \in DOMAIN runs :
          /\ \/ \E a \in Artifacts :
                   /\ runs[i].dir[a] # Absent
                   /\ runs' = [runs EXCEPT ![i].dir[a] = <<9>>, ![i].touched = TRUE]
             \/ /\ runs[i].record.status = "failed"
                /\ runs' = [runs EXCEPT ![i].record.status = "succeeded"]
    /\ UNCHANGED <<recipes, inputs, task, reviewed, bundle, report, displayed, fileEdits>>

(* The prerequisite report: read-only, on the live files.                    *)
Report(n, backend) ==
    /\ task = NoTask /\ Len(runs) < MaxRuns
    /\ report' = [ok |-> check(n, backend), of |-> n, at |-> fileEdits]
    /\ UNCHANGED <<recipes, inputs, runs, task, reviewed, bundle, displayed, fileEdits, tampers>>

-----------------------------------------------------------------------------
(* Project.run.                                                              *)

Running(pc) == task.cmd = "run" /\ task.pc = pc
Current == runs[Len(runs)]

StartRun(n, backend) ==
    /\ task = NoTask /\ Len(runs) < MaxRuns
    /\ Admitted(n, backend) /\ WithinBudget(n)
    /\ runs' = Append(runs,
          [kind |-> Kind[n], record |-> NoRecord, seal |-> NoRecord, touched |-> FALSE,
           dir |-> [[a \in Artifacts |-> Absent] EXCEPT !["recipe"] = recipes[n]]])
    /\ task' = [cmd |-> "run", name |-> n, failed |-> "no", pc |-> IF Kind[n] = "gemm" THEN "compile" ELSE "snapshot",
               recipe |-> recipes[n], names |-> Present,
               todo |-> Present,
               manifest |-> NoContents, status |-> "failed",
               outputs |-> Absent, artifacts |-> Absent]
    /\ UNCHANGED <<recipes, inputs, reviewed, bundle, report, displayed, fileEdits, tampers>>

(* Any caught error ends the execution; the record keeps status "failed".    *)
Fail == task' = [task EXCEPT !.pc = "capture", !.failed = task.pc] /\ UNCHANGED runs

(* tree: one file at a time, in sorted order; an entry that vanished or a    *)
(* directory whose entries changed refuses the snapshot.                     *)
Snapshot ==
    /\ Running("snapshot")
    /\ LET f == FirstOf(task.todo) IN
       IF task.todo = {}
         THEN IF task.names = Present THEN task' = [task EXCEPT !.pc = "compile"] /\ UNCHANGED runs
                                     ELSE Fail
         ELSE IF inputs[f] = Absent THEN Fail
         ELSE /\ runs' = [runs EXCEPT ![Len(runs)].dir[f] = inputs[f]]
              /\ task' = [task EXCEPT !.manifest[f] = inputs[f], !.todo = @ \ {f}]
    /\ UNCHANGED <<recipes, inputs, reviewed, bundle, report, displayed, fileEdits, tampers>>

Saved(i) == [f \in Files |-> runs[i].dir[f]]

(* A graph-device run compiles only bytes whose digest the snapshot's        *)
(* manifest names; a command run compiles in a second copy of the snapshot.  *)
Compile ==
    /\ Running("compile")
    /\ LET kind == Current.kind
           saved == Saved(Len(runs))
       IN IF /\ Compiles(kind, saved)
             /\ kind = "graph-device" => \A f \in Needs(kind) : saved[f] = task.manifest[f]
            THEN /\ runs' = [runs EXCEPT ![Len(runs)].dir =
                       [@ EXCEPT !["graph"] = IF kind = "graph-device" THEN saved["descriptor"] ELSE <<1>>,
                                 !["stage"] = IF kind = "command" THEN saved["text"] ELSE <<1>>]]
                 /\ task' = [task EXCEPT !.pc = "execute"]
            ELSE Fail
    /\ UNCHANGED <<recipes, inputs, reviewed, bundle, report, displayed, fileEdits, tampers>>

(* The executor works on what compilation read. A graph-device run succeeds  *)
(* only if the snapshot is still the manifest when the executor returns.     *)
Execute ==
    /\ Running("execute")
    /\ LET kind == Current.kind
           read == IF kind = "command" THEN [task.manifest EXCEPT !["text"] = Current.dir["stage"]]
                   ELSE task.manifest
           out == Oracle(kind, task.recipe, read)
       IN \/ Fail
          \/ /\ kind = "graph-device" => Saved(Len(runs)) = task.manifest
             /\ runs' = [runs EXCEPT ![Len(runs)].dir =
                   [@ EXCEPT !["receipt"] = IF kind = "graph-device"
                                            THEN task.manifest["descriptor"] \o task.manifest["data"] \o out
                                            ELSE Absent,
                             !["output"] = out]]
             /\ task' = [task EXCEPT !.pc = "capture", !.status = "succeeded", !.outputs = out]
    /\ UNCHANGED <<recipes, inputs, reviewed, bundle, report, displayed, fileEdits, tampers>>

(* The artifact manifest is taken before the record is written, so that the  *)
(* record and its checksum are not in it.                                    *)
Capture ==
    /\ Running("capture")
    /\ task' = [task EXCEPT !.pc = "record", !.artifacts = Current.dir]
    /\ UNCHANGED <<recipes, inputs, runs, reviewed, bundle, report, displayed, fileEdits, tampers>>

RunRecord ==
    [status |-> task.status, recipe |-> task.recipe, inputs |-> task.manifest,
     outputs |-> task.outputs, artifacts |-> task.artifacts]

WriteRecord ==
    /\ Running("record")
    /\ runs' = [runs EXCEPT ![Len(runs)].record = RunRecord]
    /\ task' = [task EXCEPT !.pc = "seal"]
    /\ UNCHANGED <<recipes, inputs, reviewed, bundle, report, displayed, fileEdits, tampers>>

(* record.sha256 holds the digest of the bytes the run wrote, not of what is *)
(* in the file by then.                                                      *)
Seal ==
    /\ Running("seal")
    /\ runs' = [runs EXCEPT ![Len(runs)].seal = RunRecord]
    /\ task' = NoTask
    /\ UNCHANGED <<recipes, inputs, reviewed, bundle, report, displayed, fileEdits, tampers>>

(* An interrupt or a crash ends the command wherever it is, also inside the  *)
(* write of record.json.                                                     *)
InterruptCommand ==
    /\ task # NoTask
    /\ task' = NoTask
    /\ \/ UNCHANGED runs
       \/ Running("record") /\ runs' = [runs EXCEPT ![Len(runs)].record = HalfRecord]
    /\ UNCHANGED <<recipes, inputs, reviewed, bundle, report, displayed, fileEdits, tampers>>

-----------------------------------------------------------------------------
(* Readers of saved runs.                                                    *)

(* load_run without the record's checksum.                                   *)
Mutant_load_run(i) ==
    /\ runs[i].record.status \in {"succeeded", "failed"}
    /\ runs[i].dir = runs[i].record.artifacts

load_run(i) ==
    /\ runs[i].record.status \in {"succeeded", "failed"}
    /\ runs[i].seal = runs[i].record
    /\ runs[i].dir = runs[i].record.artifacts

Open(cmd, i) ==
    /\ task = NoTask
    /\ load_run(i)
    /\ cmd \in {"garden", "output"} =>
          runs[i].record.status = "succeeded" /\ runs[i].kind = "graph-device"
    /\ task' = [cmd |-> cmd, pc |-> "opened", run |-> i, rec |-> runs[i].record, seen |-> <<>>]
    /\ UNCHANGED <<recipes, inputs, runs, reviewed, bundle, report, displayed, fileEdits, tampers>>

Reading(cmd, pc) == task.cmd = cmd /\ task.pc = pc
Close == task' = NoTask

(* garden: graph.json, receipt.json and the descriptor, each checked against *)
(* the record loaded first, then cross-checked.                              *)
GardenCapture ==
    /\ Reading("garden", "opened")
    /\ LET saved == runs[task.run].dir
           rec == task.rec
           receipt == saved["receipt"]
       IN IF /\ \A a \in {"graph", "receipt", "descriptor"} : saved[a] = rec.artifacts[a]
             /\ SubSeq(receipt, 3, Len(receipt)) \in {rec.outputs} \cap {rec.artifacts["output"]}
             /\ SubSeq(receipt, 1, 1) = rec.artifacts["descriptor"]
             /\ saved["graph"] = saved["descriptor"]
            THEN task' = [task EXCEPT !.pc = "captured",
                    !.seen = [graph |-> saved["graph"], descriptor |-> saved["descriptor"],
                              receipt |-> receipt]]
            ELSE Close
    /\ UNCHANGED <<recipes, inputs, runs, reviewed, bundle, report, displayed, fileEdits, tampers>>

GardenShow ==
    /\ Reading("garden", "captured")
    /\ Close
    /\ displayed' = IF load_run(task.run) /\ runs[task.run].record = task.rec
                THEN [of |-> task.run, view |-> "garden", seen |-> task.seen] ELSE displayed
    /\ UNCHANGED <<recipes, inputs, runs, reviewed, bundle, report, fileEdits, tampers>>

Output ==
    /\ Reading("output", "opened")
    /\ Close
    /\ LET value == runs[task.run].dir["output"] IN
       displayed' = IF value = task.rec.artifacts["output"] /\ value = task.rec.outputs
                THEN [of |-> task.run, view |-> "output", seen |-> value] ELSE displayed
    /\ UNCHANGED <<recipes, inputs, runs, reviewed, bundle, report, fileEdits, tampers>>

(* _capture: the manifest, then every member read and checked against it.    *)
CaptureMembers ==
    /\ task.cmd \in {"preview", "export"} /\ task.pc = "opened"
    /\ task' = [task EXCEPT !.pc = "captured", !.seen = runs[task.run].dir]
    /\ UNCHANGED <<recipes, inputs, runs, reviewed, bundle, report, displayed, fileEdits, tampers>>

(* The run is loaded and listed again before the preview is made. An export  *)
(* goes out only under the preview the user names, and never over a file.    *)
CaptureDone ==
    /\ task.cmd \in {"preview", "export"} /\ task.pc = "captured"
    /\ Close
    /\ LET unchanged == /\ load_run(task.run) /\ runs[task.run].record = task.rec
                        /\ runs[task.run].dir = task.seen
           preview == [of |-> task.run, record |-> task.rec, files |-> task.seen]
       IN /\ reviewed' = IF task.cmd = "preview" /\ unchanged THEN preview ELSE reviewed
          /\ bundle' = IF /\ task.cmd = "export" /\ unchanged
                          /\ preview = reviewed /\ bundle = NoView
                       THEN [of |-> task.run, preview |-> reviewed, output |-> task.seen["output"]]
                       ELSE bundle
    /\ UNCHANGED <<recipes, inputs, runs, report, displayed, fileEdits, tampers>>

RunsNext ==
    \/ EditFiles \/ Tamper
    \/ \E n \in Names, b \in Backends : StartRun(n, b) \/ Report(n, b)
    \/ Snapshot \/ Compile \/ Execute \/ Capture \/ WriteRecord \/ Seal \/ InterruptCommand
    \/ \E i \in DOMAIN runs, cmd \in {"garden", "output", "preview", "export"} : Open(cmd, i)
    \/ GardenCapture \/ GardenShow \/ Output \/ CaptureMembers \/ CaptureDone

RunsSpec == RunsInit /\ [][RunsNext]_runvars

-----------------------------------------------------------------------------
(* A run that loads as succeeded has the output of its recorded recipe on    *)
(* its recorded inputs, whatever was edited meanwhile; for a command run,    *)
(* unless its own directory was edited while it ran.                         *)
LoadsExact ==
    \A i \in DOMAIN runs :
        /\ load_run(i) /\ runs[i].record.status = "succeeded"
        /\ ~(runs[i].kind = "command" /\ runs[i].touched)
        => /\ Compiles(runs[i].kind, runs[i].record.inputs)
           /\ runs[i].record.outputs =
                 Oracle(runs[i].kind, runs[i].record.recipe, runs[i].record.inputs)

(* What garden shows is one consistent run: the program of the descriptor    *)
(* and the receipt of that program's output on the recorded input; what      *)
(* output shows is the recorded output.                                      *)
ViewsExact ==
    displayed # NoView =>
        LET rec == runs[displayed.of].seal IN
        IF displayed.view = "output" THEN displayed.seen = Oracle("graph-device", rec.recipe, rec.inputs)
        ELSE /\ displayed.seen.graph = displayed.seen.descriptor
             /\ displayed.seen.descriptor = rec.inputs["descriptor"]
             /\ displayed.seen.receipt = rec.inputs["descriptor"] \o rec.inputs["data"]
                    \o Oracle("graph-device", rec.recipe, rec.inputs)

(* An exported file holds what the user reviewed, and that is what the run   *)
(* recorded before anything touched it.                                      *)
ExportsReviewed ==
    bundle # NoView =>
        /\ bundle.output = bundle.preview.files["output"]
        /\ bundle.output = runs[bundle.of].seal.artifacts["output"]

(* What `project check` passed, `project run` snapshots and compiles, unless *)
(* something was edited in between.                                          *)
ChecksHold ==
    task.cmd = "run" /\ task.failed \in {"snapshot", "compile"} =>
        ~(report.ok /\ report.of = task.name /\ report.at = fileEdits /\ ~Current.touched)

(* Saved project runs tell the truth about what ran, whoever reads them.     *)
ProjectSound == LoadsExact /\ ViewsExact /\ ExportsReviewed /\ ChecksHold

=============================================================================
