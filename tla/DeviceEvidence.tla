--------------------------- MODULE DeviceEvidence ---------------------------
(***************************************************************************)
(* Evidence directories of the graph device: prepare(), the simulator run  *)
(* in its container, the finalizers that turn a directory into an          *)
(* append-once receipt, and the presenters that print PASS.                *)
(*                                                                         *)
(*   mvp, schedule    graph_device_mvp.py, graph_device_schedule.py: one   *)
(*                    directory, two receipts, the second on the first     *)
(*   affine, dag      graph_device_affine.py, graph_device_dag.py          *)
(*   selected         graph_device_selected.py, shown by graph_device_run  *)
(*   request, pair    graph_device_axi4lite_request.py, shown by           *)
(*                    graph_device_run and graph_device_runtime_pair       *)
(*                                                                         *)
(* Every command is a process that reads and writes one file at a time.    *)
(* Beside it the sources may be edited, the simulator may be run into the  *)
(* same directory again, and any process may be killed.  A file is its     *)
(* digest: Result(v) is what the program of version v demands of an oracle, *)
(* an output or a trace (DeviceTrace says what that is for a trace),       *)
(* "wrong" anything else that parses.                                      *)
(***************************************************************************)
EXTENDS Integers, Sequences, FiniteSets

CONSTANTS Procs,          \* process slots
          Kinds,          \* kinds of directory exercised
          Requests,       \* submissions that can be asked for
          MaxStarted,     \* commands started
          MaxSimulations, \* simulator runs in the first directory
          MaxChanges      \* edits of the source tree

ASSUME EvidenceConstants == Kinds \subseteq {"schedule", "affine", "dag", "selected", "request"}

VARIABLES ver,            \* version of the source tree and descriptors, "v0" or "v1"
          evidence,       \* the two directories
          receipts,       \* the receipt files of each directory
          procs,
          reports,        \* what presenters printed
          started, simulations, changes

evars == <<ver, evidence, receipts, procs, reports, started, simulations, changes>>

EvidenceDirs == {1, 2}
Layers == {"mvp", "schedule", "affine", "dag", "selected", "request"}
Files == {"artifact", "oracle", "output", "trace", "simulator"}
Nothing == [f \in Files |-> "none"]
NoReceipt == [state |-> "absent", request |-> "none", body |-> Nothing, lower |-> Nothing,
              quiet |-> TRUE]
Torn == [NoReceipt EXCEPT !.state = "torn"]
NoDir == [kind |-> "none", request |-> "none", files |-> Nothing, traffic |-> FALSE,
          marker |-> "none", ready |-> FALSE]
\* layer and asked: what the command is for.  checked, named: contents compared, and
\* contents whose digest goes into the receipt.  body, first, lower: receipts read.
\* quiet: nothing it reads was changed by anyone else since it started.
Idle == [op |-> "idle", dir |-> 1, layer |-> "none", asked |-> <<>>, todo |-> <<>>,
         checked |-> Nothing, named |-> Nothing, lower |-> Nothing, body |-> Nothing,
         first |-> Nothing, quiet |-> TRUE, put |-> Nothing]
Result(v) == IF v = "v0" THEN "right" ELSE "right1"

Do(a) == [do |-> a, file |-> "none"]
On(a, f) == [do |-> a, file |-> f]

-----------------------------------------------------------------------------
\* The commands, as the order of their reads and writes.
\*   check f   read f and compare it with what the artifact read before demands (the
\*             artifact itself: with what compiles now; its digest is the receipt's)
\*   again f   the same against the descriptors as they are now
\*   shown f   the same against the descriptor that was captured, an admitted one
\*   equal f   read f and compare it with the directory's oracle file
\*   bound f   hash f and compare it with the receipt read before
\*   name f    read f, again, and put its digest into the receipt
\*   verify f  one read, compared and named
\*   exists    refuse when the receipt file exists
\*   create    open the receipt file, truncating it;  exclusive  refuse then too
\*   write     its bytes
\* Artifact and oracles are not written again after prepare(), so second reads of
\* them are left out; an output stands for the device's and the fallback's.

prepare == <<Do("empty"), On("put", "artifact"), On("put", "oracle")>>

\* Each layer prepares the one below and then compiles its own artifact and oracles;
\* those are the ones its finalizer reads.
SchedulePrepare == prepare \o <<On("put", "artifact"), Do("ready")>>
AffinePrepare == prepare \o <<On("put", "artifact"), On("put", "oracle"), Do("ready")>>
DagPrepare == prepare \o <<On("put", "artifact"), On("put", "oracle"), Do("ready")>>
SelectedPrepare == <<Do("admit")>> \o DagPrepare
RequestPrepare == <<Do("admit")>> \o DagPrepare

finalize == <<On("check", "artifact"), On("equal", "output"), On("name", "output"),
              On("name", "simulator"), Do("exists"), Do("create"), Do("write")>>

\* Every identity of the receipt below is hashed again.
_validate_graph_device_receipt ==
  <<On("check", "artifact"), On("bound", "artifact"), On("bound", "simulator"),
    On("equal", "output"), On("bound", "output")>>
Mutant_ScheduleFinalize ==
  <<Do("lower"), On("check", "artifact"), On("check", "trace"), Do("lower_again"),
    On("name", "trace"), Do("exists"), Do("create"), Do("write")>>
ScheduleFinalize ==
  <<Do("lower")>> \o _validate_graph_device_receipt
  \o <<On("check", "trace"), Do("lower_again"), On("name", "trace"), Do("exists"),
       Do("create"), Do("write")>>

\* The oracle file is compared with a recomputation; the trace is not named.
AffineFinalize ==
  <<Do("exists"), On("check", "artifact"), On("equal", "output"), On("check", "oracle"),
    On("name", "output"), On("check", "trace"), On("name", "simulator"),
    Do("create"), Do("write")>>

DagFinalize ==
  <<Do("exists"), On("check", "artifact"), On("check", "trace"), On("equal", "output"),
    On("name", "output"), On("name", "simulator"), On("name", "trace"),
    Do("create"), Do("write")>>

_expected_receipt ==
  <<Do("admit"), On("check", "artifact"), On("again", "oracle"), On("again", "output"),
    On("name", "simulator"), On("check", "trace")>>
SelectedFinalize == _expected_receipt \o <<Do("exclusive"), Do("write")>>

_expected ==
  <<Do("admit"), On("check", "artifact"), On("again", "oracle"), On("name", "simulator"),
    On("verify", "output"), On("verify", "trace")>>
RequestFinalize == _expected \o <<Do("exclusive"), Do("write")>>

\* The presenters.  Playable reads the receipt, copies the directory file by file,
\* and finalizes the copy.
validate == <<Do("receipt"), On("check", "artifact"), On("bound", "artifact")>>
_revalidate_raw_evidence ==
  <<On("copy", "output"), On("copy", "trace"), On("copy", "simulator"), Do("finalize_copy"),
    Do("report")>>
Playable == validate \o _revalidate_raw_evidence

validate_receipt == _expected_receipt \o <<Do("receipt"), Do("same")>>
_verified_descriptor == <<Do("admit")>>
_trace_read_again == <<On("shown", "trace")>>
run == validate_receipt \o <<Do("admit"), Do("asked")>> \o _verified_descriptor
       \o _trace_read_again \o <<Do("report")>>

Mutant_Verify == _expected \o <<Do("receipt"), Do("same")>>
Verify == _expected \o <<Do("receipt"), Do("same"), Do("asked")>>
_run_axi4lite_request == <<Do("admit")>> \o Verify \o <<Do("report")>>

\* Both requests, one after the other, then the simulator of the marker and the
\* rejected request's directory.
run_pair == <<Do("admit")>> \o Verify \o <<Do("second")>> \o Verify
            \o <<Do("one_simulator"), Do("report")>>

LayersOf(k) == IF k = "schedule" THEN {"mvp", "schedule"} ELSE {k}
FinalizerOf(l) == CASE l = "mvp" -> finalize
                    [] l = "schedule" -> ScheduleFinalize
                    [] l = "affine" -> AffineFinalize
                    [] l = "dag" -> DagFinalize
                    [] l = "selected" -> SelectedFinalize
                    [] OTHER -> RequestFinalize
PrepareOf(k) == CASE k = "schedule" -> SchedulePrepare
                  [] k = "affine" -> AffinePrepare
                  [] k = "dag" -> DagPrepare
                  [] k = "selected" -> SelectedPrepare
                  [] OTHER -> RequestPrepare

-----------------------------------------------------------------------------
\* One file operation of a command.

\* The catalogue fixes the descriptor bytes: only those of v0 are admitted.
admit == ver = "v0"

\* An artifact embeds the identity of the sources and descriptors it was compiled from.
compile_artifact == ver
validate_artifact(content) == content = compile_artifact

_rejected_before_axi == ~evidence[1].traffic

File(c, f) == evidence[c.dir].files[f]
Receipt(c) == receipts[c.dir][c.layer]
Base(c) == receipts[c.dir]["mvp"]

\* Whether it lets the command go on.
Passes(c, s) ==
  CASE s.do = "empty" -> evidence[c.dir].kind = "none"
    [] s.do = "admit" -> admit
    [] s.do = "check" /\ s.file = "artifact" -> validate_artifact(File(c, "artifact"))
    [] s.do = "check" /\ s.file # "artifact" -> File(c, s.file) = Result(c.checked["artifact"])
    [] s.do \in {"again", "verify"} -> File(c, s.file) = Result(ver)
    [] s.do = "shown" -> File(c, s.file) = Result("v0")
    [] s.do = "equal" -> File(c, s.file) # "none" /\ File(c, s.file) = File(c, "oracle")
    [] s.do = "bound" -> File(c, s.file) = c.body[s.file]
    [] s.do = "name" -> File(c, s.file) # "none"
    [] s.do = "lower" -> Base(c).state = "whole"
    [] s.do = "lower_again" -> Base(c).state # "absent"
    [] s.do \in {"exists", "exclusive"} -> Receipt(c).state = "absent"
    [] s.do = "receipt" -> Receipt(c).state = "whole"
    [] s.do = "same" -> c.body = c.named
    [] s.do = "asked" -> evidence[c.dir].request = c.asked[1]
    [] s.do = "one_simulator" -> /\ c.first["simulator"] = evidence[1].marker
                                 /\ c.body["simulator"] = evidence[1].marker
                                 /\ _rejected_before_axi
    [] s.do = "finalize_copy" -> /\ validate_artifact(c.named["artifact"])
                                 /\ c.named["trace"] = Result(c.named["artifact"])
                                 /\ c.named["output"] = File(c, "oracle")
                                 /\ c.named = c.body
    [] OTHER -> TRUE

\* The command's memory after it, one field after the other.
Reads(s) == s.do \in {"check", "again", "shown", "equal", "verify"}
Identifies(s) == s.do \in {"name", "copy", "verify"} \/ (s.do = "check" /\ s.file = "artifact")

Checked(c, s) == CASE Reads(s) -> [c.checked EXCEPT ![s.file] = File(c, s.file)]
                   [] s.do = "finalize_copy" -> c.named
                   [] OTHER -> c.checked
Named(c, s) == CASE Identifies(s) -> [c.named EXCEPT ![s.file] = File(c, s.file)]
                 [] s.do = "second" -> Nothing
                 [] OTHER -> c.named
Body(c, s) == CASE s.do = "lower" -> Base(c).body
                [] s.do = "receipt" -> Receipt(c).body
                [] OTHER -> c.body

After(c, s) ==
  LET d == [c EXCEPT !.checked = Checked(c, s), !.named = Named(c, s), !.body = Body(c, s),
                     !.lower = IF s.do = "lower_again" THEN Base(c).body ELSE @]
  IN IF s.do = "second"
     THEN [d EXCEPT !.dir = 2, !.asked = <<@[2], @[1]>>, !.first = c.body] ELSE d

\* What a prepared or simulated file holds: the program of the artifact decides what
\* a working device computes.
Content(c, f) == CASE f = "artifact" -> compile_artifact
                   [] f = "oracle" -> Result(ver)
                   [] OTHER -> IF c.put[f] # "none" THEN c.put[f]
                               ELSE Result(File(c, "artifact"))

\* The receipt of the schedule carries the identities of the receipt below.
Written(c) == [state |-> "whole", request |-> evidence[c.dir].request, lower |-> c.lower,
               quiet |-> c.quiet,
               body |-> IF c.layer = "schedule"
                        THEN [c.body EXCEPT !["trace"] = c.named["trace"]] ELSE c.named]

\* Everyone else working on directory d, or on all of them, is no longer alone.
Disturbed(me, d) ==
  [q \in Procs |-> IF q # me /\ (d = 0 \/ procs[q].dir = d)
                   THEN [procs[q] EXCEPT !.quiet = FALSE] ELSE procs[q]]

Disturbs(s) == s.do \in {"empty", "put", "create", "exclusive", "write"}

\* The directory after it.
Worked(c, s) ==
  LET here == evidence[c.dir]
  IN CASE s.do = "empty" -> [here EXCEPT !.kind = c.op, !.request = c.asked[1]]
       [] s.do = "ready" -> [here EXCEPT !.ready = TRUE]
       [] s.do = "put" -> [here EXCEPT !.files[s.file] = Content(c, s.file)]
       [] OTHER -> here

\* What a presenter printed, when it got that far.
Reported(c) == [kind |-> c.op, asked |-> c.asked, dir |-> c.dir, checked |-> c.checked,
                body |-> c.body, first |-> c.first]

Step(p) ==
  LET c == procs[p]
      s == Head(c.todo)
      alone == IF Disturbs(s) THEN Disturbed(p, c.dir) ELSE procs
      next == [After(c, s) EXCEPT !.todo = Tail(@)]
  IN /\ c.todo # <<>>
     /\ IF ~Passes(c, s)
        THEN /\ procs' = [procs EXCEPT ![p] = Idle]
             /\ UNCHANGED <<evidence, receipts, reports>>
        ELSE /\ procs' = [alone EXCEPT ![p] = IF next.todo = <<>> THEN Idle ELSE next]
             /\ evidence' = [evidence EXCEPT ![c.dir] = Worked(c, s)]
             /\ receipts' = CASE s.do \in {"create", "exclusive"} ->
                                  [receipts EXCEPT ![c.dir][c.layer] = Torn]
                              [] s.do = "write" -> [receipts EXCEPT ![c.dir][c.layer] = Written(c)]
                              [] OTHER -> receipts
             /\ reports' = reports \union (IF s.do = "report" THEN {Reported(c)} ELSE {})
     /\ UNCHANGED <<ver, started, simulations, changes>>

-----------------------------------------------------------------------------
Running(d) == {p \in Procs : procs[p].todo # <<>> /\ procs[p].dir = d}

\* The second directory is the second request of a session, whose script prepares
\* both, runs one simulator on both and finalizes both, one after the other;
\* MaxStarted bounds the commands on the first.
Begin(p, c) == /\ procs[p].todo = <<>>
               /\ c.dir = 1 => started < MaxStarted
               /\ c.dir = 2 => \A q \in Procs : procs[q].todo = <<>>
               /\ procs' = [procs EXCEPT ![p] = c]
               /\ started' = started + (IF c.dir = 1 THEN 1 ELSE 0)
               /\ UNCHANGED <<ver, evidence, receipts, reports, changes>>

\* prepare() fills a directory nobody else knows yet.
Prepare(p) ==
  \E d \in EvidenceDirs, k \in Kinds, r \in Requests \union {"none"} :
    /\ d = 2 => /\ k = "request" /\ simulations = 0
               /\ evidence[1].kind = "request" /\ evidence[1].ready
    /\ evidence[d].kind = "none" /\ \A q \in Procs : procs[q].todo = <<>>
    /\ (k \in {"selected", "request"}) <=> (r # "none")
    /\ Begin(p, [Idle EXCEPT !.op = k, !.dir = d, !.asked = <<r>>, !.todo = PrepareOf(k)])
    /\ UNCHANGED simulations

\* The container script, after prepare() or once more: the simulator is exported,
\* then it runs.  A defect shows in the output or in the trace.
SimulatorRun == <<On("put", "simulator"), On("put", "trace"), On("put", "output")>>
Simulate(p) ==
  /\ \E d \in EvidenceDirs, id \in {"s0", "s1"}, bad \in {{}, {"output"}, {"trace"}} :
       /\ evidence[d].ready
       /\ \A q \in Running(d) : procs[q].op # "simulate"
       /\ IF d = 1 THEN simulations < MaxSimulations ELSE evidence[d].files["output"] = "none"
       /\ (simulations = 0) => (id = "s0")
       /\ d = 2 => /\ bad = {} /\ evidence[1].files["output"] # "none"
                  /\ receipts[1]["request"].state = "absent"
       /\ simulations' = simulations + (IF d = 1 THEN 1 ELSE 0)
       /\ Begin(p, [Idle EXCEPT !.op = "simulate", !.dir = d, !.todo = SimulatorRun,
                               !.put = [f \in Files |-> CASE f = "simulator" -> id
                                                          [] f \in bad -> "wrong"
                                                          [] OTHER -> "none"]])

Finalize(p) ==
  /\ \E d \in EvidenceDirs : \E l \in LayersOf(evidence[d].kind) :
       /\ evidence[d].files["output"] # "none"
       /\ d = 2 => (receipts[d][l].state = "absent" /\ receipts[1][l].state = "whole")
       /\ (evidence[2].kind # "none") => (evidence[2].files["output"] # "none")
       /\ Begin(p, [Idle EXCEPT !.op = "finalize", !.dir = d, !.layer = l, !.todo = FinalizerOf(l)])
  /\ UNCHANGED simulations

\* The runner's marker names the directory; the caller asked for a graph and a seed.
Present(p) ==
  /\ \E r \in Requests :
       \/ /\ receipts[1]["dag"].state = "whole"
          /\ Begin(p, [Idle EXCEPT !.op = "playable", !.layer = "dag", !.todo = Playable])
       \/ /\ receipts[1]["selected"].state = "whole"
          /\ Begin(p, [Idle EXCEPT !.op = "run", !.layer = "selected", !.asked = <<r>>, !.todo = run])
       \/ /\ receipts[1]["request"].state = "whole"
          /\ Begin(p, [Idle EXCEPT !.op = "run_request", !.layer = "request", !.asked = <<r>>,
                                  !.todo = _run_axi4lite_request])
       \/ /\ receipts[1]["request"].state = "whole" /\ receipts[2]["request"].state = "whole"
          /\ evidence[1].marker # "none"
          /\ \E q \in Requests :
               Begin(p, [Idle EXCEPT !.op = "run_pair", !.layer = "request", !.asked = <<r, q>>,
                                     !.todo = run_pair])
  /\ UNCHANGED simulations

\* The session script writes its marker once both receipts are there; whether the
\* rejected request reached the device shows in its own directory.
MarkSession == /\ evidence[1].marker = "none" /\ receipts[2]["request"].state = "whole"
               /\ \E traffic \in BOOLEAN :
                    evidence' = [evidence EXCEPT ![1].marker = evidence[1].files["simulator"],
                                         ![1].traffic = traffic]
               /\ UNCHANGED <<ver, receipts, procs, reports, started, simulations, changes>>

\* Between two commands an edit is one at the start of the next.
EditSource == /\ \E p \in Procs : procs[p].todo # <<>>
              /\ changes < MaxChanges /\ changes' = changes + 1
              /\ ver' = (IF ver = "v0" THEN "v1" ELSE "v0")
              /\ procs' = [q \in Procs |-> [procs[q] EXCEPT !.quiet = procs[q].todo = <<>>]]
              /\ UNCHANGED <<evidence, receipts, reports, started, simulations>>

KillProcess(p) == /\ procs[p].todo # <<>> /\ procs' = [procs EXCEPT ![p] = Idle]
                  /\ UNCHANGED <<ver, evidence, receipts, reports, started, simulations, changes>>

EvidenceInit ==
  /\ ver = "v0" /\ evidence = [d \in EvidenceDirs |-> NoDir]
  /\ receipts = [d \in EvidenceDirs |-> [l \in Layers |-> NoReceipt]]
  /\ procs = [p \in Procs |-> Idle] /\ reports = {}
  /\ started = 0 /\ simulations = 0 /\ changes = 0

EvidenceNext ==
  \/ \E p \in Procs : \/ Prepare(p) \/ Simulate(p) \/ Finalize(p) \/ Present(p)
                     \/ Step(p) \/ KillProcess(p)
  \/ MarkSession \/ EditSource
EvidenceSpec == EvidenceInit /\ [][EvidenceNext]_evars

-----------------------------------------------------------------------------
\* What a presenter prints as PASS belongs together: the trace and output it compared
\* are those of the artifact it checked, the receipt it prints names them, and it is
\* the receipt of the request that was asked for (of both, in order, on the marker's
\* simulator and without traffic of the rejected request).
Names(b, v) == b["artifact"] = v /\ \A f \in {"output", "trace"} : b[f] \in {"none", Result(v)}
PresentedTogether ==
  \A r \in reports :
    LET v == r.checked["artifact"]
    IN /\ r.checked["output"] = Result(v) /\ r.checked["trace"] = Result(v)
       /\ Names(r.body, v)
       /\ r.kind # "playable" => evidence[r.dir].request = r.asked[1]
       /\ r.kind = "run_pair" =>
            /\ r.dir = 2 /\ Names(r.first, r.first["artifact"])
            /\ evidence[1].request = r.asked[2]
            /\ r.first["simulator"] = r.body["simulator"]
            /\ r.body["simulator"] = evidence[1].marker /\ ~evidence[1].traffic

\* And it was computed by one version of the program, the admitted one where the
\* presenter asks for that. Reruns of the simulator and an edit during the presentation
\* do not change it: playable finalizes a private copy, the others read again what they
\* print.
PresentedSound ==
  /\ PresentedTogether
  /\ \A r \in reports :
       /\ r.kind # "playable" => r.checked["artifact"] = "v0"
       /\ r.kind = "run_pair" => r.first["artifact"] = "v0"

Kept(l) == \A d \in EvidenceDirs : receipts[d][l].state = "whole" => receipts'[d][l] = receipts[d][l]

\* A finalizer that was alone writes a receipt of exactly the directory it leaves:
\* every digest is that of the file, output and trace are the program's, and the
\* receipt below is the one in place.  The receipts opened exclusively are
\* append-once even when it was not alone.
ReceiptExact ==
  [][/\ \A d \in EvidenceDirs, l \in Layers :
          LET r == receipts'[d][l]
          IN (receipts[d][l].state = "torn" /\ r.state = "whole" /\ r.quiet) =>
               /\ \A f \in Files : r.body[f] \in {"none", evidence[d].files[f]}
               /\ \A f \in {"output", "trace"} :
                    r.body[f] \in {"none", Result(r.body["artifact"])}
               /\ l = "schedule" => r.lower = receipts[d]["mvp"].body
     /\ Kept("selected") /\ Kept("request")]_evars

\* "receipt is append-once and already exists": the same of the receipts that
\* are looked for and then written. Not so of the code: two finalizers may
\* both find it absent.
PlainOnce == [][Kept("mvp") /\ Kept("schedule") /\ Kept("affine") /\ Kept("dag")]_evars

\* "store_data_oracle_match": the trace and output a receipt names are ones
\* that were compared. Not so of the code: files are read again for their
\* digests.
NamesChecked ==
  \A d \in EvidenceDirs, l \in Layers :
    LET r == receipts[d][l]
    IN r.state = "whole" =>
         \A f \in {"output", "trace"} : r.body[f] \in {"none", Result(r.body["artifact"])}
=============================================================================
