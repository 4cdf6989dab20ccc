-------------------------- MODULE PhysicalEvidence --------------------------
(***************************************************************************)
(* The physical screening runs of T-0044 (raveil/t0044_physical.py and the *)
(* runner that calls its subcommands): one synthesis container per         *)
(* attempt on a private copy of the exported RTL, then run metadata, seal, *)
(* result, and the matrix of the two results.  The subcommands may be used *)
(* by hand at any time once a raw directory has its reports, with any      *)
(* manifest and variant and the export directory: to finish an attempt     *)
(* that stopped, or beside the runner.                                     *)
(*                                                                         *)
(* A hash is the value it stands for.  The synthesis reports are one       *)
(* record: the variant, RTL and clock they were made from, the mapped area *)
(* and whether timing was met, whether every report is there, and whether  *)
(* their texts and file lists pass derive_one.                             *)
(***************************************************************************)
EXTENDS Naturals

CONSTANTS
  Attempts,    \* raw directories
  Manifests,   \* the frozen manifests: [rtl, clock] by name
  RtlVersions, \* contents of an export directory
  Areas,       \* mapped areas of each variant
  MaxExports,  \* bound: exports that overwrite a tree
  MaxRawEdits, \* bound: edits of a sealed raw directory
  MaxByHand    \* bound: subcommands used by hand

Designs == {"static-graph", "rocket-in-order"}
TornTree == 0
NoFile == [kind |-> "none"]

VARIABLES
  tree,      \* the export directory of each variant
  exports,   \* exports so far
  runner,    \* the runner of each attempt: stage, variant, manifest, private copy
  raw,       \* reports in the raw directory and the exit status
  metadata,  \* run-metadata.json and failure-metadata.json
  rawSeal,   \* raw-seal.json
  failedSeal,\* failed-seal.json
  result,    \* result.json of each attempt
  matrix,    \* matrix.json of each manifest
  metadataByHand, \* history: the attempts whose run metadata was written by hand
  rawEdits, byHand

files == <<raw, metadata, rawSeal, failedSeal, result, matrix>>
hvars == <<tree, exports, runner, files, metadataByHand, rawEdits, byHand>>

Runner(stage, v, m, copy) == [stage |-> stage, variant |-> v, manifest |-> m, copy |-> copy]

\* RUN-009 predates the private copy: its container ran on the wrong export, so
\* its list of RTL files is not that of the right one.
CONSTANTS Run009, Run009Actual, Run009Manifest
ASSUME PhysicalConstants == Run009 \in Attempts
Run009Reports == [variant |-> "static-graph", rtl |-> Run009Actual,
                  clock |-> Manifests[Run009Manifest].clock, area |-> 1, met |-> TRUE,
                  complete |-> TRUE, clean |-> FALSE]

PhysicalInit ==
  /\ tree = [v \in Designs |-> 1] /\ exports = 0
  /\ rawEdits = 0 /\ byHand = 0 /\ metadataByHand = {}
  /\ runner = [r \in Attempts |->
       IF r = Run009 THEN Runner("incident", "static-graph", Run009Manifest, TornTree)
                     ELSE Runner("new", "static-graph", "none", TornTree)]
  /\ raw = [r \in Attempts |->
       IF r = Run009 THEN [kind |-> "reports", exit |-> 0, data |-> Run009Reports] ELSE NoFile]
  /\ metadata = [r \in Attempts |-> [run |-> NoFile, failure |-> NoFile]]
  /\ rawSeal = [r \in Attempts |-> NoFile]
  /\ failedSeal = [r \in Attempts |-> NoFile]
  /\ result = [r \in Attempts |-> NoFile]
  /\ matrix = [m \in DOMAIN Manifests |-> NoFile]

----------------------------------------------------------------------------
\* The tree hash is compared with the one in the manifest.
_verify_variant_inputs(m, rtl) == rtl = Manifests[m].rtl

\* Mutant: the copy is not verified again.
Mutant_verify_snapshot(m, rtl) == TRUE

verify_snapshot(m, rtl) == _verify_variant_inputs(m, rtl)

SetStage(r, stage) == runner' = [runner EXCEPT ![r].stage = stage]

\* Every section of the manifest has the frozen value; neither path may exist.
verify_manifest(r) ==
  /\ runner[r].stage = "new"
  /\ \E v \in Designs, m \in DOMAIN Manifests :
       runner' = [runner EXCEPT ![r] = Runner("verify", v, m, TornTree)]
  /\ UNCHANGED <<tree, exports, files, metadataByHand, rawEdits, byHand>>

verify_inputs(r) ==
  /\ runner[r].stage = "verify"
  /\ SetStage(r, IF _verify_variant_inputs(runner[r].manifest, tree[runner[r].variant]) THEN "copy" ELSE "refused")
  /\ UNCHANGED <<tree, exports, files, metadataByHand, rawEdits, byHand>>

\* cp -R while an export may be rewriting the tree; then the copy is verified.
copy_rtl(r) ==
  LET p == runner[r] IN
  /\ p.stage = "copy"
  /\ \E rtl \in {tree[p.variant], TornTree} :
       LET stage == IF verify_snapshot(p.manifest, rtl) THEN "run" ELSE "refused" IN
       runner' = [runner EXCEPT ![r] = Runner(stage, p.variant, p.manifest, rtl)]
  /\ UNCHANGED <<tree, exports, files, metadataByHand, rawEdits, byHand>>

\* The container leaves reports; with status 0 they are all there, otherwise
\* they may be.
run_container(r) ==
  LET p == runner[r] IN
  /\ p.stage = "run"
  /\ \E exit \in {0, 1}, area \in Areas[p.variant], met, complete, clean \in BOOLEAN :
       /\ exit = 0 => complete
       /\ raw' = [raw EXCEPT ![r] = [kind |-> "reports", exit |-> exit,
                 data |-> [variant |-> p.variant, rtl |-> p.copy, clock |-> Manifests[p.manifest].clock,
                           area |-> area, met |-> met, complete |-> complete, clean |-> clean]]]
  /\ SetStage(r, "ran")
  /\ UNCHANGED <<tree, exports, metadata, rawSeal, failedSeal, result, matrix, metadataByHand, rawEdits, byHand>>

----------------------------------------------------------------------------
(* The subcommands on the raw directory of r, given a manifest, a variant  *)
(* and the contents of an RTL directory.  They know nothing of the runner. *)

\* The status of the container is written as 0, whatever it was.
write_run_metadata(r, m, v, rtl) ==
  /\ _verify_variant_inputs(m, rtl) /\ metadata[r].run = NoFile
  /\ metadata' = [metadata EXCEPT ![r].run =
                    [kind |-> "run", variant |-> v, manifest |-> m, rtl |-> rtl, exit |-> 0]]
  /\ UNCHANGED <<raw, rawSeal, failedSeal, result, matrix>>

\* All files below the raw directory, except the seals.
RawFiles(r) == [data |-> raw[r], metadata |-> metadata[r]]

\* Exactly the required files: all reports, run metadata, no failure record.
physical_seal_raw(r, m, v) ==
  /\ rawSeal[r] = NoFile
  /\ raw[r].data.complete /\ metadata[r].run # NoFile
  /\ metadata[r].failure = NoFile /\ failedSeal[r] = NoFile
  /\ rawSeal' = [rawSeal EXCEPT ![r] = [kind |-> "seal", manifest |-> m, variant |-> v, files |-> RawFiles(r)]]
  /\ UNCHANGED <<raw, metadata, failedSeal, result, matrix>>

\* The status must not be 0; it is the caller's word.
record_failure(r, m, v, rtl, exit) ==
  /\ exit # 0 /\ _verify_variant_inputs(m, rtl)
  /\ metadata[r].failure = NoFile /\ failedSeal[r] = NoFile
  /\ metadata' = [metadata EXCEPT ![r].failure =
                    [kind |-> "failure", variant |-> v, manifest |-> m, rtl |-> rtl, exit |-> exit]]
  /\ failedSeal' = [failedSeal EXCEPT ![r] =
                      [kind |-> "seal", variant |-> v, files |-> [data |-> raw[r], metadata |-> metadata'[r]]]]
  /\ UNCHANGED <<raw, rawSeal, result, matrix>>

\* Mutant: the files are not compared with the seal.
Mutant_load_verified_seal(r, m, v) ==
  /\ rawSeal[r] # NoFile /\ rawSeal[r].manifest = m /\ rawSeal[r].variant = v
  /\ failedSeal[r] = NoFile

\* The seal names this manifest and variant, and the files are still those.
_load_verified_seal(r, m, v) ==
  /\ rawSeal[r] # NoFile /\ rawSeal[r].manifest = m /\ rawSeal[r].variant = v
  /\ failedSeal[r] = NoFile /\ rawSeal[r].files = RawFiles(r)

\* Diagnostics in a report, another top, a wrong clock or other metadata refuse
\* the result.  A seal names one manifest and one variant, so that a second
\* result of an attempt, in another directory, would be the same again.
derive_one(r, m, v, rtl) ==
  LET d == raw[r].data  run == metadata[r].run IN
  /\ result[r] = NoFile
  /\ _verify_variant_inputs(m, rtl) /\ _load_verified_seal(r, m, v)
  /\ d.clean /\ d.variant = v /\ d.clock = Manifests[m].clock
  /\ run.manifest = m /\ run.variant = v
  /\ result' = [result EXCEPT ![r] = [kind |-> "result", attempt |-> r, manifest |-> m, variant |-> v,
       rtl |-> rtl, clock |-> Manifests[m].clock, area |-> d.area, met |-> d.met, files |-> rawSeal[r].files]]
  /\ UNCHANGED <<raw, metadata, rawSeal, failedSeal, matrix>>

----------------------------------------------------------------------------
(* The runner looks at the container's status and goes on to the next      *)
(* subcommand only when the last one succeeded.                            *)

RunnerMetadata(r) ==
  LET p == runner[r] IN
  /\ p.stage = "ran" /\ raw[r].exit = 0
  /\ write_run_metadata(r, p.manifest, p.variant, p.copy)
  /\ SetStage(r, "seal")
  /\ UNCHANGED <<tree, exports, metadataByHand, rawEdits, byHand>>

RunnerFailure(r) ==
  LET p == runner[r] IN
  /\ p.stage = "ran"
  /\ record_failure(r, p.manifest, p.variant, p.copy, raw[r].exit)
  /\ SetStage(r, "done")
  /\ UNCHANGED <<tree, exports, metadataByHand, rawEdits, byHand>>

RunnerSeal(r) ==
  /\ runner[r].stage = "seal"
  /\ physical_seal_raw(r, runner[r].manifest, runner[r].variant)
  /\ SetStage(r, "derive")
  /\ UNCHANGED <<tree, exports, metadataByHand, rawEdits, byHand>>

RunnerDerive(r) ==
  LET p == runner[r] IN
  /\ p.stage = "derive"
  /\ derive_one(r, p.manifest, p.variant, p.copy)
  /\ SetStage(r, "done")
  /\ UNCHANGED <<tree, exports, metadataByHand, rawEdits, byHand>>

\* The runner is stopped, or its subcommand failed; its private copy is removed.
Stop(r) ==
  LET p == runner[r] IN
  /\ p.stage \in {"ran", "seal", "derive"}
  /\ runner' = [runner EXCEPT ![r] = Runner("stopped", p.variant, p.manifest, TornTree)]
  /\ UNCHANGED <<tree, exports, files, metadataByHand, rawEdits, byHand>>

\* Someone uses a subcommand by hand.
ByHand(r) ==
  /\ raw[r] # NoFile /\ byHand < MaxByHand /\ byHand' = byHand + 1
  /\ \E m \in DOMAIN Manifests, v \in Designs :
       \/ /\ write_run_metadata(r, m, v, tree[v])
          /\ metadataByHand' = metadataByHand \cup {r}
       \/ /\ \/ physical_seal_raw(r, m, v)
             \/ record_failure(r, m, v, tree[v], 1)
             \/ derive_one(r, m, v, tree[v])
          /\ UNCHANGED metadataByHand
  /\ UNCHANGED <<tree, exports, runner, rawEdits>>

\* RUN-009 only: the manifest, both trees and the raw files are fixed values.
record_retrospective_host_failure ==
  LET r == Run009 IN
  /\ runner[r].stage = "incident" /\ tree["static-graph"] = Run009Actual
  /\ raw[r].data = Run009Reports /\ metadata[r].run = NoFile /\ rawSeal[r] = NoFile
  /\ metadata[r].failure = NoFile /\ failedSeal[r] = NoFile
  /\ metadata' = [metadata EXCEPT ![r].failure =
       [kind |-> "failure", variant |-> "static-graph", manifest |-> Run009Manifest, rtl |-> Run009Actual, exit |-> 0]]
  /\ failedSeal' = [failedSeal EXCEPT ![r] =
       [kind |-> "seal", variant |-> "static-graph", files |-> [data |-> raw[r], metadata |-> metadata'[r]]]]
  /\ SetStage(r, "stopped")
  /\ UNCHANGED <<tree, exports, raw, rawSeal, result, matrix, metadataByHand, rawEdits, byHand>>

\* The area limit comes first: a graph above a quarter of the Rocket area.
MatrixOutcome(graph, rocket) ==
  CASE 4 * graph.area > rocket.area -> "early-no-go-area"
    [] 4 * graph.area <= rocket.area /\ ~graph.met /\ rocket.met -> "early-no-go-timing"
    [] 4 * graph.area <= rocket.area /\ graph.met /\ rocket.met -> "advance-to-integrated-physical"
    [] OTHER -> "pause-boundary"

PartitionComplete(m, v, res) ==
  /\ res # NoFile /\ res.variant = v /\ res.manifest = m
  /\ res.clock = Manifests[m].clock /\ res.rtl = Manifests[m].rtl

derive_matrix(m) ==
  /\ matrix[m] = NoFile
  /\ \E g, k \in Attempts :
       /\ PartitionComplete(m, "static-graph", result[g])
       /\ PartitionComplete(m, "rocket-in-order", result[k])
       /\ matrix' = [matrix EXCEPT ![m] = [kind |-> "matrix", outcome |-> MatrixOutcome(result[g], result[k]),
                                           graph |-> result[g], rocket |-> result[k]]]
  /\ UNCHANGED <<tree, exports, runner, raw, metadata, rawSeal, failedSeal, result, metadataByHand, rawEdits, byHand>>

\* A new export overwrites the tree: first torn, then some version.
Export(v) ==
  /\ exports < MaxExports \/ tree[v] = TornTree
  /\ IF tree[v] = TornTree
     THEN \E n \in RtlVersions : tree' = [tree EXCEPT ![v] = n] /\ UNCHANGED exports
     ELSE tree' = [tree EXCEPT ![v] = TornTree] /\ exports' = exports + 1
  /\ UNCHANGED <<runner, files, metadataByHand, rawEdits, byHand>>

\* Someone touches a report after it was sealed.
EditRaw(r) ==
  /\ rawSeal[r] # NoFile /\ rawEdits < MaxRawEdits
  /\ rawEdits' = rawEdits + 1
  /\ raw' = [raw EXCEPT ![r].data.met = ~@]
  /\ UNCHANGED <<tree, exports, runner, metadata, rawSeal, failedSeal, result, matrix, metadataByHand, byHand>>

PhysicalNext ==
  \/ \E r \in Attempts :
       \/ verify_manifest(r) \/ verify_inputs(r) \/ copy_rtl(r) \/ run_container(r)
       \/ RunnerMetadata(r) \/ RunnerFailure(r) \/ RunnerSeal(r) \/ RunnerDerive(r)
       \/ Stop(r) \/ ByHand(r) \/ EditRaw(r)
  \/ record_retrospective_host_failure
  \/ \E m \in DOMAIN Manifests : derive_matrix(m)
  \/ \E v \in Designs : Export(v)

PhysicalSpec == PhysicalInit /\ [][PhysicalNext]_hvars

----------------------------------------------------------------------------
\* A result names the RTL of its manifest and reports what was sealed, complete
\* and without a failure record, for its variant and at its clock. The container
\* succeeded, as the metadata says, unless they were written by hand; and what it
\* ran on is what the result names, unless it was derived by hand for another
\* manifest than the attempt was made for.
ResultSound(res) ==
  LET data == res.files.data.data  run == res.files.metadata.run IN
  /\ res.rtl = Manifests[res.manifest].rtl
  /\ data.variant = res.variant /\ data.clock = Manifests[res.manifest].clock
  /\ res.met = data.met /\ res.area = data.area
  /\ data.complete /\ res.files.metadata.failure = NoFile
  /\ res.files.data.exit = run.exit \/ res.attempt \in metadataByHand
  /\ res.manifest = runner[res.attempt].manifest => data.rtl = res.rtl

\* The screening decision rests on two sound results of one manifest, and RUN-009
\* is never evidence (load_manifest's decision rules, EXP-0009 on operational
\* failures).
ScreeningSound ==
  /\ \A r \in Attempts : result[r] # NoFile => ResultSound(result[r])
  /\ \A m \in DOMAIN Manifests : matrix[m] # NoFile =>
       /\ ResultSound(matrix[m].graph) /\ ResultSound(matrix[m].rocket)
       /\ matrix[m].graph.manifest = m /\ matrix[m].rocket.manifest = m
       /\ matrix[m].graph.variant # matrix[m].rocket.variant
  /\ result[Run009] = NoFile
=============================================================================
