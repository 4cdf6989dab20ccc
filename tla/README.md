# Raveil in TLA+

This directory is a formal model of the parts of Raveil that decide what may
happen to data: who may change an object, when a result becomes visible, what
a record, a journal or a cache says after a process has died.  It consists of
TLA+ modules translated from the sources, TLC configurations that check them on
small instances, and proofs that TLAPS checks for every size.

`PROJECT.json` maps every definition to the lines it models and lists the
components, the runs, the hazards they are aimed at, the mutants that show each
property can fail, the theorems and the findings.

## 1. The system

Raveil (see `src/README.md`) compiles small dataflow graphs, executes them on
replaceable backends and lets a result become usable only after an independent
check.  Its code falls into six groups.

| Part | Source | State it keeps | Operations | Modelled in |
|---|---|---|---|---|
| **Kernel** | | | | |
| Contracts (Couperin) | `contracts/` | none | validators of manifests, jobs and completions; admission and plan of chains and DAGs | `JobContract`, `FoldPlan` |
| Job authority (Sonatine) | `sonatine/src/job_authority.c`, first half | object table, two rings, inflight slots, shadows, epoch, next sequence | register, submit, take, read, post, observe, cancel, stage, approve, finalize | `JobAuthority`, `JobHistory`, `TransactionalStore` |
| Capability table | `capability.c` | slots with owner, object, rights, generation | create, delegate, resolve, revoke | `Capability`, `CapabilityHistory` |
| Four-plane interface | `job_authority.c`, second half; `kernel.c` | program and graph registries, experience ledger | the capability-checked form of the authority | `PlaneAuthority` |
| Fold loops | `fold_session.c`, `fold_chain.c`, `fold_dag.c`, `fold_bridge.c` | remembered versions and contents, banks, slots | admit, dispatch, exchange with the host, publish or roll back | `FoldLoops` |
| **Host of the fold jobs** | `raveil/fold_*.py`, `sonatine_fold.py` | a mirror of the guest's objects, receipts | boot, follow the lines, execute, answer, verify | `HostFold` |
| **Files shared by processes** | | | | |
| Telemetry journal (Alborada) | `completion_telemetry.py` | a hash-chained file, an advisory lock | ingest, load | `TelemetryJournal` |
| Experience store (Bolero) | `experience.py`, `policy.py` | a JSON-lines log, a bounded index | append, load, consolidate, fork, reset | `ExperienceStore` |
| Workspace | `workspace.py` | a directory tree | publish_many, write_bytes, mkdir | `WorkspacePublish` |
| Build cache | `graph_device_build_cache.py` | a cache directory, a lock, sessions | prepare, stage, build or reuse, finish, publish | `BuildCache` |
| Dynamic requests | `graph_device_dynamic*.py`, `graph_device_uio_dry_run.py` | sealed bundles, receipts | seal, verify, replay, direct run | `DynamicSeal` |
| **User's tools** | | | | |
| Command graph (Miroirs) | `command_graph.py`, `command_showcase.py` | two private copies of the workspace, a cache | parse, compile, run in two ways, compare, commit | `CommandGraph`, `CommandShowcase` |
| Graph orchestrator (Chloe, La Valse, Pavane) | `graph_mvp.py`, `interactive_shell.py`, `graph_directory.py` | the session's graph, proposal and result | create, compile, propose, measure, commit or roll back, save | `GraphSession` |
| Project workflow | `project.py`, `project_export.py`, `project_preflight.py`, `garden.py` | recipes, inputs, run directories | run, load, show, export, check, fork | `ProjectRuns`, `ProjectFork` |
| Compositions and batches | `project_fold.py`, `project_dag*.py`, `project_array.py`, `project_composition.py`, `project_tiling.py`, `project_mf01_*.py`, `run_control.py` | a parent run and its children, containers | freeze, execute, stop, publish, load | `ProjectParents` |
| Experiment runner | `experiment_runner.py`, `research_bundle.py`, `analysis.py`, `policy_comparison.py` | a bundle and its remote copy | plan, run, analyze, seal, sync | `ResearchBundle` |
| Work queue | `scripts/project_queue.py` | a GitHub board | the commands that move an item | `ProjectQueue` |
| **Laboratory evidence** | | | | |
| Static region, controlled runs | `static_region.py`, `simulation_adapter.py`, `controlled_run.py` | a grid, a log, three records | execute, observe, verify, aggregate | `StaticRegion`, `ControlledRun` |
| T-0044 campaigns | `t0044_fixture.py`, `t0044_repeated.py`, `t0044_campaign*.py` | logs, reports, seals | collect, derive, seal, fail, recover | `SessionLog`, `CampaignRun` |
| T-0044 screening, promotion | `t0044_physical.py`, `t0044_evidence_promotion.py` | attempts, results, remote copies | synthesize, seal, finish, compare; verify, upload, mark | `PhysicalEvidence`, `EvidencePromotion` |
| **Graph device** | | | | |
| Compiler and fallback | `graph_device_dag.py` | a program | admit, schedule, lower, encode, interpret | `GraphProgram` |
| Traces | `graph_device_schedule.py`, `_affine`, `_dag`, `_selected`, `_axi4lite_request` | a transaction trace | finalize, show | `DeviceTrace` |
| Evidence | the same, `graph_device_mvp.py`, `graph_device_run.py`, `_playable`, `_runtime_pair` | evidence directories and receipts | prepare, simulate, finalize, present | `DeviceEvidence` |
| **Left out** (section 7) | kernel substrate, demo shell, boot request backends, host bridge, RTL, tests | | | |

How they interact:

* In the kernel everything is a direct call on one hart, and the authority is
  not reentrant: each call is one step, and what varies is the order of the
  calls of clients and backend.  `kmain` creates four root capabilities; the
  clients (fold loops, demo shell, system calls) reach the job authority only
  through the four-plane interface, which checks a capability and then calls
  the same core.
* The fold loops and the host exchange text frames over the console; either
  side may be wrong, the host may be late or silent.  `FoldLoops` lets the host
  answer anything, `HostFold` lets the guest say anything once; both use
  `FoldPlan`.
* On the host side, separate operating-system processes share files: the
  journal (advisory lock), the build cache (lock for publishers, none for
  readers), the workspace (no lock, exclusive creation), the experience log and
  most evidence directories (no lock).  They meet between any two system calls
  and may be killed there.  The user's editor and Git are further processes.
* Containers are started by a client and belong to a daemon: they outlive the
  client, may be created after it is gone, and forward their output late.
* GitHub's board is edited one field at a time by any number of operators.

What is hard, and hence what the properties are about: a binding that is
stale, forged or reused; cancellation racing completion and finalization; a
ring or table at its limit; handles that outlive their revocation; slots of a
DAG given away too early; an answer that belongs to an earlier job; a short
write, a kill or a loss of power between two system calls; a rollback that works
by file name; a file that is hashed and read again; a source that is edited and
put back; a record that is published while something may still write under it;
two operators or promoters in the same place; a log whose counts are right and
whose order is not.  `PROJECT.json` lists each of these at its line.

## 2. Modules

### Kernel

`JobContract` holds the validators as predicates.  Object identifiers, accesses
and byte ranges are kept; counts of reserved fields and magic numbers are not.

`JobAuthority` has one variable per C table.  A record of a table has the
fields of its struct; an inactive slot is the zeroed record, as `memset`
leaves it.  The rings are sequences: read index, write index and count are the
representation of one.  Each C function that changes state is an action of the
same name; a call that the code refuses is not a step.  64-bit counters are
`0 .. U64Max` with the code's refusal at the limit.  A cookie is the pair of a
mix of job and epoch and the sequence; `Mix` is an operator parameter, so nothing
depends on its being injective.

`JobHistory` adds two history variables (what became of each binding, and what
its objects were at admission) that restrict nothing.  `TransactionalStore` is
the abstract specification: optimistic transactions that commit once, in one
step, only while everything they began on is unchanged.  The refinement mapping
is `VisibleStore`, `fate` and `basis`.

`Capability` is the table with slot generations and the retirement of a slot
whose generation is used up; `CapabilityHistory` records every handle granted
and revoked.  `PlaneAuthority` composes the two with the program and graph
registries and the experience ledger: a guarded call is the core action, its
gate, and its effect on the registries.  Its refinement mapping to
`JobAuthority` is the identity on the shared variables.

`FoldPlan` says which envelopes are admitted and which slot each result of a DAG
gets.  `FoldLoops` drives the actions of `JobAuthority` in the order of the three
boot loops, one phase per call, with every answer of the host.
`HostFold` is the other end: the host's expectation of every line, its copy of
versions and contents, the execution on RTL, and the receipt.  What a fold
evaluates to is an uninterpreted value per job and chunk.

### Files shared by processes

`TelemetryJournal` models `ingest_qemu_log` one system call at a time, with
kills, short writes, and losses of power that keep a prefix of the
unsynchronized bytes.  `WorkspacePublish` models preflight target by target,
creation in order of depth, the write, and the rollback by name, one removal at
a time; an entry remembers its creator and whether all its bytes are there.  A
write may fail at any byte and a close behind the last one; the rollback's
removals may report errors, which the code ignores.  Two histories, `errors` and
`found`, say where an error met a call and what it found where it was to remove.
`BuildCache` models a
run with reuse switched on: `prepare` on the host, the container's copy,
comparison, build or reuse, `finish` and `publish`.  `ExperienceStore` models log
and index, the load line by line with its own points of consolidation, and an
append interrupted at any byte.  `DynamicSeal` has three processes over one
source tree; the name of a bundle is the record of what its manifest names, so
that equal digests mean equal contents and nothing else.

### User's tools

`CommandGraph` compiles a line as `emit` does, with its bookkeeping of the last
node and the open branches, and runs it twice: in source order and by ready sets
on a bounded pool.  `Meaning` is the reference: what the line does when it is
executed as written.  `CommandShowcase` is the cache on top.  `GraphSession` is
every command of the interactive shell over the graph MVP, with a backend that
fails, lies or gives no timing.  `ProjectRuns` and `ProjectFork` are the
commands of `project.py` step by step beside an editor.  In the cleanup of a
fork, the comparison of inodes (`lstat`) and the `unlink` are two steps, with the
user's tools free to act between them (`window`); a file of the user's may get the
inode number of one of the fork's that is gone; and every call may fail, the
cleanup's included, except the `fstat` of a descriptor that was just opened.
`ProjectParents` is the common life of eight kinds of parent run, a `kind`
selecting where they differ.  A fold publishes by renaming its record and has no
checksum file; the other kinds publish exclusively beside one.
`ResearchBundle` follows one experiment through five commands, each of which may
be killed at every write, while a damage to the bundle may come at any time, a
synchronization in progress included.  `ProjectQueue` models each board command as
one read and a list of edits, which may stop after any of them, for any number of
operators; the history `overlapped` says whether two commands were ever under way
at once.

### Laboratory evidence

`SessionLog` starts from the log a correct simulator writes, damages it, and
compares the verifier of the code with `Protocol`, which says directly which
logs a session can produce.  Only fields that some verifier compares are
modelled: the counts of accepted and completed requests at a phase and the cycle of
a rearm are compared by none, and nothing is claimed of them.
`CampaignRun` is the run directory of a campaign with its subcommands.
`PhysicalEvidence` models the subcommands of the screening apart from the
runner that calls them: the runner alone looks at the container's exit status, and
a person may use the same subcommands at any time with any manifest and variant.
The run metadata give the status as 0 without looking, so that a failed container
whose reports are complete becomes a result when someone finishes it by hand
(`metadataByHand` remembers who wrote them).
`EvidencePromotion` is the upload with its three verifications; the time in its
marker, truncated to seconds by the code, is left out.
`StaticRegion` executes the descriptor cycle by cycle against a single-port
memory; `ControlledRun` observes three implementations, and each record keeps
what really happened beside what was recorded, for the property only.

### Graph device

`GraphProgram` is the compiler with its register allocator, the two
interpreters and the expected transactions.  `DeviceTrace` builds the traces of
a working device, lets them deviate, and has the finalizers of five layers judge
them.  `DeviceEvidence` writes each command as the sequence of its file
accesses, and interleaves them.

## 3. Runs

All are breadth-first and exhaustive within the named bounds.  Six runs check
several components in one state space: the variable `part` is chosen
initially, one component runs and the others stay in their initial states.
Nothing is shared between the parts; they are one run because they answer one
kind of question.  The MC module extends the components that theorems speak of,
with their constants given in the configuration, so that a run checks the very
formula that is proved and evaluates the assumptions of the proof.  The other
components are used by `INSTANCE` with their constants given in the MC module,
and a property `P == part = "x" => X!P` is that component's own.

| Run | Parts and bounds | States | What it shows |
|---|---|---|---|
| `job_store` | 2 slots, 2 one-byte objects, crossing reads and writes, one `job_id` used twice, `U64Max` 3 | 50,033 | the four tables agree (`AuthorityInv`), a ring never blocks what the slots admit, publication is all or nothing, cancellation stays, no binding is lost and a running job reads what it was admitted against (`HistoryExact`), the authority implements `TransactionalStore` |
| `job_bytes` | 1 slot, two-byte objects, partial ranges, two outputs, an immutable object, the last version | 11,665 | the inductive invariant `IInv`: no byte outside a declared range is staged, read or published; approval freezes the bytes |
| `job_liveness` | 2 slots, 2 jobs, fair | 1,276 | every admitted job ends |
| `plane` | 1 job slot, 5 capability slots, 2 programs, ledger of 2 | 67,104 | the interface implements the authority, live jobs have installed pairs, the ledger is told a job once, revoking the program root closes its plane |
| `kernel` | `fold`: every batch of up to 3 jobs over 5 objects, every answer; `host`: 13 batches, 7 injections; `capability`: 2 slots, 3 tasks, 3 generations; `region`: grid of 4 by 5, every descriptor one change away; `program`: 2 registers, descriptors of 3 and 4 values and of admission's edges | 277,892 | no admitted batch is refused halfway and results are exact; a receipt is exact and a right guest is not refused; a revoked handle is dead for good; the output that becomes valid is the oracle's; a compiled program computes its descriptor |
| `files` | `workspace`: a publication of a directory and two files, one of one file into the same places, a write, a mkdir; `telemetry`: 2 processes, overlapping logs, 2 runs; `cache`: 2 runs, 2 trees, a dependency update, capacity 2; `experience`: 3 keys, index of 2, log of 5, fork of 3; `seal`: 3 descriptors, 2 edits, 2 commands | 3,029,464 | what was published stays, and what a failed call leaves is explained by an error at it or by something found in it; one chain, each event once, receipts on disk; no run passes with a simulator of other sources; no evidence counts twice and a load that succeeds is complete; a replay is of the bundle it names |
| `projects` | `queue`: one operator, 4 issues, 3 of them complete; `operators`: 2 operators at once, one issue in progress and 3 that are filed, nothing merged; `runs`: 1 run, 1 edit, 1 stray change; `fork`: every recipe, every failing call, cleanup included, the user around the identity check; `parents`: 8 kinds, up to 3 children, 2 edits; `session`: shapes around the thresholds | 1,607,923 | the board stays auditable while no two commands overlap, and delivery work is bounded when they do; a saved run says what ran; a published recipe has its inputs, and a fork takes a file of the user's only if it came behind the check of its inode or under a reused inode number; a success covers every child and no container outlives the record; only a checked and faster variant is committed |
| `evidence` | `promotion`: 2 runs of 2 files, overlapping promoters; `session`: 2 invocations, 2 faults; `campaign`: a primary and a diagnostic variant; `physical`: 2 attempts and the recorded incident; `by hand`: 1 attempt of one manifest and the incident, 3 subcommands by hand; `controlled`: 2 seeds, 3 simulations | 2,741,356 | a marker is backed by the sealed bytes; the verifier accepts exactly the protocol's logs; a sealed report is of complete logs; a result is of the RTL it names, and of a container that succeeded unless its metadata were written by hand; the aggregate is of runs without foreign traffic |
| `shell` | `graph`: lines of up to 3 commands, pool of 2, an edit, a killed tool; `showcase`: 2 inputs, 3 runs; `bundle`: 3 candidates under 3 policies, a damage at any time (during a synchronization: of a bundle whose gate is ready) | 3,162,314 | a committed line did what it says; reuse is sound while inputs are not rewritten; a ready gate rests on what was measured, and a marked remote copy is whole but for a file changed during that very synchronization |
| `device` | `trace`: 5 finalizers, 2 deviations; `evidence`: 5 kinds of directory, 2 processes, 5 commands, an edit | 1,015,294 | an accepted trace is one the program demands; the shapes admitted are those that fit; what is presented as PASS belongs together; a receipt names its directory |
| `workspace_rollback` | `files`, the workspace alone | violation | section 5 |
| `command_join` | `shell`, lines of four bare commands | violation | section 5 |

Why these bounds are enough to show the cases.  Two slots and three bindings
give a reader and a writer in each other's way, a slot that is reused and a
binding of its earlier life; one binding more than the counter allows makes
the sequence run out.  Two offsets tell a range from its object.  Two
capability slots with three generations reach reuse, exhaustion and
retirement.  Three jobs over five objects are the smallest DAGs in which a slot
is handed on while another result is pending.  Two processes suffice for every
race between one that holds a lock, or has looked, and one that does not; two
trees give an edit and its reversal within one build.  Five records pass the
point where loading a log consolidates on the way and again at the end; the code
asks for an index of at least four, the run takes two, because the cases depend
only on the limit being smaller than the number of keys.  Three commands are the
shortest lines in which a fan-out, a pipe and a conjunction meet in every
order of two; the join needs a fourth and has its own run.  Two deviations of a
trace or a log let one cover the other, as a count needs.  Three children give a
parent a first, a middle and a last one.  Two registers for four values force
every path of the allocator.  A grid of four by five has inner cells and tells rows
from columns.  Two operators with four issues are the fewest with which the
limit on delivery work could be passed by two.  Three subcommands by hand are
metadata, seal and result: an attempt finished by hand from its container on.  One run with one edit and one stray change is what a saved run can
meet between two reads.

Deadlock is checked, with an explicit stuttering step for the parts that end
(in `kernel`, `files` and `shell`), except in `projects`, `evidence` and `device`:
there every part comes to an end when its commands are used up.

`SYMMETRY` is used in `device` for the processes and the requests, which no
operator tells apart; its one action property speaks of single steps.

Fairness.  Only `job_liveness` assumes any: weak fairness of taking a
submission, of posting a completion for each binding, of observing one and
of finalizing each binding.  The clients (`fold_session.c`, `fold_chain.c`,
`fold_dag.c`, `demo_shell.c`, the smoke job of `kernel.c`) are loops that take
what they submit, post a FAULT completion when execution fails, observe it, and
finalize with commit or rollback on every path.  Nothing is assumed of
submission, cancellation, staging or approval.  On the host side commands are
issued by people and may be killed, so no progress is claimed there.

## 4. Proofs

The theorems are in six modules of proofs, one per group of components, and at
the ends of two components; every leaf is checked by TLAPS (SMT, Zenon, LS4).

| Module | About |
|---|---|
| `SonatineProofs` | `JobAuthority`, `JobHistory`, the refinement of `TransactionalStore`; `Capability`, `CapabilityHistory`, `PlaneAuthority` |
| `WorkspaceProofs` | `WorkspacePublish` |
| `DeviceProofs` | `DynamicSeal`, `DeviceEvidence` |
| `BuildCache`, `TelemetryJournal` | themselves |
| `ProjectProofs` | `ProjectQueue`, `ProjectFork`, `ProjectRuns`, `GraphSession`, `ProjectParents` |
| `BundleProofs` | `ResearchBundle`, `CommandShowcase` |
| `EvidenceProofs` | `EvidencePromotion`, `CampaignRun`, `PhysicalEvidence`, `ControlledRun`, `StaticRegion` |

| Theorem | Statement |
|---|---|
| `Inductive` | `Spec => []IInv`: the inductive invariant of the job authority |
| `TypeCorrect`, `AuthorityConsistent`, `BoundsHold`, `SnapshotsHold` | its four parts, `TypeOK`, `AuthorityInv`, `RefsInBounds`, `SnapshotNamesVersion` |
| `RingsSuffice` | `Spec => []RingsNeverBlock` |
| `ApprovalFreezes`, `PublicationIsAtomic`, `CancellationHolds` | the three action properties of `JobAuthority` |
| `HistoryIsSpec` | `HSpec => Spec`: the history variables add no behaviour |
| `HistoryIsExact` | `HSpec => []HistoryExact`: no binding is lost or left behind, and a job reads what it was admitted against |
| `AuthorityImplementsStore` | `HSpec => ImplementsStore`: the authority implements the optimistic transactional store |
| `RevocationIsFinal`, `DelegationConfined` | the capability table, for every size and generation limit that fit a handle |
| `PlaneImplementsAuthority` | every step of the four-plane interface is a step of the authority or a stutter |
| `PlanePublishesAtomically` | `PublicationAtomic` of the production interface, by the refinement |
| `ProgramPlaneCloses` | after the program root is revoked no handle opens the program plane |
| `PlanesConsistent` | `PlaneSpec => []PlaneSound`: registries, ledger and live jobs agree |
| `PublicationsKept` | `WorkspaceSpec => []PublishedIntact`, for any calls and outputs |
| `RollbacksSound` | `WorkspaceSpec => []RollbackSound`: the preflight decides, and what a failed call leaves is explained by an error at it or something found in it; failing closes and ignored errors of removals included |
| `ReplayIsSound` | `SealSpec => []ReplaySound`, for any programs, shapes and seeds, with edits, damage, swaps and kills between any two reads |
| `CacheIsSound` | `CacheSpec => []CacheSound`, for any processes, trees, members and limits |
| `JournalIsSound` | `JournalSpec => []JournalSound`, for any processes and logs |
| `BoardIsSound` | `QueueSpec => []BoardSound`, for any operators, issues and story points: the board stays auditable as long as no two commands overlap, and delivery work is bounded whatever overlaps |
| `WipIsBounded` | `QueueSpec => []WipBounded`: n operators without a lock go past the limit by n - 1 items at most |
| `ForksSound` | `ForkSpec => ForkSound`, for any number of forks and user changes, with every call of the cleanup free to fail |
| `ProjectIsSound` | `RunsSpec => []ProjectSound`, for any number of edits, runs and stray changes |
| `SessionIsSound` | `SessionSpec => []GraphSound`, for any shapes, limits, command lines and files |
| `ParentIsSound` | `ParentSpec => []ParentSound`: eight kinds of parent run, any number of children, edits and stray changes |
| `BundleIsSound`, `SealIsFinal` | `Spec => []BundleSound` of `ResearchBundle`, and sealed or marked bundles never change again, for any policies and costs; only a file changed during a synchronization can differ below its marker |
| `ReusesSound` | `ShowcaseSpec => []ReuseSound`, for any number of nodes and runs |
| `PromotionsSound` | `PromotionSpec => []PromotionSound`, for any promoters, files and edits |
| `CampaignsSound` | `CampaignSpec => []EvidenceSound`, for any matrix of variants |
| `ScreeningIsSound` | `PhysicalSpec => []ScreeningSound`, for any attempts, manifests and exports, with subcommands used by hand at any time |
| `AggregatesSound` | `RunSpec => []AggregateSound`, for any accesses and seeds |
| `RegionsExact` | `RegionSpec => []RegionExact`, for any grid, word size, input and descriptor |
| `ReceiptsAreExact` | `EvidenceSpec => ReceiptExact`, for any processes, commands, simulator runs and edits |
| `PresentedBelongsTogether` | `EvidenceSpec => []PresentedTogether`: a PASS is of one artifact, one receipt and the submission asked for, for any number of edits |
| `PresentedIsSound` | `EvidenceSpec => []PresentedSound` with one edit at most |

Assumptions, each evaluated by TLC in a passing run: `ContractConstants` and
`AuthorityConstants` (the constants have their types, tables are not empty),
`MixIsNat`, `HistoryConstants` (the bindings the histories range over are all those
that can be issued, and `NoObject` is no object), `CapabilityConstants` and
`CapabilitySizes` (index and generation fit their halves of a handle),
`PlaneConstants` (room for the four roots), `WorkspaceConstants` (outputs are
among the paths), `SingleEntries` (a publication names something, the other
methods one entry) and `PromotionConstants` (a run has at least its seal).
Further `CacheAssumption` (a tree, natural bounds, a bundle of at least one
member), `JournalAssumption` (a log, a run, and a content for each log),
`QueueConstants` (finitely many issues and operators; 0 stands for points not given),
`ParentConstants` (a parent has a child), `BundleConstants` (policies are a
sequence, costs are numbers), `ShowcaseConstants` (there is an input),
`CampaignConstants` (the matrix is a sequence that is not empty), `PhysicalConstants`
(the recorded incident is an attempt), `ControlledConstants` (0 stands for no
observed seed), `RegionConstants` (the grid has an inner point; object A holds words)
and `EvidenceConstants` (the kinds of directory are the five of the code).

One theorem has a hypothesis that is about the surroundings and not about a
constant's type: `PresentedIsSound` assumes at most one edit of the sources beside
all commands (`MaxChanges` is 0 or 1).  No presenter or finalizer holds the descriptors still
between its admission and its first comparison: with five edits another version
can be there whenever something is compared and gone whenever something is
admitted, and TLC finds such a run of the requests.  What is presented then still
belongs together, as `PresentedBelongsTogether` says without a hypothesis; only
the version is not the admitted one.

The argument for the authority.  No table's invariant is inductive alone: that
a posted completion has a job in flight needs that bindings are unique, which
needs that every live sequence number is below `next_sequence`, which needs that
rings and slots hold the same jobs.  `AuthorityInv` is their conjunction;
`IInv` adds `TypeOK`, `RefsInBounds` (admission checked each range, and a
registered object never shrinks) and `SnapshotNamesVersion` (versions only grow,
and only a commit changes a version or the bytes).  Each lemma takes one action
and shows one part of `IInv`; the action properties follow from `IInv` and the
definition of the step.

The histories.  `HInv` adds to `IInv` that the open and cancelled fates are
those of the live slots, that a binding that was never issued has none, and that
the basis of a live job has the versions of its bindings and, at those versions,
the bytes of its snapshot.  The last part is what the refinement needs: a
commit is allowed by the tables exactly when the versions are still those of
admission, and `SnapshotNamesVersion` turns equal versions into equal contents,
which is what `TransactionalStore` demands of a commit.

Capabilities and planes.  The capability invariant `CapInv` says that a slot's
generation lies at or above that of every handle issued for it and above that of
every revoked one, that grants are live, and that a delegated slot has a known source
and is a leaf.  `PlaneInv` joins `IInv` and the capabilities with `PlaneSound`
and two facts it rests on: every graph belongs to an installed program
(`GraphsKnown`), and what the ledger holds was issued before any sequence number
still to come (`LedgerPast`), so that an entry is never made twice.

Files.  `WInv` says of each call that what it would take back is its own, that
what it is no longer to do is there and whole, and that an absent entry has no
owner; a step of one call cannot disturb another because it touches only absent
entries and its own.  `RollbackInv` adds, for each call, that every entry it owns is
listed in `created`, open, or explained by an error (`OwnOutputs`, `Listed`), that
what it found where it was to remove is explained as well (`FoundExplained`), which
it gets from the order of the list, contents behind their directories (`ByDepth`);
and that as long as nothing has met it its targets are free and their parents
exist (`Clear`).  `CacheInv` has the lock in it (a stage exists only for the process that
holds it, so the count made under the lock is still right when the directory is
renamed) and, for evidence, that the dependency volume only moves forward: the
simulator's dependencies lie between the two readings, and the readings are
equal.  `JournalInv` needs one fact that no property states: the lines of a
log are recorded in the order of the log (`LinesInOrder`).  Then what a call finds
missing is the rest of its log, and any prefix of a chain, which is all that a
short write or a loss of power leaves, is again a journal that a later call can
complete; and whoever has written has its whole log in the journal, so the
receipt after `fsync` covers events that an earlier call left unsynchronized.
`ReplayInv` says that there is one directory for each key and that it is sealed
once its last leaf is written (`BundlesSound`), so that a replay, which begins
only with a full inventory, holds a sealed key and behind its verification a
valid program (`ReplayerSound`); and that a private copy is never named by
another descriptor (`CopiesNamed`).  Damage and edits may come at any time: what
they could spoil is compared again at the end.

Evidence.  `PromotionInv` follows a promoter through its steps.  A source file
that has the stamp of the first verification is still sealed (`SnapshotOK`); what
was compared with the remote is sealed unless the source had changed by then
(`Compared`), which the verification that follows finds out, so behind it the
remote file is sealed (`Confirmed`); a marker that was read back is the
promoter's own (`ReadBack`).  Another promoter cannot undo any of it, because
the copy leaves alone what is already on the remote.

`CampaignInv` says that what is recorded of the commands before the one that runs
is a success with its whole log (`CommandsSound`), that a report is derived of
complete logs only (`ReportSound`), and that a seal of a report names those bytes
(`SealSound`).  It is inductive because a complete log has no more lines to come,
so output that is forwarded late can only touch the log of a command whose
failure is the last thing recorded.  `PhysicalInv` says of an attempt
that its reports are of a copy that was verified, that metadata which nobody
wrote by hand are of a container that succeeded, and that a seal is of complete
reports without a failure record, whatever subcommands were used by hand
(`AttemptSound`); that the recorded incident has no result, because its list of RTL
files is not clean (`IncidentSound`); and that a decision is over two results of one
manifest and of different designs (`MatrixSound`).  `ControlledInv` compares every
record with what its simulation really did (`RecordSound`).

The static region.  `RegionInv` says, for each cycle of the schedule, what the next
add or the store finds in its operand register: the sum of the cells so far,
modulo the word size (`Accumulated`); that every point before this one is stored as
the oracle has it (`StoredExact`); and that the counts are a function of the point
and the cycle (`CountsExact`), from which the records of the completed run and of
the run cancelled after 17 cycles follow.  It rests on two lemmas about the grid and
the words: the five addresses of an inner point lie in the grid (`Grid`), and
reducing after every add gives what the oracle's one reduction gives
(`AddRemainder`).

Evidence of the graph device.  `EvidenceIInv` keeps each command on its script
(`OnScript`: what is left to do is the end of the script, so its length says what
was done), each directory in order (`DirectoryOK`: outputs and traces are absent,
wrong, or what the artifact demands, and a whole receipt means a prepared
directory), and says for a finalizer what it has established so far while nobody
disturbed it (`Established`: the artifact is the current version's, the output
and the trace are its results, and every digest noted is that of the file).
`ExclusiveOK` says that whoever is about to write a receipt opened exclusively is
the only one, with the receipt still torn.  Then the step that writes a receipt
writes what was established.  For the presenters `PresentedIInv` says what each has
seen at its position (`ShownOK`, `PlayableOK`, `PairOK`), in terms of the artifact of its
directory and not of the current version: an edit does not touch it, and no
command writes artifact or request of a prepared directory, nor marker and
traffic of a session that is marked (`SettledStep`).  `AdmittedIInv` adds
that before the one edit every artifact is the admitted version's and that
nothing is admitted after it.  The scripts are concatenations, which the provers
do not compute: the lemmas `At_...` write each of them out, once.

Board and forks.  `StatusMeans` says what each column of the board stands for in
terms of the issue and its pull request.  It holds between the edits of a command
only together with `Commands`, which says what a command under way has checked
and which of its edits are done; `Limits` needs the check of the command that
starts an item to be still valid at its last edit, which is where an overlapping
command would break it.  So the invariant is `AloneInv`: until commands overlap, all
of this holds and at most one operator has edits to make.  `WipInv` needs none of
it: the items in delivery and those that some command is about to put there are
together at most one more than there are operators, because an operator claims an
item only if it saw fewer than two in delivery, and claims one at a time.
`ForkInv` follows a fork: what it created and has not
taken back is a beginning of its paths, which end in the recipe (`ForkProgress`,
`ForkPhase`), and a recipe in place that the cleanup did not have to retain has
its inputs (`PublishedWhole`); what changed since the last comparison of inodes is
in `window`.

Project runs.  `RunsInv` says that a seal is exact for the inputs it names
(`SealsExact`), which it gets from the run in progress: its directory is its
manifest as long as nobody edited the directory, and its outcome is that of the
manifest unless it is a command whose directory was edited (`RunningExact`); the
other kinds compare what they read with the manifest's digests.  What `garden`
captured agrees with the record it loaded (`ReaderExact`), although the files it
reads later may have been changed by then.  That a report holds is a statement
about two times, so the invariant carries the number of edits at the report:
while it is the current number, the snapshot taken so far is the live files
(`ReportCurrent`, `RunningReported`).

Sessions and parents.  `SessionInv` says that a proposal is of the graph that
is held and of another variant than the baseline (`ProposalSound`), that a candidate is measured only after the baseline was
measured and right (`RunSound`), and that what is held, saved and shown passes the
validation of the directory from the moment it exists; creating a graph clears
what was held, which the mutant of the run `projects` forgets.
`ParentInv` is a walk along the steps: which
children are made, from which source and through which build
(`ParentProgress`), what the verdict promises of them (`VerdictSound`), what the
directory already holds (`RecordSound`), which containers may still exist
(`DockerSound`), and what the caller was told (`AnswerSound`).  The kinds differ
in where they stop and in what they list, so that a record loads for two
reasons: the kinds over a prefix inspected it before they wrote it, and the
others publish a success only over a whole.

Bundles and reuse.  `BundleInv` says that each planned candidate has at most one
record, all of them made before any analysis (`RunRecords`), that selections are those
of the plan (`SelectionsPlanned`), that a gate is the one the files still give
(`GateCurrent`), and how far a seal and a synchronization are at each of their
writes (`SealPhases`, `SyncPhases`), so that the marker is written to the remote
only beside the sealed data, or data of which a file was changed during that
synchronization, behind its verification (`RemoteSound`).  `ShowcaseInv` says that an entry of the cache that
can still be used was computed from the input it names (`EntriesSound`), because a
node that is about to run reads the bytes that were digested (`DigestCurrent`),
as long as no editor rewrites an input.

Each inductive invariant was checked with TLC on the bounds of its run, or
larger ones, before it was proved: `HInv` on 50,033 states, `PlaneInv` on 67,104,
`RollbackInv` on 943,903, `ReplayInv` on 322,725, `CacheInv` on 1,213,856, `JournalInv` on 13,184 (where line
numbers are bounded), `PromotionInv` on 2,351,678, `CampaignInv` on 9,622,
`PhysicalInv` on 1,991,282, `ControlledInv` on 1,263,628, `AloneInv` on 875,315, `WipInv` on 309,052 (two
operators, up to renaming), `ForkInv` on 74,841, `EvidenceIInv` (without its types), `PresentedIInv` and `AdmittedIInv` on 726,073 states with
one edit and the first two on 941,983 with three, `RunsInv` on 572,146, `RegionInv` on 11,956, `SessionInv` on 443,425, `ParentInv` on 103,707, `BundleInv` on 2,337,861
and `ShowcaseInv` on 26,614.

Only model-checked.  `JobsEnd`: liveness under fairness is beyond the prover.
`LoopsSound`, `LoweringExact`, `VerdictExact`, `CommitSound`,
`TraceExact`, `ProfileExact` and the parts of `StoreSound` about loading compare
what is computed along a sequence (a batch, a program, a log, a command
line, a trace) with a reference, which takes induction over data.  So does
`HostSound`: a receipt is exact because the host's allocation of slots is the
guest's, and both are computed recursively along the jobs of a batch.

## 5. Findings

Two runs show a disagreement between the code and what the repository says of
it:

* `workspace_rollback`: `publish_many` adds a target to `created` only after
  its bytes are written (`src/raveil/workspace.py:376`).  When the exclusive
  create succeeds and the write or the close fails, the call takes back
  everything except that file, which stays, empty, torn or whole; the same
  publication is refused from then on because the path exists.  `NoFileLeft`
  excuses a file whose removal was tried and reported an error.  The docstring promises best-effort
  all-or-none publication in which the entries created by the call are removed.
* `command_join`: `emit` keeps only the last node of a pipeline
  (`src/raveil/command_graph.py:445`), so in `a ||| b | c && d` the command `d`
  depends on `c` alone and runs when `a` failed.  ADR-0036 says that a following
  `&&` depends on every branch.

The models also carry properties that the code does not have, each marked so at
its definition.  They are not part of a run; a run of the module with the
property as its only invariant gives the counterexample told here.

| Property | Source | What happens |
|---|---|---|
| `ProjectQueue.MergedCompletes` | `scripts/project_queue.py:871` | two merged items in Review refuse each other's completion: each sees the other's closed issue as an audit error, and retrying does not help |
| `SessionLog.StagedAfterRearm` | `t0044_fixture.py:381` | an invocation staged before the previous one was rearmed is accepted; the order is checked within an invocation only |
| `CampaignRun.OneVerdict` | `t0044_repeated.py:671` | `derive` and `seal` work on a run that was sealed as failed, and it ends with both seals |
| `CampaignRun.FailedSealStable` | `t0044_campaign.py:595` | the log of a failed command is hashed while output is still forwarded; the recovery then refuses the run |
| `CommandGraph.CollisionUncommitted` | `command_graph.py:555` | two branches that start together both write one redirected file, and the line is committed |
| `CommandShowcase.CacheBindsInput` | `command_showcase.py:278` | the input is read again after it was digested: an entry may carry the digest of another input |
| `ResearchBundle.SealedAnalysed` | `experiment_runner.py:776` | an empty `analysis.json`, left by a killed process, is sealed |
| `ResearchBundle.BestOfSlate` | `experiment_runner.py:502` | an outcome file supplied by hand may pick any member of the slate |
| `DynamicSeal.CompilerNamed` | `graph_device_dynamic_sealed.py:227` | the compiler that ran is the imported one, the manifest names the files of later |
| `DynamicSeal.HeadersNamed` | `graph_device_dynamic_sealed.py:266` | a file replaced and put back between the two snapshots is in the sealed headers |
| `DynamicSeal.DescriptorNamed` | `graph_device_dynamic.py:174` | the descriptor is read a second time for its digest |
| `GraphProgram.WindowSafe` | `graph_device_dag.py:198` | the bound is that of the south neighbour; a south-east load of an admitted shape lies one word outside |
| `DeviceTrace.CancelEndsRun` | `graph_device_affine.py:651` | cancel events are counted wherever they stand |
| `DeviceEvidence.PlainOnce` | `graph_device_dag.py:907` | two finalizers both find the receipt absent and the second replaces the first one's |
| `DeviceEvidence.NamesChecked` | `graph_device_dag.py:895` | a rerun of the simulator between comparing and hashing puts the digest of unchecked bytes into the receipt |

More behaviours that the model makes visible, none contradicting a
statement of the repository:

* `experience.py`: a record whose newline was not written is accepted by the next
  load, and the next append joins its own record to that line, after which no
  load accepts the log.  `LoadComplete` shows that this is refused, never
  silently short; `CountsAgree` names the exception.
* `graph_device_build_cache.py`: if sources are edited and edited back during a
  build, the bundle is published under an identity its sources do not have.
  `EvidenceCurrent` shows that the container's comparison of manifests keeps
  it from ever being run; it remains in the cache as an entry no run can use.
* `project_queue.py:651`: two operators who start at once both count the board
  first, and three items come into delivery where the limit is two.  `WipBounded` is
  what is left: the limit and one item for each further operator.
* `project.py:380-384`: the cleanup of a fork compares inodes and then unlinks by
  name, so a file that the user puts there in between is removed; and when the
  published recipe cannot be removed again, its inputs are removed all the same.
  `ForkSound` names both as the exceptions.
* `workspace.py:378-382`: the rollback ignores errors of `unlink` and `rmdir`, so a
  failed publication may leave whole files where a removal failed.
* `t0044_physical.py:398-431`: the run metadata give the container's status as 0
  unread; only the runner checks it.  A failed container with complete reports,
  finished by hand, becomes a result.
* `research_bundle.py:280-308`: a file of a sealed bundle that is changed between a
  synchronization's verification and its copy reaches the remote below the marker;
  the next verification of the bundle refuses, the marker stays.

## 6. Plan

Done: the kernel's authority with its abstract store, capabilities, planes and
fold loops; the files shared by processes; the user's tools; the laboratory's
evidence; the graph device.  Proofs of everything in the table of section 4.

Next, in this order:

1. Proofs: the part of `HostSound` that does not depend on the allocation (which
   lines a right guest may send) is a state machine of the kind proved here;
   `LineClean` of the fold loops needs the loops' order as an invariant and no
   induction.
2. Kernel tasks and IPC: block, wake and yield with endpoint queues, the timer
   and the system calls (`task.c`, `ipc.c`, `context.c`, `user_syscall.c`).
3. Demo shell and boot request backends over `PlaneAuthority`.
4. `t0044_integrated_rtl.py` and the earlier pilots, along `CampaignRun`.

Abstract specifications worth adding: an append-only log that loses at most an
unacknowledged suffix (journal, experience store), and an append-once receipt
that names one content (evidence, seals, records), which several modules here
approximate.

## 7. Not modelled

* The kernel substrate (`task.c`, `ipc.c`, `context.c`, `timer*.c`, `memory.c`,
  `vm.c`, `vfs.c`), the demo shell and the boot request backends
  (`fold_backend.c`, `graph_backend.c`): planned.
* `t0044_integrated_rtl.py` and `t0044_pilot.py`: one-off collections with the
  record, seal and verify steps that `CampaignRun` and `PhysicalEvidence` model.
* The host bridge (`linux/`), registers and RTL (`hardware/chisel/`): user I/O and
  generated hardware; the device appears through its traces.
* Tests and acceptance scripts (Scarbo).
* The wire grammar of transports, logs and JSON records; numeric evaluation
  (fold interpreter, optimizer scores beyond their order, statistics of reports),
  which the models take as values; drawing and prose output.
* File permissions, symbolic links and replacement of a root by hostile
  processes, which the code rejects before anything modelled here happens.
* Two commands that append to one experience file at once: the code has no lock
  and documents none.
