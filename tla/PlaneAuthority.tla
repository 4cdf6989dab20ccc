--------------------------- MODULE PlaneAuthority ---------------------------
(***************************************************************************)
(* The four-plane firewall of Sonatine (the second half of                 *)
(* sonatine/src/job_authority.c): the job authority as the production      *)
(* build exports it.  Every call that installs, registers, admits, stages, *)
(* approves, finalizes or records needs a capability of its own plane;     *)
(* dispatch, completion and cancellation need none.                        *)
(*                                                                         *)
(* The capabilities are the four roots kmain creates for the init task,    *)
(* and what cap_delegate and cap_revoke make of them.  A restart is the    *)
(* pair job_authority_init, plane_authority_init with which the session,   *)
(* chain and DAG loops begin.                                              *)
(***************************************************************************)
EXTENDS JobAuthority, Capability

CONSTANTS
  Programs,             \* the program identities callers install
  Graphs,               \* the graph identities callers install
  InitTask,             \* the task kmain creates the roots for
  PlaneObject,          \* SONATINE_PLANE_AUTHORITY_OBJECT
  ProgramRegistrySize,  \* SONATINE_PROGRAM_REGISTRY_SIZE
  GraphRegistrySize,    \* SONATINE_GRAPH_REGISTRY_SIZE
  LedgerSize            \* SONATINE_EXPERIENCE_LEDGER_SIZE

ASSUME PlaneConstants ==
  /\ Programs \subseteq Nat
  /\ Graphs \subseteq Nat
  /\ InitTask \in Tasks \ {0}
  /\ PlaneObject \in Nat \ {0}
  /\ ProgramRegistrySize \in Nat
  /\ GraphRegistrySize \in Nat
  /\ LedgerSize \in Nat
  /\ CapTableSize >= 4

VARIABLES
  plane_programs,    \* the installed program identities
  plane_graphs,      \* the installed graphs, each with the program it belongs to
  plane_experience   \* the ledger of completions, oldest first

registries == <<plane_programs, plane_graphs, plane_experience>>
pvars == <<vars, cap_table, registries>>

InstalledGraph == [program : Programs, graph : Graphs]

\* Every registry has the shape of its C declaration and fits it.
PlaneTypeOK ==
  /\ CapTypeOK
  /\ plane_programs \subseteq Programs \ {0}
  /\ Cardinality(plane_programs) <= ProgramRegistrySize
  /\ plane_graphs \subseteq InstalledGraph
  /\ plane_experience \in Seq(Completion)
  /\ Len(plane_experience) <= LedgerSize

----------------------------------------------------------------------------
(* The roots, in the order kmain creates them.                             *)

Root(type, rights) ==
  [active |-> TRUE, retired |-> FALSE, generation |-> 1,
   view |-> [owner_task |-> InitTask, object_type |-> type,
             object_id |-> PlaneObject, rights |-> rights]]

RootAt(slot) ==
  CASE slot = 1 -> Root("PROGRAM_AUTHORITY", {"CONTROL"})
    [] slot = 2 -> Root("GRAPH_AUTHORITY", {"CONTROL"})
    [] slot = 3 -> Root("DATA_AUTHORITY", {"WRITE", "CONTROL"})
    [] slot = 4 -> Root("EXPERIENCE_AUTHORITY", {"WRITE", "CONTROL"})

BootCaps ==
  [s \in CapSlots |-> IF s <= 4 THEN RootAt(s)
                      ELSE [active |-> FALSE, retired |-> FALSE,
                            generation |-> 1, view |-> NoView]]

PlaneInit ==
  /\ Init
  /\ cap_table = BootCaps
  /\ plane_programs = {}
  /\ plane_graphs = {}
  /\ plane_experience = <<>>

plane_authority_init ==
  /\ plane_programs' = {}
  /\ plane_graphs' = {}
  /\ plane_experience' = <<>>

\* What fold_session.c, fold_chain.c and fold_dag.c begin with.
PlaneRestart(epoch) ==
  job_authority_init(epoch) /\ plane_authority_init /\ UNCHANGED cap_table

plane_cap_authorized(task, cap, type, right) ==
  /\ cap_resolve(task, cap, type, {right})
  /\ cap_table[HandleSlot(cap)].view.object_id = PlaneObject

----------------------------------------------------------------------------
(* The registries.                                                         *)

\* A program is installed once, while the registry has room.
ProgramFits(identity) ==
  /\ identity # 0
  /\ identity \notin plane_programs
  /\ Cardinality(plane_programs) < ProgramRegistrySize

plane_program_install(task, cap, identity) ==
  /\ plane_cap_authorized(task, cap, "PROGRAM_AUTHORITY", "CONTROL")
  /\ ProgramFits(identity)
  /\ plane_programs' = plane_programs \cup {identity}
  /\ UNCHANGED <<vars, cap_table, plane_graphs, plane_experience>>

\* The program is known, and the graph is not bound to any program yet.
GraphFits(program, graph) ==
  /\ program \in plane_programs
  /\ \A other \in plane_graphs : other.graph # graph

plane_graph_install(task, cap, program, graph) ==
  /\ plane_cap_authorized(task, cap, "GRAPH_AUTHORITY", "CONTROL")
  /\ program # 0 /\ graph # 0
  /\ GraphFits(program, graph)
  /\ Cardinality(plane_graphs) < GraphRegistrySize
  /\ plane_graphs' = plane_graphs \cup {[program |-> program, graph |-> graph]}
  /\ UNCHANGED <<vars, cap_table, plane_programs, plane_experience>>

plane_job_pair_installed(job) ==
  \E entry \in plane_graphs :
    /\ entry.program = job.program_identity
    /\ entry.graph = job.graph_variant_identity

\* Mutant: the record is compared with the shadow's binding only.
Mutant_CanRecord_binding(completion) ==
  /\ Len(plane_experience) # LedgerSize
  /\ find_shadow(completion.binding) # {}
  /\ \A i \in DOMAIN plane_experience : plane_experience[i] # completion

\* Only the completion of a job that waits to be finalized, as it was observed.
CanRecord(completion) ==
  /\ Len(plane_experience) # LedgerSize
  /\ \E slot \in Slots : /\ IsFirst(slot, find_shadow(completion.binding))
                         /\ shadows[slot].completion = completion
  /\ \A i \in DOMAIN plane_experience : plane_experience[i] # completion

plane_experience_record(task, cap, completion) ==
  /\ plane_cap_authorized(task, cap, "EXPERIENCE_AUTHORITY", "WRITE")
  /\ CanRecord(completion)
  /\ plane_experience' = Append(plane_experience, completion)
  /\ UNCHANGED <<vars, cap_table, plane_programs, plane_graphs>>

----------------------------------------------------------------------------
(* The gated calls of the job authority.                                   *)

DataAuthorized(task, cap) == plane_cap_authorized(task, cap, "DATA_AUTHORITY", "WRITE")

plane_data_object_register_bytes(task, cap, manifest, initial) ==
  /\ DataAuthorized(task, cap)
  /\ job_object_register_bytes_core(manifest, initial)
  /\ UNCHANGED <<cap_table, registries>>

plane_job_submit_bound(task, cap, job) ==
  /\ DataAuthorized(task, cap)
  /\ plane_job_pair_installed(job)
  /\ job_submit_bound_core(job)
  /\ UNCHANGED <<cap_table, registries>>

\* Mutant: the approval does not look at what the shadow holds.
Mutant_plane_program_approve(task, cap, binding) ==
  /\ plane_cap_authorized(task, cap, "PROGRAM_AUTHORITY", "CONTROL")
  /\ \E slot \in find_shadow(binding) : shadows' = [shadows EXCEPT ![slot].approved = TRUE]
  /\ UNCHANGED <<objects, submissions, completions, inflight, authority_epoch,
                 next_sequence, cap_table, registries>>

plane_program_approve(task, cap, binding) ==
  /\ plane_cap_authorized(task, cap, "PROGRAM_AUTHORITY", "CONTROL")
  /\ job_shadow_approve_core(binding)
  /\ UNCHANGED <<cap_table, registries>>

plane_data_shadow_write(task, cap, binding, object_id, offset, length, source) ==
  /\ DataAuthorized(task, cap)
  /\ job_shadow_write_core(binding, object_id, offset, length, source)
  /\ UNCHANGED <<cap_table, registries>>

plane_data_finalize(task, cap, binding, commit) ==
  /\ DataAuthorized(task, cap)
  /\ job_shadow_finalize_core(binding, commit)
  /\ UNCHANGED <<cap_table, registries>>

----------------------------------------------------------------------------
\* The calls a task makes with a capability in its hand.
Gated(task, cap) ==
  \/ \E identity \in Programs : plane_program_install(task, cap, identity)
  \/ \E program \in Programs, graph \in Graphs :
       plane_graph_install(task, cap, program, graph)
  \/ \E manifest \in Manifests : \E initial \in [0 .. manifest.byte_length - 1 -> Bytes] :
       plane_data_object_register_bytes(task, cap, manifest, initial)
  \/ \E job \in Jobs : plane_job_submit_bound(task, cap, job)
  \/ \E binding \in Bindings, object_id \in ObjectIds, offset \in Offsets,
        length \in 1 .. MaxBytes :
       \E source \in [0 .. length - 1 -> Bytes] :
         plane_data_shadow_write(task, cap, binding, object_id, offset, length, source)
  \/ \E binding \in Bindings : plane_program_approve(task, cap, binding)
  \/ \E binding \in Bindings, commit \in BOOLEAN :
       plane_data_finalize(task, cap, binding, commit)
  \/ \E binding \in Bindings, status \in Status, outputs \in OutputSets :
       plane_experience_record(task, cap,
         [binding |-> binding, status |-> status, outputs |-> outputs])

\* The calls that need no capability.
Ungated ==
  /\ \/ job_submission_take
     \/ \E binding \in Bindings, status \in Status, outputs \in OutputSets :
          job_completion_post([binding |-> binding, status |-> status, outputs |-> outputs])
     \/ job_completion_take
     \/ \E binding \in Bindings : job_completion_take_bound(binding)
     \/ \E binding \in Bindings : job_cancel(binding)
  /\ UNCHANGED <<cap_table, registries>>

Grants ==
  /\ \/ \E source_owner, target_owner \in Tasks, source \in Handles, rights \in RightSets :
          cap_delegate(source_owner, source, target_owner, rights)
     \/ \E handle \in Handles : cap_revoke(handle)
  /\ UNCHANGED <<vars, registries>>

PlaneNext ==
  \/ \E epoch \in Epochs : PlaneRestart(epoch)
  \/ \E task \in Tasks, cap \in Handles : Gated(task, cap)
  \/ Ungated
  \/ Grants

PlaneSpec == PlaneInit /\ [][PlaneNext]_pvars

----------------------------------------------------------------------------
(* What the firewall promises.                                             *)

\* The production interface is the job authority with fewer behaviours:
\* whatever the capabilities allow, what happens to the authority's tables is
\* a behaviour of JobAuthority, so everything shown there holds here.
ImplementsAuthority == Spec

\* Every job anywhere on its way was admitted for a graph that is still
\* installed, under a program that is still installed: nothing leaves the
\* registries while a job that was admitted through them lives.
LiveJobsInstalled ==
  \A s \in Slots : Live(s) =>
    /\ SubmissionAt(s).job.program_identity \in plane_programs
    /\ plane_job_pair_installed(SubmissionAt(s).job)

\* The ledger holds at most one record of a job, and while the job still waits
\* to be finalized the record is the completion it waits with.
LedgerSound ==
  /\ \A i, j \in DOMAIN plane_experience :
       i # j => plane_experience[i].binding # plane_experience[j].binding
  /\ \A i \in DOMAIN plane_experience, s \in Slots :
       (shadows[s].active /\ binding_matches(plane_experience[i].binding, shadows[s].submission))
         => shadows[s].completion = plane_experience[i]

\* The root is dead once cap_revoke accepted it.
RootRevoked(slot) == ~cap_table[slot].active \/ cap_table[slot].generation # 1

\* Revoking the program root closes the program plane for good: no delegated
\* capability carries CONTROL, so afterwards no program is installed and no job
\* is approved.
ProgramRevocationCloses ==
  [][RootRevoked(1) =>
       /\ plane_programs' \subseteq plane_programs
       /\ \A s \in Slots : shadows'[s].approved => shadows[s].approved]_pvars

\* The planes stay consistent with the jobs that passed through them: registries
\* and ledger have their types and bounds, every live job's program and graph are
\* installed, and the ledger holds each execution once, with its own completion
\* (plane_job_submit, plane_experience_record).
PlaneSound == PlaneTypeOK /\ LiveJobsInstalled /\ LedgerSound

============================================================================
