---------------------------- MODULE JobContract ----------------------------
(***************************************************************************)
(* The Couperin job contract: what Sonatine requires of a job descriptor,  *)
(* of the completion record a backend returns for it, and of an object     *)
(* manifest, before any of the three may touch the authority's state       *)
(* (contracts/src/job_contract.c and contracts/src/object_manifest.c).     *)
(*                                                                         *)
(* Header fields (magic, schema version, struct size, reserved words), the *)
(* nonzero identities and the declared resource maxima are properties of   *)
(* one descriptor that no state of the system can change.  A descriptor    *)
(* that fails them is refused before anything is read, so the descriptors  *)
(* of this model all pass them.                                            *)
(***************************************************************************)
EXTENDS Integers, FiniteSets

CONSTANTS
  ObjectIds,    \* the nonzero identities an object may have
  MaxObjects,   \* RAVEIL_JOB_MAX_OBJECTS
  U64Max        \* UINT64_MAX: the largest version, offset and sequence number

ASSUME ContractConstants ==
  /\ MaxObjects \in Nat \ {0}
  /\ U64Max \in Nat \ {0}

Access == {"READ", "WRITE"}
Status == {"EXECUTED", "REJECTED", "CANCELLED", "FAULT"}

\* struct raveil_object_manifest_v1: the identity and the limits of an object.
Manifest ==
  [object_id : ObjectIds, generation : Nat, version : 0 .. U64Max,
   byte_length : Nat, permitted_access : SUBSET Access,
   backing : {"VOLATILE", "IMMUTABLE"}]

\* struct raveil_object_ref_v1: one byte range of one version of an object.
ObjectRef ==
  [object_id : ObjectIds, generation : Nat, expected_version : 0 .. U64Max,
   offset : Nat, length : Nat, access : Access]

\* struct raveil_object_version_v1: the version a backend says it produced.
ObjectVersion ==
  [object_id : ObjectIds, generation : Nat, version : 0 .. U64Max]

\* The references of a descriptor are distinct objects once it is admitted,
\* so the order of the array the code keeps them in cannot be observed.
JobDescriptor ==
  [job_id : Nat, refs : SUBSET ObjectRef,
   program_identity : Nat, graph_variant_identity : Nat]

Covers(ref) == ref.offset .. ref.offset + ref.length - 1

ReadRefs(job) == {ref \in job.refs : ref.access = "READ"}
WriteRefs(job) == {ref \in job.refs : ref.access = "WRITE"}

----------------------------------------------------------------------------
raveil_object_manifest_validate_v1(manifest) ==
  /\ manifest.generation # 0
  /\ manifest.version # 0
  /\ manifest.byte_length # 0
  /\ manifest.permitted_access \in {{"READ"}, {"READ", "WRITE"}}
  /\ manifest.backing = "IMMUTABLE" => manifest.permitted_access = {"READ"}

valid_object(ref) ==
  /\ ref.generation # 0
  /\ ref.expected_version # 0
  /\ ref.length # 0
  /\ ref.offset <= U64Max - ref.length

raveil_job_descriptor_validate_v1(job) ==
  /\ job.job_id # 0
  /\ job.program_identity # 0
  /\ job.graph_variant_identity # 0
  /\ Cardinality(job.refs) \in 1 .. MaxObjects
  /\ \A ref \in job.refs : valid_object(ref)
  /\ \A left, right \in job.refs :
       left # right => \/ left.object_id # right.object_id
                       \/ left.generation # right.generation

\* write_ref: an output must name the object and generation of a WRITE
\* reference, with a version later than the one the job was admitted against.
NamesWriteRef(job, output) ==
  \E ref \in WriteRefs(job) :
    /\ output.object_id = ref.object_id
    /\ output.generation = ref.generation
    /\ output.version > ref.expected_version

\* A completion that did not execute promises no output; one that did
\* promises exactly one new version for every WRITE reference.
raveil_completion_record_validate_v1(job, completion) ==
  /\ raveil_job_descriptor_validate_v1(job)
  /\ completion.binding.job_id = job.job_id
  /\ completion.binding.execution_epoch # 0
  /\ completion.binding.execution_sequence # 0
  /\ IF completion.status # "EXECUTED"
       THEN completion.outputs = {}
       ELSE /\ Cardinality(completion.outputs) = Cardinality(WriteRefs(job))
            /\ \A output \in completion.outputs : NamesWriteRef(job, output)
            /\ \A left, right \in completion.outputs :
                 left # right => \/ left.object_id # right.object_id
                                 \/ left.generation # right.generation
============================================================================
