---------------------------- MODULE JobAuthority ----------------------------
(***************************************************************************)
(* Sonatine's job authority (sonatine/src/job_authority.c): the object     *)
(* table, the submission and completion rings, the table of jobs being     *)
(* executed and the table of shadows waiting to be finalized.              *)
(*                                                                         *)
(* A job is admitted against exact object versions, dispatched to a        *)
(* backend, answered by a completion record, moved to a shadow, staged     *)
(* byte by byte, approved, and then either published in one step or        *)
(* dropped.  It may be cancelled at every point of that path.              *)
(*                                                                         *)
(* The kernel has one hart and the authority is not reentrant, so every    *)
(* call is one step; what interleaves is the order in which trusted        *)
(* clients and the backend make their calls.  A call the code refuses      *)
(* changes nothing and is not a step; its condition is an operator of its  *)
(* own so that the modules of the callers can branch on it.                *)
(*                                                                         *)
(* The rings are sequences here: submission_read, submission_write and     *)
(* submission_used are the representation of one.                          *)
(***************************************************************************)
EXTENDS JobContract, Sequences

CONSTANTS
  Manifests,        \* the manifests callers offer for registration
  Jobs,             \* the descriptors callers submit
  Bindings,         \* the bindings callers and backends present, stale and forged ones included
  OutputSets,       \* the sets of outputs a backend reports
  Epochs,           \* the epochs job_authority_init is called with
  Bytes,            \* the values of a byte
  MaxBytes,         \* SONATINE_OBJECT_MAX_BYTES
  ObjectTableSize,  \* SONATINE_OBJECT_TABLE_SIZE
  RingDepth,        \* SONATINE_JOB_RING_DEPTH
  Mix(_, _)         \* job_id ^ epoch ^ constant, the first half of a cookie

Slots == 1 .. RingDepth
Offsets == 0 .. MaxBytes - 1
Content == [Offsets -> Bytes]

\* struct sonatine_job_binding: the full identity of one admitted job.
Binding ==
  [job_id : Nat, execution_epoch : Nat, execution_sequence : 0 .. U64Max,
   completion_cookie : Nat \X (0 .. U64Max)]

ASSUME AuthorityConstants ==
  /\ Manifests \subseteq Manifest
  /\ Jobs \subseteq JobDescriptor
  /\ Bindings \subseteq Binding
  /\ \A job \in Jobs : IsFiniteSet(job.refs)
  /\ OutputSets \subseteq SUBSET ObjectVersion
  /\ \A outputs \in OutputSets : IsFiniteSet(outputs)
  /\ Epochs \subseteq Nat
  /\ 0 \in Bytes
  /\ MaxBytes \in Nat \ {0}
  /\ ObjectTableSize \in Nat \ {0}
  /\ RingDepth \in Nat \ {0}

ASSUME MixIsNat ==
  \A job \in Jobs, epoch \in Epochs \cup {1} : Mix(job.job_id, epoch) \in Nat

VARIABLES
  objects,          \* objects[id]: its table slot, zeroed when id is not registered
  submissions,      \* the submission ring, oldest first
  completions,      \* the completion ring, oldest first
  inflight,         \* inflight[s]: the job in slot s that has no observed completion yet
  shadows,          \* shadows[s]: the job in slot s that waits to be finalized
  authority_epoch,
  next_sequence

vars == <<objects, submissions, completions, inflight, shadows,
          authority_epoch, next_sequence>>

----------------------------------------------------------------------------
(* The records, and their zeroed values.                                   *)

ZeroContent == [i \in Offsets |-> 0]
ZeroImage == [id \in ObjectIds |-> ZeroContent]

ZeroJob == [job_id |-> 0, refs |-> {}, program_identity |-> 0,
            graph_variant_identity |-> 0]
ZeroSubmission == [job |-> ZeroJob, execution_epoch |-> 0,
                   execution_sequence |-> 0, completion_cookie |-> <<0, 0>>]
ZeroBinding == [job_id |-> 0, execution_epoch |-> 0, execution_sequence |-> 0,
                completion_cookie |-> <<0, 0>>]
ZeroCompletion == [binding |-> ZeroBinding, status |-> "FAULT", outputs |-> {}]

ZeroObject == [active |-> FALSE, generation |-> 0, version |-> 0,
               byte_length |-> 0, permitted_access |-> {}, visible |-> ZeroContent]
ZeroInflight == [active |-> FALSE, dispatched |-> FALSE, completion_posted |-> FALSE,
                 cancel_requested |-> FALSE, submission |-> ZeroSubmission,
                 snapshot |-> ZeroImage]
ZeroShadow == [active |-> FALSE, approved |-> FALSE, cancel_requested |-> FALSE,
               submission |-> ZeroSubmission, completion |-> ZeroCompletion,
               bytes |-> ZeroImage, staged |-> [id \in ObjectIds |-> {}]]

Object == [active : BOOLEAN, generation : Nat, version : 0 .. U64Max,
           byte_length : 0 .. MaxBytes, permitted_access : SUBSET Access,
           visible : Content]
Submission == [job : Jobs \cup {ZeroJob}, execution_epoch : Nat,
               execution_sequence : 0 .. U64Max,
               completion_cookie : Nat \X (0 .. U64Max)]
Completion == [binding : Binding, status : Status, outputs : OutputSets \cup {{}}]
InflightSlot == [active : BOOLEAN, dispatched : BOOLEAN, completion_posted : BOOLEAN,
                 cancel_requested : BOOLEAN, submission : Submission,
                 snapshot : [ObjectIds -> Content]]
ShadowSlot == [active : BOOLEAN, approved : BOOLEAN, cancel_requested : BOOLEAN,
               submission : Submission, completion : Completion,
               bytes : [ObjectIds -> Content], staged : [ObjectIds -> SUBSET Nat]]

\* Every table has the shape of its C declaration.
TypeOK ==
  /\ objects \in [ObjectIds -> Object]
  /\ submissions \in Seq(Submission)
  /\ completions \in Seq(Completion)
  /\ inflight \in [Slots -> InflightSlot]
  /\ shadows \in [Slots -> ShadowSlot]
  /\ authority_epoch \in (Epochs \cup {1}) \ {0}
  /\ next_sequence \in 0 .. U64Max

----------------------------------------------------------------------------
(* Identities and searches.                                                *)

make_cookie(job_id, epoch, sequence) == <<Mix(job_id, epoch), sequence>>

binding_from_submission(submission) ==
  [job_id |-> submission.job.job_id,
   execution_epoch |-> submission.execution_epoch,
   execution_sequence |-> submission.execution_sequence,
   completion_cookie |-> submission.completion_cookie]

\* Mutant: a binding is recognised by its job and epoch alone.
Mutant_binding_matches(binding, submission) ==
  /\ binding.job_id = submission.job.job_id
  /\ binding.execution_epoch = submission.execution_epoch

binding_matches(binding, submission) ==
  /\ binding.job_id = submission.job.job_id
  /\ binding.execution_epoch = submission.execution_epoch
  /\ binding.execution_sequence = submission.execution_sequence
  /\ binding.completion_cookie = submission.completion_cookie

submission_matches(left, right) ==
  binding_matches(binding_from_submission(left), right)

\* The loops of the code stop at the lowest slot that qualifies.
IsFirst(slot, candidates) ==
  /\ slot \in candidates
  /\ \A other \in candidates : slot <= other

find_inflight(binding) ==
  {s \in Slots : inflight[s].active /\ binding_matches(binding, inflight[s].submission)}

find_shadow(binding) ==
  {s \in Slots : shadows[s].active /\ binding_matches(binding, shadows[s].submission)}

LiveJobs ==
  {inflight[s].submission.job.job_id : s \in {t \in Slots : inflight[t].active}}
    \cup {shadows[s].submission.job.job_id : s \in {t \in Slots : shadows[t].active}}

\* Mutant: the slot of a job that has not been observed is handed out again.
Mutant_FreeSlots == {s \in Slots : ~shadows[s].active}

FreeSlots == {s \in Slots : ~inflight[s].active /\ ~shadows[s].active}

\* The ring without its entry number i, the later entries moved down by one.
DropAt(ring, i) ==
  [n \in 1 .. Len(ring) - 1 |-> IF n < i THEN ring[n] ELSE ring[n + 1]]

----------------------------------------------------------------------------
(* Initialization and the object table.                                    *)

Init ==
  /\ objects = [id \in ObjectIds |-> ZeroObject]
  /\ submissions = <<>>
  /\ completions = <<>>
  /\ inflight = [s \in Slots |-> ZeroInflight]
  /\ shadows = [s \in Slots |-> ZeroShadow]
  /\ authority_epoch \in {IF epoch = 0 THEN 1 ELSE epoch : epoch \in Epochs}
  /\ next_sequence = 1

\* job_authority_init clears everything, whatever was in progress.
job_authority_init(epoch) ==
  /\ objects' = [id \in ObjectIds |-> ZeroObject]
  /\ submissions' = <<>>
  /\ completions' = <<>>
  /\ inflight' = [s \in Slots |-> ZeroInflight]
  /\ shadows' = [s \in Slots |-> ZeroShadow]
  /\ authority_epoch' = IF epoch = 0 THEN 1 ELSE epoch
  /\ next_sequence' = 1

CanRegister(manifest) ==
  /\ raveil_object_manifest_validate_v1(manifest)
  /\ manifest.byte_length <= MaxBytes
  /\ ~objects[manifest.object_id].active
  /\ Cardinality({id \in ObjectIds : objects[id].active}) < ObjectTableSize

job_object_register_bytes_core(manifest, initial) ==
  /\ CanRegister(manifest)
  /\ objects' = [objects EXCEPT ![manifest.object_id] =
       [active |-> TRUE, generation |-> manifest.generation,
        version |-> manifest.version, byte_length |-> manifest.byte_length,
        permitted_access |-> manifest.permitted_access,
        visible |-> [i \in Offsets |-> IF i < manifest.byte_length THEN initial[i] ELSE 0]]]
  /\ UNCHANGED <<submissions, completions, inflight, shadows,
                 authority_epoch, next_sequence>>

----------------------------------------------------------------------------
(* Admission and dispatch.                                                 *)

\* The reference names a registered object, its generation, and a range in it.
RefInRange(ref) ==
  LET object == objects[ref.object_id] IN
    /\ object.active
    /\ object.generation = ref.generation
    /\ ref.offset <= object.byte_length
    /\ ref.length <= object.byte_length - ref.offset

admitted(job) ==
  /\ raveil_job_descriptor_validate_v1(job)
  /\ \A ref \in job.refs :
       /\ RefInRange(ref)
       /\ objects[ref.object_id].version = ref.expected_version
       /\ ref.access \in objects[ref.object_id].permitted_access
       /\ ref.access = "WRITE" => ref.expected_version # U64Max

CanSubmit(job) ==
  /\ admitted(job)
  /\ Len(submissions) # RingDepth
  /\ next_sequence # 0
  /\ FreeSlots # {}
  /\ job.job_id \notin LiveJobs

\* uint64_t: the number after the last one is 0, which admits nothing more.

SequenceAfter(sequence) == (sequence + 1) % (U64Max + 1)

\* Mutant: an object the job only writes is not copied.
Mutant_SnapshotFor(job) ==
  [id \in ObjectIds |-> IF \E ref \in ReadRefs(job) : ref.object_id = id
                          THEN objects[id].visible ELSE ZeroContent]

\* Every referenced object is copied whole, at the version just admitted.
SnapshotFor(job) ==
  [id \in ObjectIds |-> IF \E ref \in job.refs : ref.object_id = id
                          THEN objects[id].visible ELSE ZeroContent]

NewSubmission(job) ==
  [job |-> job, execution_epoch |-> authority_epoch,
   execution_sequence |-> next_sequence,
   completion_cookie |-> make_cookie(job.job_id, authority_epoch, next_sequence)]

job_submit_bound_core(job) ==
  /\ CanSubmit(job)
  /\ \E slot \in Slots :
       /\ IsFirst(slot, FreeSlots)
       /\ inflight' = [inflight EXCEPT ![slot] =
            [active |-> TRUE, dispatched |-> FALSE, completion_posted |-> FALSE,
             cancel_requested |-> FALSE, submission |-> NewSubmission(job),
             snapshot |-> SnapshotFor(job)]]
  /\ submissions' = Append(submissions, NewSubmission(job))
  /\ next_sequence' = SequenceAfter(next_sequence)
  /\ UNCHANGED <<objects, completions, shadows, authority_epoch>>

\* The slots an entry of the submission ring can dispatch.
DispatchSlots(submission) ==
  {s \in Slots : /\ inflight[s].active
                 /\ ~inflight[s].dispatched
                 /\ submission_matches(inflight[s].submission, submission)}

\* The ring position job_submission_take stops at: it skips the entries
\* that no longer have an undispatched job, and empties the ring when none has.
TakePosition ==
  LET live == {i \in DOMAIN submissions : DispatchSlots(submissions[i]) # {}} IN
    IF live = {} THEN Len(submissions)
    ELSE CHOOSE i \in live : \A j \in live : i <= j

job_submission_take ==
  /\ submissions # <<>>
  /\ inflight' = [s \in Slots |->
       IF IsFirst(s, DispatchSlots(submissions[TakePosition]))
         THEN [inflight[s] EXCEPT !.dispatched = TRUE] ELSE inflight[s]]
  /\ submissions' = SubSeq(submissions, TakePosition + 1, Len(submissions))
  /\ UNCHANGED <<objects, completions, shadows, authority_epoch, next_sequence>>

\* job_submission_read copies bytes of a READ range out of the snapshot of a
\* job that is being executed; these are the objects it serves for slot s.
ReadableObjects(slot) ==
  IF /\ inflight[slot].active
     /\ inflight[slot].dispatched
     /\ ~inflight[slot].completion_posted
     /\ ~inflight[slot].cancel_requested
    THEN {ref.object_id : ref \in ReadRefs(inflight[slot].submission.job)}
    ELSE {}

----------------------------------------------------------------------------
(* Completion.                                                             *)

\* Mutant: the completion of a cancelled job is refused.
Mutant_AwaitsCompletion_cancelled(slot) ==
  /\ inflight[slot].active
  /\ inflight[slot].dispatched
  /\ ~inflight[slot].completion_posted
  /\ ~inflight[slot].cancel_requested

AwaitsCompletion(slot) ==
  /\ inflight[slot].active
  /\ inflight[slot].dispatched
  /\ ~inflight[slot].completion_posted

\* The slots a completion record answers.
AnsweredSlots(completion) ==
  {s \in Slots :
     /\ AwaitsCompletion(s)
     /\ binding_matches(completion.binding, inflight[s].submission)
     /\ raveil_completion_record_validate_v1(inflight[s].submission.job, completion)}

CanPost(completion) ==
  /\ Len(completions) # RingDepth
  /\ AnsweredSlots(completion) # {}

job_completion_post(completion) ==
  /\ CanPost(completion)
  /\ completions' = Append(completions, completion)
  /\ \E slot \in Slots :
       /\ IsFirst(slot, AnsweredSlots(completion))
       /\ inflight' = [inflight EXCEPT ![slot].completion_posted = TRUE]
  /\ UNCHANGED <<objects, submissions, shadows, authority_epoch, next_sequence>>

\* The slots whose job the completion taken from the ring belongs to.
PostedSlots(completion) ==
  {s \in Slots : /\ inflight[s].active
                 /\ inflight[s].completion_posted
                 /\ binding_matches(completion.binding, inflight[s].submission)}

\* Mutant: the cancellation is forgotten when the completion is observed.
Mutant_ShadowOf(slot, completion) ==
  [ZeroShadow EXCEPT !.active = TRUE,
                     !.submission = inflight[slot].submission,
                     !.completion = completion]

ShadowOf(slot, completion) ==
  [ZeroShadow EXCEPT !.active = TRUE,
                     !.cancel_requested = inflight[slot].cancel_requested,
                     !.submission = inflight[slot].submission,
                     !.completion = completion]

\* completion_move_to_shadow: the job leaves inflight for the shadow of the
\* same slot.
completion_move_to_shadow(completion) ==
  /\ shadows' = [s \in Slots |-> IF IsFirst(s, PostedSlots(completion))
                                   THEN ShadowOf(s, completion) ELSE shadows[s]]
  /\ inflight' = [s \in Slots |-> IF IsFirst(s, PostedSlots(completion))
                                    THEN ZeroInflight ELSE inflight[s]]

completion_take_offset(i) ==
  /\ completions' = DropAt(completions, i)
  /\ completion_move_to_shadow(completions[i])
  /\ UNCHANGED <<objects, submissions, authority_epoch, next_sequence>>

job_completion_take ==
  /\ completions # <<>>
  /\ completion_take_offset(1)

\* job_completion_pending, and the position job_completion_take_bound takes.
PendingFor(binding) == {i \in DOMAIN completions : completions[i].binding = binding}

job_completion_take_bound(binding) ==
  \E i \in DOMAIN completions :
    /\ IsFirst(i, PendingFor(binding))
    /\ completion_take_offset(i)

----------------------------------------------------------------------------
(* Cancellation.                                                           *)

\* Mutant: the entry of the cancelled job stays in the ring.
Mutant_PurgedRing(binding) == submissions

\* The purge of a queued cancellation.  Sequence numbers are never reused, so
\* at most one entry of the ring can match and dropping it keeps the others.
PurgedRing(binding) ==
  LET matching == {i \in DOMAIN submissions : binding_matches(binding, submissions[i])} IN
    IF matching = {} THEN submissions
    ELSE DropAt(submissions, CHOOSE i \in matching : TRUE)

CancelQueued(binding) ==
  \E slot \in Slots :
    /\ IsFirst(slot, find_inflight(binding))
    /\ ~inflight[slot].cancel_requested
    /\ ~inflight[slot].dispatched
    /\ submissions' = PurgedRing(binding)
    /\ inflight' = [inflight EXCEPT ![slot] = ZeroInflight]
    /\ UNCHANGED <<objects, completions, shadows, authority_epoch, next_sequence>>

CancelDispatched(binding) ==
  \E slot \in Slots :
    /\ IsFirst(slot, find_inflight(binding))
    /\ ~inflight[slot].cancel_requested
    /\ inflight[slot].dispatched
    /\ inflight' = [inflight EXCEPT ![slot].cancel_requested = TRUE,
                                    ![slot].snapshot = ZeroImage]
    /\ UNCHANGED <<objects, submissions, completions, shadows,
                   authority_epoch, next_sequence>>

\* Mutant: an approval given before the cancellation survives it.
Mutant_CancelledShadow(shadow) == [shadow EXCEPT !.cancel_requested = TRUE]

CancelledShadow(shadow) ==
  [shadow EXCEPT !.cancel_requested = TRUE,
                 !.approved = FALSE,
                 !.bytes = ZeroImage,
                 !.staged = [id \in ObjectIds |-> {}]]

CancelShadow(binding) ==
  /\ find_inflight(binding) = {}
  /\ \E slot \in Slots :
       /\ IsFirst(slot, find_shadow(binding))
       /\ ~shadows[slot].cancel_requested
       /\ shadows' = [shadows EXCEPT ![slot] = CancelledShadow(shadows[slot])]
  /\ UNCHANGED <<objects, submissions, completions, inflight,
                 authority_epoch, next_sequence>>

job_cancel(binding) ==
  CancelQueued(binding) \/ CancelDispatched(binding) \/ CancelShadow(binding)

----------------------------------------------------------------------------
(* Staging, approval and finalization.                                     *)

MayStage(shadow) ==
  /\ ~shadow.approved
  /\ ~shadow.cancel_requested
  /\ shadow.completion.status = "EXECUTED"

\* The write lies in one WRITE range of the job and overlaps nothing staged.
CanStage(shadow, object_id, offset, length) ==
  /\ MayStage(shadow)
  /\ length # 0
  /\ \E ref \in WriteRefs(shadow.submission.job) :
       /\ ref.object_id = object_id
       /\ offset >= ref.offset
       /\ offset <= ref.offset + ref.length
       /\ length <= ref.offset + ref.length - offset
  /\ shadow.staged[object_id] \cap (offset .. offset + length - 1) = {}

\* source[i] is byte i of the caller's buffer.
job_shadow_write_core(binding, object_id, offset, length, source) ==
  /\ \E slot \in Slots :
       /\ IsFirst(slot, find_shadow(binding))
       /\ CanStage(shadows[slot], object_id, offset, length)
       /\ shadows' = [shadows EXCEPT
            ![slot].bytes[object_id] =
               [i \in Offsets |-> IF i \in offset .. offset + length - 1
                                    THEN source[i - offset] ELSE @[i]],
            ![slot].staged[object_id] = @ \cup (offset .. offset + length - 1)]
  /\ UNCHANGED <<objects, submissions, completions, inflight,
                 authority_epoch, next_sequence>>

CanApprove(shadow) ==
  /\ ~shadow.cancel_requested
  /\ shadow.completion.status = "EXECUTED"
  /\ \A ref \in WriteRefs(shadow.submission.job) :
       Covers(ref) \subseteq shadow.staged[ref.object_id]

job_shadow_approve_core(binding) ==
  /\ \E slot \in Slots :
       /\ IsFirst(slot, find_shadow(binding))
       /\ CanApprove(shadows[slot])
       /\ shadows' = [shadows EXCEPT ![slot].approved = TRUE]
  /\ UNCHANGED <<objects, submissions, completions, inflight,
                 authority_epoch, next_sequence>>

\* Mutant: only the references the job writes are looked at again.
Mutant_RefsCurrent(job) ==
  \A ref \in WriteRefs(job) :
    RefInRange(ref) /\ objects[ref.object_id].version = ref.expected_version

\* Every reference is still at the version the job was admitted against.
RefsCurrent(job) ==
  \A ref \in job.refs :
    RefInRange(ref) /\ objects[ref.object_id].version = ref.expected_version

\* Every output is the exact successor of the visible version.
OutputsSuccessors(completion) ==
  \A output \in completion.outputs :
    LET object == objects[output.object_id] IN
      /\ object.active
      /\ object.generation = output.generation
      /\ object.version # U64Max
      /\ output.version = object.version + 1

MayCommit(shadow) == ~shadow.cancel_requested /\ shadow.approved

\* SONATINE_FINALIZE_COMMITTED, as opposed to ROLLED_BACK or CONFLICT.
Commits(shadow, commit) ==
  /\ commit
  /\ MayCommit(shadow)
  /\ RefsCurrent(shadow.submission.job)
  /\ OutputsSuccessors(shadow.completion)

\* All bytes of all WRITE ranges, then all versions.
Published(shadow) ==
  [id \in ObjectIds |->
     [objects[id] EXCEPT
        !.visible = [i \in Offsets |->
           IF \E ref \in WriteRefs(shadow.submission.job) :
                ref.object_id = id /\ i \in Covers(ref)
             THEN shadow.bytes[id][i] ELSE @[i]],
        !.version =
           IF \E output \in shadow.completion.outputs : output.object_id = id
             THEN (CHOOSE output \in shadow.completion.outputs :
                     output.object_id = id).version
             ELSE @]]

\* Finalization ends the job in every case: the slot is zeroed.
job_shadow_finalize_core(binding, commit) ==
  /\ \E slot \in Slots :
       /\ IsFirst(slot, find_shadow(binding))
       /\ shadows' = [shadows EXCEPT ![slot] = ZeroShadow]
       /\ objects' = IF Commits(shadows[slot], commit)
                       THEN Published(shadows[slot]) ELSE objects
  /\ UNCHANGED <<submissions, completions, inflight, authority_epoch, next_sequence>>

----------------------------------------------------------------------------
Next ==
  \/ \E epoch \in Epochs : job_authority_init(epoch)
  \/ \E manifest \in Manifests : \E initial \in [0 .. manifest.byte_length - 1 -> Bytes] :
       job_object_register_bytes_core(manifest, initial)
  \/ \E job \in Jobs : job_submit_bound_core(job)
  \/ job_submission_take
  \/ \E binding \in Bindings, status \in Status, outputs \in OutputSets :
       job_completion_post([binding |-> binding, status |-> status, outputs |-> outputs])
  \/ job_completion_take
  \/ \E binding \in Bindings : job_completion_take_bound(binding)
  \/ \E binding \in Bindings : job_cancel(binding)
  \/ \E binding \in Bindings, object_id \in ObjectIds, offset \in Offsets,
        length \in 1 .. MaxBytes :
       \E source \in [0 .. length - 1 -> Bytes] :
         job_shadow_write_core(binding, object_id, offset, length, source)
  \/ \E binding \in Bindings : job_shadow_approve_core(binding)
  \/ \E binding \in Bindings, commit \in BOOLEAN :
       job_shadow_finalize_core(binding, commit)

Spec == Init /\ [][Next]_vars
----------------------------------------------------------------------------
(* Safety.                                                                 *)

Live(slot) == inflight[slot].active \/ shadows[slot].active

\* The submission a live slot is about.
SubmissionAt(slot) ==
  IF inflight[slot].active THEN inflight[slot].submission ELSE shadows[slot].submission

\* job_submit_bound_core and completion_move_to_shadow share the slot index:
\* a job is in execution or in a shadow, never in both.
SlotsExclusive == \A s \in Slots : ~(inflight[s].active /\ shadows[s].active)

\* What the slot holds is a job that was really admitted under this epoch,
\* with a number the counter has already passed.
LiveWellFormed ==
  \A s \in Slots : Live(s) =>
    /\ SubmissionAt(s).job \in Jobs
    /\ raveil_job_descriptor_validate_v1(SubmissionAt(s).job)
    /\ \A left, right \in SubmissionAt(s).job.refs :
         left.object_id = right.object_id => left = right
    /\ SubmissionAt(s).execution_epoch = authority_epoch
    /\ SubmissionAt(s).execution_sequence # 0
    /\ next_sequence # 0 => SubmissionAt(s).execution_sequence < next_sequence

\* Two live jobs differ in job_id and in sequence number, so a full binding
\* and even the job_id alone names at most one of them.
LiveDistinct ==
  \A s, t \in Slots : (s # t /\ Live(s) /\ Live(t)) =>
    /\ SubmissionAt(s).job.job_id # SubmissionAt(t).job.job_id
    /\ SubmissionAt(s).execution_sequence # SubmissionAt(t).execution_sequence

Queued(slot) == inflight[slot].active /\ ~inflight[slot].dispatched
Posted(slot) == inflight[slot].active /\ inflight[slot].completion_posted

\* The submission ring holds exactly the undispatched jobs, in the order they
\* were admitted, each of them once.
QueueExact ==
  /\ \A i \in DOMAIN submissions : \E s \in Slots :
       Queued(s) /\ inflight[s].submission = submissions[i]
  /\ \A s \in Slots : Queued(s) =>
       \E i \in DOMAIN submissions : submissions[i] = inflight[s].submission
  /\ \A i, j \in DOMAIN submissions : i < j =>
       submissions[i].execution_sequence < submissions[j].execution_sequence

\* The completion ring holds exactly one valid record for every job that was
\* answered and not yet observed, and every such job was dispatched.
PendingExact ==
  /\ \A i \in DOMAIN completions : \E s \in Slots :
       /\ Posted(s)
       /\ binding_matches(completions[i].binding, inflight[s].submission)
       /\ raveil_completion_record_validate_v1(inflight[s].submission.job, completions[i])
  /\ \A s \in Slots : Posted(s) =>
       /\ inflight[s].dispatched
       /\ \E i \in DOMAIN completions :
            binding_matches(completions[i].binding, inflight[s].submission)
  /\ \A i, j \in DOMAIN completions : i # j =>
       completions[i].binding # completions[j].binding

\* A shadow carries the valid completion of its own job; an approved one is
\* uncancelled, executed and completely staged; a cancelled one holds no byte.
ShadowSound ==
  \A s \in Slots : shadows[s].active =>
    /\ binding_matches(shadows[s].completion.binding, shadows[s].submission)
    /\ raveil_completion_record_validate_v1(shadows[s].submission.job, shadows[s].completion)
    /\ shadows[s].approved => CanApprove(shadows[s])
    /\ shadows[s].cancel_requested => /\ shadows[s].bytes = ZeroImage
                                      /\ \A id \in ObjectIds : shadows[s].staged[id] = {}

\* The bookkeeping of the authority agrees across its four tables.
AuthorityInv ==
  /\ SlotsExclusive
  /\ LiveWellFormed
  /\ LiveDistinct
  /\ QueueExact
  /\ PendingExact
  /\ ShadowSound

\* Every byte the code addresses through a reference of a live job lies in the
\* object's slot, and in the arrays of the snapshot and of the shadow, which
\* job_shadow_write_core and job_shadow_finalize_core index without a test of
\* their own; and no live job waits for a version the object has not reached.
RefsInBounds ==
  \A s \in Slots : Live(s) =>
    \A ref \in SubmissionAt(s).job.refs :
      /\ objects[ref.object_id].active
      /\ objects[ref.object_id].generation = ref.generation
      /\ ref.offset + ref.length <= objects[ref.object_id].byte_length
      /\ ref.expected_version <= objects[ref.object_id].version

\* The bytes job_submission_read serves to a running job are the visible
\* bytes of the object for as long as its version is the one the job was
\* admitted against: a version number names one content.
SnapshotNamesVersion ==
  \A s \in Slots : (inflight[s].active /\ ~inflight[s].cancel_requested) =>
    \A ref \in inflight[s].submission.job.refs :
      objects[ref.object_id].version = ref.expected_version =>
        inflight[s].snapshot[ref.object_id] = objects[ref.object_id].visible

\* No call is refused because a ring is full while the slot tables have room:
\* an admissible job finds a ring entry whenever it finds a slot, and the
\* answer to a dispatched job can always be posted (job_submit_bound_core and
\* job_completion_post test the rings only against SONATINE_JOB_RING_DEPTH).
RingsNeverBlock ==
  /\ FreeSlots # {} => Len(submissions) < RingDepth
  /\ (\E s \in Slots : AwaitsCompletion(s)) => Len(completions) < RingDepth

\* The inductive invariant behind all of the above.
IInv == TypeOK /\ AuthorityInv /\ RefsInBounds /\ SnapshotNamesVersion

\* A step that changes a registered object is the commit of one approved,
\* uncancelled, executed job whose references are all still at the version it
\* was admitted against; it ends that job, gives every object the job writes
\* its successor version and the staged bytes in the written range, and leaves
\* everything else as it was.
PublishesAtomically(slot) ==
  LET job == shadows[slot].submission.job
      written == {ref.object_id : ref \in WriteRefs(job)} IN
    /\ shadows[slot].active
    /\ shadows[slot].approved
    /\ ~shadows[slot].cancel_requested
    /\ shadows[slot].completion.status = "EXECUTED"
    /\ ~shadows'[slot].active
    /\ \A ref \in job.refs : objects[ref.object_id].version = ref.expected_version
    /\ \A id \in ObjectIds :
         objects'[id].version = IF id \in written THEN objects[id].version + 1
                                ELSE objects[id].version
    /\ \A id \in ObjectIds, i \in Offsets :
         objects'[id].visible[i] =
           IF \E ref \in WriteRefs(job) : ref.object_id = id /\ i \in Covers(ref)
             THEN shadows[slot].bytes[id][i] ELSE objects[id].visible[i]

PublicationAtomic ==
  [][(\E id \in ObjectIds : /\ objects[id].active
                            /\ objects'[id].active
                            /\ objects'[id] # objects[id])
       => \E slot \in Slots : PublishesAtomically(slot)]_vars

\* What was approved is what is published: while a job stays approved nothing
\* can change its staged bytes, and the bytes reach the objects only from there.
ApprovedFrozen ==
  [][\A s \in Slots :
       (/\ shadows[s].active /\ shadows[s].approved
        /\ shadows'[s].active /\ shadows'[s].approved)
       => shadows'[s] = shadows[s]]_vars

Cancelled(slot) == \/ inflight[slot].active /\ inflight[slot].cancel_requested
                   \/ shadows[slot].active /\ shadows[slot].cancel_requested

LiveBindings ==
  {binding_from_submission(SubmissionAt(s)) : s \in {t \in Slots : Live(t)}}
CancelledBindings ==
  {binding_from_submission(SubmissionAt(s)) : s \in {t \in Slots : Cancelled(t)}}

\* Cancellation is sticky: from job_cancel to the end of the job, through the
\* late completion and the move to the shadow, the job stays cancelled.
CancellationSticky ==
  [][CancelledBindings \cap LiveBindings' \subseteq CancelledBindings']_vars
============================================================================
