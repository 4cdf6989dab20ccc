--------------------------- MODULE SonatineProofs ---------------------------
(***************************************************************************)
(* Proofs about Sonatine, for every value of the constants.                *)
(*   The job authority: the inductive invariant of its tables, its action  *)
(*     properties, its histories, and that it implements the store.        *)
(*   The capability table: revoked handles stay dead and what is delegated *)
(*     is confined.                                                        *)
(*   The four-plane firewall over both: it implements the job authority,   *)
(*     revoking the program root closes the program plane, and registries  *)
(*     and ledger agree with the jobs.                                     *)
(***************************************************************************)
EXTENDS PlaneAuthority, CapabilityHistory, JobHistory, FiniteSetTheorems,
        WellFoundedInduction, TLAPS

(***************************************************************************)
(* The zeroed records have the type of the table they are in.              *)
(***************************************************************************)
LEMMA ZeroTypes ==
  /\ ZeroContent \in Content
  /\ ZeroImage \in [ObjectIds -> Content]
  /\ ZeroSubmission \in Submission
  /\ ZeroCompletion \in Completion
  /\ ZeroObject \in Object
  /\ ZeroInflight \in InflightSlot
  /\ ZeroShadow \in ShadowSlot
<1>1. ZeroContent \in Content
  BY AuthorityConstants DEF ZeroContent, Content, Offsets
<1>2. ZeroImage \in [ObjectIds -> Content]
  BY <1>1 DEF ZeroImage
<1>3. ZeroSubmission \in Submission
  BY ContractConstants DEF ZeroSubmission, Submission
<1>4. ZeroCompletion \in Completion
  BY ContractConstants DEF ZeroCompletion, Completion, ZeroBinding, Binding, Status
<1>5. ZeroObject \in Object
  BY <1>1, ContractConstants, AuthorityConstants DEF ZeroObject, Object
<1>6. ZeroInflight \in InflightSlot
  BY <1>2, <1>3 DEF ZeroInflight, InflightSlot
<1>7. ZeroShadow \in ShadowSlot
  BY <1>2, <1>3, <1>4 DEF ZeroShadow, ShadowSlot
<1>8. QED
  BY <1>1, <1>2, <1>3, <1>4, <1>5, <1>6, <1>7

(***************************************************************************)
(* job_submit_bound_core builds a well-typed submission.                   *)
(***************************************************************************)
LEMMA NewSubmissionType ==
  ASSUME TypeOK, NEW job \in Jobs
  PROVE  NewSubmission(job) \in Submission
<1>1. job.job_id \in Nat
  BY AuthorityConstants DEF JobDescriptor
<1>2. Mix(job.job_id, authority_epoch) \in Nat
  BY MixIsNat DEF TypeOK
<1>3. authority_epoch \in Nat
  BY AuthorityConstants DEF TypeOK
<1>4. QED
  BY <1>2, <1>3 DEF NewSubmission, Submission, make_cookie, TypeOK

(***************************************************************************)
(* Dropping an entry of a ring leaves a ring of the same kind.             *)
(***************************************************************************)
LEMMA DropAtType ==
  ASSUME NEW S, NEW ring \in Seq(S), NEW i \in DOMAIN ring
  PROVE  /\ DropAt(ring, i) \in Seq(S)
         /\ Len(DropAt(ring, i)) = Len(ring) - 1
         /\ DOMAIN DropAt(ring, i) = 1 .. Len(ring) - 1
         /\ \A n \in 1 .. Len(ring) - 1 :
              DropAt(ring, i)[n] = IF n < i THEN ring[n] ELSE ring[n + 1]
<1>1. Len(ring) \in Nat /\ Len(ring) >= 1
  OBVIOUS
<1>2. DropAt(ring, i) \in [1 .. Len(ring) - 1 -> S]
  BY <1>1 DEF DropAt
<1>3. QED
  BY <1>1, <1>2 DEF DropAt

\* It keeps every other entry and loses this one.
LEMMA DropAtEntries ==
  ASSUME NEW S, NEW ring \in Seq(S), NEW i \in DOMAIN ring
  PROVE  /\ \A j \in DOMAIN DropAt(ring, i) : \E n \in DOMAIN ring :
              n # i /\ DropAt(ring, i)[j] = ring[n]
         /\ \A n \in DOMAIN ring : n # i =>
              \E j \in DOMAIN DropAt(ring, i) : DropAt(ring, i)[j] = ring[n]
<1> DEFINE dropped == DropAt(ring, i)
<1>1. /\ Len(ring) \in Nat /\ DOMAIN ring = 1 .. Len(ring)
      /\ DOMAIN dropped = 1 .. Len(ring) - 1
      /\ \A n \in 1 .. Len(ring) - 1 : dropped[n] = IF n < i THEN ring[n] ELSE ring[n + 1]
  <2>1. Len(ring) \in Nat /\ DOMAIN ring = 1 .. Len(ring)
    OBVIOUS
  <2>2. QED
    BY <2>1, DropAtType, Zenon
<1> HIDE DEF dropped
<1>2. ASSUME NEW j \in DOMAIN dropped
      PROVE  \E n \in DOMAIN ring : n # i /\ dropped[j] = ring[n]
  <2>1. CASE j < i
    BY <1>1, <2>1
  <2>2. CASE ~(j < i)
    <3>1. j + 1 \in DOMAIN ring /\ j + 1 # i /\ dropped[j] = ring[j + 1]
      BY <1>1, <2>2
    <3>2. QED
      BY <3>1
  <2>3. QED
    BY <2>1, <2>2
<1>3. ASSUME NEW n \in DOMAIN ring, n # i
      PROVE  \E j \in DOMAIN dropped : dropped[j] = ring[n]
  <2>1. CASE n < i
    BY <1>1, <2>1
  <2>2. CASE ~(n < i)
    <3>1. n - 1 \in DOMAIN dropped /\ ~(n - 1 < i) /\ n - 1 + 1 = n
      BY <1>1, <1>3, <2>2
    <3>2. QED
      BY <1>1, <3>1
  <2>3. QED
    BY <2>1, <2>2
<1>4. QED
  BY <1>2, <1>3 DEF dropped

\* It keeps the order of the others.
LEMMA DropAtOrder ==
  ASSUME NEW S, NEW ring \in Seq(S), NEW i \in DOMAIN ring,
         NEW j \in DOMAIN DropAt(ring, i), NEW k \in DOMAIN DropAt(ring, i)
  PROVE  \E m, n \in DOMAIN ring :
           /\ DropAt(ring, i)[j] = ring[m]
           /\ DropAt(ring, i)[k] = ring[n]
           /\ j # k => m # n
           /\ j < k => m < n
<1> DEFINE m == IF j < i THEN j ELSE j + 1
           n == IF k < i THEN k ELSE k + 1
<1>1. /\ Len(ring) \in Nat /\ DOMAIN ring = 1 .. Len(ring)
      /\ DOMAIN DropAt(ring, i) = 1 .. Len(ring) - 1
      /\ \A p \in 1 .. Len(ring) - 1 :
           DropAt(ring, i)[p] = IF p < i THEN ring[p] ELSE ring[p + 1]
  <2>1. Len(ring) \in Nat /\ DOMAIN ring = 1 .. Len(ring)
    OBVIOUS
  <2>2. QED
    BY <2>1, DropAtType, Zenon
<1>2. /\ m \in DOMAIN ring /\ n \in DOMAIN ring
      /\ j # k => m # n
      /\ j < k => m < n
  BY <1>1
<1>3. DropAt(ring, i)[j] = ring[m] /\ DropAt(ring, i)[k] = ring[n]
  BY <1>1
<1> HIDE DEF m, n
<1>4. QED
  BY <1>2, <1>3

(***************************************************************************)
(* One lemma per call: the tables keep their types.                        *)
(***************************************************************************)
LEMMA TypeInit ==
  ASSUME Init PROVE TypeOK
BY ZeroTypes, AuthorityConstants, ContractConstants DEF Init, TypeOK

LEMMA TypeRestart ==
  ASSUME NEW epoch \in Epochs, job_authority_init(epoch) PROVE TypeOK'
BY ZeroTypes, AuthorityConstants, ContractConstants DEF job_authority_init, TypeOK

LEMMA TypeRegister ==
  ASSUME TypeOK, NEW manifest \in Manifests,
         NEW initial \in [0 .. manifest.byte_length - 1 -> Bytes],
         job_object_register_bytes_core(manifest, initial)
  PROVE  TypeOK'
<1>1. manifest \in Manifest
  BY AuthorityConstants
<1>2. manifest.byte_length \in 0 .. MaxBytes
  BY <1>1, AuthorityConstants DEF Manifest, job_object_register_bytes_core, CanRegister
<1> DEFINE image == [i \in Offsets |-> IF i < manifest.byte_length THEN initial[i] ELSE 0]
           entry == [active |-> TRUE, generation |-> manifest.generation,
                     version |-> manifest.version, byte_length |-> manifest.byte_length,
                     permitted_access |-> manifest.permitted_access, visible |-> image]
<1>3. image \in Content
  BY <1>2, AuthorityConstants DEF Content, Offsets
<1>4. entry \in Object
  <2> HIDE DEF image
  <2> QED BY <1>1, <1>2, <1>3 DEF Object, Manifest
<1>5. objects' = [objects EXCEPT ![manifest.object_id] = entry]
  BY DEF job_object_register_bytes_core
<1>6. objects' \in [ObjectIds -> Object]
  <2> HIDE DEF entry
  <2> QED BY <1>4, <1>5 DEF TypeOK
<1>7. QED
  BY <1>6 DEF TypeOK, job_object_register_bytes_core

LEMMA TypeSubmit ==
  ASSUME TypeOK, NEW job \in Jobs, job_submit_bound_core(job)
  PROVE  TypeOK'
<1>1. NewSubmission(job) \in Submission
  BY NewSubmissionType
<1>2. SnapshotFor(job) \in [ObjectIds -> Content]
  BY ZeroTypes DEF SnapshotFor, TypeOK, Object
<1> DEFINE entry == [active |-> TRUE, dispatched |-> FALSE, completion_posted |-> FALSE,
                     cancel_requested |-> FALSE, submission |-> NewSubmission(job),
                     snapshot |-> SnapshotFor(job)]
<1>3. entry \in InflightSlot
  BY <1>1, <1>2 DEF InflightSlot
<1>4. inflight' \in [Slots -> InflightSlot]
  <2>1. PICK slot \in Slots : inflight' = [inflight EXCEPT ![slot] = entry]
    BY DEF job_submit_bound_core
  <2> HIDE DEF entry
  <2> QED BY <1>3, <2>1 DEF TypeOK
<1>5. submissions' \in Seq(Submission)
  BY <1>1 DEF job_submit_bound_core, TypeOK
<1>6. next_sequence' \in 0 .. U64Max
  BY ContractConstants DEF job_submit_bound_core, TypeOK, SequenceAfter
<1>7. QED
  BY <1>4, <1>5, <1>6 DEF job_submit_bound_core, TypeOK

(***************************************************************************)
(* A nonempty set of numbers has a least element: the loops of the code    *)
(* that stop at the first hit do stop at one.                              *)
(***************************************************************************)
LEMMA LeastElement ==
  ASSUME NEW S, S \subseteq Nat, S # {}
  PROVE  \E m \in S : \A n \in S : m <= n
<1> DEFINE Less == {pair \in Nat \X Nat : pair[1] < pair[2]}
<1>1. IsWellFoundedOn(Less, Nat)
  BY NatLessThanWellFounded DEF OpToRel
<1>2. PICK m \in S : \A n \in S : ~ (<<n, m>> \in Less)
  BY <1>1, WFMin
<1>3. ASSUME NEW n \in S PROVE m <= n
  <2>1. n \in Nat /\ m \in Nat /\ ~ (<<n, m>> \in Less)
    BY <1>2
  <2>2. ~ (n < m)
    BY <2>1
  <2>3. QED
    BY <2>1, <2>2
<1>4. QED
  BY <1>3

(***************************************************************************)
(* The position job_submission_take stops at is one of the ring.           *)
(***************************************************************************)
LEMMA TakePositionType ==
  ASSUME TypeOK, submissions # <<>>
  PROVE  TakePosition \in DOMAIN submissions
<1> DEFINE live == {i \in DOMAIN submissions : DispatchSlots(submissions[i]) # {}}
<1>1. Len(submissions) \in DOMAIN submissions
  BY DEF TypeOK
<1>2. live \subseteq DOMAIN submissions /\ live \subseteq Nat
  BY DEF TypeOK
<1>3. live # {} => \E i \in live : \A j \in live : i <= j
  BY <1>2, LeastElement
<1>4. QED
  BY <1>1, <1>2, <1>3 DEF TakePosition

LEMMA TypeTake ==
  ASSUME TypeOK, job_submission_take
  PROVE  TypeOK'
<1>1. TakePosition \in DOMAIN submissions
  BY TakePositionType DEF job_submission_take
<1>2. submissions' \in Seq(Submission)
  BY <1>1 DEF job_submission_take, TypeOK
<1>3. inflight' \in [Slots -> InflightSlot]
  <2>1. ASSUME NEW s \in Slots
        PROVE  /\ inflight[s] \in InflightSlot
               /\ [inflight[s] EXCEPT !.dispatched = TRUE] \in InflightSlot
    <3>1. inflight[s] \in InflightSlot
      BY DEF TypeOK
    <3>2. QED
      BY <3>1 DEF InflightSlot
  <2>2. QED
    BY <2>1 DEF job_submission_take
<1>4. QED
  BY <1>2, <1>3 DEF job_submission_take, TypeOK

LEMMA TypePost ==
  ASSUME TypeOK, NEW binding \in Bindings, NEW status \in Status,
         NEW outputs \in OutputSets,
         job_completion_post([binding |-> binding, status |-> status, outputs |-> outputs])
  PROVE  TypeOK'
<1> DEFINE completion == [binding |-> binding, status |-> status, outputs |-> outputs]
<1>1. completion \in Completion
  BY AuthorityConstants DEF Completion
<1>2. completions' = Append(completions, completion)
  BY DEF job_completion_post
<1>3. completions' \in Seq(Completion)
  <2> HIDE DEF completion
  <2> QED BY <1>1, <1>2 DEF TypeOK
<1>4. inflight' \in [Slots -> InflightSlot]
  <2>1. PICK slot \in Slots :
          inflight' = [inflight EXCEPT ![slot].completion_posted = TRUE]
    BY DEF job_completion_post
  <2>2. inflight[slot] \in InflightSlot
    BY DEF TypeOK
  <2>3. [inflight[slot] EXCEPT !.completion_posted = TRUE] \in InflightSlot
    BY <2>2 DEF InflightSlot
  <2>4. QED
    BY <2>1, <2>3 DEF TypeOK
<1>5. QED
  BY <1>3, <1>4 DEF job_completion_post, TypeOK

LEMMA TypeObserve ==
  ASSUME TypeOK, NEW i \in DOMAIN completions, completion_take_offset(i)
  PROVE  TypeOK'
<1>1. completions' \in Seq(Completion)
  BY DropAtType DEF completion_take_offset, TypeOK
<1>2. completions[i] \in Completion
  BY DEF TypeOK
<1>3. ASSUME NEW s \in Slots PROVE ShadowOf(s, completions[i]) \in ShadowSlot
  BY <1>2, ZeroTypes DEF ShadowOf, ShadowSlot, TypeOK, InflightSlot
<1>4. shadows' \in [Slots -> ShadowSlot]
  BY <1>3 DEF completion_take_offset, completion_move_to_shadow, TypeOK
<1>5. inflight' \in [Slots -> InflightSlot]
  BY ZeroTypes DEF completion_take_offset, completion_move_to_shadow, TypeOK
<1>6. QED
  BY <1>1, <1>4, <1>5 DEF completion_take_offset, TypeOK

LEMMA TypeCancel ==
  ASSUME TypeOK, NEW binding \in Bindings, job_cancel(binding)
  PROVE  TypeOK'
<1>1. CASE CancelQueued(binding)
  <2>1. PurgedRing(binding) \in Seq(Submission)
    BY DropAtType DEF PurgedRing, TypeOK
  <2>2. QED
    BY <1>1, <2>1, ZeroTypes DEF CancelQueued, TypeOK
<1>2. CASE CancelDispatched(binding)
  <2>1. PICK slot \in Slots :
          inflight' = [inflight EXCEPT ![slot].cancel_requested = TRUE,
                                       ![slot].snapshot = ZeroImage]
    BY <1>2 DEF CancelDispatched
  <2>2. inflight' \in [Slots -> InflightSlot]
    BY <2>1, ZeroTypes DEF TypeOK, InflightSlot
  <2>3. QED
    BY <1>2, <2>2 DEF CancelDispatched, TypeOK
<1>3. CASE CancelShadow(binding)
  <2>1. ASSUME NEW slot \in Slots PROVE CancelledShadow(shadows[slot]) \in ShadowSlot
    BY ZeroTypes DEF CancelledShadow, ShadowSlot, TypeOK
  <2>2. QED
    BY <1>3, <2>1 DEF CancelShadow, TypeOK
<1>4. QED
  BY <1>1, <1>2, <1>3 DEF job_cancel

LEMMA TypeStage ==
  ASSUME TypeOK, NEW binding \in Bindings, NEW object_id \in ObjectIds,
         NEW offset \in Offsets, NEW length \in 1 .. MaxBytes,
         NEW source \in [0 .. length - 1 -> Bytes],
         job_shadow_write_core(binding, object_id, offset, length, source)
  PROVE  TypeOK'
<1> DEFINE staging == offset .. offset + length - 1
<1>1. PICK slot \in Slots :
        shadows' = [shadows EXCEPT
             ![slot].bytes[object_id] =
                [i \in Offsets |-> IF i \in staging THEN source[i - offset] ELSE @[i]],
             ![slot].staged[object_id] = @ \cup staging]
  BY DEF job_shadow_write_core
<1>2. shadows[slot] \in ShadowSlot
  BY DEF TypeOK
<1> DEFINE image == [i \in Offsets |-> IF i \in staging THEN source[i - offset]
                                       ELSE shadows[slot].bytes[object_id][i]]
<1>3. image \in Content
  BY <1>2, AuthorityConstants DEF ShadowSlot, Content, Offsets
<1>4. shadows[slot].staged[object_id] \cup staging \in SUBSET Nat
  BY <1>2, AuthorityConstants DEF ShadowSlot, Offsets
<1>5. shadows' = [shadows EXCEPT ![slot] =
        [shadows[slot] EXCEPT !.bytes[object_id] = image,
                              !.staged[object_id] = shadows[slot].staged[object_id] \cup staging]]
  BY <1>1, <1>2 DEF TypeOK, ShadowSlot
<1>6. [shadows[slot] EXCEPT !.bytes[object_id] = image,
                            !.staged[object_id] = shadows[slot].staged[object_id] \cup staging]
        \in ShadowSlot
  <2> HIDE DEF image, staging
  <2> QED BY <1>2, <1>3, <1>4 DEF ShadowSlot
<1>7. shadows' \in [Slots -> ShadowSlot]
  BY <1>5, <1>6 DEF TypeOK
<1>8. QED
  BY <1>7 DEF job_shadow_write_core, TypeOK

LEMMA TypeApprove ==
  ASSUME TypeOK, NEW binding \in Bindings, job_shadow_approve_core(binding)
  PROVE  TypeOK'
<1>1. shadows' \in [Slots -> ShadowSlot]
  <2>1. PICK slot \in Slots : shadows' = [shadows EXCEPT ![slot].approved = TRUE]
    BY DEF job_shadow_approve_core
  <2>2. shadows[slot] \in ShadowSlot
    BY DEF TypeOK
  <2>3. [shadows[slot] EXCEPT !.approved = TRUE] \in ShadowSlot
    BY <2>2 DEF ShadowSlot
  <2>4. QED
    BY <2>1, <2>3 DEF TypeOK
<1>2. QED
  BY <1>1 DEF job_shadow_approve_core, TypeOK

LEMMA TypeFinalize ==
  ASSUME TypeOK, NEW binding \in Bindings, NEW commit \in BOOLEAN,
         job_shadow_finalize_core(binding, commit)
  PROVE  TypeOK'
<1>1. ASSUME NEW slot \in Slots, NEW id \in ObjectIds
      PROVE  Published(shadows[slot])[id] \in Object
  <2> DEFINE shadow == shadows[slot]
  <2>1. shadow \in ShadowSlot /\ objects[id] \in Object
    BY DEF TypeOK
  <2>2. shadow.completion.outputs \subseteq ObjectVersion
    BY <2>1, AuthorityConstants DEF ShadowSlot, Completion
  <2> DEFINE image == [i \in Offsets |->
                         IF \E ref \in WriteRefs(shadow.submission.job) :
                              ref.object_id = id /\ i \in Covers(ref)
                           THEN shadow.bytes[id][i] ELSE objects[id].visible[i]]
             version == IF \E output \in shadow.completion.outputs : output.object_id = id
                          THEN (CHOOSE output \in shadow.completion.outputs :
                                  output.object_id = id).version
                          ELSE objects[id].version
  <2>3. image \in Content
    BY <2>1 DEF ShadowSlot, Object, Content
  <2>4. version \in 0 .. U64Max
    BY <2>1, <2>2 DEF ObjectVersion, Object
  <2>5. Published(shadow)[id] = [objects[id] EXCEPT !.visible = image, !.version = version]
    BY DEF Published
  <2> HIDE DEF image, version
  <2>6. QED
    BY <2>1, <2>3, <2>4, <2>5 DEF Object
<1>2. ASSUME NEW slot \in Slots
      PROVE  Published(shadows[slot]) \in [ObjectIds -> Object]
  BY <1>1 DEF Published
<1>3. objects' \in [ObjectIds -> Object]
  BY <1>2 DEF job_shadow_finalize_core, TypeOK
<1>4. shadows' \in [Slots -> ShadowSlot]
  BY ZeroTypes DEF job_shadow_finalize_core, TypeOK
<1>5. QED
  BY <1>3, <1>4 DEF job_shadow_finalize_core, TypeOK

(***************************************************************************)
(* Every table of job_authority.c keeps the shape of its declaration,      *)
(* whatever the callers and the backend do.                                *)
(***************************************************************************)
THEOREM TypeCorrect == Spec => []TypeOK
<1>1. TypeOK /\ [Next]_vars => TypeOK'
  <2> SUFFICES ASSUME TypeOK, [Next]_vars PROVE TypeOK'
    OBVIOUS
  <2>1. ASSUME NEW epoch \in Epochs, job_authority_init(epoch) PROVE TypeOK'
    BY <2>1, TypeRestart
  <2>2. ASSUME NEW manifest \in Manifests,
               NEW initial \in [0 .. manifest.byte_length - 1 -> Bytes],
               job_object_register_bytes_core(manifest, initial)
        PROVE  TypeOK'
    BY <2>2, TypeRegister
  <2>3. ASSUME NEW job \in Jobs, job_submit_bound_core(job) PROVE TypeOK'
    BY <2>3, TypeSubmit
  <2>4. CASE job_submission_take
    BY <2>4, TypeTake
  <2>5. ASSUME NEW binding \in Bindings, NEW status \in Status, NEW outputs \in OutputSets,
               job_completion_post([binding |-> binding, status |-> status,
                                    outputs |-> outputs])
        PROVE  TypeOK'
    BY <2>5, TypePost
  <2>6. CASE job_completion_take
    <3>1. 1 \in DOMAIN completions
      BY <2>6 DEF job_completion_take, TypeOK
    <3>2. QED
      BY <2>6, <3>1, TypeObserve DEF job_completion_take
  <2>7. ASSUME NEW binding \in Bindings, job_completion_take_bound(binding) PROVE TypeOK'
    BY <2>7, TypeObserve DEF job_completion_take_bound
  <2>8. ASSUME NEW binding \in Bindings, job_cancel(binding) PROVE TypeOK'
    BY <2>8, TypeCancel
  <2>9. ASSUME NEW binding \in Bindings, NEW object_id \in ObjectIds, NEW offset \in Offsets,
               NEW length \in 1 .. MaxBytes, NEW source \in [0 .. length - 1 -> Bytes],
               job_shadow_write_core(binding, object_id, offset, length, source)
        PROVE  TypeOK'
    BY <2>9, TypeStage
  <2>10. ASSUME NEW binding \in Bindings, job_shadow_approve_core(binding) PROVE TypeOK'
    BY <2>10, TypeApprove
  <2>11. ASSUME NEW binding \in Bindings, NEW commit \in BOOLEAN,
                job_shadow_finalize_core(binding, commit)
         PROVE  TypeOK'
    BY <2>11, TypeFinalize
  <2>12. CASE UNCHANGED vars
    BY <2>12 DEF vars, TypeOK
  <2>13. QED
    BY <2>1, <2>2, <2>3, <2>4, <2>5, <2>6, <2>7, <2>8, <2>9, <2>10, <2>11, <2>12 DEF Next
<1>2. QED
  BY <1>1, TypeInit, PTL DEF Spec
----------------------------------------------------------------------------
(***************************************************************************)
(* The inductive invariant.  First what it says about identities: a        *)
(* binding matches at most one live slot.                                  *)
(***************************************************************************)
LEMMA OneSlotPerBinding ==
  ASSUME LiveDistinct, NEW binding, NEW s \in Slots, NEW t \in Slots,
         Live(s), Live(t),
         binding_matches(binding, SubmissionAt(s)),
         binding_matches(binding, SubmissionAt(t))
  PROVE  s = t
BY DEF LiveDistinct, binding_matches

\* A job in inflight and a job in a shadow are live, with their submission.
LEMMA LiveCases ==
  ASSUME SlotsExclusive, NEW s \in Slots
  PROVE  /\ inflight[s].active => Live(s) /\ SubmissionAt(s) = inflight[s].submission
         /\ shadows[s].active => Live(s) /\ SubmissionAt(s) = shadows[s].submission
BY DEF SlotsExclusive, Live, SubmissionAt

(***************************************************************************)
(* Frames: a step that admits no job keeps the identities apart; a step    *)
(* that leaves a ring and the jobs it is about alone keeps it exact.       *)
(***************************************************************************)
LEMMA IdentityFrame ==
  ASSUME LiveWellFormed, LiveDistinct,
         \A s \in Slots : Live(s)' => Live(s) /\ SubmissionAt(s)' = SubmissionAt(s),
         UNCHANGED <<authority_epoch, next_sequence>>
  PROVE  LiveWellFormed' /\ LiveDistinct'
<1>1. LiveWellFormed'
  BY DEF LiveWellFormed
<1>2. LiveDistinct'
  BY DEF LiveDistinct
<1>3. QED
  BY <1>1, <1>2

LEMMA QueueFrame ==
  ASSUME QueueExact, UNCHANGED submissions,
         \A s \in Slots : /\ Queued(s)' <=> Queued(s)
                          /\ Queued(s) => inflight'[s].submission = inflight[s].submission
  PROVE  QueueExact'
BY DEF QueueExact

LEMMA PendingFrame ==
  ASSUME PendingExact, UNCHANGED completions,
         \A s \in Slots : /\ Posted(s)' <=> Posted(s)
                          /\ Posted(s) => /\ inflight'[s].submission = inflight[s].submission
                                          /\ inflight'[s].dispatched = inflight[s].dispatched
  PROVE  PendingExact'
BY DEF PendingExact

LEMMA BoundsFrame ==
  ASSUME RefsInBounds, UNCHANGED objects,
         \A s \in Slots : Live(s)' => Live(s) /\ SubmissionAt(s)' = SubmissionAt(s)
  PROVE  RefsInBounds'
BY DEF RefsInBounds

LEMMA SnapshotFrame ==
  ASSUME SnapshotNamesVersion, UNCHANGED objects,
         \A s \in Slots : (inflight'[s].active /\ ~inflight'[s].cancel_requested) =>
            /\ inflight[s].active /\ ~inflight[s].cancel_requested
            /\ inflight'[s].submission = inflight[s].submission
            /\ inflight'[s].snapshot = inflight[s].snapshot
  PROVE  SnapshotNamesVersion'
BY DEF SnapshotNamesVersion

(***************************************************************************)
(* An authority with no job in any slot satisfies the invariant.           *)
(***************************************************************************)
LEMMA InvInit ==
  ASSUME Init PROVE IInv
<1>1. TypeOK
  BY TypeInit
<1>2. \A s \in Slots : ~Live(s) /\ ~inflight[s].active /\ ~shadows[s].active
  BY DEF Init, Live, ZeroInflight, ZeroShadow
<1>3. DOMAIN submissions = {} /\ DOMAIN completions = {}
  BY DEF Init
<1>4. AuthorityInv
  BY <1>2, <1>3 DEF AuthorityInv, SlotsExclusive, LiveWellFormed, LiveDistinct,
                    QueueExact, PendingExact, ShadowSound, Queued, Posted
<1>5. RefsInBounds /\ SnapshotNamesVersion
  BY <1>2 DEF RefsInBounds, SnapshotNamesVersion
<1>6. QED
  BY <1>1, <1>4, <1>5 DEF IInv

LEMMA InvRestart ==
  ASSUME NEW epoch \in Epochs, job_authority_init(epoch) PROVE IInv'
<1>1. TypeOK'
  BY TypeRestart
<1>2. \A s \in Slots : ~Live(s)' /\ ~inflight'[s].active /\ ~shadows'[s].active
  BY DEF job_authority_init, Live, ZeroInflight, ZeroShadow
<1>3. DOMAIN submissions' = {} /\ DOMAIN completions' = {}
  BY DEF job_authority_init
<1>4. AuthorityInv'
  BY <1>2, <1>3 DEF AuthorityInv, SlotsExclusive, LiveWellFormed, LiveDistinct,
                    QueueExact, PendingExact, ShadowSound, Queued, Posted
<1>5. RefsInBounds' /\ SnapshotNamesVersion'
  BY <1>2 DEF RefsInBounds, SnapshotNamesVersion
<1>6. QED
  BY <1>1, <1>4, <1>5 DEF IInv

LEMMA InvRegister ==
  ASSUME IInv, NEW manifest \in Manifests,
         NEW initial \in [0 .. manifest.byte_length - 1 -> Bytes],
         job_object_register_bytes_core(manifest, initial)
  PROVE  IInv'
<1>1. TypeOK'
  BY TypeRegister DEF IInv
<1>2. \A id \in ObjectIds : objects[id].active => objects'[id] = objects[id]
  BY DEF job_object_register_bytes_core, CanRegister, IInv, TypeOK
<1>3. UNCHANGED <<submissions, completions, inflight, shadows, authority_epoch, next_sequence>>
  BY DEF job_object_register_bytes_core
<1>4. \A s \in Slots : Live(s)' = Live(s) /\ SubmissionAt(s)' = SubmissionAt(s)
  BY <1>3 DEF Live, SubmissionAt
<1>5. AuthorityInv'
  <2>1. QueueExact' /\ PendingExact' /\ SlotsExclusive' /\ ShadowSound'
    BY <1>3 DEF IInv, AuthorityInv, QueueExact, PendingExact, SlotsExclusive, ShadowSound,
                Queued, Posted
  <2>2. QED
    BY <1>3, <1>4, <2>1, IdentityFrame DEF IInv, AuthorityInv
<1>6. \A s \in Slots : Live(s) => SubmissionAt(s).job.refs \subseteq ObjectRef
  BY AuthorityConstants DEF IInv, AuthorityInv, LiveWellFormed, JobDescriptor
<1>7. RefsInBounds'
  BY <1>2, <1>4, <1>6 DEF IInv, RefsInBounds, ObjectRef
<1>8. SnapshotNamesVersion'
  <2>1. \A s \in Slots : inflight[s].active =>
          \A ref \in inflight[s].submission.job.refs :
            /\ ref.object_id \in ObjectIds
            /\ objects[ref.object_id].active
    BY <1>6, LiveCases DEF IInv, AuthorityInv, RefsInBounds, ObjectRef
  <2>2. QED
    BY <1>2, <1>3, <2>1 DEF IInv, SnapshotNamesVersion
<1>9. QED
  BY <1>1, <1>5, <1>7, <1>8 DEF IInv

(***************************************************************************)
(* The uint64_t counter either moves on by one or has run out.             *)
(***************************************************************************)
LEMMA SequenceStep ==
  ASSUME NEW sequence \in 0 .. U64Max
  PROVE  /\ SequenceAfter(sequence) \in Nat
         /\ SequenceAfter(sequence) # 0 => SequenceAfter(sequence) = sequence + 1
<1>1. CASE sequence = U64Max
  <2>1. (U64Max + 1) % (U64Max + 1) = 0
    BY ContractConstants
  <2>2. QED
    BY <1>1, <2>1 DEF SequenceAfter
<1>2. CASE sequence # U64Max
  <2>1. sequence + 1 \in 0 .. U64Max
    BY <1>2, ContractConstants
  <2>2. \A m \in Nat, n \in Nat : m < n => m % n = m
    OBVIOUS
  <2>3. (sequence + 1) % (U64Max + 1) = sequence + 1
    BY <2>1, <2>2, ContractConstants
  <2>4. QED
    BY <2>1, <2>3 DEF SequenceAfter
<1>3. QED
  BY <1>1, <1>2

(***************************************************************************)
(* Admission.  The new job takes a free slot, a sequence number larger     *)
(* than those of all live jobs, and the last entry of the ring.            *)
(***************************************************************************)
LEMMA InvSubmit ==
  ASSUME IInv, NEW job \in Jobs, job_submit_bound_core(job)
  PROVE  IInv'
<1> USE DEF IInv, AuthorityInv
<1> DEFINE new == NewSubmission(job)
           entry == [active |-> TRUE, dispatched |-> FALSE, completion_posted |-> FALSE,
                     cancel_requested |-> FALSE, submission |-> new,
                     snapshot |-> SnapshotFor(job)]
<1>1. TypeOK'
  BY TypeSubmit
<1>2. PICK slot \in Slots : /\ ~inflight[slot].active /\ ~shadows[slot].active
                            /\ inflight' = [inflight EXCEPT ![slot] = entry]
  BY DEF job_submit_bound_core, IsFirst, FreeSlots
<1>3. /\ submissions' = Append(submissions, new)
      /\ next_sequence' = SequenceAfter(next_sequence)
      /\ UNCHANGED <<objects, completions, shadows, authority_epoch>>
      /\ next_sequence # 0
      /\ admitted(job)
      /\ job.job_id \notin LiveJobs
  BY DEF job_submit_bound_core, CanSubmit
<1>4. /\ new.job = job
      /\ new.execution_epoch = authority_epoch
      /\ new.execution_sequence = next_sequence
  BY DEF NewSubmission
<1> HIDE DEF new
<1>5. \A s \in Slots : s # slot => inflight'[s] = inflight[s]
  BY <1>2 DEF TypeOK
<1>6. inflight'[slot] = entry
  BY <1>2 DEF TypeOK
<1>7. \A s \in Slots : s # slot => Live(s)' = Live(s) /\ SubmissionAt(s)' = SubmissionAt(s)
  BY <1>3, <1>5 DEF Live, SubmissionAt
<1>8. Live(slot)' /\ SubmissionAt(slot)' = new /\ ~Live(slot)
  BY <1>2, <1>3, <1>6 DEF Live, SubmissionAt
<1>9. next_sequence \in Nat /\ next_sequence' \in Nat
      /\ (next_sequence' # 0 => next_sequence' = next_sequence + 1)
  BY <1>3, SequenceStep DEF TypeOK
<1>10. \A s \in Slots : Live(s) => /\ SubmissionAt(s).execution_sequence \in Nat
                                   /\ SubmissionAt(s).execution_sequence < next_sequence
  <2>1. \A s \in Slots : SubmissionAt(s) \in Submission
    BY DEF TypeOK, InflightSlot, ShadowSlot, SubmissionAt
  <2>2. \A s \in Slots : SubmissionAt(s).execution_sequence \in Nat
    BY <2>1, ContractConstants DEF Submission
  <2>3. QED
    BY <1>3, <2>2 DEF LiveWellFormed
<1>11. SlotsExclusive'
  BY <1>2, <1>3, <1>5 DEF SlotsExclusive
<1>12. job \in JobDescriptor
  BY AuthorityConstants
<1>13. \A left, right \in job.refs : left.object_id = right.object_id => left = right
  <2> SUFFICES ASSUME NEW left \in job.refs, NEW right \in job.refs,
                      left.object_id = right.object_id, left # right
               PROVE  FALSE
    OBVIOUS
  <2>1. left.generation = right.generation
    BY <1>3 DEF admitted, RefInRange
  <2>2. QED
    BY <1>3, <2>1 DEF admitted, raveil_job_descriptor_validate_v1
<1>14. LiveWellFormed'
  <2> SUFFICES ASSUME NEW s \in Slots, Live(s)'
               PROVE  /\ SubmissionAt(s)'.job \in Jobs
                      /\ raveil_job_descriptor_validate_v1(SubmissionAt(s)'.job)
                      /\ \A left, right \in SubmissionAt(s)'.job.refs :
                           left.object_id = right.object_id => left = right
                      /\ SubmissionAt(s)'.execution_epoch = authority_epoch'
                      /\ SubmissionAt(s)'.execution_sequence # 0
                      /\ next_sequence' # 0 =>
                           SubmissionAt(s)'.execution_sequence < next_sequence'
    BY DEF LiveWellFormed
  <2>1. CASE s = slot
    BY <1>3, <1>4, <1>8, <1>9, <1>13, <2>1 DEF admitted
  <2>2. CASE s # slot
    BY <1>3, <1>7, <1>9, <1>10, <2>2 DEF LiveWellFormed
  <2>3. QED
    BY <2>1, <2>2
<1>15. LiveDistinct'
  <2>1. \A s \in Slots : Live(s) => SubmissionAt(s).job.job_id \in LiveJobs
    BY DEF Live, SubmissionAt, LiveJobs
  <2>2. \A s \in Slots : Live(s)' /\ s # slot =>
          /\ SubmissionAt(s)'.job.job_id # job.job_id
          /\ SubmissionAt(s)'.execution_sequence # next_sequence
    BY <1>3, <1>7, <1>9, <1>10, <2>1
  <2>3. QED
    BY <1>4, <1>7, <1>8, <2>2 DEF LiveDistinct
<1>16. QueueExact'
  <2>1. /\ Len(submissions) \in Nat
        /\ DOMAIN submissions = 1 .. Len(submissions)
        /\ DOMAIN submissions' = 1 .. Len(submissions) + 1
        /\ submissions'[Len(submissions) + 1] = new
        /\ \A i \in DOMAIN submissions : submissions'[i] = submissions[i]
    BY <1>3, NewSubmissionType DEF TypeOK, new
  <2>2. \A s \in Slots : s # slot => (Queued(s)' <=> Queued(s))
    BY <1>5 DEF Queued
  <2>3. Queued(slot)' /\ inflight'[slot].submission = new /\ ~Queued(slot)
    BY <1>2, <1>6 DEF Queued
  <2>4. \A i \in DOMAIN submissions :
           /\ submissions[i].execution_sequence \in Nat
           /\ submissions[i].execution_sequence < next_sequence
    BY <1>10, LiveCases DEF QueueExact, Queued
  <2>5. \A i \in DOMAIN submissions' : \E s \in Slots :
          Queued(s)' /\ inflight'[s].submission = submissions'[i]
    <3> TAKE i \in DOMAIN submissions'
    <3>1. CASE i \in DOMAIN submissions
      <4>1. PICK s \in Slots : Queued(s) /\ inflight[s].submission = submissions[i]
        BY <3>1 DEF QueueExact
      <4>2. QED
        BY <1>5, <2>1, <2>2, <2>3, <3>1, <4>1
    <3>2. CASE i = Len(submissions) + 1
      BY <2>1, <2>3, <3>2
    <3>3. QED
      BY <2>1, <3>1, <3>2
  <2>6. \A s \in Slots : Queued(s)' =>
          \E i \in DOMAIN submissions' : submissions'[i] = inflight'[s].submission
    <3> SUFFICES ASSUME NEW s \in Slots, Queued(s)'
                 PROVE  \E i \in DOMAIN submissions' :
                          submissions'[i] = inflight'[s].submission
      OBVIOUS
    <3>1. CASE s = slot
      BY <2>1, <2>3, <3>1
    <3>2. CASE s # slot
      <4>1. PICK i \in DOMAIN submissions : submissions[i] = inflight[s].submission
        BY <2>2, <3>2 DEF QueueExact
      <4>2. QED
        BY <1>5, <2>1, <3>2, <4>1
    <3>3. QED
      BY <3>1, <3>2
  <2>7. \A i, j \in DOMAIN submissions' : i < j =>
          submissions'[i].execution_sequence < submissions'[j].execution_sequence
    <3> SUFFICES ASSUME NEW i \in DOMAIN submissions', NEW j \in DOMAIN submissions', i < j
                 PROVE  submissions'[i].execution_sequence < submissions'[j].execution_sequence
      OBVIOUS
    <3>1. i \in DOMAIN submissions
      BY <2>1
    <3>2. CASE j \in DOMAIN submissions
      BY <2>1, <3>1, <3>2 DEF QueueExact
    <3>3. CASE j = Len(submissions) + 1
      BY <1>4, <2>1, <2>4, <3>1, <3>3
    <3>4. QED
      BY <2>1, <3>2, <3>3
  <2>8. QED
    BY <2>5, <2>6, <2>7 DEF QueueExact
<1>17. PendingExact'
  <2>1. \A s \in Slots : /\ Posted(s)' <=> Posted(s)
                         /\ Posted(s) => inflight'[s] = inflight[s]
    BY <1>2, <1>5, <1>6 DEF Posted
  <2>2. QED
    BY <1>3, <2>1, PendingFrame
<1>18. ShadowSound'
  BY <1>3 DEF ShadowSound
<1>19. \A ref \in job.refs : ref.object_id \in ObjectIds /\ ref.offset \in Nat /\ ref.length \in Nat
  BY <1>12 DEF JobDescriptor, ObjectRef
<1>20. RefsInBounds'
  <2>1. \A ref \in job.refs : /\ objects[ref.object_id].active
                              /\ objects[ref.object_id].generation = ref.generation
                              /\ ref.offset + ref.length <= objects[ref.object_id].byte_length
                              /\ ref.expected_version <= objects[ref.object_id].version
    BY <1>3, <1>19, AuthorityConstants DEF admitted, RefInRange, TypeOK, Object
  <2>2. QED
    BY <1>3, <1>4, <1>7, <1>8, <2>1 DEF RefsInBounds
<1>21. SnapshotNamesVersion'
  <2>1. \A ref \in job.refs : SnapshotFor(job)[ref.object_id] = objects[ref.object_id].visible
    BY <1>19 DEF SnapshotFor
  <2>2. QED
    BY <1>3, <1>4, <1>5, <1>6, <2>1 DEF SnapshotNamesVersion
<1>22. QED
  BY <1>1, <1>11, <1>14, <1>15, <1>16, <1>17, <1>18, <1>20, <1>21

(***************************************************************************)
(* Dispatch.  The head of the ring is the submission of exactly one queued *)
(* job, so job_submission_take never skips an entry.                       *)
(***************************************************************************)
LEMMA HeadIsQueued ==
  ASSUME IInv, submissions # <<>>
  PROVE  /\ TakePosition = 1
         /\ \E slot \in Slots : /\ Queued(slot)
                               /\ inflight[slot].submission = submissions[1]
                               /\ DispatchSlots(submissions[1]) = {slot}
<1> USE DEF IInv, AuthorityInv
<1>1. 1 \in DOMAIN submissions
  BY DEF TypeOK
<1>2. PICK slot \in Slots : Queued(slot) /\ inflight[slot].submission = submissions[1]
  BY <1>1 DEF QueueExact
<1>3. slot \in DispatchSlots(submissions[1])
  BY <1>2 DEF DispatchSlots, Queued, submission_matches, binding_from_submission,
              binding_matches
<1>4. ASSUME NEW t \in DispatchSlots(submissions[1]) PROVE t = slot
  <2>1. t \in Slots /\ Live(t) /\ Live(slot) /\ SubmissionAt(t) = inflight[t].submission
        /\ SubmissionAt(slot) = inflight[slot].submission
    BY <1>2, LiveCases DEF DispatchSlots, Queued
  <2>2. inflight[t].submission.job.job_id = inflight[slot].submission.job.job_id
    BY <1>2, <1>4 DEF DispatchSlots, submission_matches, binding_from_submission,
                      binding_matches
  <2>3. QED
    BY <2>1, <2>2 DEF LiveDistinct
<1>5. DispatchSlots(submissions[1]) = {slot}
  BY <1>3, <1>4
<1> DEFINE live == {i \in DOMAIN submissions : DispatchSlots(submissions[i]) # {}}
<1>6. 1 \in live /\ live \subseteq Nat /\ \A j \in live : 1 <= j
  <2>1. 1 \in live
    BY <1>1, <1>5
  <2>2. live \subseteq DOMAIN submissions /\ DOMAIN submissions = 1 .. Len(submissions)
    BY DEF TypeOK
  <2>3. \A j \in live : j \in Nat /\ 1 <= j
    BY <2>2
  <2>4. QED
    BY <2>1, <2>3
<1>7. \A i \in live : (\A j \in live : i <= j) => i = 1
  BY <1>6
<1>8. TakePosition = CHOOSE i \in live : \A j \in live : i <= j
  BY <1>6 DEF TakePosition
<1>9. TakePosition = 1
  <2> HIDE DEF live
  <2> QED BY <1>6, <1>7, <1>8
<1>10. QED
  BY <1>2, <1>5, <1>9

LEMMA InvTake ==
  ASSUME IInv, job_submission_take
  PROVE  IInv'
<1> USE DEF IInv, AuthorityInv
<1>1. TypeOK'
  BY TypeTake
<1>2. submissions # <<>>
  BY DEF job_submission_take
<1>3. PICK slot \in Slots : /\ Queued(slot)
                            /\ inflight[slot].submission = submissions[1]
                            /\ DispatchSlots(submissions[1]) = {slot}
  BY <1>2, HeadIsQueued
<1>4. TakePosition = 1
  BY <1>2, HeadIsQueued
<1>5. \A s \in Slots : IsFirst(s, DispatchSlots(submissions[1])) <=> s = slot
  BY <1>3 DEF IsFirst, Slots
<1>6. /\ inflight'[slot] = [inflight[slot] EXCEPT !.dispatched = TRUE]
      /\ \A s \in Slots : s # slot => inflight'[s] = inflight[s]
  BY <1>4, <1>5 DEF job_submission_take
<1>7. /\ inflight'[slot].active /\ inflight'[slot].dispatched
      /\ inflight'[slot].submission = inflight[slot].submission
      /\ inflight'[slot].snapshot = inflight[slot].snapshot
      /\ inflight'[slot].completion_posted = inflight[slot].completion_posted
      /\ inflight'[slot].cancel_requested = inflight[slot].cancel_requested
  BY <1>3, <1>6 DEF TypeOK, InflightSlot, Queued
<1>8. UNCHANGED <<objects, completions, shadows, authority_epoch, next_sequence>>
  BY DEF job_submission_take
<1>9. submissions' = SubSeq(submissions, 2, Len(submissions))
  BY <1>4 DEF job_submission_take, TypeOK
<1>10. \A s \in Slots : Live(s)' = Live(s) /\ SubmissionAt(s)' = SubmissionAt(s)
  BY <1>3, <1>6, <1>7, <1>8 DEF Live, SubmissionAt, Queued
<1>11. SlotsExclusive'
  BY <1>3, <1>6, <1>7, <1>8 DEF SlotsExclusive, Queued
<1>12. LiveWellFormed' /\ LiveDistinct'
  BY <1>8, <1>10, IdentityFrame
<1>13. ShadowSound'
  BY <1>8 DEF ShadowSound
<1>14. RefsInBounds'
  BY <1>8, <1>10, BoundsFrame
<1>15. SnapshotNamesVersion'
  BY <1>3, <1>6, <1>7, <1>8, SnapshotFrame DEF Queued
<1>16. PendingExact'
  <2>1. \A s \in Slots : /\ Posted(s)' <=> Posted(s)
                         /\ Posted(s) => inflight'[s] = inflight[s]
    BY <1>3, <1>6, <1>7 DEF Posted, PendingExact, Queued
  <2>2. QED
    BY <1>8, <2>1, PendingFrame
<1>17. QueueExact'
  <2>1. /\ Len(submissions) \in Nat /\ Len(submissions) >= 1
        /\ DOMAIN submissions = 1 .. Len(submissions)
        /\ DOMAIN submissions' = 1 .. Len(submissions) - 1
        /\ \A i \in DOMAIN submissions' : /\ i + 1 \in DOMAIN submissions
                                          /\ submissions'[i] = submissions[i + 1]
    BY <1>2, <1>9 DEF TypeOK
  <2>2. \A s \in Slots : Queued(s)' <=> Queued(s) /\ s # slot
    BY <1>6, <1>7 DEF Queued
  <2>3. \A s \in Slots : Queued(s) /\ inflight[s].submission = submissions[1] => s = slot
    BY <1>3, LiveCases DEF LiveDistinct, Queued
  <2>4. \A i \in DOMAIN submissions : i # 1 => submissions[i] # submissions[1]
    <3> SUFFICES ASSUME NEW i \in DOMAIN submissions, i # 1,
                        submissions[i] = submissions[1]
                 PROVE  FALSE
      OBVIOUS
    <3>1. submissions[1].execution_sequence < submissions[i].execution_sequence
      BY <2>1 DEF QueueExact
    <3>2. submissions[1].execution_sequence \in Nat
      <4>1. submissions[1] \in Submission
        BY <2>1 DEF TypeOK
      <4>2. QED
        BY <4>1 DEF Submission
    <3>3. QED
      BY <3>1, <3>2
  <2>5. \A i \in DOMAIN submissions' : \E s \in Slots :
          Queued(s)' /\ inflight'[s].submission = submissions'[i]
    <3> TAKE i \in DOMAIN submissions'
    <3>1. PICK s \in Slots : Queued(s) /\ inflight[s].submission = submissions[i + 1]
      BY <2>1 DEF QueueExact
    <3>2. s # slot
      BY <1>3, <2>1, <2>4, <3>1
    <3>3. QED
      BY <1>6, <2>1, <2>2, <3>1, <3>2
  <2>6. \A s \in Slots : Queued(s)' =>
          \E i \in DOMAIN submissions' : submissions'[i] = inflight'[s].submission
    <3> SUFFICES ASSUME NEW s \in Slots, Queued(s)'
                 PROVE  \E i \in DOMAIN submissions' :
                          submissions'[i] = inflight'[s].submission
      OBVIOUS
    <3>1. PICK i \in DOMAIN submissions : submissions[i] = inflight[s].submission
      BY <2>2 DEF QueueExact
    <3>2. i # 1
      BY <2>2, <2>3, <3>1
    <3>3. i - 1 \in DOMAIN submissions' /\ submissions'[i - 1] = submissions[i]
      BY <2>1, <3>2
    <3>4. QED
      BY <1>6, <2>2, <3>1, <3>3
  <2>7. \A i, j \in DOMAIN submissions' : i < j =>
          submissions'[i].execution_sequence < submissions'[j].execution_sequence
    <3> SUFFICES ASSUME NEW i \in DOMAIN submissions', NEW j \in DOMAIN submissions', i < j
                 PROVE  submissions'[i].execution_sequence < submissions'[j].execution_sequence
      OBVIOUS
    <3>1. /\ i + 1 \in DOMAIN submissions /\ j + 1 \in DOMAIN submissions
          /\ i + 1 < j + 1
      BY <2>1
    <3>2. submissions[i + 1].execution_sequence < submissions[j + 1].execution_sequence
      BY <3>1 DEF QueueExact
    <3>3. QED
      BY <2>1, <3>2
  <2>8. QED
    BY <2>5, <2>6, <2>7 DEF QueueExact
<1>18. QED
  BY <1>1, <1>11, <1>12, <1>13, <1>14, <1>15, <1>16, <1>17

(***************************************************************************)
(* Completion.  The record is the first one for its job: another record    *)
(* with the same binding would mean that the job was answered already.     *)
(***************************************************************************)
LEMMA InvPost ==
  ASSUME IInv, NEW binding \in Bindings, NEW status \in Status,
         NEW outputs \in OutputSets,
         job_completion_post([binding |-> binding, status |-> status, outputs |-> outputs])
  PROVE  IInv'
<1> USE DEF IInv, AuthorityInv
<1> DEFINE completion == [binding |-> binding, status |-> status, outputs |-> outputs]
<1>1. TypeOK'
  BY TypePost
<1>2. PICK slot \in Slots : /\ slot \in AnsweredSlots(completion)
                            /\ inflight' = [inflight EXCEPT ![slot].completion_posted = TRUE]
  BY DEF job_completion_post, IsFirst
<1>3. /\ completions' = Append(completions, completion)
      /\ UNCHANGED <<objects, submissions, shadows, authority_epoch, next_sequence>>
  BY DEF job_completion_post
<1>4. completion.binding = binding /\ completion \in Completion
  BY AuthorityConstants DEF Completion
<1> HIDE DEF completion
<1>5. /\ inflight[slot].active /\ inflight[slot].dispatched
      /\ ~inflight[slot].completion_posted
      /\ binding_matches(completion.binding, inflight[slot].submission)
      /\ raveil_completion_record_validate_v1(inflight[slot].submission.job, completion)
  BY <1>2 DEF AnsweredSlots, AwaitsCompletion
<1>6. /\ inflight'[slot] = [inflight[slot] EXCEPT !.completion_posted = TRUE]
      /\ \A s \in Slots : s # slot => inflight'[s] = inflight[s]
  BY <1>2 DEF TypeOK
<1>7. /\ inflight'[slot].active /\ inflight'[slot].dispatched
      /\ inflight'[slot].completion_posted
      /\ inflight'[slot].submission = inflight[slot].submission
      /\ inflight'[slot].snapshot = inflight[slot].snapshot
      /\ inflight'[slot].cancel_requested = inflight[slot].cancel_requested
  BY <1>5, <1>6 DEF TypeOK, InflightSlot
<1>8. \A s \in Slots : Live(s)' = Live(s) /\ SubmissionAt(s)' = SubmissionAt(s)
  BY <1>3, <1>5, <1>6, <1>7 DEF Live, SubmissionAt
<1>9. SlotsExclusive'
  BY <1>3, <1>5, <1>6, <1>7 DEF SlotsExclusive
<1>10. LiveWellFormed' /\ LiveDistinct'
  BY <1>3, <1>8, IdentityFrame
<1>11. ShadowSound'
  BY <1>3 DEF ShadowSound
<1>12. RefsInBounds'
  BY <1>3, <1>8, BoundsFrame
<1>13. SnapshotNamesVersion'
  BY <1>3, <1>5, <1>6, <1>7, SnapshotFrame
<1>14. QueueExact'
  BY <1>3, <1>5, <1>6, <1>7, QueueFrame DEF Queued
<1>15. PendingExact'
  <2>1. /\ Len(completions) \in Nat
        /\ DOMAIN completions = 1 .. Len(completions)
        /\ DOMAIN completions' = 1 .. Len(completions) + 1
        /\ completions'[Len(completions) + 1] = completion
        /\ \A i \in DOMAIN completions : completions'[i] = completions[i]
    BY <1>3, <1>4 DEF TypeOK
  <2>2. \A s \in Slots : Posted(s)' <=> Posted(s) \/ s = slot
    BY <1>6, <1>7 DEF Posted
  <2>3. ~Posted(slot)
    BY <1>5 DEF Posted
  <2>4. \A s \in Slots : inflight'[s].submission = inflight[s].submission
    BY <1>6, <1>7
  <2>5. \A i \in DOMAIN completions' : \E s \in Slots :
          /\ Posted(s)'
          /\ binding_matches(completions'[i].binding, inflight'[s].submission)
          /\ raveil_completion_record_validate_v1(inflight'[s].submission.job, completions'[i])
    <3> TAKE i \in DOMAIN completions'
    <3>1. CASE i \in DOMAIN completions
      BY <2>1, <2>2, <2>4, <3>1 DEF PendingExact
    <3>2. CASE i = Len(completions) + 1
      BY <1>5, <2>1, <2>2, <2>4, <3>2
    <3>3. QED
      BY <2>1, <3>1, <3>2
  <2>6. \A s \in Slots : Posted(s)' =>
          /\ inflight'[s].dispatched
          /\ \E i \in DOMAIN completions' :
               binding_matches(completions'[i].binding, inflight'[s].submission)
    <3> SUFFICES ASSUME NEW s \in Slots, Posted(s)'
                 PROVE  /\ inflight'[s].dispatched
                        /\ \E i \in DOMAIN completions' :
                             binding_matches(completions'[i].binding, inflight'[s].submission)
      OBVIOUS
    <3>1. CASE s = slot
      BY <1>5, <1>7, <2>1, <3>1
    <3>2. CASE s # slot
      <4>1. Posted(s) /\ inflight'[s] = inflight[s]
        BY <1>6, <2>2, <3>2
      <4>2. QED
        BY <2>1, <4>1 DEF PendingExact
    <3>3. QED
      BY <3>1, <3>2
  <2>7. \A i \in DOMAIN completions : completions[i].binding # completion.binding
    <3> SUFFICES ASSUME NEW i \in DOMAIN completions,
                        completions[i].binding = completion.binding
                 PROVE  FALSE
      OBVIOUS
    <3>1. PICK s \in Slots : /\ Posted(s)
                             /\ binding_matches(completions[i].binding, inflight[s].submission)
      BY DEF PendingExact
    <3>2. s = slot
      BY <1>5, <3>1, LiveCases, OneSlotPerBinding DEF Posted
    <3>3. QED
      BY <2>3, <3>1, <3>2
  <2>8. \A i, j \in DOMAIN completions' : i # j =>
          completions'[i].binding # completions'[j].binding
    BY <2>1, <2>7 DEF PendingExact
  <2>9. QED
    BY <2>5, <2>6, <2>8 DEF PendingExact
<1>16. QED
  BY <1>1, <1>9, <1>10, <1>11, <1>12, <1>13, <1>14, <1>15

(***************************************************************************)
(* Two bindings that match one submission are equal.                       *)
(***************************************************************************)
LEMMA SameBinding ==
  ASSUME NEW left \in Binding, NEW right \in Binding, NEW submission,
         binding_matches(left, submission), binding_matches(right, submission)
  PROVE  left = right
<1>1. /\ left.job_id = right.job_id
      /\ left.execution_epoch = right.execution_epoch
      /\ left.execution_sequence = right.execution_sequence
      /\ left.completion_cookie = right.completion_cookie
  BY DEF binding_matches
<1>2. QED
  BY <1>1 DEF Binding

(***************************************************************************)
(* Observation.  The record taken from the ring belongs to one job, which  *)
(* moves from inflight to the shadow of the same slot.                     *)
(***************************************************************************)
LEMMA PostedOnce ==
  ASSUME IInv, NEW i \in DOMAIN completions
  PROVE  \E slot \in Slots :
           /\ PostedSlots(completions[i]) = {slot}
           /\ Posted(slot)
           /\ binding_matches(completions[i].binding, inflight[slot].submission)
           /\ raveil_completion_record_validate_v1(inflight[slot].submission.job,
                                                   completions[i])
<1> USE DEF IInv, AuthorityInv
<1>1. PICK slot \in Slots :
        /\ Posted(slot)
        /\ binding_matches(completions[i].binding, inflight[slot].submission)
        /\ raveil_completion_record_validate_v1(inflight[slot].submission.job, completions[i])
  BY DEF PendingExact
<1>2. slot \in PostedSlots(completions[i])
  BY <1>1 DEF PostedSlots, Posted
<1>3. ASSUME NEW t \in PostedSlots(completions[i]) PROVE t = slot
  <2>1. /\ t \in Slots /\ inflight[t].active
        /\ binding_matches(completions[i].binding, inflight[t].submission)
    BY DEF PostedSlots
  <2>2. QED
    BY <1>1, <2>1, LiveCases, OneSlotPerBinding DEF Posted
<1>4. PostedSlots(completions[i]) = {slot}
  BY <1>2, <1>3
<1>5. QED
  BY <1>1, <1>4

LEMMA InvObserve ==
  ASSUME IInv, NEW i \in DOMAIN completions, completion_take_offset(i)
  PROVE  IInv'
<1> USE DEF IInv, AuthorityInv
<1>1. TypeOK'
  BY TypeObserve
<1>2. PICK slot \in Slots :
        /\ PostedSlots(completions[i]) = {slot}
        /\ Posted(slot)
        /\ binding_matches(completions[i].binding, inflight[slot].submission)
        /\ raveil_completion_record_validate_v1(inflight[slot].submission.job, completions[i])
  BY PostedOnce
<1>3. \A s \in Slots : IsFirst(s, PostedSlots(completions[i])) <=> s = slot
  BY <1>2 DEF IsFirst, Slots
<1>4. /\ inflight'[slot] = ZeroInflight
      /\ shadows'[slot] = ShadowOf(slot, completions[i])
      /\ \A s \in Slots : s # slot => inflight'[s] = inflight[s] /\ shadows'[s] = shadows[s]
  BY <1>3 DEF completion_take_offset, completion_move_to_shadow
<1>5. /\ completions' = DropAt(completions, i)
      /\ UNCHANGED <<objects, submissions, authority_epoch, next_sequence>>
  BY DEF completion_take_offset
<1>6. ~inflight'[slot].active /\ ~inflight'[slot].dispatched /\ ~inflight'[slot].completion_posted
  BY <1>4 DEF ZeroInflight
<1>7. /\ shadows'[slot].active /\ ~shadows'[slot].approved
      /\ shadows'[slot].submission = inflight[slot].submission
      /\ shadows'[slot].completion = completions[i]
      /\ shadows'[slot].bytes = ZeroImage
      /\ \A id \in ObjectIds : shadows'[slot].staged[id] = {}
  BY <1>4 DEF ShadowOf, ZeroShadow
<1>8. inflight[slot].active /\ inflight[slot].dispatched /\ ~shadows[slot].active
  BY <1>2 DEF Posted, PendingExact, SlotsExclusive
<1>9. \A s \in Slots : Live(s)' = Live(s) /\ SubmissionAt(s)' = SubmissionAt(s)
  BY <1>4, <1>6, <1>7, <1>8 DEF Live, SubmissionAt
<1>10. SlotsExclusive'
  BY <1>4, <1>6 DEF SlotsExclusive
<1>11. LiveWellFormed' /\ LiveDistinct'
  BY <1>5, <1>9, IdentityFrame
<1>12. RefsInBounds'
  BY <1>5, <1>9, BoundsFrame
<1>13. SnapshotNamesVersion'
  BY <1>4, <1>5, <1>6, SnapshotFrame
<1>14. QueueExact'
  <2>1. \A s \in Slots : /\ Queued(s)' <=> Queued(s)
                         /\ Queued(s) => inflight'[s] = inflight[s]
    BY <1>4, <1>6, <1>8 DEF Queued
  <2>2. QED
    BY <1>5, <2>1, QueueFrame
<1>15. ShadowSound'
  <2> SUFFICES ASSUME NEW s \in Slots, shadows'[s].active
               PROVE  /\ binding_matches(shadows'[s].completion.binding, shadows'[s].submission)
                      /\ raveil_completion_record_validate_v1(shadows'[s].submission.job,
                                                              shadows'[s].completion)
                      /\ shadows'[s].approved => CanApprove(shadows'[s])
                      /\ shadows'[s].cancel_requested =>
                           /\ shadows'[s].bytes = ZeroImage
                           /\ \A id \in ObjectIds : shadows'[s].staged[id] = {}
    BY DEF ShadowSound
  <2>1. CASE s = slot
    BY <1>2, <1>7, <2>1
  <2>2. CASE s # slot
    BY <1>4, <2>2 DEF ShadowSound
  <2>3. QED
    BY <2>1, <2>2
<1>16. PendingExact'
  <2>1. completions \in Seq(Completion)
    BY DEF TypeOK
  <2>2. \A s \in Slots : Posted(s)' <=> Posted(s) /\ s # slot
    BY <1>4, <1>6 DEF Posted
  <2>3. \A j \in DOMAIN completions' : \E n \in DOMAIN completions :
          n # i /\ completions'[j] = completions[n]
    BY <1>5, <2>1, DropAtEntries
  <2>4. \A n \in DOMAIN completions : n # i =>
          \E j \in DOMAIN completions' : completions'[j] = completions[n]
    BY <1>5, <2>1, DropAtEntries
  <2>5. \A n \in DOMAIN completions : n # i =>
          completions[n].binding # completions[i].binding
    BY DEF PendingExact
  <2>6. \A n \in DOMAIN completions, s \in Slots :
          (n # i /\ Posted(s)
             /\ binding_matches(completions[n].binding, inflight[s].submission)) => s # slot
    <3> SUFFICES ASSUME NEW n \in DOMAIN completions, n # i,
                        binding_matches(completions[n].binding, inflight[slot].submission)
                 PROVE  FALSE
      OBVIOUS
    <3>1. completions[n].binding \in Binding /\ completions[i].binding \in Binding
      <4>1. completions[n] \in Completion /\ completions[i] \in Completion
        BY DEF TypeOK
      <4>2. QED
        BY <4>1 DEF Completion
    <3>2. completions[n].binding = completions[i].binding
      BY <1>2, <3>1, SameBinding
    <3>3. QED
      BY <2>5, <3>2
  <2>7. \A j \in DOMAIN completions' : \E s \in Slots :
          /\ Posted(s)'
          /\ binding_matches(completions'[j].binding, inflight'[s].submission)
          /\ raveil_completion_record_validate_v1(inflight'[s].submission.job, completions'[j])
    <3> TAKE j \in DOMAIN completions'
    <3>1. PICK n \in DOMAIN completions : n # i /\ completions'[j] = completions[n]
      BY <2>3
    <3>2. PICK s \in Slots :
            /\ Posted(s)
            /\ binding_matches(completions[n].binding, inflight[s].submission)
            /\ raveil_completion_record_validate_v1(inflight[s].submission.job, completions[n])
      BY DEF PendingExact
    <3>3. s # slot
      BY <2>6, <3>1, <3>2
    <3>4. QED
      BY <1>4, <2>2, <3>1, <3>2, <3>3
  <2>8. \A s \in Slots : Posted(s)' =>
          /\ inflight'[s].dispatched
          /\ \E j \in DOMAIN completions' :
               binding_matches(completions'[j].binding, inflight'[s].submission)
    <3> SUFFICES ASSUME NEW s \in Slots, Posted(s)'
                 PROVE  /\ inflight'[s].dispatched
                        /\ \E j \in DOMAIN completions' :
                             binding_matches(completions'[j].binding, inflight'[s].submission)
      OBVIOUS
    <3>1. Posted(s) /\ s # slot /\ inflight'[s] = inflight[s]
      BY <1>4, <2>2
    <3>2. PICK n \in DOMAIN completions :
            binding_matches(completions[n].binding, inflight[s].submission)
      BY <3>1 DEF PendingExact
    <3>3. n # i
      BY <1>2, <3>1, <3>2, LiveCases, OneSlotPerBinding DEF Posted
    <3>4. QED
      BY <2>4, <3>1, <3>2, <3>3 DEF PendingExact
  <2>9. \A j, k \in DOMAIN completions' : j # k =>
          completions'[j].binding # completions'[k].binding
    <3> SUFFICES ASSUME NEW j \in DOMAIN completions', NEW k \in DOMAIN completions', j # k
                 PROVE  completions'[j].binding # completions'[k].binding
      OBVIOUS
    <3>1. PICK m \in DOMAIN completions, n \in DOMAIN completions :
            m # n /\ completions'[j] = completions[m] /\ completions'[k] = completions[n]
      BY <1>5, <2>1, DropAtOrder
    <3>2. QED
      BY <3>1 DEF PendingExact
  <2>10. QED
    BY <2>7, <2>8, <2>9 DEF PendingExact
<1>17. QED
  BY <1>1, <1>10, <1>11, <1>12, <1>13, <1>14, <1>15, <1>16

(***************************************************************************)
(* Cancellation of a queued job.  Its submission is in the ring exactly    *)
(* once, so the purge drops that entry and no other.                       *)
(***************************************************************************)
LEMMA PurgeDropsOne ==
  ASSUME IInv, NEW binding, NEW slot \in find_inflight(binding), Queued(slot)
  PROVE  \E k \in DOMAIN submissions :
           /\ submissions[k] = inflight[slot].submission
           /\ PurgedRing(binding) = DropAt(submissions, k)
<1> USE DEF IInv, AuthorityInv
<1>1. /\ slot \in Slots /\ inflight[slot].active
      /\ binding_matches(binding, inflight[slot].submission)
  BY DEF find_inflight
<1>2. PICK k \in DOMAIN submissions : submissions[k] = inflight[slot].submission
  BY <1>1 DEF QueueExact
<1> DEFINE matching == {i \in DOMAIN submissions : binding_matches(binding, submissions[i])}
<1>3. k \in matching
  BY <1>1, <1>2
<1>4. ASSUME NEW m \in matching PROVE m = k
  <2>1. PICK t \in Slots : Queued(t) /\ inflight[t].submission = submissions[m]
    BY DEF QueueExact
  <2>2. t = slot
    BY <1>1, <2>1, LiveCases, OneSlotPerBinding DEF Queued
  <2>3. submissions[m] = submissions[k]
    BY <1>2, <2>1, <2>2
  <2>4. submissions[m] \in Submission /\ m \in Nat /\ k \in Nat
    BY DEF TypeOK
  <2>5. submissions[m].execution_sequence \in Nat
    BY <2>4 DEF Submission
  <2>6. ~(m < k) /\ ~(k < m)
    BY <2>3, <2>5 DEF QueueExact
  <2>7. QED
    BY <2>4, <2>6
<1>5. matching = {k}
  BY <1>3, <1>4
<1>6. PurgedRing(binding) = DropAt(submissions, k)
  <2>1. PurgedRing(binding) = DropAt(submissions, CHOOSE i \in matching : TRUE)
    BY <1>3 DEF PurgedRing
  <2> HIDE DEF matching
  <2>2. QED
    BY <1>5, <2>1
<1>7. QED
  BY <1>2, <1>6

LEMMA InvCancelQueued ==
  ASSUME IInv, NEW binding \in Bindings, CancelQueued(binding)
  PROVE  IInv'
<1> USE DEF IInv, AuthorityInv
<1>1. TypeOK'
  BY TypeCancel DEF job_cancel
<1>2. PICK slot \in Slots :
        /\ slot \in find_inflight(binding)
        /\ ~inflight[slot].dispatched
        /\ submissions' = PurgedRing(binding)
        /\ inflight' = [inflight EXCEPT ![slot] = ZeroInflight]
        /\ UNCHANGED <<objects, completions, shadows, authority_epoch, next_sequence>>
  BY DEF CancelQueued, IsFirst
<1>3. inflight[slot].active /\ Queued(slot)
  BY <1>2 DEF find_inflight, Queued
<1>4. PICK k \in DOMAIN submissions : /\ submissions[k] = inflight[slot].submission
                                      /\ submissions' = DropAt(submissions, k)
  BY <1>2, <1>3, PurgeDropsOne
<1>5. /\ inflight'[slot] = ZeroInflight
      /\ \A s \in Slots : s # slot => inflight'[s] = inflight[s]
  BY <1>2 DEF TypeOK
<1>6. ~inflight'[slot].active
  BY <1>5 DEF ZeroInflight
<1>7. \A s \in Slots : Live(s)' => Live(s) /\ SubmissionAt(s)' = SubmissionAt(s)
  <2>1. ~shadows[slot].active
    BY <1>3 DEF SlotsExclusive
  <2>2. QED
    BY <1>2, <1>5, <1>6, <2>1 DEF Live, SubmissionAt
<1>8. SlotsExclusive'
  BY <1>2, <1>5, <1>6 DEF SlotsExclusive
<1>9. LiveWellFormed' /\ LiveDistinct'
  BY <1>2, <1>7, IdentityFrame
<1>10. ShadowSound'
  BY <1>2 DEF ShadowSound
<1>11. RefsInBounds'
  BY <1>2, <1>7, BoundsFrame
<1>12. SnapshotNamesVersion'
  BY <1>2, <1>5, <1>6, SnapshotFrame
<1>13. PendingExact'
  <2>1. \A s \in Slots : /\ Posted(s)' <=> Posted(s)
                         /\ Posted(s) => inflight'[s] = inflight[s]
    BY <1>2, <1>5, <1>6 DEF Posted, PendingExact
  <2>2. QED
    BY <1>2, <2>1, PendingFrame
<1>14. QueueExact'
  <2>1. submissions \in Seq(Submission)
    BY DEF TypeOK
  <2>2. \A s \in Slots : Queued(s)' <=> Queued(s) /\ s # slot
    BY <1>5, <1>6 DEF Queued
  <2>3. \A n \in DOMAIN submissions : n # k => submissions[n] # submissions[k]
    <3> SUFFICES ASSUME NEW n \in DOMAIN submissions, n # k,
                        submissions[n] = submissions[k]
                 PROVE  FALSE
      OBVIOUS
    <3>1. submissions[n] \in Submission /\ n \in Nat /\ k \in Nat
      BY <2>1
    <3>2. submissions[n].execution_sequence \in Nat
      BY <3>1 DEF Submission
    <3>3. ~(n < k) /\ ~(k < n)
      BY <3>2 DEF QueueExact
    <3>4. QED
      BY <3>1, <3>3
  <2>4. \A i \in DOMAIN submissions' : \E s \in Slots :
          Queued(s)' /\ inflight'[s].submission = submissions'[i]
    <3> TAKE i \in DOMAIN submissions'
    <3>1. PICK n \in DOMAIN submissions : n # k /\ submissions'[i] = submissions[n]
      BY <1>4, <2>1, DropAtEntries
    <3>2. PICK s \in Slots : Queued(s) /\ inflight[s].submission = submissions[n]
      BY DEF QueueExact
    <3>3. s # slot
      BY <1>4, <2>3, <3>1, <3>2
    <3>4. QED
      BY <1>5, <2>2, <3>1, <3>2, <3>3
  <2>5. \A s \in Slots : Queued(s)' =>
          \E i \in DOMAIN submissions' : submissions'[i] = inflight'[s].submission
    <3> SUFFICES ASSUME NEW s \in Slots, Queued(s)'
                 PROVE  \E i \in DOMAIN submissions' :
                          submissions'[i] = inflight'[s].submission
      OBVIOUS
    <3>1. Queued(s) /\ s # slot /\ inflight'[s] = inflight[s]
      BY <1>5, <2>2
    <3>2. PICK n \in DOMAIN submissions : submissions[n] = inflight[s].submission
      BY <3>1 DEF QueueExact
    <3>3. n # k
      BY <1>3, <1>4, <3>1, <3>2, LiveCases DEF LiveDistinct, Queued
    <3>4. QED
      BY <1>4, <2>1, <3>1, <3>2, <3>3, DropAtEntries
  <2>6. \A i, j \in DOMAIN submissions' : i < j =>
          submissions'[i].execution_sequence < submissions'[j].execution_sequence
    <3> SUFFICES ASSUME NEW i \in DOMAIN submissions', NEW j \in DOMAIN submissions', i < j
                 PROVE  submissions'[i].execution_sequence < submissions'[j].execution_sequence
      OBVIOUS
    <3>1. PICK m \in DOMAIN submissions, n \in DOMAIN submissions :
            m < n /\ submissions'[i] = submissions[m] /\ submissions'[j] = submissions[n]
      BY <1>4, <2>1, DropAtOrder
    <3>2. QED
      BY <3>1 DEF QueueExact
  <2>7. QED
    BY <2>4, <2>5, <2>6 DEF QueueExact
<1>15. QED
  BY <1>1, <1>8, <1>9, <1>10, <1>11, <1>12, <1>13, <1>14

LEMMA InvCancelDispatched ==
  ASSUME IInv, NEW binding \in Bindings, CancelDispatched(binding)
  PROVE  IInv'
<1> USE DEF IInv, AuthorityInv
<1>1. TypeOK'
  BY TypeCancel DEF job_cancel
<1>2. PICK slot \in Slots :
        inflight' = [inflight EXCEPT ![slot].cancel_requested = TRUE,
                                     ![slot].snapshot = ZeroImage]
  BY DEF CancelDispatched
<1>3. UNCHANGED <<objects, submissions, completions, shadows, authority_epoch, next_sequence>>
  BY DEF CancelDispatched
<1>4. /\ inflight'[slot].cancel_requested
      /\ \A s \in Slots : s # slot => inflight'[s] = inflight[s]
      /\ \A s \in Slots : /\ inflight'[s].active = inflight[s].active
                           /\ inflight'[s].dispatched = inflight[s].dispatched
                           /\ inflight'[s].completion_posted = inflight[s].completion_posted
                           /\ inflight'[s].submission = inflight[s].submission
  BY <1>2 DEF TypeOK, InflightSlot
<1>5. \A s \in Slots : Live(s)' = Live(s) /\ SubmissionAt(s)' = SubmissionAt(s)
  BY <1>3, <1>4 DEF Live, SubmissionAt
<1>6. SlotsExclusive'
  BY <1>3, <1>4 DEF SlotsExclusive
<1>7. LiveWellFormed' /\ LiveDistinct'
  BY <1>3, <1>5, IdentityFrame
<1>8. ShadowSound'
  BY <1>3 DEF ShadowSound
<1>9. RefsInBounds'
  BY <1>3, <1>5, BoundsFrame
<1>10. SnapshotNamesVersion'
  BY <1>3, <1>4, SnapshotFrame
<1>11. PendingExact'
  <2>1. \A s \in Slots : Posted(s)' = Posted(s)
    BY <1>4 DEF Posted
  <2>2. QED
    BY <1>3, <1>4, <2>1, PendingFrame
<1>12. QueueExact'
  <2>1. \A s \in Slots : Queued(s)' = Queued(s)
    BY <1>4 DEF Queued
  <2>2. QED
    BY <1>3, <1>4, <2>1, QueueFrame
<1>13. QED
  BY <1>1, <1>6, <1>7, <1>8, <1>9, <1>10, <1>11, <1>12

(***************************************************************************)
(* A step that only touches one waiting shadow keeps everything, as long   *)
(* as the shadow itself stays sound.                                       *)
(***************************************************************************)
LEMMA ShadowStep ==
  ASSUME IInv, TypeOK', NEW slot \in Slots, NEW shadow,
         shadows[slot].active,
         shadows' = [shadows EXCEPT ![slot] = shadow],
         UNCHANGED <<objects, submissions, completions, inflight,
                     authority_epoch, next_sequence>>,
         shadow.active,
         shadow.submission = shadows[slot].submission,
         shadow.completion = shadows[slot].completion,
         shadow.approved => CanApprove(shadow),
         shadow.cancel_requested => /\ shadow.bytes = ZeroImage
                                    /\ \A id \in ObjectIds : shadow.staged[id] = {}
  PROVE  IInv'
<1> USE DEF IInv, AuthorityInv
<1>1. shadows'[slot] = shadow /\ \A s \in Slots : s # slot => shadows'[s] = shadows[s]
  BY DEF TypeOK
<1>2. \A s \in Slots : Live(s)' = Live(s) /\ SubmissionAt(s)' = SubmissionAt(s)
  BY <1>1 DEF Live, SubmissionAt
<1>3. SlotsExclusive'
  BY <1>1 DEF SlotsExclusive
<1>4. LiveWellFormed' /\ LiveDistinct'
  BY <1>2, IdentityFrame
<1>5. ShadowSound'
  BY <1>1 DEF ShadowSound
<1>6. RefsInBounds'
  BY <1>2, BoundsFrame
<1>7. SnapshotNamesVersion'
  BY DEF SnapshotNamesVersion
<1>8. QueueExact' /\ PendingExact'
  BY DEF QueueExact, PendingExact, Queued, Posted
<1>9. QED
  BY <1>3, <1>4, <1>5, <1>6, <1>7, <1>8

LEMMA InvCancelShadow ==
  ASSUME IInv, NEW binding \in Bindings, CancelShadow(binding)
  PROVE  IInv'
<1> USE DEF IInv, AuthorityInv
<1>1. TypeOK'
  BY TypeCancel DEF job_cancel
<1>2. PICK slot \in Slots :
        /\ shadows[slot].active
        /\ shadows' = [shadows EXCEPT ![slot] = CancelledShadow(shadows[slot])]
  BY DEF CancelShadow, IsFirst, find_shadow
<1> DEFINE shadow == CancelledShadow(shadows[slot])
<1>3. /\ shadow.active /\ ~shadow.approved
      /\ shadow.submission = shadows[slot].submission
      /\ shadow.completion = shadows[slot].completion
      /\ shadow.bytes = ZeroImage
      /\ \A id \in ObjectIds : shadow.staged[id] = {}
  BY <1>2 DEF CancelledShadow, TypeOK, ShadowSlot
<1>4. UNCHANGED <<objects, submissions, completions, inflight, authority_epoch, next_sequence>>
  BY DEF CancelShadow
<1> HIDE DEF shadow
<1>5. shadows' = [shadows EXCEPT ![slot] = shadow]
  BY <1>2 DEF shadow
<1>6. QED
  BY <1>1, <1>2, <1>3, <1>4, <1>5, ShadowStep

LEMMA InvApprove ==
  ASSUME IInv, NEW binding \in Bindings, job_shadow_approve_core(binding)
  PROVE  IInv'
<1> USE DEF IInv, AuthorityInv
<1>1. TypeOK'
  BY TypeApprove
<1>2. PICK slot \in Slots :
        /\ shadows[slot].active
        /\ CanApprove(shadows[slot])
        /\ shadows' = [shadows EXCEPT ![slot].approved = TRUE]
  BY DEF job_shadow_approve_core, IsFirst, find_shadow
<1> DEFINE shadow == [shadows[slot] EXCEPT !.approved = TRUE]
<1>3. /\ shadow.active
      /\ shadow.submission = shadows[slot].submission
      /\ shadow.completion = shadows[slot].completion
      /\ shadow.staged = shadows[slot].staged
      /\ shadow.cancel_requested = shadows[slot].cancel_requested
  BY <1>2 DEF TypeOK, ShadowSlot
<1>4. UNCHANGED <<objects, submissions, completions, inflight, authority_epoch, next_sequence>>
  BY DEF job_shadow_approve_core
<1>5. shadows' = [shadows EXCEPT ![slot] = shadow]
  BY <1>2 DEF TypeOK
<1> HIDE DEF shadow
<1>6. CanApprove(shadow) /\ ~shadow.cancel_requested
  BY <1>2, <1>3 DEF CanApprove
<1>7. QED
  BY <1>1, <1>2, <1>3, <1>4, <1>5, <1>6, ShadowStep

LEMMA InvStage ==
  ASSUME IInv, NEW binding \in Bindings, NEW object_id \in ObjectIds,
         NEW offset \in Offsets, NEW length \in 1 .. MaxBytes,
         NEW source \in [0 .. length - 1 -> Bytes],
         job_shadow_write_core(binding, object_id, offset, length, source)
  PROVE  IInv'
<1> USE DEF IInv, AuthorityInv
<1>1. TypeOK'
  BY TypeStage
<1> DEFINE staging == offset .. offset + length - 1
           image(slot) == [i \in Offsets |-> IF i \in staging THEN source[i - offset]
                                            ELSE shadows[slot].bytes[object_id][i]]
           after(slot) == [shadows[slot] EXCEPT
                             !.bytes[object_id] = image(slot),
                             !.staged[object_id] = @ \cup staging]
<1>2. PICK slot \in Slots :
        /\ shadows[slot].active
        /\ MayStage(shadows[slot])
        /\ shadows' = [shadows EXCEPT
             ![slot].bytes[object_id] =
                [i \in Offsets |-> IF i \in staging THEN source[i - offset] ELSE @[i]],
             ![slot].staged[object_id] = @ \cup staging]
  BY DEF job_shadow_write_core, IsFirst, find_shadow, CanStage
<1>3. shadows' = [shadows EXCEPT ![slot] = after(slot)]
  BY <1>2 DEF TypeOK, ShadowSlot
<1>4. /\ after(slot).active
      /\ after(slot).submission = shadows[slot].submission
      /\ after(slot).completion = shadows[slot].completion
      /\ after(slot).approved = shadows[slot].approved
      /\ after(slot).cancel_requested = shadows[slot].cancel_requested
  BY <1>2 DEF TypeOK, ShadowSlot
<1>5. ~shadows[slot].approved /\ ~shadows[slot].cancel_requested
  BY <1>2 DEF MayStage
<1>6. UNCHANGED <<objects, submissions, completions, inflight, authority_epoch, next_sequence>>
  BY DEF job_shadow_write_core
<1> HIDE DEF after
<1>7. QED
  BY <1>1, <1>2, <1>3, <1>4, <1>5, <1>6, ShadowStep

(***************************************************************************)
(* Finalization.  raveil_completion_record_validate_v1 only counts the     *)
(* outputs and checks each of them; that they name every WRITE reference   *)
(* is a counting argument.                                                 *)
(***************************************************************************)
LEMMA OutputsCoverWrites ==
  ASSUME NEW job \in Jobs, NEW completion \in Completion,
         completion.status = "EXECUTED",
         raveil_completion_record_validate_v1(job, completion),
         NEW ref \in WriteRefs(job)
  PROVE  \E output \in completion.outputs : /\ output.object_id = ref.object_id
                                            /\ output.generation = ref.generation
<1> DEFINE outputs == completion.outputs
           named == [output \in outputs |->
                       CHOOSE r \in WriteRefs(job) : /\ r.object_id = output.object_id
                                                     /\ r.generation = output.generation]
<1>1. IsFiniteSet(WriteRefs(job))
  <2>1. IsFiniteSet(job.refs) /\ WriteRefs(job) \in SUBSET job.refs
    BY AuthorityConstants DEF WriteRefs
  <2>2. QED
    BY <2>1, FS_Subset
<1>2. /\ Cardinality(outputs) = Cardinality(WriteRefs(job))
      /\ \A output \in outputs : NamesWriteRef(job, output)
      /\ \A left, right \in outputs :
           left # right => \/ left.object_id # right.object_id
                           \/ left.generation # right.generation
  BY DEF raveil_completion_record_validate_v1
<1>3. \A output \in outputs : /\ named[output] \in WriteRefs(job)
                              /\ named[output].object_id = output.object_id
                              /\ named[output].generation = output.generation
  BY <1>2 DEF NamesWriteRef
<1>4. named \in [outputs -> WriteRefs(job)]
  BY <1>3
<1> HIDE DEF named, outputs
<1>5. \A left, right \in outputs : named[left] = named[right] => left = right
  BY <1>2, <1>3
<1>6. named \in Injection(outputs, WriteRefs(job))
  BY <1>4, <1>5 DEF Injection, IsInjective
<1>7. named \in Surjection(outputs, WriteRefs(job))
  BY <1>1, <1>2, <1>6, FS_Injection
<1>8. PICK output \in outputs : named[output] = ref
  BY <1>7 DEF Surjection
<1>9. QED
  BY <1>3, <1>8 DEF outputs

(***************************************************************************)
(* What a commit does to the object table: the objects the job writes move *)
(* to the next version, the others keep version and bytes.                 *)
(***************************************************************************)
LEMMA CommitEffect ==
  ASSUME IInv, NEW slot \in Slots, shadows[slot].active,
         NEW commit, Commits(shadows[slot], commit),
         NEW id \in ObjectIds
  PROVE  LET after == Published(shadows[slot])[id]
             written == {ref.object_id : ref \in WriteRefs(shadows[slot].submission.job)} IN
           /\ after.active = objects[id].active
           /\ after.generation = objects[id].generation
           /\ after.byte_length = objects[id].byte_length
           /\ after.permitted_access = objects[id].permitted_access
           /\ id \in written => after.version = objects[id].version + 1
           /\ id \notin written => after.version = objects[id].version
           /\ \A i \in Offsets : after.visible[i] =
                IF \E ref \in WriteRefs(shadows[slot].submission.job) :
                     ref.object_id = id /\ i \in Covers(ref)
                  THEN shadows[slot].bytes[id][i] ELSE objects[id].visible[i]
           /\ id \notin written => after.visible = objects[id].visible
<1> USE DEF IInv, AuthorityInv
<1> DEFINE shadow == shadows[slot]
           job == shadow.submission.job
           outputs == shadow.completion.outputs
           written == {ref.object_id : ref \in WriteRefs(job)}
           image == [i \in Offsets |->
                       IF \E ref \in WriteRefs(job) : ref.object_id = id /\ i \in Covers(ref)
                         THEN shadow.bytes[id][i] ELSE objects[id].visible[i]]
           version == IF \E output \in outputs : output.object_id = id
                        THEN (CHOOSE output \in outputs : output.object_id = id).version
                        ELSE objects[id].version
           after == Published(shadow)[id]
<1>1. objects[id] \in Object /\ objects[id].visible \in [Offsets -> Bytes]
  BY DEF TypeOK, Object, Content
<1>2. after = [objects[id] EXCEPT !.visible = image, !.version = version]
  BY DEF Published
<1>3. /\ after.active = objects[id].active
      /\ after.generation = objects[id].generation
      /\ after.byte_length = objects[id].byte_length
      /\ after.permitted_access = objects[id].permitted_access
      /\ after.visible = image
      /\ after.version = version
  <2> HIDE DEF image, version
  <2> QED BY <1>1, <1>2 DEF Object
<1>4. /\ shadow.completion \in Completion
      /\ shadow.completion.status = "EXECUTED"
      /\ raveil_completion_record_validate_v1(job, shadow.completion)
  BY DEF ShadowSound, Commits, MayCommit, CanApprove, TypeOK, ShadowSlot
<1>5. job \in Jobs
  BY LiveCases DEF LiveWellFormed
<1>6. \A output \in outputs : output.object_id = id => output.version = objects[id].version + 1
  BY DEF Commits, OutputsSuccessors
<1>7. \A output \in outputs : output.object_id \in written
  <2>1. \A output \in outputs : NamesWriteRef(job, output)
    BY <1>4 DEF raveil_completion_record_validate_v1
  <2>2. QED
    BY <2>1 DEF NamesWriteRef
<1>8. ASSUME id \in written PROVE version = objects[id].version + 1
  <2>1. PICK ref \in WriteRefs(job) : ref.object_id = id
    BY <1>8
  <2>2. PICK output \in outputs : output.object_id = id
    BY <1>4, <1>5, <2>1, OutputsCoverWrites
  <2>3. (CHOOSE o \in outputs : o.object_id = id) \in outputs
        /\ (CHOOSE o \in outputs : o.object_id = id).object_id = id
    BY <2>2
  <2>4. QED
    BY <1>6, <2>2, <2>3
<1>9. ASSUME id \notin written PROVE version = objects[id].version /\ image = objects[id].visible
  <2>1. version = objects[id].version
    BY <1>7, <1>9
  <2>2. \A ref \in WriteRefs(job) : ref.object_id # id
    BY <1>9
  <2>3. image = objects[id].visible
    BY <1>1, <2>2
  <2>4. QED
    BY <2>1, <2>3
<1> HIDE DEF version
<1>10. QED
  BY <1>3, <1>8, <1>9

LEMMA InvFinalize ==
  ASSUME IInv, NEW binding \in Bindings, NEW commit \in BOOLEAN,
         job_shadow_finalize_core(binding, commit)
  PROVE  IInv'
<1> USE DEF IInv, AuthorityInv
<1>1. TypeOK'
  BY TypeFinalize
<1>2. PICK slot \in Slots :
        /\ shadows[slot].active
        /\ shadows' = [shadows EXCEPT ![slot] = ZeroShadow]
        /\ objects' = IF Commits(shadows[slot], commit)
                        THEN Published(shadows[slot]) ELSE objects
  BY DEF job_shadow_finalize_core, IsFirst, find_shadow
<1>3. UNCHANGED <<submissions, completions, inflight, authority_epoch, next_sequence>>
  BY DEF job_shadow_finalize_core
<1>4. /\ ~shadows'[slot].active
      /\ \A s \in Slots : s # slot => shadows'[s] = shadows[s]
  BY <1>2 DEF TypeOK, ZeroShadow
<1>5. ~inflight[slot].active
  BY <1>2 DEF SlotsExclusive
<1>6. \A s \in Slots : Live(s)' => Live(s) /\ SubmissionAt(s)' = SubmissionAt(s)
  BY <1>3, <1>4, <1>5 DEF Live, SubmissionAt
<1>7. SlotsExclusive'
  BY <1>3, <1>4 DEF SlotsExclusive
<1>8. LiveWellFormed' /\ LiveDistinct'
  BY <1>3, <1>6, IdentityFrame
<1>9. QueueExact' /\ PendingExact'
  BY <1>3 DEF QueueExact, PendingExact, Queued, Posted
<1>10. ShadowSound'
  BY <1>4 DEF ShadowSound
<1>11. \A id \in ObjectIds :
         /\ objects'[id].active = objects[id].active
         /\ objects'[id].generation = objects[id].generation
         /\ objects'[id].byte_length = objects[id].byte_length
         /\ \/ /\ objects'[id].version = objects[id].version
              /\ objects'[id].visible = objects[id].visible
            \/ objects'[id].version = objects[id].version + 1
  <2>1. CASE Commits(shadows[slot], commit)
    BY <1>2, <2>1, CommitEffect
  <2>2. CASE ~Commits(shadows[slot], commit)
    BY <1>2, <2>2
  <2>3. QED
    BY <2>1, <2>2
<1>12. \A s \in Slots : Live(s) => SubmissionAt(s).job.refs \subseteq ObjectRef
  BY AuthorityConstants DEF LiveWellFormed, JobDescriptor
<1>13. \A id \in ObjectIds : objects[id].version \in Nat
  BY DEF TypeOK, Object
<1>14. RefsInBounds'
  <2> SUFFICES ASSUME NEW s \in Slots, Live(s)', NEW ref \in SubmissionAt(s)'.job.refs
               PROVE  /\ objects'[ref.object_id].active
                      /\ objects'[ref.object_id].generation = ref.generation
                      /\ ref.offset + ref.length <= objects'[ref.object_id].byte_length
                      /\ ref.expected_version <= objects'[ref.object_id].version
    BY DEF RefsInBounds
  <2>1. Live(s) /\ ref \in SubmissionAt(s).job.refs
    BY <1>6
  <2>2. ref.object_id \in ObjectIds /\ ref.expected_version \in Nat
    BY <1>12, <2>1 DEF ObjectRef
  <2>3. /\ objects[ref.object_id].active
        /\ objects[ref.object_id].generation = ref.generation
        /\ ref.offset + ref.length <= objects[ref.object_id].byte_length
        /\ ref.expected_version <= objects[ref.object_id].version
    BY <2>1 DEF RefsInBounds
  <2>4. QED
    BY <1>11, <1>13, <2>2, <2>3
<1>15. SnapshotNamesVersion'
  <2> SUFFICES ASSUME NEW s \in Slots, inflight[s].active, ~inflight[s].cancel_requested,
                      NEW ref \in inflight[s].submission.job.refs,
                      objects'[ref.object_id].version = ref.expected_version
               PROVE  inflight[s].snapshot[ref.object_id] = objects'[ref.object_id].visible
    BY <1>3 DEF SnapshotNamesVersion
  <2>1. Live(s) /\ ref \in SubmissionAt(s).job.refs
    BY LiveCases
  <2>2. ref.object_id \in ObjectIds /\ ref.expected_version \in Nat
    BY <1>12, <2>1 DEF ObjectRef
  <2>3. ref.expected_version <= objects[ref.object_id].version
    BY <2>1 DEF RefsInBounds
  <2>4. /\ objects'[ref.object_id].version = objects[ref.object_id].version
        /\ objects'[ref.object_id].visible = objects[ref.object_id].visible
    BY <1>11, <1>13, <2>2, <2>3
  <2>5. QED
    BY <2>4 DEF SnapshotNamesVersion
<1>16. QED
  BY <1>1, <1>7, <1>8, <1>9, <1>10, <1>14, <1>15

----------------------------------------------------------------------------
(***************************************************************************)
(* The invariant holds after every call.                                   *)
(***************************************************************************)
LEMMA InvStep ==
  ASSUME IInv, [Next]_vars PROVE IInv'
<1>1. ASSUME NEW epoch \in Epochs, job_authority_init(epoch) PROVE IInv'
  BY <1>1, InvRestart
<1>2. ASSUME NEW manifest \in Manifests,
             NEW initial \in [0 .. manifest.byte_length - 1 -> Bytes],
             job_object_register_bytes_core(manifest, initial)
      PROVE  IInv'
  BY <1>2, InvRegister
<1>3. ASSUME NEW job \in Jobs, job_submit_bound_core(job) PROVE IInv'
  BY <1>3, InvSubmit
<1>4. CASE job_submission_take
  BY <1>4, InvTake
<1>5. ASSUME NEW binding \in Bindings, NEW status \in Status, NEW outputs \in OutputSets,
             job_completion_post([binding |-> binding, status |-> status,
                                  outputs |-> outputs])
      PROVE  IInv'
  BY <1>5, InvPost
<1>6. CASE job_completion_take
  <2>1. 1 \in DOMAIN completions
    BY <1>6 DEF job_completion_take, IInv, TypeOK
  <2>2. QED
    BY <1>6, <2>1, InvObserve DEF job_completion_take
<1>7. ASSUME NEW binding \in Bindings, job_completion_take_bound(binding) PROVE IInv'
  BY <1>7, InvObserve DEF job_completion_take_bound
<1>8. ASSUME NEW binding \in Bindings, job_cancel(binding) PROVE IInv'
  BY <1>8, InvCancelQueued, InvCancelDispatched, InvCancelShadow DEF job_cancel
<1>9. ASSUME NEW binding \in Bindings, NEW object_id \in ObjectIds, NEW offset \in Offsets,
             NEW length \in 1 .. MaxBytes, NEW source \in [0 .. length - 1 -> Bytes],
             job_shadow_write_core(binding, object_id, offset, length, source)
      PROVE  IInv'
  BY <1>9, InvStage
<1>10. ASSUME NEW binding \in Bindings, job_shadow_approve_core(binding) PROVE IInv'
  BY <1>10, InvApprove
<1>11. ASSUME NEW binding \in Bindings, NEW commit \in BOOLEAN,
              job_shadow_finalize_core(binding, commit)
       PROVE  IInv'
  BY <1>11, InvFinalize
<1>12. CASE UNCHANGED vars
  <2>1. TypeOK'
    BY <1>12 DEF vars, IInv, TypeOK
  <2>2. SlotsExclusive' /\ LiveWellFormed' /\ LiveDistinct'
    BY <1>12 DEF vars, IInv, AuthorityInv, SlotsExclusive, LiveWellFormed, LiveDistinct,
                 Live, SubmissionAt
  <2>3. QueueExact' /\ PendingExact'
    BY <1>12 DEF vars, IInv, AuthorityInv, QueueExact, PendingExact, Queued, Posted
  <2>4. ShadowSound' /\ RefsInBounds' /\ SnapshotNamesVersion'
    BY <1>12 DEF vars, IInv, AuthorityInv, ShadowSound, RefsInBounds, SnapshotNamesVersion,
                 Live, SubmissionAt
  <2>5. QED
    BY <2>1, <2>2, <2>3, <2>4 DEF IInv, AuthorityInv
<1>13. QED
  BY <1>1, <1>2, <1>3, <1>4, <1>5, <1>6, <1>7, <1>8, <1>9, <1>10, <1>11, <1>12 DEF Next

\* The invariant is inductive: for every size of the tables, after every sequence
\* of calls, types, tables, bounds and snapshots of the authority are sound.
THEOREM Inductive == Spec => []IInv
BY InvInit, InvStep, PTL DEF Spec

(***************************************************************************)
(* The rings, the slots and the shadows tell one story about every job.    *)
(***************************************************************************)
THEOREM AuthorityConsistent == Spec => []AuthorityInv
<1>1. IInv => AuthorityInv
  BY DEF IInv
<1>2. QED
  BY <1>1, Inductive, PTL

(***************************************************************************)
(* Every reference of a live job stays inside its object.                  *)
(***************************************************************************)
THEOREM BoundsHold == Spec => []RefsInBounds
<1>1. IInv => RefsInBounds
  BY DEF IInv
<1>2. QED
  BY <1>1, Inductive, PTL

(***************************************************************************)
(* A version number names one content for as long as a job runs on it.     *)
(***************************************************************************)
THEOREM SnapshotsHold == Spec => []SnapshotNamesVersion
<1>1. IInv => SnapshotNamesVersion
  BY DEF IInv
<1>2. QED
  BY <1>1, Inductive, PTL

(***************************************************************************)
(* The rings are as long as the slot tables: a slot without a queued job   *)
(* leaves room in the submission ring, one without a posted completion in  *)
(* the completion ring.                                                    *)
(***************************************************************************)
LEMMA RingsHaveRoom ==
  ASSUME IInv PROVE RingsNeverBlock
<1> USE DEF IInv, AuthorityInv
<1>1. IsFiniteSet(Slots) /\ Cardinality(Slots) = RingDepth /\ RingDepth \in Nat
  BY FS_Interval, AuthorityConstants DEF Slots
<1>2. ASSUME NEW free \in Slots
      PROVE  IsFiniteSet(Slots \ {free}) /\ Cardinality(Slots \ {free}) = RingDepth - 1
  BY <1>1, FS_RemoveElement
<1>3. ASSUME FreeSlots # {} PROVE Len(submissions) < RingDepth
  <2>1. PICK free \in Slots : ~Queued(free)
    BY <1>3 DEF FreeSlots, Queued
  <2> DEFINE owner == [i \in 1 .. Len(submissions) |->
                         CHOOSE s \in Slots : /\ Queued(s)
                                              /\ inflight[s].submission = submissions[i]]
  <2>2. /\ Len(submissions) \in Nat
        /\ DOMAIN submissions = 1 .. Len(submissions)
        /\ \A i \in DOMAIN submissions : submissions[i] \in Submission
    BY DEF TypeOK
  <2>3. \A i \in 1 .. Len(submissions) : /\ owner[i] \in Slots
                                         /\ Queued(owner[i])
                                         /\ inflight[owner[i]].submission = submissions[i]
    BY <2>2 DEF QueueExact
  <2>4. owner \in [1 .. Len(submissions) -> Slots \ {free}]
    BY <2>1, <2>3
  <2> HIDE DEF owner
  <2>5. \A i \in DOMAIN submissions : submissions[i].execution_sequence \in Nat
    BY <2>2 DEF Submission
  <2>6. \A i, j \in 1 .. Len(submissions) : owner[i] = owner[j] => i = j
    <3> SUFFICES ASSUME NEW i \in 1 .. Len(submissions), NEW j \in 1 .. Len(submissions),
                        owner[i] = owner[j]
                 PROVE  i = j
      OBVIOUS
    <3>1. submissions[i] = submissions[j]
      BY <2>3
    <3>2. ~(i < j) /\ ~(j < i)
      <4>1. /\ i \in DOMAIN submissions /\ j \in DOMAIN submissions
            /\ submissions[i].execution_sequence \in Nat
        BY <2>2, <2>5
      <4>2. QED
        BY <3>1, <4>1 DEF QueueExact
    <3>3. QED
      BY <3>2
  <2>7. owner \in Injection(1 .. Len(submissions), Slots \ {free})
    BY <2>4, <2>6 DEF Injection, IsInjective
  <2>8. Cardinality(1 .. Len(submissions)) <= RingDepth - 1
    <3>1. IsFiniteSet(Slots \ {free}) /\ Cardinality(Slots \ {free}) = RingDepth - 1
      BY <1>2
    <3>2. Cardinality(1 .. Len(submissions)) <= Cardinality(Slots \ {free})
      BY <2>7, <3>1, FS_Injection, Zenon
    <3>3. QED
      BY <3>1, <3>2
  <2>9. Cardinality(1 .. Len(submissions)) = Len(submissions)
    BY <2>2, FS_Interval
  <2>10. QED
    BY <1>1, <2>2, <2>8, <2>9
<1>4. ASSUME NEW waiting \in Slots, AwaitsCompletion(waiting)
      PROVE  Len(completions) < RingDepth
  <2>1. ~Posted(waiting)
    BY <1>4 DEF AwaitsCompletion, Posted
  <2> DEFINE owner == [i \in 1 .. Len(completions) |->
                         CHOOSE s \in Slots :
                           /\ Posted(s)
                           /\ binding_matches(completions[i].binding, inflight[s].submission)]
  <2>2. /\ Len(completions) \in Nat
        /\ DOMAIN completions = 1 .. Len(completions)
        /\ \A i \in DOMAIN completions : completions[i] \in Completion
    BY DEF TypeOK
  <2>3. \A i \in 1 .. Len(completions) :
          /\ owner[i] \in Slots
          /\ Posted(owner[i])
          /\ binding_matches(completions[i].binding, inflight[owner[i]].submission)
    BY <2>2 DEF PendingExact
  <2>4. owner \in [1 .. Len(completions) -> Slots \ {waiting}]
    BY <2>1, <2>3
  <2> HIDE DEF owner
  <2>5. \A i \in DOMAIN completions : completions[i].binding \in Binding
    BY <2>2 DEF Completion
  <2>6. \A i, j \in 1 .. Len(completions) : owner[i] = owner[j] => i = j
    <3> SUFFICES ASSUME NEW i \in 1 .. Len(completions), NEW j \in 1 .. Len(completions),
                        owner[i] = owner[j]
                 PROVE  i = j
      OBVIOUS
    <3>1. completions[i].binding = completions[j].binding
      BY <2>2, <2>3, <2>5, SameBinding
    <3>2. QED
      BY <2>2, <3>1 DEF PendingExact
  <2>7. owner \in Injection(1 .. Len(completions), Slots \ {waiting})
    BY <2>4, <2>6 DEF Injection, IsInjective
  <2>8. Cardinality(1 .. Len(completions)) <= RingDepth - 1
    <3>1. IsFiniteSet(Slots \ {waiting}) /\ Cardinality(Slots \ {waiting}) = RingDepth - 1
      BY <1>2
    <3>2. Cardinality(1 .. Len(completions)) <= Cardinality(Slots \ {waiting})
      BY <2>7, <3>1, FS_Injection, Zenon
    <3>3. QED
      BY <3>1, <3>2
  <2>9. Cardinality(1 .. Len(completions)) = Len(completions)
    BY <2>2, FS_Interval
  <2>10. QED
    BY <1>1, <2>2, <2>8, <2>9
<1>5. QED
  BY <1>3, <1>4 DEF RingsNeverBlock

(***************************************************************************)
(* No admissible job and no valid answer is turned away by a full ring.    *)
(***************************************************************************)
THEOREM RingsSuffice == Spec => []RingsNeverBlock
BY RingsHaveRoom, Inductive, PTL

----------------------------------------------------------------------------
(***************************************************************************)
(* Action properties.  Between its approval and its end a shadow does not  *)
(* change.                                                                 *)
(***************************************************************************)
THEOREM ApprovalFreezes == Spec => ApprovedFrozen
<1> DEFINE Frozen == \A s \in Slots :
             (/\ shadows[s].active /\ shadows[s].approved
              /\ shadows'[s].active /\ shadows'[s].approved)
             => shadows'[s] = shadows[s]
<1>1. ASSUME TypeOK, [Next]_vars PROVE Frozen
  <2>1. CASE UNCHANGED shadows
    BY <2>1
  <2>2. ASSUME NEW epoch \in Epochs, job_authority_init(epoch) PROVE Frozen
    BY <2>2 DEF job_authority_init, ZeroShadow
  <2>3. ASSUME NEW i, completion_take_offset(i) PROVE Frozen
    BY <2>3 DEF completion_take_offset, completion_move_to_shadow, ShadowOf, ZeroShadow
  <2>4. ASSUME NEW binding \in Bindings, CancelShadow(binding) PROVE Frozen
    <3>1. PICK slot \in Slots :
            shadows' = [shadows EXCEPT ![slot] = CancelledShadow(shadows[slot])]
      BY <2>4 DEF CancelShadow
    <3>2. ~CancelledShadow(shadows[slot]).approved
      BY <1>1 DEF CancelledShadow, TypeOK, ShadowSlot
    <3>3. QED
      BY <1>1, <3>1, <3>2 DEF TypeOK
  <2>5. ASSUME NEW binding \in Bindings, NEW object_id \in ObjectIds, NEW offset \in Offsets,
               NEW length \in 1 .. MaxBytes, NEW source \in [0 .. length - 1 -> Bytes],
               job_shadow_write_core(binding, object_id, offset, length, source)
        PROVE  Frozen
    <3>1. PICK slot \in Slots : /\ ~shadows[slot].approved
                                /\ \A s \in Slots : s # slot => shadows'[s] = shadows[s]
      BY <1>1, <2>5 DEF job_shadow_write_core, CanStage, MayStage, TypeOK
    <3>2. QED
      BY <3>1
  <2>6. ASSUME NEW binding \in Bindings, job_shadow_approve_core(binding) PROVE Frozen
    <3>1. PICK slot \in Slots : shadows' = [shadows EXCEPT ![slot].approved = TRUE]
      BY <2>6 DEF job_shadow_approve_core
    <3>2. shadows[slot].approved =>
            [shadows[slot] EXCEPT !.approved = TRUE] = shadows[slot]
      BY <1>1 DEF TypeOK, ShadowSlot
    <3>3. QED
      BY <1>1, <3>1, <3>2 DEF TypeOK
  <2>7. ASSUME NEW binding \in Bindings, NEW commit \in BOOLEAN,
               job_shadow_finalize_core(binding, commit)
        PROVE  Frozen
    BY <1>1, <2>7 DEF job_shadow_finalize_core, ZeroShadow, TypeOK
  <2> HIDE DEF Frozen
  <2>8. QED
    BY <1>1, <2>1, <2>2, <2>3, <2>4, <2>5, <2>6, <2>7
       DEF Next, vars, job_object_register_bytes_core, job_submit_bound_core,
           job_submission_take, job_completion_post, job_completion_take,
           job_completion_take_bound, job_cancel, CancelQueued, CancelDispatched
<1>2. QED
  BY <1>1, TypeCorrect, PTL DEF Spec, ApprovedFrozen

(***************************************************************************)
(* Objects change only by the commit of one approved job, all of them at   *)
(* once.                                                                   *)
(***************************************************************************)
THEOREM PublicationIsAtomic == Spec => PublicationAtomic
<1> DEFINE Changed == \E id \in ObjectIds : /\ objects[id].active
                                            /\ objects'[id].active
                                            /\ objects'[id] # objects[id]
           Atomic == Changed => \E slot \in Slots : PublishesAtomically(slot)
<1>1. ASSUME IInv, [Next]_vars PROVE Atomic
  <2>1. CASE UNCHANGED objects
    BY <2>1
  <2>2. ASSUME NEW epoch \in Epochs, job_authority_init(epoch) PROVE Atomic
    BY <2>2 DEF job_authority_init, ZeroObject
  <2>3. ASSUME NEW manifest \in Manifests,
               NEW initial \in [0 .. manifest.byte_length - 1 -> Bytes],
               job_object_register_bytes_core(manifest, initial)
        PROVE  Atomic
    <3>1. \A id \in ObjectIds : objects[id].active => objects'[id] = objects[id]
      BY <1>1, <2>3 DEF job_object_register_bytes_core, CanRegister, IInv, TypeOK
    <3>2. QED
      BY <3>1
  <2>4. ASSUME NEW binding \in Bindings, NEW commit \in BOOLEAN,
               job_shadow_finalize_core(binding, commit)
        PROVE  Atomic
    <3>1. PICK slot \in Slots :
            /\ shadows[slot].active
            /\ shadows' = [shadows EXCEPT ![slot] = ZeroShadow]
            /\ objects' = IF Commits(shadows[slot], commit)
                            THEN Published(shadows[slot]) ELSE objects
      BY <2>4 DEF job_shadow_finalize_core, IsFirst, find_shadow
    <3>2. CASE ~Commits(shadows[slot], commit)
      BY <3>1, <3>2
    <3>3. CASE Commits(shadows[slot], commit)
      <4>1. shadows[slot].approved /\ ~shadows[slot].cancel_requested
        BY <3>3 DEF Commits, MayCommit
      <4>2. shadows[slot].completion.status = "EXECUTED"
        BY <1>1, <3>1, <4>1 DEF IInv, AuthorityInv, ShadowSound, CanApprove
      <4>3. ~shadows'[slot].active
        BY <1>1, <3>1 DEF ZeroShadow, IInv, TypeOK
      <4>4. \A ref \in shadows[slot].submission.job.refs :
              objects[ref.object_id].version = ref.expected_version
        BY <3>3 DEF Commits, RefsCurrent
      <4>5. \A id \in ObjectIds :
              objects'[id].version =
                IF id \in {ref.object_id : ref \in WriteRefs(shadows[slot].submission.job)}
                  THEN objects[id].version + 1 ELSE objects[id].version
        BY <1>1, <3>1, <3>3, CommitEffect
      <4>6. \A id \in ObjectIds, i \in Offsets :
              objects'[id].visible[i] =
                IF \E ref \in WriteRefs(shadows[slot].submission.job) :
                     ref.object_id = id /\ i \in Covers(ref)
                  THEN shadows[slot].bytes[id][i] ELSE objects[id].visible[i]
        BY <1>1, <3>1, <3>3, CommitEffect
      <4>7. PublishesAtomically(slot)
        BY <3>1, <4>1, <4>2, <4>3, <4>4, <4>5, <4>6 DEF PublishesAtomically
      <4>8. QED
        BY <4>7
    <3>4. QED
      BY <3>2, <3>3
  <2> HIDE DEF Atomic
  <2>5. CASE \/ \E job \in Jobs : job_submit_bound_core(job)
             \/ job_submission_take
             \/ \E binding \in Bindings, status \in Status, outputs \in OutputSets :
                  job_completion_post([binding |-> binding, status |-> status, outputs |-> outputs])
             \/ UNCHANGED vars
    BY <2>1, <2>5 DEF vars, job_submit_bound_core, job_submission_take, job_completion_post
  <2>6. CASE \/ job_completion_take
             \/ \E binding \in Bindings : job_completion_take_bound(binding)
    BY <2>1, <2>6 DEF job_completion_take, job_completion_take_bound, completion_take_offset
  <2>7. CASE \E binding \in Bindings : job_cancel(binding)
    BY <2>1, <2>7 DEF job_cancel, CancelQueued, CancelDispatched, CancelShadow
  <2>8. CASE \/ \E binding \in Bindings, object_id \in ObjectIds, offset \in Offsets,
                   length \in 1 .. MaxBytes :
                  \E source \in [0 .. length - 1 -> Bytes] :
                    job_shadow_write_core(binding, object_id, offset, length, source)
             \/ \E binding \in Bindings : job_shadow_approve_core(binding)
    BY <2>1, <2>8 DEF job_shadow_write_core, job_shadow_approve_core
  <2>9. QED
    BY <1>1, <2>2, <2>3, <2>4, <2>5, <2>6, <2>7, <2>8 DEF Next
<1>2. QED
  BY <1>1, Inductive, PTL DEF Spec, PublicationAtomic

(***************************************************************************)
(* A cancelled job stays cancelled until it ends.  A step that admits no   *)
(* job cannot uncancel one unless it clears the flag in its own slot.      *)
(***************************************************************************)
Sticky == CancelledBindings \cap LiveBindings' \subseteq CancelledBindings'

LEMMA StickyFrame ==
  ASSUME IInv,
         \A s \in Slots : Live(s)' =>
            \/ Live(s) /\ SubmissionAt(s)' = SubmissionAt(s)
            \/ \A t \in Slots : Live(t) =>
                 SubmissionAt(s)'.execution_sequence # SubmissionAt(t).execution_sequence,
         \A s \in Slots : (Cancelled(s) /\ Live(s)') => Cancelled(s)'
  PROVE  Sticky
<1> SUFFICES ASSUME NEW binding \in CancelledBindings, binding \in LiveBindings'
             PROVE  binding \in CancelledBindings'
  BY DEF Sticky
<1>1. PICK s \in Slots : /\ Cancelled(s)
                         /\ binding = binding_from_submission(SubmissionAt(s))
  BY DEF CancelledBindings, Cancelled
<1>2. Live(s)
  BY <1>1 DEF Cancelled, Live
<1>3. PICK t \in Slots : /\ Live(t)'
                         /\ binding = binding_from_submission(SubmissionAt(t)')
  BY DEF LiveBindings
<1>4. /\ SubmissionAt(t)'.execution_sequence = SubmissionAt(s).execution_sequence
      /\ SubmissionAt(t)'.job.job_id = SubmissionAt(s).job.job_id
  BY <1>1, <1>3 DEF binding_from_submission
<1>5. Live(t) /\ SubmissionAt(t)' = SubmissionAt(t)
  BY <1>2, <1>3, <1>4
<1>6. t = s
  BY <1>2, <1>4, <1>5 DEF IInv, AuthorityInv, LiveDistinct
<1>7. Cancelled(t)'
  BY <1>1, <1>3, <1>6
<1>8. QED
  BY <1>3, <1>7 DEF CancelledBindings, Cancelled

THEOREM CancellationHolds == Spec => CancellationSticky
<1>1. ASSUME IInv, [Next]_vars PROVE Sticky
  <2> USE <1>1 DEF IInv, AuthorityInv
  <2>1. ASSUME NEW epoch \in Epochs, job_authority_init(epoch) PROVE Sticky
    <3>1. \A s \in Slots : ~Live(s)'
      BY <2>1 DEF job_authority_init, Live, ZeroInflight, ZeroShadow
    <3>2. QED
      BY <3>1, StickyFrame
  <2>2. CASE UNCHANGED <<inflight, shadows>>
    <3>1. \A s \in Slots : Live(s)' = Live(s) /\ SubmissionAt(s)' = SubmissionAt(s)
                           /\ Cancelled(s)' = Cancelled(s)
      BY <2>2 DEF Live, SubmissionAt, Cancelled
    <3>2. QED
      BY <3>1, StickyFrame
  <2>3. ASSUME NEW job \in Jobs, job_submit_bound_core(job) PROVE Sticky
    <3>1. PICK slot \in Slots :
            /\ ~inflight[slot].active /\ ~shadows[slot].active
            /\ inflight'[slot].active
            /\ inflight'[slot].submission = NewSubmission(job)
            /\ \A s \in Slots : s # slot => inflight'[s] = inflight[s]
      BY <2>3 DEF job_submit_bound_core, IsFirst, FreeSlots, TypeOK
    <3>2. UNCHANGED shadows /\ next_sequence # 0
      BY <2>3 DEF job_submit_bound_core, CanSubmit
    <3>3. \A s \in Slots : s # slot => /\ Live(s)' = Live(s)
                                       /\ SubmissionAt(s)' = SubmissionAt(s)
                                       /\ Cancelled(s)' = Cancelled(s)
      BY <3>1, <3>2 DEF Live, SubmissionAt, Cancelled
    <3>4. ~Cancelled(slot) /\ SubmissionAt(slot)'.execution_sequence = next_sequence
      BY <3>1, <3>2 DEF Cancelled, SubmissionAt, NewSubmission
    <3>5. \A t \in Slots : Live(t) => SubmissionAt(t).execution_sequence # next_sequence
      <4>1. next_sequence \in Nat
        BY DEF TypeOK
      <4>2. QED
        BY <3>2, <4>1 DEF LiveWellFormed
    <3>6. QED
      BY <3>3, <3>4, <3>5, StickyFrame
  <2>4. CASE job_submission_take
    <3>1. \A s \in Slots : /\ inflight'[s].active = inflight[s].active
                           /\ inflight'[s].submission = inflight[s].submission
                           /\ inflight'[s].cancel_requested = inflight[s].cancel_requested
      BY <2>4 DEF job_submission_take, TypeOK, InflightSlot
    <3>2. UNCHANGED shadows
      BY <2>4 DEF job_submission_take
    <3>3. QED
      BY <3>1, <3>2, StickyFrame DEF Live, SubmissionAt, Cancelled
  <2>5. ASSUME NEW completion, job_completion_post(completion) PROVE Sticky
    <3>1. \A s \in Slots : /\ inflight'[s].active = inflight[s].active
                           /\ inflight'[s].submission = inflight[s].submission
                           /\ inflight'[s].cancel_requested = inflight[s].cancel_requested
      BY <2>5 DEF job_completion_post, TypeOK, InflightSlot
    <3>2. UNCHANGED shadows
      BY <2>5 DEF job_completion_post
    <3>3. QED
      BY <3>1, <3>2, StickyFrame DEF Live, SubmissionAt, Cancelled
  <2>6. ASSUME NEW i, completion_take_offset(i) PROVE Sticky
    <3>1. \A s \in Slots :
            \/ inflight'[s] = inflight[s] /\ shadows'[s] = shadows[s]
            \/ /\ inflight[s].active
               /\ inflight'[s] = ZeroInflight
               /\ shadows'[s] = ShadowOf(s, completions[i])
      BY <2>6 DEF completion_take_offset, completion_move_to_shadow, IsFirst, PostedSlots
    <3>2. ASSUME NEW s \in Slots
          PROVE  /\ Live(s)' => Live(s) /\ SubmissionAt(s)' = SubmissionAt(s)
                 /\ Cancelled(s) => Cancelled(s)'
      <4>1. CASE inflight'[s] = inflight[s] /\ shadows'[s] = shadows[s]
        BY <4>1 DEF Live, SubmissionAt, Cancelled
      <4>2. CASE /\ inflight[s].active
                 /\ inflight'[s] = ZeroInflight
                 /\ shadows'[s] = ShadowOf(s, completions[i])
        <5>1. ~inflight'[s].active /\ ~shadows[s].active
          BY <4>2 DEF ZeroInflight, SlotsExclusive
        <5>2. /\ shadows'[s].active
              /\ shadows'[s].submission = inflight[s].submission
              /\ shadows'[s].cancel_requested = inflight[s].cancel_requested
          BY <4>2 DEF ShadowOf, ZeroShadow
        <5>3. QED
          BY <4>2, <5>1, <5>2 DEF Live, SubmissionAt, Cancelled
      <4>3. QED
        BY <3>1, <4>1, <4>2
    <3>3. QED
      BY <3>2, StickyFrame
  <2>7. ASSUME NEW binding \in Bindings, job_cancel(binding) PROVE Sticky
    <3>1. CASE CancelQueued(binding)
      <4>1. PICK slot \in Slots : /\ inflight[slot].active
                                  /\ ~inflight'[slot].active
                                  /\ \A s \in Slots : s # slot => inflight'[s] = inflight[s]
        BY <3>1 DEF CancelQueued, IsFirst, find_inflight, ZeroInflight, TypeOK
      <4>2. UNCHANGED shadows /\ ~shadows[slot].active
        BY <3>1, <4>1 DEF CancelQueued, SlotsExclusive
      <4>3. QED
        BY <4>1, <4>2, StickyFrame DEF Live, SubmissionAt, Cancelled
    <3>2. CASE CancelDispatched(binding)
      <4>1. \A s \in Slots : /\ inflight'[s].active = inflight[s].active
                             /\ inflight'[s].submission = inflight[s].submission
                             /\ inflight[s].cancel_requested => inflight'[s].cancel_requested
        BY <3>2 DEF CancelDispatched, TypeOK, InflightSlot
      <4>2. UNCHANGED shadows
        BY <3>2 DEF CancelDispatched
      <4>3. QED
        BY <4>1, <4>2, StickyFrame DEF Live, SubmissionAt, Cancelled
    <3>3. CASE CancelShadow(binding)
      <4>1. \A s \in Slots : /\ shadows'[s].active = shadows[s].active
                             /\ shadows'[s].submission = shadows[s].submission
                             /\ shadows[s].cancel_requested => shadows'[s].cancel_requested
        BY <3>3 DEF CancelShadow, CancelledShadow, TypeOK, ShadowSlot
      <4>2. UNCHANGED inflight
        BY <3>3 DEF CancelShadow
      <4>3. QED
        BY <4>1, <4>2, StickyFrame DEF Live, SubmissionAt, Cancelled
    <3>4. QED
      BY <2>7, <3>1, <3>2, <3>3 DEF job_cancel
  <2>8. ASSUME NEW binding \in Bindings, NEW object_id \in ObjectIds, NEW offset \in Offsets,
               NEW length \in 1 .. MaxBytes, NEW source \in [0 .. length - 1 -> Bytes],
               job_shadow_write_core(binding, object_id, offset, length, source)
        PROVE  Sticky
    <3>1. \A s \in Slots : /\ shadows'[s].active = shadows[s].active
                           /\ shadows'[s].submission = shadows[s].submission
                           /\ shadows'[s].cancel_requested = shadows[s].cancel_requested
      BY <2>8 DEF job_shadow_write_core, TypeOK, ShadowSlot
    <3>2. UNCHANGED inflight
      BY <2>8 DEF job_shadow_write_core
    <3>3. QED
      BY <3>1, <3>2, StickyFrame DEF Live, SubmissionAt, Cancelled
  <2>9. ASSUME NEW binding \in Bindings, job_shadow_approve_core(binding) PROVE Sticky
    <3>1. \A s \in Slots : /\ shadows'[s].active = shadows[s].active
                           /\ shadows'[s].submission = shadows[s].submission
                           /\ shadows'[s].cancel_requested = shadows[s].cancel_requested
      BY <2>9 DEF job_shadow_approve_core, TypeOK, ShadowSlot
    <3>2. UNCHANGED inflight
      BY <2>9 DEF job_shadow_approve_core
    <3>3. QED
      BY <3>1, <3>2, StickyFrame DEF Live, SubmissionAt, Cancelled
  <2>10. ASSUME NEW binding \in Bindings, NEW commit \in BOOLEAN,
                job_shadow_finalize_core(binding, commit)
         PROVE  Sticky
    <3>1. PICK slot \in Slots : /\ shadows[slot].active
                                /\ ~shadows'[slot].active
                                /\ \A s \in Slots : s # slot => shadows'[s] = shadows[s]
      BY <2>10 DEF job_shadow_finalize_core, IsFirst, find_shadow, ZeroShadow, TypeOK
    <3>2. UNCHANGED inflight /\ ~inflight[slot].active
      BY <2>10, <3>1 DEF job_shadow_finalize_core, SlotsExclusive
    <3>3. QED
      BY <3>1, <3>2, StickyFrame DEF Live, SubmissionAt, Cancelled
  <2>11. QED
    BY <2>1, <2>2, <2>3, <2>4, <2>5, <2>6, <2>7, <2>8, <2>9, <2>10
       DEF Next, vars, job_object_register_bytes_core, job_completion_take,
           job_completion_take_bound
<1>2. QED
  BY <1>1, Inductive, PTL DEF Spec, CancellationSticky, Sticky

-----------------------------------------------------------------------------
(***************************************************************************)
(* The job authority with its history: the fate of every binding is the    *)
(* one the tables carry, a job reads what it was admitted against, and the *)
(* authority implements TransactionalStore.                                *)
(***************************************************************************)
BindingAt(slot) == binding_from_submission(SubmissionAt(slot))
Admission(slot) == basis[BindingAt(slot)]

ObjectState == {NoObject} \cup [version : 0 .. U64Max, visible : Content]

\* FateExact, slot by slot.
FatesOfSlots ==
  /\ \A s \in Slots : Live(s) =>
       /\ BindingAt(s) \in Bindings
       /\ fate[BindingAt(s)] = IF Cancelled(s) THEN "cancelled" ELSE "open"
  /\ \A binding \in Bindings : fate[binding] \in {"open", "cancelled"} =>
       \E s \in Slots : Live(s) /\ BindingAt(s) = binding

\* A sequence number that was not issued yet names no execution.
FreshUnused ==
  \A binding \in Bindings :
    (next_sequence # 0 /\ binding.execution_sequence >= next_sequence) =>
      fate[binding] = "unused"

\* What a live job was admitted against: the objects it refers to and no other,
\* at the versions it expects.  While an object is still at that version its
\* bytes are those of the admission, and so are the bytes of the snapshot.
BasisOfLive ==
  \A s \in Slots : Live(s) =>
    /\ \A id \in ObjectIds : Admission(s)[id] # NoObject =>
         \E ref \in SubmissionAt(s).job.refs : ref.object_id = id
    /\ \A ref \in SubmissionAt(s).job.refs :
         /\ Admission(s)[ref.object_id] # NoObject
         /\ Admission(s)[ref.object_id].version = ref.expected_version
         /\ objects[ref.object_id].version = ref.expected_version =>
              objects[ref.object_id].visible = Admission(s)[ref.object_id].visible
         /\ (inflight[s].active /\ ~inflight[s].cancel_requested) =>
              inflight[s].snapshot[ref.object_id] = Admission(s)[ref.object_id].visible

HistoryTypes ==
  /\ fate \in [Bindings -> Abstract!Fates]
  /\ basis \in [Bindings -> [ObjectIds -> ObjectState]]

HInv == IInv /\ HistoryTypes /\ FatesOfSlots /\ FreshUnused /\ BasisOfLive

\* Two live slots have different bindings.
LEMMA BindingsDistinct ==
  ASSUME LiveDistinct, NEW s \in Slots, NEW t \in Slots, Live(s), Live(t),
         BindingAt(s) = BindingAt(t)
  PROVE  s = t
BY DEF LiveDistinct, BindingAt, binding_from_submission

\* A binding that matches a live slot is the binding of that slot.
LEMMA MatchedBinding ==
  ASSUME NEW binding \in Bindings, NEW s \in Slots,
         binding_matches(binding, SubmissionAt(s))
  PROVE  binding = BindingAt(s)
<1>1. binding \in Binding
  BY AuthorityConstants
<1>2. QED
  BY <1>1 DEF Binding, binding_matches, BindingAt, binding_from_submission

LEMMA CancelledIsLive ==
  ASSUME NEW s \in Slots, Cancelled(s) PROVE Live(s)
BY DEF Cancelled, Live

\* The invariant gives the two promises.
LEMMA HistoryFollows ==
  ASSUME HInv PROVE HistoryExact
<1> USE DEF HInv, IInv, AuthorityInv
<1>1. {binding \in Bindings : fate[binding] \in {"open", "cancelled"}} = LiveBindings
  <2>1. ASSUME NEW binding \in LiveBindings
        PROVE  binding \in Bindings /\ fate[binding] \in {"open", "cancelled"}
    BY DEF LiveBindings, FatesOfSlots, BindingAt
  <2>2. ASSUME NEW binding \in Bindings, fate[binding] \in {"open", "cancelled"}
        PROVE  binding \in LiveBindings
    BY <2>2 DEF LiveBindings, FatesOfSlots, BindingAt
  <2>3. QED
    BY <2>1, <2>2
<1>2. {binding \in Bindings : fate[binding] = "cancelled"} = CancelledBindings
  <2>1. ASSUME NEW binding \in CancelledBindings
        PROVE  binding \in Bindings /\ fate[binding] = "cancelled"
    BY CancelledIsLive DEF CancelledBindings, FatesOfSlots, BindingAt
  <2>2. ASSUME NEW binding \in Bindings, fate[binding] = "cancelled"
        PROVE  binding \in CancelledBindings
    <3>1. PICK s \in Slots : Live(s) /\ BindingAt(s) = binding
      BY <2>2 DEF FatesOfSlots
    <3>2. Cancelled(s)
      BY <2>2, <3>1 DEF FatesOfSlots
    <3>3. QED
      BY <3>1, <3>2 DEF CancelledBindings, BindingAt
  <2>3. QED
    BY <2>1, <2>2
<1>3. ReadsAdmitted
  <2> SUFFICES ASSUME NEW s \in Slots, NEW id \in ReadableObjects(s)
               PROVE  inflight[s].snapshot[id] =
                        basis[binding_from_submission(inflight[s].submission)][id].visible
    BY DEF ReadsAdmitted
  <2>1. inflight[s].active /\ ~inflight[s].cancel_requested
    BY DEF ReadableObjects
  <2>2. PICK ref \in inflight[s].submission.job.refs : ref.object_id = id
    BY <2>1 DEF ReadableObjects, ReadRefs
  <2>3. Live(s) /\ SubmissionAt(s) = inflight[s].submission
    BY <2>1, LiveCases
  <2>4. QED
    BY <2>1, <2>2, <2>3 DEF BasisOfLive, Admission, BindingAt
<1>4. QED
  BY <1>1, <1>2, <1>3 DEF HistoryExact, FateExact

----------------------------------------------------------------------------
(* Frames.                                                                 *)

\* A step that ends no job and cancels none leaves the fates as they are.
LEMMA KeepFates ==
  ASSUME FatesOfSlots, FreshUnused, UNCHANGED <<fate, next_sequence>>,
         \A s \in Slots : /\ Live(s)' = Live(s)
                          /\ Live(s) => SubmissionAt(s)' = SubmissionAt(s)
                          /\ Cancelled(s)' = Cancelled(s)
  PROVE  FatesOfSlots' /\ FreshUnused'
<1>1. \A s \in Slots : Live(s) => BindingAt(s)' = BindingAt(s)
  BY DEF BindingAt
<1>2. FatesOfSlots'
  BY <1>1 DEF FatesOfSlots
<1>3. FreshUnused'
  BY DEF FreshUnused
<1>4. QED
  BY <1>2, <1>3

\* A step that admits no job, changes no snapshot, and moves an object a live
\* job refers to only to another version keeps what the jobs were admitted on.
LEMMA KeepBasis ==
  ASSUME BasisOfLive, UNCHANGED basis,
         \A s \in Slots : Live(s)' => Live(s) /\ SubmissionAt(s)' = SubmissionAt(s),
         \A s \in Slots : (inflight'[s].active /\ ~inflight'[s].cancel_requested) =>
            /\ inflight[s].active /\ ~inflight[s].cancel_requested
            /\ inflight'[s].snapshot = inflight[s].snapshot,
         \A s \in Slots : Live(s)' =>
            \A ref \in SubmissionAt(s).job.refs :
               objects'[ref.object_id].version = ref.expected_version =>
                 /\ objects'[ref.object_id].version = objects[ref.object_id].version
                 /\ objects'[ref.object_id].visible = objects[ref.object_id].visible
  PROVE  BasisOfLive'
<1>1. \A s \in Slots : Live(s)' => Admission(s)' = Admission(s)
  BY DEF Admission, BindingAt
<1>2. ASSUME NEW s \in Slots, Live(s)'
      PROVE  /\ \A id \in ObjectIds : Admission(s)'[id] # NoObject =>
                  \E ref \in SubmissionAt(s)'.job.refs : ref.object_id = id
             /\ \A ref \in SubmissionAt(s)'.job.refs :
                  /\ Admission(s)'[ref.object_id] # NoObject
                  /\ Admission(s)'[ref.object_id].version = ref.expected_version
                  /\ objects'[ref.object_id].version = ref.expected_version =>
                       objects'[ref.object_id].visible = Admission(s)'[ref.object_id].visible
                  /\ (inflight'[s].active /\ ~inflight'[s].cancel_requested) =>
                       inflight'[s].snapshot[ref.object_id] =
                         Admission(s)'[ref.object_id].visible
  <2>1. Live(s) /\ SubmissionAt(s)' = SubmissionAt(s) /\ Admission(s)' = Admission(s)
    BY <1>1, <1>2
  <2>2. \A id \in ObjectIds : Admission(s)'[id] # NoObject =>
          \E ref \in SubmissionAt(s)'.job.refs : ref.object_id = id
    BY <2>1 DEF BasisOfLive
  <2>3. ASSUME NEW ref \in SubmissionAt(s).job.refs
        PROVE  /\ Admission(s)[ref.object_id] # NoObject
               /\ Admission(s)[ref.object_id].version = ref.expected_version
               /\ objects'[ref.object_id].version = ref.expected_version =>
                    objects'[ref.object_id].visible = Admission(s)[ref.object_id].visible
               /\ (inflight'[s].active /\ ~inflight'[s].cancel_requested) =>
                    inflight'[s].snapshot[ref.object_id] =
                      Admission(s)[ref.object_id].visible
    BY <1>2, <2>1 DEF BasisOfLive
  <2>4. QED
    BY <2>1, <2>2, <2>3
<1>3. QED
  BY <1>2 DEF BasisOfLive

\* The slots after a step that neither admits nor ends a job nor cancels one.
SlotsStay ==
  \A s \in Slots : /\ Live(s)' = Live(s)
                   /\ Live(s) => SubmissionAt(s)' = SubmissionAt(s)
                   /\ Cancelled(s)' = Cancelled(s)
                   /\ (inflight'[s].active /\ ~inflight'[s].cancel_requested) =>
                        /\ inflight[s].active /\ ~inflight[s].cancel_requested
                        /\ inflight'[s].snapshot = inflight[s].snapshot

\* Such a step is invisible to the abstract store.
LEMMA StayingStutters ==
  ASSUME HInv, IInv', SlotsStay, UNCHANGED <<objects, next_sequence, fate, basis>>
  PROVE  HInv' /\ UNCHANGED Abstract!vars
<1> USE DEF HInv
<1>1. FatesOfSlots' /\ FreshUnused'
  BY KeepFates DEF SlotsStay
<1>2. BasisOfLive'
  BY KeepBasis DEF SlotsStay
<1>3. HistoryTypes'
  BY DEF HistoryTypes
<1>4. UNCHANGED Abstract!vars
  BY DEF Abstract!vars, VisibleStore, VisibleState
<1>5. QED
  BY <1>1, <1>2, <1>3, <1>4

LEMMA TakeStays ==
  ASSUME IInv, job_submission_take PROVE SlotsStay
<1>1. ASSUME NEW s \in Slots
      PROVE  /\ inflight'[s].active = inflight[s].active
             /\ inflight'[s].submission = inflight[s].submission
             /\ inflight'[s].cancel_requested = inflight[s].cancel_requested
             /\ inflight'[s].snapshot = inflight[s].snapshot
  <2>1. inflight[s] \in InflightSlot
    BY DEF IInv, TypeOK
  <2>2. inflight'[s] = inflight[s] \/ inflight'[s] = [inflight[s] EXCEPT !.dispatched = TRUE]
    BY DEF job_submission_take
  <2>3. QED
    BY <2>1, <2>2 DEF InflightSlot
<1>2. UNCHANGED shadows
  BY DEF job_submission_take
<1>3. QED
  BY <1>1, <1>2 DEF SlotsStay, Live, SubmissionAt, Cancelled

LEMMA PostStays ==
  ASSUME IInv, NEW completion, job_completion_post(completion) PROVE SlotsStay
<1>1. PICK slot \in Slots : inflight' = [inflight EXCEPT ![slot].completion_posted = TRUE]
  BY DEF job_completion_post
<1>2. ASSUME NEW s \in Slots
      PROVE  /\ inflight'[s].active = inflight[s].active
             /\ inflight'[s].submission = inflight[s].submission
             /\ inflight'[s].cancel_requested = inflight[s].cancel_requested
             /\ inflight'[s].snapshot = inflight[s].snapshot
  BY <1>1 DEF IInv, TypeOK, InflightSlot
<1>3. UNCHANGED shadows
  BY DEF job_completion_post
<1>4. QED
  BY <1>2, <1>3 DEF SlotsStay, Live, SubmissionAt, Cancelled

LEMMA ObserveStays ==
  ASSUME IInv, NEW i \in DOMAIN completions, completion_take_offset(i) PROVE SlotsStay
<1>1. PICK slot \in Slots : PostedSlots(completions[i]) = {slot} /\ Posted(slot)
  BY PostedOnce
<1>2. \A s \in Slots : IsFirst(s, PostedSlots(completions[i])) <=> s = slot
  BY <1>1 DEF IsFirst, Slots
<1>3. /\ inflight'[slot] = ZeroInflight
      /\ shadows'[slot] = ShadowOf(slot, completions[i])
      /\ \A s \in Slots : s # slot => inflight'[s] = inflight[s] /\ shadows'[s] = shadows[s]
  BY <1>2 DEF completion_take_offset, completion_move_to_shadow
<1>4. /\ inflight[slot].active /\ ~shadows[slot].active
      /\ ~inflight'[slot].active
      /\ shadows'[slot].active
      /\ shadows'[slot].submission = inflight[slot].submission
      /\ shadows'[slot].cancel_requested = inflight[slot].cancel_requested
  BY <1>1, <1>3 DEF Posted, ZeroInflight, ShadowOf, ZeroShadow, IInv, AuthorityInv,
                    SlotsExclusive
<1>5. ASSUME NEW s \in Slots
      PROVE  /\ Live(s)' = Live(s)
             /\ Live(s) => SubmissionAt(s)' = SubmissionAt(s)
             /\ Cancelled(s)' = Cancelled(s)
             /\ (inflight'[s].active /\ ~inflight'[s].cancel_requested) =>
                  /\ inflight[s].active /\ ~inflight[s].cancel_requested
                  /\ inflight'[s].snapshot = inflight[s].snapshot
  <2>1. CASE s = slot
    BY <1>4, <2>1 DEF Live, SubmissionAt, Cancelled
  <2>2. CASE s # slot
    BY <1>3, <2>2 DEF Live, SubmissionAt, Cancelled
  <2>3. QED
    BY <2>1, <2>2
<1>6. QED
  BY <1>5 DEF SlotsStay

\* Staging and approving change a shadow, and neither its job nor its flags.
LEMMA ShadowStays ==
  ASSUME IInv, UNCHANGED inflight,
         \A s \in Slots : /\ shadows'[s].active = shadows[s].active
                          /\ shadows'[s].submission = shadows[s].submission
                          /\ shadows'[s].cancel_requested = shadows[s].cancel_requested
  PROVE  SlotsStay
BY DEF SlotsStay, Live, SubmissionAt, Cancelled

LEMMA StageStays ==
  ASSUME IInv, NEW binding, NEW object_id \in ObjectIds, NEW offset, NEW length, NEW source,
         job_shadow_write_core(binding, object_id, offset, length, source)
  PROVE  SlotsStay
<1>1. PICK slot \in Slots :
        shadows' = [shadows EXCEPT
             ![slot].bytes[object_id] =
                [i \in Offsets |-> IF i \in offset .. offset + length - 1
                                     THEN source[i - offset] ELSE @[i]],
             ![slot].staged[object_id] = @ \cup (offset .. offset + length - 1)]
  BY DEF job_shadow_write_core
<1>2. \A s \in Slots : /\ shadows'[s].active = shadows[s].active
                       /\ shadows'[s].submission = shadows[s].submission
                       /\ shadows'[s].cancel_requested = shadows[s].cancel_requested
  BY <1>1 DEF IInv, TypeOK, ShadowSlot
<1>3. QED
  BY <1>2, ShadowStays DEF job_shadow_write_core

LEMMA ApproveStays ==
  ASSUME IInv, NEW binding, job_shadow_approve_core(binding) PROVE SlotsStay
<1>1. PICK slot \in Slots : shadows' = [shadows EXCEPT ![slot].approved = TRUE]
  BY DEF job_shadow_approve_core
<1>2. \A s \in Slots : /\ shadows'[s].active = shadows[s].active
                       /\ shadows'[s].submission = shadows[s].submission
                       /\ shadows'[s].cancel_requested = shadows[s].cancel_requested
  BY <1>1 DEF IInv, TypeOK, ShadowSlot
<1>3. QED
  BY <1>2, ShadowStays DEF job_shadow_approve_core

----------------------------------------------------------------------------
(* The steps the abstract store sees.                                      *)

LEMMA HistoryInit ==
  ASSUME HInit PROVE HInv /\ Abstract!Init
<1>1. IInv
  BY InvInit DEF HInit
<1>2. \A s \in Slots : ~Live(s)
  BY DEF HInit, Init, Live, ZeroInflight, ZeroShadow
<1>3. HistoryTypes
  BY DEF HInit, NoFate, NoBasis, HistoryTypes, ObjectState, Abstract!Fates
<1>4. FatesOfSlots /\ FreshUnused /\ BasisOfLive
  BY <1>2 DEF HInit, NoFate, FatesOfSlots, FreshUnused, BasisOfLive
<1>5. Abstract!Init
  <2>1. \A id \in ObjectIds : VisibleState(id) = NoObject
    BY DEF HInit, Init, VisibleState, ZeroObject
  <2>2. QED
    BY <2>1 DEF HInit, NoFate, NoBasis, VisibleStore, Abstract!Init
<1>6. QED
  BY <1>1, <1>3, <1>4, <1>5 DEF HInv

LEMMA RestartStep ==
  ASSUME IInv', NEW epoch, Restarts(epoch) PROVE HInv' /\ Abstract!Restart
<1>1. \A s \in Slots : ~Live(s)'
  BY DEF Restarts, job_authority_init, Live, ZeroInflight, ZeroShadow
<1>2. HistoryTypes'
  BY DEF Restarts, NoFate, NoBasis, HistoryTypes, ObjectState, Abstract!Fates
<1>3. FatesOfSlots' /\ FreshUnused' /\ BasisOfLive'
  BY <1>1 DEF Restarts, NoFate, FatesOfSlots, FreshUnused, BasisOfLive
<1>4. Abstract!Restart
  <2>1. \A id \in ObjectIds : VisibleState(id)' = NoObject
    BY DEF Restarts, job_authority_init, VisibleState, ZeroObject
  <2>2. QED
    BY <2>1 DEF Restarts, NoFate, NoBasis, VisibleStore, Abstract!Restart
<1>5. QED
  BY <1>2, <1>3, <1>4 DEF HInv

\* The state a client sees of a registered object is not NoObject.
LEMMA RegisteredVisible ==
  ASSUME TypeOK, NEW id \in ObjectIds, objects[id].active
  PROVE  /\ VisibleState(id) = [version |-> objects[id].version,
                                visible |-> objects[id].visible]
         /\ VisibleState(id) \in [version : 0 .. U64Max, visible : Content]
         /\ VisibleState(id) # NoObject
BY HistoryConstants DEF VisibleState, TypeOK, Object

\* No live job refers to an object that is being registered.
LEMMA RegisterStep ==
  ASSUME HInv, IInv', NEW manifest \in Manifests, NEW initial,
         job_object_register_bytes_core(manifest, initial), UNCHANGED history
  PROVE  HInv' /\ Abstract!Register(manifest.object_id)
<1> USE DEF HInv
<1> DEFINE id == manifest.object_id
<1>1. id \in ObjectIds
  BY AuthorityConstants DEF Manifest
<1>2. UNCHANGED <<inflight, shadows, next_sequence, fate, basis>>
  BY DEF job_object_register_bytes_core, history
<1>3. ~objects[id].active /\ objects'[id].active
  BY <1>1 DEF job_object_register_bytes_core, CanRegister, IInv, TypeOK
<1>4. \A other \in ObjectIds : other # id => objects'[other] = objects[other]
  BY <1>1 DEF job_object_register_bytes_core, IInv, TypeOK
<1> HIDE DEF id
<1>5. \A s \in Slots : /\ Live(s)' = Live(s) /\ SubmissionAt(s)' = SubmissionAt(s)
                       /\ Cancelled(s)' = Cancelled(s)
  BY <1>2 DEF Live, SubmissionAt, Cancelled
<1>6. FatesOfSlots' /\ FreshUnused'
  BY <1>2, <1>5, KeepFates
<1>7. ASSUME NEW s \in Slots, Live(s), NEW ref \in SubmissionAt(s).job.refs
      PROVE  objects'[ref.object_id] = objects[ref.object_id]
  <2>1. objects[ref.object_id].active
    BY <1>7 DEF IInv, RefsInBounds
  <2>2. ref.object_id \in ObjectIds
    <3>1. SubmissionAt(s).job \in JobDescriptor
      BY <1>7, AuthorityConstants DEF IInv, AuthorityInv, LiveWellFormed
    <3>2. QED
      BY <3>1 DEF JobDescriptor, ObjectRef
  <2>3. QED
    BY <1>3, <1>4, <2>1, <2>2
<1>8. BasisOfLive'
  BY <1>2, <1>5, <1>7, KeepBasis
<1>9. HistoryTypes'
  BY <1>2 DEF HistoryTypes
<1>10. Abstract!Register(id)
  <2>1. VisibleStore[id] = NoObject
    BY <1>1, <1>3 DEF VisibleStore, VisibleState
  <2>2. VisibleStore'[id] # NoObject
    <3>1. VisibleState(id)' # NoObject
      BY <1>1, <1>3, HistoryConstants DEF VisibleState, IInv, TypeOK, Object
    <3>2. QED
      BY <1>1, <3>1 DEF VisibleStore
  <2>3. \A other \in ObjectIds : other # id => VisibleState(other)' = VisibleState(other)
    BY <1>4 DEF VisibleState
  <2>4. VisibleStore' = [VisibleStore EXCEPT ![id] = VisibleStore'[id]]
    BY <1>1, <2>3 DEF VisibleStore
  <2>5. QED
    BY <1>2, <2>1, <2>2, <2>4 DEF Abstract!Register
<1>11. QED
  BY <1>6, <1>8, <1>9, <1>10 DEF id

LEMMA AdmitStep ==
  ASSUME HInv, IInv', NEW job \in Jobs, Admits(job)
  PROVE  HInv' /\ \E binding \in Bindings : Abstract!Begin(binding)
<1> USE DEF HInv
<1> DEFINE new == NewSubmission(job)
           binding == binding_from_submission(new)
           began == [id \in ObjectIds |-> IF \E ref \in job.refs : ref.object_id = id
                                            THEN VisibleState(id) ELSE NoObject]
<1>1. /\ fate' = [fate EXCEPT ![binding] = "open"]
      /\ basis' = [basis EXCEPT ![binding] = began]
      /\ job_submit_bound_core(job)
  BY DEF Admits
<1>2. /\ next_sequence \in 1 .. U64Max
      /\ next_sequence' = SequenceAfter(next_sequence)
      /\ admitted(job)
      /\ UNCHANGED <<objects, shadows>>
  BY <1>1 DEF job_submit_bound_core, CanSubmit, IInv, TypeOK
<1>3. new.job = job /\ new.execution_sequence = next_sequence
  BY DEF NewSubmission
<1>4. binding \in Bindings /\ binding.execution_sequence = next_sequence
  <2>1. authority_epoch \in (Epochs \cup {1}) \ {0}
    BY DEF IInv, TypeOK
  <2>2. QED
    BY <1>2, <2>1, HistoryConstants DEF NewSubmission, binding_from_submission
<1>5. fate[binding] = "unused"
  <2>1. next_sequence >= next_sequence /\ next_sequence # 0
    BY <1>2
  <2>2. QED
    BY <1>4, <2>1 DEF FreshUnused
<1>6. PICK slot \in Slots :
        /\ ~inflight[slot].active /\ ~shadows[slot].active
        /\ inflight'[slot].active
        /\ ~inflight'[slot].cancel_requested
        /\ inflight'[slot].submission = new
        /\ inflight'[slot].snapshot = SnapshotFor(job)
        /\ \A s \in Slots : s # slot => inflight'[s] = inflight[s]
  BY <1>1 DEF job_submit_bound_core, IsFirst, FreeSlots, IInv, TypeOK
<1>7. \A s \in Slots : s # slot =>
        /\ Live(s)' = Live(s) /\ SubmissionAt(s)' = SubmissionAt(s)
        /\ Cancelled(s)' = Cancelled(s) /\ BindingAt(s)' = BindingAt(s)
  BY <1>2, <1>6 DEF Live, SubmissionAt, Cancelled, BindingAt
<1>8. /\ ~Live(slot) /\ Live(slot)' /\ ~Cancelled(slot)'
      /\ SubmissionAt(slot)' = new /\ BindingAt(slot)' = binding
  BY <1>2, <1>6 DEF Live, SubmissionAt, Cancelled, BindingAt
<1> HIDE DEF new, binding, began
<1>9. \A ref \in job.refs : ref.object_id \in ObjectIds /\ objects[ref.object_id].active
  BY <1>2, AuthorityConstants DEF JobDescriptor, ObjectRef, admitted, RefInRange
<1>10. began \in [ObjectIds -> ObjectState]
  BY <1>9, RegisteredVisible DEF began, ObjectState, IInv
<1>11. HistoryTypes'
  BY <1>1, <1>10 DEF HistoryTypes, Abstract!Fates
<1>12. /\ fate'[binding] = "open" /\ basis'[binding] = began
       /\ \A other \in Bindings : other # binding =>
            fate'[other] = fate[other] /\ basis'[other] = basis[other]
  BY <1>1, <1>4 DEF HistoryTypes
<1>13. ASSUME NEW s \in Slots, Live(s) PROVE BindingAt(s) \in Bindings /\ BindingAt(s) # binding
  BY <1>5, <1>13 DEF FatesOfSlots
<1>14. FatesOfSlots'
  <2>1. ASSUME NEW s \in Slots, Live(s)'
        PROVE  /\ BindingAt(s)' \in Bindings
               /\ fate'[BindingAt(s)'] = IF Cancelled(s)' THEN "cancelled" ELSE "open"
    <3>1. CASE s = slot
      BY <1>4, <1>8, <1>12, <3>1
    <3>2. CASE s # slot
      BY <1>7, <1>12, <1>13, <2>1, <3>2 DEF FatesOfSlots
    <3>3. QED
      BY <3>1, <3>2
  <2>2. ASSUME NEW other \in Bindings, fate'[other] \in {"open", "cancelled"}
        PROVE  \E s \in Slots : Live(s)' /\ BindingAt(s)' = other
    <3>1. CASE other = binding
      BY <1>8, <3>1
    <3>2. CASE other # binding
      <4>1. PICK s \in Slots : Live(s) /\ BindingAt(s) = other
        BY <1>12, <2>2, <3>2 DEF FatesOfSlots
      <4>2. QED
        BY <1>7, <1>8, <4>1
    <3>3. QED
      BY <3>1, <3>2
  <2>3. QED
    BY <2>1, <2>2 DEF FatesOfSlots
<1>15. FreshUnused'
  <2> SUFFICES ASSUME NEW other \in Bindings, next_sequence' # 0,
                      other.execution_sequence >= next_sequence'
               PROVE  fate'[other] = "unused"
    BY DEF FreshUnused
  <2>1. next_sequence' = next_sequence + 1
    BY <1>2, SequenceStep
  <2>2. other.execution_sequence \in Nat
    BY AuthorityConstants, ContractConstants DEF Binding
  <2>3. other.execution_sequence >= next_sequence /\ other.execution_sequence # next_sequence
    BY <1>2, <2>1, <2>2
  <2>4. other # binding
    BY <1>4, <2>3
  <2>5. next_sequence # 0
    BY <1>2
  <2>6. QED
    BY <1>12, <2>3, <2>4, <2>5 DEF FreshUnused
<1>16. ASSUME NEW ref \in job.refs
       PROVE  /\ began[ref.object_id].version = objects[ref.object_id].version
              /\ began[ref.object_id].visible = objects[ref.object_id].visible
              /\ began[ref.object_id] # NoObject
              /\ objects[ref.object_id].version = ref.expected_version
              /\ SnapshotFor(job)[ref.object_id] = objects[ref.object_id].visible
  <2>1. ref.object_id \in ObjectIds /\ objects[ref.object_id].active
    BY <1>9
  <2>2. began[ref.object_id] = VisibleState(ref.object_id)
    BY <2>1 DEF began
  <2>3. /\ VisibleState(ref.object_id).version = objects[ref.object_id].version
        /\ VisibleState(ref.object_id).visible = objects[ref.object_id].visible
    BY <2>1 DEF VisibleState
  <2>4. QED
    BY <1>2, <2>1, <2>2, <2>3, RegisteredVisible DEF IInv, admitted, SnapshotFor
<1>17. BasisOfLive'
  <2> SUFFICES ASSUME NEW s \in Slots, Live(s)'
               PROVE  /\ \A id \in ObjectIds : Admission(s)'[id] # NoObject =>
                           \E ref \in SubmissionAt(s)'.job.refs : ref.object_id = id
                      /\ \A ref \in SubmissionAt(s)'.job.refs :
                           /\ Admission(s)'[ref.object_id] # NoObject
                           /\ Admission(s)'[ref.object_id].version = ref.expected_version
                           /\ objects'[ref.object_id].version = ref.expected_version =>
                                objects'[ref.object_id].visible =
                                  Admission(s)'[ref.object_id].visible
                           /\ (inflight'[s].active /\ ~inflight'[s].cancel_requested) =>
                                inflight'[s].snapshot[ref.object_id] =
                                  Admission(s)'[ref.object_id].visible
    BY DEF BasisOfLive
  <2>1. CASE s = slot
    <3>1. Admission(s)' = began /\ SubmissionAt(s)'.job = job
      BY <1>3, <1>8, <1>12, <2>1 DEF Admission
    <3>2. \A id \in ObjectIds : began[id] # NoObject => \E ref \in job.refs : ref.object_id = id
      BY DEF began
    <3>3. ASSUME NEW ref \in job.refs
          PROVE  /\ began[ref.object_id] # NoObject
                 /\ began[ref.object_id].version = ref.expected_version
                 /\ objects'[ref.object_id].visible = began[ref.object_id].visible
                 /\ inflight'[slot].snapshot[ref.object_id] = began[ref.object_id].visible
      BY <1>2, <1>6, <1>16
    <3>4. \A id \in ObjectIds : Admission(s)'[id] # NoObject =>
            \E ref \in SubmissionAt(s)'.job.refs : ref.object_id = id
      BY <3>1, <3>2, Zenon
    <3>5. ASSUME NEW ref \in SubmissionAt(s)'.job.refs
          PROVE  /\ Admission(s)'[ref.object_id] # NoObject
                 /\ Admission(s)'[ref.object_id].version = ref.expected_version
                 /\ objects'[ref.object_id].visible = Admission(s)'[ref.object_id].visible
                 /\ inflight'[s].snapshot[ref.object_id] =
                      Admission(s)'[ref.object_id].visible
      <4>1. ref \in job.refs
        BY <3>1
      <4>2. QED
        BY <2>1, <3>1, <3>3, <4>1
    <3>6. QED
      BY <3>4, <3>5, Zenon
  <2>2. CASE s # slot
    <3>1. /\ Live(s) /\ SubmissionAt(s)' = SubmissionAt(s) /\ inflight'[s] = inflight[s]
      BY <1>6, <1>7, <2>2
    <3>2. Admission(s)' = Admission(s)
      BY <1>7, <1>12, <1>13, <2>2, <3>1 DEF Admission
    <3>3. QED
      BY <1>2, <3>1, <3>2 DEF BasisOfLive
  <2>3. QED
    BY <2>1, <2>2
<1>18. Abstract!Begin(binding)
  <2>1. PICK ref \in job.refs : TRUE
    <3>1. Cardinality(job.refs) # 0
      BY <1>2, ContractConstants DEF admitted, raveil_job_descriptor_validate_v1
    <3>2. QED
      BY <3>1, FS_EmptySet
  <2>2. ref.object_id \in ObjectIds /\ basis'[binding][ref.object_id] # NoObject
    BY <1>9, <1>12, <1>16
  <2>3. \A id \in ObjectIds : basis'[binding][id] # NoObject =>
          basis'[binding][id] = VisibleStore[id]
    BY <1>12 DEF began, VisibleStore
  <2>4. basis' = [basis EXCEPT ![binding] = basis'[binding]]
    BY <1>1, <1>12
  <2>5. VisibleStore' = VisibleStore
    BY <1>2 DEF VisibleStore, VisibleState
  <2>6. QED
    BY <1>1, <1>5, <2>2, <2>3, <2>4, <2>5 DEF Abstract!Begin
<1>19. QED
  BY <1>4, <1>11, <1>14, <1>15, <1>17, <1>18

\* A job is cancelled while it is in inflight or in its shadow; either way its
\* snapshot is not served any longer.
LEMMA CancelStep ==
  ASSUME HInv, IInv', NEW binding \in Bindings, NEW slot \in Slots,
         Live(slot), BindingAt(slot) = binding, ~Cancelled(slot), Cancelled(slot)',
         UNCHANGED <<objects, next_sequence, basis>>,
         fate' = [fate EXCEPT ![binding] = "cancelled"],
         \A s \in Slots : /\ Live(s)' = Live(s)
                          /\ Live(s) => SubmissionAt(s)' = SubmissionAt(s)
                          /\ s # slot => Cancelled(s)' = Cancelled(s),
         \A s \in Slots : (inflight'[s].active /\ ~inflight'[s].cancel_requested) =>
            /\ inflight[s].active /\ ~inflight[s].cancel_requested
            /\ inflight'[s].snapshot = inflight[s].snapshot
  PROVE  HInv' /\ Abstract!Cancel(binding)
<1> USE DEF HInv
<1>1. fate[binding] = "open"
  BY DEF FatesOfSlots
<1>2. /\ fate'[binding] = "cancelled"
      /\ \A other \in Bindings : other # binding => fate'[other] = fate[other]
  BY DEF HistoryTypes
<1>3. \A s \in Slots : Live(s) => BindingAt(s)' = BindingAt(s)
  BY DEF BindingAt
<1>4. \A s \in Slots : Live(s) /\ s # slot => BindingAt(s) # binding
  BY BindingsDistinct DEF IInv, AuthorityInv
<1>5. FatesOfSlots'
  <2>1. ASSUME NEW s \in Slots, Live(s)'
        PROVE  /\ BindingAt(s)' \in Bindings
               /\ fate'[BindingAt(s)'] = IF Cancelled(s)' THEN "cancelled" ELSE "open"
    <3>1. CASE s = slot
      BY <1>2, <1>3, <3>1
    <3>2. CASE s # slot
      BY <1>2, <1>3, <1>4, <2>1, <3>2 DEF FatesOfSlots
    <3>3. QED
      BY <3>1, <3>2
  <2>2. ASSUME NEW other \in Bindings, fate'[other] \in {"open", "cancelled"}
        PROVE  \E s \in Slots : Live(s)' /\ BindingAt(s)' = other
    BY <1>1, <1>2, <1>3, <2>2 DEF FatesOfSlots
  <2>3. QED
    BY <2>1, <2>2 DEF FatesOfSlots
<1>6. FreshUnused'
  BY <1>1, <1>2 DEF FreshUnused
<1>7. BasisOfLive'
  BY KeepBasis
<1>8. HistoryTypes'
  BY DEF HistoryTypes, Abstract!Fates
<1>9. Abstract!Cancel(binding)
  BY <1>1 DEF Abstract!Cancel, VisibleStore, VisibleState
<1>10. QED
  BY <1>5, <1>6, <1>7, <1>8, <1>9

\* The end of a job, whatever its outcome: its slot is free and its binding has
\* a final fate.
LEMMA EndStep ==
  ASSUME HInv, IInv', NEW binding \in Bindings, NEW slot \in Slots,
         NEW outcome \in {"committed", "aborted"},
         Live(slot), BindingAt(slot) = binding, ~Live(slot)',
         UNCHANGED <<next_sequence, basis>>,
         fate' = [fate EXCEPT ![binding] = outcome],
         \A s \in Slots : s # slot => /\ inflight'[s] = inflight[s]
                                      /\ shadows'[s] = shadows[s],
         \A s \in Slots : Live(s)' =>
            \A ref \in SubmissionAt(s).job.refs :
               objects'[ref.object_id].version = ref.expected_version =>
                 /\ objects'[ref.object_id].version = objects[ref.object_id].version
                 /\ objects'[ref.object_id].visible = objects[ref.object_id].visible
  PROVE  /\ HInv'
         /\ fate[binding] = IF Cancelled(slot) THEN "cancelled" ELSE "open"
<1> USE DEF HInv
<1>1. fate[binding] = IF Cancelled(slot) THEN "cancelled" ELSE "open"
  BY DEF FatesOfSlots
<1>2. /\ fate'[binding] = outcome
      /\ \A other \in Bindings : other # binding => fate'[other] = fate[other]
  BY DEF HistoryTypes
<1>3. \A s \in Slots : s # slot =>
        /\ Live(s)' = Live(s) /\ SubmissionAt(s)' = SubmissionAt(s)
        /\ Cancelled(s)' = Cancelled(s) /\ BindingAt(s)' = BindingAt(s)
  BY DEF Live, SubmissionAt, Cancelled, BindingAt
<1>4. \A s \in Slots : Live(s) /\ s # slot => BindingAt(s) # binding
  BY BindingsDistinct DEF IInv, AuthorityInv
<1>5. FatesOfSlots'
  <2>1. ASSUME NEW s \in Slots, Live(s)'
        PROVE  /\ BindingAt(s)' \in Bindings
               /\ fate'[BindingAt(s)'] = IF Cancelled(s)' THEN "cancelled" ELSE "open"
    <3>1. s # slot
      BY <2>1
    <3>2. QED
      BY <1>2, <1>3, <1>4, <2>1, <3>1 DEF FatesOfSlots
  <2>2. ASSUME NEW other \in Bindings, fate'[other] \in {"open", "cancelled"}
        PROVE  \E s \in Slots : Live(s)' /\ BindingAt(s)' = other
    <3>1. other # binding
      BY <1>2, <2>2
    <3>2. PICK s \in Slots : Live(s) /\ BindingAt(s) = other
      BY <1>2, <2>2, <3>1 DEF FatesOfSlots
    <3>3. QED
      BY <1>3, <3>1, <3>2
  <2>3. QED
    BY <2>1, <2>2 DEF FatesOfSlots
<1>6. FreshUnused'
  BY <1>1, <1>2 DEF FreshUnused
<1>7. ~inflight'[slot].active
  BY DEF Live
<1>8. BasisOfLive'
  BY <1>3, <1>7, KeepBasis
<1>9. HistoryTypes'
  BY DEF HistoryTypes, Abstract!Fates
<1>10. QED
  BY <1>1, <1>5, <1>6, <1>8, <1>9

LEMMA CancelsStep ==
  ASSUME HInv, IInv', NEW binding \in Bindings, Cancels(binding)
  PROVE  HInv' /\ (Abstract!Cancel(binding) \/ Abstract!Abort(binding))
<1> USE DEF HInv, IInv, AuthorityInv
<1>1. CASE CancelQueued(binding) /\ fate' = [fate EXCEPT ![binding] = "aborted"]
           /\ UNCHANGED basis
  <2>1. PICK slot \in Slots :
          /\ inflight[slot].active
          /\ binding_matches(binding, inflight[slot].submission)
          /\ inflight' = [inflight EXCEPT ![slot] = ZeroInflight]
    BY <1>1 DEF CancelQueued, IsFirst, find_inflight
  <2>2. UNCHANGED <<objects, shadows, next_sequence>>
    BY <1>1 DEF CancelQueued
  <2>3. Live(slot) /\ BindingAt(slot) = binding
    BY <2>1, LiveCases, MatchedBinding
  <2>4. /\ \A s \in Slots : s # slot => inflight'[s] = inflight[s]
        /\ ~Live(slot)'
    BY <2>1, <2>2 DEF TypeOK, ZeroInflight, Live, SlotsExclusive
  <2>5. HInv' /\ fate[binding] \in {"open", "cancelled"}
    BY <1>1, <2>2, <2>3, <2>4, EndStep
  <2>6. Abstract!Abort(binding)
    BY <1>1, <2>2, <2>5 DEF Abstract!Abort, VisibleStore, VisibleState
  <2>7. QED
    BY <2>5, <2>6
<1>2. CASE CancelDispatched(binding) /\ fate' = [fate EXCEPT ![binding] = "cancelled"]
           /\ UNCHANGED basis
  <2>1. PICK slot \in Slots :
          /\ inflight[slot].active
          /\ ~inflight[slot].cancel_requested
          /\ binding_matches(binding, inflight[slot].submission)
          /\ inflight' = [inflight EXCEPT ![slot].cancel_requested = TRUE,
                                          ![slot].snapshot = ZeroImage]
    BY <1>2 DEF CancelDispatched, IsFirst, find_inflight
  <2>2. UNCHANGED <<objects, shadows, next_sequence>>
    BY <1>2 DEF CancelDispatched
  <2>3. Live(slot) /\ BindingAt(slot) = binding
    BY <2>1, LiveCases, MatchedBinding
  <2>4. /\ inflight'[slot].cancel_requested
        /\ \A s \in Slots : /\ inflight'[s].active = inflight[s].active
                            /\ inflight'[s].submission = inflight[s].submission
        /\ \A s \in Slots : s # slot => inflight'[s] = inflight[s]
    BY <2>1 DEF TypeOK, InflightSlot
  <2>5. /\ ~Cancelled(slot) /\ Cancelled(slot)'
        /\ \A s \in Slots : /\ Live(s)' = Live(s)
                            /\ Live(s) => SubmissionAt(s)' = SubmissionAt(s)
                            /\ s # slot => Cancelled(s)' = Cancelled(s)
    <3>1. shadows' = shadows /\ inflight[slot].active /\ ~inflight[slot].cancel_requested
          /\ ~shadows[slot].active
      BY <2>1, <2>2 DEF SlotsExclusive
    <3>2. ~Cancelled(slot) /\ Cancelled(slot)'
      BY <2>4, <3>1 DEF Cancelled
    <3>3. \A s \in Slots : Live(s)' = Live(s) /\ SubmissionAt(s)' = SubmissionAt(s)
      BY <2>4, <3>1 DEF Live, SubmissionAt
    <3>4. \A s \in Slots : s # slot => Cancelled(s)' = Cancelled(s)
      BY <2>4, <3>1 DEF Cancelled
    <3>. QED BY <3>2, <3>3, <3>4
  <2>6. \A s \in Slots : (inflight'[s].active /\ ~inflight'[s].cancel_requested) =>
            /\ inflight[s].active /\ ~inflight[s].cancel_requested
            /\ inflight'[s].snapshot = inflight[s].snapshot
    BY <2>4
  <2>7. QED
    BY <1>2, <2>2, <2>3, <2>5, <2>6, CancelStep
<1>3. CASE CancelShadow(binding) /\ fate' = [fate EXCEPT ![binding] = "cancelled"]
           /\ UNCHANGED basis
  <2>1. PICK slot \in Slots :
          /\ shadows[slot].active
          /\ ~shadows[slot].cancel_requested
          /\ binding_matches(binding, shadows[slot].submission)
          /\ shadows' = [shadows EXCEPT ![slot] = CancelledShadow(shadows[slot])]
    BY <1>3 DEF CancelShadow, IsFirst, find_shadow
  <2>2. UNCHANGED <<objects, inflight, next_sequence>>
    BY <1>3 DEF CancelShadow
  <2>3. Live(slot) /\ BindingAt(slot) = binding
    BY <2>1, LiveCases, MatchedBinding
  <2>4. /\ CancelledShadow(shadows[slot]).cancel_requested
        /\ CancelledShadow(shadows[slot]).active = shadows[slot].active
        /\ CancelledShadow(shadows[slot]).submission = shadows[slot].submission
    BY DEF CancelledShadow, TypeOK, ShadowSlot
  <2>5. /\ shadows'[slot].cancel_requested
        /\ \A s \in Slots : /\ shadows'[s].active = shadows[s].active
                            /\ shadows'[s].submission = shadows[s].submission
        /\ \A s \in Slots : s # slot => shadows'[s] = shadows[s]
    BY <2>1, <2>4 DEF TypeOK
  <2>6. /\ ~Cancelled(slot) /\ Cancelled(slot)'
        /\ \A s \in Slots : /\ Live(s)' = Live(s)
                            /\ Live(s) => SubmissionAt(s)' = SubmissionAt(s)
                            /\ s # slot => Cancelled(s)' = Cancelled(s)
    BY <2>1, <2>2, <2>5 DEF Cancelled, Live, SubmissionAt, SlotsExclusive
  <2>7. QED
    BY <1>3, <2>2, <2>3, <2>6, CancelStep
<1>4. QED
  BY <1>1, <1>2, <1>3 DEF Cancels

\* A commit moves every object it touches past the version any other live job
\* waits for.
LEMMA CommitMovesOn ==
  ASSUME IInv, NEW slot \in Slots, shadows[slot].active, NEW commit,
         Commits(shadows[slot], commit), objects' = Published(shadows[slot]),
         NEW s \in Slots, Live(s), NEW ref \in SubmissionAt(s).job.refs,
         objects'[ref.object_id].version = ref.expected_version
  PROVE  /\ objects'[ref.object_id].version = objects[ref.object_id].version
         /\ objects'[ref.object_id].visible = objects[ref.object_id].visible
<1> DEFINE id == ref.object_id
           written == {r.object_id : r \in WriteRefs(shadows[slot].submission.job)}
<1>1. id \in ObjectIds /\ ref.expected_version \in Nat
  <2>1. SubmissionAt(s).job \in JobDescriptor
    BY AuthorityConstants DEF IInv, AuthorityInv, LiveWellFormed
  <2>2. QED
    BY <2>1 DEF JobDescriptor, ObjectRef
<1>2. objects[id].version \in Nat /\ ref.expected_version <= objects[id].version
  BY <1>1 DEF IInv, RefsInBounds, TypeOK, Object
<1>3. /\ id \in written => objects'[id].version = objects[id].version + 1
      /\ id \notin written => /\ objects'[id].version = objects[id].version
                              /\ objects'[id].visible = objects[id].visible
  BY <1>1, CommitEffect
<1>4. id \notin written
  BY <1>1, <1>2, <1>3
<1>5. QED
  BY <1>3, <1>4

\* A commit changes the store by one abstract commit: the objects the job was
\* admitted against are still what they were, and no other object changes.
LEMMA CommitStep ==
  ASSUME HInv, TypeOK', NEW binding \in Bindings, NEW slot \in Slots,
         shadows[slot].active, BindingAt(slot) = binding, fate[binding] = "open",
         NEW commit, Commits(shadows[slot], commit), objects' = Published(shadows[slot]),
         fate' = [fate EXCEPT ![binding] = "committed"], UNCHANGED basis
  PROVE  Abstract!Commit(binding)
<1> USE DEF HInv
<1> DEFINE job == shadows[slot].submission.job
           written == {ref.object_id : ref \in WriteRefs(job)}
<1>1. Live(slot) /\ SubmissionAt(slot) = shadows[slot].submission
  BY LiveCases DEF IInv, AuthorityInv
<1>2. /\ \A ref \in job.refs : /\ objects[ref.object_id].version = ref.expected_version
                               /\ objects[ref.object_id].active
  BY DEF Commits, RefsCurrent, RefInRange
<1>3. \A ref \in job.refs : ref.object_id \in ObjectIds
  <2>1. job \in JobDescriptor
    BY <1>1, AuthorityConstants DEF IInv, AuthorityInv, LiveWellFormed
  <2>2. QED
    BY <2>1 DEF JobDescriptor, ObjectRef
<1>4. ASSUME NEW ref \in job.refs
      PROVE  /\ basis[binding][ref.object_id] # NoObject
             /\ basis[binding][ref.object_id].version = objects[ref.object_id].version
             /\ basis[binding][ref.object_id].visible = objects[ref.object_id].visible
  BY <1>1, <1>2 DEF BasisOfLive, Admission
<1>5. ASSUME NEW id \in ObjectIds, basis[binding][id] # NoObject
      PROVE  VisibleStore[id] = basis[binding][id]
  <2>1. PICK ref \in job.refs : ref.object_id = id
    BY <1>1, <1>5 DEF BasisOfLive, Admission
  <2>2. basis[binding][id] \in [version : 0 .. U64Max, visible : Content]
    BY <1>5 DEF HistoryTypes, ObjectState
  <2>3. basis[binding][id] = [version |-> objects[id].version, visible |-> objects[id].visible]
    BY <1>4, <2>1, <2>2
  <2>4. QED
    BY <1>2, <2>1, <2>3 DEF VisibleStore, VisibleState
<1>6. ASSUME NEW id \in ObjectIds, VisibleStore'[id] # VisibleStore[id]
      PROVE  /\ basis[binding][id] # NoObject
             /\ VisibleStore'[id] # NoObject
             /\ VisibleStore'[id].version = VisibleStore[id].version + 1
  <2>1. /\ objects'[id].active = objects[id].active
        /\ id \in written => objects'[id].version = objects[id].version + 1
        /\ id \notin written => /\ objects'[id].version = objects[id].version
                                /\ objects'[id].visible = objects[id].visible
    BY CommitEffect
  <2>2. VisibleStore'[id] = VisibleState(id)' /\ VisibleStore[id] = VisibleState(id)
    BY DEF VisibleStore
  <2>3. id \in written
    BY <1>6, <2>1, <2>2 DEF VisibleState
  <2>4. PICK ref \in job.refs : ref.object_id = id
    BY <2>3 DEF WriteRefs
  <2>5. /\ VisibleState(id).version = objects[id].version
        /\ VisibleState(id)'.version = objects'[id].version
    BY <1>2, <2>1, <2>4 DEF VisibleState
  <2>6. VisibleState(id)' # NoObject
    <3>1. objects'[id].active
      BY <1>2, <2>1, <2>4
    <3>2. objects'[id].version \in 0 .. U64Max /\ objects'[id].visible \in Content
      BY DEF TypeOK, Object
    <3>3. QED
      BY <3>1, <3>2, HistoryConstants DEF VisibleState
  <2>7. QED
    BY <1>4, <2>1, <2>2, <2>3, <2>4, <2>5, <2>6
<1>7. VisibleStore' = [id \in ObjectIds |-> VisibleStore'[id]]
  BY DEF VisibleStore
<1>8. QED
  BY <1>5, <1>6, <1>7 DEF Abstract!Commit

LEMMA FinalizeStep ==
  ASSUME HInv, IInv', NEW binding \in Bindings, NEW commit \in BOOLEAN,
         Finalizes(binding, commit)
  PROVE  HInv' /\ (Abstract!Commit(binding) \/ Abstract!Abort(binding))
<1> USE DEF HInv, IInv, AuthorityInv
<1> DEFINE committing == \E slot \in Slots : /\ IsFirst(slot, find_shadow(binding))
                                             /\ Commits(shadows[slot], commit)
           outcome == IF committing THEN "committed" ELSE "aborted"
<1>1. PICK slot \in Slots :
        /\ IsFirst(slot, find_shadow(binding))
        /\ shadows' = [shadows EXCEPT ![slot] = ZeroShadow]
        /\ objects' = IF Commits(shadows[slot], commit)
                        THEN Published(shadows[slot]) ELSE objects
  BY DEF Finalizes, job_shadow_finalize_core
<1>2. /\ UNCHANGED <<inflight, next_sequence, basis>>
      /\ fate' = [fate EXCEPT ![binding] = outcome]
  BY DEF Finalizes, job_shadow_finalize_core
<1>3. shadows[slot].active /\ binding_matches(binding, shadows[slot].submission)
  BY <1>1 DEF IsFirst, find_shadow
<1>4. Live(slot) /\ BindingAt(slot) = binding
  BY <1>3, LiveCases, MatchedBinding
<1>5. \A s \in Slots : IsFirst(s, find_shadow(binding)) => s = slot
  BY <1>1 DEF IsFirst, find_shadow, Slots
<1>6. committing <=> Commits(shadows[slot], commit)
  BY <1>1, <1>5
<1> HIDE DEF committing
<1>7. /\ \A s \in Slots : s # slot => shadows'[s] = shadows[s]
      /\ ~Live(slot)'
  BY <1>1, <1>2, <1>3 DEF TypeOK, ZeroShadow, Live, SlotsExclusive
<1>8. ASSUME NEW s \in Slots, Live(s)', NEW ref \in SubmissionAt(s).job.refs,
             objects'[ref.object_id].version = ref.expected_version
      PROVE  /\ objects'[ref.object_id].version = objects[ref.object_id].version
             /\ objects'[ref.object_id].visible = objects[ref.object_id].visible
  <2>1. Live(s)
    BY <1>2, <1>7, <1>8 DEF Live
  <2>2. CASE Commits(shadows[slot], commit)
    BY <1>1, <1>3, <1>8, <2>1, <2>2, CommitMovesOn
  <2>3. CASE ~Commits(shadows[slot], commit)
    BY <1>1, <2>3
  <2>4. QED
    BY <2>2, <2>3
<1>9. outcome \in {"committed", "aborted"}
  OBVIOUS
<1>10. /\ HInv'
       /\ fate[binding] = IF Cancelled(slot) THEN "cancelled" ELSE "open"
  <2> HIDE DEF outcome, HInv
  <2>1. \A s \in Slots : s # slot => inflight'[s] = inflight[s] /\ shadows'[s] = shadows[s]
    BY <1>2, <1>7
  <2>2. HInv
    OBVIOUS
  <2>3. QED
    BY <1>2, <1>4, <1>7, <1>8, <1>9, <2>1, <2>2, EndStep
<1>11. CASE committing
  <2>1. ~Cancelled(slot)
    BY <1>3, <1>6, <1>11 DEF Commits, MayCommit, Cancelled, SlotsExclusive
  <2>2. fate[binding] = "open" /\ fate' = [fate EXCEPT ![binding] = "committed"]
    BY <1>2, <1>10, <1>11, <2>1
  <2>3. Commits(shadows[slot], commit) /\ objects' = Published(shadows[slot])
    BY <1>1, <1>6, <1>11
  <2>4. Abstract!Commit(binding)
    BY <1>2, <1>3, <1>4, <2>2, <2>3, CommitStep
  <2>5. QED
    BY <1>10, <2>4
<1>12. CASE ~committing
  <2>1. UNCHANGED objects /\ fate' = [fate EXCEPT ![binding] = "aborted"]
    BY <1>1, <1>2, <1>6, <1>12
  <2>2. fate[binding] \in {"open", "cancelled"}
    BY <1>10
  <2>3. Abstract!Abort(binding)
    BY <1>2, <2>1, <2>2 DEF Abstract!Abort, VisibleStore, VisibleState
  <2>4. QED
    BY <1>10, <2>3
<1>13. QED
  BY <1>11, <1>12

----------------------------------------------------------------------------
\* The history restricts nothing: a step with it is a step of the authority.
LEMMA HistoryObserves ==
  ASSUME [HNext]_hvars PROVE [Next]_vars
<1>1. ASSUME NEW binding \in Bindings, Posts(binding) PROVE Next
  BY <1>1 DEF Posts, Next
<1>2. ASSUME NEW binding \in Bindings, Cancels(binding) PROVE Next
  BY <1>2 DEF Cancels, job_cancel, Next
<1>3. ASSUME HNext PROVE Next
  BY <1>1, <1>2, <1>3 DEF HNext, Restarts, Admits, Finalizes, Next
<1>4. QED
  BY <1>3 DEF hvars

LEMMA HistoryStep ==
  ASSUME HInv, [HNext]_hvars
  PROVE  HInv' /\ [Abstract!Next]_(Abstract!vars)
<1> DEFINE Good == HInv' /\ [Abstract!Next]_(Abstract!vars)
<1>0. IInv /\ IInv'
  BY HistoryObserves, InvStep DEF HInv
<1>1. ASSUME NEW epoch \in Epochs, Restarts(epoch) PROVE Good
  BY <1>0, <1>1, RestartStep DEF Abstract!Next
<1>2. ASSUME NEW manifest \in Manifests,
             NEW initial \in [0 .. manifest.byte_length - 1 -> Bytes],
             job_object_register_bytes_core(manifest, initial), UNCHANGED history
      PROVE  Good
  <2>1. manifest.object_id \in ObjectIds
    BY AuthorityConstants DEF Manifest
  <2>2. QED
    BY <1>0, <1>2, <2>1, RegisterStep DEF Abstract!Next
<1>3. ASSUME NEW job \in Jobs, Admits(job) PROVE Good
  BY <1>0, <1>3, AdmitStep DEF Abstract!Next
<1>4. ASSUME SlotsStay, UNCHANGED <<objects, next_sequence, fate, basis>> PROVE Good
  BY <1>0, <1>4, StayingStutters
<1>5. ASSUME job_submission_take, UNCHANGED history PROVE Good
  BY <1>0, <1>4, <1>5, TakeStays DEF job_submission_take, history
<1>6. ASSUME NEW binding \in Bindings, Posts(binding), UNCHANGED history PROVE Good
  BY <1>0, <1>4, <1>6, PostStays DEF Posts, job_completion_post, history
<1>7. ASSUME NEW i \in DOMAIN completions, completion_take_offset(i), UNCHANGED history
      PROVE  Good
  BY <1>0, <1>4, <1>7, ObserveStays DEF completion_take_offset, history
<1>8. ASSUME job_completion_take, UNCHANGED history PROVE Good
  <2>1. 1 \in DOMAIN completions /\ completion_take_offset(1)
    BY <1>0, <1>8 DEF job_completion_take, IInv, TypeOK
  <2>2. QED
    BY <1>7, <1>8, <2>1
<1>9. ASSUME NEW binding \in Bindings, job_completion_take_bound(binding), UNCHANGED history
      PROVE  Good
  BY <1>7, <1>9 DEF job_completion_take_bound
<1>10. ASSUME NEW binding \in Bindings, Cancels(binding) PROVE Good
  BY <1>0, <1>10, CancelsStep DEF Abstract!Next
<1>11. ASSUME NEW binding \in Bindings, NEW object_id \in ObjectIds, NEW offset \in Offsets,
              NEW length \in 1 .. MaxBytes, NEW source \in [0 .. length - 1 -> Bytes],
              job_shadow_write_core(binding, object_id, offset, length, source),
              UNCHANGED history
       PROVE  Good
  <2>1. SlotsStay
    BY <1>0, <1>11, StageStays, Zenon
  <2>2. UNCHANGED <<objects, next_sequence, fate, basis>>
    BY <1>11 DEF job_shadow_write_core, history
  <2>3. QED
    BY <1>4, <2>1, <2>2
<1>12. ASSUME NEW binding \in Bindings, job_shadow_approve_core(binding), UNCHANGED history
       PROVE  Good
  BY <1>0, <1>4, <1>12, ApproveStays DEF job_shadow_approve_core, history
<1>13. ASSUME NEW binding \in Bindings, NEW commit \in BOOLEAN, Finalizes(binding, commit)
       PROVE  Good
  BY <1>0, <1>13, FinalizeStep DEF Abstract!Next
<1>14. ASSUME UNCHANGED hvars PROVE Good
  <2>1. SlotsStay /\ UNCHANGED <<objects, next_sequence, fate, basis>>
    BY <1>14 DEF hvars, vars, history, SlotsStay, Live, SubmissionAt, Cancelled
  <2>2. QED
    BY <1>4, <2>1
<1> HIDE DEF Good
<1>15. Good
  <2>1. ASSUME HNext PROVE Good
    BY <1>1, <1>2, <1>3, <1>5, <1>6, <1>8, <1>9, <1>10, <1>11, <1>12, <1>13, <2>1, Zenon
       DEF HNext
  <2>2. QED
    BY <1>14, <2>1
<1>16. QED
  BY <1>15 DEF Good

\* With the history the authority still is the authority: everything proved of
\* Spec holds of HSpec.
THEOREM HistoryIsSpec == HSpec => Spec
<1>1. HInit => Init
  BY DEF HInit
<1>2. [HNext]_hvars => [Next]_vars
  BY HistoryObserves
<1>3. QED
  BY <1>1, <1>2, PTL DEF HSpec, Spec

\* No binding job_submit_bound_core hands out is lost or left behind by any
\* order of completions, cancellations and finalizations, and
\* job_submission_read serves a job the bytes of its admission only.
THEOREM HistoryIsExact == HSpec => []HistoryExact
<1>1. HInit => HInv
  BY HistoryInit
<1>2. HInv /\ [HNext]_hvars => HInv'
  BY HistoryStep
<1>3. HInv => HistoryExact
  BY HistoryFollows
<1>4. QED
  BY <1>1, <1>2, <1>3, PTL DEF HSpec

\* The job authority implements a serializable transactional store
\* (job_submit_bound_core, job_cancel and job_shadow_finalize_core are Begin,
\* Cancel or Abort, and Commit or Abort; the other calls cannot be observed).
THEOREM AuthorityImplementsStore == HSpec => ImplementsStore
<1>1. HInit => HInv /\ Abstract!Init
  BY HistoryInit
<1>2. HInv /\ [HNext]_hvars => HInv' /\ [Abstract!Next]_(Abstract!vars)
  BY HistoryStep
<1>3. QED
  BY <1>1, <1>2, PTL DEF HSpec, ImplementsStore, Abstract!Spec

-----------------------------------------------------------------------------

(***************************************************************************)
(* The inductive invariant.  A revoked handle is behind its slot: the slot *)
(* is in a later generation or is retired.  What was granted is live and   *)
(* has one origin, and an origin that is no longer live was revoked.       *)
(***************************************************************************)
RetiredInactive == \A s \in CapSlots : cap_table[s].retired => ~cap_table[s].active

RevokedBehind ==
  \A handle \in revoked :
    /\ decode_handle(handle)
    /\ \/ cap_table[HandleSlot(handle)].generation > HandleGeneration(handle)
       \/ cap_table[HandleSlot(handle)].retired

GrantsLive ==
  /\ grants \subseteq [handle : Nat, source : Nat]
  /\ \A grant \in grants : Names(grant.handle, HandleSlot(grant.handle))
  /\ \A left, right \in grants : left.handle = right.handle => left = right

SourcesKnown ==
  \A grant \in grants : grant.source # 0 =>
    \/ grant.source \in revoked
    \/ Names(grant.source, HandleSlot(grant.source))

CapInv ==
  /\ CapTypeOK
  /\ revoked \subseteq Nat
  /\ RetiredInactive
  /\ RevokedBehind
  /\ GrantsLive
  /\ SourcesKnown
  /\ DelegationIsLeaf
  /\ DelegationNarrows

(***************************************************************************)
(* make_handle and decode_handle are inverse.                              *)
(***************************************************************************)
LEMMA HandleCodec ==
  ASSUME NEW slot \in CapSlots, NEW generation \in Nat
  PROVE  /\ make_handle(slot, generation) \in Nat
         /\ make_handle(slot, generation) # 0
         /\ decode_handle(make_handle(slot, generation))
         /\ HandleSlot(make_handle(slot, generation)) = slot
         /\ HandleGeneration(make_handle(slot, generation)) = generation
<1>1. slot \in Nat /\ 1 <= slot /\ slot <= 65535
  BY CapabilitySizes DEF CapSlots
<1>2. (generation * 65536 + slot) % 65536 = slot
  BY <1>1
<1>3. (generation * 65536 + slot) \div 65536 = generation
  BY <1>1
<1>4. QED
  BY <1>1, <1>2, <1>3 DEF make_handle, decode_handle, HandleSlot, HandleGeneration

\* A handle is determined by the slot and the generation it names.
LEMMA HandleDecoded ==
  ASSUME NEW handle \in Nat
  PROVE  handle = make_handle(HandleSlot(handle), HandleGeneration(handle))
BY DEF make_handle, HandleSlot, HandleGeneration

LEMMA CapTypeInit ==
  ASSUME CapInit PROVE CapTypeOK
BY CapabilitySizes DEF CapInit, CapTypeOK, CapEntry, CapView, NoView, AllTypes

LEMMA CapInvInit ==
  ASSUME CapHistoryInit PROVE CapInv
<1>1. CapTypeOK /\ revoked = {} /\ grants = {}
  BY CapTypeInit DEF CapHistoryInit
<1>2. RetiredInactive
  BY DEF CapHistoryInit, CapInit, RetiredInactive
<1>3. QED
  BY <1>1, <1>2 DEF CapInv, RevokedBehind, GrantsLive, SourcesKnown, DelegationIsLeaf,
                    DelegationNarrows

LEMMA CapInvRestart ==
  ASSUME CapInv, Restart PROVE CapInv'
<1>1. CapTypeOK'
  <2>1. ASSUME NEW s \in CapSlots PROVE cap_table'[s] \in CapEntry
    <3>1. cap_table[s] \in CapEntry /\ 1 \in 1 .. GenerationMax
      BY CapabilitySizes DEF CapInv, CapTypeOK
    <3>2. cap_table'[s] = [cap_table[s] EXCEPT !.active = FALSE, !.retired = FALSE,
                                               !.generation = 1]
      BY DEF Restart, cap_init
    <3>3. QED
      BY <3>1, <3>2 DEF CapEntry
  <2>2. QED
    BY <2>1 DEF CapTypeOK, Restart, cap_init
<1>2. RetiredInactive'
  BY DEF Restart, cap_init, RetiredInactive, CapInv, CapTypeOK, CapEntry
<1>3. revoked' = {} /\ grants' = {}
  BY DEF Restart
<1>4. QED
  BY <1>1, <1>2, <1>3 DEF CapInv, RevokedBehind, GrantsLive, SourcesKnown,
                          DelegationIsLeaf, DelegationNarrows

(***************************************************************************)
(* What cap_create does: one free slot becomes active in the generation it *)
(* is in; its handle is new and was never revoked.                         *)
(***************************************************************************)
Fresh(slot, owner, type, object, rights, handle) ==
  /\ ~cap_table[slot].active /\ ~cap_table[slot].retired
  /\ handle = make_handle(slot, cap_table[slot].generation)
  /\ cap_table' = [cap_table EXCEPT
       ![slot] = [cap_table[slot] EXCEPT
         !.active = TRUE,
         !.view = [owner_task |-> owner, object_type |-> type,
                   object_id |-> object, rights |-> rights]]]
  /\ LiveHandles' \ LiveHandles = {handle}
  /\ handle \notin revoked

LEMMA CreateEffect ==
  ASSUME CapInv, NEW owner \in Nat, NEW type \in AllTypes, NEW object \in Nat,
         NEW rights \in SUBSET AllRights, cap_create(owner, type, object, rights)
  PROVE  /\ CapTypeOK'
         /\ \E slot \in CapSlots :
              \E handle \in Nat \ {0} : Fresh(slot, owner, type, object, rights, handle)
<1> USE DEF CapInv
<1> DEFINE view == [owner_task |-> owner, object_type |-> type,
                    object_id |-> object, rights |-> rights]
<1>1. PICK slot \in CapSlots :
        /\ ~cap_table[slot].active /\ ~cap_table[slot].retired
        /\ cap_table' = [cap_table EXCEPT ![slot].active = TRUE, ![slot].view = view]
  BY DEF cap_create, FreeCapSlots
<1>2. view \in CapView
  BY DEF CapView
<1> HIDE DEF view
<1>3. cap_table' = [cap_table EXCEPT ![slot] =
                      [cap_table[slot] EXCEPT !.active = TRUE, !.view = view]]
  BY <1>1 DEF CapTypeOK, CapEntry
<1>4. CapTypeOK'
  BY <1>2, <1>3 DEF CapTypeOK, CapEntry
<1> DEFINE handle == make_handle(slot, cap_table[slot].generation)
<1>5. cap_table[slot].generation \in Nat
  BY CapabilitySizes DEF CapTypeOK, CapEntry
<1>6. /\ handle \in Nat \ {0}
      /\ HandleSlot(handle) = slot
      /\ HandleGeneration(handle) = cap_table[slot].generation
  BY <1>5, HandleCodec
<1> HIDE DEF handle
<1>7. /\ \A s \in CapSlots : cap_table'[s].generation = cap_table[s].generation
      /\ \A s \in CapSlots : cap_table'[s].active <=> cap_table[s].active \/ s = slot
  BY <1>3 DEF CapTypeOK, CapEntry
<1>8. LiveHandles' = LiveHandles \cup {handle}
  BY <1>7 DEF LiveHandles, handle
<1>9. handle \notin LiveHandles
  <2> SUFFICES ASSUME NEW s \in CapSlots, cap_table[s].active,
                      handle = make_handle(s, cap_table[s].generation)
               PROVE  FALSE
    BY DEF LiveHandles
  <2>1. cap_table[s].generation \in Nat
    BY CapabilitySizes DEF CapTypeOK, CapEntry
  <2>2. HandleSlot(handle) = s
    BY <2>1, HandleCodec
  <2>3. QED
    BY <1>1, <1>6, <2>2
<1>10. handle \notin revoked
  <2> SUFFICES ASSUME handle \in revoked PROVE FALSE
    OBVIOUS
  <2>1. \/ cap_table[slot].generation > cap_table[slot].generation
        \/ cap_table[slot].retired
    BY <1>6 DEF RevokedBehind
  <2>2. QED
    BY <1>1, <1>5, <2>1
<1>11. Fresh(slot, owner, type, object, rights, handle)
  BY <1>1, <1>3, <1>8, <1>9, <1>10 DEF Fresh, handle, view
<1>12. QED
  BY <1>4, <1>6, <1>11

(***************************************************************************)
(* A new grant keeps the invariant if it is a leaf of what it came from.   *)
(***************************************************************************)
LEMMA GrantStep ==
  ASSUME CapInv, CapTypeOK',
         NEW owner, NEW type, NEW object, NEW rights, NEW slot \in CapSlots,
         NEW handle \in Nat \ {0}, Fresh(slot, owner, type, object, rights, handle),
         NEW source \in Nat, Granted(source),
         source # 0 =>
           /\ "CONTROL" \notin rights
           /\ type \notin ControlTypes
           /\ Names(source, HandleSlot(source))
           /\ "CONTROL" \in cap_table[HandleSlot(source)].view.rights
           /\ type = cap_table[HandleSlot(source)].view.object_type
           /\ object = cap_table[HandleSlot(source)].view.object_id
           /\ rights \subseteq cap_table[HandleSlot(source)].view.rights
  PROVE  CapInv'
<1> USE DEF CapInv
<1> DEFINE new == [handle |-> handle, source |-> source]
<1>1. grants' = grants \cup {new} /\ revoked' = revoked
  BY DEF Granted, Fresh
<1>2. /\ new.handle = handle /\ new.source = source
      /\ new \in [handle : Nat, source : Nat]
  OBVIOUS
<1> HIDE DEF new
<1>3. cap_table[slot].generation \in Nat
  BY CapabilitySizes DEF CapTypeOK, CapEntry
<1>4. /\ HandleSlot(handle) = slot
      /\ HandleGeneration(handle) = cap_table[slot].generation
      /\ decode_handle(handle)
  BY <1>3, HandleCodec DEF Fresh
<1>5. /\ \A s \in CapSlots : s # slot => cap_table'[s] = cap_table[s]
      /\ cap_table'[slot].active
      /\ cap_table'[slot].retired = cap_table[slot].retired
      /\ cap_table'[slot].generation = cap_table[slot].generation
      /\ cap_table'[slot].view = [owner_task |-> owner, object_type |-> type,
                                  object_id |-> object, rights |-> rights]
      /\ ~cap_table[slot].active /\ ~cap_table[slot].retired
  BY DEF Fresh, CapTypeOK, CapEntry
<1>6. \A h : Names(h, HandleSlot(h)) =>
        /\ HandleSlot(h) \in CapSlots /\ HandleSlot(h) # slot
        /\ Names(h, HandleSlot(h))'
        /\ cap_table'[HandleSlot(h)] = cap_table[HandleSlot(h)]
  BY <1>5 DEF Names, decode_handle
<1>7. Names(handle, slot)'
  BY <1>4, <1>5 DEF Names, decode_handle
<1>8. \A grant \in grants : /\ grant.handle # handle
                            /\ grant.source # handle
                            /\ grant.handle \in Nat
  <2> SUFFICES ASSUME NEW grant \in grants
               PROVE  grant.handle # handle /\ grant.source # handle
    BY DEF GrantsLive
  <2>1. ~Names(handle, slot)
    BY <1>5 DEF Names
  <2>2. grant.handle # handle
    BY <1>4, <2>1 DEF GrantsLive
  <2>3. grant.source # handle
    BY <1>4, <2>1 DEF SourcesKnown, Fresh
  <2>4. QED
    BY <2>2, <2>3
<1>9. source # handle
  BY <1>4, <1>5 DEF Names
<1>10. RetiredInactive'
  BY <1>5 DEF RetiredInactive
<1>11. RevokedBehind'
  BY <1>1, <1>5 DEF RevokedBehind, decode_handle
<1>12. GrantsLive'
  <2>1. grants' \subseteq [handle : Nat, source : Nat]
    BY <1>1, <1>2 DEF GrantsLive
  <2>2. \A grant \in grants' : Names(grant.handle, HandleSlot(grant.handle))'
    BY <1>1, <1>2, <1>4, <1>6, <1>7 DEF GrantsLive
  <2>3. \A left, right \in grants' : left.handle = right.handle => left = right
    BY <1>1, <1>2, <1>8 DEF GrantsLive
  <2>4. QED
    BY <2>1, <2>2, <2>3 DEF GrantsLive
<1>13. SourcesKnown'
  BY <1>1, <1>2, <1>6 DEF SourcesKnown
<1>14. \A grant \in grants : cap_table'[HandleSlot(grant.handle)]
                               = cap_table[HandleSlot(grant.handle)]
  BY <1>6 DEF GrantsLive
<1>15. ASSUME source # 0, NEW parent \in grants, parent.handle = source
       PROVE  parent.source = 0
  BY <1>15 DEF DelegationIsLeaf
<1>16. DelegationIsLeaf'
  <2> SUFFICES ASSUME NEW grant \in grants', grant.source # 0
               PROVE  /\ "CONTROL" \notin cap_table'[HandleSlot(grant.handle)].view.rights
                      /\ cap_table'[HandleSlot(grant.handle)].view.object_type \notin ControlTypes
                      /\ \A parent \in grants' :
                           parent.handle = grant.source => parent.source = 0
    BY DEF DelegationIsLeaf
  <2>1. CASE grant \in grants
    BY <1>1, <1>2, <1>8, <1>14, <2>1 DEF DelegationIsLeaf
  <2>2. CASE grant = new
    BY <1>1, <1>2, <1>4, <1>5, <1>9, <1>15, <2>2
  <2>3. QED
    BY <1>1, <2>1, <2>2
<1>17. DelegationNarrows'
  <2> SUFFICES ASSUME NEW grant \in grants', NEW parent \in grants',
                      grant.source = parent.handle
               PROVE  LET view == cap_table'[HandleSlot(grant.handle)].view
                          origin == cap_table'[HandleSlot(parent.handle)].view IN
                        /\ view.object_type = origin.object_type
                        /\ view.object_id = origin.object_id
                        /\ view.rights \subseteq origin.rights
    BY DEF DelegationNarrows
  <2>1. CASE grant \in grants /\ parent \in grants
    BY <1>14, <2>1 DEF DelegationNarrows
  <2>2. CASE grant = new /\ parent \in grants
    <3>1. source # 0 /\ parent.handle = source
      <4>1. parent.handle \in Nat /\ Names(parent.handle, HandleSlot(parent.handle))
        BY <2>2 DEF GrantsLive
      <4>2. HandleSlot(parent.handle) # 0
        BY <4>1 DEF Names, decode_handle, CapSlots
      <4>3. HandleSlot(0) = 0
        BY DEF HandleSlot
      <4>4. QED
        BY <1>2, <2>2, <4>2, <4>3
    <3>2. cap_table'[HandleSlot(source)] = cap_table[HandleSlot(source)]
      BY <1>14, <2>2, <3>1
    <3>3. QED
      BY <1>2, <1>4, <1>5, <2>2, <3>1, <3>2
  <2>3. CASE parent = new
    BY <1>1, <1>2, <1>8, <1>9, <2>3
  <2>4. QED
    BY <1>1, <2>1, <2>2, <2>3
<1>18. QED
  BY <1>1, <1>10, <1>11, <1>12, <1>13, <1>16, <1>17

LEMMA CapInvCreate ==
  ASSUME CapInv, NEW owner \in Tasks, NEW type \in CapTypes, NEW object \in CapObjects,
         NEW rights \in RightSets, Create(owner, type, object, rights)
  PROVE  CapInv'
<1>1. owner \in Nat /\ type \in AllTypes /\ object \in Nat /\ rights \in SUBSET AllRights
  BY CapabilityConstants
<1>2. /\ CapTypeOK'
      /\ \E slot \in CapSlots :
           \E handle \in Nat \ {0} : Fresh(slot, owner, type, object, rights, handle)
  BY <1>1, CreateEffect DEF Create
<1>3. PICK slot \in CapSlots, handle \in Nat \ {0} :
        Fresh(slot, owner, type, object, rights, handle)
  BY <1>2
<1>4. Granted(0)
  BY DEF Create
<1>5. QED
  BY <1>2, <1>3, <1>4, GrantStep

LEMMA CapInvDelegate ==
  ASSUME CapInv, NEW source_owner \in Tasks, NEW target_owner \in Tasks,
         NEW source \in Handles, NEW rights \in RightSets,
         Delegate(source_owner, source, target_owner, rights)
  PROVE  CapInv'
<1> DEFINE origin == cap_table[HandleSlot(source)].view
           type == origin.object_type
           object == origin.object_id
<1>1. PICK s \in CapSlots : /\ Names(source, s)
                            /\ "CONTROL" \in cap_table[s].view.rights
                            /\ rights \subseteq cap_table[s].view.rights
  BY DEF Delegate, cap_delegate, CanDelegate
<1>2. s = HandleSlot(source) /\ Names(source, HandleSlot(source))
  BY <1>1 DEF Names
<1>3. origin \in CapView
  BY <1>1, <1>2 DEF CapInv, CapTypeOK, CapEntry
<1>4. target_owner \in Nat /\ type \in AllTypes /\ object \in Nat /\ rights \in SUBSET AllRights
  BY <1>3, CapabilityConstants DEF CapView
<1>5. cap_create(target_owner, type, object, rights) /\ "CONTROL" \notin rights
  BY DEF Delegate, cap_delegate, CanDelegate
<1> HIDE DEF type, object
<1>6. /\ CapTypeOK'
      /\ \E slot \in CapSlots :
           \E handle \in Nat \ {0} : Fresh(slot, target_owner, type, object, rights, handle)
  BY <1>4, <1>5, CreateEffect
<1>7. PICK slot \in CapSlots, handle \in Nat \ {0} :
        Fresh(slot, target_owner, type, object, rights, handle)
  BY <1>6
<1>8. type \notin ControlTypes
  BY <1>5 DEF cap_create, CanCreate, RightsFitType
<1>9. source \in Nat
  <2>1. \A t \in CapSlots, generation \in 1 .. GenerationMax :
          make_handle(t, generation) \in Nat
    BY CapabilitySizes, HandleCodec
  <2>2. QED
    BY <2>1, CapabilitySizes DEF Handles
<1>10. Granted(source)
  BY DEF Delegate
<1>11. QED
  BY <1>1, <1>2, <1>5, <1>6, <1>7, <1>8, <1>9, <1>10, GrantStep DEF type, object

(***************************************************************************)
(* Revocation: the slot leaves the generation of the handle for good.      *)
(***************************************************************************)
LEMMA CapInvRevoke ==
  ASSUME CapInv, NEW handle \in Handles, Revoke(handle)
  PROVE  CapInv'
<1> USE DEF CapInv
<1>1. PICK slot \in CapSlots : /\ Names(handle, slot)
                               /\ cap_table' = [cap_table EXCEPT ![slot] = Revoked(cap_table[slot])]
  BY DEF Revoke, cap_revoke
<1>2. /\ revoked' = revoked \cup {handle}
      /\ grants' = {grant \in grants : grant.handle # handle}
  BY DEF Revoke
<1>3. cap_table[slot] \in CapEntry
  BY DEF CapTypeOK
<1>4. Revoked(cap_table[slot]) \in CapEntry
  <2>1. CASE cap_table[slot].generation = GenerationMax
    <3>1. Revoked(cap_table[slot]) = [cap_table[slot] EXCEPT !.active = FALSE, !.retired = TRUE]
      BY <1>3, <2>1 DEF Revoked, CapEntry
    <3>2. QED
      BY <1>3, <3>1 DEF CapEntry
  <2>2. CASE cap_table[slot].generation # GenerationMax
    <3>1. cap_table[slot].generation + 1 \in 1 .. GenerationMax
      BY <1>3, <2>2, CapabilitySizes DEF CapEntry
    <3>2. Revoked(cap_table[slot]) =
            [cap_table[slot] EXCEPT !.active = FALSE,
                                    !.generation = cap_table[slot].generation + 1]
      BY <1>3, <2>2 DEF Revoked, CapEntry
    <3>3. QED
      BY <1>3, <3>1, <3>2 DEF CapEntry
  <2>3. QED
    BY <2>1, <2>2
<1>5. CapTypeOK'
  BY <1>1, <1>4 DEF CapTypeOK
<1>6. handle \in Nat
  <2>1. \A t \in CapSlots, generation \in 1 .. GenerationMax :
          make_handle(t, generation) \in Nat
    BY CapabilitySizes, HandleCodec
  <2>2. QED
    BY <2>1, CapabilitySizes DEF Handles
<1>7. /\ HandleSlot(handle) = slot
      /\ decode_handle(handle)
      /\ HandleGeneration(handle) = cap_table[slot].generation
      /\ cap_table[slot].active
      /\ cap_table[slot].generation \in Nat
  BY <1>1, <1>3, CapabilitySizes DEF Names, CapEntry
<1>8. /\ \A s \in CapSlots : s # slot => cap_table'[s] = cap_table[s]
      /\ cap_table'[slot] = Revoked(cap_table[slot])
  BY <1>1 DEF CapTypeOK
<1>9. /\ ~cap_table'[slot].active
      /\ cap_table'[slot].view = cap_table[slot].view
      /\ cap_table[slot].retired => cap_table'[slot].retired
      /\ cap_table'[slot].generation >= cap_table[slot].generation
      /\ \/ cap_table'[slot].generation > cap_table[slot].generation
         \/ cap_table'[slot].retired
  BY <1>3, <1>7, <1>8, CapabilitySizes DEF Revoked, CapEntry
<1>10. RetiredInactive'
  BY <1>8, <1>9 DEF RetiredInactive
<1>11. RevokedBehind'
  <2> SUFFICES ASSUME NEW h \in revoked'
               PROVE  /\ decode_handle(h)
                      /\ \/ cap_table'[HandleSlot(h)].generation > HandleGeneration(h)
                         \/ cap_table'[HandleSlot(h)].retired
    BY DEF RevokedBehind, decode_handle
  <2>1. CASE h = handle
    BY <1>7, <1>9, <2>1
  <2>2. CASE h \in revoked
    <3>1. /\ decode_handle(h) /\ HandleSlot(h) \in CapSlots
          /\ \/ cap_table[HandleSlot(h)].generation > HandleGeneration(h)
             \/ cap_table[HandleSlot(h)].retired
      BY <2>2 DEF RevokedBehind, decode_handle
    <3>2. HandleGeneration(h) \in Int
      BY <2>2 DEF HandleGeneration
    <3>3. \A s \in CapSlots : cap_table[s].generation \in Nat /\ cap_table'[s].generation \in Nat
      BY <1>5, CapabilitySizes DEF CapTypeOK, CapEntry
    <3>4. CASE HandleSlot(h) = slot
      BY <1>9, <3>1, <3>2, <3>3, <3>4
    <3>5. CASE HandleSlot(h) # slot
      BY <1>8, <3>1, <3>5
    <3>6. QED
      BY <3>4, <3>5
  <2>3. QED
    BY <1>2, <2>1, <2>2
<1>12. ASSUME NEW h \in Nat, Names(h, HandleSlot(h)), h # handle
       PROVE  Names(h, HandleSlot(h))' /\ HandleSlot(h) # slot
  <2>1. HandleSlot(h) # slot
    <3> SUFFICES ASSUME HandleSlot(h) = slot PROVE FALSE
      OBVIOUS
    <3>1. HandleGeneration(h) = HandleGeneration(handle)
      BY <1>7, <1>12 DEF Names
    <3>2. QED
      BY <1>6, <1>7, <1>12, <3>1, HandleDecoded
  <2>2. QED
    BY <1>8, <1>12, <2>1 DEF Names, decode_handle
<1>13. GrantsLive'
  <2>1. \A grant \in grants : grant.handle \in Nat
    BY DEF GrantsLive
  <2>2. \A grant \in grants' : Names(grant.handle, HandleSlot(grant.handle))'
    BY <1>2, <1>12, <2>1 DEF GrantsLive
  <2>3. QED
    BY <1>2, <2>2 DEF GrantsLive
<1>14. SourcesKnown'
  <2>1. \A grant \in grants : grant.source \in Nat
    BY DEF GrantsLive
  <2>2. QED
    BY <1>2, <1>12, <2>1 DEF SourcesKnown
<1>15. \A s \in CapSlots : cap_table'[s].view = cap_table[s].view
  BY <1>8, <1>9
<1>16. \A grant \in grants : HandleSlot(grant.handle) \in CapSlots
  BY DEF GrantsLive, Names, decode_handle
<1>17. DelegationIsLeaf'
  BY <1>2, <1>15, <1>16 DEF DelegationIsLeaf
<1>18. DelegationNarrows'
  BY <1>2, <1>15, <1>16 DEF DelegationNarrows
<1>19. revoked' \subseteq Nat
  BY <1>2, <1>6
<1>20. QED
  BY <1>5, <1>10, <1>11, <1>13, <1>14, <1>17, <1>18, <1>19

LEMMA CapInductive == CapHistorySpec => []CapInv
<1>1. ASSUME CapInv, [CapHistoryNext]_cvars PROVE CapInv'
  <2>1. CASE Restart
    BY <1>1, <2>1, CapInvRestart
  <2>2. ASSUME NEW owner \in Tasks, NEW type \in CapTypes, NEW object \in CapObjects,
               NEW rights \in RightSets, Create(owner, type, object, rights)
        PROVE  CapInv'
    BY <1>1, <2>2, CapInvCreate
  <2>3. ASSUME NEW source_owner \in Tasks, NEW target_owner \in Tasks, NEW source \in Handles,
               NEW rights \in RightSets, Delegate(source_owner, source, target_owner, rights)
        PROVE  CapInv'
    BY <1>1, <2>3, CapInvDelegate
  <2>4. ASSUME NEW handle \in Handles, Revoke(handle) PROVE CapInv'
    BY <1>1, <2>4, CapInvRevoke
  <2>5. CASE UNCHANGED cvars
    <3>1. cap_table' = cap_table /\ revoked' = revoked /\ grants' = grants
      BY <2>5 DEF cvars
    <3>2. \A h, s : Names(h, s)' <=> Names(h, s)
      BY <3>1 DEF Names, decode_handle
    <3>3. CapTypeOK' /\ RetiredInactive' /\ RevokedBehind' /\ revoked' \subseteq Nat
      BY <1>1, <3>1 DEF CapInv, CapTypeOK, RetiredInactive, RevokedBehind
    <3>4. GrantsLive' /\ SourcesKnown'
      BY <1>1, <3>1, <3>2 DEF CapInv, GrantsLive, SourcesKnown
    <3>5. DelegationIsLeaf' /\ DelegationNarrows'
      BY <1>1, <3>1 DEF CapInv, DelegationIsLeaf, DelegationNarrows
    <3>6. QED
      BY <3>3, <3>4, <3>5 DEF CapInv
  <2>6. QED
    BY <1>1, <2>1, <2>2, <2>3, <2>4, <2>5 DEF CapHistoryNext
<1>2. QED
  BY <1>1, CapInvInit, PTL DEF CapHistorySpec

(***************************************************************************)
(* A revoked handle never resolves again.                                  *)
(***************************************************************************)
THEOREM RevocationIsFinal == CapHistorySpec => []RevokedStayDead
<1>1. ASSUME CapInv PROVE RevokedStayDead
  <2> SUFFICES ASSUME NEW handle \in revoked, NEW s \in CapSlots, Names(handle, s)
               PROVE  FALSE
    BY DEF RevokedStayDead, Resolves, cap_resolve
  <2>1. /\ s = HandleSlot(handle) /\ cap_table[s].active
        /\ cap_table[s].generation = HandleGeneration(handle)
    BY DEF Names
  <2>2. ~cap_table[s].retired
    BY <1>1, <2>1 DEF CapInv, RetiredInactive
  <2>3. cap_table[s].generation \in Nat
    BY <1>1, CapabilitySizes DEF CapInv, CapTypeOK, CapEntry
  <2>4. QED
    BY <1>1, <2>1, <2>2, <2>3 DEF CapInv, RevokedBehind
<1>2. QED
  BY <1>1, CapInductive, PTL

(***************************************************************************)
(* A delegated capability is a leaf, to the object of its source and with  *)
(* no more rights.                                                         *)
(***************************************************************************)
THEOREM DelegationConfined == CapHistorySpec => [](DelegationIsLeaf /\ DelegationNarrows)
<1>1. CapInv => DelegationIsLeaf /\ DelegationNarrows
  BY DEF CapInv
<1>2. QED
  BY <1>1, CapInductive, PTL

-----------------------------------------------------------------------------
(***************************************************************************)
(* The four-plane firewall over the job authority.                         *)
(***************************************************************************)
\* A gated call is a call of the job authority, or leaves its tables alone.
LEMMA GatedSteps ==
  ASSUME NEW task \in Tasks, NEW cap \in Handles, Gated(task, cap)
  PROVE  [Next]_vars
<1>1. ASSUME NEW identity \in Programs, plane_program_install(task, cap, identity)
      PROVE  [Next]_vars
  BY <1>1 DEF plane_program_install
<1>2. ASSUME NEW program \in Programs, NEW graph \in Graphs,
             plane_graph_install(task, cap, program, graph)
      PROVE  [Next]_vars
  BY <1>2 DEF plane_graph_install
<1>3. ASSUME NEW manifest \in Manifests,
             NEW initial \in [0 .. manifest.byte_length - 1 -> Bytes],
             plane_data_object_register_bytes(task, cap, manifest, initial)
      PROVE  [Next]_vars
  BY <1>3 DEF plane_data_object_register_bytes, Next
<1>4. ASSUME NEW job \in Jobs, plane_job_submit_bound(task, cap, job)
      PROVE  [Next]_vars
  BY <1>4 DEF plane_job_submit_bound, Next
<1>5. ASSUME NEW binding \in Bindings, NEW object_id \in ObjectIds, NEW offset \in Offsets,
             NEW length \in 1 .. MaxBytes, NEW source \in [0 .. length - 1 -> Bytes],
             plane_data_shadow_write(task, cap, binding, object_id, offset, length, source)
      PROVE  [Next]_vars
  BY <1>5 DEF plane_data_shadow_write, Next
<1>6. ASSUME NEW binding \in Bindings, plane_program_approve(task, cap, binding)
      PROVE  [Next]_vars
  BY <1>6 DEF plane_program_approve, Next
<1>7. ASSUME NEW binding \in Bindings, NEW commit \in BOOLEAN,
             plane_data_finalize(task, cap, binding, commit)
      PROVE  [Next]_vars
  BY <1>7 DEF plane_data_finalize, Next
<1>8. ASSUME NEW completion, plane_experience_record(task, cap, completion)
      PROVE  [Next]_vars
  BY <1>8 DEF plane_experience_record
<1>9. QED
  BY <1>1, <1>2, <1>3, <1>4, <1>5, <1>6, <1>7, <1>8 DEF Gated

LEMMA PlaneStep ==
  ASSUME [PlaneNext]_pvars PROVE [Next]_vars
<1>1. ASSUME NEW epoch \in Epochs, PlaneRestart(epoch) PROVE [Next]_vars
  BY <1>1 DEF PlaneRestart, Next
<1>2. ASSUME NEW task \in Tasks, NEW cap \in Handles, Gated(task, cap) PROVE [Next]_vars
  BY <1>2, GatedSteps
<1>3. ASSUME Ungated PROVE [Next]_vars
  BY <1>3 DEF Ungated, Next
<1>4. ASSUME Grants PROVE [Next]_vars
  BY <1>4 DEF Grants
<1>5. ASSUME UNCHANGED pvars PROVE [Next]_vars
  BY <1>5 DEF pvars
<1>6. QED
  BY <1>1, <1>2, <1>3, <1>4, <1>5 DEF PlaneNext

\* The interface the production build exports implements the job authority:
\* no capability, delegation or revocation lets a call do what the core of
\* job_authority.c would not.
THEOREM PlaneImplementsAuthority == PlaneSpec => ImplementsAuthority
<1>1. PlaneInit => Init
  BY DEF PlaneInit
<1>2. [PlaneNext]_pvars => [Next]_vars
  BY PlaneStep
<1>3. QED
  BY <1>1, <1>2, PTL DEF PlaneSpec, ImplementsAuthority, Spec

\* Through the capability interface, too, a registered object changes only by
\* the atomic commit of an approved job (job_shadow_finalize_core).
THEOREM PlanePublishesAtomically == PlaneSpec => PublicationAtomic
BY PlaneImplementsAuthority, PublicationIsAtomic DEF ImplementsAuthority

(***************************************************************************)
(* The program plane.  An active capability to it is the root itself, in   *)
(* its first generation: cap_delegate refuses CONTROL and cap_create       *)
(* refuses a program capability without it.                                *)
(***************************************************************************)
ProgramRootOnly ==
  \A s \in CapSlots :
    (cap_table[s].active /\ cap_table[s].view.object_type = "PROGRAM_AUTHORITY") =>
      s = 1 /\ cap_table[s].generation = 1

CapsInv == CapTypeOK /\ ProgramRootOnly

LEMMA BootCapsSound ==
  ASSUME PlaneInit PROVE CapsInv
<1>1. ASSUME NEW s \in CapSlots
      PROVE  /\ cap_table[s] \in CapEntry
             /\ cap_table[s].view.object_type = "PROGRAM_AUTHORITY" =>
                  s = 1 /\ cap_table[s].generation = 1
  <2>1. 1 \in 1 .. GenerationMax /\ InitTask \in Nat /\ PlaneObject \in Nat /\ s \in Nat
    BY CapabilitySizes, CapabilityConstants, PlaneConstants DEF CapSlots
  <2>2. ASSUME NEW type \in AllTypes, NEW rights \in SUBSET AllRights
        PROVE  /\ Root(type, rights) \in CapEntry
               /\ Root(type, rights).view.object_type = type
               /\ Root(type, rights).generation = 1
    <3>1. [owner_task |-> InitTask, object_type |-> type, object_id |-> PlaneObject,
           rights |-> rights] \in CapView
      BY <2>1 DEF CapView
    <3>2. QED
      BY <2>1, <3>1 DEF Root, CapEntry
  <2>3. CASE s = 1
    <3>1. cap_table[s] = Root("PROGRAM_AUTHORITY", {"CONTROL"})
      BY <2>3 DEF PlaneInit, BootCaps, RootAt
    <3>2. QED
      BY <2>2, <2>3, <3>1 DEF AllTypes, AllRights
  <2>4. CASE s = 2
    <3>1. cap_table[s] = Root("GRAPH_AUTHORITY", {"CONTROL"})
      BY <2>4 DEF PlaneInit, BootCaps, RootAt
    <3>2. QED
      BY <2>2, <3>1 DEF AllTypes, AllRights
  <2>5. CASE s = 3 \/ s = 4
    <3>1. \/ cap_table[s] = Root("DATA_AUTHORITY", {"WRITE", "CONTROL"})
          \/ cap_table[s] = Root("EXPERIENCE_AUTHORITY", {"WRITE", "CONTROL"})
      BY <2>5 DEF PlaneInit, BootCaps, RootAt
    <3>2. QED
      BY <2>2, <3>1 DEF AllTypes, AllRights
  <2>6. CASE ~(s <= 4)
    BY <2>1, <2>6, PlaneConstants DEF PlaneInit, BootCaps, NoView, CapEntry, CapView, AllTypes
  <2>7. s = 1 \/ s = 2 \/ s = 3 \/ s = 4 \/ ~(s <= 4)
    BY DEF CapSlots
  <2>8. QED
    BY <2>3, <2>4, <2>5, <2>6, <2>7
<1>2. cap_table = [s \in CapSlots |-> cap_table[s]]
  BY DEF PlaneInit, BootCaps
<1>3. QED
  BY <1>1, <1>2 DEF CapsInv, CapTypeOK, ProgramRootOnly

\* A delegated capability is never one to the program plane.
LEMMA DelegateStep ==
  ASSUME CapsInv, NEW source_owner \in Tasks, NEW target_owner \in Tasks,
         NEW source \in Handles, NEW rights \in RightSets,
         cap_delegate(source_owner, source, target_owner, rights)
  PROVE  CapsInv'
<1> DEFINE origin == cap_table[HandleSlot(source)].view
           view == [owner_task |-> target_owner, object_type |-> origin.object_type,
                    object_id |-> origin.object_id, rights |-> rights]
<1>1. HandleSlot(source) \in CapSlots
  BY DEF cap_delegate, CanDelegate, Names
<1>2. origin \in CapView
  BY <1>1 DEF CapsInv, CapTypeOK, CapEntry
<1>3. view \in CapView
  BY <1>2, CapabilityConstants DEF CapView
<1>4. "CONTROL" \notin rights
  BY DEF cap_delegate, CanDelegate
<1>5. origin.object_type # "PROGRAM_AUTHORITY"
  BY <1>4 DEF cap_delegate, cap_create, CanCreate, RightsFitType, ControlTypes
<1>6. PICK slot \in CapSlots :
        cap_table' = [cap_table EXCEPT ![slot].active = TRUE, ![slot].view = view]
  BY DEF cap_delegate, cap_create, FreeCapSlots
<1> HIDE DEF view, origin
<1>7. cap_table[slot] \in CapEntry
  BY DEF CapsInv, CapTypeOK
<1> DEFINE entry == [cap_table[slot] EXCEPT !.active = TRUE, !.view = view]
<1>8. entry \in CapEntry /\ entry.view = view
  BY <1>3, <1>7 DEF CapEntry
<1>9. cap_table' = [cap_table EXCEPT ![slot] = entry]
  BY <1>6, <1>7 DEF CapsInv, CapTypeOK, CapEntry
<1>10. view.object_type # "PROGRAM_AUTHORITY"
  BY <1>5 DEF view
<1> HIDE DEF entry
<1>11. QED
  BY <1>8, <1>9, <1>10 DEF CapsInv, CapTypeOK, ProgramRootOnly

LEMMA RevokeStep ==
  ASSUME CapsInv, NEW handle \in Handles, cap_revoke(handle)
  PROVE  CapsInv'
<1>1. PICK slot \in CapSlots :
        cap_table' = [cap_table EXCEPT ![slot] = Revoked(cap_table[slot])]
  BY DEF cap_revoke
<1>2. cap_table[slot] \in CapEntry
  BY DEF CapsInv, CapTypeOK
<1>3. /\ Revoked(cap_table[slot]) \in CapEntry
      /\ ~Revoked(cap_table[slot]).active
  <2>1. cap_table[slot].generation # GenerationMax =>
          cap_table[slot].generation + 1 \in 1 .. GenerationMax
    BY <1>2, CapabilitySizes DEF CapEntry
  <2>2. QED
    BY <1>2, <2>1 DEF Revoked, CapEntry
<1>4. QED
  BY <1>1, <1>3 DEF CapsInv, CapTypeOK, ProgramRootOnly

LEMMA CapsStep ==
  ASSUME CapsInv, [PlaneNext]_pvars PROVE CapsInv'
<1>1. CASE UNCHANGED cap_table
  BY <1>1 DEF CapsInv, CapTypeOK, ProgramRootOnly
<1>2. CASE Grants
  BY <1>2, DelegateStep, RevokeStep DEF Grants
<1>3. ASSUME NEW epoch \in Epochs, PlaneRestart(epoch) PROVE UNCHANGED cap_table
  BY <1>3 DEF PlaneRestart
<1>4. ASSUME NEW task \in Tasks, NEW cap \in Handles, Gated(task, cap)
      PROVE  UNCHANGED cap_table
  BY <1>4 DEF Gated, plane_program_install, plane_graph_install,
              plane_data_object_register_bytes, plane_job_submit_bound,
              plane_data_shadow_write, plane_program_approve, plane_data_finalize,
              plane_experience_record
<1>5. ASSUME Ungated PROVE UNCHANGED cap_table
  BY <1>5 DEF Ungated
<1>6. QED
  BY <1>1, <1>2, <1>3, <1>4, <1>5 DEF PlaneNext, pvars

Approvals == \A s \in Slots : shadows'[s].approved => shadows[s].approved

\* No call but plane_program_approve approves a shadow.
LEMMA ApprovalsOnlyByApprove ==
  ASSUME TypeOK, [PlaneNext]_pvars,
         \A task \in Tasks, cap \in Handles, binding \in Bindings :
           ~plane_program_approve(task, cap, binding)
  PROVE  Approvals
<1>1. CASE UNCHANGED shadows
  BY <1>1 DEF Approvals
<1>2. ASSUME NEW epoch \in Epochs, PlaneRestart(epoch) PROVE Approvals
  BY <1>2 DEF Approvals, PlaneRestart, job_authority_init, ZeroShadow
<1>3. ASSUME Ungated PROVE Approvals
  <2>1. ASSUME NEW i \in DOMAIN completions, completion_take_offset(i) PROVE Approvals
    BY <2>1 DEF Approvals, completion_take_offset, completion_move_to_shadow, ShadowOf,
                ZeroShadow
  <2>2. ASSUME NEW binding \in Bindings, job_cancel(binding) PROVE Approvals
    <3>1. CASE UNCHANGED shadows
      BY <3>1 DEF Approvals
    <3>2. CASE CancelShadow(binding)
      <4>1. PICK slot \in Slots :
              shadows' = [shadows EXCEPT ![slot] = CancelledShadow(shadows[slot])]
        BY <3>2 DEF CancelShadow
      <4>2. shadows[slot] \in ShadowSlot
        BY DEF TypeOK
      <4>3. ~CancelledShadow(shadows[slot]).approved
        BY <4>2 DEF CancelledShadow, ShadowSlot
      <4>4. QED
        BY <4>1, <4>3 DEF Approvals, TypeOK
    <3>3. QED
      BY <2>2, <3>1, <3>2 DEF job_cancel, CancelQueued, CancelDispatched
  <2>3. completions # <<>> => 1 \in DOMAIN completions
    BY DEF TypeOK
  <2>4. QED
    BY <1>1, <1>3, <2>1, <2>2, <2>3
       DEF Ungated, job_submission_take, job_completion_post, job_completion_take,
           job_completion_take_bound
<1>4. ASSUME NEW task \in Tasks, NEW cap \in Handles, Gated(task, cap) PROVE Approvals
  <2>1. ASSUME NEW binding \in Bindings, NEW object_id \in ObjectIds, NEW offset \in Offsets,
               NEW length \in 1 .. MaxBytes, NEW source \in [0 .. length - 1 -> Bytes],
               job_shadow_write_core(binding, object_id, offset, length, source)
        PROVE  Approvals
    BY <2>1 DEF job_shadow_write_core, Approvals, TypeOK, ShadowSlot
  <2>2. ASSUME NEW binding \in Bindings, NEW commit \in BOOLEAN,
               job_shadow_finalize_core(binding, commit)
        PROVE  Approvals
    BY <2>2 DEF job_shadow_finalize_core, ZeroShadow, Approvals, TypeOK
  <2>3. QED
    BY <1>1, <1>4, <2>1, <2>2
       DEF Gated, plane_program_install, plane_graph_install,
           plane_data_object_register_bytes, plane_job_submit_bound,
           plane_data_shadow_write, plane_data_finalize, plane_experience_record,
           job_object_register_bytes_core, job_submit_bound_core, vars
<1>5. ASSUME Grants PROVE Approvals
  BY <1>1, <1>5 DEF Grants, vars
<1>6. QED
  BY <1>1, <1>2, <1>3, <1>4, <1>5 DEF PlaneNext, pvars, vars

\* Revoking the program root is final for the program plane: cap_delegate and
\* cap_create together leave no other capability that could install a program
\* or approve a job.
THEOREM ProgramPlaneCloses == PlaneSpec => ProgramRevocationCloses
<1> DEFINE Closed == RootRevoked(1) =>
              /\ plane_programs' \subseteq plane_programs
              /\ \A s \in Slots : shadows'[s].approved => shadows[s].approved
<1>1. PlaneInit => CapsInv
  BY BootCapsSound
<1>2. CapsInv /\ [PlaneNext]_pvars => CapsInv'
  BY CapsStep
<1>3. CapsInv /\ TypeOK /\ [PlaneNext]_pvars => [Closed]_pvars
  <2> SUFFICES ASSUME CapsInv, TypeOK, [PlaneNext]_pvars, RootRevoked(1)
               PROVE  /\ plane_programs' \subseteq plane_programs
                      /\ \A s \in Slots : shadows'[s].approved => shadows[s].approved
    OBVIOUS
  <2>1. ASSUME NEW task \in Tasks, NEW cap \in Handles
        PROVE  ~plane_cap_authorized(task, cap, "PROGRAM_AUTHORITY", "CONTROL")
    <3> SUFFICES ASSUME plane_cap_authorized(task, cap, "PROGRAM_AUTHORITY", "CONTROL")
                 PROVE  FALSE
      OBVIOUS
    <3>1. PICK s \in CapSlots :
            cap_table[s].active /\ cap_table[s].view.object_type = "PROGRAM_AUTHORITY"
      BY DEF plane_cap_authorized, cap_resolve, Names
    <3>2. s = 1 /\ cap_table[s].generation = 1
      BY <3>1 DEF CapsInv, ProgramRootOnly
    <3>3. QED
      BY <3>1, <3>2 DEF RootRevoked
  <2>2. \A task \in Tasks, cap \in Handles :
          /\ \A identity \in Programs : ~plane_program_install(task, cap, identity)
          /\ \A binding \in Bindings : ~plane_program_approve(task, cap, binding)
    BY <2>1 DEF plane_program_install, plane_program_approve
  <2>3. plane_programs' \subseteq plane_programs
    <3>1. CASE UNCHANGED plane_programs
      BY <3>1
    <3>2. CASE \E epoch \in Epochs : PlaneRestart(epoch)
      BY <3>2 DEF PlaneRestart, plane_authority_init
    <3>3. CASE \E task \in Tasks, cap \in Handles : Gated(task, cap)
      <4>1. PICK task \in Tasks, cap \in Handles : Gated(task, cap)
        BY <3>3
      <4>2. CASE \/ \E program \in Programs, graph \in Graphs :
                      plane_graph_install(task, cap, program, graph)
                 \/ \E binding \in Bindings, status \in Status, outputs \in OutputSets :
                      plane_experience_record(task, cap,
                        [binding |-> binding, status |-> status, outputs |-> outputs])
        BY <3>1, <4>2 DEF plane_graph_install, plane_experience_record
      <4>3. CASE \/ \E manifest \in Manifests :
                      \E initial \in [0 .. manifest.byte_length - 1 -> Bytes] :
                        plane_data_object_register_bytes(task, cap, manifest, initial)
                 \/ \E job \in Jobs : plane_job_submit_bound(task, cap, job)
        BY <3>1, <4>3 DEF plane_data_object_register_bytes, plane_job_submit_bound, registries
      <4>4. CASE \/ \E binding \in Bindings, object_id \in ObjectIds, offset \in Offsets,
                       length \in 1 .. MaxBytes :
                      \E source \in [0 .. length - 1 -> Bytes] :
                        plane_data_shadow_write(task, cap, binding, object_id, offset,
                                                length, source)
                 \/ \E binding \in Bindings, commit \in BOOLEAN :
                      plane_data_finalize(task, cap, binding, commit)
        BY <3>1, <4>4 DEF plane_data_shadow_write, plane_data_finalize, registries
      <4>5. QED
        BY <2>2, <4>1, <4>2, <4>3, <4>4 DEF Gated
    <3>4. QED
      BY <3>1, <3>2, <3>3 DEF PlaneNext, pvars, registries, Ungated, Grants
  <2>4. Approvals
    BY <2>2, ApprovalsOnlyByApprove
  <2>5. QED
    BY <2>3, <2>4 DEF Approvals
<1>4. QED
  BY <1>1, <1>2, <1>3, PlaneImplementsAuthority, TypeCorrect, PTL
     DEF PlaneSpec, ProgramRevocationCloses, ImplementsAuthority

(***************************************************************************)
(* The registries and the ledger.                                          *)
(*                                                                         *)
(* PlaneSound is not inductive.  Nothing in it stops a graph from being    *)
(* bound to a program that is not installed, and nothing stops a job that  *)
(* is not observed yet, or not even admitted, from having a binding that   *)
(* the ledger already holds with another completion.                       *)
(***************************************************************************)
GraphsKnown == \A entry \in plane_graphs : entry.program \in plane_programs

\* Every recorded execution is in the past: its number was issued, and its
\* completion was observed, so no job of inflight has its binding.
LedgerPast ==
  \A i \in DOMAIN plane_experience :
    /\ next_sequence # 0 =>
         plane_experience[i].binding.execution_sequence < next_sequence
    /\ \A s \in Slots : inflight[s].active =>
         ~binding_matches(plane_experience[i].binding, inflight[s].submission)

PlaneInv ==
  /\ IInv
  /\ CapsInv
  /\ IsFiniteSet(plane_programs)
  /\ PlaneSound
  /\ GraphsKnown
  /\ LedgerPast

\* A step that admits no job: a job stays in its slot with its submission, and
\* a shadow keeps its completion unless the job was in inflight until now.
JobsOnlyMove ==
  /\ UNCHANGED next_sequence
  /\ \A s \in Slots : inflight'[s].active =>
       inflight[s].active /\ inflight'[s].submission = inflight[s].submission
  /\ \A s \in Slots : shadows'[s].active =>
       \/ /\ shadows[s].active
          /\ shadows'[s].submission = shadows[s].submission
          /\ shadows'[s].completion = shadows[s].completion
       \/ inflight[s].active /\ shadows'[s].submission = inflight[s].submission

LEMMA TakeMoves ==
  ASSUME TypeOK, job_submission_take PROVE JobsOnlyMove
<1>1. ASSUME NEW s \in Slots
      PROVE  inflight'[s].active = inflight[s].active /\
             inflight'[s].submission = inflight[s].submission
  <2>1. inflight[s] \in InflightSlot
    BY DEF TypeOK
  <2>2. inflight'[s] = inflight[s] \/ inflight'[s] = [inflight[s] EXCEPT !.dispatched = TRUE]
    BY DEF job_submission_take
  <2>3. QED
    BY <2>1, <2>2 DEF InflightSlot
<1>2. QED
  BY <1>1 DEF job_submission_take, JobsOnlyMove

LEMMA PostMoves ==
  ASSUME TypeOK, NEW completion, job_completion_post(completion) PROVE JobsOnlyMove
<1>1. PICK slot \in Slots : inflight' = [inflight EXCEPT ![slot].completion_posted = TRUE]
  BY DEF job_completion_post
<1>2. ASSUME NEW s \in Slots
      PROVE  inflight'[s].active = inflight[s].active /\
             inflight'[s].submission = inflight[s].submission
  BY <1>1 DEF TypeOK, InflightSlot
<1>3. QED
  BY <1>2 DEF job_completion_post, JobsOnlyMove

LEMMA ObserveMoves ==
  ASSUME TypeOK, NEW i \in DOMAIN completions, completion_take_offset(i) PROVE JobsOnlyMove
<1>1. ASSUME NEW s \in Slots, IsFirst(s, PostedSlots(completions[i]))
      PROVE  /\ inflight[s].active /\ ~inflight'[s].active
             /\ shadows'[s].submission = inflight[s].submission
  <2>1. inflight[s].active
    BY <1>1 DEF IsFirst, PostedSlots
  <2>2. inflight'[s] = ZeroInflight /\ shadows'[s] = ShadowOf(s, completions[i])
    BY <1>1 DEF completion_take_offset, completion_move_to_shadow
  <2>3. QED
    BY <2>1, <2>2 DEF ZeroInflight, ShadowOf, ZeroShadow
<1>2. ASSUME NEW s \in Slots, ~IsFirst(s, PostedSlots(completions[i]))
      PROVE  inflight'[s] = inflight[s] /\ shadows'[s] = shadows[s]
  BY <1>2 DEF completion_take_offset, completion_move_to_shadow
<1>3. UNCHANGED next_sequence
  BY DEF completion_take_offset
<1>4. QED
  BY <1>1, <1>2, <1>3 DEF JobsOnlyMove

LEMMA CancelMoves ==
  ASSUME TypeOK, NEW binding, job_cancel(binding) PROVE JobsOnlyMove
<1>1. CASE CancelQueued(binding)
  <2>1. PICK slot \in Slots : inflight' = [inflight EXCEPT ![slot] = ZeroInflight]
    BY <1>1 DEF CancelQueued
  <2>2. ASSUME NEW s \in Slots, inflight'[s].active PROVE inflight'[s] = inflight[s]
    BY <2>1, <2>2 DEF TypeOK, ZeroInflight
  <2>3. QED
    BY <1>1, <2>2 DEF CancelQueued, JobsOnlyMove
<1>2. CASE CancelDispatched(binding)
  <2>1. PICK slot \in Slots :
          inflight' = [inflight EXCEPT ![slot].cancel_requested = TRUE,
                                       ![slot].snapshot = ZeroImage]
    BY <1>2 DEF CancelDispatched
  <2>2. ASSUME NEW s \in Slots
        PROVE  inflight'[s].active = inflight[s].active /\
               inflight'[s].submission = inflight[s].submission
    BY <2>1 DEF TypeOK, InflightSlot
  <2>3. QED
    BY <1>2, <2>2 DEF CancelDispatched, JobsOnlyMove
<1>3. CASE CancelShadow(binding)
  <2>1. PICK slot \in Slots :
          /\ shadows[slot].active
          /\ shadows' = [shadows EXCEPT ![slot] = CancelledShadow(shadows[slot])]
    BY <1>3 DEF CancelShadow, IsFirst, find_shadow
  <2>2. shadows[slot] \in ShadowSlot
    BY DEF TypeOK
  <2>3. /\ CancelledShadow(shadows[slot]).submission = shadows[slot].submission
        /\ CancelledShadow(shadows[slot]).completion = shadows[slot].completion
    BY <2>2 DEF CancelledShadow, ShadowSlot
  <2>4. ASSUME NEW s \in Slots, shadows'[s].active
        PROVE  /\ shadows[s].active
               /\ shadows'[s].submission = shadows[s].submission
               /\ shadows'[s].completion = shadows[s].completion
    BY <2>1, <2>3, <2>4 DEF TypeOK
  <2>5. QED
    BY <1>3, <2>4 DEF CancelShadow, JobsOnlyMove
<1>4. QED
  BY <1>1, <1>2, <1>3 DEF job_cancel

\* Registering an object, staging, approving and finalizing.
LEMMA RegisterMoves ==
  ASSUME NEW manifest, NEW initial, job_object_register_bytes_core(manifest, initial)
  PROVE  JobsOnlyMove
BY DEF job_object_register_bytes_core, JobsOnlyMove

LEMMA StageMoves ==
  ASSUME TypeOK, NEW binding, NEW object_id \in ObjectIds, NEW offset, NEW length, NEW source,
         job_shadow_write_core(binding, object_id, offset, length, source)
  PROVE  JobsOnlyMove
<1>1. PICK slot \in Slots :
        /\ shadows[slot].active
        /\ shadows' = [shadows EXCEPT
             ![slot].bytes[object_id] =
                [i \in Offsets |-> IF i \in offset .. offset + length - 1
                                     THEN source[i - offset] ELSE @[i]],
             ![slot].staged[object_id] = @ \cup (offset .. offset + length - 1)]
  BY DEF job_shadow_write_core, IsFirst, find_shadow
<1>2. ASSUME NEW s \in Slots, shadows'[s].active
      PROVE  /\ shadows[s].active
             /\ shadows'[s].submission = shadows[s].submission
             /\ shadows'[s].completion = shadows[s].completion
  BY <1>1, <1>2 DEF TypeOK, ShadowSlot
<1>3. QED
  BY <1>2 DEF job_shadow_write_core, JobsOnlyMove

LEMMA ApproveMoves ==
  ASSUME TypeOK, NEW binding, job_shadow_approve_core(binding) PROVE JobsOnlyMove
<1>1. PICK slot \in Slots : shadows' = [shadows EXCEPT ![slot].approved = TRUE]
  BY DEF job_shadow_approve_core
<1>2. ASSUME NEW s \in Slots
      PROVE  /\ shadows'[s].active = shadows[s].active
             /\ shadows'[s].submission = shadows[s].submission
             /\ shadows'[s].completion = shadows[s].completion
  BY <1>1 DEF TypeOK, ShadowSlot
<1>3. QED
  BY <1>2 DEF job_shadow_approve_core, JobsOnlyMove

LEMMA FinalizeMoves ==
  ASSUME TypeOK, NEW binding, NEW commit, job_shadow_finalize_core(binding, commit)
  PROVE  JobsOnlyMove
<1>1. PICK slot \in Slots : shadows' = [shadows EXCEPT ![slot] = ZeroShadow]
  BY DEF job_shadow_finalize_core
<1>2. ASSUME NEW s \in Slots, shadows'[s].active PROVE shadows'[s] = shadows[s]
  BY <1>1, <1>2 DEF TypeOK, ZeroShadow
<1>3. QED
  BY <1>2 DEF job_shadow_finalize_core, JobsOnlyMove

\* Such a step keeps every promise about jobs and ledger, since the ledger
\* stays and a job that becomes a shadow is not in it.
LEMMA MoveKeepsPlane ==
  ASSUME PlaneInv, IInv', CapsInv', JobsOnlyMove, UNCHANGED registries
  PROVE  PlaneInv'
<1> USE DEF PlaneInv
<1>1. UNCHANGED <<plane_programs, plane_graphs, plane_experience>>
  BY DEF registries
<1>2. SlotsExclusive /\ SlotsExclusive'
  BY DEF IInv, AuthorityInv
<1>3. ASSUME NEW s \in Slots, Live(s)'
      PROVE  Live(s) /\ SubmissionAt(s)' = SubmissionAt(s)
  BY <1>2, <1>3 DEF JobsOnlyMove, Live, SubmissionAt, SlotsExclusive
<1>4. LiveJobsInstalled'
  BY <1>1, <1>3 DEF PlaneSound, LiveJobsInstalled, plane_job_pair_installed
<1>5. LedgerSound'
  <2>1. ASSUME NEW i \in DOMAIN plane_experience, NEW s \in Slots,
               shadows'[s].active,
               binding_matches(plane_experience[i].binding, shadows'[s].submission)
        PROVE  shadows'[s].completion = plane_experience[i]
    <3>1. CASE /\ shadows[s].active
               /\ shadows'[s].submission = shadows[s].submission
               /\ shadows'[s].completion = shadows[s].completion
      BY <2>1, <3>1 DEF PlaneSound, LedgerSound
    <3>2. CASE inflight[s].active /\ shadows'[s].submission = inflight[s].submission
      BY <2>1, <3>2 DEF LedgerPast
    <3>3. QED
      BY <2>1, <3>1, <3>2 DEF JobsOnlyMove
  <2>2. QED
    BY <1>1, <2>1 DEF PlaneSound, LedgerSound
<1>6. LedgerPast'
  BY <1>1 DEF LedgerPast, JobsOnlyMove
<1>7. PlaneTypeOK'
  BY <1>1 DEF PlaneSound, PlaneTypeOK, CapsInv
<1>8. QED
  BY <1>1, <1>4, <1>5, <1>6, <1>7 DEF PlaneSound, GraphsKnown

\* Admission.  The new job's pair is installed, and its number is one that no
\* recorded execution has.
LEMMA SubmitKeepsPlane ==
  ASSUME PlaneInv, IInv', CapsInv', NEW job \in Jobs,
         plane_job_pair_installed(job), job_submit_bound_core(job), UNCHANGED registries
  PROVE  PlaneInv'
<1> USE DEF PlaneInv
<1>1. UNCHANGED <<plane_programs, plane_graphs, plane_experience>>
  BY DEF registries
<1>2. /\ next_sequence \in 0 .. U64Max /\ next_sequence # 0
      /\ next_sequence' = SequenceAfter(next_sequence)
      /\ UNCHANGED shadows
  BY DEF job_submit_bound_core, CanSubmit, IInv, TypeOK
<1>3. NewSubmission(job).job = job
      /\ NewSubmission(job).execution_sequence = next_sequence
  BY DEF NewSubmission
<1>4. PICK slot \in Slots :
        /\ ~inflight[slot].active /\ ~shadows[slot].active
        /\ inflight'[slot].active
        /\ inflight'[slot].submission = NewSubmission(job)
        /\ \A s \in Slots : s # slot => inflight'[s] = inflight[s]
  BY DEF job_submit_bound_core, IsFirst, FreeSlots, IInv, TypeOK
<1>5. LiveJobsInstalled'
  <2>1. ASSUME NEW s \in Slots, Live(s)'
        PROVE  /\ SubmissionAt(s)'.job.program_identity \in plane_programs
               /\ plane_job_pair_installed(SubmissionAt(s)'.job)
    <3>1. CASE s = slot
      <4>1. SubmissionAt(s)'.job = job
        BY <1>3, <1>4, <3>1 DEF SubmissionAt
      <4>2. QED
        BY <4>1 DEF plane_job_pair_installed, GraphsKnown
    <3>2. CASE s # slot
      BY <1>2, <1>4, <2>1, <3>2 DEF PlaneSound, LiveJobsInstalled, Live, SubmissionAt
    <3>3. QED
      BY <3>1, <3>2
  <2>2. QED
    BY <1>1, <2>1 DEF LiveJobsInstalled, plane_job_pair_installed
<1>6. LedgerSound'
  BY <1>1, <1>2 DEF PlaneSound, LedgerSound
<1>7. LedgerPast'
  <2>1. ASSUME NEW i \in DOMAIN plane_experience
        PROVE  /\ plane_experience[i].binding.execution_sequence \in Nat
               /\ plane_experience[i].binding.execution_sequence < next_sequence
    <3>1. plane_experience[i] \in Completion
      BY DEF PlaneSound, PlaneTypeOK
    <3>2. plane_experience[i].binding.execution_sequence \in Nat
      BY <3>1, ContractConstants DEF Completion, Binding
    <3>3. QED
      BY <1>2, <3>2 DEF LedgerPast
  <2>2. ASSUME NEW i \in DOMAIN plane_experience, next_sequence' # 0
        PROVE  plane_experience[i].binding.execution_sequence < next_sequence'
    BY <1>2, <2>1, <2>2, SequenceStep
  <2>3. ASSUME NEW i \in DOMAIN plane_experience, NEW s \in Slots, inflight'[s].active
        PROVE  ~binding_matches(plane_experience[i].binding, inflight'[s].submission)
    <3>1. CASE s = slot
      BY <1>2, <1>3, <1>4, <2>1, <3>1 DEF binding_matches
    <3>2. CASE s # slot
      BY <1>4, <2>3, <3>2 DEF LedgerPast
    <3>3. QED
      BY <3>1, <3>2
  <2>4. QED
    BY <1>1, <2>2, <2>3 DEF LedgerPast
<1>8. PlaneTypeOK'
  BY <1>1 DEF PlaneSound, PlaneTypeOK, CapsInv
<1>9. QED
  BY <1>1, <1>5, <1>6, <1>7, <1>8 DEF PlaneSound, GraphsKnown

\* A recorded completion is the one its job waits with, so a second record of
\* the same job would be the same record, which the scan refuses.
LEMMA RecordKeepsPlane ==
  ASSUME PlaneInv, IInv', CapsInv', NEW completion, completion.binding \in Binding,
         CanRecord(completion), plane_experience' = Append(plane_experience, completion),
         UNCHANGED <<vars, plane_programs, plane_graphs>>
  PROVE  PlaneInv'
<1> USE DEF PlaneInv
<1>1. PICK slot \in Slots :
        /\ shadows[slot].active
        /\ binding_matches(completion.binding, shadows[slot].submission)
        /\ shadows[slot].completion = completion
  BY DEF CanRecord, IsFirst, find_shadow
<1>2. completion \in Completion
  BY <1>1 DEF IInv, TypeOK, ShadowSlot
<1>3. /\ plane_experience \in Seq(Completion)
      /\ Len(plane_experience) <= LedgerSize /\ Len(plane_experience) # LedgerSize
  BY DEF PlaneSound, PlaneTypeOK, CanRecord
<1> DEFINE n == Len(plane_experience) + 1
<1>4. /\ plane_experience' \in Seq(Completion)
      /\ Len(plane_experience') = n /\ n <= LedgerSize /\ n \in Nat
      /\ DOMAIN plane_experience' = DOMAIN plane_experience \cup {n}
      /\ plane_experience'[n] = completion
      /\ \A i \in DOMAIN plane_experience :
           i # n /\ plane_experience'[i] = plane_experience[i]
  BY <1>2, <1>3, PlaneConstants
<1> HIDE DEF n
<1>5. UNCHANGED <<inflight, shadows, next_sequence>>
  BY DEF vars
<1>6. LiveDistinct /\ SlotsExclusive /\ LiveWellFormed
  BY DEF IInv, AuthorityInv
<1>7. ASSUME NEW s \in Slots, Live(s), binding_matches(completion.binding, SubmissionAt(s))
      PROVE  s = slot
  BY <1>1, <1>6, <1>7, LiveCases, OneSlotPerBinding
<1>8. ASSUME NEW i \in DOMAIN plane_experience
      PROVE  plane_experience[i].binding # completion.binding
  <2>1. SUFFICES ASSUME plane_experience[i].binding = completion.binding PROVE FALSE
    OBVIOUS
  <2>2. shadows[slot].completion = plane_experience[i]
    BY <1>1, <2>1 DEF PlaneSound, LedgerSound
  <2>3. QED
    BY <1>1, <2>2 DEF CanRecord
<1>9. LedgerSound'
  <2>1. ASSUME NEW i \in DOMAIN plane_experience', NEW j \in DOMAIN plane_experience', i # j
        PROVE  plane_experience'[i].binding # plane_experience'[j].binding
    BY <1>4, <1>8, <2>1 DEF PlaneSound, LedgerSound
  <2>2. ASSUME NEW i \in DOMAIN plane_experience', NEW s \in Slots, shadows[s].active,
               binding_matches(plane_experience'[i].binding, shadows[s].submission)
        PROVE  shadows[s].completion = plane_experience'[i]
    <3>1. CASE i = n
      BY <1>1, <1>4, <1>6, <1>7, <2>2, <3>1, LiveCases
    <3>2. CASE i \in DOMAIN plane_experience
      BY <1>4, <2>2, <3>2 DEF PlaneSound, LedgerSound
    <3>3. QED
      BY <1>4, <3>1, <3>2
  <2>3. QED
    BY <1>5, <2>1, <2>2 DEF LedgerSound
<1>10. LedgerPast'
  <2>1. next_sequence # 0 => completion.binding.execution_sequence < next_sequence
    <3>1. Live(slot) /\ SubmissionAt(slot) = shadows[slot].submission
      BY <1>1, <1>6, LiveCases
    <3>2. QED
      BY <1>1, <1>6, <3>1 DEF LiveWellFormed, binding_matches
  <2>2. ASSUME NEW s \in Slots, inflight[s].active
        PROVE  ~binding_matches(completion.binding, inflight[s].submission)
    BY <1>1, <1>6, <1>7, <2>2, LiveCases DEF SlotsExclusive
  <2>3. ASSUME NEW i \in DOMAIN plane_experience'
        PROVE  /\ next_sequence # 0 =>
                    plane_experience'[i].binding.execution_sequence < next_sequence
               /\ \A s \in Slots : inflight[s].active =>
                    ~binding_matches(plane_experience'[i].binding, inflight[s].submission)
    <3>1. CASE i = n
      BY <1>4, <2>1, <2>2, <3>1
    <3>2. CASE i \in DOMAIN plane_experience
      BY <1>4, <3>2 DEF LedgerPast
    <3>3. QED
      BY <1>4, <3>1, <3>2
  <2>4. QED
    BY <1>5, <2>3 DEF LedgerPast
<1>11. LiveJobsInstalled'
  BY <1>5 DEF PlaneSound, LiveJobsInstalled, Live, SubmissionAt, plane_job_pair_installed
<1>12. PlaneTypeOK'
  BY <1>4 DEF PlaneSound, PlaneTypeOK, CapsInv
<1>13. QED
  BY <1>9, <1>10, <1>11, <1>12 DEF PlaneSound, GraphsKnown

\* Installing only adds to a registry.
LEMMA InstallKeepsPlane ==
  ASSUME PlaneInv, IInv', CapsInv', UNCHANGED <<vars, plane_experience>>,
         \/ \E identity \in Programs : /\ ProgramFits(identity)
                                       /\ plane_programs' = plane_programs \cup {identity}
                                       /\ UNCHANGED plane_graphs
         \/ \E program \in Programs, graph \in Graphs :
              /\ program \in plane_programs
              /\ plane_graphs' = plane_graphs \cup {[program |-> program, graph |-> graph]}
              /\ UNCHANGED plane_programs
  PROVE  PlaneInv'
<1> USE DEF PlaneInv
<1>1. UNCHANGED <<inflight, shadows, next_sequence>>
  BY DEF vars
<1>2. plane_programs \subseteq plane_programs' /\ plane_graphs \subseteq plane_graphs'
  OBVIOUS
<1>3. LiveJobsInstalled' /\ LedgerSound' /\ LedgerPast'
  <2>1. LiveJobsInstalled'
    BY <1>1, <1>2 DEF PlaneSound, LiveJobsInstalled, Live, SubmissionAt,
                      plane_job_pair_installed
  <2>2. LedgerSound' /\ LedgerPast'
    BY <1>1 DEF PlaneSound, LedgerSound, LedgerPast
  <2>3. QED
    BY <2>1, <2>2
<1>4. GraphsKnown'
  BY DEF GraphsKnown
<1>5. IsFiniteSet(plane_programs') /\ Cardinality(plane_programs') <= ProgramRegistrySize
  <2>1. CASE UNCHANGED plane_programs
    BY <2>1 DEF PlaneSound, PlaneTypeOK
  <2>2. ASSUME NEW identity \in Programs, ProgramFits(identity),
               plane_programs' = plane_programs \cup {identity}
        PROVE  IsFiniteSet(plane_programs') /\ Cardinality(plane_programs') <= ProgramRegistrySize
    <3>1. Cardinality(plane_programs) \in Nat
      BY FS_CardinalityType
    <3>2. /\ IsFiniteSet(plane_programs')
          /\ Cardinality(plane_programs') = Cardinality(plane_programs) + 1
      BY <2>2, FS_AddElement DEF ProgramFits
    <3>3. QED
      BY <2>2, <3>1, <3>2, PlaneConstants DEF ProgramFits
  <2>3. QED
    BY <2>1, <2>2
<1>6. plane_programs' \subseteq Programs \ {0} /\ plane_graphs' \subseteq InstalledGraph
  BY DEF PlaneSound, PlaneTypeOK, ProgramFits, InstalledGraph
<1>7. PlaneTypeOK'
  BY <1>5, <1>6 DEF PlaneSound, PlaneTypeOK, CapsInv
<1>8. QED
  BY <1>3, <1>4, <1>5, <1>7 DEF PlaneSound

LEMMA EmptyPlane ==
  ASSUME IInv, CapsInv, plane_programs = {}, plane_graphs = {}, plane_experience = <<>>,
         \A s \in Slots : ~Live(s)
  PROVE  PlaneInv
<1>1. IsFiniteSet(plane_programs) /\ Cardinality(plane_programs) = 0
  BY FS_EmptySet
<1>2. plane_experience \in Seq(Completion) /\ Len(plane_experience) = 0
      /\ DOMAIN plane_experience = {}
  OBVIOUS
<1>3. PlaneTypeOK
  BY <1>1, <1>2, PlaneConstants DEF PlaneTypeOK, CapsInv
<1>4. LiveJobsInstalled /\ LedgerSound /\ LedgerPast /\ GraphsKnown
  BY <1>2 DEF LiveJobsInstalled, LedgerSound, LedgerPast, GraphsKnown
<1>5. QED
  BY <1>1, <1>3, <1>4 DEF PlaneInv, PlaneSound

LEMMA PlaneInvInit ==
  ASSUME PlaneInit PROVE PlaneInv
<1>1. IInv /\ CapsInv
  BY InvInit, BootCapsSound DEF PlaneInit
<1>2. \A s \in Slots : ~Live(s)
  BY DEF PlaneInit, Init, Live, ZeroInflight, ZeroShadow
<1>3. QED
  BY <1>1, <1>2, EmptyPlane DEF PlaneInit

LEMMA PlaneInvRestart ==
  ASSUME IInv', CapsInv', NEW epoch, PlaneRestart(epoch) PROVE PlaneInv'
<1>1. \A s \in Slots : ~Live(s)'
  BY DEF PlaneRestart, job_authority_init, Live, ZeroInflight, ZeroShadow
<1>2. /\ plane_programs' = {} /\ plane_graphs' = {} /\ plane_experience' = <<>>
  BY DEF PlaneRestart, plane_authority_init
<1>3. /\ IsFiniteSet(plane_programs') /\ Cardinality(plane_programs') = 0
      /\ plane_experience' \in Seq(Completion) /\ Len(plane_experience') = 0
      /\ DOMAIN plane_experience' = {}
  BY <1>2, FS_EmptySet
<1>4. PlaneTypeOK'
  BY <1>2, <1>3, PlaneConstants DEF PlaneTypeOK, CapsInv
<1>5. LiveJobsInstalled' /\ LedgerSound' /\ LedgerPast' /\ GraphsKnown'
  BY <1>1, <1>2, <1>3 DEF LiveJobsInstalled, LedgerSound, LedgerPast, GraphsKnown
<1>6. QED
  BY <1>3, <1>4, <1>5 DEF PlaneInv, PlaneSound

LEMMA PlaneInvGated ==
  ASSUME PlaneInv, IInv', CapsInv', NEW task \in Tasks, NEW cap \in Handles, Gated(task, cap)
  PROVE  PlaneInv'
<1>. TypeOK
  BY DEF PlaneInv, IInv
<1>1. ASSUME NEW identity \in Programs, plane_program_install(task, cap, identity)
      PROVE  PlaneInv'
  BY <1>1, InstallKeepsPlane DEF plane_program_install
<1>2. ASSUME NEW program \in Programs, NEW graph \in Graphs,
             plane_graph_install(task, cap, program, graph)
      PROVE  PlaneInv'
  BY <1>2, InstallKeepsPlane DEF plane_graph_install, GraphFits
<1>3. ASSUME NEW manifest \in Manifests,
             NEW initial \in [0 .. manifest.byte_length - 1 -> Bytes],
             plane_data_object_register_bytes(task, cap, manifest, initial)
      PROVE  PlaneInv'
  BY <1>3, RegisterMoves, MoveKeepsPlane DEF plane_data_object_register_bytes
<1>4. ASSUME NEW job \in Jobs, plane_job_submit_bound(task, cap, job)
      PROVE  PlaneInv'
  BY <1>4, SubmitKeepsPlane DEF plane_job_submit_bound
<1>5. ASSUME NEW binding \in Bindings, NEW object_id \in ObjectIds, NEW offset \in Offsets,
             NEW length \in 1 .. MaxBytes, NEW source \in [0 .. length - 1 -> Bytes],
             plane_data_shadow_write(task, cap, binding, object_id, offset, length, source)
      PROVE  PlaneInv'
  BY <1>5, StageMoves, MoveKeepsPlane DEF plane_data_shadow_write
<1>6. ASSUME NEW binding \in Bindings, plane_program_approve(task, cap, binding)
      PROVE  PlaneInv'
  BY <1>6, ApproveMoves, MoveKeepsPlane DEF plane_program_approve
<1>7. ASSUME NEW binding \in Bindings, NEW commit \in BOOLEAN,
             plane_data_finalize(task, cap, binding, commit)
      PROVE  PlaneInv'
  BY <1>7, FinalizeMoves, MoveKeepsPlane DEF plane_data_finalize
<1>8. ASSUME NEW binding \in Bindings, NEW status \in Status, NEW outputs \in OutputSets,
             plane_experience_record(task, cap,
               [binding |-> binding, status |-> status, outputs |-> outputs])
      PROVE  PlaneInv'
  <2> DEFINE completion == [binding |-> binding, status |-> status, outputs |-> outputs]
  <2>1. completion.binding \in Binding
    BY AuthorityConstants
  <2> HIDE DEF completion
  <2>2. plane_experience_record(task, cap, completion)
    BY <1>8 DEF completion
  <2>3. QED
    BY <2>1, <2>2, RecordKeepsPlane DEF plane_experience_record
<1>9. QED
  BY <1>1, <1>2, <1>3, <1>4, <1>5, <1>6, <1>7, <1>8 DEF Gated

LEMMA PlaneInvUngated ==
  ASSUME PlaneInv, IInv', CapsInv', Ungated PROVE PlaneInv'
<1>1. TypeOK /\ UNCHANGED registries
  BY DEF PlaneInv, IInv, Ungated
<1>2. JobsOnlyMove
  <2>1. CASE job_submission_take
    BY <1>1, <2>1, TakeMoves
  <2>2. ASSUME NEW completion, job_completion_post(completion) PROVE JobsOnlyMove
    BY <1>1, <2>2, PostMoves
  <2>3. CASE job_completion_take
    <3>1. 1 \in DOMAIN completions /\ completion_take_offset(1)
      BY <1>1, <2>3 DEF job_completion_take, TypeOK
    <3>2. QED
      BY <1>1, <3>1, ObserveMoves
  <2>4. ASSUME NEW binding \in Bindings, job_completion_take_bound(binding) PROVE JobsOnlyMove
    BY <1>1, <2>4, ObserveMoves DEF job_completion_take_bound
  <2>5. ASSUME NEW binding \in Bindings, job_cancel(binding) PROVE JobsOnlyMove
    BY <1>1, <2>5, CancelMoves
  <2>6. QED
    BY <2>1, <2>2, <2>3, <2>4, <2>5 DEF Ungated
<1>3. QED
  BY <1>1, <1>2, MoveKeepsPlane

LEMMA PlaneInvStep ==
  ASSUME PlaneInv, [PlaneNext]_pvars PROVE PlaneInv'
<1>1. IInv' /\ CapsInv'
  BY PlaneStep, InvStep, CapsStep DEF PlaneInv
<1>2. ASSUME NEW epoch \in Epochs, PlaneRestart(epoch) PROVE PlaneInv'
  BY <1>1, <1>2, PlaneInvRestart
<1>3. ASSUME NEW task \in Tasks, NEW cap \in Handles, Gated(task, cap) PROVE PlaneInv'
  BY <1>1, <1>3, PlaneInvGated
<1>4. CASE Ungated
  BY <1>1, <1>4, PlaneInvUngated
<1>5. CASE Grants \/ UNCHANGED pvars
  <2>1. UNCHANGED <<vars, registries>>
    BY <1>5 DEF Grants, pvars
  <2>2. JobsOnlyMove
    BY <2>1 DEF vars, JobsOnlyMove
  <2>3. QED
    BY <1>1, <2>1, <2>2, MoveKeepsPlane
<1>6. QED
  BY <1>2, <1>3, <1>4, <1>5 DEF PlaneNext

\* The registries and the ledger agree with the jobs, for any number of slots,
\* programs and capabilities: no live job outlives its program or its graph
\* (plane_job_submit_bound), and one execution is recorded at most once, with
\* the completion the authority itself observed (plane_experience_record).
THEOREM PlanesConsistent == PlaneSpec => []PlaneSound
<1>1. PlaneInit => PlaneInv
  BY PlaneInvInit
<1>2. PlaneInv /\ [PlaneNext]_pvars => PlaneInv'
  BY PlaneInvStep
<1>3. PlaneInv => PlaneSound
  BY DEF PlaneInv
<1>4. QED
  BY <1>1, <1>2, <1>3, PTL DEF PlaneSpec
============================================================================
