----------------------------- MODULE JobHistory -----------------------------
(***************************************************************************)
(* JobAuthority with two history variables, which observe the calls and    *)
(* never restrict them: what became of every binding the authority issued, *)
(* and what the objects a job refers to were when it was admitted.  They   *)
(* are the refinement mapping to TransactionalStore.                       *)
(***************************************************************************)
EXTENDS JobAuthority

CONSTANT NoObject   \* the abstract state of an object that is not registered

\* A client may present every binding job_submit_bound_core has handed out, and
\* the state of a registered object is never mistaken for none.
ASSUME HistoryConstants ==
  /\ \A job \in Jobs, epoch \in (Epochs \cup {1}) \ {0}, sequence \in 1 .. U64Max :
       [job_id |-> job.job_id, execution_epoch |-> epoch, execution_sequence |-> sequence,
        completion_cookie |-> make_cookie(job.job_id, epoch, sequence)] \in Bindings
  /\ NoObject \notin [version : 0 .. U64Max, visible : Content]

VARIABLES fate, basis

history == <<fate, basis>>
hvars == <<vars, history>>

\* What a client can see of an object through job_object_lookup and
\* job_object_read.
VisibleState(id) ==
  IF objects[id].active
    THEN [version |-> objects[id].version, visible |-> objects[id].visible]
    ELSE NoObject

VisibleStore == [id \in ObjectIds |-> VisibleState(id)]

NoFate == [binding \in Bindings |-> "unused"]
NoBasis == [binding \in Bindings |-> [id \in ObjectIds |-> NoObject]]

HInit == Init /\ fate = NoFate /\ basis = NoBasis

Restarts(epoch) == job_authority_init(epoch) /\ fate' = NoFate /\ basis' = NoBasis

Admits(job) ==
  LET binding == binding_from_submission(NewSubmission(job)) IN
    /\ job_submit_bound_core(job)
    /\ fate' = [fate EXCEPT ![binding] = "open"]
    /\ basis' = [basis EXCEPT ![binding] =
         [id \in ObjectIds |-> IF \E ref \in job.refs : ref.object_id = id
                                 THEN VisibleState(id) ELSE NoObject]]

\* A queued job is gone at once; a later cancellation leaves it to be finalized.
Cancels(binding) ==
  \/ /\ CancelQueued(binding)
     /\ fate' = [fate EXCEPT ![binding] = "aborted"]
     /\ UNCHANGED basis
  \/ /\ CancelDispatched(binding) \/ CancelShadow(binding)
     /\ fate' = [fate EXCEPT ![binding] = "cancelled"]
     /\ UNCHANGED basis

Finalizes(binding, commit) ==
  /\ job_shadow_finalize_core(binding, commit)
  /\ fate' = [fate EXCEPT ![binding] =
       IF \E slot \in Slots : /\ IsFirst(slot, find_shadow(binding))
                              /\ Commits(shadows[slot], commit)
         THEN "committed" ELSE "aborted"]
  /\ UNCHANGED basis

Posts(binding) ==
  \E status \in Status, outputs \in OutputSets :
    job_completion_post([binding |-> binding, status |-> status, outputs |-> outputs])

HNext ==
  \/ \E epoch \in Epochs : Restarts(epoch)
  \/ \E manifest \in Manifests : \E initial \in [0 .. manifest.byte_length - 1 -> Bytes] :
       job_object_register_bytes_core(manifest, initial) /\ UNCHANGED history
  \/ \E job \in Jobs : Admits(job)
  \/ job_submission_take /\ UNCHANGED history
  \/ \E binding \in Bindings : Posts(binding) /\ UNCHANGED history
  \/ job_completion_take /\ UNCHANGED history
  \/ \E binding \in Bindings : job_completion_take_bound(binding) /\ UNCHANGED history
  \/ \E binding \in Bindings : Cancels(binding)
  \/ \E binding \in Bindings, object_id \in ObjectIds, offset \in Offsets,
        length \in 1 .. MaxBytes :
       \E source \in [0 .. length - 1 -> Bytes] :
         /\ job_shadow_write_core(binding, object_id, offset, length, source)
         /\ UNCHANGED history
  \/ \E binding \in Bindings : job_shadow_approve_core(binding) /\ UNCHANGED history
  \/ \E binding \in Bindings, commit \in BOOLEAN : Finalizes(binding, commit)

HSpec == HInit /\ [][HNext]_hvars

\* The clients of the authority (fold_session.c, demo_shell.c, kernel.c) are
\* loops that take every submission, post a completion for it (a FAULT one
\* when execution failed), observe it and finalize it, whatever the outcome.
Fairness ==
  /\ WF_hvars(job_submission_take /\ UNCHANGED history)
  /\ WF_hvars(job_completion_take /\ UNCHANGED history)
  /\ \A binding \in Bindings :
       /\ WF_hvars(Posts(binding) /\ UNCHANGED history)
       /\ WF_hvars(\E commit \in BOOLEAN : Finalizes(binding, commit))

FairHSpec == HSpec /\ Fairness

----------------------------------------------------------------------------
Abstract == INSTANCE TransactionalStore WITH
  Ids <- ObjectIds, Txns <- Bindings, Absent <- NoObject,
  store <- VisibleStore, fate <- fate, basis <- basis

\* The job authority implements a serializable transactional store: a job
\* commits at most once, only if uncancelled, only while every object it was
\* admitted against (read or written) is bytewise what it was at admission, and
\* nothing else ever changes a registered object.
ImplementsStore == Abstract!Spec

\* No binding is lost and none is left behind: the bindings issued and not
\* ended are exactly those of the live slots, and the cancelled ones among
\* them are exactly the slots with cancel_requested.
FateExact ==
  /\ {binding \in Bindings : fate[binding] \in {"open", "cancelled"}} = LiveBindings
  /\ {binding \in Bindings : fate[binding] = "cancelled"} = CancelledBindings

\* A running job reads the state it was admitted against, whatever other jobs
\* have committed since: job_submission_read serves the snapshot and stops
\* serving it once the job is cancelled.
ReadsAdmitted ==
  \A s \in Slots : \A id \in ReadableObjects(s) :
    inflight[s].snapshot[id] =
      basis[binding_from_submission(inflight[s].submission)][id].visible

Unfinished(binding) == fate[binding] \in {"open", "cancelled"}

\* Every admitted job ends: no order of cancellations, completions and
\* finalizations of the other jobs leaves one stuck in a ring or a slot.
JobsEnd == \A binding \in Bindings : Unfinished(binding) ~> ~Unfinished(binding)

\* What a job is told and what it reads agree with the history of the calls: its
\* fate is the one the authority's tables still carry, and the bytes it reads are
\* those of its admission (job_read_input, job_cancel, job_finalize).
HistoryExact == FateExact /\ ReadsAdmitted

============================================================================
