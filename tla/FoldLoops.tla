----------------------------- MODULE FoldLoops -----------------------------
(***************************************************************************)
(* The boot loops that execute a batch of fold jobs through the job        *)
(* authority: fold_session.c (independent jobs), fold_chain.c (a job may   *)
(* read the result of one earlier job, in two banks used in turn) and      *)
(* fold_dag.c (a job may read up to two earlier results, in slots that the *)
(* decoder allocates before the first dispatch).                           *)
(*                                                                         *)
(* The three loops have one body: admit the job against the versions the   *)
(* loop remembers, dispatch it, fetch its inputs from the snapshot, send   *)
(* it to the host, check the answer against the guest's own evaluation,    *)
(* then publish or roll back and compare the objects with what the loop    *)
(* expects of them.  They differ in where a result is put.                 *)
(*                                                                         *)
(* One object is one chunk of a result and holds one value.  Value(i, c)   *)
(* stands for chunk c of what job i computes from the right inputs, and    *)
(* Wrong for anything else.  The init task holds the four roots during     *)
(* the whole loop, so the gates of PlaneAuthority are open.                *)
(***************************************************************************)
EXTENDS JobAuthority, FiniteSetsExt

CONSTANTS
  Requests,    \* the envelopes the host may have placed in memory
  MaxJobs,     \* the most jobs of an envelope
  LedgerSize   \* SONATINE_EXPERIENCE_LEDGER_SIZE

ASSUME LoopConstants ==
  /\ MaxJobs \in Nat \ {0}
  /\ LedgerSize \in Nat
  /\ ObjectIds = 1 .. ObjectTableSize

INSTANCE FoldPlan

\* Anything that is not a Value.
Wrong == 1

\* What the guest makes of the host's answer: it is what it expects; it has the
\* right frame and raveil_fold_response_decode refuses it, being corrupt or bound
\* to another job, or its values differ; or the frame is broken, by a bad
\* character or by none before the deadline.
Answers == {"right", "wrong", "broken"}

VARIABLES
  request,            \* the admitted envelope
  phase,              \* the call the loop makes next
  index,              \* the job the loop is at
  versions,           \* the version the loop expects of each object
  previous,           \* the content the loop expects of each object
  destinations,       \* where the result of each job goes
  active,             \* the bank of the last result (chain)
  producer_ok,        \* the jobs whose result was published
  producer_versions,  \* the versions their objects had then
  issued,             \* the submission being executed
  expected,           \* chunk by chunk, what the guest computed for it
  execution_ok, framed, authority_ok,
  plane_experience,   \* the ledger
  halted              \* 0, or why the loop stopped early

loop == <<request, index, versions, previous, destinations, active, producer_ok,
          producer_versions, issued, expected, execution_ok, framed, authority_ok,
          plane_experience, halted>>
lvars == <<vars, phase, loop>>

----------------------------------------------------------------------------
(* Where the objects are.                                                  *)

\* The objects the loop registers: one pair, two banks, or the whole table.
Registered(kind) ==
  CASE kind = "session" -> 1 .. 2
    [] kind = "chain" -> 1 .. 4
    [] kind = "dag" -> ObjectIds

Bank(b) == {2 * b + 1, 2 * b + 2}
BankOf(objs) == IF 1 \in objs THEN 0 ELSE 1

\* The object that holds the given chunk of job i's result.
ObjectOf(i, chunk) ==
  CHOOSE o \in destinations[i] : Cardinality({p \in destinations[i] : p < o}) = chunk

available(i) ==
  /\ producer_ok[i]
  /\ \A o \in destinations[i] : producer_versions[i][o] = versions[o]

\* Where the result of the job at hand will go.
Destination ==
  CASE request.kind = "session" -> Registered("session")
    [] request.kind = "chain" ->
         LET from == IF request.reads[index] = {} THEN active
                     ELSE BankOf(destinations[CHOOSE p \in Producers(request, index) : TRUE])
         IN Bank(1 - from)
    [] request.kind = "dag" -> destinations[index]

ReadObjects == {ObjectOf(pair[1], pair[2]) : pair \in request.reads[index]}

Ref(object_id, access) ==
  [object_id |-> object_id, generation |-> 1, expected_version |-> versions[object_id],
   offset |-> 0, length |-> 1, access |-> access]

\* The descriptor of the job at hand; its identity is its place.
Job(objs) ==
  [job_id |-> index + 1,
   refs |-> {Ref(o, "READ") : o \in ReadObjects}
              \cup {Ref(o, "WRITE") : o \in objs \ ReadObjects},
   program_identity |-> 1, graph_variant_identity |-> 1]

binding == binding_from_submission(issued)
JobSlot == CHOOSE s \in Slots : s \in find_inflight(binding)
ShadowHere == CHOOSE s \in Slots : s \in find_shadow(binding)

----------------------------------------------------------------------------
(* Initialization.                                                         *)

\* The envelope decodes, job_authority_init and plane_authority_init have run.
LoopInit ==
  /\ Init
  /\ request \in {req \in Requests : Decodes(req)}
  /\ phase = "register"
  /\ index = 0
  /\ versions = [o \in ObjectIds |-> 1]
  /\ previous = [o \in ObjectIds |-> 0]
  /\ destinations = IF request.kind = "dag" THEN Allocation(request)
                    ELSE [i \in Indices |-> {}]
  /\ active = 1
  /\ producer_ok = [i \in Indices |-> FALSE]
  /\ producer_versions = [i \in Indices |-> [o \in ObjectIds |-> 0]]
  /\ issued = ZeroSubmission
  /\ expected = [c \in Chunks |-> 0]
  /\ execution_ok = FALSE /\ framed = FALSE /\ authority_ok = TRUE
  /\ plane_experience = <<>>
  /\ halted = 0

SlotManifest(o) ==
  [object_id |-> o, generation |-> 1, version |-> 1, byte_length |-> 1,
   permitted_access |-> {"READ", "WRITE"}, backing |-> "VOLATILE"]

\* The loop's own view of the authority: nothing left anywhere, and every
\* object at the version and with the content the loop remembers.
read_state ==
  /\ submissions = <<>> /\ completions = <<>>
  /\ \A s \in Slots : ~inflight[s].active /\ ~shadows[s].active
  /\ \A o \in Registered(request.kind) :
       /\ objects[o].active
       /\ objects[o].version = versions[o]
       /\ objects[o].visible[0] = previous[o]

\* Register the objects in order, then look at them.
RegisterObjects ==
  /\ phase = "register"
  /\ LET missing == {o \in Registered(request.kind) : ~objects[o].active} IN
       IF missing = {}
         THEN /\ phase' = IF read_state /\ plane_experience = <<>> THEN "next" ELSE "rejected"
              /\ UNCHANGED vars
         ELSE IF CanRegister(SlotManifest(Min(missing)))
           THEN /\ job_object_register_bytes_core(SlotManifest(Min(missing)), ZeroContent)
                /\ UNCHANGED phase
           ELSE phase' = "rejected" /\ UNCHANGED vars
  /\ UNCHANGED loop

----------------------------------------------------------------------------
(* The body of the loop.                                                   *)

Stop(reason) ==
  /\ halted' = reason
  /\ phase' = "end"
  /\ UNCHANGED vars

\* A job one of whose producers is not available ends the loop.
Block ==
  /\ phase = "next"
  /\ index < request.count
  /\ \E p \in Producers(request, index) : ~available(p)
  /\ Stop(3)
  /\ UNCHANGED <<request, index, versions, previous, destinations, active, producer_ok,
                 producer_versions, issued, expected, execution_ok, framed, authority_ok,
                 plane_experience>>

Admit ==
  /\ phase = "next"
  /\ index < request.count
  /\ \A p \in Producers(request, index) : available(p)
  /\ LET job == Job(Destination) IN
       IF CanSubmit(job) /\ ReadObjects \cap Destination = {}
         THEN /\ job_submit_bound_core(job)
              /\ issued' = NewSubmission(job)
              /\ phase' = "take"
              /\ UNCHANGED halted
         ELSE Stop(2) /\ UNCHANGED issued
  /\ destinations' = [destinations EXCEPT ![index] = Destination]
  /\ authority_ok' = TRUE
  /\ UNCHANGED <<request, index, versions, previous, active, producer_ok, producer_versions,
                 expected, execution_ok, framed, plane_experience>>

\* The inputs come from the snapshot of the dispatched job, which
\* job_submission_read serves for the objects it reads, and the guest evaluates
\* the job on them before it asks the host.
Fetched(pair) == inflight'[JobSlot].snapshot[ObjectOf(pair[1], pair[2])][0]

InputOk ==
  /\ inflight'[JobSlot].dispatched /\ ~inflight'[JobSlot].cancel_requested
  /\ ReadObjects \subseteq {ref.object_id : ref \in ReadRefs(issued.job)}

Dispatch ==
  /\ phase = "take"
  /\ IF submissions = <<>> THEN Stop(2) /\ UNCHANGED <<expected, execution_ok, framed>>
     ELSE /\ job_submission_take
          /\ expected' = [c \in Chunks |->
               IF c >= request.chunks[index] THEN 0
               ELSE IF \A pair \in request.reads[index] :
                         Fetched(pair) = Value(pair[1], pair[2])
                 THEN Value(index, c) ELSE Wrong]
          /\ IF InputOk THEN phase' = "exchange" /\ UNCHANGED <<execution_ok, framed>>
             ELSE phase' = "post" /\ execution_ok' = FALSE /\ framed' = FALSE
          /\ UNCHANGED halted
  /\ UNCHANGED <<request, index, versions, previous, destinations, active, producer_ok,
                 producer_versions, issued, authority_ok, plane_experience>>

\* One exchange with the host, and the comparison of its answer with expected.
fold_bridge_exchange_checked(answer) ==
  /\ phase = "exchange"
  /\ execution_ok' = (answer = "right")
  /\ framed' = (answer # "broken")
  /\ phase' = "post"
  /\ UNCHANGED <<vars, request, index, versions, previous, destinations, active, producer_ok,
                 producer_versions, issued, expected, authority_ok, plane_experience, halted>>

Record ==
  [binding |-> binding,
   status |-> IF execution_ok THEN "EXECUTED" ELSE "FAULT",
   outputs |-> IF execution_ok
                 THEN {[object_id |-> o, generation |-> 1, version |-> versions[o] + 1] :
                         o \in destinations[index]}
                 ELSE {}]

\* A call the authority refuses sends the loop to its rollback.
Attempt(can, call, next) ==
  IF can THEN call /\ phase' = next /\ UNCHANGED authority_ok
  ELSE phase' = "rollback" /\ authority_ok' = FALSE /\ UNCHANGED vars

KeepsLoop ==
  UNCHANGED <<request, index, versions, previous, destinations, active, producer_ok,
              producer_versions, issued, expected, execution_ok, framed, halted>>

PostCompletion ==
  /\ phase = "post"
  /\ Attempt(CanPost(Record), job_completion_post(Record), "observe")
  /\ KeepsLoop /\ UNCHANGED plane_experience

ObserveCompletion ==
  /\ phase = "observe"
  /\ Attempt(completions # <<>>, job_completion_take, "record")
  /\ KeepsLoop /\ UNCHANGED plane_experience

RecordExperience ==
  /\ phase = "record"
  /\ LET can == /\ Len(plane_experience) # LedgerSize
                /\ find_shadow(binding) # {} /\ shadows[ShadowHere].completion = Record
                /\ \A i \in DOMAIN plane_experience : plane_experience[i] # Record IN
       /\ Attempt(can, UNCHANGED vars, IF execution_ok THEN "stage" ELSE "rollback")
       /\ plane_experience' = IF can THEN Append(plane_experience, Record)
                              ELSE plane_experience
  /\ KeepsLoop

\* Chunk by chunk, what the host sent.
StageResult ==
  /\ phase = "stage"
  /\ LET missing == {o \in destinations[index] : 0 \notin shadows[ShadowHere].staged[o]}
         o == Min(missing)
         chunk == Cardinality({p \in destinations[index] : p < o}) IN
       Attempt(CanStage(shadows[ShadowHere], o, 0, 1),
               job_shadow_write_core(binding, o, 0, 1, [i \in {0} |-> expected[chunk]]),
               IF Cardinality(missing) = 1 THEN "approve" ELSE "stage")
  /\ KeepsLoop /\ UNCHANGED plane_experience

Approve ==
  /\ phase = "approve"
  /\ Attempt(CanApprove(shadows[ShadowHere]), job_shadow_approve_core(binding), "commit")
  /\ KeepsLoop /\ UNCHANGED plane_experience

\* Publication, and what the loop then remembers of it.
Commit ==
  /\ phase = "commit"
  /\ LET committed == Commits(shadows[ShadowHere], TRUE)
         here == destinations[index] IN
       /\ job_shadow_finalize_core(binding, TRUE)
       /\ phase' = IF committed THEN "inspect" ELSE "rollback"
       /\ authority_ok' = committed
       /\ IF committed
            THEN /\ versions' = [o \in ObjectIds |->
                                   versions[o] + IF o \in here THEN 1 ELSE 0]
                 /\ previous' = [o \in ObjectIds |->
                      IF o \in here
                        THEN expected[Cardinality({p \in here : p < o})] ELSE previous[o]]
                 /\ active' = IF request.kind = "chain" THEN BankOf(here) ELSE active
                 /\ producer_ok' = [producer_ok EXCEPT ![index] = TRUE]
                 /\ producer_versions' = [producer_versions EXCEPT ![index] = versions']
            ELSE UNCHANGED <<versions, previous, active, producer_ok, producer_versions>>
  /\ UNCHANGED <<request, index, destinations, issued, expected, execution_ok, framed,
                 plane_experience, halted>>

Rollback ==
  /\ phase = "rollback"
  /\ IF find_shadow(binding) # {}
       THEN job_shadow_finalize_core(binding, FALSE) /\ UNCHANGED authority_ok
       ELSE authority_ok' = FALSE /\ UNCHANGED vars
  /\ phase' = "inspect"
  /\ KeepsLoop /\ UNCHANGED plane_experience

\* Unexpected state ends the loop, and so does a broken frame: the rest of the
\* answer may still be on its way.
HaltReason(stable) == IF ~stable THEN 2 ELSE IF ~framed THEN 1 ELSE 0

Inspect ==
  /\ phase = "inspect"
  /\ LET stable == read_state /\ Len(plane_experience) = index + 1 /\ authority_ok IN
       /\ halted' = HaltReason(stable)
       /\ phase' = IF halted' = 0 THEN "next" ELSE "end"
  /\ index' = index + 1
  /\ UNCHANGED <<vars, request, versions, previous, destinations, active, producer_ok,
                 producer_versions, issued, expected, execution_ok, framed, authority_ok,
                 plane_experience>>

Finish ==
  /\ phase = "next"
  /\ index = request.count
  /\ phase' = "end"
  /\ UNCHANGED <<vars, loop>>

LoopNext ==
  \/ RegisterObjects \/ Block \/ Admit \/ Dispatch
  \/ \E answer \in Answers : fold_bridge_exchange_checked(answer)
  \/ PostCompletion \/ ObserveCompletion \/ RecordExperience
  \/ StageResult \/ Approve \/ Commit \/ Rollback \/ Inspect \/ Finish

LoopSpec == LoopInit /\ [][LoopNext]_lvars

----------------------------------------------------------------------------
(* What the loops promise.                                                 *)

\* Every envelope the decoder admits runs without a single refusal by the
\* authority, whatever the host answers: the tables, the ledger and the
\* descriptor are large enough, the versions the loop remembers are the ones
\* the authority has, and after a fault the objects are as they were.
NeverRefused == phase # "rejected" /\ halted # 2

\* A job is evaluated on what its producers published, however often their
\* objects were used again in between, and a result stays what was computed.
ResultsExact ==
  \A i \in Indices : (phase \in {"next", "end"} /\ available(i)) =>
    \A c \in 0 .. request.chunks[i] - 1 :
      objects[ObjectOf(i, c)].visible[0] = Value(i, c)

\* The allocation of a DAG never takes a slot from a result that is still to be
\* read: a job is blocked only by a producer whose own execution failed.
BlockedOnlyByFault ==
  (halted = 3 /\ request.kind = "dag") =>
    \E p \in Producers(request, index) : ~producer_ok[p]

\* The result a DAG was asked for is still there when the loop ends.
OutputSurvives ==
  (phase = "end" /\ request.kind = "dag" /\ producer_ok[request.output]) =>
    available(request.output)

\* No job is sent to the host while the rest of an earlier answer may still be
\* on its way: fold_bridge_exchange_checked would take it for the new one.
LineClean == (phase = "exchange" /\ index > 0) => framed

\* The guest's loops over chain, session and DAG requests: no admitted request is
\* refused by the authority, an available result has the bytes of its definition,
\* a DAG job is blocked only by a fault it depends on, the output is never
\* overwritten, and every exchange starts on a clean line.
LoopsSound ==
  NeverRefused /\ ResultsExact /\ BlockedOnlyByFault /\ OutputSurvives /\ LineClean

============================================================================
