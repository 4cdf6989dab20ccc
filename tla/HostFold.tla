------------------------------ MODULE HostFold ------------------------------
(***************************************************************************)
(* The host side of the fold jobs: fold_bridge.py (one job),               *)
(* fold_session.py, fold_chain.py and fold_dag.py (batches) and            *)
(* sonatine_fold.py (the guest alone).  The host boots the guest with a    *)
(* request, follows its lines on the UART, runs every dispatched job on    *)
(* the RTL simulator, sends the answer back, and writes a receipt only if  *)
(* each line is the one its own model of the guest's objects predicts.     *)
(*                                                                         *)
(* The guest is the loop of FoldLoops, seen from the line: it may also be  *)
(* wrong once, in the ways the lines are there to show.  A bank of a chain *)
(* is one object here, since the host knows one version of it.             *)
(***************************************************************************)
EXTENDS Integers, Sequences, FiniteSets, FiniteSetsExt

CONSTANTS
  Sessions,    \* the batches a user may ask for
  Injections,  \* the answers a run may be told to corrupt
  ObjectIds,   \* the object slots of a DAG
  MaxObjects,  \* the references of a job
  MaxJobs      \* the jobs of a batch

INSTANCE FoldPlan

BROKEN_FRAME == {"invalid-char", "no-response", "truncated"}
INJECTIONS ==
  {"none", "wrong-word", "stale-id", "bad-crc", "fault", "rtl-fault", "replay-previous"}
    \cup BROKEN_FRAME

\* The ways a guest may be wrong once: it publishes an answer it should refuse,
\* rolls back a good one, publishes it elsewhere, goes on without a producer,
\* or goes on after the line lost its frame.
Faults == {"publish", "lose", "misplace", "stale", "run-on"}

VARIABLES
  sess,       \* session.json
  injections, \* plan.json: the answer to corrupt, job by job
  phase, index,
  host,       \* State: what the host's model says of the objects
  guest,      \* what the guest's objects really are
  fault,      \* how the guest was wrong, or "none"
  refs,       \* the objects that the job at hand reads and writes, in the guest
  inputs_ok,  \* the jobs that the guest gave the results of their producers
  published,  \* the jobs whose result the guest published
  rows,       \* what the host recorded of each job
  rtl,        \* the records of the simulator, job by job
  halted,     \* why the host stopped early, or 0
  upset,      \* something outside both programs went wrong
  receipt,    \* receipt.json, or NoReceipt
  verified    \* the verdict of the last later verification

vars == <<sess, injections, phase, index, host, guest, fault, refs, inputs_ok, published, rows,
          rtl, halted, upset, receipt, verified>>

None == -1
JobsOf(s) == 0 .. s.count - 1
Linked(s, i) == Producers(s, i) # {}

----------------------------------------------------------------------------
(* What the host admits.                                                   *)

\* fold_session.validate; fold_bridge and sonatine_fold take one job.
session_validate(s) ==
  /\ s.count \in 1 .. MaxJobs
  /\ \A i \in JobsOf(s) : ~Linked(s, i)

\* A job links to one earlier job and takes the whole of its result.
chain_validate(s) ==
  /\ s.count \in 1 .. MaxJobs
  /\ \A i \in JobsOf(s) :
       /\ Producers(s, i) \subseteq 0 .. i - 1
       /\ Cardinality(Producers(s, i)) <= 1
       /\ \A p \in Producers(s, i) : {pair[2] : pair \in s.reads[i]} = Chunks

links(s, i) == IF Linked(s, i) THEN CHOOSE p \in Producers(s, i) : TRUE ELSE None

\* The last reader of each result, the output being read at the end.
LastUse(s) ==
  [p \in JobsOf(s) |->
     IF p = s.output THEN s.count
     ELSE Max({p} \cup {i \in JobsOf(s) : p \in Producers(s, i)})]

\* The slots taken by each job: the first free ones, a slot being free when its
\* owner has no reader left.
Slots(s) ==
  LET taken[i \in 0 .. s.count] ==
        IF i = 0 THEN [owners |-> [o \in ObjectIds |-> None], slots |-> <<>>]
        ELSE LET job == i - 1
                 free == SelectSeq([n \in 1 .. Cardinality(ObjectIds) |-> n],
                           LAMBDA o : LET own == taken[i - 1].owners[o] IN
                                        IF own = None THEN TRUE ELSE LastUse(s)[own] < job)
                 selected == SubSeq(free, 1, Min({Len(free), s.chunks[job]}))
                 mine == {selected[n] : n \in DOMAIN selected} IN
               [owners |-> [o \in ObjectIds |->
                              IF o \in mine THEN job ELSE taken[i - 1].owners[o]],
                slots |-> Append(taken[i - 1].slots, selected)]
  IN [i \in JobsOf(s) |-> taken[s.count].slots[i + 1]]

\* fold_dag.compile_plan, as a test: every link has a range of an earlier
\* result, the references fit and the live results fit.
compile_plan(s) ==
  /\ s.count \in 1 .. MaxJobs
  /\ s.output \in JobsOf(s)
  /\ \A i \in JobsOf(s) :
       /\ \A pair \in s.reads[i] : pair[1] \in 0 .. i - 1 /\ pair[2] < s.chunks[pair[1]]
       /\ Cardinality(Producers(s, i)) <= 2
       /\ Cardinality(s.reads[i]) + s.chunks[i] <= 4
       /\ Len(Slots(s)[i]) = s.chunks[i]

\* The slots that hold what job i reads.
read_slots(s, i) == {Slots(s)[pair[1]][pair[2] + 1] : pair \in s.reads[i]}

HostAdmits(s) ==
  CASE s.kind \in {"fold", "bridge"} -> session_validate(s) /\ s.count = 1
    [] s.kind = "session" -> session_validate(s)
    [] s.kind = "chain" -> chain_validate(s)
    [] s.kind = "dag" -> compile_plan(s)

GuestAdmits(s) ==
  IF s.kind \in {"fold", "bridge"} THEN TRUE ELSE Decodes(s)

\* A replay repeats a good answer of the same size.
options(s, inj) ==
  \A i \in JobsOf(s) : inj[i] = "replay-previous" =>
    /\ i > 0
    /\ inj[i - 1] = "none"
    /\ s.chunks[i - 1] = s.chunks[i]

----------------------------------------------------------------------------
(* The host's model of the objects, and the same state of the guest.       *)

\* State.__init__, or version, previous of a session.
State ==
  [versions |-> [o \in ObjectIds |-> 1],
   banks |-> [o \in ObjectIds |-> 0],
   producers |-> [i \in Indices |-> [ok |-> FALSE, versions |-> [o \in ObjectIds |-> 0]]],
   active |-> 2]

\* The result of p is where it was put, in the versions it had then.
Kept(st, p, objs) ==
  /\ st.producers[p].ok
  /\ \A o \in objs : st.producers[p].versions[o] = st.versions[o]

\* The bank of a chain that holds the result of p.
BankOfResult(st, p) == CHOOSE o \in {1, 2} : st.producers[p].versions[o] # 0

\* State.resolve of fold_chain: a job that cannot have its input has no resolution.
chain_resolve(st, s, i) ==
  LET p == links(s, i) IN
    IF p # None /\ ~(st.producers[p].ok /\ Kept(st, p, {BankOfResult(st, p)}))
      THEN [ok |-> FALSE, reads |-> {}, writes |-> {}]
      ELSE LET from == IF p = None THEN st.active ELSE BankOfResult(st, p) IN
             [ok |-> TRUE, reads |-> IF p = None THEN {} ELSE {from}, writes |-> {3 - from}]

available(st, s, p) == Kept(st, p, {Slots(s)[p][n] : n \in DOMAIN Slots(s)[p]})

bad_source(st, s, i) == {p \in Producers(s, i) : ~available(st, s, p)}

\* State.resolve of fold_dag.
dag_resolve(st, s, i) ==
  IF bad_source(st, s, i) # {} THEN [ok |-> FALSE, reads |-> {}, writes |-> {}]
  ELSE [ok |-> TRUE, reads |-> read_slots(s, i),
        writes |-> {Slots(s)[i][n] : n \in DOMAIN Slots(s)[i]}]

resolve(st, s, i) ==
  CASE s.kind = "chain" -> chain_resolve(st, s, i)
    [] s.kind = "dag" -> dag_resolve(st, s, i)
    [] OTHER -> [ok |-> TRUE, reads |-> {}, writes |-> {1}]

\* The objects of a result in the order of its chunks; a bank holds them all.
Place(s, objs, o) == IF s.kind = "dag" THEN Cardinality({q \in objs : q < o}) ELSE 0

\* The publication of job i in objs.
Publish(st, s, i, objs, right) ==
  LET versions == [o \in ObjectIds |-> st.versions[o] + IF o \in objs THEN 1 ELSE 0] IN
    [versions |-> versions,
     banks |-> [o \in ObjectIds |->
                  IF o \in objs THEN (IF right THEN Value(i, Place(s, objs, o)) ELSE 1)
                  ELSE st.banks[o]],
     producers |-> [st.producers EXCEPT ![i] =
                      [ok |-> TRUE,
                       versions |-> [o \in ObjectIds |-> IF o \in objs THEN versions[o] ELSE 0]]],
     active |-> IF s.kind = "chain" THEN Min(objs) ELSE st.active]

\* Mutant: the bank stays the active one although its job failed.
Mutant_chain_commit(st, s, i, objs, success) ==
  IF success THEN Publish(st, s, i, objs, TRUE)
  ELSE [st EXCEPT !.active = Min(objs)]

\* State.commit of fold_chain.
chain_commit(st, s, i, objs, success) ==
  IF success THEN Publish(st, s, i, objs, TRUE) ELSE st

\* State.commit of fold_dag.
dag_commit(st, s, i, objs, success) ==
  IF success THEN Publish(st, s, i, objs, TRUE) ELSE st

\* fold_session.check_step: the version and the content that the line must show.
session_commit(st, s, i, objs, success) ==
  IF success THEN Publish(st, s, i, objs, TRUE) ELSE st

commit(st, s, i, objs, success) ==
  CASE s.kind = "chain" -> chain_commit(st, s, i, objs, success)
    [] s.kind = "dag" -> dag_commit(st, s, i, objs, success)
    [] OTHER -> session_commit(st, s, i, objs, success)

\* State.final: the designated output of a DAG.
final(st, s) ==
  LET here == Slots(s)[s.output]
      ok == available(st, s, s.output) IN
    [available |-> ok,
     output |-> IF ok THEN [n \in DOMAIN here |-> st.banks[here[n]]] ELSE <<>>]

----------------------------------------------------------------------------
(* The guest.                                                              *)

\* Where the guest has the results: its own allocation.
GuestSlots(i) == Allocation(sess)[i]

GuestAvailable(p) ==
  IF sess.kind = "dag" THEN Kept(guest, p, GuestSlots(p))
  ELSE guest.producers[p].ok /\ Kept(guest, p, {BankOfResult(guest, p)})

GuestBlocked == \E p \in Producers(sess, index) : ~GuestAvailable(p)

\* The object in which the guest looks for a chunk of an earlier result.
GuestObject(p, chunk) ==
  IF sess.kind = "dag"
    THEN CHOOSE o \in GuestSlots(p) : Cardinality({q \in GuestSlots(p) : q < o}) = chunk
    ELSE IF guest.producers[p].ok THEN BankOfResult(guest, p) ELSE 1

GuestReads == {GuestObject(pair[1], pair[2]) : pair \in sess.reads[index]}

GuestWrites ==
  CASE sess.kind = "dag" -> GuestSlots(index)
    [] sess.kind = "chain" ->
         {3 - (IF Linked(sess, index) THEN Min(GuestReads) ELSE guest.active)}
    [] OTHER -> {1}

\* Every chunk read is what its producer computed.
GuestInputsRight ==
  \A pair \in sess.reads[index] :
    guest.banks[GuestObject(pair[1], pair[2])] =
      Value(pair[1], IF sess.kind = "dag" THEN pair[2] ELSE 0)

MayBe(f) == IF fault = "none" THEN {"none", f} ELSE {"none"}

----------------------------------------------------------------------------
(* A run.                                                                  *)

NoReceipt == [processed |-> None, halted |-> 0, approved |-> <<>>, versions |-> <<>>]

Init ==
  /\ sess \in Sessions
  /\ injections \in [JobsOf(sess) -> Injections]
  /\ options(sess, injections)
  /\ sess.kind = "fold" => injections[0] = "none"
  /\ phase = "plan"
  /\ index = 0
  /\ host = State /\ guest = State
  /\ fault = "none"
  /\ refs = [reads |-> {}, writes |-> {}]
  /\ inputs_ok = {} /\ published = {}
  /\ rows = <<>>
  /\ rtl = [i \in JobsOf(sess) |-> "absent"]
  /\ halted = 0
  /\ upset = FALSE
  /\ receipt = NoReceipt
  /\ verified = "never"

Fails == phase' = "failed" /\ UNCHANGED <<index, host, rows, halted>>

\* Admission, then the boot of the guest, whose first line says that it admitted
\* the same envelope.
Start ==
  /\ phase = "plan"
  /\ phase' = IF ~HostAdmits(sess) THEN "refused"
              ELSE IF GuestAdmits(sess) THEN "line" ELSE "failed"
  /\ UNCHANGED <<sess, injections, index, host, guest, fault, refs, inputs_ok, published, rows,
                 rtl, halted, upset, receipt, verified>>

\* What the loops make of the guest's line, a block or a dispatch that shows the
\* inputs the guest gives to the job: go on, halt, or refuse it.
session_next(blocks) == IF ~blocks /\ GuestInputsRight THEN "rtl" ELSE "failed"

bridge_next(blocks) == IF ~blocks /\ GuestInputsRight THEN "rtl" ELSE "failed"

chain_next(blocks) ==
  IF chain_resolve(host, sess, index).ok
    THEN IF ~blocks /\ GuestInputsRight THEN "rtl" ELSE "failed"
    ELSE IF blocks THEN "end" ELSE "failed"

dag_next(blocks) ==
  IF dag_resolve(host, sess, index).ok
    THEN IF ~blocks /\ GuestInputsRight THEN "rtl" ELSE "failed"
    ELSE IF blocks THEN "end" ELSE "failed"

dispatch ==
  /\ phase = "line" /\ index < sess.count
  /\ sess.kind # "fold"
  /\ \E f \in MayBe("stale") :
       LET blocks == GuestBlocked /\ f = "none" IN
         /\ f = "stale" => GuestBlocked
         /\ fault' = IF f = "none" THEN fault ELSE f
         /\ inputs_ok' = IF ~blocks /\ GuestInputsRight THEN inputs_ok \cup {index}
                         ELSE inputs_ok
         /\ refs' = [reads |-> GuestReads, writes |-> GuestWrites]
         /\ phase' = CASE sess.kind = "chain" -> chain_next(blocks)
                       [] sess.kind = "dag" -> dag_next(blocks)
                       [] sess.kind = "bridge" -> bridge_next(blocks)
                       [] OTHER -> session_next(blocks)
         /\ halted' = IF phase' = "end" THEN 3 ELSE halted
  /\ UNCHANGED <<sess, injections, index, host, guest, published, rows, rtl, upset, receipt,
                 verified>>

\* f.run and f.load: the simulator computes the job on the inputs that the host
\* resolved, stops at the fault it was asked for, or does neither.
\* rtl_values takes the answer only of a run that did what was asked.
rtl_values ==
  /\ phase = "rtl"
  /\ \E did \in {"succeeded", "incomplete"} :
       LET asked == IF injections[index] = "rtl-fault" THEN "incomplete" ELSE "succeeded" IN
         /\ rtl' = [rtl EXCEPT ![index] = did]
         /\ upset' = (upset \/ did # asked)
         /\ IF did = asked THEN phase' = "send" /\ UNCHANGED <<index, host, rows, halted>>
            ELSE Fails
  /\ UNCHANGED <<sess, injections, guest, fault, refs, inputs_ok, published, receipt, verified>>

\* What injected_response, or reply for a replay, puts on the line: the answer
\* in full, in full but not to be accepted, or not a frame at all.
reply(inj) ==
  CASE inj = "none" -> "right"
    [] inj \in BROKEN_FRAME -> "broken"
    [] OTHER -> "wrong"

\* The guest takes the answer, credit by credit, and publishes or rolls back.
\* It may have given up waiting while the simulator ran: then its next byte is
\* the end of the line, which a host with more than one character to send does
\* not take for a credit.
Send ==
  /\ phase = "send"
  /\ \E late \in BOOLEAN, f \in MayBe("publish") \cup MayBe("lose") \cup MayBe("misplace") :
       LET answer == IF late THEN "broken" ELSE reply(injections[index])
           stores == \/ answer = "right" /\ f # "lose"
                     \/ answer # "right" /\ f = "publish"
           where == IF f = "misplace"
                      THEN {CHOOSE o \in ObjectIds : o \notin refs.writes}
                      ELSE refs.writes IN
         /\ f \in {"lose", "misplace"} => answer = "right"
         /\ f = "publish" => answer # "right"
         /\ fault' = IF f = "none" THEN fault ELSE f
         /\ upset' = (upset \/ late)
         /\ guest' = IF stores THEN Publish(guest, sess, index, where, answer = "right")
                     ELSE guest
         /\ published' = IF stores THEN published \cup {index} ELSE published
         /\ IF late /\ injections[index] \notin {"invalid-char", "no-response"} THEN Fails
            ELSE phase' = "check" /\ UNCHANGED <<index, host, rows, halted>>
  /\ UNCHANGED <<sess, injections, refs, inputs_ok, rtl, receipt, verified>>

\* The host's prediction: an answer is accepted if nothing was done to it.
Disposition(inj) == inj = "none"

\* The state and the result lines against the host's model.  A session has one
\* pair of objects, so its lines name none.
session_check_step(st) ==
  /\ st.versions = guest.versions
  /\ st.banks = guest.banks
  /\ Disposition(injections[index]) = (index \in published)

chain_check_step(st, resolved) ==
  /\ resolved.writes = refs.writes
  /\ resolved.reads = refs.reads
  /\ st.versions = guest.versions
  /\ st.banks = guest.banks
  /\ Disposition(injections[index]) = (index \in published)

dag_check_step(st, resolved) ==
  /\ resolved.writes = refs.writes
  /\ resolved.reads = refs.reads
  /\ st.versions = guest.versions
  /\ st.banks = guest.banks
  /\ Disposition(injections[index]) = (index \in published)

StepAgrees(st, resolved) ==
  CASE sess.kind = "chain" -> chain_check_step(st, resolved)
    [] sess.kind = "dag" -> dag_check_step(st, resolved)
    [] OTHER -> session_check_step(st)

\* The loop bodies end with check_step; a broken frame ends the loop.
check_step ==
  /\ phase = "check" /\ sess.kind # "bridge"
  /\ \E f \in MayBe("run-on") :
       LET inj == injections[index]
           resolved == resolve(host, sess, index)
           st == commit(host, sess, index, resolved.writes, Disposition(inj))
           broken == inj \in BROKEN_FRAME
           stops == broken /\ f = "none" IN
         /\ f = "run-on" => broken
         /\ fault' = IF f = "none" THEN fault ELSE f
         /\ IF StepAgrees(st, resolved) /\ (broken => stops)
              THEN /\ host' = st
                   /\ rows' = Append(rows, Disposition(inj))
                   /\ index' = index + 1
                   /\ halted' = IF broken THEN 1 ELSE 0
                   /\ phase' = IF broken \/ index + 1 = sess.count THEN "end" ELSE "line"
              ELSE Fails
  /\ UNCHANGED <<sess, injections, guest, refs, inputs_ok, published, rtl, upset, receipt, verified>>

\* validate_transcript: one job and one state line, read after the guest ended.
validate_transcript ==
  /\ phase = "check" /\ sess.kind = "bridge"
  /\ LET success == injections[0] = "none"
         st == session_commit(host, sess, 0, {1}, success) IN
       IF st.versions = guest.versions /\ success = (0 \in published)
            /\ (success => guest.banks = st.banks)
         THEN /\ host' = st
              /\ rows' = <<success>>
              /\ index' = 1
              /\ phase' = "seal"
              /\ UNCHANGED halted
         ELSE Fails
  /\ UNCHANGED <<sess, injections, guest, fault, refs, inputs_ok, published, rtl, upset, receipt,
                 verified>>

\* sonatine_fold.run: the guest computes alone; a lost, wrong or absent result
\* is refused.
sonatine_fold_run ==
  /\ phase = "line" /\ sess.kind = "fold"
  /\ \E f \in MayBe("publish") \cup MayBe("lose") :
       /\ fault' = IF f = "none" THEN fault ELSE f
       /\ guest' = IF f = "lose" THEN guest
                   ELSE Publish(guest, sess, 0, {1}, f = "none")
       /\ published' = IF f = "lose" THEN {} ELSE {0}
       /\ inputs_ok' = {0}
       /\ IF f = "none"
            THEN /\ host' = session_commit(host, sess, 0, {1}, TRUE)
                 /\ rows' = <<TRUE>> /\ index' = 1 /\ phase' = "seal" /\ UNCHANGED halted
            ELSE Fails
  /\ UNCHANGED <<sess, injections, refs, rtl, upset, receipt, verified>>

\* The end line of the guest, with the versions, and for a DAG the line of the
\* designated output before it.
session_end == host.versions = guest.versions
chain_end == host.versions = guest.versions

dag_end ==
  LET objs == GuestSlots(sess.output)
      ok == Kept(guest, sess.output, objs) IN
    /\ host.versions = guest.versions
    /\ final(host, sess) =
         [available |-> ok,
          output |-> IF ok THEN [n \in 1 .. Cardinality(objs) |->
                                   guest.banks[GuestObject(sess.output, n - 1)]]
                     ELSE <<>>]

End ==
  /\ phase = "end"
  /\ phase' = IF CASE sess.kind = "chain" -> chain_end
                   [] sess.kind = "dag" -> dag_end
                   [] OTHER -> session_end
              THEN "seal" ELSE "failed"
  /\ UNCHANGED <<sess, injections, index, host, guest, fault, refs, inputs_ok, published, rows,
                 rtl, halted, upset, receipt, verified>>

\* The receipt of the run.
Written ==
  [processed |-> Len(rows), halted |-> halted, approved |-> rows, versions |-> host.versions]

\* The files that later verification reads and the receipt does not digest: the
\* simulator's records, each with its own inventory.
RecordsSupport(r) ==
  \A i \in 0 .. r.processed - 1 :
    rtl[i] = IF injections[i] = "rtl-fault" THEN "incomplete" ELSE "succeeded"

\* The objects after n jobs of the transcript, in a fresh State.
Replayed(n) ==
  LET after[k \in 0 .. n] ==
        IF k = 0 THEN State
        ELSE commit(after[k - 1], sess, k - 1, resolve(after[k - 1], sess, k - 1).writes,
                    Disposition(injections[k - 1]))
  IN after[n]

Broken(r) == \E i \in 0 .. r.processed - 1 : injections[i] \in BROKEN_FRAME

\* The jobs of the receipt against the transcript, which has one step for each:
\* a job ran on results that were there, its row is what its step shows, and
\* none follows a lost frame.
RowsFollow(r) ==
  /\ r.processed \in 1 .. sess.count
  /\ r.processed = Len(rows) /\ Len(r.approved) = r.processed
  /\ RecordsSupport(r)
  /\ \A i \in 0 .. r.processed - 1 :
       /\ resolve(Replayed(i), sess, i).ok
       /\ r.approved[i + 1] = Disposition(injections[i])
       /\ injections[i] \in BROKEN_FRAME => i + 1 = r.processed
  /\ r.versions = Replayed(r.processed).versions

\* _verify of fold_dag and of fold_chain: a batch that ended early did so after
\* a lost frame or before a job whose producer is not available.
dag_verify(r) ==
  /\ RowsFollow(r)
  /\ IF Broken(r) THEN r.halted = 1
     ELSE IF r.processed = sess.count THEN r.halted = 0
     ELSE r.halted = 3 /\ bad_source(Replayed(r.processed), sess, r.processed) # {}

chain_verify(r) ==
  /\ RowsFollow(r)
  /\ IF Broken(r) THEN r.halted = 1
     ELSE IF r.processed = sess.count THEN r.halted = 0
     ELSE r.halted = 3 /\ ~chain_resolve(Replayed(r.processed), sess, r.processed).ok

session_verify(r) ==
  /\ RowsFollow(r)
  /\ r.halted = IF Broken(r) THEN 1 ELSE 0
  /\ Broken(r) \/ r.processed = sess.count

_verify_record(r) == RowsFollow(r) /\ r.halted = 0
sonatine_fold_verify(r) == r = Written

Verifies(r) ==
  CASE sess.kind = "dag" -> dag_verify(r)
    [] sess.kind = "chain" -> chain_verify(r)
    [] sess.kind = "session" -> session_verify(r)
    [] sess.kind = "bridge" -> _verify_record(r)
    [] sess.kind = "fold" -> sonatine_fold_verify(r)

\* The receipt is renamed into place after it verified.
Seal ==
  /\ phase = "seal"
  /\ IF Verifies(Written) THEN receipt' = Written /\ phase' = "sealed"
     ELSE phase' = "failed" /\ UNCHANGED receipt
  /\ UNCHANGED <<sess, injections, index, host, guest, fault, refs, inputs_ok, published, rows,
                 rtl, halted, upset, verified>>

\* The guest ends, hangs until the deadline, or the run is cancelled; cleanup
\* ends the guest, and the directory keeps no receipt.
Interrupt ==
  /\ phase \in {"line", "rtl", "send", "check", "end", "seal"}
  /\ phase' = "failed"
  /\ upset' = TRUE
  /\ UNCHANGED <<sess, injections, index, host, guest, fault, refs, inputs_ok, published, rows,
                 rtl, halted, receipt, verified>>

\* Somebody edits the receipt, or the record of one simulation.
Edit ==
  /\ phase = "sealed"
  /\ \/ /\ receipt' \in {[receipt EXCEPT !.processed = @ - 1],
                         [receipt EXCEPT !.halted = 3 - @],
                         [receipt EXCEPT !.approved = [n \in DOMAIN @ |-> TRUE]],
                         [receipt EXCEPT !.versions = [o \in DOMAIN @ |-> 2]]}
        /\ UNCHANGED rtl
     \/ /\ \E i \in 0 .. Len(rows) - 1 :
             rtl' = [rtl EXCEPT ![i] = IF @ = "succeeded" THEN "incomplete" ELSE "succeeded"]
        /\ UNCHANGED receipt
  /\ phase' = "edited"
  /\ UNCHANGED <<sess, injections, index, host, guest, fault, refs, inputs_ok, published, rows,
                 halted, upset, verified>>

\* verify(root).
Verify ==
  /\ phase \in {"sealed", "edited"}
  /\ verified' = IF Verifies(receipt) THEN "passed" ELSE "refused"
  /\ phase' = "verified"
  /\ UNCHANGED <<sess, injections, index, host, guest, fault, refs, inputs_ok, published, rows,
                 rtl, halted, upset, receipt>>

Next ==
  \/ Start \/ dispatch \/ rtl_values \/ Send \/ check_step \/ validate_transcript
  \/ sonatine_fold_run \/ End \/ Seal \/ Interrupt \/ Edit \/ Verify

Spec == Init /\ [][Next]_vars

----------------------------------------------------------------------------
(* What a receipt is worth.                                                *)

\* The jobs that reach the simulator when nothing goes wrong.
Reached(i) ==
  \A j \in 0 .. i : (j < i => injections[j] \notin BROKEN_FRAME)
                /\ (sess.kind = "dag" => \A p \in Producers(sess, j) : injections[p] = "none")

\* What a verified receipt says is what the guest did: it names a result for
\* exactly the jobs whose answer was left alone, each computed on what its
\* producers published, nothing of any other answer is in an object, no job
\* follows a lost frame or an absent producer, and the designated output of a
\* DAG is there if its job succeeded, however often its neighbours' slots were
\* used again.
ReceiptExact(r) ==
  LET done == 0 .. r.processed - 1 IN
    /\ \A i \in done : r.approved[i + 1] = (injections[i] = "none")
    /\ published = {i \in done : injections[i] = "none"}
    /\ done \subseteq inputs_ok
    /\ r.versions = guest.versions
    /\ \A o \in ObjectIds : guest.banks[o] = 0 \/
         \E i \in published, c \in Chunks : guest.banks[o] = Value(i, c)
    /\ sess.kind \in {"session", "chain", "dag"} =>
         r.halted = IF \E i \in done : injections[i] \in BROKEN_FRAME THEN 1
                    ELSE IF r.processed < sess.count THEN 3 ELSE 0
    /\ sess.kind \in {"bridge", "session", "dag"} =>
         done = {i \in JobsOf(sess) : Reached(i)}
    /\ (sess.kind = "dag" /\ sess.output \in published) =>
         \A c \in 0 .. sess.chunks[sess.output] - 1 :
           guest.banks[GuestObject(sess.output, c)] = Value(sess.output, c)

\* The host believes no guest that is wrong and no receipt that was edited, and
\* it never refuses a guest that is right: its admission, its allocation and
\* its versions are those of the guest for every batch, whatever the answers.
HostSound ==
  /\ phase = "sealed" => ReceiptExact(receipt)
  /\ verified = "passed" => ReceiptExact(receipt)
  /\ (phase = "failed" /\ fault = "none") => upset
  /\ phase = "refused" => ~GuestAdmits(sess)
============================================================================
