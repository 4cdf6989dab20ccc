---------------------------- MODULE MCJobHistory ----------------------------
(***************************************************************************)
(* Small instances of JobAuthority with the history variables of           *)
(* JobHistory.  The descriptors are chosen to collide: two jobs whose      *)
(* reads and writes cross, a job that reuses the job_id of another, a job  *)
(* admissible only after a commit, and a reference to an object that a     *)
(* smaller object table has no room for.                                   *)
(***************************************************************************)
EXTENDS JobHistory

MCMix(job_id, epoch) == (job_id + epoch) % 2

Ref(id, version, offset, length, access) ==
  [object_id |-> id, generation |-> 1, expected_version |-> version,
   offset |-> offset, length |-> length, access |-> access]

Job(id, refs) == [job_id |-> id, refs |-> refs,
                  program_identity |-> 1, graph_variant_identity |-> 1]

MCManifest(id, length) ==
  [object_id |-> id, generation |-> 1, version |-> 1, byte_length |-> length,
   permitted_access |-> {"READ", "WRITE"}, backing |-> "VOLATILE"]

\* One-byte objects: the interest is in the rings and in crossing jobs.
RingManifests == {MCManifest(1, 1), MCManifest(2, 1)}
RingJobs ==
  {Job(1, {Ref(1, 1, 0, 1, "WRITE"), Ref(2, 1, 0, 1, "READ")}),
   Job(2, {Ref(2, 1, 0, 1, "WRITE"), Ref(1, 1, 0, 1, "READ")}),
   Job(1, {Ref(1, 2, 0, 1, "WRITE")})}
LivenessJobs ==
  {Job(1, {Ref(1, 1, 0, 1, "WRITE")}), Job(2, {Ref(1, 1, 0, 1, "READ")})}
RingOutputSets ==
  {{}, {[object_id |-> 2, generation |-> 1, version |-> 2]}} \cup
  {{[object_id |-> 1, generation |-> 1, version |-> version]} : version \in 2 .. U64Max}

\* Two-byte objects: partial ranges, a job with two outputs, versions up to
\* the last one, and an immutable manifest that may not be written.
ByteManifests == {MCManifest(1, 2), MCManifest(2, 1),
                  [MCManifest(2, 1) EXCEPT !.permitted_access = {"READ"}, !.backing = "IMMUTABLE"]}
ByteJobs ==
  {Job(1, {Ref(1, 1, 0, 2, "WRITE"), Ref(2, 1, 0, 1, "WRITE")}),
   Job(2, {Ref(1, 1, 1, 1, "WRITE")}),
   Job(3, {Ref(1, 2, 0, 1, "WRITE"), Ref(2, 1, 0, 1, "READ")}),
   Job(4, {Ref(1, 3, 0, 1, "WRITE")}),
   Job(4, {Ref(1, 1, 1, 2, "WRITE")})}
ByteOutputSets ==
  {{}} \cup
  {{[object_id |-> 1, generation |-> 1, version |-> version]} : version \in 2 .. 3} \cup
  {{[object_id |-> 1, generation |-> 1, version |-> 2],
    [object_id |-> 2, generation |-> 1, version |-> version]} : version \in 2 .. 3}

\* Every binding the authority can issue, and one that carries the right
\* names with the cookie of another job.
Issued(job_ids, epochs) ==
  {[job_id |-> job_id, execution_epoch |-> epoch, execution_sequence |-> sequence,
    completion_cookie |-> make_cookie(job_id, epoch, sequence)] :
      job_id \in job_ids, epoch \in epochs, sequence \in 1 .. U64Max}
MCBindings ==
  Issued({job.job_id : job \in Jobs}, Epochs) \cup
  {[job_id |-> 1, execution_epoch |-> 1, execution_sequence |-> 1,
    completion_cookie |-> make_cookie(2, 1, 1)]}
============================================================================
