------------------------------ MODULE MCPlane ------------------------------
(***************************************************************************)
(* The firewall on one job slot: the roots of kmain and one slot for a     *)
(* delegation, two programs and two graphs, a job for an installed pair    *)
(* and one whose program and graph belong to different pairs.              *)
(***************************************************************************)
EXTENDS PlaneAuthority

PlaneMix(job_id, epoch) == (job_id + epoch) % 2

WriteRef(id, version) ==
  [object_id |-> id, generation |-> 1, expected_version |-> version,
   offset |-> 0, length |-> 1, access |-> "WRITE"]

PlaneJob(id, program, graph) ==
  [job_id |-> id, refs |-> {WriteRef(1, 1)},
   program_identity |-> program, graph_variant_identity |-> graph]

PlaneManifests ==
  {[object_id |-> 1, generation |-> 1, version |-> 1, byte_length |-> 1,
    permitted_access |-> {"READ", "WRITE"}, backing |-> "VOLATILE"]}
PlaneJobs == {PlaneJob(1, 1, 1), PlaneJob(1, 2, 1)}
PlaneOutputSets == {{}, {[object_id |-> 1, generation |-> 1, version |-> 2]}}
PlaneBindings ==
  {[job_id |-> 1, execution_epoch |-> 1, execution_sequence |-> sequence,
    completion_cookie |-> make_cookie(1, 1, sequence)] : sequence \in 1 .. U64Max}

PlaneRightSets == {{"WRITE"}, {"CONTROL"}}
============================================================================
