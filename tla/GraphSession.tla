---------------------------- MODULE GraphSession ----------------------------
(***************************************************************************)
(* The interactive graph workflow (raveil/interactive_shell.py) over the    *)
(* graph MVP (raveil/graph_mvp.py): create a graph, compile its slate of    *)
(* variants, take the predictor's advice, measure the trusted baseline and  *)
(* then the proposed variant on a backend that may fail, lie or give no     *)
(* timing, commit or roll back, save the result, and later materialise it   *)
(* with a program (raveil/graph_directory.py). The same session holds a     *)
(* command graph.                                                           *)
(*                                                                          *)
(* An identity (SHA-256) is the value itself. Costs are in 1/10000.         *)
(***************************************************************************)
EXTENDS Integers, Sequences, SequencesExt, FiniteSets

CONSTANTS Shapes,        \* dimensions that may be asked for: <<m, n, k>>
          MaxDim,        \* 512
          Threshold,     \* minimum_predicted_improvement, in 1/10000
          Lines,         \* command lines that compile
          ResultPaths,   \* paths for saved results
          MaxGraphs

VARIABLES graph, variants_value, proposal, execution_result, command_program, command_result, run, saved, shown, graphs

svars == <<graph, variants_value, proposal, execution_result, command_program, command_result, run, saved, shown, graphs>>

None == [none |-> TRUE]
Families == {"gemm", "gemm_bias_relu"}
Program(f, s) == [family |-> f, m |-> s[1], n |-> s[2], k |-> s[3]]
Programs == {Program(f, s) : f \in Families, s \in Shapes}
Least(a, b) == IF a < b THEN a ELSE b

---------------------------------------------------------------------------
(* graph_mvp: programs, slates, advice. *)

(* GraphProgram.__post_init__ and ExecutionContract.validate. *)
Admissible(p) == \A d \in {p.m, p.n, p.k} : d \in 1..MaxDim

Variant(p, id, order, tile, mat, base) ==
    [id |-> id, order |-> order, tile |-> tile, materialization |-> mat, baseline |-> base,
     program |-> p, bytes |-> IF mat = "fused" THEN 0 ELSE p.m * p.n * 8]

(* GraphCompiler.compile: the canonical slate, baseline first. *)
compile(p) ==
    <<Variant(p, "baseline-ijk", "ijk", 0, "materialized", TRUE),
      Variant(p, "loop-ikj", "ikj", 0, "materialized", FALSE),
      Variant(p, "tile32", "tiled", 32, "materialized", FALSE)>>
    \o IF p.family = "gemm" THEN <<>>
       ELSE <<Variant(p, "loop-ikj-fused", "ikj", 0, "fused", FALSE),
              Variant(p, "tile32-fused", "tiled", 32, "fused", FALSE)>>

_cost(p, v) ==
    LET loop == IF v.order = "ikj" THEN (IF p.n >= 16 THEN 78 ELSE 98)
                ELSE IF v.order = "tiled" THEN (IF Least(p.m, Least(p.n, p.k)) >= v.tile THEN 72 ELSE 104)
                ELSE 100
    IN loop * (IF v.materialization = "fused" /\ p.family = "gemm_bias_relu" THEN 86 ELSE 100)

(* AnalyticalPredictor.propose: the cheapest variant, or nothing when that  *)
(* is the baseline or gains too little. No two variants cost the same, so   *)
(* the name never breaks a tie.                                             *)
propose(p, vs) ==
    LET best == CHOOSE v \in Range(vs) : \A w \in Range(vs) : _cost(p, v) <= _cost(p, w)
        gain == IF _cost(p, best) < 10000 THEN 10000 - _cost(p, best) ELSE 0
        abstain == best.id = vs[1].id \/ gain < Threshold
    IN [variant |-> IF abstain THEN "none" ELSE best.id, abstained |-> abstain,
        ranking |-> {v.id : v \in Range(vs)}, program |-> p, slate |-> vs]

(* MiroirsStructuralValidator.validate. *)
Structural(p, vs, pr) ==
    /\ Admissible(p) /\ Len(vs) > 0 /\ vs[1].baseline
    /\ Cardinality({k \in DOMAIN vs : vs[k].baseline}) = 1
    /\ Cardinality({v.id : v \in Range(vs)}) = Len(vs)
    /\ \A v \in Range(vs) : v.program = p
    /\ pr.program = p /\ pr.slate = vs
    /\ pr.ranking = {v.id : v \in Range(vs)}
    /\ pr.variant # "none" => pr.variant \in pr.ranking
    /\ vs = compile(p)

---------------------------------------------------------------------------
(* A measurement: nothing (a timeout or bad output), or what the binary     *)
(* printed: its timing, its checksum and its own reference, right or wrong. *)
NoTime == 0
Nothing == [latency |-> NoTime, checksum |-> "none", reference |-> "none", valid |-> FALSE]
Measurements ==
    {Nothing} \cup
    {[latency |-> t, checksum |-> c, reference |-> r, valid |-> (c = r)] :
        t \in {NoTime, 1, 2}, c \in {"expected", "other"}, r \in {"expected", "other"}}

_valid(x) == x.valid /\ x.checksum # "none" /\ x.checksum = x.reference
(* PavaneSemanticOracle: its own computation of the output decides. *)
Matches(x) == _valid(x) /\ x.checksum = "expected"
compare(b, c) == Matches(b) /\ Matches(c) /\ c.checksum = b.checksum /\ c.reference = b.reference

Observation(id, x) == [id |-> id, latency |-> x.latency, checksum |-> x.checksum,
                       reference |-> x.reference, valid |-> x.valid]

Result(selected, outcome, observations) ==
    [program |-> graph, variants |-> variants_value, proposal |-> proposal,
     observations |-> observations, selected |-> selected, outcome |-> outcome]

NoRun == [at |-> "none", base |-> Nothing]
Idle == run.at = "none"

---------------------------------------------------------------------------
(* The commands of the session. *)
Cleared == /\ command_program' = None /\ command_result' = None

Mutant_create_graph(p) ==
    /\ Idle /\ graphs < MaxGraphs /\ graphs' = graphs + 1
    /\ Admissible(p) /\ graph' = p
    /\ variants_value' = <<>> /\ proposal' = None /\ UNCHANGED execution_result
    /\ Cleared
    /\ UNCHANGED <<run, saved, shown>>

create_graph(p) ==
    /\ Idle /\ graphs < MaxGraphs /\ graphs' = graphs + 1
    /\ IF Admissible(p)
         THEN /\ graph' = p /\ variants_value' = <<>> /\ proposal' = None /\ execution_result' = None
              /\ Cleared
         ELSE UNCHANGED <<graph, variants_value, proposal, execution_result, command_program,
                          command_result>>
    /\ UNCHANGED <<run, saved, shown>>

compile_variants ==
    /\ Idle /\ graph # None
    /\ variants_value' = IF variants_value = <<>> THEN compile(graph) ELSE variants_value
    /\ UNCHANGED <<graph, proposal, execution_result, command_program, command_result, run, saved, shown, graphs>>

make_proposal ==
    /\ Idle /\ graph # None /\ variants_value # <<>>
    /\ proposal' = IF proposal = None THEN propose(graph, variants_value) ELSE proposal
    /\ UNCHANGED <<graph, variants_value, execution_result, command_program, command_result, run, saved, shown, graphs>>

(* execute: the backend compiles (or the command fails and nothing is kept), *)
(* the slate is validated, and the baseline is measured first.               *)
Finish(r) == execution_result' = r /\ run' = NoRun
execute ==
    /\ Idle /\ graph # None /\ variants_value # <<>> /\ proposal # None /\ execution_result = None
    /\ Structural(graph, variants_value, proposal)
    /\ \E x \in Measurements :
          LET seen == <<Observation(variants_value[1].id, x)>> IN
          IF ~Matches(x) THEN Finish(Result("none", "failed-closed", seen))
          ELSE IF proposal.abstained THEN Finish(Result(variants_value[1].id, "abstained", seen))
          ELSE run' = [at |-> "proposed", base |-> x] /\ UNCHANGED execution_result
    /\ UNCHANGED <<graph, variants_value, proposal, command_program, command_result, saved, shown, graphs>>

Measure ==
    /\ run.at = "proposed"
    /\ \E x \in Measurements :
          LET base == variants_value[1].id
              seen == <<Observation(base, run.base), Observation(proposal.variant, x)>>
              faster == /\ run.base.latency # NoTime /\ x.latency # NoTime
                        /\ x.latency < run.base.latency
          IN Finish(IF compare(run.base, x) /\ faster
                      THEN Result(proposal.variant, "committed-proposal", seen)
                      ELSE Result(base, "rolled-back", seen))
    /\ UNCHANGED <<graph, variants_value, proposal, command_program, command_result, saved, shown, graphs>>

(* An interrupt or a failing compiler leaves the command without a result. *)
Interrupted ==
    /\ run.at = "proposed" /\ run' = NoRun
    /\ UNCHANGED <<graph, variants_value, proposal, execution_result, command_program, command_result, saved, shown, graphs>>

(* result PATH: exclusive. *)
result(f) ==
    /\ Idle /\ execution_result # None /\ saved[f] = None
    /\ saved' = [saved EXCEPT ![f] = execution_result]
    /\ UNCHANGED <<graph, variants_value, proposal, execution_result, command_program, command_result, run, shown, graphs>>

reset ==
    /\ Idle /\ graph' = None /\ variants_value' = <<>> /\ proposal' = None /\ execution_result' = None
    /\ Cleared
    /\ UNCHANGED <<run, saved, shown, graphs>>

(* The command graph of the session: compiling one forgets its last result   *)
(* and leaves the tensor workflow alone; execution may raise and keep none.  *)
compile_command_graph(l) ==
    /\ Idle /\ command_program' = [line |-> l] /\ command_result' = None
    /\ UNCHANGED <<graph, variants_value, proposal, execution_result, run, saved, shown, graphs>>
execute_command_graph ==
    /\ Idle /\ command_program # None /\ command_result = None
    /\ command_result' = command_program
    /\ UNCHANGED <<graph, variants_value, proposal, execution_result, command_program, run, saved, shown, graphs>>

---------------------------------------------------------------------------
(* graph_directory._validate: a saved result against a program file. *)
Sound(o) == o.valid /\ o.checksum # "none" /\ o.checksum = o.reference
_validate(p, r) ==
    LET base == r.variants[1].id
        ids == [k \in DOMAIN r.observations |-> r.observations[k].id]
    IN /\ Structural(p, r.variants, r.proposal)
       /\ r.program = p /\ r.variants = compile(p)
       /\ ids = IF r.proposal.abstained \/ r.outcome = "failed-closed" THEN <<base>>
                ELSE <<base, r.proposal.variant>>
       /\ \/ r.outcome = "failed-closed" /\ r.selected = "none"
          \/ r.outcome = "abstained" /\ r.proposal.abstained /\ r.selected = base
          \/ r.outcome = "rolled-back" /\ ~r.proposal.abstained /\ r.selected = base
          \/ r.outcome = "committed-proposal" /\ ~r.proposal.abstained /\ r.selected = r.proposal.variant
       /\ r.outcome # "failed-closed" => Sound(r.observations[1])
       /\ \A k \in DOMAIN ids : ids[k] = r.selected => Sound(r.observations[k])
       /\ r.outcome = "committed-proposal" =>
             /\ NoTime \notin {r.observations[1].latency, r.observations[2].latency}
             /\ r.observations[2].latency < r.observations[1].latency

(* materialize: any program file with any saved result. *)
materialize(f, p) ==
    /\ Idle /\ saved[f] # None /\ Admissible(p)
    /\ shown' = [own |-> saved[f].program = p, accepted |-> _validate(p, saved[f])]
    /\ UNCHANGED <<graph, variants_value, proposal, execution_result, command_program, command_result, run, saved, graphs>>

SessionInit ==
    /\ graph = None /\ variants_value = <<>> /\ proposal = None /\ execution_result = None
    /\ command_program = None /\ command_result = None
    /\ run = NoRun /\ saved = [f \in ResultPaths |-> None] /\ shown = None /\ graphs = 0

SessionNext ==
    \/ \E p \in Programs : create_graph(p)
    \/ compile_variants \/ make_proposal \/ execute \/ Measure \/ Interrupted \/ reset
    \/ \E l \in Lines : compile_command_graph(l)
    \/ execute_command_graph
    \/ \E f \in ResultPaths : result(f) \/ \E p \in Programs : materialize(f, p)

SessionSpec == SessionInit /\ [][SessionNext]_svars
---------------------------------------------------------------------------
(* Whatever the order of commands and whatever the backend returns, the      *)
(* result of the session is about the graph of the session, a proposal is    *)
(* committed only when the oracle's own output agrees with both runs and it  *)
(* was strictly faster, a wrong baseline selects nothing, a command result   *)
(* is about the compiled line, and the directory view accepts a *)
(* saved result exactly with the program that produced it.                   *)
GraphSound ==
    /\ execution_result # None =>
          LET r == execution_result
              o == r.observations
          IN /\ r.program = graph /\ r.proposal.program = graph
             /\ r.selected # "none" => o[1].checksum = "expected" /\ o[1].reference = "expected"
             /\ r.selected \notin {"none", "baseline-ijk"} =>
                   /\ o[2].id = r.selected /\ o[2].checksum = "expected"
                   /\ o[2].latency < o[1].latency
    /\ command_result # None => command_result = command_program
    /\ shown # None => shown.accepted = shown.own
=============================================================================
