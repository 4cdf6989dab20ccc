--------------------------- MODULE ResearchBundle ---------------------------
(***************************************************************************)
(* One experiment from its plan to the immutable copy on the remote:       *)
(* `experiment plan | run | analyze | seal | sync` of src/raveil/cli.py    *)
(* over experiment_runner.py, policy_comparison.py, analysis.py, power.py  *)
(* and research_bundle.py.                                                 *)
(*                                                                         *)
(* A bundle is a directory of files.  A command is a process that may be   *)
(* killed before any of its steps; a file being written is then left torn. *)
(* Commands follow one another: `cmd` is the one that is running.          *)
(*                                                                         *)
(* Data: one workload and one repetition, so a median is the value that    *)
(* was measured; latency and energy move together, as one value; the       *)
(* source run of a plan measured one workload, so each candidate has at    *)
(* most one neighbour in the history and the weighted mean is its ratio.   *)
(* Ratios are kept as base-two logarithms, scores in 1/400.                *)
(***************************************************************************)
EXTENDS Integers, Sequences, FiniteSets, SequencesExt

CONSTANTS Candidates,          \* manifest.candidates, the baseline first
          ColdPriority,        \* cold_priority of each candidate
          Values,              \* measured costs: positive integers
          COMPARISON_POLICIES, \* the policies of a plan, in their order
          ActiveLimit,         \* manifest.active_memory_limit
          MinimumActive,       \* the least active_memory_limit (code: 4)
          Budget,              \* manifest.measurement_budget
          Manifests,           \* the manifests offered to `run`
          Texts,               \* sampler outputs: [powers, thermals]
          MinimumSamples,      \* energy.minimum_samples
          Target, Source,      \* the workload measured and the remembered one
          Alterations          \* ways a supplied outcome file may be wrong

\* A comparison lists its policies, a cost is a count, and an outcome file can be
\* wrong in these ways.
ASSUME BundleConstants ==
  /\ COMPARISON_POLICIES \in Seq(Range(COMPARISON_POLICIES))
  /\ Values \subseteq Nat /\ Values # {}
  /\ Alterations \subseteq {"pick", "better", "missing", "twice", "slow", "otherrun"}

VARIABLES plan,     \* the selections file of `plan`, <<>> before it is written
          bundle,   \* the files of the run's directory
          seal,     \* bundle-manifest.json: state and the files it names
          remote,   \* the remote copy
          cmd       \* the running command

vars == <<plan, bundle, seal, remote, cmd>>

Baseline == Candidates[1]
CandidateIds == Range(Candidates)
Policies == Range(COMPARISON_POLICIES)
Required == {"cold", "bounded", "full-history"}
MaxOf(S) == CHOOSE x \in S : \A y \in S : y <= x
MinOf(S) == CHOOSE x \in S : \A y \in S : x <= y
IdBefore(c, d) ==
  LET at(x) == CHOOSE i \in DOMAIN Candidates : Candidates[i] = x
  IN at(c) <= at(d)

-----------------------------------------------------------------------------
\* The manifest and the power sampler.

BenchmarkManifest(m) ==
  /\ m.backend \in {"native-c", "tvm-meta-schedule"} => m.evidence = "silicon"
  /\ m.repetitions >= 1 /\ m.budget >= 1 /\ m.limit >= MinimumActive
  /\ m.trusted # <<>>
  /\ {i \in DOMAIN m.trusted : m.trusted[i]} = {1}
  /\ m.stage = "full" => m.varied

_validate_measurement_target(m) == m.backend \in {"native-c", "tvm-meta-schedule"}

parse_powermetrics(t, minimum) ==
  /\ t.powers >= 1 /\ t.powers >= minimum
  /\ t.thermals = {"Nominal"}

preflight(installed, t) == installed /\ parse_powermetrics(t, 1)

\* One complete observation is consumed before the work starts.
_wait_for_ready(t) == t.powers >= 1 /\ t.thermals # {} /\ parse_powermetrics(t, 1)

\* measure(): <<the benchmark ran, the power sample is valid>>.
measure(installed, ready, window) ==
  IF ~ installed \/ ~ _wait_for_ready(ready) THEN <<FALSE, FALSE>>
  ELSE <<TRUE, parse_powermetrics(window, MinimumSamples)>>

\* Two consecutive stable preflights among the observations the bounds allow.
wait_for_thermal_recovery(observations) ==
  \E i \in 1 .. Len(observations) - 1 :
    preflight(TRUE, observations[i]) /\ preflight(TRUE, observations[i + 1])

-----------------------------------------------------------------------------
\* Planning: what each policy remembers of an earlier run, and its slate.

\* In quarters; shapes are given as base-two logarithms.
workload_distance(l, r) ==
  LET apart(a, b) == IF a < b THEN b - a ELSE a - b
  IN (IF l.family = r.family THEN 0 ELSE 32) + (IF l.lineage = r.lineage THEN 0 ELSE 6)
     + 4 * (apart(l.m, r.m) + apart(l.n, r.n) + apart(l.k, r.k))
     + (IF l.working_set = r.working_set THEN 0 ELSE 3)
     + (IF l.composition = r.composition THEN 0 ELSE 8)

\* Records of the source run: a candidate's cost, or 0 when it is not valid.
_measurement_medians(records) == \A c \in CandidateIds : records[c] > 0

build_history(order) ==
  [i \in DOMAIN Candidates |-> [candidate |-> order[i].candidate,
                                ratio |-> order[i].ratio, sequence |-> i]]

_tail_score(e) ==
  LET r == IF e.ratio < 0 THEN - e.ratio ELSE e.ratio
  IN 2 * r + (IF e.ratio > 0 THEN 2 ELSE 0)

\* Every set of entries the policy may keep: the hash jitter and the seeds
\* decide between equals.
retain_history(entries, policy) ==
  LET all == Range(entries)
      kept == {K \in SUBSET all : Cardinality(K) = ActiveLimit}
  IN CASE policy = "full-history" -> {all}
       [] policy = "bounded" ->
            {K \in kept : \A e \in K, f \in all \ K : _tail_score(e) >= _tail_score(f)}
       [] policy = "fifo" ->
            {{e \in all : e.sequence > Len(entries) - ActiveLimit}}
       [] policy \in {"reservoir", "random"} -> kept
       [] policy = "cold" -> {{}}

_score(c, history) ==
  LET near == {e \in history : e.candidate = c}
      ratio == (CHOOSE e \in near : TRUE).ratio
  IN IF near = {} THEN 400 * (1 + ColdPriority[c])
     ELSE workload_distance(Target, Source)
          + (CASE ratio = -1 -> 200 [] ratio = 0 -> 400 [] ratio = 1 -> 800)

_rank_slate(history) ==
  LET before(c, d) == \/ _score(c, history) < _score(d, history)
                      \/ _score(c, history) = _score(d, history) /\ IdBefore(c, d)
      ranked == SetToSortSeq(CandidateIds \ {Baseline}, before)
  IN {Baseline} \cup Range(SubSeq(ranked, 1, Budget - 1))

\* The selections a plan may hold; `quick`: retrieval from the bounded memory
\* took less time than from the full history.
generate_policy_selections(order, quick) ==
  LET entries == build_history(order)
      row(p, K) == [policy |-> p, slate |-> _rank_slate(K), at |-> 0,
                    active |-> Cardinality(K), abstained |-> K = {},
                    retrieval |-> IF p = "bounded" /\ quick THEN 1 ELSE 2]
      rows(p) == {row(p, K) : K \in retain_history(entries, p)}
  IN {s \in [Policies -> UNION {rows(p) : p \in Policies}] :
        \A p \in Policies : s[p] \in rows(p)}

Histories ==
  {o \in [DOMAIN Candidates -> [candidate : CandidateIds, ratio : -1 .. 1]] :
     /\ o[1] = [candidate |-> Baseline, ratio |-> 0]
     /\ {o[i].candidate : i \in DOMAIN o} = CandidateIds}
Plans == UNION {generate_policy_selections(o, quick) : o \in Histories, quick \in BOOLEAN}

PolicySelection(s) == Cardinality(s.slate) = Budget

validate_policy_selections(s) ==
  /\ DOMAIN s = Policies
  /\ \A p \in DOMAIN s : s[p].policy = p /\ s[p].slate \subseteq CandidateIds
                         /\ s[p].at = 0

-----------------------------------------------------------------------------
\* Measured records, policy outcomes and the analysis.

Record(c, ran, valid, cost, semantic, leak) ==
  [candidate |-> c, cost |-> IF ran THEN cost ELSE 0, semantic |-> ran /\ semantic,
   valid |-> ran /\ semantic /\ valid, leak |-> leak]

Measured(records) == {records[i].candidate : i \in DOMAIN records}
Cost(records, c) == (records[CHOOSE i \in DOMAIN records : records[i].candidate = c]).cost
Valid(records) == {records[i].candidate : i \in {j \in DOMAIN records : records[j].valid}}
Oracle(records) == MinOf({Cost(records, c) : c \in Valid(records)})

\* Candidates that may be measured next: the trusted baseline, then any order.
measurement_order(left) == IF Baseline \in left THEN {Baseline} ELSE left

PolicyOutcome(p, s, pick, records) ==
  [policy |-> p, pick |-> pick, baseline |-> Cost(records, Baseline),
   selected |-> Cost(records, pick), oracle |-> Oracle(records),
   active |-> s.active, retrieval |-> s.retrieval, abstained |-> s.abstained,
   run |-> TRUE]

best(slate, records) ==
  CHOOSE c \in slate : \A d \in slate :
    \/ Cost(records, c) < Cost(records, d)
    \/ Cost(records, c) = Cost(records, d) /\ IdBefore(c, d)

\* Defined only over a complete, valid matrix: the caller checks it first.
generate_policy_outcomes(selections, records) ==
  [i \in DOMAIN COMPARISON_POLICIES |->
     LET p == COMPARISON_POLICIES[i]
     IN PolicyOutcome(p, selections[p], best(selections[p].slate, records), records)]

complete(records) ==
  /\ Measured(records) = CandidateIds /\ Len(records) = Cardinality(CandidateIds)
  /\ Valid(records) = CandidateIds

\* The selections' part of _policy_evidence_unmet: registered before the
\* first measurement, for every required policy.
selections_met(selections) ==
  /\ \A p \in DOMAIN selections :
       selections[p].slate \subseteq CandidateIds /\ selections[p].at = 0
  /\ Required \subseteq DOMAIN selections

\* No complaint of _policy_evidence_unmet.
_policy_evidence_met(records, selections, outcomes) ==
  LET rows == {outcomes[i] : i \in DOMAIN outcomes}
      by(p) == outcomes[MaxOf({i \in DOMAIN outcomes : outcomes[i].policy = p})]
      expected == Required \cup DOMAIN selections
  IN /\ records # <<>>
     /\ selections_met(selections)
     /\ Cardinality({o.policy : o \in rows}) = Len(outcomes)
     /\ {o.policy : o \in rows} = expected
     /\ \A p \in expected \cap DOMAIN selections \cap {o.policy : o \in rows} :
          /\ by(p).pick \in selections[p].slate
          /\ by(p).active = selections[p].active
          /\ by(p).retrieval = selections[p].retrieval
          /\ by(p).abstained = selections[p].abstained
     /\ \A o \in rows :
          /\ Valid(records) = CandidateIds
          /\ o.baseline = Cost(records, Baseline)
          /\ o.selected = Cost(records, o.pick)
          /\ o.oracle = Oracle(records)

\* The rows analyze_policy_outcomes checks again before it compares them.
policy_integrity(outcomes) ==
  /\ \A i, j \in DOMAIN outcomes : outcomes[i].policy = outcomes[j].policy => i = j
  /\ \A i \in DOMAIN outcomes : outcomes[i].run /\ outcomes[i].policy \in Policies
  /\ Required \subseteq {outcomes[i].policy : i \in DOMAIN outcomes}

\* What the gate compares: with one workload a median and a bootstrap bound
\* are the workload's own value.
comparison(outcomes) ==
  LET of(p) == outcomes[CHOOSE i \in DOMAIN outcomes : outcomes[i].policy = p]
  IN [cold |-> of("cold").selected, bounded |-> of("bounded").selected,
      full |-> of("full-history").selected,
      memory |-> of("bounded").active <= ActiveLimit,
      retrieval |-> of("bounded").retrieval < of("full-history").retrieval]

gate_met(m) ==
  /\ 100 * (m.cold - m.bounded) >= 5 * m.cold
  /\ ~ 100 * m.bounded > 102 * m.cold
  /\ ~ 100 * m.bounded > 102 * m.full
  /\ m.memory /\ m.retrieval

analyze_policy_outcomes(outcomes) ==
  policy_integrity(outcomes) /\ gate_met(comparison(outcomes))

NoAnalysis == [state |-> "absent", matrix |-> FALSE, semantic |-> FALSE, gate |-> FALSE]

\* What analyze_bundle writes, from the files it reads.
Analysis(b) ==
  [state |-> "whole",
   matrix |-> Measured(b.records) = CandidateIds
              /\ Len(b.records) = Cardinality(CandidateIds),
   semantic |-> \A i \in DOMAIN b.records : b.records[i].semantic,
   gate |-> /\ b.stage = "full"
            /\ b.outcomes # <<>> /\ b.selections # <<>>
            /\ _policy_evidence_met(b.records, b.selections, b.outcomes)
            /\ analyze_policy_outcomes(b.outcomes)]

-----------------------------------------------------------------------------
\* The bundle directory.

Idle == [op |-> "none", at |-> "", left |-> {}, todo |-> <<>>]
NoBundle ==
  [here |-> FALSE, stage |-> "", records |-> <<>>, selections |-> <<>>,
   outcomes |-> <<>>, analysis |-> NoAnalysis, torn |-> {}, ended |-> "",
   marker |-> [state |-> "absent", data |-> {}], foreign |-> 0]

Data(b) == [b EXCEPT !.marker = NoBundle.marker]   \* _files without the marker
Sealed == seal.state # "absent"                    \* bundle-manifest.json exists

\* require_mutable, repeated by every write.
require_mutable == ~ Sealed

_scan_sensitive(b) == \A i \in DOMAIN b.records : ~ b.records[i].leak

Mutant_verify_names == seal.state = "whole"

\* The manifest parses and the directory holds exactly the files it names.
verify == seal.state = "whole" /\ seal.files = {bundle}

Init ==
  /\ plan = <<>>
  /\ bundle = NoBundle
  /\ seal = [state |-> "absent", files |-> {}]
  /\ remote = [data |-> {}, part |-> FALSE, manifest |-> FALSE, marker |-> {}]
  /\ cmd = Idle

\* `plan`: from a verified source run, into a file that must not exist yet;
\* `at` is 1 when the target run has measured something.  A plan no run can
\* use any more is left out.
command_experiment_plan(records, s) ==
  /\ cmd = Idle /\ plan = <<>>
  /\ bundle.analysis.state = "absent" /\ bundle.selections = <<>>
  /\ _measurement_medians(records)
  /\ \A p \in DOMAIN s : PolicySelection(s[p])
  /\ plan' = [p \in DOMAIN s |->
                [s[p] EXCEPT !.at = IF bundle.records = <<>> THEN 0 ELSE 1]]
  /\ UNCHANGED <<bundle, seal, remote, cmd>>

\* `run` up to the first measurement: refusals leave no bundle behind.
run_experiment(m, selected, ready, recovered) ==
  /\ cmd = Idle /\ ~ bundle.here
  /\ BenchmarkManifest(m) /\ _validate_measurement_target(m)
  /\ selected => plan # <<>> /\ validate_policy_selections(plan)
  /\ ready
  /\ bundle' = [NoBundle EXCEPT !.here = TRUE, !.stage = m.stage,
                  !.selections = IF selected THEN plan ELSE <<>>,
                  !.ended = IF recovered THEN ""
                            ELSE "aborted"]
  /\ cmd' = IF recovered
            THEN [Idle EXCEPT !.op = "run", !.at = "measure", !.left = CandidateIds]
            ELSE Idle
  /\ UNCHANGED <<plan, seal, remote>>

\* One measurement of the run: recorded whatever it is; an invalid power
\* sample stops the run with run-failure.json, an invalid benchmark does not.
Measure(c, native, m) ==
  /\ cmd.op = "run" /\ cmd.at = "measure" /\ c \in measurement_order(cmd.left)
  /\ require_mutable
  /\ LET r == Record(c, m[1], m[2], native.cost, native.semantic, native.leak)
     IN /\ bundle' = [bundle EXCEPT !.records = Append(@, r),
                        !.ended = IF m[2] THEN @ ELSE "run-failure"]
        /\ cmd' = IF m[2] THEN [cmd EXCEPT !.left = @ \ {c}] ELSE Idle
  /\ UNCHANGED <<plan, seal, remote>>

\* run-summary.json and the context's end.
FinishRun ==
  /\ cmd.op = "run" /\ cmd.at = "measure" /\ cmd.left = {}
  /\ require_mutable
  /\ bundle' = [bundle EXCEPT !.ended = "summary"]
  /\ cmd' = Idle
  /\ UNCHANGED <<plan, seal, remote>>

\* `analyze`: read everything, and generate outcomes when there are none.
analyze_bundle ==
  /\ cmd = Idle /\ bundle.here /\ require_mutable
  /\ bundle.records # <<>> /\ "records" \notin bundle.torn
  /\ LET generates == bundle.stage = "full" /\ bundle.selections # <<>>
                      /\ bundle.outcomes = <<>> /\ "outcomes" \notin bundle.torn
     IN /\ generates => complete(bundle.records)
        /\ cmd' = [Idle EXCEPT !.op = "analyze", !.at = "append",
                     !.todo = IF generates
                              THEN generate_policy_outcomes(bundle.selections, bundle.records)
                              ELSE <<>>]
  /\ UNCHANGED <<plan, bundle, seal, remote>>

append_jsonl ==
  /\ cmd.op = "analyze" /\ cmd.at = "append" /\ cmd.todo # <<>> /\ require_mutable
  /\ bundle' = [bundle EXCEPT !.outcomes = Append(@, Head(cmd.todo))]
  /\ cmd' = [cmd EXCEPT !.todo = Tail(@)]
  /\ UNCHANGED <<plan, seal, remote>>

\* analysis.json is truncated, then written.
write_json ==
  /\ cmd.op = "analyze" /\ require_mutable
  /\ \/ /\ cmd.at = "append" /\ cmd.todo = <<>>
        /\ "outcomes" \notin bundle.torn \/ bundle.stage = "pilot"
        /\ bundle' = [bundle EXCEPT !.analysis = [NoAnalysis EXCEPT !.state = "torn"]]
        /\ cmd' = [cmd EXCEPT !.at = "write"]
     \/ /\ cmd.at = "write"
        /\ bundle' = [bundle EXCEPT !.analysis = Analysis(bundle)]
        /\ cmd' = Idle
  /\ UNCHANGED <<plan, seal, remote>>

\* `seal`: the marker names the data, the manifest names data and marker.
seal_bundle ==
  /\ cmd = Idle /\ bundle.here /\ require_mutable
  /\ bundle.analysis.state # "absent" /\ bundle.records # <<>>
  /\ _scan_sensitive(bundle)
  /\ bundle' = [bundle EXCEPT !.marker = [state |-> "torn", data |-> {}]]
  /\ cmd' = [Idle EXCEPT !.op = "seal", !.at = "marker"]
  /\ UNCHANGED <<plan, seal, remote>>

SealStep ==
  /\ cmd.op = "seal"
  /\ \/ /\ cmd.at = "marker"
        /\ bundle' = [bundle EXCEPT !.marker = [state |-> "whole", data |-> {Data(bundle)}]]
        /\ cmd' = [cmd EXCEPT !.at = "manifest"]
        /\ UNCHANGED seal
     \/ /\ cmd.at = "manifest" /\ require_mutable /\ _scan_sensitive(bundle)
        /\ seal' = [state |-> "torn", files |-> {bundle}]
        /\ cmd' = [cmd EXCEPT !.at = "write"]
        /\ UNCHANGED bundle
     \/ /\ cmd.at = "write"
        /\ seal' = [seal EXCEPT !.state = "whole"]
        /\ cmd' = Idle
        /\ UNCHANGED bundle
  /\ UNCHANGED <<plan, remote>>

\* `sync`: verify, then refuse a remote run that is already complete.
sync ==
  /\ cmd = Idle /\ bundle.here /\ verify
  /\ remote.marker = {}
  /\ cmd' = [Idle EXCEPT !.op = "sync", !.at = "copy"]
  /\ UNCHANGED <<plan, bundle, seal, remote>>

\* copy --immutable, check --download, copyto the marker, cat it back.  A
\* step that fails ends the command; a failed copy leaves part of the files.
SyncStep(works) ==
  /\ cmd.op = "sync"
  /\ \/ /\ cmd.at = "copy"
        /\ works => remote.data \subseteq {Data(bundle)}
        /\ remote' = [remote EXCEPT !.data = IF @ = {} THEN {Data(bundle)} ELSE @,
                        !.part = ~ works, !.manifest = works \/ @]
        /\ cmd' = IF works THEN [cmd EXCEPT !.at = "check"] ELSE Idle
     \/ /\ cmd.at = "check"
        /\ cmd' = IF works /\ ~ remote.part /\ remote.data = {Data(bundle)}
                  THEN [cmd EXCEPT !.at = "marker"] ELSE Idle
        /\ UNCHANGED remote
     \/ /\ cmd.at = "marker"
        /\ remote' = [remote EXCEPT !.marker = IF works THEN {bundle.marker} ELSE @]
        /\ cmd' = Idle
  /\ UNCHANGED <<plan, bundle, seal>>

\* The process is killed; a line it was appending may stay torn.
Crash ==
  /\ cmd # Idle
  /\ cmd' = Idle
  /\ \E torn \in {{}, IF cmd.op = "run" THEN {"records"}
                     ELSE IF cmd.todo # <<>> THEN {"outcomes"} ELSE {}} :
       bundle' = [bundle EXCEPT !.torn = @ \cup torn]
  /\ UNCHANGED <<plan, seal, remote>>

\* Somebody puts a plan into a bundle whose run was started without one.
SupplySelections ==
  /\ cmd = Idle /\ bundle.here /\ ~ Sealed /\ bundle.analysis.state = "absent"
  /\ bundle.selections = <<>> /\ plan # <<>>
  /\ bundle' = [bundle EXCEPT !.selections = plan]
  /\ UNCHANGED <<plan, seal, remote, cmd>>

\* Ways in which an outcome file written by other means may be wrong.
Altered(outcomes, how, i, c) ==
  CASE how = "pick" -> [outcomes EXCEPT ![i].pick = c]
    [] how = "better" -> [outcomes EXCEPT ![i].selected = MinOf(Values)]
    [] how = "missing" -> SubSeq(outcomes, 1, Len(outcomes) - 1)
    [] how = "twice" -> Append(outcomes, outcomes[i])
    [] how = "slow" -> [outcomes EXCEPT ![i].pick = c,
                          ![i].selected = Cost(bundle.records, c)]
    [] how = "otherrun" -> [outcomes EXCEPT ![i].run = FALSE]

SupplyOutcomes(how, i, c) ==
  /\ cmd = Idle /\ bundle.here /\ ~ Sealed /\ bundle.analysis.state = "absent"
  /\ bundle.outcomes = <<>> /\ bundle.selections # <<>>
  /\ "outcomes" \notin bundle.torn /\ complete(bundle.records)
  /\ bundle' = [bundle EXCEPT !.outcomes =
       Altered(generate_policy_outcomes(bundle.selections, bundle.records), how, i, c)]
  /\ UNCHANGED <<plan, seal, remote, cmd>>

\* A file of the directory changes outside the commands; 2 is what it holds when
\* that was during a `sync`, which verifies first and copies later.
Damage ==
  /\ Sealed /\ bundle.foreign = 0
  /\ bundle' = [bundle EXCEPT !.foreign = IF cmd.op = "sync" THEN 2 ELSE 1]
  /\ UNCHANGED <<plan, seal, remote, cmd>>

\* What the sampler's outputs come to.
Preflights == {preflight(installed, t) : installed \in BOOLEAN, t \in Texts}
Recoveries == {wait_for_thermal_recovery(o) : o \in [1 .. 3 -> Texts]}
Samples == {measure(i, r, w) : i \in BOOLEAN, r \in Texts, w \in Texts}
\* What one benchmark execution comes to.
Native == [cost : Values, semantic : {TRUE}, leak : {FALSE}]
          \cup [cost : {MinOf(Values)}, semantic : {FALSE}, leak : BOOLEAN]

Next ==
  \/ /\ plan = <<>>
     /\ \E s \in Plans, v \in {0, 1} : command_experiment_plan([c \in CandidateIds |-> v], s)
  \/ /\ ~ bundle.here
     /\ \E m \in Manifests, selected \in BOOLEAN, ready \in Preflights,
           recovered \in Recoveries : run_experiment(m, selected, ready, recovered)
  \/ /\ cmd.op = "run"
     /\ \E c \in CandidateIds, n \in Native, m \in Samples : Measure(c, n, m)
  \/ FinishRun
  \/ analyze_bundle \/ append_jsonl \/ write_json
  \/ seal_bundle \/ SealStep
  \/ sync \/ \E works \in BOOLEAN : SyncStep(works)
  \/ Crash
  \/ SupplySelections
  \/ \E how \in Alterations, i \in DOMAIN COMPARISON_POLICIES, c \in CandidateIds :
       SupplyOutcomes(how, i, c)
  \/ Damage

Spec == Init /\ [][Next]_vars

-----------------------------------------------------------------------------
\* A whole analysis that reports the policy gate as ready rests on a complete
\* valid measurement of every candidate, taken after the selections of every
\* policy were registered; the bounded policy's pick was in its slate, really
\* cost at least 5% less than the cold policy's and no more than 2% over the
\* full history's, whoever wrote the outcome file and whichever command died.
GateSound ==
  bundle.analysis.state = "whole" /\ bundle.analysis.gate =>
    /\ bundle.stage = "full" /\ bundle.ended # "run-failure"
    /\ Valid(bundle.records) = CandidateIds
    /\ Len(bundle.records) = Cardinality(CandidateIds)
    /\ bundle.selections = plan /\ \A p \in Required : plan[p].at = 0
    /\ LET pick(p) == LET i == CHOOSE j \in DOMAIN bundle.outcomes :
                                 bundle.outcomes[j].policy = p
                      IN bundle.outcomes[i].pick
           cost(p) == Cost(bundle.records, pick(p))
       IN /\ \A p \in Required : pick(p) \in plan[p].slate
          /\ 100 * cost("bounded") <= 95 * cost("cold")
          /\ 100 * cost("bounded") <= 102 * cost("full-history")

\* A sealed bundle with the file that changed while a `sync` ran.
ChangedInSync(b) == [b EXCEPT !.foreign = 2]

\* Once the remote holds a completion marker it holds every file of one sealed
\* bundle and nothing else: the data the marker names, but for a file that
\* changed between the verification of that very `sync` and its copy, an analysis
\* among them and no machine-local text, and this stays so whatever later
\* happens to the local copy.
RemoteSound ==
  remote.marker # {} =>
    /\ ~ remote.part /\ remote.manifest /\ seal.state = "whole"
    /\ \E b \in seal.files :
         /\ remote.marker = {b.marker} /\ b.marker.state = "whole"
         /\ b.marker.data = {Data(b)}
         /\ remote.data \in {{Data(b)}, {Data(ChangedInSync(b))}}
         /\ b.analysis.state # "absent" /\ _scan_sensitive(b)

\* "analyze the run before sealing": a sealed bundle holds the analysis. Not
\* so of the code: an empty analysis.json, left by a kill, is sealed as well.
SealedAnalysed == seal.state = "whole" => \A b \in seal.files : b.analysis.state = "whole"

\* The pick a ready gate counts is the cheapest member of its slate. Not so of
\* the code when the outcome file was supplied by hand: any member is
\* accepted.
BestOfSlate ==
  bundle.analysis.state = "whole" /\ bundle.analysis.gate =>
    \A i \in DOMAIN bundle.outcomes :
      LET o == bundle.outcomes[i]
      IN \A c \in bundle.selections[o.policy].slate :
           Cost(bundle.records, o.pick) <= Cost(bundle.records, c)

\* Both ends of a bundle's life: a passed gate rests on complete records selected
\* before they were measured, and a remote marker is of a bundle that held when its sync began.
BundleSound == GateSound /\ RemoteSound

=============================================================================
