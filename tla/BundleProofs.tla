---------------------------- MODULE BundleProofs ----------------------------
(***************************************************************************)
(* For any candidates, policies, measured costs and manifests: a gate that *)
(* an analysis reports as ready rests on a complete valid measurement, and *)
(* a marker on the remote is of a bundle that was verified.  And for any   *)
(* number of nodes of the showcase: what a run takes from the cache is     *)
(* undamaged and of the input that it digested.                            *)
(***************************************************************************)
EXTENDS ResearchBundle, CommandShowcase, FiniteSetTheorems, NaturalsInduction, TLAPS

(***************************************************************************)
(* The inductive invariant, in five parts: what the fields are, what a run *)
(* records, where the selections come from, what a reported gate still     *)
(* says about the files it was computed from, and what each phase of       *)
(* `seal` and `sync` has established.                                      *)
(***************************************************************************)
MeasuredRecords ==
  [candidate : CandidateIds, cost : Nat, semantic : BOOLEAN, valid : BOOLEAN, leak : BOOLEAN]

IsSequence(s) == s \in Seq(Range(s))

Fields ==
  /\ DOMAIN bundle = {"here", "stage", "records", "selections", "outcomes", "analysis",
                      "torn", "ended", "marker", "foreign"}
  /\ DOMAIN seal = {"state", "files"}
  /\ DOMAIN remote = {"data", "part", "manifest", "marker"}
  /\ DOMAIN cmd = {"op", "at", "left", "todo"}
  /\ IsSequence(bundle.outcomes) /\ IsSequence(cmd.todo)

\* One record for each candidate measured, all of them before any analysis; a
\* run that failed left the record of the sample it failed on.
RunRecords ==
  /\ bundle.records \in Seq(MeasuredRecords)
  /\ \A i, j \in DOMAIN bundle.records :
       bundle.records[i].candidate = bundle.records[j].candidate => i = j
  /\ bundle.ended = "run-failure" =>
       \E i \in DOMAIN bundle.records : ~ bundle.records[i].valid
  /\ cmd.op = "run" =>
       /\ bundle.ended = "" /\ ~ bundle.analysis.gate
       /\ \A i \in DOMAIN bundle.records : bundle.records[i].candidate \notin cmd.left

SelectionsPlanned == bundle.selections = <<>> \/ bundle.selections = plan

\* A reported gate is the one the files still give: an analysis that is not
\* whole reports none, and none was reported while outcomes are written.
GateCurrent ==
  /\ bundle.analysis.gate => bundle.analysis.state = "whole" /\ Analysis(bundle).gate
  /\ cmd.op = "analyze" /\ cmd.todo # <<>> => ~ bundle.analysis.gate

\* What the manifest of a sealed bundle names.
SealedBundle(b) ==
  /\ b.marker.state = "whole" /\ b.marker.data = {Data(b)}
  /\ b.analysis.state # "absent" /\ _scan_sensitive(b)

SealPhases ==
  /\ seal.state \in {"absent", "torn", "whole"}
  /\ Sealed => \A b \in seal.files : SealedBundle(b)
  /\ cmd.op = "seal" =>
       /\ cmd.at \in {"marker", "manifest", "write"}
       /\ cmd.at \in {"marker", "manifest"} =>
            ~ Sealed /\ bundle.analysis.state # "absent" /\ _scan_sensitive(bundle)
       /\ cmd.at = "manifest" => SealedBundle(bundle)
       /\ cmd.at = "write" => seal.state = "torn"

\* The remote holds b, or b as it was when it was copied.
Checked(b) ==
  /\ ~ remote.part /\ remote.manifest
  /\ remote.data \in {{Data(b)}, {Data(ChangedInSync(b))}}

SyncPhases ==
  cmd.op = "sync" =>
    /\ seal.state = "whole" /\ remote.marker = {}
    /\ cmd.at = "check" => remote.manifest
    /\ \E b \in seal.files :
         /\ bundle \in {b, ChangedInSync(b)}
         /\ cmd.at = "marker" => Checked(b)

BundleInv ==
  /\ Fields /\ RunRecords /\ SelectionsPlanned /\ GateCurrent
  /\ SealPhases /\ SyncPhases /\ RemoteSound

----------------------------------------------------------------------------
(* Sequences and least elements.                                           *)

LEMMA FunctionSequence ==
  ASSUME NEW n \in Nat, NEW T, NEW f \in [1 .. n -> T]
  PROVE  IsSequence(f)
<1>1. DOMAIN f = 1 .. n
  OBVIOUS
<1>2. Range(f) = {f[i] : i \in 1 .. n}
  BY <1>1 DEF Range
<1>3. f \in [1 .. n -> Range(f)]
  BY <1>1, <1>2
<1>. QED BY <1>3 DEF IsSequence

LEMMA SequenceIs ==
  ASSUME NEW T, NEW s \in Seq(T)
  PROVE  IsSequence(s)
<1>1. s \in [1 .. Len(s) -> T] /\ Len(s) \in Nat
  OBVIOUS
<1>. QED BY <1>1, FunctionSequence

LEMMA AppendSequence ==
  ASSUME NEW s, IsSequence(s), NEW e
  PROVE  IsSequence(Append(s, e))
<1>1. PICK T : T = Range(s) \cup {e}
  OBVIOUS
<1>2. s \in Seq(T) /\ e \in T
  <2>1. s \in [1 .. Len(s) -> Range(s)] /\ Len(s) \in Nat
    BY DEF IsSequence
  <2>2. s \in [1 .. Len(s) -> T]
    BY <1>1, <2>1
  <2>. QED BY <1>1, <2>1, <2>2
<1>3. Append(s, e) \in Seq(T)
  BY <1>2
<1>. QED BY <1>3, SequenceIs

LEMMA TailSequence ==
  ASSUME NEW s, IsSequence(s), s # <<>>
  PROVE  IsSequence(Tail(s))
<1>1. s \in Seq(Range(s))
  BY DEF IsSequence
<1>2. Tail(s) \in Seq(Range(s))
  BY <1>1
<1>. QED BY <1>2, SequenceIs

LEMMA LeastValue == MinOf(Values) \in Values
<1>1. PICK n \in Values : \A m \in Values : ~(<<m, n>> \in OpToRel(<, Nat))
  BY BundleConstants, NatLessThanWellFounded, WFMin
<1>2. \A m \in Values : ~(m < n)
  BY <1>1, BundleConstants DEF OpToRel
<1>3. \A m \in Values : n <= m
  BY <1>2, BundleConstants
<1>. QED BY <1>1, <1>3 DEF MinOf

\* With one record for each of the candidates there are as many records.
LEMMA OneRecordEach ==
  ASSUME NEW S, NEW records \in Seq(MeasuredRecords),
         \A i, j \in DOMAIN records : records[i].candidate = records[j].candidate => i = j,
         Measured(records) = S
  PROVE  Len(records) = Cardinality(S)
<1>1. PICK n \in Nat : n = Len(records) /\ DOMAIN records = 1 .. n
  OBVIOUS
<1>2. PICK f : f = [i \in 1 .. n |-> records[i].candidate]
  OBVIOUS
<1>3. \A i \in 1 .. n : f[i] = records[i].candidate
  BY <1>2
<1>4. S = {records[i].candidate : i \in 1 .. n}
  BY <1>1 DEF Measured
<1>5. f \in [1 .. n -> S]
  BY <1>2, <1>4
<1>6. f \in Bijection(1 .. n, S)
  BY <1>1, <1>3, <1>4, <1>5 DEF Bijection, Injection, Surjection, IsInjective
<1>7. ExistsBijection(1 .. n, S)
  BY <1>6 DEF ExistsBijection
<1>. QED BY <1>1, <1>7, FS_CountingElements

----------------------------------------------------------------------------
(* What a reported gate says.                                              *)

\* The gate reads four files of the bundle.
LEMMA GateReads ==
  ASSUME NEW b, NEW d, b.stage = d.stage, b.records = d.records,
         b.selections = d.selections, b.outcomes = d.outcomes
  PROVE  Analysis(b).gate <=> Analysis(d).gate
BY DEF Analysis

LEMMA CostOfMeasured ==
  ASSUME NEW records \in Seq(MeasuredRecords), NEW c \in Measured(records)
  PROVE  Cost(records, c) \in Nat
<1>1. PICK i \in DOMAIN records : records[i].candidate = c
  BY DEF Measured
<1>2. PICK j : j = CHOOSE k \in DOMAIN records : records[k].candidate = c
  OBVIOUS
<1>3. j \in DOMAIN records
  BY <1>1, <1>2
<1>4. records[j] \in MeasuredRecords
  BY <1>3
<1>. QED BY <1>2, <1>4 DEF Cost, MeasuredRecords

\* The outcome of a policy, as the comparison takes it.
OutcomeOf(outcomes, p) == outcomes[CHOOSE i \in DOMAIN outcomes : outcomes[i].policy = p]

\* A file that passed policy_integrity has one row for each policy: the check
\* of the evidence and the comparison read the same one.
LEMMA OneRow ==
  ASSUME NEW outcomes, IsSequence(outcomes), policy_integrity(outcomes), NEW p \in Required
  PROVE  /\ OutcomeOf(outcomes, p) \in {outcomes[i] : i \in DOMAIN outcomes}
         /\ OutcomeOf(outcomes, p).policy = p
         /\ outcomes[MaxOf({i \in DOMAIN outcomes : outcomes[i].policy = p})]
              = OutcomeOf(outcomes, p)
<1>1. DOMAIN outcomes \subseteq Int
  <2>1. outcomes \in Seq(Range(outcomes))
    BY DEF IsSequence
  <2>. QED BY <2>1
<1>2. PICK i \in DOMAIN outcomes : outcomes[i].policy = p
  BY DEF policy_integrity
<1>3. \A j \in DOMAIN outcomes : outcomes[j].policy = p => j = i
  BY <1>2 DEF policy_integrity
<1>4. (CHOOSE j \in DOMAIN outcomes : outcomes[j].policy = p) = i
  BY <1>2, <1>3
<1>5. {j \in DOMAIN outcomes : outcomes[j].policy = p} = {i}
  BY <1>2, <1>3
<1>6. MaxOf({i}) = i
  BY <1>1, <1>2 DEF MaxOf
<1>. QED BY <1>2, <1>4, <1>5, <1>6 DEF OutcomeOf

\* Which outcome a met policy evidence accepts.
LEMMA EvidenceMeans ==
  ASSUME NEW records, NEW selections, NEW outcomes, IsSequence(outcomes),
         outcomes # <<>>, policy_integrity(outcomes),
         _policy_evidence_met(records, selections, outcomes)
  PROVE  /\ Valid(records) = CandidateIds
         /\ \A p \in Required :
              /\ p \in DOMAIN selections /\ selections[p].at = 0
              /\ OutcomeOf(outcomes, p).pick \in selections[p].slate
              /\ OutcomeOf(outcomes, p).pick \in CandidateIds
              /\ OutcomeOf(outcomes, p).selected = Cost(records, OutcomeOf(outcomes, p).pick)
<1>. DEFINE rows == {outcomes[i] : i \in DOMAIN outcomes}
            by(p) == outcomes[MaxOf({i \in DOMAIN outcomes : outcomes[i].policy = p})]
<1>1. /\ selections_met(selections)
      /\ {o.policy : o \in rows} = Required \cup DOMAIN selections
      /\ \A p \in (Required \cup DOMAIN selections) \cap DOMAIN selections
                    \cap {o.policy : o \in rows} : by(p).pick \in selections[p].slate
      /\ \A o \in rows : Valid(records) = CandidateIds /\ o.selected = Cost(records, o.pick)
  BY DEF _policy_evidence_met
<1>2. \A p \in Required : p \in DOMAIN selections /\ selections[p].at = 0
                          /\ selections[p].slate \subseteq CandidateIds
  BY <1>1 DEF selections_met
<1>3. ASSUME NEW p \in Required
      PROVE  /\ OutcomeOf(outcomes, p).pick \in selections[p].slate
             /\ OutcomeOf(outcomes, p).selected = Cost(records, OutcomeOf(outcomes, p).pick)
  <2>1. by(p).pick \in selections[p].slate
    BY <1>1, <1>2, <1>3
  <2>2. OutcomeOf(outcomes, p) \in rows /\ by(p) = OutcomeOf(outcomes, p)
    BY <1>3, OneRow
  <2>. QED BY <1>1, <2>1, <2>2
<1>4. Valid(records) = CandidateIds
  <2>1. "cold" \in Required
    BY DEF Required
  <2>2. OutcomeOf(outcomes, "cold") \in rows
    BY <2>1, OneRow
  <2>. QED BY <1>1, <2>2
<1>. QED BY <1>2, <1>3, <1>4

LEMMA GateFollows ==
  ASSUME BundleInv
  PROVE  GateSound
<1>1. SUFFICES ASSUME bundle.analysis.state = "whole", bundle.analysis.gate
               PROVE  /\ bundle.stage = "full" /\ bundle.ended # "run-failure"
                      /\ Valid(bundle.records) = CandidateIds
                      /\ Len(bundle.records) = Cardinality(CandidateIds)
                      /\ bundle.selections = plan /\ \A p \in Required : plan[p].at = 0
                      /\ LET pick(p) == OutcomeOf(bundle.outcomes, p).pick
                             cost(p) == Cost(bundle.records, pick(p))
                         IN /\ \A p \in Required : pick(p) \in plan[p].slate
                            /\ 100 * cost("bounded") <= 95 * cost("cold")
                            /\ 100 * cost("bounded") <= 102 * cost("full-history")
  BY DEF GateSound, OutcomeOf
<1>2. /\ bundle.records \in Seq(MeasuredRecords) /\ IsSequence(bundle.outcomes)
      /\ \A i, j \in DOMAIN bundle.records :
           bundle.records[i].candidate = bundle.records[j].candidate => i = j
      /\ bundle.ended = "run-failure" =>
           \E i \in DOMAIN bundle.records : ~ bundle.records[i].valid
  BY DEF BundleInv, Fields, RunRecords
<1>3. /\ bundle.stage = "full" /\ bundle.outcomes # <<>> /\ bundle.selections # <<>>
      /\ _policy_evidence_met(bundle.records, bundle.selections, bundle.outcomes)
      /\ policy_integrity(bundle.outcomes) /\ gate_met(comparison(bundle.outcomes))
  BY <1>1 DEF BundleInv, GateCurrent, Analysis, analyze_policy_outcomes
<1>4. bundle.selections = plan
  BY <1>3 DEF BundleInv, SelectionsPlanned
<1>5. /\ Valid(bundle.records) = CandidateIds
      /\ \A p \in Required :
           /\ plan[p].at = 0
           /\ OutcomeOf(bundle.outcomes, p).pick \in plan[p].slate
           /\ OutcomeOf(bundle.outcomes, p).pick \in CandidateIds
           /\ OutcomeOf(bundle.outcomes, p).selected
                = Cost(bundle.records, OutcomeOf(bundle.outcomes, p).pick)
  BY <1>2, <1>3, <1>4, EvidenceMeans
<1>6. \A i \in DOMAIN bundle.records : bundle.records[i].candidate \in CandidateIds
  <2>1. \A i \in DOMAIN bundle.records : bundle.records[i] \in MeasuredRecords
    BY <1>2
  <2>. QED BY <2>1 DEF MeasuredRecords
<1>7. Measured(bundle.records) = CandidateIds
  BY <1>5, <1>6 DEF Measured, Valid
<1>8. Len(bundle.records) = Cardinality(CandidateIds)
  BY <1>2, <1>7, OneRecordEach
<1>9. bundle.ended # "run-failure"
  <2>1. SUFFICES ASSUME NEW i \in DOMAIN bundle.records, ~ bundle.records[i].valid
                 PROVE  FALSE
    BY <1>2
  <2>2. bundle.records[i].candidate \in Valid(bundle.records)
    BY <1>5, <1>6
  <2>3. PICK j \in DOMAIN bundle.records :
          bundle.records[j].valid /\ bundle.records[j].candidate = bundle.records[i].candidate
    BY <2>2 DEF Valid
  <2>. QED BY <1>2, <2>1, <2>3
<1>10. PICK cold, bounded, full :
         /\ cold = Cost(bundle.records, OutcomeOf(bundle.outcomes, "cold").pick)
         /\ bounded = Cost(bundle.records, OutcomeOf(bundle.outcomes, "bounded").pick)
         /\ full = Cost(bundle.records, OutcomeOf(bundle.outcomes, "full-history").pick)
  OBVIOUS
<1>11. cold \in Nat /\ bounded \in Nat /\ full \in Nat
  BY <1>2, <1>5, <1>7, <1>10, CostOfMeasured DEF Required
<1>12. /\ comparison(bundle.outcomes).cold = cold
       /\ comparison(bundle.outcomes).bounded = bounded
       /\ comparison(bundle.outcomes).full = full
  BY <1>5, <1>10 DEF comparison, OutcomeOf, Required
<1>13. /\ 100 * (cold - bounded) >= 5 * cold
       /\ ~ 100 * bounded > 102 * full
  BY <1>3, <1>12 DEF gate_met
<1>14. 100 * bounded <= 95 * cold /\ 100 * bounded <= 102 * full
  BY <1>11, <1>13
<1>. QED BY <1>3, <1>4, <1>5, <1>8, <1>9, <1>10, <1>14

----------------------------------------------------------------------------
(* The steps.                                                              *)

LEMMA InitInv == Init => BundleInv
<1>. SUFFICES ASSUME Init PROVE BundleInv
  OBVIOUS
<1>1. /\ bundle.outcomes = <<>> /\ cmd.todo = <<>> /\ bundle.records = <<>>
      /\ bundle.ended = "" /\ cmd.op = "none" /\ bundle.selections = <<>>
      /\ bundle.analysis.gate = FALSE /\ seal.state = "absent" /\ remote.marker = {}
  BY DEF Init, NoBundle, Idle, NoAnalysis
<1>2. IsSequence(<<>>)
  <2>1. <<>> \in Seq({1})
    OBVIOUS
  <2>. QED BY <2>1, SequenceIs
<1>3. Fields
  <2>1. /\ DOMAIN bundle = {"here", "stage", "records", "selections", "outcomes", "analysis",
                            "torn", "ended", "marker", "foreign"}
        /\ DOMAIN seal = {"state", "files"}
        /\ DOMAIN remote = {"data", "part", "manifest", "marker"}
        /\ DOMAIN cmd = {"op", "at", "left", "todo"}
    BY DEF Init, NoBundle, Idle
  <2>. QED BY <1>1, <1>2, <2>1 DEF Fields
<1>4. RunRecords /\ SelectionsPlanned /\ GateCurrent
  <2>1. <<>> \in Seq(MeasuredRecords) /\ DOMAIN <<>> = {}
    OBVIOUS
  <2>2. RunRecords
    BY <1>1, <2>1 DEF RunRecords
  <2>. QED BY <1>1, <2>2 DEF SelectionsPlanned, GateCurrent
<1>5. SealPhases /\ SyncPhases /\ RemoteSound
  BY <1>1 DEF SealPhases, SyncPhases, RemoteSound, Sealed
<1>. QED BY <1>3, <1>4, <1>5 DEF BundleInv

\* Steps that leave the records, selections, outcomes and the analysis alone.
SameFiles ==
  /\ bundle'.stage = bundle.stage /\ bundle'.records = bundle.records
  /\ bundle'.selections = bundle.selections /\ bundle'.outcomes = bundle.outcomes
  /\ bundle'.analysis = bundle.analysis

LEMMA GateKept ==
  ASSUME GateCurrent, SameFiles, cmd'.op # "analyze"
  PROVE  GateCurrent'
<1>1. Analysis(bundle).gate <=> Analysis(bundle').gate
  BY GateReads DEF SameFiles
<1>. QED BY <1>1 DEF GateCurrent, SameFiles

LEMMA PlanInv ==
  ASSUME BundleInv, NEW records, NEW s, command_experiment_plan(records, s)
  PROVE  BundleInv'
<1>1. UNCHANGED <<bundle, seal, remote, cmd>> /\ bundle.selections = <<>>
  BY DEF command_experiment_plan
<1>2. Fields' /\ RunRecords' /\ GateCurrent'
  BY <1>1 DEF BundleInv, Fields, RunRecords, GateCurrent
<1>3. SelectionsPlanned'
  BY <1>1 DEF SelectionsPlanned
<1>4. SealPhases' /\ SyncPhases' /\ RemoteSound'
  BY <1>1 DEF BundleInv, SealPhases, SyncPhases, RemoteSound, Sealed, Checked
<1>. QED BY <1>2, <1>3, <1>4 DEF BundleInv

\* A new bundle: no records, outcomes or analysis yet.
LEMMA RunInv ==
  ASSUME BundleInv, NEW m, NEW selected, NEW ready, NEW recovered,
         run_experiment(m, selected, ready, recovered)
  PROVE  BundleInv'
<1>1. /\ bundle'.records = <<>> /\ bundle'.outcomes = <<>> /\ bundle'.analysis = NoAnalysis
      /\ bundle'.selections = <<>> \/ bundle'.selections = plan
      /\ bundle'.ended \in {"", "aborted"}
      /\ DOMAIN bundle' = {"here", "stage", "records", "selections", "outcomes", "analysis",
                           "torn", "ended", "marker", "foreign"}
  BY DEF run_experiment, NoBundle
<1>2. /\ UNCHANGED <<plan, seal, remote>>
      /\ \/ /\ cmd' = [Idle EXCEPT !.op = "run", !.at = "measure", !.left = CandidateIds]
            /\ bundle'.ended = ""
         \/ cmd' = Idle
  BY DEF run_experiment, NoBundle
<1>3. /\ cmd'.op \in {"run", "none"} /\ cmd'.todo = <<>>
      /\ cmd'.op = "run" => bundle'.ended = ""
      /\ DOMAIN cmd' = {"op", "at", "left", "todo"}
  <2>1. CASE cmd' = Idle
    BY <2>1 DEF Idle
  <2>2. CASE /\ cmd' = [Idle EXCEPT !.op = "run", !.at = "measure", !.left = CandidateIds]
             /\ bundle'.ended = ""
    BY <2>2 DEF Idle
  <2>. QED BY <1>2, <2>1, <2>2
<1>4. IsSequence(<<>>)
  <2>1. <<>> \in Seq({1})
    OBVIOUS
  <2>. QED BY <2>1, SequenceIs
<1>5. Fields'
  <2>1. IsSequence(bundle'.outcomes) /\ IsSequence(cmd'.todo)
    BY <1>1, <1>3, <1>4
  <2>. QED BY <1>1, <1>2, <1>3, <2>1 DEF BundleInv, Fields, IsSequence
<1>6. RunRecords'
  <2>1. <<>> \in Seq(MeasuredRecords) /\ DOMAIN <<>> = {}
    OBVIOUS
  <2>2. ~ NoAnalysis.gate
    BY DEF NoAnalysis
  <2>. QED BY <1>1, <1>3, <2>1, <2>2 DEF RunRecords
<1>7. SelectionsPlanned' /\ GateCurrent'
  <2>1. bundle'.analysis.gate = FALSE
    <3>1. NoAnalysis.gate = FALSE
      BY DEF NoAnalysis
    <3>. QED BY <1>1, <3>1
  <2>2. GateCurrent'
    BY <2>1 DEF GateCurrent
  <2>. QED BY <1>1, <1>2, <2>2 DEF SelectionsPlanned
<1>8. SealPhases' /\ SyncPhases' /\ RemoteSound'
  BY <1>2, <1>3 DEF BundleInv, SealPhases, SyncPhases, RemoteSound, Sealed
<1>. QED BY <1>5, <1>6, <1>7, <1>8 DEF BundleInv

LEMMA SampleValid ==
  ASSUME NEW m \in Samples
  PROVE  m[1] \in BOOLEAN /\ m[2] \in BOOLEAN
<1>1. PICK i \in BOOLEAN, r \in Texts, w \in Texts : m = measure(i, r, w)
  BY DEF Samples
<1>2. CASE m = <<FALSE, FALSE>>
  BY <1>2
<1>3. CASE m = <<TRUE, parse_powermetrics(w, MinimumSamples)>>
  <2>1. parse_powermetrics(w, MinimumSamples) \in BOOLEAN
    BY DEF parse_powermetrics
  <2>. QED BY <1>3, <2>1
<1>. QED BY <1>1, <1>2, <1>3 DEF measure

LEMMA RecordTypes ==
  ASSUME NEW c \in CandidateIds, NEW n \in Native, NEW m \in Samples, NEW r,
         r = Record(c, m[1], m[2], n.cost, n.semantic, n.leak)
  PROVE  /\ r \in MeasuredRecords /\ r.candidate = c
         /\ ~ m[2] => ~ r.valid
<1>1. n.cost \in Nat /\ n.semantic \in BOOLEAN /\ n.leak \in BOOLEAN
  BY BundleConstants, LeastValue DEF Native
<1>2. m[1] \in BOOLEAN /\ m[2] \in BOOLEAN
  BY SampleValid
<1>. QED BY <1>1, <1>2 DEF Record, MeasuredRecords

\* A candidate is measured once: it leaves the candidates still to measure.
LEMMA MeasureInv ==
  ASSUME BundleInv, NEW c \in CandidateIds, NEW n \in Native, NEW m \in Samples,
         Measure(c, n, m)
  PROVE  BundleInv'
<1>1. PICK r : r = Record(c, m[1], m[2], n.cost, n.semantic, n.leak)
  OBVIOUS
<1>2. r \in MeasuredRecords /\ r.candidate = c /\ (~ m[2] => ~ r.valid)
  BY <1>1, RecordTypes
<1>3. /\ cmd.op = "run" /\ c \in cmd.left /\ bundle.ended = "" /\ ~ bundle.analysis.gate
      /\ \A i \in DOMAIN bundle.records : bundle.records[i].candidate \notin cmd.left
  BY DEF Measure, BundleInv, RunRecords, measurement_order
<1>4. UNCHANGED <<plan, seal, remote>>
  BY DEF Measure
<1>5. /\ DOMAIN bundle' = DOMAIN bundle /\ bundle'.records = Append(bundle.records, r)
      /\ bundle'.selections = bundle.selections /\ bundle'.outcomes = bundle.outcomes
      /\ bundle'.analysis = bundle.analysis
      /\ bundle'.ended = IF m[2] THEN bundle.ended ELSE "run-failure"
  BY <1>1 DEF Measure, BundleInv, Fields
<1>6. /\ DOMAIN cmd' = DOMAIN cmd /\ IsSequence(cmd'.todo)
      /\ m[2] => cmd'.op = "run" /\ cmd'.left = cmd.left \ {c}
      /\ ~ m[2] => cmd'.op = "none"
  <2>1. CASE m[2]
    BY <2>1 DEF Measure, BundleInv, Fields
  <2>2. CASE ~ m[2]
    <3>1. <<>> \in Seq({1})
      OBVIOUS
    <3>2. cmd' = Idle
      BY <2>2 DEF Measure
    <3>3. IsSequence(cmd'.todo)
      BY <3>1, <3>2, SequenceIs DEF Idle
    <3>. QED BY <2>2, <3>2, <3>3 DEF Idle, BundleInv, Fields
  <2>. QED BY <2>1, <2>2
<1>7. PICK k \in Nat : k = Len(bundle.records) /\ DOMAIN bundle.records = 1 .. k
  <2>1. bundle.records \in Seq(MeasuredRecords)
    BY DEF BundleInv, RunRecords
  <2>. QED BY <2>1
<1>8. /\ bundle'.records \in Seq(MeasuredRecords) /\ DOMAIN bundle'.records = 1 .. k + 1
      /\ bundle'.records[k + 1] = r
      /\ \A i \in 1 .. k : bundle'.records[i] = bundle.records[i]
  <2>1. PICK old, new : old = bundle.records /\ new = bundle'.records
    OBVIOUS
  <2>2. old \in Seq(MeasuredRecords) /\ new = Append(old, r)
    BY <1>5, <2>1 DEF BundleInv, RunRecords
  <2>. QED BY <1>2, <1>7, <2>1, <2>2
<1>9. RunRecords'
  <2>1. \A i, j \in DOMAIN bundle'.records :
          bundle'.records[i].candidate = bundle'.records[j].candidate => i = j
    <3>1. \A i \in 1 .. k : bundle'.records[i].candidate # r.candidate
      BY <1>2, <1>3, <1>7, <1>8
    <3>2. \A i, j \in 1 .. k :
            bundle'.records[i].candidate = bundle'.records[j].candidate => i = j
      BY <1>7, <1>8 DEF BundleInv, RunRecords
    <3>3. 1 .. k + 1 = (1 .. k) \cup {k + 1}
      BY <1>7
    <3>. QED BY <1>8, <3>1, <3>2, <3>3
  <2>2. bundle'.ended = "run-failure" => \E i \in DOMAIN bundle'.records :
          ~ bundle'.records[i].valid
    <3>1. k + 1 \in DOMAIN bundle'.records
      BY <1>7, <1>8
    <3>. QED BY <1>2, <1>3, <1>5, <1>8, <3>1
  <2>3. ASSUME cmd'.op = "run"
        PROVE  /\ bundle'.ended = "" /\ ~ bundle'.analysis.gate
               /\ \A i \in DOMAIN bundle'.records : bundle'.records[i].candidate \notin cmd'.left
    <3>1. m[2] /\ cmd'.left = cmd.left \ {c}
      BY <1>6, <2>3
    <3>2. \A i \in 1 .. k : bundle'.records[i].candidate \notin cmd'.left
      BY <1>3, <1>7, <1>8, <3>1
    <3>3. \A i \in DOMAIN bundle'.records : i \in 1 .. k \/ i = k + 1
      BY <1>7, <1>8
    <3>. QED BY <1>2, <1>3, <1>5, <1>8, <3>1, <3>2, <3>3
  <2>. QED BY <1>8, <2>1, <2>2, <2>3 DEF RunRecords
<1>10. Fields'
  BY <1>4, <1>5, <1>6 DEF BundleInv, Fields, IsSequence
<1>11. SelectionsPlanned' /\ GateCurrent'
  BY <1>3, <1>4, <1>5, <1>6 DEF BundleInv, SelectionsPlanned, GateCurrent
<1>12. SealPhases' /\ SyncPhases' /\ RemoteSound'
  BY <1>4, <1>6 DEF BundleInv, SealPhases, SyncPhases, RemoteSound, Sealed
<1>. QED BY <1>9, <1>10, <1>11, <1>12 DEF BundleInv

LEMMA FinishInv == ASSUME BundleInv, FinishRun PROVE BundleInv'
<1>1. /\ UNCHANGED <<plan, seal, remote>> /\ cmd' = Idle /\ SameFiles
      /\ DOMAIN bundle' = DOMAIN bundle /\ bundle'.ended = "summary"
  BY DEF FinishRun, BundleInv, Fields, SameFiles
<1>2. cmd'.op = "none" /\ cmd'.todo = <<>> /\ DOMAIN cmd' = {"op", "at", "left", "todo"}
  BY <1>1 DEF Idle
<1>3. Fields'
  <2>1. <<>> \in Seq({1})
    OBVIOUS
  <2>2. IsSequence(cmd'.todo)
    BY <1>2, <2>1, SequenceIs
  <2>. QED BY <1>1, <1>2, <2>2 DEF BundleInv, Fields, SameFiles, IsSequence
<1>4. RunRecords' /\ SelectionsPlanned'
  BY <1>1, <1>2 DEF BundleInv, RunRecords, SelectionsPlanned, SameFiles
<1>5. GateCurrent'
  BY <1>1, <1>2, GateKept DEF BundleInv
<1>6. SealPhases' /\ SyncPhases' /\ RemoteSound'
  BY <1>1, <1>2 DEF BundleInv, SealPhases, SyncPhases, RemoteSound, Sealed
<1>. QED BY <1>3, <1>4, <1>5, <1>6 DEF BundleInv

\* Outcomes are generated only where the file is empty, so that an analysis
\* written before did not report a gate.
LEMMA AnalyzeInv == ASSUME BundleInv, analyze_bundle PROVE BundleInv'
<1>. DEFINE generates == bundle.stage = "full" /\ bundle.selections # <<>>
                         /\ bundle.outcomes = <<>> /\ "outcomes" \notin bundle.torn
            made == generate_policy_outcomes(bundle.selections, bundle.records)
<1>1. /\ UNCHANGED <<plan, bundle, seal, remote>>
      /\ cmd' = [Idle EXCEPT !.op = "analyze", !.at = "append",
                   !.todo = IF generates THEN made ELSE <<>>]
  BY DEF analyze_bundle
<1>2. /\ cmd'.op = "analyze" /\ cmd'.todo = (IF generates THEN made ELSE <<>>)
      /\ DOMAIN cmd' = {"op", "at", "left", "todo"}
  BY <1>1 DEF Idle
<1>3. IsSequence(cmd'.todo)
  <2>1. IsSequence(made)
    <3>1. PICK n \in Nat : DOMAIN COMPARISON_POLICIES = 1 .. n
      BY BundleConstants
    <3>2. PICK T : T = {made[i] : i \in 1 .. n}
      OBVIOUS
    <3>3. made \in [1 .. n -> T]
      BY <3>1, <3>2 DEF generate_policy_outcomes
    <3>. QED BY <3>3, FunctionSequence
  <2>2. <<>> \in Seq({1})
    OBVIOUS
  <2>3. IsSequence(<<>>)
    BY <2>2, SequenceIs
  <2>. QED BY <1>2, <2>1, <2>3
<1>4. cmd'.todo # <<>> => ~ bundle.analysis.gate
  <2>1. SUFFICES ASSUME generates PROVE ~ bundle.analysis.gate
    BY <1>2
  <2>2. ~ Analysis(bundle).gate
    BY <2>1 DEF Analysis
  <2>. QED BY <2>2 DEF BundleInv, GateCurrent
<1>5. Fields'
  BY <1>1, <1>2, <1>3 DEF BundleInv, Fields, IsSequence
<1>6. RunRecords' /\ SelectionsPlanned'
  BY <1>1, <1>2 DEF BundleInv, RunRecords, SelectionsPlanned
<1>7. GateCurrent'
  BY <1>1, <1>4 DEF BundleInv, GateCurrent
<1>8. SealPhases' /\ SyncPhases' /\ RemoteSound'
  BY <1>1, <1>2 DEF BundleInv, SealPhases, SyncPhases, RemoteSound, Sealed
<1>. QED BY <1>5, <1>6, <1>7, <1>8 DEF BundleInv

LEMMA AppendInv == ASSUME BundleInv, append_jsonl PROVE BundleInv'
<1>1. /\ UNCHANGED <<plan, seal, remote>> /\ cmd.op = "analyze" /\ cmd.todo # <<>>
      /\ ~ bundle.analysis.gate
  BY DEF append_jsonl, BundleInv, GateCurrent
<1>2. /\ DOMAIN bundle' = DOMAIN bundle
      /\ bundle'.outcomes = Append(bundle.outcomes, Head(cmd.todo))
      /\ bundle'.records = bundle.records /\ bundle'.selections = bundle.selections
      /\ bundle'.ended = bundle.ended /\ bundle'.analysis = bundle.analysis
  BY DEF append_jsonl, BundleInv, Fields
<1>3. DOMAIN cmd' = DOMAIN cmd /\ cmd'.op = "analyze" /\ cmd'.todo = Tail(cmd.todo)
  BY <1>1 DEF append_jsonl, BundleInv, Fields
<1>4. Fields'
  <2>1. IsSequence(bundle'.outcomes)
    BY <1>2, AppendSequence DEF BundleInv, Fields
  <2>2. IsSequence(cmd'.todo)
    BY <1>1, <1>3, TailSequence DEF BundleInv, Fields
  <2>. QED BY <1>1, <1>2, <1>3, <2>1, <2>2 DEF BundleInv, Fields
<1>5. RunRecords' /\ SelectionsPlanned' /\ GateCurrent'
  BY <1>1, <1>2, <1>3 DEF BundleInv, RunRecords, SelectionsPlanned, GateCurrent
<1>6. SealPhases' /\ SyncPhases' /\ RemoteSound'
  BY <1>1, <1>3 DEF BundleInv, SealPhases, SyncPhases, RemoteSound, Sealed
<1>. QED BY <1>4, <1>5, <1>6 DEF BundleInv

\* The gate an analysis reports is the one its files give when it is written.
LEMMA WriteInv == ASSUME BundleInv, write_json PROVE BundleInv'
<1>1. /\ UNCHANGED <<plan, seal, remote>> /\ cmd.op = "analyze"
      /\ DOMAIN bundle' = DOMAIN bundle
      /\ bundle'.stage = bundle.stage /\ bundle'.records = bundle.records
      /\ bundle'.selections = bundle.selections /\ bundle'.outcomes = bundle.outcomes
      /\ bundle'.ended = bundle.ended
  BY DEF write_json, BundleInv, Fields
<1>2. \/ /\ bundle'.analysis = [NoAnalysis EXCEPT !.state = "torn"] /\ cmd.todo = <<>>
         /\ cmd' = [cmd EXCEPT !.at = "write"]
      \/ bundle'.analysis = Analysis(bundle) /\ cmd' = Idle
  BY DEF write_json, BundleInv, Fields
<1>3. GateCurrent' /\ cmd'.op \in {"analyze", "none"} /\ IsSequence(cmd'.todo)
      /\ DOMAIN cmd' = {"op", "at", "left", "todo"}
  <2>1. CASE /\ bundle'.analysis = [NoAnalysis EXCEPT !.state = "torn"] /\ cmd.todo = <<>>
             /\ cmd' = [cmd EXCEPT !.at = "write"]
    <3>1. [NoAnalysis EXCEPT !.state = "torn"].gate = FALSE
      BY DEF NoAnalysis
    <3>2. bundle'.analysis.gate = FALSE
      BY <2>1, <3>1
    <3>3. GateCurrent'
      BY <3>2 DEF GateCurrent
    <3>. QED BY <1>1, <2>1, <3>3 DEF BundleInv, Fields
  <2>2. CASE bundle'.analysis = Analysis(bundle) /\ cmd' = Idle
    <3>1. Analysis(bundle).gate <=> Analysis(bundle').gate
      BY <1>1, GateReads
    <3>2. Analysis(bundle).state = "whole"
      BY DEF Analysis
    <3>3. cmd'.op = "none" /\ cmd'.todo = <<>> /\ DOMAIN cmd' = {"op", "at", "left", "todo"}
      BY <2>2 DEF Idle
    <3>4. GateCurrent'
      BY <2>2, <3>1, <3>2, <3>3 DEF GateCurrent
    <3>5. <<>> \in Seq({1})
      OBVIOUS
    <3>6. IsSequence(cmd'.todo)
      BY <3>3, <3>5, SequenceIs
    <3>. QED BY <3>3, <3>4, <3>6
  <2>. QED BY <1>2, <2>1, <2>2
<1>4. Fields'
  BY <1>1, <1>3 DEF BundleInv, Fields, IsSequence
<1>5. RunRecords' /\ SelectionsPlanned'
  BY <1>1, <1>3 DEF BundleInv, RunRecords, SelectionsPlanned
<1>6. SealPhases' /\ SyncPhases' /\ RemoteSound'
  BY <1>1, <1>3 DEF BundleInv, SealPhases, SyncPhases, RemoteSound, Sealed
<1>. QED BY <1>3, <1>4, <1>5, <1>6 DEF BundleInv

\* Steps of `seal` and `sync` keep the parts that speak of run and analysis.
LEMMA RunPartsKept ==
  ASSUME BundleInv, SameFiles, UNCHANGED plan, DOMAIN bundle' = DOMAIN bundle,
         bundle'.ended = bundle.ended, cmd'.op \notin {"run", "analyze"}
  PROVE  /\ RunRecords' /\ SelectionsPlanned' /\ GateCurrent'
         /\ IsSequence(bundle'.outcomes)
<1>1. RunRecords' /\ SelectionsPlanned'
  BY DEF BundleInv, RunRecords, SelectionsPlanned, SameFiles
<1>2. GateCurrent'
  BY GateKept DEF BundleInv
<1>3. IsSequence(bundle'.outcomes)
  BY DEF BundleInv, Fields, SameFiles
<1>. QED BY <1>1, <1>2, <1>3

LEMMA IdleFacts ==
  ASSUME cmd' = Idle
  PROVE  /\ cmd'.op = "none" /\ IsSequence(cmd'.todo)
         /\ DOMAIN cmd' = {"op", "at", "left", "todo"}
<1>1. <<>> \in Seq({1})
  OBVIOUS
<1>2. cmd'.op = "none" /\ cmd'.todo = <<>> /\ DOMAIN cmd' = {"op", "at", "left", "todo"}
  BY DEF Idle
<1>. QED BY <1>1, <1>2, SequenceIs

\* The marker is not part of the data it names.
LEMMA MarkedData ==
  ASSUME NEW b, NEW m
  PROVE  Data([b EXCEPT !.marker = m]) = Data(b)
BY DEF Data

LEMMA SealInv == ASSUME BundleInv, seal_bundle PROVE BundleInv'
<1>1. /\ UNCHANGED <<plan, seal, remote>> /\ SameFiles /\ DOMAIN bundle' = DOMAIN bundle
      /\ bundle'.ended = bundle.ended /\ ~ Sealed
      /\ bundle.analysis.state # "absent" /\ _scan_sensitive(bundle)
  BY DEF seal_bundle, BundleInv, Fields, SameFiles, require_mutable
<1>2. /\ cmd'.op = "seal" /\ cmd'.at = "marker" /\ cmd'.todo = <<>>
      /\ DOMAIN cmd' = {"op", "at", "left", "todo"}
  BY DEF seal_bundle, Idle
<1>3. RunRecords' /\ SelectionsPlanned' /\ GateCurrent' /\ IsSequence(bundle'.outcomes)
  BY <1>1, <1>2, RunPartsKept
<1>4. Fields'
  <2>1. <<>> \in Seq({1})
    OBVIOUS
  <2>2. IsSequence(cmd'.todo)
    BY <1>2, <2>1, SequenceIs
  <2>. QED BY <1>1, <1>2, <1>3, <2>2 DEF BundleInv, Fields
<1>5. SealPhases'
  BY <1>1, <1>2 DEF BundleInv, SealPhases, Sealed, SameFiles, _scan_sensitive
<1>6. SyncPhases' /\ RemoteSound'
  BY <1>1, <1>2 DEF BundleInv, SyncPhases, RemoteSound
<1>. QED BY <1>3, <1>4, <1>5, <1>6 DEF BundleInv

\* The marker is written over unchanged data, and the manifest over both.
LEMMA SealStepInv == ASSUME BundleInv, SealStep PROVE BundleInv'
<1>1. /\ UNCHANGED <<plan, remote>> /\ SameFiles /\ DOMAIN bundle' = DOMAIN bundle
      /\ bundle'.ended = bundle.ended /\ cmd.op = "seal"
  BY DEF SealStep, BundleInv, Fields, SameFiles
<1>2. /\ cmd'.op \in {"seal", "none"} /\ IsSequence(cmd'.todo)
      /\ DOMAIN cmd' = {"op", "at", "left", "todo"}
      /\ DOMAIN seal' = DOMAIN seal
  <2>1. CASE cmd' = Idle
    <3>1. DOMAIN seal' = DOMAIN seal
      BY DEF SealStep, BundleInv, Fields
    <3>. QED BY <2>1, <3>1, IdleFacts
  <2>2. CASE cmd' = [cmd EXCEPT !.at = "manifest"] \/ cmd' = [cmd EXCEPT !.at = "write"]
    <3>1. cmd'.op = "seal" /\ cmd'.todo = cmd.todo /\ DOMAIN cmd' = DOMAIN cmd
      BY <1>1, <2>2 DEF BundleInv, Fields
    <3>2. DOMAIN seal' = DOMAIN seal
      BY DEF SealStep, BundleInv, Fields
    <3>. QED BY <3>1, <3>2 DEF BundleInv, Fields
  <2>. QED BY <2>1, <2>2 DEF SealStep
<1>3. RunRecords' /\ SelectionsPlanned' /\ GateCurrent' /\ IsSequence(bundle'.outcomes)
  BY <1>1, <1>2, RunPartsKept
<1>4. Fields'
  BY <1>1, <1>2, <1>3 DEF BundleInv, Fields
<1>5. /\ seal.state \in {"absent", "torn", "whole"}
      /\ Sealed => \A b \in seal.files : SealedBundle(b)
      /\ cmd.at \in {"marker", "manifest"} =>
           ~ Sealed /\ bundle.analysis.state # "absent" /\ _scan_sensitive(bundle)
      /\ cmd.at = "manifest" => SealedBundle(bundle)
      /\ cmd.at = "write" => seal.state = "torn"
      /\ remote.marker # {} => seal.state = "whole"
  BY <1>1 DEF BundleInv, SealPhases, RemoteSound
<1>6. SealPhases' /\ remote.marker = {}
  <2>1. CASE cmd.at = "marker"
    <3>1. /\ bundle' = [bundle EXCEPT !.marker = [state |-> "whole", data |-> {Data(bundle)}]]
          /\ cmd' = [cmd EXCEPT !.at = "manifest"] /\ seal' = seal
      BY <2>1 DEF SealStep
    <3>2. cmd'.op = "seal" /\ cmd'.at = "manifest"
      BY <1>1, <3>1 DEF BundleInv, Fields
    <3>3. bundle'.marker = [state |-> "whole", data |-> {Data(bundle)}]
      BY <3>1 DEF BundleInv, Fields
    <3>4. Data(bundle') = Data(bundle)
      BY <3>1, MarkedData
    <3>5. SealedBundle(bundle')
      BY <1>1, <1>5, <2>1, <3>3, <3>4 DEF SealedBundle, SameFiles, _scan_sensitive
    <3>. QED BY <1>5, <2>1, <3>1, <3>2, <3>5 DEF SealPhases, Sealed, SealedBundle
  <2>2. CASE cmd.at = "manifest"
    <3>1. seal' = [state |-> "torn", files |-> {bundle}] /\ cmd' = [cmd EXCEPT !.at = "write"]
      BY <2>2 DEF SealStep
    <3>2. cmd'.op = "seal" /\ cmd'.at = "write"
      BY <1>1, <3>1 DEF BundleInv, Fields
    <3>3. seal'.state = "torn" /\ \A b \in seal'.files : SealedBundle(b)
      BY <1>5, <2>2, <3>1
    <3>. QED BY <1>5, <2>2, <3>2, <3>3 DEF SealPhases, Sealed
  <2>3. CASE cmd.at = "write"
    <3>1. seal' = [seal EXCEPT !.state = "whole"] /\ cmd' = Idle
      BY <2>3 DEF SealStep
    <3>2. cmd'.op = "none"
      BY <3>1, IdleFacts
    <3>3. seal'.state = "whole" /\ seal'.files = seal.files
      BY <3>1 DEF BundleInv, Fields
    <3>. QED BY <1>5, <2>3, <3>2, <3>3 DEF SealPhases, Sealed
  <2>. QED BY <2>1, <2>2, <2>3 DEF SealStep
<1>7. SyncPhases' /\ RemoteSound'
  BY <1>1, <1>2, <1>6 DEF SyncPhases, RemoteSound
<1>. QED BY <1>3, <1>4, <1>6, <1>7 DEF BundleInv

LEMMA SyncInv == ASSUME BundleInv, sync PROVE BundleInv'
<1>1. UNCHANGED <<plan, bundle, seal, remote>> /\ verify /\ remote.marker = {} /\ SameFiles
  BY DEF sync, SameFiles
<1>2. /\ cmd'.op = "sync" /\ cmd'.at = "copy" /\ cmd'.todo = <<>>
      /\ DOMAIN cmd' = {"op", "at", "left", "todo"}
  BY DEF sync, Idle
<1>3. RunRecords' /\ SelectionsPlanned' /\ GateCurrent' /\ IsSequence(bundle'.outcomes)
  BY <1>1, <1>2, RunPartsKept
<1>4. Fields'
  <2>1. <<>> \in Seq({1})
    OBVIOUS
  <2>2. IsSequence(cmd'.todo)
    BY <1>2, <2>1, SequenceIs
  <2>. QED BY <1>1, <1>2, <1>3, <2>2 DEF BundleInv, Fields
<1>5. SealPhases' /\ SyncPhases' /\ RemoteSound'
  BY <1>1, <1>2 DEF BundleInv, SealPhases, Sealed, SyncPhases, RemoteSound, verify
<1>. QED BY <1>3, <1>4, <1>5 DEF BundleInv

\* The marker goes up over data that was checked against the sealed bundle, or
\* against what the bundle had become when it was copied.
LEMMA SyncStepInv == ASSUME BundleInv, NEW works \in BOOLEAN, SyncStep(works) PROVE BundleInv'
<1>1. UNCHANGED <<plan, bundle, seal>> /\ SameFiles /\ cmd.op = "sync"
  BY DEF SyncStep, SameFiles
<1>2. PICK b \in seal.files : bundle \in {b, ChangedInSync(b)} /\ (cmd.at = "marker" => Checked(b))
  BY <1>1 DEF BundleInv, SyncPhases
<1>3. seal.state = "whole" /\ remote.marker = {} /\ (cmd.at = "check" => remote.manifest)
  BY <1>1 DEF BundleInv, SyncPhases
<1>4. /\ SealedBundle(b) /\ bundle.marker = b.marker
      /\ Data(bundle) \in {Data(b), Data(ChangedInSync(b))}
  <2>1. SealedBundle(b)
    BY <1>3 DEF BundleInv, SealPhases, Sealed
  <2>2. bundle.marker = b.marker
    <3>1. "marker" \in DOMAIN bundle
      BY DEF BundleInv, Fields
    <3>2. DOMAIN ChangedInSync(b) = DOMAIN b
      BY DEF ChangedInSync
    <3>3. "marker" \in DOMAIN b
      BY <1>2, <3>1, <3>2
    <3>. QED BY <1>2, <3>3 DEF ChangedInSync
  <2>. QED BY <1>2, <2>1, <2>2
<1>5. /\ DOMAIN cmd' = {"op", "at", "left", "todo"} /\ IsSequence(cmd'.todo)
      /\ cmd'.op \in {"sync", "none"} /\ DOMAIN remote' = DOMAIN remote
      /\ SyncPhases' /\ RemoteSound'
  <2>1. CASE cmd.at = "copy"
    <3>1. /\ remote' = [remote EXCEPT !.data = IF @ = {} THEN {Data(bundle)} ELSE @,
                          !.part = ~ works, !.manifest = works \/ @]
          /\ cmd' = IF works THEN [cmd EXCEPT !.at = "check"] ELSE Idle
      BY <2>1 DEF SyncStep
    <3>2. DOMAIN remote' = DOMAIN remote /\ remote'.marker = {} /\ (works => remote'.manifest)
      BY <1>3, <3>1 DEF BundleInv, Fields
    <3>3. CASE works
      <4>1. cmd'.op = "sync" /\ cmd'.at = "check" /\ cmd'.todo = cmd.todo
            /\ DOMAIN cmd' = DOMAIN cmd
        BY <1>1, <3>1, <3>3 DEF BundleInv, Fields
      <4>2. SyncPhases' /\ RemoteSound'
        BY <1>1, <1>2, <1>3, <3>2, <3>3, <4>1 DEF SyncPhases, RemoteSound
      <4>. QED BY <3>2, <4>1, <4>2 DEF BundleInv, Fields
    <3>4. CASE ~ works
      <4>1. cmd' = Idle
        BY <3>1, <3>4
      <4>. QED BY <3>2, <4>1, IdleFacts DEF SyncPhases, RemoteSound
    <3>. QED BY <3>3, <3>4
  <2>2. CASE cmd.at = "check"
    <3>1. /\ remote' = remote
          /\ \/ cmd' = Idle
             \/ /\ cmd' = [cmd EXCEPT !.at = "marker"]
                /\ ~ remote.part /\ remote.data = {Data(bundle)}
      BY <2>2 DEF SyncStep
    <3>2. CASE cmd' = Idle
      BY <1>3, <3>1, <3>2, IdleFacts DEF SyncPhases, RemoteSound
    <3>3. CASE /\ cmd' = [cmd EXCEPT !.at = "marker"]
               /\ ~ remote.part /\ remote.data = {Data(bundle)}
      <4>1. cmd'.op = "sync" /\ cmd'.at = "marker" /\ cmd'.todo = cmd.todo
            /\ DOMAIN cmd' = DOMAIN cmd
        BY <1>1, <3>3 DEF BundleInv, Fields
      <4>2. Checked(b)'
        BY <1>2, <1>3, <1>4, <2>2, <3>1, <3>3 DEF Checked
      <4>3. SyncPhases' /\ RemoteSound'
        BY <1>1, <1>2, <1>3, <3>1, <4>1, <4>2 DEF SyncPhases, RemoteSound
      <4>. QED BY <3>1, <4>1, <4>3 DEF BundleInv, Fields
    <3>. QED BY <3>1, <3>2, <3>3
  <2>3. CASE cmd.at = "marker"
    <3>1. /\ remote' = [remote EXCEPT !.marker = IF works THEN {bundle.marker} ELSE @]
          /\ cmd' = Idle
      BY <2>3 DEF SyncStep
    <3>2. /\ DOMAIN remote' = DOMAIN remote /\ remote'.data = remote.data
          /\ remote'.part = remote.part /\ remote'.manifest = remote.manifest
          /\ remote'.marker = {bundle.marker} \/ remote'.marker = {}
      BY <1>3, <3>1 DEF BundleInv, Fields
    <3>3. RemoteSound'
      BY <1>1, <1>2, <1>3, <1>4, <2>3, <3>2 DEF RemoteSound, SealedBundle, Checked
    <3>. QED BY <3>1, <3>2, <3>3, IdleFacts DEF SyncPhases
  <2>. QED BY <2>1, <2>2, <2>3 DEF SyncStep
<1>6. RunRecords' /\ SelectionsPlanned' /\ GateCurrent' /\ IsSequence(bundle'.outcomes)
  BY <1>1, <1>5, RunPartsKept
<1>7. Fields'
  BY <1>1, <1>5, <1>6 DEF BundleInv, Fields
<1>8. SealPhases'
  BY <1>1, <1>5 DEF BundleInv, SealPhases, Sealed
<1>. QED BY <1>5, <1>6, <1>7, <1>8 DEF BundleInv

LEMMA CrashInv == ASSUME BundleInv, Crash PROVE BundleInv'
<1>1. /\ UNCHANGED <<plan, seal, remote>> /\ SameFiles /\ DOMAIN bundle' = DOMAIN bundle
      /\ bundle'.ended = bundle.ended /\ cmd' = Idle
  BY DEF Crash, BundleInv, Fields, SameFiles
<1>2. /\ cmd'.op = "none" /\ IsSequence(cmd'.todo)
      /\ DOMAIN cmd' = {"op", "at", "left", "todo"}
  BY <1>1, IdleFacts
<1>3. RunRecords' /\ SelectionsPlanned' /\ GateCurrent' /\ IsSequence(bundle'.outcomes)
  BY <1>1, <1>2, RunPartsKept
<1>4. Fields'
  BY <1>1, <1>2, <1>3 DEF BundleInv, Fields
<1>5. SealPhases' /\ SyncPhases' /\ RemoteSound'
  BY <1>1, <1>2 DEF BundleInv, SealPhases, Sealed, SyncPhases, RemoteSound
<1>. QED BY <1>3, <1>4, <1>5 DEF BundleInv

\* Files supplied by hand come before any analysis, which would report a gate.
LEMMA NoGateYet == ASSUME BundleInv, bundle.analysis.state = "absent"
                   PROVE  ~ bundle.analysis.gate
BY DEF BundleInv, GateCurrent

LEMMA SelectionsInv == ASSUME BundleInv, SupplySelections PROVE BundleInv'
<1>1. /\ UNCHANGED <<plan, seal, remote, cmd>> /\ DOMAIN bundle' = DOMAIN bundle
      /\ bundle'.selections = plan /\ bundle'.analysis = bundle.analysis
      /\ bundle'.ended = bundle.ended /\ bundle'.records = bundle.records
      /\ bundle'.outcomes = bundle.outcomes /\ ~ Sealed
      /\ bundle.analysis.state = "absent" /\ cmd = Idle
  BY DEF SupplySelections, BundleInv, Fields
<1>2. ~ bundle.analysis.gate /\ cmd.op = "none"
  BY <1>1, NoGateYet DEF Idle
<1>3. Fields' /\ RunRecords' /\ SelectionsPlanned' /\ GateCurrent'
  BY <1>1, <1>2 DEF BundleInv, Fields, RunRecords, SelectionsPlanned, GateCurrent
<1>4. SealPhases' /\ SyncPhases' /\ RemoteSound'
  BY <1>1, <1>2 DEF BundleInv, SealPhases, Sealed, SyncPhases, RemoteSound
<1>. QED BY <1>3, <1>4 DEF BundleInv

\* An altered outcome file is still a list of rows.
LEMMA AlteredSequence ==
  ASSUME NEW how \in Alterations, NEW i, NEW c, NEW selections, NEW records
  PROVE  IsSequence(Altered(generate_policy_outcomes(selections, records), how, i, c))
<1>1. PICK f : f = generate_policy_outcomes(selections, records)
  OBVIOUS
<1>2. PICK n \in Nat : DOMAIN COMPARISON_POLICIES = 1 .. n
  BY BundleConstants
<1>3. DOMAIN f = 1 .. n /\ f = [j \in 1 .. n |-> f[j]]
  BY <1>1, <1>2 DEF generate_policy_outcomes
<1>4. IsSequence(f)
  <2>1. f \in [1 .. n -> {f[j] : j \in 1 .. n}]
    BY <1>3
  <2>. QED BY <2>1, FunctionSequence
<1>5. ASSUME NEW r PROVE IsSequence([f EXCEPT ![i] = r])
  <2>1. PICK g : g = [f EXCEPT ![i] = r]
    OBVIOUS
  <2>2. g = [j \in 1 .. n |-> g[j]]
    BY <1>3, <2>1
  <2>3. g \in [1 .. n -> {g[j] : j \in 1 .. n}]
    BY <2>2
  <2>. QED BY <2>1, <2>3, FunctionSequence
<1>6. IsSequence(SubSeq(f, 1, Len(f) - 1))
  <2>1. f \in Seq(Range(f))
    BY <1>4 DEF IsSequence
  <2>2. SubSeq(f, 1, Len(f) - 1) \in Seq(Range(f))
    BY <2>1
  <2>. QED BY <2>2, SequenceIs
<1>7. IsSequence(Append(f, f[i]))
  BY <1>4, AppendSequence
<1>8. how \in {"pick", "better", "missing", "twice", "slow", "otherrun"}
  BY BundleConstants
<1>9. IsSequence(Altered(f, how, i, c))
  <2>1. CASE how = "pick"
    BY <1>5, <2>1 DEF Altered
  <2>2. CASE how = "better"
    BY <1>5, <2>2 DEF Altered
  <2>3. CASE how = "missing"
    BY <1>6, <2>3 DEF Altered
  <2>4. CASE how = "twice"
    BY <1>7, <2>4 DEF Altered
  <2>5. CASE how = "slow"
    BY <1>5, <2>5 DEF Altered
  <2>6. CASE how = "otherrun"
    BY <1>5, <2>6 DEF Altered
  <2>. QED BY <1>8, <2>1, <2>2, <2>3, <2>4, <2>5, <2>6
<1>. QED BY <1>1, <1>9

LEMMA OutcomesInv ==
  ASSUME BundleInv, NEW how \in Alterations, NEW i, NEW c, SupplyOutcomes(how, i, c)
  PROVE  BundleInv'
<1>1. /\ UNCHANGED <<plan, seal, remote, cmd>> /\ DOMAIN bundle' = DOMAIN bundle
      /\ bundle'.selections = bundle.selections /\ bundle'.analysis = bundle.analysis
      /\ bundle'.ended = bundle.ended /\ bundle'.records = bundle.records /\ ~ Sealed
      /\ bundle'.outcomes = Altered(generate_policy_outcomes(bundle.selections, bundle.records),
                                    how, i, c)
      /\ bundle.analysis.state = "absent" /\ cmd = Idle
  BY DEF SupplyOutcomes, BundleInv, Fields
<1>2. ~ bundle.analysis.gate /\ cmd.op = "none"
  BY <1>1, NoGateYet DEF Idle
<1>3. IsSequence(bundle'.outcomes)
  BY <1>1, AlteredSequence
<1>4. Fields'
  BY <1>1, <1>3 DEF BundleInv, Fields
<1>5. RunRecords' /\ SelectionsPlanned' /\ GateCurrent'
  BY <1>1, <1>2 DEF BundleInv, RunRecords, SelectionsPlanned, GateCurrent
<1>6. SealPhases' /\ SyncPhases' /\ RemoteSound'
  BY <1>1, <1>2 DEF BundleInv, SealPhases, Sealed, SyncPhases, RemoteSound
<1>. QED BY <1>4, <1>5, <1>6 DEF BundleInv

LEMMA DamageInv == ASSUME BundleInv, Damage PROVE BundleInv'
<1>1. /\ UNCHANGED <<plan, seal, remote, cmd>> /\ DOMAIN bundle' = DOMAIN bundle
      /\ SameFiles /\ bundle'.ended = bundle.ended /\ Sealed
  BY DEF Damage, BundleInv, Fields, SameFiles
<1>2. Fields' /\ RunRecords' /\ SelectionsPlanned'
  BY <1>1 DEF BundleInv, Fields, RunRecords, SelectionsPlanned, SameFiles
<1>3. GateCurrent'
  <2>1. Analysis(bundle).gate <=> Analysis(bundle').gate
    BY <1>1, GateReads DEF SameFiles
  <2>. QED BY <1>1, <2>1 DEF BundleInv, GateCurrent, SameFiles
<1>4. SealPhases' /\ RemoteSound'
  BY <1>1 DEF BundleInv, SealPhases, Sealed, RemoteSound
<1>5. SyncPhases'
  <2>. SUFFICES ASSUME cmd.op = "sync" PROVE SyncPhases'
    BY <1>1 DEF SyncPhases
  <2>1. PICK b \in seal.files : bundle \in {b, ChangedInSync(b)} /\ (cmd.at = "marker" => Checked(b))
    BY DEF BundleInv, SyncPhases
  <2>2. bundle' = ChangedInSync(bundle)
    BY DEF Damage, ChangedInSync
  <2>3. ChangedInSync(ChangedInSync(b)) = ChangedInSync(b)
    BY DEF ChangedInSync
  <2>4. bundle' = ChangedInSync(b)
    BY <2>1, <2>2, <2>3
  <2>. QED BY <1>1, <2>1, <2>4 DEF BundleInv, SyncPhases, Checked
<1>. QED BY <1>2, <1>3, <1>4, <1>5 DEF BundleInv

LEMMA StutterInv == ASSUME BundleInv, UNCHANGED vars PROVE BundleInv'
<1>1. UNCHANGED <<plan, bundle, seal, remote, cmd>>
  BY DEF vars
<1>. QED BY <1>1 DEF BundleInv, Fields, RunRecords, SelectionsPlanned, GateCurrent, SealPhases,
                     SyncPhases, RemoteSound, Sealed, Checked

LEMMA StepInv == ASSUME BundleInv, [Next]_vars PROVE BundleInv'
BY PlanInv, RunInv, MeasureInv, FinishInv, AnalyzeInv, AppendInv, WriteInv, SealInv,
   SealStepInv, SyncInv, SyncStepInv, CrashInv, SelectionsInv, OutcomesInv, DamageInv,
   StutterInv DEF Next

\* A bundle's gate and its remote copy can be relied on (analysis.py,
\* research_bundle.py): whatever the costs, the manifests and the order of the
\* commands, whichever of them died, and whoever wrote the outcome file, a
\* ready gate rests on a complete valid measurement of what was selected
\* before it, and a remote marker is of a bundle that was verified when its
\* sync began, copied as it was or with a file that changed meanwhile.
THEOREM BundleIsSound == Spec => []BundleSound
<1>1. BundleInv /\ [Next]_vars => BundleInv'
  BY StepInv
<1>2. BundleInv => BundleSound
  BY GateFollows DEF BundleSound, BundleInv
<1>. QED BY InitInv, <1>1, <1>2, PTL DEF Spec

\* What is sealed stays as it was sealed (require_mutable), and once the remote
\* holds a completion marker, no command changes what it holds (`sync` refuses).
SealedForGood ==
  /\ seal.state = "whole" => seal' = seal
  /\ remote.marker # {} => remote' = remote

\* No step of any command, a late one included, breaks the two promises above.
THEOREM SealIsFinal == Spec => [][SealedForGood]_vars
<1>1. ASSUME BundleInv, [Next]_vars PROVE [SealedForGood]_vars
  <2>1. CASE SealStep
    BY <1>1, <2>1 DEF SealStep, SealedForGood, BundleInv, SealPhases, Sealed
  <2>2. ASSUME NEW works \in BOOLEAN, SyncStep(works) PROVE SealedForGood
    BY <1>1, <2>2 DEF SyncStep, SealedForGood, BundleInv, SyncPhases
  <2>3. CASE UNCHANGED <<seal, remote>>
    BY <2>3 DEF SealedForGood
  <2>4. CASE UNCHANGED vars
    BY <2>4
  <2>. QED BY <1>1, <2>1, <2>2, <2>3, <2>4
           DEF Next, command_experiment_plan, run_experiment, Measure, FinishRun, analyze_bundle,
               append_jsonl, write_json, seal_bundle, sync, Crash, SupplySelections,
               SupplyOutcomes, Damage
<1>2. BundleInv /\ [Next]_vars => BundleInv'
  BY StepInv
<1>. QED BY InitInv, <1>1, <1>2, PTL DEF Spec

----------------------------------------------------------------------------
(* The showcase of the command graph.                                      *)

\* What the files of the showcase can be.
CacheFiles ==
  [node : Inputs, recipe : {"original", "mutation"}, input : Nat, claimed : Int, payload : Int]

ShowcaseTypes ==
  /\ idx \in Inputs /\ digest \in Nat /\ edits \in Nat
  /\ active \in {"original", "mutation"}
  /\ original \in [Inputs -> Nat] /\ mutation \in [Inputs -> Nat]
  /\ recipe \in [Inputs -> {"original", "mutation"}]
  /\ cache \in SUBSET CacheFiles

\* The name of an entry is true to the input it was computed from, unless an
\* editor came between the digest and the run of the node.
EntriesSound ==
  \A e \in cache : e.claimed # Spoiled /\ (edits = 0 => e.claimed = Sort(e.input))

\* A node that is about to run reads the bytes that were digested: a path that
\* commands write is never written again.
DigestCurrent ==
  pc = "single" =>
    /\ active = "mutation" => mutation[idx] # ABSENT
    /\ edits = 0 => digest = Read(idx, active)

ShowcaseInv == ShowcaseTypes /\ EntriesSound /\ DigestCurrent /\ ReuseSound

THEOREM ShowcaseInitially == ShowcaseInit => ShowcaseInv
BY ShowcaseConstants DEF ShowcaseInit, ShowcaseInv, ShowcaseTypes, EntriesSound, DigestCurrent,
   ReuseSound, Inputs, ABSENT

\* Steps that leave the inputs, the cache and the reuses alone, and no node
\* about to run that was not.
LEMMA QuietShowcase ==
  ASSUME ShowcaseInv, UNCHANGED <<original, mutation, active, digest, cache, edits>>,
         idx' \in Inputs, recipe' \in [Inputs -> {"original", "mutation"}], reused' \in SUBSET reused,
         pc' = "single" => pc = "single" /\ idx' = idx
  PROVE  ShowcaseInv'
BY DEF ShowcaseInv, ShowcaseTypes, EntriesSound, DigestCurrent, ReuseSound, Read

\* The next index stays in range.
LEMMA NextIndex ==
  ASSUME idx \in Inputs
  PROVE  (IF idx = N THEN 1 ELSE idx + 1) \in Inputs
BY ShowcaseConstants DEF Inputs

LEMMA PrepareStep ==
  ASSUME ShowcaseInv, prepare_showcase
  PROVE  ShowcaseInv'
<1>1. original' \in [Inputs -> Nat]
  BY DEF prepare_showcase, ShowcaseInv, ShowcaseTypes, _input_bytes, Inputs
<1>2. idx' \in Inputs /\ pc' # "single"
  BY NextIndex DEF prepare_showcase, ShowcaseInv, ShowcaseTypes
<1>3. UNCHANGED <<mutation, recipe, active, digest, cache, reused, edits>>
  BY DEF prepare_showcase
<1> QED
  BY <1>1, <1>2, <1>3
  DEF ShowcaseInv, ShowcaseTypes, EntriesSound, DigestCurrent, ReuseSound

LEMMA MutateStep ==
  ASSUME ShowcaseInv, NEW i \in Inputs, mutate_showcase(i)
  PROVE  ShowcaseInv'
<1> USE DEF ShowcaseInv, ShowcaseTypes
<1>1. mutation[i] = ABSENT /\ mutation' = [mutation EXCEPT ![i] = Mutated(original[i])]
  BY DEF mutate_showcase
<1>2. UNCHANGED <<pc, original, recipe, idx, active, digest, cache, reused, edits>>
  BY DEF mutate_showcase
<1>3. mutation' \in [Inputs -> Nat] /\ \A j \in Inputs \ {i} : mutation'[j] = mutation[j]
  BY <1>1 DEF Mutated
<1>4. DigestCurrent'
  <2> SUFFICES ASSUME pc = "single"
               PROVE  /\ active = "mutation" => mutation'[idx] # ABSENT
                      /\ edits = 0 => digest = IF active = "mutation" THEN mutation'[idx] ELSE original[idx]
    BY <1>2 DEF DigestCurrent, Read
  <2>1. active = "mutation" => i # idx
    BY <1>1 DEF DigestCurrent
  <2> QED
    BY <1>3, <2>1 DEF DigestCurrent, Read
<1> QED
  BY <1>2, <1>3, <1>4 DEF EntriesSound, ReuseSound

LEMMA LookupStep ==
  ASSUME ShowcaseInv, Lookup
  PROVE  ShowcaseInv'
<1> USE DEF ShowcaseInv, ShowcaseTypes
<1> DEFINE d == Read(idx, active_input_path(idx))
<1> DEFINE hits == _cache_hit(idx, d)
<1>1. active' = active_input_path(idx) /\ digest' = d
      /\ UNCHANGED <<original, mutation, recipe, cache, edits>>
  BY DEF Lookup
<1>2. active' \in {"original", "mutation"} /\ digest' \in Nat
      /\ (active' = "mutation" => mutation[idx] # ABSENT)
  BY <1>1 DEF active_input_path, Read
<1>3. CASE hits # {}
  <2> DEFINE e == CHOOSE x \in hits : TRUE
  <2>1. e \in cache /\ e.input = d /\ e.payload = e.claimed
    <3>1. e \in hits
      BY <1>3
    <3> QED
      BY <3>1 DEF _cache_hit, Entry
  <2>2. e.payload # Spoiled /\ (edits = 0 => e.payload = Sort(d))
    BY <2>1 DEF EntriesSound
  <2>3. reused' = reused \cup {[input |-> d, payload |-> e.payload]}
    BY <1>3 DEF Lookup
  <2>4. idx' \in Inputs /\ pc' # "single"
    BY <1>3, NextIndex DEF Lookup
  <2>5. ReuseSound'
    <3> SUFFICES ASSUME NEW r \in reused'
                 PROVE  r.payload # Spoiled /\ (edits = 0 => r.payload = Sort(r.input))
      BY <1>1 DEF ReuseSound
    <3> QED
      BY <2>2, <2>3 DEF ReuseSound
  <2> QED
    BY <1>1, <1>2, <2>4, <2>5 DEF EntriesSound, DigestCurrent
<1>4. CASE hits = {}
  <2>1. pc' = "single" /\ UNCHANGED <<idx, reused>>
    BY <1>4 DEF Lookup
  <2>2. DigestCurrent'
    BY <1>1, <1>2, <2>1 DEF DigestCurrent, Read
  <2> QED
    BY <1>1, <1>2, <2>1, <2>2 DEF EntriesSound, ReuseSound
<1> QED
  BY <1>3, <1>4

LEMMA SingleStep ==
  ASSUME ShowcaseInv, _single_node_output
  PROVE  ShowcaseInv'
<1> USE DEF ShowcaseInv, ShowcaseTypes
<1> DEFINE out == Sort(Read(idx, active))
<1>1. UNCHANGED <<original, mutation, recipe, active, digest, reused, edits>> /\ pc = "single"
  BY DEF _single_node_output
<1>2. pc' # "single" /\ idx' \in Inputs
  BY NextIndex DEF _single_node_output
<1>3. Read(idx, active) \in Nat
  BY DEF Read
<1>4. out \in Int /\ out # Spoiled /\ (edits = 0 => out = Sort(digest))
  <2>1. edits = 0 => digest = Read(idx, active)
    BY <1>1 DEF DigestCurrent
  <2> QED
    BY <1>3, <2>1 DEF Sort, Spoiled
<1> DEFINE entry == [node |-> idx, recipe |-> recipe[idx], input |-> digest, claimed |-> out, payload |-> out]
<1>5. cache' = cache \/ cache' = cache \cup {entry}
  BY DEF _single_node_output
<1>6. entry \in CacheFiles
  BY <1>4 DEF CacheFiles
<1>7. cache' \in SUBSET CacheFiles
  BY <1>5, <1>6
<1>8. EntriesSound'
  <2> SUFFICES ASSUME NEW e \in cache'
               PROVE  e.claimed # Spoiled /\ (edits = 0 => e.claimed = Sort(e.input))
    BY <1>1 DEF EntriesSound
  <2>1. CASE e \in cache
    BY <2>1 DEF EntriesSound
  <2>2. CASE e = entry
    BY <2>2, <1>4
  <2> QED
    BY <1>5, <2>1, <2>2
<1> QED
  BY <1>1, <1>2, <1>7, <1>8 DEF DigestCurrent, ReuseSound

LEMMA TamperStep ==
  ASSUME ShowcaseInv, Tamper
  PROVE  ShowcaseInv'
<1> USE DEF ShowcaseInv, ShowcaseTypes
<1>1. UNCHANGED <<pc, original, mutation, recipe, idx, active, digest, reused, edits>>
  BY DEF Tamper
<1>2. PICK e \in cache : cache' = (cache \ {e}) \cup {[e EXCEPT !.payload = Spoiled]}
  BY DEF Tamper
<1>3. [e EXCEPT !.payload = Spoiled] \in CacheFiles
      /\ [e EXCEPT !.payload = Spoiled].claimed = e.claimed
      /\ [e EXCEPT !.payload = Spoiled].input = e.input
  <2>1. e \in CacheFiles /\ Spoiled \in Int
    BY DEF Spoiled
  <2> QED
    BY <2>1 DEF CacheFiles
<1>4. EntriesSound'
  BY <1>1, <1>2, <1>3 DEF EntriesSound
<1> QED
  BY <1>1, <1>2, <1>3, <1>4 DEF DigestCurrent, ReuseSound, Read

LEMMA HostEditStep ==
  ASSUME ShowcaseInv, HostEdit
  PROVE  ShowcaseInv'
<1> USE DEF ShowcaseInv, ShowcaseTypes
<1>1. /\ UNCHANGED <<pc, mutation, recipe, idx, active, digest, cache, reused>>
      /\ edits' \in Nat /\ edits' # 0
  BY DEF HostEdit
<1>2. original' \in [Inputs -> Nat]
  BY DEF HostEdit, Edited
<1> QED
  BY <1>1, <1>2 DEF EntriesSound, DigestCurrent, ReuseSound

THEOREM ShowcaseSteps == ShowcaseInv /\ [ShowcaseNext]_showcase_vars => ShowcaseInv'
<1> SUFFICES ASSUME ShowcaseInv, [ShowcaseNext]_showcase_vars PROVE ShowcaseInv'
  OBVIOUS
<1>0. idx \in Inputs /\ 1 \in Inputs /\ recipe \in [Inputs -> {"original", "mutation"}]
  BY ShowcaseConstants DEF ShowcaseInv, ShowcaseTypes, Inputs
<1>1. CASE UNCHANGED showcase_vars
  BY <1>0, <1>1, QuietShowcase DEF showcase_vars
<1>2. CASE Interrupted
  BY <1>0, <1>2, QuietShowcase DEF Interrupted
<1>3. CASE run_showcase
  BY <1>0, <1>3, QuietShowcase DEF run_showcase, active_input_path
<1>4. CASE Compare
  BY <1>0, <1>4, QuietShowcase DEF Compare
<1>5. CASE Restart
  BY <1>0, <1>5, QuietShowcase DEF Restart
<1> QED
  BY <1>1, <1>2, <1>3, <1>4, <1>5, PrepareStep, MutateStep, LookupStep, SingleStep, TamperStep,
     HostEditStep
  DEF ShowcaseNext

\* What a run takes from the cache is undamaged, and what sorting the input it
\* digested would give, while no editor rewrites an input in place
\* (run_showcase and _cache_hit of command_showcase.py).
THEOREM ReusesSound == ShowcaseSpec => []ReuseSound
<1>1. ShowcaseInv => ReuseSound
  BY DEF ShowcaseInv
<1> QED
  BY <1>1, ShowcaseInitially, ShowcaseSteps, PTL DEF ShowcaseSpec
=============================================================================
