----------------------------- MODULE MCEvidence -----------------------------
(***************************************************************************)
(* The evidence pipelines of the hardware laboratory, one part at a time:  *)
(* `part` says which of them runs, the others stay as they are at first.   *)
(*                                                                         *)
(* promotion: overlapping and successive promoters of two runs of two      *)
(*   files each.                                                           *)
(* session: two invocations of one input and two output words, two faulty  *)
(*   lines.                                                                *)
(* campaign: one primary and the diagnostic variant.                       *)
(* physical: two attempts beside the recorded incident, an export that     *)
(*   overwrites a tree and an edit of a sealed directory.                  *)
(* by hand: one attempt beside the incident, with any three subcommands    *)
(*   used by hand and no edit of a report.                                 *)
(* controlled: two seeds, three simulations and an edit of the contract;   *)
(*   only the Rocket has an access while it stages.                        *)
(***************************************************************************)
EXTENDS EvidencePromotion, CampaignRun, PhysicalEvidence, ControlledRun

CONSTANT Parts

VARIABLES part, s_experiment, s_log, s_faults

----------------------------------------------------------------------------
svars ==
  <<s_experiment, s_log, s_faults>>

Session == INSTANCE SessionLog WITH
  Account <- 2, Inputs <- 1, Outputs <- 2, MaxFaults <- 2, experiment <- s_experiment,
  log <- s_log, faults <- s_faults

----------------------------------------------------------------------------
MCVariants == <<"static-graph", "boom-serialize-dispatch">>

----------------------------------------------------------------------------
PhysicalManifests == [exp9 |-> [rtl |-> 1, clock |-> 20], exp10 |-> [rtl |-> 1, clock |-> 40]]
PhysicalAreas == [v \in {"static-graph", "rocket-in-order"} |->
                    IF v = "static-graph" THEN {1, 2} ELSE {4}]

\* Nobody uses a subcommand by hand.
RunnerOnly == byHand' = 0

\* "run-b" is not attempted, the runner has one manifest, the reports one area and
\* a timing that is met, and nobody edits them.
OneAttempt ==
  /\ rawEdits' = 0 /\ \A r \in Attempts : runner'[r].manifest # "exp10"
  /\ runner'["run-b"].stage = "new"
  /\ \A r \in Attempts : raw'[r] # NoFile => raw'[r].data.area # 2 /\ raw'[r].data.met

----------------------------------------------------------------------------
ControlledOps ==
  [i \in {"static-graph", "rocket-in-order", "boom-ooo"} |->
     [p \in 0 .. 5 |-> CASE p = 1 /\ i = "rocket-in-order" -> 1 [] p = 2 -> 1 [] OTHER -> 0]]

----------------------------------------------------------------------------
\* A part that is not selected stays in one of its initial states.
EvidenceInit ==
  /\ part \in Parts
  /\ IF part = "session" THEN TRUE ELSE s_experiment = "fixture"
  /\ IF part = "campaign" THEN TRUE ELSE experiment = "commissioning"
  /\ PromotionInit /\ Session!SessionInit /\ CampaignInit /\ PhysicalInit /\ RunInit

EvidenceNext ==
  /\ UNCHANGED part
  /\ \/ part = "promotion" /\ PromotionNext /\ UNCHANGED <<svars, cvars, hvars, ovars>>
     \/ part = "session" /\ Session!SessionNext /\ UNCHANGED <<pvars, cvars, hvars, ovars>>
     \/ part = "campaign" /\ CampaignNext /\ UNCHANGED <<pvars, svars, hvars, ovars>>
     \/ part = "physical" /\ RunnerOnly /\ PhysicalNext
        /\ UNCHANGED <<pvars, svars, cvars, ovars>>
     \/ part = "by hand" /\ PhysicalNext /\ OneAttempt
        /\ UNCHANGED <<pvars, svars, cvars, ovars>>
     \/ part = "controlled" /\ RunNext /\ UNCHANGED <<pvars, svars, cvars, hvars>>

EvidenceSpec == EvidenceInit /\ [][EvidenceNext]_<<part, pvars, svars, cvars, hvars, ovars>>

\* A session passes exactly if its log is that of complete invocations in
\* order (SessionLog).
VerdictExact == part = "session" => Session!VerdictExact
=============================================================================
