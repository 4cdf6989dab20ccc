--------------------------- MODULE ControlledRun ---------------------------
(***************************************************************************)
(* The controlled runs of T-0042 (raveil/controlled_run.py): three         *)
(* implementations execute the same stencil on the same owned memory, an   *)
(* observer counts the traffic of each phase, the verifiers turn a log     *)
(* into a strict record, and three records are aggregated.                 *)
(*                                                                         *)
(* The memory has one outstanding request.  Traffic is counted by origin:  *)
(* the candidate's own accesses and everybody else's (host, loader,        *)
(* debugger).  A record keeps, under truth, what really happened; only the *)
(* property looks at it.                                                   *)
(***************************************************************************)
EXTENDS Naturals, Sequences, FiniteSets

CONSTANTS
  Ops,         \* the candidate's accesses by implementation and phase
  Seeds,
  MaxForeign,  \* bound: foreign accesses
  MaxRuns,     \* bound: simulations, of all implementations together
  MaxContracts \* bound: edits of the common contract

\* A wrong output is the number 0, the output of no seed.
ASSUME ControlledConstants == 0 \notin Seeds

IMPLEMENTATIONS == {"static-graph", "rocket-in-order", "boom-ooo"}
PHASES == 0..5   \* installation, staging, execution, completion, validation, publication
Execution == 2
NoRecord == [kind |-> "none"]

VARIABLES
  contract,   \* version of descriptor, adapter and resource contract
  sim,        \* the simulation of each implementation
  windows,        \* the windows in the log of the last simulation
  wrapper,    \* the records in each wrapper log
  foreign,    \* foreign accesses so far
  runs,       \* runs so far
  aggregate

ovars == <<contract, sim, windows, wrapper, foreign, runs, aggregate>>

Zero == [own |-> 0, other |-> 0]
IdleSim == [on |-> FALSE, mode |-> "cpu", seed |-> 1, phase |-> 0, pending |-> FALSE, accepted |-> Zero,
            completed |-> 0, before |-> TRUE, after |-> TRUE, exact |-> TRUE, window |-> NoRecord]

RunInit ==
  /\ contract = 1 /\ foreign = 0 /\ aggregate = NoRecord
  /\ sim = [i \in IMPLEMENTATIONS |-> IdleSim]
  /\ windows = [i \in IMPLEMENTATIONS |-> <<>>]
  /\ wrapper = [i \in IMPLEMENTATIONS |-> <<>>]
  /\ runs = 0

----------------------------------------------------------------------------
\* The wrapper scripts share nothing and run one after the other.  The graph's
\* test bench runs seeds 1 and 3 in one simulation; its pilot runs one seed.
Start(i) ==
  /\ \A j \in IMPLEMENTATIONS : ~sim[j].on /\ windows[j] = <<>>
  /\ runs < MaxRuns
  /\ runs' = runs + 1
  /\ \E seed \in Seeds, exact \in BOOLEAN, mode \in {"cpu", "pair", "pilot"} :
       /\ (mode = "cpu") = (i # "static-graph") /\ (mode = "pair" => seed = 1)
       /\ sim' = [sim EXCEPT ![i] = [IdleSim EXCEPT !.on = TRUE, !.seed = seed, !.exact = exact, !.mode = mode]]
  /\ UNCHANGED <<contract, windows, wrapper, foreign, aggregate>>

SecondInvocation ==
  LET i == "static-graph" IN
  /\ ~sim[i].on /\ sim[i].mode = "pair" /\ Len(windows[i]) = 1
  /\ \E exact \in BOOLEAN :
       sim' = [sim EXCEPT ![i] = [IdleSim EXCEPT !.on = TRUE, !.seed = 3, !.exact = exact, !.mode = "pair"]]
  /\ UNCHANGED <<contract, windows, wrapper, foreign, runs, aggregate>>

\* One request at a time enters the owned memory.
Accept(i) ==
  /\ sim[i].on /\ ~sim[i].pending /\ sim[i].accepted.own < Ops[i][sim[i].phase]
  /\ sim' = [sim EXCEPT ![i].pending = TRUE, ![i].accepted.own = @ + 1]
  /\ UNCHANGED <<contract, windows, wrapper, foreign, runs, aggregate>>

ForeignAccept(i) ==
  /\ sim[i].on /\ ~sim[i].pending /\ foreign < MaxForeign
  /\ foreign' = foreign + 1
  /\ sim' = [sim EXCEPT ![i].pending = TRUE, ![i].accepted.other = @ + 1]
  /\ UNCHANGED <<contract, windows, wrapper, runs, aggregate>>

Respond(i) ==
  /\ sim[i].on /\ sim[i].pending
  /\ sim' = [sim EXCEPT ![i].pending = FALSE, ![i].completed = @ + 1]
  /\ UNCHANGED <<contract, windows, wrapper, foreign, runs, aggregate>>

\* The observer closes a phase; that of the execution is the window.
NextPhase(i) ==
  LET s == sim[i] IN
  /\ s.on /\ s.phase < 5
  /\ sim' = [sim EXCEPT ![i] =
       [s EXCEPT !.phase = @ + 1, !.accepted = Zero, !.completed = 0,
                 !.before = IF s.phase + 1 = Execution THEN ~s.pending ELSE @,
                 !.after = IF s.phase = Execution THEN ~s.pending ELSE @,
                 !.window = IF s.phase = Execution
                            THEN [kind |-> "window", accepted |-> s.accepted, completed |-> s.completed]
                            ELSE @]]
  /\ UNCHANGED <<contract, windows, wrapper, foreign, runs, aggregate>>

Facts(s) == [seed |-> s.seed, exact |-> s.exact, before |-> s.before, after |-> s.after, window |-> s.window]

Finish(i) ==
  /\ sim[i].on /\ sim[i].phase = 5
  /\ windows' = [windows EXCEPT ![i] = Append(@, [sim |-> Facts(sim[i]), drained |-> ~sim[i].pending])]
  /\ sim' = [sim EXCEPT ![i] = [IdleSim EXCEPT !.mode = sim[i].mode]]
  /\ UNCHANGED <<contract, wrapper, foreign, runs, aggregate>>

\* Mutant: the requests that were accepted are counted, not where they came from.
Mutant_WindowExact(i, s) ==
  /\ s.window.accepted.own + s.window.accepted.other = Ops[i][Execution]
  /\ s.window.completed = Ops[i][Execution] /\ s.before /\ s.after

\* The window must show exactly the candidate's accesses, all answered, and quiet
\* memory at both ends.
WindowExact(i, s) ==
  /\ s.window.accepted = [own |-> Ops[i][Execution], other |-> 0]
  /\ s.window.completed = Ops[i][Execution]
  /\ s.before /\ s.after

\* The record is built from the frozen constants once the log agrees with them.
Record(i, s) ==
  [implementation |-> i, contract |-> contract, input |-> s.seed, oracle |-> s.seed,
   observed |-> IF s.exact THEN s.seed ELSE 0, invocation |-> s.seed,
   pending |-> 0, unaccounted |-> 0, traffic_conserved |-> TRUE,
   resource_contract_verified |-> TRUE, resource_equality_verified |-> FALSE,
   comparison_eligible |-> FALSE, reasons |-> {"peers-not-yet-verified"}, truth |-> s]

\* Identities, output and eligibility are recomputed from the record itself.
validate_controlled_observation(r) ==
  /\ r.contract = contract /\ r.implementation \in IMPLEMENTATIONS
  /\ r.observed = r.oracle
  /\ r.traffic_conserved = (r.pending = 0 /\ r.unaccounted = 0)
  /\ r.comparison_eligible =
       (r.resource_contract_verified /\ r.resource_equality_verified /\ r.traffic_conserved)
  /\ r.comparison_eligible = (r.reasons = {})

Accepted(i, w) == WindowExact(i, w.sim) /\ validate_controlled_observation(Record(i, w.sim))

\* Exactly two windows, of invocations 1 and 3, or no record at all.
verify_static_graph_log ==
  LET i == "static-graph" w == windows[i] IN
  /\ sim[i].mode = "pair" /\ Len(w) = 2
  /\ wrapper' = IF Accepted(i, w[1]) /\ Accepted(i, w[2])
                THEN [wrapper EXCEPT ![i] = @ \o <<Record(i, w[1].sim), Record(i, w[2].sim)>>] ELSE wrapper
  /\ windows' = [windows EXCEPT ![i] = <<>>]
  /\ UNCHANGED <<contract, sim, foreign, runs, aggregate>>

verify_static_graph_pilot_log ==
  LET i == "static-graph" w == windows[i] IN
  /\ sim[i].mode = "pilot" /\ Len(w) = 1
  /\ wrapper' = IF Accepted(i, w[1]) THEN [wrapper EXCEPT ![i] = Append(@, Record(i, w[1].sim))] ELSE wrapper
  /\ windows' = [windows EXCEPT ![i] = <<>>]
  /\ UNCHANGED <<contract, sim, foreign, runs, aggregate>>

\* The traffic of the whole run must have drained too.
verify_cpu_log(i) ==
  LET w == windows[i] IN
  /\ sim[i].mode = "cpu" /\ Len(w) = 1
  /\ wrapper' = IF Accepted(i, w[1]) /\ w[1].drained
                THEN [wrapper EXCEPT ![i] = Append(@, Record(i, w[1].sim))] ELSE wrapper
  /\ windows' = [windows EXCEPT ![i] = <<>>]
  /\ UNCHANGED <<contract, sim, foreign, runs, aggregate>>

\* One record per wrapper log; of the graph's, the one of invocation 1.
Selected(i) ==
  {k \in DOMAIN wrapper[i] : i # "static-graph" \/ wrapper[i][k].invocation = 1}

Equal(rs, f(_)) == Cardinality({f(r) : r \in rs}) = 1

aggregate_controlled_observations(rs) ==
  /\ \A r \in rs : validate_controlled_observation(r)
  /\ {r.implementation : r \in rs} = IMPLEMENTATIONS
  /\ Equal(rs, LAMBDA r : r.contract) /\ Equal(rs, LAMBDA r : r.input)
  /\ Equal(rs, LAMBDA r : r.oracle) /\ Equal(rs, LAMBDA r : r.observed)
  /\ \A r \in rs : r.traffic_conserved /\ r.pending = 0 /\ r.unaccounted = 0
                   /\ r.resource_contract_verified

aggregate_controlled_logs ==
  /\ aggregate = NoRecord
  /\ \A i \in IMPLEMENTATIONS : Cardinality(Selected(i)) = 1
  /\ LET rs == {wrapper[i][CHOOSE k \in Selected(i) : TRUE] : i \in IMPLEMENTATIONS} IN
       /\ aggregate_controlled_observations(rs)
       /\ aggregate' = [kind |-> "aggregate", contract |-> contract, records |-> rs]
  /\ UNCHANGED <<contract, sim, windows, wrapper, foreign, runs>>

EditContract ==
  /\ contract < MaxContracts
  /\ contract' = contract + 1
  /\ UNCHANGED <<sim, windows, wrapper, foreign, runs, aggregate>>

RunNext ==
  \/ \E i \in IMPLEMENTATIONS :
       \/ Start(i) \/ Accept(i) \/ ForeignAccept(i) \/ Respond(i) \/ NextPhase(i)
       \/ Finish(i) \/ verify_cpu_log(i)
  \/ SecondInvocation \/ verify_static_graph_log \/ verify_static_graph_pilot_log
  \/ aggregate_controlled_logs \/ EditContract

RunSpec == RunInit /\ [][RunNext]_ovars

----------------------------------------------------------------------------
\* A comparison is declared eligible only over one run of each implementation, on
\* the same input and under the same contract, whose execution window held all of
\* the candidate's accesses, answered, nobody else's, and the right output.
AggregateSound ==
  aggregate # NoRecord =>
    /\ {r.implementation : r \in aggregate.records} = IMPLEMENTATIONS
    /\ \A r \in aggregate.records :
         /\ r.truth.exact /\ r.contract = aggregate.contract
         /\ r.truth.window.accepted.other = 0
         /\ r.truth.window.accepted.own = Ops[r.implementation][Execution]
         /\ r.truth.window.completed = r.truth.window.accepted.own
         /\ r.truth.before /\ r.truth.after
    /\ \A r, q \in aggregate.records : r.truth.seed = q.truth.seed
=============================================================================
