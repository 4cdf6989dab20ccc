---------------------------- MODULE StaticRegion ----------------------------
(***************************************************************************)
(* The static stencil region (raveil/static_region.py): the descriptor,    *)
(* its validator and oracle, and one invocation of the region executing    *)
(* the descriptor's schedule against its single-port memory                *)
(* (hardware/chisel/StaticStencilRegion.scala) with the observation that   *)
(* raveil/simulation_adapter.py makes of it.                               *)
(*                                                                         *)
(* The grid is Height x Width instead of 18 x 18.  Every cycle of the      *)
(* schedule is two clock cycles, request and response.                     *)
(***************************************************************************)
EXTENDS Integers, Sequences, FiniteSets

CONSTANTS
  Height, Width,   \* the input grid
  WordModulus,     \* 2^32 in the code
  Descriptors,     \* the descriptors that may be given
  Inputs           \* the contents that object A may have

Cells == 0..(Height * Width - 1)
Points == (Height - 2) * (Width - 2)
Row(p) == (p \div (Width - 2)) + 1
Col(p) == (p % (Width - 2)) + 1

Loads == {"load_center", "load_north", "load_south", "load_west", "load_east"}
Adds == {"add_0", "add_1", "add_2", "add_3"}
Nodes == Loads \cup Adds \cup {"store_output"}
ExpectedEdges ==
  {<<"load_center", "add_0", 0>>, <<"load_north", "add_0", 1>>, <<"add_0", "add_1", 0>>,
   <<"load_south", "add_1", 1>>, <<"add_1", "add_2", 0>>, <<"load_west", "add_2", 1>>,
   <<"add_2", "add_3", 0>>, <<"load_east", "add_3", 1>>, <<"add_3", "store_output", 0>>}
ExpectedSchedule ==
  <<<<"load_center">>, <<"load_north", "add_0">>, <<"load_south", "add_1">>,
    <<"load_west", "add_2">>, <<"load_east", "add_3">>, <<"store_output">>>>
ExpectedAffine ==   \* the row and column offsets of the loads
  [l \in Loads |-> CASE l = "load_center" -> <<0, 0>>  [] l = "load_north" -> <<-1, 0>>
                     [] l = "load_south" -> <<1, 0>> [] l = "load_west" -> <<0, -1>>
                     [] l = "load_east" -> <<0, 1>>]

compile_static_stencil_descriptor ==
  [edges |-> ExpectedEdges, schedule |-> ExpectedSchedule, affine |-> ExpectedAffine]

\* The grid has an inner point, and object A holds words.
ASSUME RegionConstants ==
  /\ Height \in Nat /\ Height >= 3 /\ Width \in Nat /\ Width >= 3
  /\ WordModulus \in Nat \ {0}
  /\ Inputs \subseteq [Cells -> 0..(WordModulus - 1)]

VARIABLES
  desc,      \* the descriptor
  input,     \* object A, read-only during execution
  output,    \* object B, private until it is validated
  status,    \* new, refused, busy, done, cancelled
  reg,       \* the value each node last produced
  point,     \* the output point being computed
  cycle,     \* cycle of the schedule, counted from 1
  half,      \* 0: request, 1: response
  clock,     \* clock cycles of the execution
  useful,    \* loads, adds and stores whose effect happened
  outputValid

rvars == <<desc, input, output, status, reg, point, cycle, half, clock, useful, outputValid>>

RegionInit ==
  /\ desc \in Descriptors /\ input \in Inputs
  /\ output = [p \in 0..(Points - 1) |-> 0]
  /\ status = "new" /\ reg = [n \in Nodes |-> 0]
  /\ point = 0 /\ cycle = 1 /\ half = 0 /\ clock = 0
  /\ useful = [loads |-> 0, adds |-> 0, stores |-> 0] /\ outputValid = FALSE

----------------------------------------------------------------------------
\* Nodes left after removing the sources k times: the queue of the validator.
Remaining(edges) ==
  LET left[k \in 0..Cardinality(Nodes)] ==
        IF k = 0 THEN Nodes
        ELSE LET before == left[k - 1] IN {n \in before : \E e \in edges : e[1] \in before /\ e[2] = n}
  IN left[Cardinality(Nodes)]

Scheduled(d, n) == {i \in DOMAIN d.schedule : \E j \in DOMAIN d.schedule[i] : d.schedule[i][j] = n}
CycleOf(d, n) == CHOOSE i \in DOMAIN d.schedule : i \in Scheduled(d, n)
InCycle(d, i, ops) == Cardinality({j \in DOMAIN d.schedule[i] : d.schedule[i][j] \in ops})

\* Mutant: the effects of the nodes are not compared.
Mutant_validate(d) == d.edges = ExpectedEdges /\ d.schedule = ExpectedSchedule

\* The structure is recomputed and compared with the only admitted one.
validate_static_stencil_descriptor(d) ==
  /\ Cardinality(d.edges) = 9
  /\ \A e, f \in d.edges : e[2] = f[2] /\ e[3] = f[3] => e = f
  /\ d.edges = ExpectedEdges /\ Remaining(d.edges) = {}
  /\ d.affine = ExpectedAffine
  /\ d.schedule = ExpectedSchedule
  /\ \A n \in Nodes : Cardinality(Scheduled(d, n)) = 1
  /\ \A e \in d.edges : CycleOf(d, e[1]) <= CycleOf(d, e[2])
  /\ \A i \in DOMAIN d.schedule :
       /\ InCycle(d, i, Loads) <= 1 /\ InCycle(d, i, Adds) <= 1 /\ InCycle(d, i, {"store_output"}) <= 1

static_stencil_oracle(a) ==
  [p \in 0..(Points - 1) |->
     LET center == Width * Row(p) + Col(p) IN
     (a[center] + a[center - Width] + a[center + Width] + a[center - 1] + a[center + 1]) % WordModulus]

\* The identity of the configuration exists for a valid descriptor only.
configuration_id ==
  /\ status = "new"
  /\ status' = IF validate_static_stencil_descriptor(desc) THEN "busy" ELSE "refused"
  /\ UNCHANGED <<desc, input, output, reg, point, cycle, half, clock, useful, outputValid>>

Address(d, l) ==
  LET a == Width * (Row(point) + d.affine[l][1]) + Col(point) + d.affine[l][2] IN a % (Height * Width)
Operand(d, r, n, i) == r[(CHOOSE e \in d.edges : e[2] = n /\ e[3] = i)[1]]

\* What a node produces from what is in reg.
Perform(d, r, n) ==
  [r EXCEPT ![n] =
     CASE n \in Loads -> input[Address(d, n)]
       [] n \in Adds -> (Operand(d, r, n, 0) + Operand(d, r, n, 1)) % WordModulus
       [] OTHER -> Operand(d, r, n, 0)]

\* One cycle of the schedule: a load, the store, or a load and the add that takes it.
RunCycle(d, r) ==
  LET nodes == d.schedule[cycle]
      first == Perform(d, r, nodes[1])
  IN IF Len(nodes) = 1 THEN first ELSE Perform(d, first, nodes[2])

Request ==
  /\ status = "busy" /\ half = 0
  /\ half' = 1 /\ clock' = clock + 1
  /\ UNCHANGED <<desc, input, output, status, reg, point, cycle, useful, outputValid>>

Response ==
  LET r == RunCycle(desc, reg)
      store == InCycle(desc, cycle, {"store_output"}) > 0
      final == cycle = Len(desc.schedule)
  IN
  /\ status = "busy" /\ half = 1
  /\ half' = 0 /\ clock' = clock + 1 /\ reg' = r
  /\ output' = IF store THEN [output EXCEPT ![point] = r["store_output"]] ELSE output
  /\ useful' = [loads |-> useful.loads + InCycle(desc, cycle, Loads),
                adds |-> useful.adds + InCycle(desc, cycle, Adds),
                stores |-> useful.stores + InCycle(desc, cycle, {"store_output"})]
  /\ cycle' = IF final THEN 1 ELSE cycle + 1
  /\ IF final /\ point = Points - 1
     THEN status' = "done" /\ outputValid' = TRUE /\ UNCHANGED point
     ELSE point' = (IF final THEN point + 1 ELSE point) /\ UNCHANGED <<status, outputValid>>
  /\ UNCHANGED <<desc, input>>

\* Cancel wins over a response that is pending, the last one too.
Cancel ==
  /\ status = "busy"
  /\ status' = "cancelled" /\ outputValid' = FALSE
  /\ UNCHANGED <<desc, input, output, reg, point, cycle, half, clock, useful>>

RegionNext == configuration_id \/ Request \/ Response \/ Cancel

RegionSpec == RegionInit /\ [][RegionNext]_rvars

----------------------------------------------------------------------------
\* The records of the smoke test: complete, and cancelled after 17 cycles.
static_graph_functional_observation ==
  [loads |-> 5 * Points, adds |-> 4 * Points, stores |-> Points, execution_cycles |-> 12 * Points]
static_graph_cancelled_observation ==
  [loads |-> 7, adds |-> 5, stores |-> 1, execution_cycles |-> 17]

\* What the run shows at its end.
Observation ==
  [status |-> IF status = "done" THEN "completed" ELSE "cancelled",
   semantic_valid |-> outputValid /\ output = static_stencil_oracle(input),
   output_private |-> outputValid,
   output_words_validated |-> IF outputValid THEN Points ELSE 0,
   useful |-> useful]

\* A completed run did every operation and its whole output was validated; a
\* cancelled one did no more than the workload and has no output.
validate_simulation_observation(o) ==
  LET limit == static_graph_functional_observation IN
  /\ o.useful.loads <= limit.loads /\ o.useful.adds <= limit.adds /\ o.useful.stores <= limit.stores
  /\ IF o.status = "completed"
     THEN /\ o.semantic_valid /\ o.output_private /\ o.output_words_validated = Points
          /\ o.useful = [loads |-> limit.loads, adds |-> limit.adds, stores |-> limit.stores]
     ELSE ~o.semantic_valid /\ ~o.output_private /\ o.output_words_validated = 0

\* Whatever descriptor passes the validator, the run ends with an observation the
\* adapter accepts: the output that becomes valid is the oracle's, and counts and
\* cycles are the ones its records state, for the completed run and for the one
\* cancelled after 17 cycles.
RegionExact ==
  /\ status \in {"done", "cancelled"} => validate_simulation_observation(Observation)
  /\ status = "done" => clock = static_graph_functional_observation.execution_cycles
  /\ status = "cancelled" /\ clock = static_graph_cancelled_observation.execution_cycles =>
       \A op \in DOMAIN useful : useful[op] = static_graph_cancelled_observation[op]
=============================================================================
