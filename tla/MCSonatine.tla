----------------------------- MODULE MCSonatine -----------------------------
(***************************************************************************)
(* The guest kernel, the host that drives it, the graph region that        *)
(* stands for the device and the compiler of its programs, one at a time:  *)
(* `part` says which of them runs, the others stay in their initial        *)
(* states.                                                                 *)
(*                                                                         *)
(* fold: every shape of a batch of three jobs: every set of earlier        *)
(*   results a job may read, results of one and of two chunks, and every   *)
(*   output; with five objects for results that need up to six.            *)
(* host: batches of up to three jobs of each kind, with results that are   *)
(*   read again after their neighbours' slots were reused.                 *)
(* capability: two slots, three generations, so that a slot is reused,     *)
(*   exhausted and retired; one type with free rights, one limited to      *)
(*   WRITE and CONTROL and one that is nothing but CONTROL.                *)
(* region: a grid of four by five, the compiled descriptor and every one   *)
(*   that differs from it in one place.                                    *)
(* program: three values in any order of definition, four that need the    *)
(*   two registers again, and descriptors that admission must sort out.    *)
(***************************************************************************)
EXTENDS FoldLoops, CapabilityHistory, StaticRegion

CONSTANT Parts

VARIABLES part,
  sess, injections, host_phase, host_index, host, guest, fault, refs, inputs_ok, published, rows,
  rtl, host_halted, upset, receipt, verified,
  g_draft, g_d, g_pc, g_index, g_remaining, g_registers, g_free, g_allocations, g_instructions

LoopMix(job_id, epoch) == (job_id + epoch) % 2

Shape == [Indices -> 1 .. 2]

\* From each producer a job reads nothing, one chunk or all of its result.
Windows(chunks, i) ==
  {reads \in SUBSET ((0 .. i - 1) \X Chunks) : \A pair \in reads : pair[2] < chunks[pair[1]]}

DagRequests ==
  UNION {{[kind |-> "dag", count |-> MaxJobs, chunks |-> chunks, output |-> out,
           reads |-> reads] :
             out \in Indices,
             reads \in {[i \in Indices |-> IF i = 0 THEN {} ELSE IF i = 1 THEN one ELSE two] :
                         one \in Windows(chunks, 1), two \in Windows(chunks, 2)}} :
           chunks \in Shape}

ChainRequests ==
  {[kind |-> "chain", count |-> MaxJobs, chunks |-> [i \in Indices |-> 2], output |-> 0,
    reads |-> [i \in Indices |-> producers[i] \X Chunks]] :
      producers \in {f \in [Indices -> SUBSET Indices] :
                       \A i \in Indices : f[i] \subseteq 0 .. i - 1 /\ Cardinality(f[i]) <= 1}}

SessionRequests ==
  {[kind |-> "session", count |-> count, chunks |-> [i \in Indices |-> 2], output |-> 0,
    reads |-> [i \in 0 .. MaxJobs |-> {}]] : count \in 0 .. MaxJobs + 1}

LoopRequests == DagRequests \cup ChainRequests \cup SessionRequests

----------------------------------------------------------------------------
Dag(chunks, one, two, out) ==
  [kind |-> "dag", count |-> 3, chunks |-> [i \in 0 .. 2 |-> chunks[i + 1]],
   reads |-> [i \in 0 .. 2 |-> IF i = 0 THEN {} ELSE IF i = 1 THEN one ELSE two],
   output |-> out]

Chain(first, second) ==
  [kind |-> "chain", count |-> 3, chunks |-> [i \in 0 .. 2 |-> 2], output |-> 0,
   reads |-> [i \in 0 .. 2 |-> IF i = 0 THEN {} ELSE (IF i = 1 THEN first ELSE second) \X {0, 1}]]

Plain(kind, count) ==
  [kind |-> kind, count |-> count, chunks |-> [i \in 0 .. count - 1 |-> 2], output |-> 0,
   reads |-> [i \in 0 .. count - 1 |-> {}]]

HostSessions ==
  {Dag(<<2, 1, 1>>, {<<0, 0>>}, {<<0, 1>>, <<1, 0>>}, 2),
   Dag(<<1, 1, 2>>, {<<0, 0>>}, {<<1, 0>>}, 1),
   Dag(<<2, 2, 2>>, {<<0, 0>>, <<0, 1>>}, {<<1, 0>>}, 0),
   Dag(<<1, 2, 2>>, {}, {<<0, 0>>}, 2),
   Dag(<<2, 2, 2>>, {}, {<<0, 0>>, <<0, 1>>, <<1, 0>>}, 2),
   Dag(<<2, 2, 2>>, {}, {<<0, 0>>}, 1),
   Chain({}, {0}), Chain({0}, {0}), Chain({0}, {1}), Chain({}, {}),
   Plain("session", 2), Plain("bridge", 1), Plain("fold", 1)}

Host == INSTANCE HostFold WITH
  Sessions <- HostSessions,
  Injections <- {"none", "wrong-word", "rtl-fault", "replay-previous", "invalid-char",
                 "no-response", "truncated"},
  ObjectIds <- 1 .. 5, MaxObjects <- 4, MaxJobs <- 3,
  phase <- host_phase, index <- host_index, halted <- host_halted

----------------------------------------------------------------------------
CapRightSets ==
  {{}, {"SEND"}, {"WRITE"}, {"CONTROL"}, {"WRITE", "CONTROL"}, {"SEND", "CONTROL"}}

----------------------------------------------------------------------------
\* Grids that are uniform but for one word, the compiled descriptor and every one
\* that is one change away from it.
RegionInputs ==
  {[c \in Cells |-> IF c = k THEN v ELSE w] : k \in Cells, v \in {0, WordModulus - 1}, w \in {0, 1}}

Swap(s, i) == [s EXCEPT ![i] = s[i + 1], ![i + 1] = s[i]]
RegionDescriptors ==
  LET d == compile_static_stencil_descriptor IN
  {d}
  \cup {[d EXCEPT !.schedule = Swap(d.schedule, i)] : i \in 1..5}
  \cup {[d EXCEPT !.edges = (d.edges \ {e}) \cup {<<n, e[2], e[3]>>}] : e \in d.edges, n \in Nodes}
  \cup {[d EXCEPT !.affine[l] = d.affine[k]] : l, k \in Loads}

----------------------------------------------------------------------------
\* Twelve input words; a shape of two cells and one whose last south-east
\* neighbour is the thirteenth word.
ProgramInput == <<3, 1, 4, 1, 5, 2, 6, 5, 3, 0, 7, 6>>
Pair == [rows |-> 1, columns |-> 2, input_stride |-> 4, output_stride |-> 2]
Corner == [rows |-> 1, columns |-> 1, input_stride |-> 5, output_stride |-> 1]
Wide == [rows |-> 1, columns |-> 2, input_stride |-> 5, output_stride |-> 2]

BinaryOps == {"ADD_U32", "MAX_U32", "MUL_U32"}
ImmediateOps == {"ADD_IMM_U32", "GE_IMM_U32"}

Load(i, dr, dc) == [id |-> i, op |-> "LOAD_U32", inputs |-> <<>>, dr |-> dr, dc |-> dc, imm |-> 0]
Op(i, op, inputs, imm) == [id |-> i, op |-> op, inputs |-> inputs, dr |-> 0, dc |-> 0, imm |-> imm]
Store(i, x) == Op(i, "STORE_U32", <<x>>, 0)

Stores(i, names) == {Store(i, x) : x \in names}
Values(i, names, ops) ==
  {Load(i, 0, 0), Load(i, -1, 1)}
    \cup {Op(i, op, <<x, y>>, 0) : op \in ops \cap BinaryOps, x \in names, y \in names}
    \cup {Op(i, op, <<x>>, 2) : op \in ops \cap ImmediateOps, x \in names}

\* Three values in any order of definition, cycles among them.
Any == [schemas |-> {5}, shapes |-> {Pair},
        choices |-> [i \in 1 .. 4 |-> IF i = 4 THEN Stores(4, 1 .. 3)
                                      ELSE Values(i, 1 .. 3, {"ADD_U32", "MUL_U32", "GE_IMM_U32"})]]

\* Four values that need the two registers again.
Long == [schemas |-> {5}, shapes |-> {Corner},
         choices |-> <<{Load(1, 0, 0)}, {Load(2, 0, -1)},
                       Values(3, 1 .. 4, {"ADD_U32", "MAX_U32"}),
                       Values(4, 1 .. 4, {"ADD_U32", "ADD_IMM_U32"}), Stores(5, 1 .. 4)>>]

\* Descriptors admission must sort out: each schema with each operation, loads
\* that are no selector, immediates too large, unknown operands, several stores.
Edge == [schemas |-> 1 .. 5, shapes |-> {Pair, Corner, Wide},
         choices |-> <<{Load(1, dr, dc) : dr \in {0, 1}, dc \in {0, 1}},
                       {Op(2, op, <<x, x>>, 0) : op \in BinaryOps, x \in {1, 3, 4}}
                         \cup {Op(2, op, <<x>>, m) : op \in ImmediateOps, x \in {1, 3, 4}, m \in {0, 4}}
                         \cup {Store(2, 1), Load(1, 0, 0)},
                       Stores(3, {1, 2})>>]

ProgramDrafts == {Any, Long, Edge}

Compiler == INSTANCE GraphProgram WITH
  Drafts <- ProgramDrafts, Input <- ProgramInput, OutputWords <- 2, MaxSide <- 2, Registers <- 2,
  Capacity <- 5, WordMod <- 8, MaxImmediate <- 3,
  draft <- g_draft, d <- g_d, pc <- g_pc, index <- g_index, remaining <- g_remaining,
  registers <- g_registers, free <- g_free, allocations <- g_allocations,
  instructions <- g_instructions

programvars ==
  <<g_draft, g_d, g_pc, g_index, g_remaining, g_registers, g_free, g_allocations, g_instructions>>

----------------------------------------------------------------------------
hostvars ==
  <<sess, injections, host_phase, host_index, host, guest, fault, refs, inputs_ok, published, rows,
    rtl, host_halted, upset, receipt, verified>>

KernelInit ==
  /\ part \in Parts
  /\ IF part = "fold" THEN TRUE
     ELSE request = CHOOSE r \in SessionRequests : r.count = 1
  /\ IF part = "host" THEN TRUE ELSE sess = Plain("fold", 1)
  /\ IF part = "region" THEN TRUE
     ELSE desc = compile_static_stencil_descriptor /\ input = [c \in Cells |-> 0]
  /\ IF part = "program" THEN TRUE
     ELSE /\ g_draft = Long
          /\ g_d = [schema |-> 5, affine |-> Corner, nodes |-> <<>>]
  /\ LoopInit /\ Host!Init /\ CapHistoryInit /\ RegionInit /\ Compiler!Init

KernelNext ==
  /\ UNCHANGED part
  /\ \/ part = "fold" /\ LoopNext /\ UNCHANGED <<hostvars, cvars, rvars, programvars>>
     \/ part = "host" /\ Host!Next /\ UNCHANGED <<lvars, cvars, rvars, programvars>>
     \/ part = "capability" /\ CapHistoryNext /\ UNCHANGED <<lvars, hostvars, rvars, programvars>>
     \/ part = "region" /\ RegionNext /\ UNCHANGED <<lvars, hostvars, cvars, programvars>>
     \/ part = "program" /\ Compiler!Next /\ UNCHANGED <<lvars, hostvars, cvars, rvars>>
     \/ \* A loop that has finished or halted, a host that has its receipt, a region
        \* or a compilation that is done.
        /\ part \in {"fold", "host", "region", "program"}
        /\ UNCHANGED <<lvars, hostvars, cvars, rvars, programvars>>

KernelSpec == KernelInit /\ [][KernelNext]_<<part, lvars, hostvars, cvars, rvars, programvars>>

\* A receipt the host writes is exact and a right guest is never refused
\* (HostFold), whatever answers are corrupted, late or lost.
HostSound == part = "host" => Host!HostSound

\* A compiled program computes what its descriptor says in every output word,
\* however few registers it shares (GraphProgram).
LoweringExact == part = "program" => Compiler!LoweringExact
=============================================================================
