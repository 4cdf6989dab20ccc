---------------------------- MODULE GraphProgram ----------------------------
(***************************************************************************)
(* The graph-device compiler (raveil/graph_device_dag.py): a descriptor is *)
(* admitted, scheduled, lowered node by node onto a small register file,   *)
(* explained by a lowering trace and handed to the generic fallback.  Two  *)
(* interpreters are compared: graph_oracle() walks the descriptor,         *)
(* software_fallback() the encoded program.                                *)
(*                                                                         *)
(* A word is a number modulo WordMod, an instruction the record of its bit *)
(* fields; the five-bit offsets of a relative load keep their encoding.    *)
(***************************************************************************)
EXTENDS Integers, Sequences, FiniteSets

CONSTANTS Drafts,        \* what authors write: schemas, shapes, and for each
                         \* position of the node list the nodes to choose from
          Input,         \* the input words, from address 0
          OutputWords,   \* size of the output window
          MaxSide,       \* largest number of rows and of columns
          Registers,     \* VALUE_REGISTERS
          Capacity,      \* PROGRAM_CAPACITY
          WordMod,       \* 2^32
          MaxImmediate

VARIABLES draft,         \* the draft being written
          d,             \* the descriptor
          pc, index,
          remaining,     \* uses of each value still to come
          registers,     \* the register of each live value
          free,          \* free registers
          allocations,   \* the register every value was given
          instructions

vars == <<draft, d, pc, index, remaining, registers, free, allocations, instructions>>

InputWords == Len(Input)
Binary == {"ADD_U32", "MAX_U32", "MUL_U32"}
Immediate == {"ADD_IMM_U32", "GE_IMM_U32"}
Delta == -1 .. 1
SetMin(S) == CHOOSE x \in S : \A y \in S : x <= y
SetMax(S) == CHOOSE x \in S : \A y \in S : y <= x

-----------------------------------------------------------------------------
\* Admission and schedule.

_dependencies(node) == IF node.op = "LOAD_U32" THEN <<>> ELSE node.inputs
Sources(node) == {_dependencies(node)[i] : i \in DOMAIN _dependencies(node)}

\* Stable topological order: among the ready nodes the first of the descriptor.
\* A cycle leaves the order short.
_scheduled_nodes(nodes) ==
  LET done(o) == {nodes[o[i]].id : i \in DOMAIN o}
      order[k \in 0 .. Len(nodes)] ==
        IF k = 0 THEN <<>>
        ELSE LET o == order[k - 1]
                 ready == {i \in DOMAIN nodes : /\ nodes[i].id \notin done(o)
                                                /\ Sources(nodes[i]) \subseteq done(o)}
             IN IF ready = {} THEN o ELSE Append(o, SetMin(ready))
  IN order[Len(nodes)]

\* The lowest schema that has the operation.
OpSchema(op) == CASE op = "MUL_U32" -> 3 [] op = "ADD_IMM_U32" -> 4
                  [] op = "GE_IMM_U32" -> 5 [] OTHER -> 1

AffineFits(a) ==
  /\ a.rows \in 1 .. MaxSide /\ a.columns \in 1 .. MaxSide
  /\ a.input_stride >= a.columns + 2 /\ a.output_stride >= a.columns
  /\ (a.rows + 1) * a.input_stride + a.columns < InputWords
  /\ (a.rows - 1) * a.output_stride + a.columns - 1 < OutputWords

NodeFits(node, schema) ==
  /\ OpSchema(node.op) <= schema
  /\ node.op = "LOAD_U32" =>
       /\ {node.dr, node.dc} \subseteq Delta
       /\ schema = 1 => 0 \in {node.dr, node.dc}      \* the five selectors
  /\ node.op \in Immediate => node.imm \in 0 .. MaxImmediate
  /\ Len(_dependencies(node)) = CASE node.op = "LOAD_U32" -> 0
                                  [] node.op \in Binary -> 2 [] OTHER -> 1

validate_descriptor(v) ==
  LET nodes == v.nodes
      ids == {nodes[i].id : i \in DOMAIN nodes}
  IN /\ AffineFits(v.affine)
     /\ Len(nodes) \in 2 .. Capacity
     /\ Cardinality(ids) = Len(nodes)
     /\ \A i \in DOMAIN nodes :
          /\ NodeFits(nodes[i], v.schema)
          /\ nodes[i].op = "STORE_U32" <=> i = Len(nodes)
          /\ Sources(nodes[i]) \subseteq ids \ {nodes[Len(nodes)].id}
     /\ Len(_scheduled_nodes(nodes)) = Len(nodes)

_program_version(v) ==
  IF v.schema > 1 THEN v.schema + 1
  ELSE IF \E i \in DOMAIN v.nodes : v.nodes[i].op = "MAX_U32" THEN 2 ELSE 1

Order == _scheduled_nodes(d.nodes)
Node(i) == d.nodes[Order[i]]

-----------------------------------------------------------------------------
\* Encoding.

Word(op, dst, left, right, row, column, imm) ==
  [op |-> op, dst |-> dst, left |-> left, right |-> right,
   row |-> row, column |-> column, imm |-> imm]

\* Relative loads carry five-bit two's-complement deltas, selectors a number.
encode_load(dst, dr, dc, version) ==
  IF version >= 3 THEN Word("LOAD_U32", dst, 0, 0, dr % 32, dc % 32, 0)
  ELSE Word("LOAD_U32", dst, 0, 0, dr, dc, 0)

_signed_five(x) == IF x % 32 >= 16 THEN (x % 32) - 32 ELSE x % 32
_relative_load(w, version) ==
  IF version >= 3 THEN <<_signed_five(w.row), _signed_five(w.column)>> ELSE <<w.row, w.column>>

encode_binary(op, dst, l, r) == Word(op, dst, l, r, 0, 0, 0)
encode_immediate(op, dst, l, imm) == Word(op, dst, l, 0, 0, 0, imm)
encode_store(src) == Word("STORE_U32", src, 0, 0, 0, 0, 0)

Encode(node, dst, srcs, version) ==
  CASE node.op = "LOAD_U32" -> encode_load(dst, node.dr, node.dc, version)
    [] node.op \in Binary -> encode_binary(node.op, dst, srcs[1], srcs[2])
    [] node.op \in Immediate -> encode_immediate(node.op, dst, srcs[1], node.imm)
    [] OTHER -> encode_store(srcs[1])

-----------------------------------------------------------------------------
\* The two interpreters.

Apply(op, x, y, imm) ==
  CASE op = "ADD_U32" -> (x + y) % WordMod
    [] op = "MAX_U32" -> IF x >= y THEN x ELSE y
    [] op = "MUL_U32" -> (x * y) % WordMod
    [] op = "ADD_IMM_U32" -> (x + imm) % WordMod
    [] op = "GE_IMM_U32" -> IF x >= imm THEN 1 ELSE 0
    [] OTHER -> x

Cells(a) == (0 .. a.rows - 1) \X (0 .. a.columns - 1)
Centre(a, c) == (c[1] + 1) * a.input_stride + c[2] + 1
Slot(a, c) == c[1] * a.output_stride + c[2]
_node_address(a, c, dr, dc) == Centre(a, c) + dr * a.input_stride + dc

Inside(addr) == addr \in 0 .. InputWords - 1
IndexError == [i \in {} |-> 0]       \* the interpreter raises

\* The value of a named node, along the schedule.
graph_oracle(v) ==
  LET o == _scheduled_nodes(v.nodes)
      a == v.affine
      loads == {i \in DOMAIN v.nodes : v.nodes[i].op = "LOAD_U32"}
      value(c) ==
        LET val[k \in DOMAIN o] ==
              LET node == v.nodes[o[k]]
                  arg(j) == val[CHOOSE m \in DOMAIN o : v.nodes[o[m]].id = node.inputs[j]]
              IN IF node.op = "LOAD_U32" THEN Input[_node_address(a, c, node.dr, node.dc) + 1]
                 ELSE Apply(node.op, arg(1), arg(Len(node.inputs)), node.imm)
        IN val[Len(o)]
  IN IF \E c \in Cells(a), i \in loads : ~ Inside(_node_address(a, c, v.nodes[i].dr, v.nodes[i].dc))
     THEN IndexError
     ELSE [s \in 0 .. OutputWords - 1 |->
             IF \E c \in Cells(a) : Slot(a, c) = s
             THEN value(CHOOSE c \in Cells(a) : Slot(a, c) = s) ELSE 0]

\* Defined before use, operations of the version, one store and it is last.
_validate_fallback_program(code, version) ==
  LET defined(i) == {code[j].dst : j \in 1 .. i - 1}
  IN /\ Len(code) \in 2 .. Capacity
     /\ \A i \in DOMAIN code :
          LET w == code[i]
          IN /\ (w.op = "STORE_U32") <=> (i = Len(code))
             /\ w.op = "LOAD_U32" => /\ _relative_load(w, version)[1] \in Delta
                                     /\ _relative_load(w, version)[2] \in Delta
             /\ w.op \in Binary => {w.left, w.right} \subseteq defined(i)
             /\ w.op = "MAX_U32" => version >= 2
             /\ w.op = "MUL_U32" => version >= 4
             /\ w.op \in Immediate => /\ w.left \in defined(i)
                                      /\ version >= (IF w.op = "GE_IMM_U32" THEN 6 ELSE 5)
             /\ w.op = "STORE_U32" => w.dst \in defined(i)

\* The address a load instruction touches for a cell.
LoadAddress(w, a, c, version) ==
  LET rc == _relative_load(w, version) IN _node_address(a, c, rc[1], rc[2])

\* The register file after each instruction of one cell.
software_fallback(code, a, version) ==
  LET result(c) ==
        LET regs[k \in 0 .. Len(code)] ==
              IF k = 0 THEN [r \in 0 .. Registers - 1 |-> 0]
              ELSE LET w == code[k]
                       before == regs[k - 1]
                   IN CASE w.op = "STORE_U32" -> before
                        [] w.op = "LOAD_U32" ->
                             [before EXCEPT ![w.dst] = Input[LoadAddress(w, a, c, version) + 1]]
                        [] OTHER ->
                             [before EXCEPT ![w.dst] =
                                Apply(w.op, before[w.left], before[w.right], w.imm)]
        IN regs[Len(code)][code[Len(code)].dst]
  IN IF \E c \in Cells(a), i \in DOMAIN code :
           code[i].op = "LOAD_U32" /\ ~ Inside(LoadAddress(code[i], a, c, version))
     THEN IndexError
     ELSE [s \in 0 .. OutputWords - 1 |->
             IF \E c \in Cells(a) : Slot(a, c) = s
             THEN result(CHOOSE c \in Cells(a) : Slot(a, c) = s) ELSE 0]

\* The memory transactions of one cell: its loads in program order, its store.
expected_transactions(code, a, c, version) ==
  LET memory == SelectSeq(code, LAMBDA w : w.op \in {"LOAD_U32", "STORE_U32"})
  IN [i \in DOMAIN memory |->
        IF memory[i].op = "STORE_U32"
        THEN [write |-> TRUE, address |-> InputWords + Slot(a, c),
              data |-> software_fallback(code, a, version)[Slot(a, c)]]
        ELSE [write |-> FALSE, address |-> LoadAddress(memory[i], a, c, version), data |-> 0]]

-----------------------------------------------------------------------------
\* The lowering trace and its validation.

Uses(id) == {i \in DOMAIN Order : id \in Sources(Node(i))}
LastUse(id) == IF Uses(id) = {} THEN 0 ELSE SetMax(Uses(id))

_lowering_trace ==
  [i \in DOMAIN Order |->
     [node |-> Node(i).id,
      sources |-> [j \in DOMAIN _dependencies(Node(i)) |-> allocations[_dependencies(Node(i))[j]]],
      destination |-> IF Node(i).op = "STORE_U32" THEN -1 ELSE allocations[Node(i).id],
      last_use |-> IF Node(i).op = "STORE_U32" THEN 0 ELSE LastUse(Node(i).id)]]

\* Registers are taken from the words; every word is encoded once more.
validate_lowering_trace(trace) ==
  LET given(id) == instructions[CHOOSE i \in DOMAIN Order : Node(i).id = id].dst
  IN /\ Len(trace) = Len(d.nodes)
     /\ \A i \in DOMAIN Order :
          LET e == trace[i]
              deps == _dependencies(Node(i))
          IN /\ e.node = Node(i).id
             /\ e.sources = [j \in DOMAIN deps |-> given(deps[j])]
             /\ Node(i).op # "STORE_U32" =>
                  e.destination = instructions[i].dst /\ e.last_use = LastUse(e.node)
             /\ instructions[i] =
                  Encode(Node(i), e.destination, e.sources, _program_version(d))

-----------------------------------------------------------------------------
\* compile_descriptor().

Init ==
  /\ draft \in Drafts
  /\ \E k \in draft.schemas, a \in draft.shapes : d = [schema |-> k, affine |-> a, nodes |-> <<>>]
  /\ pc = "write" /\ index = 1
  /\ remaining = <<>> /\ registers = <<>> /\ allocations = <<>>
  /\ free = 0 .. Registers - 1
  /\ instructions = <<>>

\* The author's next node; the finished descriptor is submitted.
WriteNode(node) ==
  /\ pc = "write"
  /\ d' = [d EXCEPT !.nodes = Append(@, node)]
  /\ pc' = IF Len(d.nodes) + 1 = Len(draft.choices) THEN "admit" ELSE pc
  /\ UNCHANGED <<draft, index, remaining, registers, free, allocations, instructions>>

UsesOf(id) ==
  Cardinality({p \in (DOMAIN d.nodes) \X {1, 2} :
                 /\ p[2] \in DOMAIN _dependencies(d.nodes[p[1]])
                 /\ _dependencies(d.nodes[p[1]])[p[2]] = id})

Admit ==
  /\ pc = "admit"
  /\ IF validate_descriptor(d)
     THEN /\ pc' = "lower"
          /\ remaining' = [id \in {d.nodes[i].id : i \in DOMAIN d.nodes} |-> UsesOf(id)]
     ELSE pc' = "refused" /\ remaining' = remaining
  /\ UNCHANGED <<draft, d, index, registers, free, allocations, instructions>>

Without(f, S) == [x \in (DOMAIN f) \ S |-> f[x]]
With(f, x, y) == [z \in (DOMAIN f) \cup {x} |-> IF z = x THEN y ELSE f[z]]

\* The sources that were used for the last time.
Released(left, node) == {s \in Sources(node) : left[s] = 0}

Mutant_FreeAfter(left, node) == free \cup {registers[s] : s \in Sources(node)}

\* The registers an instruction may write.
FreeAfter(left, node) == free \cup {registers[s] : s \in Released(left, node)}

\* One node: its sources are read and released before its register is taken.
LowerNode ==
  /\ pc = "lower" /\ index <= Len(Order)
  /\ LET node == Node(index)
         deps == _dependencies(node)
         srcs == [j \in DOMAIN deps |-> registers[deps[j]]]
         times(s) == Cardinality({j \in DOMAIN deps : deps[j] = s})
         left == [s \in DOMAIN remaining |-> remaining[s] - times(s)]
         gone == Released(left, node)
         open == FreeAfter(left, node)
     IN /\ remaining' = left
        /\ IF node.op = "STORE_U32"
           THEN /\ instructions' = Append(instructions, encode_store(srcs[1]))
                /\ registers' = Without(registers, gone) /\ free' = open
                /\ UNCHANGED allocations /\ index' = index + 1 /\ pc' = pc
           ELSE IF open = {}
           THEN /\ pc' = "refused" /\ index' = index
                /\ registers' = Without(registers, gone) /\ free' = open
                /\ UNCHANGED <<allocations, instructions>>
           ELSE LET dst == SetMin(open)
                IN /\ registers' = With(Without(registers, gone), node.id, dst)
                   /\ allocations' = With(allocations, node.id, dst)
                   /\ free' = open \ {dst}
                   /\ instructions' =
                        Append(instructions, Encode(node, dst, srcs, _program_version(d)))
                   /\ index' = index + 1 /\ pc' = pc
  /\ UNCHANGED <<draft, d>>

Finish ==
  /\ pc = "lower" /\ index > Len(Order)
  /\ pc' = IF validate_lowering_trace(_lowering_trace) THEN "done" ELSE "untraced"
  /\ UNCHANGED <<draft, d, index, remaining, registers, free, allocations, instructions>>

Next ==
  \/ pc = "write" /\ \E node \in draft.choices[Len(d.nodes) + 1] : WriteNode(node)
  \/ Admit \/ LowerNode \/ Finish
Spec == Init /\ [][Next]_vars

-----------------------------------------------------------------------------
\* A compiled program is one the fallback admits, it is explained by its own
\* trace, and run on the register file it computes what the descriptor says in
\* every output word, each store carrying that word: sharing a register never
\* destroys a value that a later node reads.
LoweringExact ==
  /\ pc # "untraced"
  /\ pc = "done" =>
       LET version == _program_version(d)
           oracle == graph_oracle(d)
       IN /\ _validate_fallback_program(instructions, version)
          /\ software_fallback(instructions, d.affine, version) = oracle
          /\ oracle # IndexError => \A c \in Cells(d.affine) :
               LET t == expected_transactions(instructions, d.affine, c, version)
               IN /\ \A i \in 1 .. Len(t) - 1 : ~ t[i].write /\ Inside(t[i].address)
                  /\ t[Len(t)].write /\ t[Len(t)].data = oracle[t[Len(t)].address - InputWords]

\* "affine shape escapes the bounded windows": every load of an admitted
\* descriptor stays inside the input window. Not so of the code: the bound is
\* that of the south neighbour, and the south-east one lies one word further.
WindowSafe ==
  pc = "done" => \A c \in Cells(d.affine), i \in DOMAIN instructions :
    instructions[i].op = "LOAD_U32" =>
      Inside(LoadAddress(instructions[i], d.affine, c, _program_version(d)))
=============================================================================
