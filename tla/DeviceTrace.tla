---------------------------- MODULE DeviceTrace ----------------------------
(***************************************************************************)
(* What the graph-device finalizers read out of a transaction trace.       *)
(*                                                                         *)
(* A simulated device leaves a trace: lifecycle events (reset, start,      *)
(* cancel) and memory transactions, or, over AXI4-Lite, register accesses. *)
(* Five finalizers decide whether it shows what the receipt will say:      *)
(*   schedule  graph_device_schedule.py         two runs and a cancel      *)
(*   affine    graph_device_affine.py           two profiles, two cancels  *)
(*   dag       graph_device_dag.py              the frozen catalogue       *)
(*   selected  graph_device_selected.py         one admitted request       *)
(*   request   graph_device_axi4lite_request.py the same over AXI4-Lite    *)
(* A defect of the device or a damaged file makes the trace deviate.       *)
(***************************************************************************)
EXTENDS Integers, Sequences, FiniteSets

CONSTANTS Finalizers,     \* the finalizers exercised
          Side,           \* side of the fixed stencil (16)
          InputWords,     \* size of the input window (324)
          OutputWords,    \* size of the output window (256)
          MaxSide,        \* largest side of a profile (16)
          Profiles,       \* PROFILE_BASES: name -> shape
          Shapes,         \* the shapes proposed to validate_profile()
          Graphs,         \* the catalogue, in order
          Input(_, _),    \* input_words(seed)[address]
          Program(_, _),  \* expected_transactions() of a graph, see GraphProgram
          WordMod,        \* 2^32
          RejectedCases,  \* invalid programs tried before the first run (8)
          Polls,          \* status reads of the request (449 .. 2817)
          CancelPoints,   \* transactions a cancelled run may have made
          MaxFaults       \* deviations of one trace

VARIABLES kind,
          trace,      \* the file, as it is now
          faults,
          judged,     \* <<the trace the finalizer read>>, once it has
          verdict,
          shown,      \* <<what the presenter printed>>, once it has
          shape,      \* <<the proposed profile>>
          admitted

tvars == <<kind, trace, faults, judged, verdict, shown, shape, admitted>>

Event(e) == [event |-> e, write |-> FALSE, address |-> 0, data |-> 0]
Tx(w, a, d) == [event |-> "transaction", write |-> w, address |-> a, data |-> d]
Repeated(x, n) == [i \in 1 .. n |-> x]
Memory == InputWords + OutputWords
IsPrefixOf(s, t) == Len(s) <= Len(t) /\ SubSeq(t, 1, Len(s)) = s

\* Concatenation of a sequence of sequences.
Joined(parts) ==
  LET upTo[i \in 0 .. Len(parts)] == IF i = 0 THEN <<>> ELSE upTo[i - 1] \o parts[i]
  IN upTo[Len(parts)]

-----------------------------------------------------------------------------
\* The transactions a run must make.  A load has no expected data: it is 0
\* here and not compared.

\* Effects of the descriptor's schedule for one output, in slot order.
compile_generated_schedule ==
  <<[write |-> FALSE, affine |-> "center"], [write |-> FALSE, affine |-> "north"],
    [write |-> FALSE, affine |-> "south"], [write |-> FALSE, affine |-> "west"],
    [write |-> FALSE, affine |-> "east"], [write |-> TRUE, affine |-> "output"]>>

_logical_address(expression, y, x) ==
  LET stride == Side + 2
  IN CASE expression = "center" -> stride * y + x
       [] expression = "north" -> stride * (y - 1) + x
       [] expression = "south" -> stride * (y + 1) + x
       [] expression = "west" -> stride * y + x - 1
       [] expression = "east" -> stride * y + x + 1
       [] OTHER -> Side * (y - 1) + (x - 1)

\* The store of the object B is checked against Pavane's stencil.
ScheduleTransactions(seed) ==
  LET ops == compile_generated_schedule
      oracle(y, x) == (Input(seed, _logical_address("center", y, x))
                       + Input(seed, _logical_address("north", y, x))
                       + Input(seed, _logical_address("south", y, x))
                       + Input(seed, _logical_address("west", y, x))
                       + Input(seed, _logical_address("east", y, x))) % WordMod
      tx(i) == LET out == (i - 1) \div Len(ops)
                   op == ops[((i - 1) % Len(ops)) + 1]
                   y == (out \div Side) + 1
                   x == (out % Side) + 1
               IN Tx(op.write,
                     (IF op.write THEN InputWords ELSE 0) + _logical_address(op.affine, y, x),
                     IF op.write THEN oracle(y, x) ELSE 0)
  IN [i \in 1 .. (Side * Side * Len(ops)) |-> tx(i)]

profile(name) == Profiles[name]

Mutant_validate_profile(p) ==
  /\ p.rows \in 1 .. MaxSide /\ p.columns \in 1 .. MaxSide
  /\ p.active_outputs = p.rows * p.columns /\ p.active_outputs <= OutputWords
  /\ p.input_stride >= p.columns + 2 /\ p.output_stride >= p.columns
  /\ p.rows * p.input_stride + p.columns < InputWords
  /\ (p.rows - 1) * p.output_stride + p.columns - 1 < OutputWords

validate_profile(p) ==
  /\ p.rows \in 1 .. MaxSide /\ p.columns \in 1 .. MaxSide
  /\ p.active_outputs = p.rows * p.columns /\ p.active_outputs <= OutputWords
  /\ p.input_stride >= p.columns + 2 /\ p.output_stride >= p.columns
  /\ p.rows * p.input_stride + p.columns + p.input_stride < InputWords
  /\ (p.rows - 1) * p.output_stride + p.columns - 1 < OutputWords

Center(p, row, column) == (row + 1) * p.input_stride + column + 1
Neighbours(p, row, column) ==
  LET c == Center(p, row, column)
  IN <<c, c - p.input_stride, c + p.input_stride, c - 1, c + 1>>

\* Output word a, with a sum reduced once at the end.
affine_oracle(seed, p) ==
  [a \in 0 .. (OutputWords - 1) |->
     LET row == a \div p.output_stride
         column == a % p.output_stride
         w == [i \in 1 .. 5 |-> Input(seed, Neighbours(p, row, column)[i])]
     IN IF row < p.rows /\ column < p.columns
        THEN (w[1] + w[2] + w[3] + w[4] + w[5]) % WordMod ELSE 0]

\* The cells written in row order, with an accumulator reduced at every step.
software_fallback(seed, p) ==
  LET cell(i) == [row |-> (i - 1) \div p.columns, column |-> (i - 1) % p.columns]
      sum(i) == LET n == Neighbours(p, cell(i).row, cell(i).column)
                    acc[k \in 0 .. 5] ==
                      IF k = 0 THEN 0 ELSE (acc[k - 1] + Input(seed, n[k])) % WordMod
                IN acc[5]
      out[i \in 0 .. (p.rows * p.columns)] ==
        IF i = 0 THEN [a \in 0 .. (OutputWords - 1) |-> 0]
        ELSE [out[i - 1] EXCEPT ![cell(i).row * p.output_stride + cell(i).column] = sum(i)]
  IN out[p.rows * p.columns]

AffineTransactions(p, seed) ==
  LET oracle == affine_oracle(seed, p)
      cell(i) == LET row == (i - 1) \div p.columns
                     column == (i - 1) % p.columns
                     out == row * p.output_stride + column
                 IN [k \in 1 .. 5 |-> Tx(FALSE, Neighbours(p, row, column)[k], 0)]
                    \o <<Tx(TRUE, InputWords + out, oracle[out])>>
  IN Joined([i \in 1 .. (p.rows * p.columns) |-> cell(i)])

-----------------------------------------------------------------------------
\* The parsers.  A transaction belongs to the run that is open; start opens one
\* and closes the one before it, reset and cancel close it.

Cut(t, strictCancel) ==
  LET step(s, token) ==
        CASE ~s.ok -> s
          [] token.event # "transaction" /\ token # Event(token.event) -> [s EXCEPT !.ok = FALSE]
          [] token.event = "transaction" ->
               IF s.open /\ token.address \in 0 .. (Memory - 1)
               THEN [s EXCEPT !.current = Append(@, token)]
               ELSE [s EXCEPT !.ok = FALSE]
          [] token.event = "cancel" /\ strictCancel /\ ~s.open -> [s EXCEPT !.ok = FALSE]
          [] OTHER ->
               [ok |-> TRUE, events |-> Append(s.events, token.event),
                segments |-> IF s.open THEN Append(s.segments, s.current) ELSE s.segments,
                open |-> token.event = "start", current |-> <<>>]
      run[i \in 0 .. Len(t)] ==
        IF i = 0 THEN [ok |-> TRUE, events |-> <<>>, segments |-> <<>>, open |-> FALSE,
                       current |-> <<>>]
        ELSE step(run[i - 1], t[i])
      end == run[Len(t)]
  IN [ok |-> end.ok, events |-> end.events,
      segments |-> IF end.open THEN Append(end.segments, end.current) ELSE end.segments]

\* The schedule's parser refuses a cancel outside a run, the others count it.
_parse_trace(t) == Cut(t, TRUE)
AffineParse(t) == Cut(t, FALSE)
DagParse(t) == Cut(t, FALSE)

\* Loads are compared by address, stores by address and data.
Matches(seen, planned) ==
  \A i \in DOMAIN seen : /\ seen[i].write = planned[i].write
                         /\ seen[i].address = planned[i].address
                         /\ planned[i].write => seen[i].data = planned[i].data

Mutant_require_equivalent(actual, expected, prefix) ==
  /\ IF prefix THEN Len(actual) \in 1 .. (Len(expected) - 1)
               ELSE Len(actual) <= Len(expected)
  /\ Matches(actual, expected)

_require_equivalent(actual, expected, prefix) ==
  /\ IF prefix THEN Len(actual) \in 1 .. (Len(expected) - 1)
               ELSE Len(actual) = Len(expected)
  /\ Matches(actual, expected)

AffineRequire(actual, expected, prefix) ==
  /\ IF prefix THEN Len(actual) \in 1 .. (Len(expected) - 1)
               ELSE Len(actual) = Len(expected)
  /\ Matches(actual, expected)

_require_transactions(actual, expected, strict_prefix, allow_empty) ==
  /\ IF strict_prefix
     THEN Len(actual) \in (IF allow_empty THEN 0 ELSE 1) .. (Len(expected) - 1)
     ELSE Len(actual) = Len(expected)
  /\ Matches(actual, expected)

-----------------------------------------------------------------------------
\* The finalizers' verdict on the trace.

ScheduleEvents == <<"reset", "start", "start", "cancel", "reset", "start">>
ScheduleAccepts(t) ==
  LET p == _parse_trace(t)
  IN /\ p.ok /\ p.events = ScheduleEvents /\ Len(p.segments) = 3
     /\ _require_equivalent(p.segments[1], ScheduleTransactions(1), FALSE)
     /\ _require_equivalent(p.segments[2], ScheduleTransactions(3), TRUE)
     /\ _require_equivalent(p.segments[3], ScheduleTransactions(2), FALSE)

Occurrences(events, e) == Cardinality({i \in DOMAIN events : events[i] = e})
AffinePlan == <<[profile |-> "baseline", seed |-> 3, prefix |-> TRUE],
                [profile |-> "baseline", seed |-> 1, prefix |-> FALSE],
                [profile |-> "compact", seed |-> 2, prefix |-> FALSE],
                [profile |-> "compact", seed |-> 3, prefix |-> TRUE],
                [profile |-> "compact", seed |-> 4, prefix |-> FALSE]>>
AffineAccepts(t) ==
  LET p == AffineParse(t)
  IN /\ p.ok /\ Len(p.segments) = 5
     /\ Occurrences(p.events, "start") = 5 /\ Occurrences(p.events, "cancel") = 2
     /\ \A i \in 1 .. 5 :
          AffineRequire(p.segments[i], AffineTransactions(profile(AffinePlan[i].profile),
                                                          AffinePlan[i].seed),
                        AffinePlan[i].prefix)

\* The frozen catalogue: a run cancelled by the busy install, then the artifact's
\* five invocations.
DagEvents == Repeated("reset", RejectedCases)
             \o <<"start", "cancel", "reset", "reset", "start", "reset", "start", "reset",
                  "start", "cancel", "reset", "start", "reset", "start">>
Invocations == <<[graph |-> Graphs[1], seed |-> 1, mode |-> "complete"],
                 [graph |-> Graphs[2], seed |-> 2, mode |-> "complete"],
                 [graph |-> Graphs[2], seed |-> 3, mode |-> "cancel"],
                 [graph |-> Graphs[3], seed |-> 4, mode |-> "complete"],
                 [graph |-> Graphs[1], seed |-> 5, mode |-> "factory-restart"]>>
DagAccepts(t) ==
  LET p == DagParse(t)
      full(i) == Program(Invocations[i].graph, Invocations[i].seed)
  IN /\ p.ok /\ p.events = DagEvents /\ Len(p.segments) = 6
     /\ _require_transactions(p.segments[1], full(1), TRUE, TRUE)
     /\ \A i \in 1 .. 5 :
          _require_transactions(p.segments[i + 1], full(i), Invocations[i].mode = "cancel", FALSE)

\* One request: graph 2 with seed 4 stands for whatever was admitted.
Request == [graph |-> Graphs[2], seed |-> 4]
SelectedEvents == Repeated("reset", RejectedCases) \o <<"start", "cancel", "reset", "reset", "start">>
SelectedAccepts(t) ==
  LET p == DagParse(t)
  IN /\ p.ok /\ p.events = SelectedEvents /\ Len(p.segments) = 2
     /\ _require_transactions(p.segments[1], Program(Graphs[1], 1), TRUE, TRUE)
     /\ _require_transactions(p.segments[2], Program(Request.graph, Request.seed), FALSE, FALSE)

\* Register accesses of the request's lifecycle: affine payload, program payload
\* with the word count read back, digest, staging, start, polls, output.
Write(reg, d) == [event |-> "axi", write |-> TRUE, address |-> reg, data |-> d]
Read(reg, d) == [event |-> "axi", write |-> FALSE, address |-> reg, data |-> d]
Exec == 0
Config == 100
ProgramBase == 200
Stage == 300
Out == 400
SelectedReset == Write(Exec, 4)
Payload == <<7, 8>>
Stores(txs) == SelectSeq(txs, LAMBDA x : x.write)
RequestScript ==
  LET final == Stores(Program(Request.graph, Request.seed))
      both(i) == <<Write(ProgramBase + 1, Payload[i]), Read(ProgramBase + 2, i)>>
  IN <<SelectedReset, Write(Config, 1), Write(Config + 1, 5), Write(Config, 2), Read(Config + 2, 2),
       Write(ProgramBase, 1)>>
     \o Joined([i \in DOMAIN Payload |-> both(i)])
     \o <<Write(ProgramBase, 2), Read(ProgramBase + 3, 2), Read(ProgramBase + 4, Payload[2])>>
     \o [i \in 1 .. 3 |-> Write(Stage + i, Input(Request.seed, i))]
     \o <<Write(Exec, 1)>>
     \o Repeated(Read(Exec + 1, 1), Polls - 1) \o <<Read(Exec + 1, 18)>>
     \o [i \in DOMAIN final |-> Read(Out + final[i].address, final[i].data)]

\* The rejected installs come first and are compared by digest.
NegativePrefix == Joined([i \in 1 .. RejectedCases |-> <<SelectedReset, Write(ProgramBase, 9)>>])
LastReset(t) == LET at == {i \in DOMAIN t : t[i] = SelectedReset}
                IN IF at = {} THEN 0 ELSE CHOOSE i \in at : \A j \in at : j <= i
_trace(t) ==
  /\ IsPrefixOf(NegativePrefix, t)
  /\ LastReset(t) = Len(NegativePrefix) + 1
  /\ SubSeq(t, LastReset(t), Len(t)) = RequestScript

Accepts(k, t) == CASE k = "schedule" -> ScheduleAccepts(t)
                   [] k = "affine" -> AffineAccepts(t)
                   [] k = "dag" -> DagAccepts(t)
                   [] k = "selected" -> SelectedAccepts(t)
                   [] OTHER -> _trace(t)

-----------------------------------------------------------------------------
\* The presenter: the completed run is read again, cut into output cells, and at
\* most three are shown.

_selected_trace(t) ==
  LET p == DagParse(t)
  IN /\ p.ok /\ p.events = SelectedEvents /\ Len(p.segments) = 2
     /\ _require_transactions(p.segments[2], Program(Request.graph, Request.seed), FALSE, FALSE)

_sample_cells(txs) ==
  LET ends == SelectSeq([i \in DOMAIN txs |-> i], LAMBDA i : txs[i].write)
      cell(n) == SubSeq(txs, (IF n = 1 THEN 1 ELSE ends[n - 1] + 1), ends[n])
  IN [i \in {0, Len(ends) \div 2, Len(ends) - 1} |-> cell(i + 1)]

-----------------------------------------------------------------------------
\* What a working device leaves.

Cancelled(txs, n) == SubSeq(txs, 1, n)
ScheduleScript(k) ==
  <<Event("reset"), Event("start")>> \o ScheduleTransactions(1)
  \o <<Event("start")>> \o Cancelled(ScheduleTransactions(3), k)
  \o <<Event("cancel"), Event("reset"), Event("start")>> \o ScheduleTransactions(2)
AffineScript(j, k) ==
  LET full(i) == AffineTransactions(profile(AffinePlan[i].profile), AffinePlan[i].seed)
  IN <<Event("reset"), Event("start")>> \o Cancelled(full(1), j)
     \o <<Event("cancel"), Event("reset"), Event("start")>> \o full(2)
     \o <<Event("reset"), Event("start")>> \o full(3)
     \o <<Event("reset"), Event("start")>> \o Cancelled(full(4), k)
     \o <<Event("cancel"), Event("reset"), Event("start")>> \o full(5)
DagScript(j, k) ==
  LET full(i) == Program(Invocations[i].graph, Invocations[i].seed)
  IN Repeated(Event("reset"), RejectedCases) \o <<Event("start")>> \o Cancelled(full(1), j)
     \o <<Event("cancel"), Event("reset"), Event("reset"), Event("start")>> \o full(1)
     \o <<Event("reset"), Event("start")>> \o full(2)
     \o <<Event("reset"), Event("start")>> \o Cancelled(full(3), k)
     \o <<Event("cancel"), Event("reset"), Event("start")>> \o full(4)
     \o <<Event("reset"), Event("start")>> \o full(5)
SelectedScript(j) ==
  Repeated(Event("reset"), RejectedCases) \o <<Event("start")>> \o Cancelled(Program(Graphs[1], 1), j)
  \o <<Event("cancel"), Event("reset"), Event("reset"), Event("start")>>
  \o Program(Request.graph, Request.seed)

\* The busy run of the catalogue may be cancelled before its first transaction.
Scripts(k) ==
  CASE k = "schedule" -> {ScheduleScript(j) : j \in CancelPoints}
    [] k = "affine" -> {AffineScript(i, j) : i, j \in CancelPoints}
    [] k = "dag" -> {DagScript(i, j) : i \in CancelPoints \union {0}, j \in CancelPoints}
    [] k = "selected" -> {SelectedScript(j) : j \in CancelPoints \union {0}}
    [] OTHER -> {NegativePrefix \o RequestScript}

TraceInit == /\ kind = "none" /\ trace = <<>> /\ faults = 0 /\ judged = <<>> /\ verdict = "none"
             /\ shown = <<>> /\ shape = <<>> /\ admitted = FALSE

LeaveTrace == /\ kind = "none" /\ shape = <<>>
              /\ \E k \in Finalizers : kind' = k /\ trace' \in Scripts(k)
              /\ UNCHANGED <<faults, judged, verdict, shown, shape, admitted>>

Changed(t, i, x) == [t EXCEPT ![i] = x]
Inserted(t, i, x) == SubSeq(t, 1, i - 1) \o <<x>> \o SubSeq(t, i, Len(t))
Without(t, i) == SubSeq(t, 1, i - 1) \o SubSeq(t, i + 1, Len(t))

\* One token is lost, doubled, turned into another or moved in, before the
\* finalizer reads the trace or between the finalizer and the presenter.
Deviate == /\ kind # "none" /\ faults < MaxFaults /\ shown = <<>>
           /\ verdict = "none" \/ (verdict = "accepted" /\ kind = "selected")
           /\ \E i \in DOMAIN trace :
                trace' \in {Without(trace, i), Inserted(trace, i, trace[i]),
                            Changed(trace, i, [trace[i] EXCEPT !.data = (@ + 1) % WordMod]),
                            Changed(trace, i, [trace[i] EXCEPT !.address = @ + 1]),
                            Changed(trace, i, [trace[i] EXCEPT !.write = ~@])}
                           \union {Inserted(trace, i, Event(e)) : e \in {"reset", "start", "cancel"}}
                           \union {Append(trace, Event("cancel")), Append(trace, trace[i])}
           /\ faults' = faults + 1
           /\ UNCHANGED <<kind, judged, verdict, shown, shape, admitted>>

Judge == /\ kind # "none" /\ verdict = "none"
         /\ verdict' = (IF Accepts(kind, trace) THEN "accepted" ELSE "refused")
         /\ judged' = <<trace>>
         /\ UNCHANGED <<kind, trace, faults, shown, shape, admitted>>

Show == /\ kind = "selected" /\ verdict = "accepted" /\ shown = <<>>
        /\ _selected_trace(trace)
        /\ shown' = <<_sample_cells(DagParse(trace).segments[2])>>
        /\ UNCHANGED <<kind, trace, faults, judged, verdict, shape, admitted>>

\* A profile is proposed to validate_profile().
Propose == /\ kind = "none" /\ shape = <<>>
           /\ \E s \in Shapes : shape' = <<s>> /\ admitted' = validate_profile(s)
           /\ UNCHANGED <<kind, trace, faults, judged, verdict, shown>>

TraceNext == LeaveTrace \/ Deviate \/ Judge \/ Show \/ Propose
TraceSpec == TraceInit /\ [][TraceNext]_tvars

-----------------------------------------------------------------------------
\* The reference.  A trace shows the lifecycle when it is a working device's
\* trace for some cancel points, the data of its loads aside.

SameUpToLoads(t, s) ==
  /\ Len(t) = Len(s)
  /\ \A i \in DOMAIN t : \/ t[i] = s[i]
                        \/ /\ s[i].event = "transaction" /\ ~s[i].write
                           /\ [t[i] EXCEPT !.data = 0] = s[i]

Lengths(txs) == 1 .. (Len(txs) - 1)
ScheduleTraces == {ScheduleScript(j) : j \in Lengths(ScheduleTransactions(3))}
DagTraces == {DagScript(i, j) : i \in Lengths(Program(Graphs[1], 1)) \union {0},
                                j \in Lengths(Program(Graphs[2], 3))}
SelectedTraces == {SelectedScript(j) : j \in Lengths(Program(Graphs[1], 1)) \union {0}}

\* For the affine matrix, whose resets are not fixed: by positions.  The run of a
\* start is what stands between it and the next lifecycle event.
Lifecycle(t) == {i \in DOMAIN t : t[i].event # "transaction"}
Starts(t) == SelectSeq([i \in DOMAIN t |-> i], LAMBDA i : t[i].event = "start")
EndOf(t, i) == LET later == {j \in Lifecycle(t) : j > i}
               IN IF later = {} THEN Len(t) + 1 ELSE CHOOSE j \in later : \A k \in later : j <= k
RunOf(t, i) == SubSeq(t, i + 1, EndOf(t, i) - 1)
PlanOf(i) == AffineTransactions(profile(AffinePlan[i].profile), AffinePlan[i].seed)
AffineShows(t) ==
  LET starts == Starts(t)
  IN /\ Len(starts) = 5
     /\ Cardinality({i \in DOMAIN t : t[i].event = "cancel"}) = 2
     /\ \A i \in Lifecycle(t) : t[i] = Event(t[i].event)
     /\ \A i \in DOMAIN t \ Lifecycle(t) : \E n \in 1 .. 5 : starts[n] < i /\ i < EndOf(t, starts[n])
     /\ \A n \in 1 .. 5 :
          LET run == RunOf(t, starts[n])
              plan == IF AffinePlan[n].prefix THEN SubSeq(PlanOf(n), 1, Len(run)) ELSE PlanOf(n)
          IN SameUpToLoads(run, plan) /\ (AffinePlan[n].prefix => Len(run) \in Lengths(PlanOf(n)))

Shows(k, t) == CASE k = "schedule" -> \E s \in ScheduleTraces : SameUpToLoads(t, s)
                 [] k = "affine" -> AffineShows(t)
                 [] k = "dag" -> \E s \in DagTraces : SameUpToLoads(t, s)
                 [] k = "selected" -> \E s \in SelectedTraces : SameUpToLoads(t, s)
                 [] OTHER -> t = NegativePrefix \o RequestScript

\* A finalizer accepts exactly the traces that show its lifecycle: the parser's
\* running cut into invocations, the event list and the counts, and the prefix
\* comparison admit neither a lost, doubled, misplaced or altered transaction nor
\* a cancelled run that completed, and refuse no correct trace.  What a presenter
\* prints of a trace it reads a second time is whole cells of the completed run.
TraceExact ==
  /\ verdict # "none" => ((verdict = "accepted") <=> Shows(kind, judged[1]))
  /\ shown # <<>> =>
       LET plan == Program(Request.graph, Request.seed)
           width == Len(plan) \div Len(Stores(plan))
           cells == shown[1]
       IN \A n \in DOMAIN cells :
            SameUpToLoads(cells[n], SubSeq(plan, n * width + 1, (n + 1) * width))

\* An admitted profile reads inside the input window and writes distinct words of
\* the output window; the oracle, the fallback and the stores of the expected
\* transactions agree on every word, and words of no cell stay zero.
ProfileExact ==
  admitted =>
    LET p == shape[1]
        cells == (0 .. (p.rows - 1)) \X (0 .. (p.columns - 1))
        out(c) == c[1] * p.output_stride + c[2]
    IN /\ \A c \in cells : \A i \in 1 .. 5 : Neighbours(p, c[1], c[2])[i] \in 0 .. (InputWords - 1)
       /\ \A c \in cells : out(c) \in 0 .. (OutputWords - 1)
       /\ \A c, d \in cells : out(c) = out(d) => c = d
       /\ affine_oracle(1, p) = software_fallback(1, p)
       /\ LET stores == Stores(AffineTransactions(p, 1))
              at(a) == {i \in DOMAIN stores : stores[i].address = InputWords + a}
          IN \A a \in 0 .. (OutputWords - 1) :
               affine_oracle(1, p)[a] = IF at(a) = {} THEN 0
                                        ELSE stores[CHOOSE i \in at(a) : TRUE].data

\* "trace lifecycle or invocation count changed": in an accepted affine trace
\* each cancelled run ends in a cancel event. Not so of the code: it counts
\* the cancel events wherever they stand.
CancelEndsRun ==
  (kind = "affine" /\ verdict = "accepted") =>
    LET t == judged[1]
    IN \A n \in 1 .. 5 : AffinePlan[n].prefix =>
         LET e == EndOf(t, Starts(t)[n]) IN e <= Len(t) /\ t[e].event = "cancel"
=============================================================================
