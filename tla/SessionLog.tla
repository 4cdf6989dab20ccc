----------------------------- MODULE SessionLog -----------------------------
(***************************************************************************)
(* The log of one simulator session and the verifiers that decide whether  *)
(* it is evidence: raveil/t0044_fixture.py (staging by a common fixture)   *)
(* and raveil/t0044_repeated.py (staging by the candidate).  A log line is *)
(* [kind, inv, k, ok]: which marker, for which invocation, its index, and  *)
(* whether its other fields have the values the verifiers compare them     *)
(* with.  Fields they never compare (a phase's accepted and completed, a   *)
(* rearm's cycle) are no part of a line: nothing is said of their values.  *)
(* The accounting markers of an invocation are one kind.                   *)
(*                                                                         *)
(* A log starts as the simulator writes it and then loses, repeats, moves, *)
(* relabels or changes lines.                                              *)
(***************************************************************************)
EXTENDS Naturals, Sequences, SequencesExt

CONSTANTS
  Account,     \* invocations of the session
  Inputs,      \* input words of an invocation
  Outputs,     \* output words of an invocation
  MaxFaults    \* bound: faulty lines

VARIABLES experiment, log, faults

lvars == <<experiment, log, faults>>

Line(kind, inv, k) == [kind |-> kind, inv |-> inv, k |-> k, ok |-> TRUE]
Lines(kind, inv, n) == [k \in 1..n |-> Line(kind, inv, k)]
Sections(section(_)) == FlattenSeq([i \in 1..Account |-> section(i)])

\* Phase markers are numbered by their order in the invocation: for the fixture
\* 1 is the start of staging and 2 the release; for the repeated session k is
\* the step from phase k to its successor, 0 the one-time installation.
FixtureInvocation(i) ==
  Lines("phase", i, 1) \o Lines("input", i, Inputs) \o <<Line("phase", i, 2)>>
  \o Lines("staging", i, 1) \o Lines("resource", i, 1) \o Lines("output", i, Outputs)
  \o Lines("rearm", i, 1) \o Lines("account", i, 1)

RepeatedInvocation(i) ==
  <<Line("phase", i, 1), Line("phase", i, 2), Line("phase", i, 3)>>
  \o Lines("output", i, Outputs) \o <<Line("phase", i, 4)>>
  \o Lines("resource", i, 1) \o Lines("account", i, 1)

Host == <<Line("host", 0, 1)>>

SessionInit ==
  /\ experiment \in {"fixture", "repeated"}
  /\ log = IF experiment = "fixture" THEN Sections(FixtureInvocation) \o Host
           ELSE <<Line("phase", 1, 0)>> \o Sections(RepeatedInvocation) \o Host
  /\ faults = 0

----------------------------------------------------------------------------
(* What may happen to a log.                                               *)

Fault(new) ==
  /\ faults < MaxFaults /\ faults' = faults + 1
  /\ log' = new
  /\ UNCHANGED experiment

Lose(n) == Fault(RemoveAt(log, n))
Repeat(n) == Fault(InsertAt(log, n, log[n]))
\* A field that is compared changes.
Corrupt(n) == Fault([log EXCEPT ![n].ok = FALSE])
Relabel(n, i) == log[n].inv \notin {0, i} /\ Fault([log EXCEPT ![n].inv = i])
Move(n, to) == n # to /\ Fault(InsertAt(RemoveAt(log, n), to, log[n]))

SessionNext ==
  \E n \in DOMAIN log :
    \/ Lose(n) \/ Repeat(n) \/ Corrupt(n)
    \/ \E i \in 1..Account : Relabel(n, i)
    \/ \E to \in DOMAIN log : Move(n, to)

SessionSpec == SessionInit /\ [][SessionNext]_lvars

----------------------------------------------------------------------------
(* The verifiers.                                                          *)

_markers(kind) == SelectSeq(log, LAMBDA line : line.kind = kind)
Markers(kind, i) == SelectSeq(log, LAMBDA line : line.kind = kind /\ line.inv = i)
At(kind, i) == {n \in DOMAIN log : log[n].kind = kind /\ log[n].inv = i}
Before(S, T) == \A s \in S, t \in T : s < t
Expected(kind) == [i \in 1..Account |-> Line(kind, i, 1)]

\* Every output word of every invocation once, with the oracle's value.
_observed_output_hashes ==
  /\ Len(_markers("output")) = Outputs * Account
  /\ \A i \in 1..Account, k \in 1..Outputs :
       \E n \in At("output", i) : log[n] = Line("output", i, k)

\* Accounting lines come in the order of the invocations, with frozen values.
AccountingInOrder == _markers("account") = Expected("account")

\* Mutant: the outputs may precede the release of the inputs.
Mutant_EventOrder(i) ==
  LET phase == At("phase", i)
      start == {n \in phase : \A m \in phase : n <= m}
      release == phase \ start
  IN  /\ Before(start, At("input", i)) /\ Before(At("input", i), release)
      /\ Before(release, At("staging", i))
      /\ Before(At("staging", i), At("resource", i))
      /\ Before(At("output", i), At("rearm", i))

EventOrder(i) ==
  LET phase == At("phase", i)
      start == {n \in phase : \A m \in phase : n <= m}
      release == phase \ start
  IN  /\ Before(start, At("input", i)) /\ Before(At("input", i), release)
      /\ Before(release, At("staging", i) \cup At("output", i))
      /\ Before(At("staging", i), At("resource", i))
      /\ Before(At("output", i), At("rearm", i))

_fixture_records ==
  /\ Len(_markers("input")) = Inputs * Account
  /\ Len(_markers("phase")) = 2 * Account /\ Len(_markers("rearm")) = Account
  /\ _markers("staging") = Expected("staging")
  /\ _markers("resource") = Expected("resource")
  /\ \A i \in 1..Account :
       /\ Markers("input", i) = Lines("input", i, Inputs)
       /\ Markers("phase", i) = Lines("phase", i, 2)
       /\ Len(Markers("output", i)) = Outputs
       /\ Markers("rearm", i) = Lines("rearm", i, 1)
       /\ EventOrder(i)

verify_fixture_log ==
  /\ _markers("host") = Host
  /\ _fixture_records
  /\ _observed_output_hashes
  /\ AccountingInOrder

\* The phase markers of the whole session, in their only admitted order.
ExpectedPhaseOrder ==
  <<Line("phase", 1, 0)>> \o Sections(LAMBDA i : Lines("phase", i, 4))

verify_cpu_log ==
  /\ _markers("host") = Host
  /\ _markers("phase") = ExpectedPhaseOrder
  /\ _observed_output_hashes
  /\ _markers("resource") = Expected("resource")
  /\ AccountingInOrder

parse_variant_log == IF experiment = "fixture" THEN verify_fixture_log ELSE verify_cpu_log

----------------------------------------------------------------------------
(* The protocol as a machine that reads the log line by line.              *)

Start == [phase |-> [i \in 1..Account |-> 0],      \* markers read so far
          input |-> [i \in 1..Account |-> 0],
          output |-> [i \in 1..Account |-> {}],
          staging |-> 0, resource |-> 0, account |-> 0, host |-> 0,
          rearm |-> {}, chain |-> <<1, 0>>, bad |-> FALSE]

\* The effect of a line on the machine; Admits tells whether it may come now.
Admits(m, x) ==
  /\ x.ok
  /\ CASE x.kind = "host" -> m.host = 0
       [] x.kind = "account" -> x.inv = m.account + 1
       [] x.kind = "output" -> /\ x.k \notin m.output[x.inv]
                               /\ experiment = "fixture" =>
                                    m.phase[x.inv] = 2 /\ x.inv \notin m.rearm
       [] x.kind = "phase" -> IF experiment = "repeated" THEN <<x.inv, x.k>> = m.chain
                              ELSE /\ x.k = m.phase[x.inv] + 1
                                   /\ m.input[x.inv] = IF x.k = 1 THEN 0 ELSE Inputs
       [] x.kind = "input" -> m.phase[x.inv] = 1 /\ x.k = m.input[x.inv] + 1
       [] x.kind = "staging" -> x.inv = m.staging + 1 /\ m.phase[x.inv] = 2
       [] x.kind = "resource" -> /\ x.inv = m.resource + 1
                                 /\ experiment = "fixture" => m.staging >= x.inv
       [] x.kind = "rearm" -> x.inv \notin m.rearm /\ m.output[x.inv] = 1..Outputs

Reads(m, x) ==
  CASE x.kind = "output" -> [m EXCEPT !.output[x.inv] = @ \cup {x.k}]
    [] x.kind = "phase" -> [m EXCEPT !.phase[x.inv] = @ + 1,
                                     !.chain = IF x.k = 4 THEN <<x.inv + 1, 1>>
                                                          ELSE <<x.inv, x.k + 1>>]
    [] x.kind = "input" -> [m EXCEPT !.input[x.inv] = @ + 1]
    [] x.kind = "rearm" -> [m EXCEPT !.rearm = @ \cup {x.inv}]
    [] OTHER -> [m EXCEPT ![x.kind] = @ + 1]

Machine == FoldLeft(LAMBDA m, x : IF m.bad \/ ~Admits(m, x) THEN [m EXCEPT !.bad = TRUE]
                                                            ELSE Reads(m, x),
                    Start, log)

Protocol ==
  /\ ~Machine.bad
  /\ Machine.host = 1 /\ Machine.account = Account /\ Machine.resource = Account
  /\ \A i \in 1..Account : Machine.output[i] = 1..Outputs
  /\ experiment = "fixture" => Machine.staging = Account /\ Machine.rearm = 1..Account
  /\ experiment = "repeated" => Machine.chain = <<Account + 1, 1>>

----------------------------------------------------------------------------
(* Properties.                                                             *)

\* The verifier, which counts markers and compares line numbers, accepts exactly
\* the logs that the protocol of one installed session can produce: no lost,
\* repeated, moved or altered line slips through and no good log is refused.
VerdictExact == parse_variant_log <=> Protocol

\* In an accepted fixture log an invocation is staged only after the fixture
\* was rearmed by the validation of the one before. Not so of the code: the
\* events of one invocation are ordered, never those of two.
StagedAfterRearm ==
  (experiment = "fixture" /\ parse_variant_log) =>
    \A i \in 2..Account : Before(At("rearm", i - 1), At("phase", i))
=============================================================================
