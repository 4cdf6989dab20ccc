-------------------------- MODULE TelemetryJournal --------------------------
(***************************************************************************)
(* CompletionTelemetryStore of raveil/completion_telemetry.py: a journal   *)
(* of completion records, each bound to its predecessor by a hash, that    *)
(* several processes extend from the logs they are given.  A process may   *)
(* be killed between any two system calls, a write may be short, and the   *)
(* machine may lose what was not synchronized.                             *)
(*                                                                         *)
(* The hash of a record stands for the whole chain up to it, so it is that *)
(* chain: the sequence of the events recorded so far.  An event is named   *)
(* by its log and line, which is what event_id digests.                    *)
(***************************************************************************)
EXTENDS Integers, Sequences, FiniteSets, Functions, FiniteSetTheorems, WellFoundedInduction, TLAPS

CONSTANTS
  Ingesters, \* the processes that call ingest_qemu_log
  Logs,      \* the raw logs, by their digest
  RunIds,    \* the run identities an operator may give
  Content    \* Content[log]: the bindings of its completion frames, in order

VARIABLES
  lines,     \* the complete lines of the journal
  partial,   \* whether bytes follow the last newline
  durable,   \* how many lines a loss of power cannot take
  jlock,     \* the process that holds the advisory lock, or {}
  jpc,       \* the system call each process makes next
  call,      \* the arguments of its ingest_qemu_log
  additions, \* what it is about to append
  receipts   \* the events of every call that returned a positive count

file == <<lines, partial, durable>>
jvars == <<file, jlock, jpc, call, additions, receipts>>

NoCall == [log |-> CHOOSE log \in Logs : TRUE, run_id |-> CHOOSE run \in RunIds : TRUE]

JournalInit ==
  /\ lines = <<>> /\ partial = FALSE /\ durable = 0
  /\ jlock = {}
  /\ jpc = [p \in Ingesters |-> "idle"]
  /\ call = [p \in Ingesters |-> NoCall]
  /\ additions = [p \in Ingesters |-> <<>>]
  /\ receipts = {}

----------------------------------------------------------------------------
(* Records.                                                                *)

\* A log without frames or with a repeated binding is refused.
parse_qemu_log(log) == Content[log] # <<>> /\ IsInjective(Content[log])

EventId(log, line) == <<log, line>>
BindingId(run_id, binding) == <<run_id, binding>>

HashAt(journal, i) == [j \in 1 .. i |-> journal[j].event_id]
Known(journal) == {journal[i].event_id : i \in DOMAIN journal}
Bound(journal) == {journal[i].binding_id : i \in DOMAIN journal}

\* A line whose beginning is the rest of a short write.
Junk == [sequence |-> 0, event_id |-> <<>>, binding_id |-> <<>>, previous_hash |-> <<>>]

\* What loading accepts: no partial final record, contiguous sequences, an
\* unbroken chain, no event and no binding twice.
load_descriptor(journal, torn) ==
  /\ ~torn
  /\ \A i \in DOMAIN journal :
       /\ journal[i].sequence = i
       /\ journal[i].previous_hash = HashAt(journal, i - 1)
       /\ journal[i].event_id \notin Known(SubSeq(journal, 1, i - 1))
       /\ journal[i].binding_id \notin Bound(SubSeq(journal, 1, i - 1))

\* A new event of a binding the run already has a record of ends the call.
Conflicts(journal, log, run_id, new) ==
  \E line \in new : BindingId(run_id, Content[log][line]) \in Bound(journal)

\* The lines of the log that are not recorded yet.
NewLines(journal, log) ==
  {line \in DOMAIN Content[log] : EventId(log, line) \notin Known(journal)}

\* The lines in the order of the log.
InOrder(new) ==
  CHOOSE order \in [1 .. Cardinality(new) -> new] :
    /\ \A line \in new : \E i \in DOMAIN order : order[i] = line
    /\ \A i, j \in DOMAIN order : i < j => order[i] < order[j]

\* The records for these lines, chained to the journal and to each other.
RecordsFor(journal, log, run_id, new) ==
  LET order == InOrder(new)
      fresh == [i \in DOMAIN order |-> EventId(log, order[i])] IN
    [i \in DOMAIN order |->
       [sequence |-> Len(journal) + i,
        event_id |-> fresh[i],
        binding_id |-> BindingId(run_id, Content[log][order[i]]),
        previous_hash |-> HashAt(journal, Len(journal)) \o SubSeq(fresh, 1, i - 1)]]

----------------------------------------------------------------------------
(* ingest_qemu_log, one action per system call.                            *)

Release(p) == jlock' = jlock \ {p}

\* The call returns or raises: the descriptor is closed and the lock with it.
LeaveCall(p) ==
  /\ jpc' = [jpc EXCEPT ![p] = "idle"]
  /\ additions' = [additions EXCEPT ![p] = <<>>]
  /\ Release(p)

\* The log parses and the journal is opened, and created if need be.
Open(p, log, run_id) ==
  /\ parse_qemu_log(log)
  /\ jpc[p] = "idle"
  /\ jpc' = [jpc EXCEPT ![p] = "lock"]
  /\ call' = [call EXCEPT ![p] = [log |-> log, run_id |-> run_id]]
  /\ UNCHANGED <<file, jlock, additions, receipts>>

flock_ex(p) ==
  /\ jpc[p] = "lock"
  /\ jlock = {}
  /\ jlock' = {p}
  /\ jpc' = [jpc EXCEPT ![p] = "load"]
  /\ UNCHANGED <<file, call, additions, receipts>>

\* Load the journal under the lock and prepare what is missing.
Prepare(p) ==
  LET log == call[p].log
      new == NewLines(lines, log) IN
    /\ jpc[p] = "load"
    /\ IF ~load_descriptor(lines, partial) \/ Conflicts(lines, log, call[p].run_id, new) \/ new = {}
         THEN LeaveCall(p)
         ELSE /\ additions' = [additions EXCEPT ![p] =
                                 RecordsFor(lines, log, call[p].run_id, new)]
              /\ jpc' = [jpc EXCEPT ![p] = "write"]
              /\ UNCHANGED jlock
    /\ UNCHANGED <<file, call, receipts>>

\* What the journal holds once these records follow whatever it ends in.
Extended(records) ==
  IF partial /\ records # <<>> THEN lines \o <<Junk>> \o Tail(records) ELSE lines \o records

Write(p) ==
  /\ jpc[p] = "write"
  /\ lines' = Extended(additions[p])
  /\ partial' = FALSE
  /\ jpc' = [jpc EXCEPT ![p] = "fsync"]
  /\ UNCHANGED <<durable, jlock, call, additions, receipts>>

\* Only some bytes are written: an OSError, or the end of the process.
ShortWrite(p) ==
  /\ jpc[p] = "write"
  /\ \E n \in 0 .. Len(additions[p]) - 1, torn \in BOOLEAN :
       /\ lines' = Extended(SubSeq(additions[p], 1, n))
       /\ partial' = (torn \/ (partial /\ n = 0))
  /\ LeaveCall(p)
  /\ UNCHANGED <<durable, call, receipts>>

\* Mutant: the call returns without waiting for the disk.
Mutant_fsync(p) ==
  /\ jpc[p] = "fsync"
  /\ receipts' = receipts \cup {EventId(call[p].log, line) : line \in DOMAIN Content[call[p].log]}
  /\ LeaveCall(p)
  /\ UNCHANGED <<file, call>>

\* The file is on disk and the call returns the number of its additions.
fsync(p) ==
  /\ jpc[p] = "fsync"
  /\ durable' = Len(lines)
  /\ receipts' = receipts \cup {EventId(call[p].log, line) : line \in DOMAIN Content[call[p].log]}
  /\ LeaveCall(p)
  /\ UNCHANGED <<lines, partial, call>>

----------------------------------------------------------------------------
(* The environment.                                                        *)

\* A process is killed; its descriptor and its lock go with it.
KillIngester(p) ==
  /\ jpc[p] # "idle"
  /\ LeaveCall(p)
  /\ UNCHANGED <<file, call, receipts>>

\* The machine stops: a prefix of the bytes since the last fsync is left.
PowerLoss ==
  /\ \E n \in durable .. Len(lines) :
       /\ lines' = SubSeq(lines, 1, n)
       /\ partial' \in IF n < Len(lines) \/ partial THEN BOOLEAN ELSE {FALSE}
  /\ jpc' = [p \in Ingesters |-> "idle"]
  /\ additions' = [p \in Ingesters |-> <<>>]
  /\ jlock' = {}
  /\ UNCHANGED <<durable, call, receipts>>

JournalNext ==
  \/ \E p \in Ingesters :
       \/ \E log \in Logs, run_id \in RunIds : Open(p, log, run_id)
       \/ flock_ex(p) \/ Prepare(p) \/ Write(p) \/ ShortWrite(p) \/ fsync(p) \/ KillIngester(p)
  \/ PowerLoss

JournalSpec == JournalInit /\ [][JournalNext]_jvars

----------------------------------------------------------------------------
(* Properties.                                                             *)

\* One chain with every event and every binding once.
IsChain(journal) ==
  /\ \A i \in DOMAIN journal : /\ journal[i].sequence = i
                              /\ journal[i].previous_hash = HashAt(journal, i - 1)
  /\ \A i, j \in DOMAIN journal : i # j => /\ journal[i].event_id # journal[j].event_id
                                         /\ journal[i].binding_id # journal[j].binding_id

\* Whatever processes were killed, writes cut short and machines stopped, the
\* complete lines of the journal are a chain: only a partial record at its end
\* can make load refuse it, and nothing was ever appended behind one.
ChainSound == IsChain(lines)

\* The events of a log whose ingestion returned a positive count are on disk,
\* even those that an earlier call wrote and did not live to synchronize.
ReceiptsDurable == receipts \subseteq Known(SubSeq(lines, 1, durable))

\* What a call is about to append still fits the journal when it is written:
\* nobody has extended the journal since the call loaded it.
PlansCurrent ==
  \A p \in Ingesters : jpc[p] = "write" => IsChain(lines \o additions[p])

\* Whatever is torn, killed or ingested at once, the journal is a chain without
\* gaps, every count returned to a caller is of synchronized records, and what an
\* ingest is about to append continues the journal as it is now.
JournalSound == ChainSound /\ ReceiptsDurable /\ PlansCurrent

----------------------------------------------------------------------------
(***************************************************************************)
(* JournalSound for any processes and logs.  Two facts carry it beside the *)
(* lock: the lines of a log are recorded in the order of the log, whatever *)
(* was cut short, so what a later call finds missing is the rest of it;    *)
(* and a process that has written has the whole log in the journal.        *)
(***************************************************************************)
Bindings == UNION {{Content[log][line] : line \in DOMAIN Content[log]} : log \in Logs}

JournalConstants == Logs # {} /\ RunIds # {} /\ \A log \in Logs : Content[log] \in Seq(Bindings)

ASSUME JournalAssumption == JournalConstants

JLabels == {"idle", "lock", "load", "write", "fsync"}
Records == [sequence : Nat, event_id : Logs \X Nat, binding_id : RunIds \X Bindings,
            previous_hash : Seq(Logs \X Nat)]

JournalTypes ==
  /\ lines \in Seq(Records) /\ partial \in BOOLEAN /\ durable \in 0 .. Len(lines)
  /\ jpc \in [Ingesters -> JLabels]
  /\ call \in [Ingesters -> [log : Logs, run_id : RunIds]]
  /\ additions \in [Ingesters -> Seq(Records)]

JLockHeld == \A p \in Ingesters : jpc[p] \in {"load", "write", "fsync"} => jlock = {p}

\* Whoever has an event of a log has the events of the lines before it, earlier.
LinesInOrder(journal) ==
  \A i \in DOMAIN journal : \A log \in Logs, line \in Nat :
    journal[i].event_id = EventId(log, line) =>
      \A h \in 1 .. line - 1 : \E j \in 1 .. i - 1 : journal[j].event_id = EventId(log, h)

Recorded(journal, log) ==
  \A line \in DOMAIN Content[log] : EventId(log, line) \in Known(journal)

CallOK(p) ==
  /\ jpc[p] # "idle" => parse_qemu_log(call[p].log)
  /\ jpc[p] = "write" => /\ ~partial
                        /\ LinesInOrder(lines \o additions[p])
                        /\ Recorded(lines \o additions[p], call[p].log)
  /\ jpc[p] = "fsync" => Recorded(lines, call[p].log)

JournalInv ==
  /\ JournalTypes /\ JLockHeld /\ JournalSound /\ LinesInOrder(lines)
  /\ \A p \in Ingesters : CallOK(p)

(* Journals and their prefixes. *)

LEMMA KnownAt ==
  ASSUME NEW J \in Seq(Records), NEW e
  PROVE  e \in Known(J) <=> \E i \in 1 .. Len(J) : J[i].event_id = e
BY DEF Known

LEMMA PrefixOf ==
  ASSUME NEW J \in Seq(Records), NEW n \in 0 .. Len(J)
  PROVE  /\ SubSeq(J, 1, n) \in Seq(Records) /\ Len(SubSeq(J, 1, n)) = n
         /\ \A i \in 1 .. n : SubSeq(J, 1, n)[i] = J[i]
OBVIOUS

\* What is left when a journal is cut short is a journal.
LEMMA PrefixSound ==
  ASSUME NEW J \in Seq(Records), NEW n \in 0 .. Len(J), IsChain(J), LinesInOrder(J)
  PROVE  IsChain(SubSeq(J, 1, n)) /\ LinesInOrder(SubSeq(J, 1, n))
<1>0. PICK P : P = SubSeq(J, 1, n)
  OBVIOUS
<1>1. P \in Seq(Records) /\ Len(P) = n /\ \A i \in 1 .. n : P[i] = J[i]
  BY <1>0, PrefixOf
<1>2. n \in Nat /\ DOMAIN P = 1 .. n /\ DOMAIN J = 1 .. Len(J) /\ 1 .. n \subseteq 1 .. Len(J)
  BY <1>1
<1>3. ASSUME NEW i \in 1 .. n PROVE HashAt(P, i - 1) = HashAt(J, i - 1)
  BY <1>1, <1>2 DEF HashAt
<1>4. IsChain(P)
  BY <1>1, <1>2, <1>3 DEF IsChain
<1>5. LinesInOrder(P)
  <2>. SUFFICES ASSUME NEW i \in 1 .. n, NEW log \in Logs, NEW line \in Nat,
                       P[i].event_id = EventId(log, line), NEW h \in 1 .. line - 1
                PROVE  \E j \in 1 .. i - 1 : P[j].event_id = EventId(log, h)
    BY <1>2 DEF LinesInOrder
  <2>1. PICK j \in 1 .. i - 1 : J[j].event_id = EventId(log, h)
    BY <1>1, <1>2 DEF LinesInOrder
  <2>2. j \in 1 .. n
    BY <1>2
  <2>. QED BY <1>1, <2>1, <2>2
<1>. QED BY <1>0, <1>4, <1>5

LEMMA ConcatOf ==
  ASSUME NEW J \in Seq(Records), NEW A \in Seq(Records)
  PROVE  /\ J \o A \in Seq(Records) /\ Len(J \o A) = Len(J) + Len(A)
         /\ \A i \in 1 .. Len(J) : (J \o A)[i] = J[i]
         /\ \A i \in 1 .. Len(A) : (J \o A)[Len(J) + i] = A[i]
         /\ SubSeq(J \o A, 1, Len(J)) = J
OBVIOUS

\* A short write leaves a prefix of what the whole write would have left.
LEMMA ShortConcat ==
  ASSUME NEW J \in Seq(Records), NEW A \in Seq(Records), NEW n \in 0 .. Len(A)
  PROVE  /\ Len(J) + n \in 0 .. Len(J \o A)
         /\ J \o SubSeq(A, 1, n) = SubSeq(J \o A, 1, Len(J) + n)
<1>1. J \o A \in Seq(Records) /\ Len(J \o A) = Len(J) + Len(A)
  BY ConcatOf
<1>2. PICK S : S = SubSeq(A, 1, n)
  OBVIOUS
<1>3. S \in Seq(Records) /\ Len(S) = n /\ \A i \in 1 .. n : S[i] = A[i]
  BY <1>2, PrefixOf
<1>4. Len(J) + n \in 0 .. Len(J \o A)
  BY <1>1
<1>5. PICK P : P = SubSeq(J \o A, 1, Len(J) + n)
  OBVIOUS
<1>6. P \in Seq(Records) /\ Len(P) = Len(J) + n /\ \A i \in 1 .. Len(J) + n : P[i] = (J \o A)[i]
  BY <1>1, <1>4, <1>5, PrefixOf
<1>7. J \o S = P
  <2>1. PICK Q : Q = J \o S
    OBVIOUS
  <2>2. /\ Q \in Seq(Records) /\ Len(Q) = Len(J) + n
        /\ \A i \in 1 .. Len(J) : Q[i] = J[i]
        /\ \A i \in 1 .. n : Q[Len(J) + i] = S[i]
    BY <1>3, <2>1, ConcatOf
  <2>3. ASSUME NEW i \in 1 .. Len(J) + n PROVE Q[i] = P[i]
    <3>0. /\ \A j \in 1 .. Len(J) : (J \o A)[j] = J[j]
          /\ \A j \in 1 .. Len(A) : (J \o A)[Len(J) + j] = A[j]
      BY ConcatOf
    <3>1. CASE i <= Len(J)
      <4>1. i \in 1 .. Len(J)
        BY <3>1
      <4>. QED BY <1>6, <2>2, <3>0, <4>1
    <3>2. CASE i > Len(J)
      <4>1. PICK k \in 1 .. n : i = Len(J) + k
        <5>1. i - Len(J) \in 1 .. n /\ i = Len(J) + (i - Len(J))
          BY <3>2
        <5>. QED BY <5>1
      <4>2. k \in 1 .. Len(A)
        OBVIOUS
      <4>3. P[i] = (J \o A)[Len(J) + k] /\ Q[i] = S[k] /\ S[k] = A[k]
        BY <1>3, <1>6, <2>2, <4>1
      <4>. QED BY <3>0, <4>2, <4>3
    <3>. QED BY <3>1, <3>2
  <2>4. Q = P
    BY <1>6, <2>2, <2>3
  <2>. QED BY <2>1, <2>4
<1>. QED BY <1>2, <1>4, <1>5, <1>7

\* Prefixes up to a length that both have.
LEMMA SamePrefix ==
  ASSUME NEW J \in Seq(Records), NEW K \in Seq(Records), NEW n \in 0 .. Len(J), n <= Len(K),
         \A i \in 1 .. n : K[i] = J[i]
  PROVE  Known(SubSeq(K, 1, n)) = Known(SubSeq(J, 1, n))
<1>1. n \in 0 .. Len(K)
  OBVIOUS
<1>2. SubSeq(K, 1, n) = SubSeq(J, 1, n)
  BY <1>1
<1>. QED BY <1>2

LEMMA FunctionIsSeq ==
  ASSUME NEW S, NEW n \in Nat, NEW f \in [1 .. n -> S]
  PROVE  f \in Seq(S) /\ Len(f) = n /\ DOMAIN f = 1 .. n
OBVIOUS

LEMMA PrefixSeq ==
  ASSUME NEW S, NEW s \in Seq(S), NEW n \in 0 .. Len(s)
  PROVE  /\ SubSeq(s, 1, n) \in Seq(S) /\ Len(SubSeq(s, 1, n)) = n
         /\ \A i \in 1 .. n : SubSeq(s, 1, n)[i] = s[i]
OBVIOUS

LEMMA ConcatSeq ==
  ASSUME NEW S, NEW s \in Seq(S), NEW t \in Seq(S)
  PROVE  /\ s \o t \in Seq(S) /\ Len(s \o t) = Len(s) + Len(t)
         /\ \A i \in 1 .. Len(s) : (s \o t)[i] = s[i]
         /\ \A i \in 1 .. Len(t) : (s \o t)[Len(s) + i] = t[i]
OBVIOUS

(* What a call appends. *)

Sorts(order, lo, hi) ==
  /\ order \in [1 .. hi - lo + 1 -> lo .. hi]
  /\ \A line \in lo .. hi : \E i \in 1 .. hi - lo + 1 : order[i] = line
  /\ \A i, j \in 1 .. hi - lo + 1 : i < j => order[i] < order[j]

LEMMA SortedInterval ==
  ASSUME NEW lo \in Nat, NEW hi \in Nat, lo <= hi
  PROVE  Sorts(InOrder(lo .. hi), lo, hi)
<1>1. Cardinality(lo .. hi) = hi - lo + 1
  BY FS_Interval
<1>2. PICK f : f = [i \in 1 .. hi - lo + 1 |-> lo - 1 + i]
  OBVIOUS
<1>3. f \in [1 .. hi - lo + 1 -> lo .. hi]
  BY <1>2
<1>4. \A line \in lo .. hi : \E i \in DOMAIN f : f[i] = line
  <2>. SUFFICES ASSUME NEW line \in lo .. hi PROVE \E i \in DOMAIN f : f[i] = line
    OBVIOUS
  <2>1. line - lo + 1 \in 1 .. hi - lo + 1 /\ lo - 1 + (line - lo + 1) = line
    OBVIOUS
  <2>. QED BY <1>2, <2>1
<1>5. \A i, j \in DOMAIN f : i < j => f[i] < f[j]
  BY <1>2
<1>. QED BY <1>1, <1>3, <1>4, <1>5 DEF InOrder, Sorts

LEMMA LeastNumber ==
  ASSUME NEW S \in SUBSET Nat, S # {} PROVE \E n \in S : \A m \in S : n <= m
<1>1. PICK n \in S : \A m \in S : ~(<<m, n>> \in OpToRel(<, Nat))
  BY NatLessThanWellFounded, WFMin
<1>2. \A m \in S : ~(m < n)
  BY <1>1 DEF OpToRel
<1>3. n \in S
  BY <1>1
<1>. QED BY <1>2, <1>3

\* The lines a call finds missing are the rest of its log.
LEMMA MissingIsRest ==
  ASSUME NEW J \in Seq(Records), LinesInOrder(J), NEW log \in Logs,
         Content[log] \in Seq(Bindings), NewLines(J, log) # {}
  PROVE  \E lo \in 1 .. Len(Content[log]) : NewLines(J, log) = lo .. Len(Content[log])
<1>1. NewLines(J, log) \subseteq 1 .. Len(Content[log]) /\ NewLines(J, log) \in SUBSET Nat
  BY DEF NewLines
<1>2. PICK lo \in NewLines(J, log) : \A m \in NewLines(J, log) : lo <= m
  BY <1>1, LeastNumber
<1>3. ASSUME NEW line \in lo .. Len(Content[log]) PROVE line \in NewLines(J, log)
  <2>1. SUFFICES ASSUME EventId(log, line) \in Known(J) PROVE FALSE
    BY <1>1, <1>2 DEF NewLines
  <2>2. PICK i \in 1 .. Len(J) : J[i].event_id = EventId(log, line)
    BY <2>1, KnownAt
  <2>3. CASE line = lo
    BY <1>2, <2>1, <2>3 DEF NewLines
  <2>4. CASE line # lo
    <3>1. lo \in 1 .. line - 1 /\ line \in Nat
      BY <1>1, <2>4
    <3>2. PICK j \in 1 .. i - 1 : J[j].event_id = EventId(log, lo)
      BY <2>2, <3>1 DEF LinesInOrder
    <3>3. EventId(log, lo) \in Known(J)
      BY <2>2, <3>2, KnownAt
    <3>. QED BY <1>2, <3>3 DEF NewLines
  <2>. QED BY <2>3, <2>4
<1>4. lo \in 1 .. Len(Content[log]) /\ NewLines(J, log) \subseteq lo .. Len(Content[log])
  BY <1>1, <1>2
<1>. QED BY <1>3, <1>4

\* The next record of a log, chained to what comes before it.
LEMMA PlanFits ==
  ASSUME NEW J \in Seq(Records), IsChain(J), LinesInOrder(J), NEW log \in Logs,
         NEW run_id \in RunIds, Content[log] \in Seq(Bindings), parse_qemu_log(log),
         NEW new, new = NewLines(J, log), new # {}, ~Conflicts(J, log, run_id, new),
         NEW A, A = RecordsFor(J, log, run_id, new)
  PROVE  /\ A \in Seq(Records)
         /\ IsChain(J \o A) /\ LinesInOrder(J \o A) /\ Recorded(J \o A, log)
<1>1. PICK lo \in 1 .. Len(Content[log]) : new = lo .. Len(Content[log])
  BY MissingIsRest
<1>2. PICK last \in Nat : last = Len(Content[log]) /\ DOMAIN Content[log] = 1 .. last
  OBVIOUS
<1>0. lo \in Nat /\ 1 <= lo /\ lo <= last /\ new = lo .. last
  BY <1>1, <1>2
<1>3. PICK order : order = InOrder(new)
  OBVIOUS
<1>4. PICK size \in Nat : size = last - lo + 1
  <2>1. last - lo + 1 \in Nat
    BY <1>0
  <2>. QED BY <2>1
<1>5. /\ order \in [1 .. size -> lo .. last]
      /\ \A line \in lo .. last : \E i \in 1 .. size : order[i] = line
      /\ \A i, j \in 1 .. size : i < j => order[i] < order[j]
  <2>1. last \in Nat /\ lo \in Nat /\ lo <= last /\ order = InOrder(lo .. last)
    BY <1>0, <1>3
  <2>2. Sorts(order, lo, last)
    BY <2>1, SortedInterval
  <2>. QED BY <1>4, <2>2 DEF Sorts
<1>6. PICK fresh : fresh = [i \in 1 .. size |-> EventId(log, order[i])]
  OBVIOUS
<1>7. fresh \in Seq(Logs \X Nat) /\ Len(fresh) = size
  <2>1. \A i \in 1 .. size : order[i] \in Nat
    BY <1>0, <1>5
  <2>2. fresh \in [1 .. size -> Logs \X Nat]
    BY <1>6, <2>1 DEF EventId
  <2>. QED BY <2>2, FunctionIsSeq
<1>8. PICK n \in Nat : n = Len(J)
  OBVIOUS
<1>9. A = [i \in 1 .. size |->
             [sequence |-> n + i, event_id |-> fresh[i],
              binding_id |-> BindingId(run_id, Content[log][order[i]]),
              previous_hash |-> HashAt(J, n) \o SubSeq(fresh, 1, i - 1)]]
  BY <1>3, <1>5, <1>6, <1>8 DEF RecordsFor
<1>10. HashAt(J, n) \in Seq(Logs \X Nat) /\ Len(HashAt(J, n)) = n
  <2>1. HashAt(J, n) \in [1 .. n -> Logs \X Nat]
    <3>1. \A j \in 1 .. n : J[j] \in Records
      BY <1>8
    <3>2. \A j \in 1 .. n : J[j].event_id \in Logs \X Nat
      BY <3>1 DEF Records
    <3>. QED BY <3>2 DEF HashAt
  <2>. QED BY <2>1, FunctionIsSeq
<1>11. A \in Seq(Records) /\ Len(A) = size
  <2>1. ASSUME NEW i \in 1 .. size PROVE A[i] \in Records
    <3>1. fresh[i] \in Logs \X Nat /\ n + i \in Nat
      BY <1>7
    <3>2. Content[log][order[i]] \in Bindings
      BY <1>1, <1>2, <1>5
    <3>3. SubSeq(fresh, 1, i - 1) \in Seq(Logs \X Nat)
      BY <1>7
    <3>4. HashAt(J, n) \o SubSeq(fresh, 1, i - 1) \in Seq(Logs \X Nat)
      BY <1>10, <3>3
    <3>5. PICK previous : previous = HashAt(J, n) \o SubSeq(fresh, 1, i - 1)
      OBVIOUS
    <3>6. BindingId(run_id, Content[log][order[i]]) \in RunIds \X Bindings
      BY <3>2 DEF BindingId
    <3>7. PICK binding : binding = BindingId(run_id, Content[log][order[i]])
      OBVIOUS
    <3>8. A[i] = [sequence |-> n + i, event_id |-> fresh[i], binding_id |-> binding,
                  previous_hash |-> previous]
      BY <1>9, <3>5, <3>7
    <3>. QED BY <3>1, <3>4, <3>5, <3>6, <3>7, <3>8 DEF Records
  <2>2. A \in [1 .. size -> Records]
    BY <1>9, <2>1
  <2>. QED BY <2>2, FunctionIsSeq
<1>12. PICK C : C = J \o A
  OBVIOUS
<1>13. /\ C \in Seq(Records) /\ Len(C) = n + size /\ DOMAIN C = 1 .. n + size
       /\ \A i \in 1 .. n : C[i] = J[i]
       /\ \A i \in 1 .. size : C[n + i] = A[i]
  <2>1. /\ J \o A \in Seq(Records) /\ Len(J \o A) = Len(J) + Len(A)
        /\ \A i \in 1 .. Len(J) : (J \o A)[i] = J[i]
        /\ \A i \in 1 .. Len(A) : (J \o A)[Len(J) + i] = A[i]
    BY <1>11, ConcatOf
  <2>2. C \in Seq(Records) /\ Len(C) = n + size
    BY <1>8, <1>11, <1>12, <2>1
  <2>3. DOMAIN C = 1 .. n + size
    BY <2>2
  <2>4. (\A i \in 1 .. n : C[i] = J[i]) /\ (\A i \in 1 .. size : C[n + i] = A[i])
    BY <1>8, <1>11, <1>12, <2>1
  <2>. QED BY <2>2, <2>3, <2>4
<1>14. ASSUME NEW i \in 1 .. n + size, ~(i \in 1 .. n)
       PROVE  \E k \in 1 .. size : i = n + k
  <2>1. i - n \in 1 .. size /\ i = n + (i - n)
    BY <1>14
  <2>. QED BY <2>1
<1>15. ASSUME NEW k \in 1 .. size
       PROVE  /\ C[n + k].sequence = n + k /\ C[n + k].event_id = EventId(log, order[k])
              /\ C[n + k].binding_id = BindingId(run_id, Content[log][order[k]])
              /\ C[n + k].previous_hash = HashAt(J, n) \o SubSeq(fresh, 1, k - 1)
              /\ order[k] \in new /\ order[k] \in 1 .. last
  <2>1. C[n + k] = A[k] /\ order[k] \in lo .. last
    BY <1>5, <1>13
  <2>2. order[k] \in new /\ order[k] \in 1 .. last
    BY <1>0, <2>1
  <2>3. PICK previous : previous = HashAt(J, n) \o SubSeq(fresh, 1, k - 1)
    OBVIOUS
  <2>4. A[k] = [sequence |-> n + k, event_id |-> fresh[k],
                binding_id |-> BindingId(run_id, Content[log][order[k]]),
                previous_hash |-> previous]
    BY <1>9, <2>3
  <2>5. fresh[k] = EventId(log, order[k])
    BY <1>6
  <2>6. /\ A[k].sequence = n + k /\ A[k].event_id = fresh[k] /\ A[k].previous_hash = previous
        /\ A[k].binding_id = BindingId(run_id, Content[log][order[k]])
    BY <2>4
  <2>7. /\ C[n + k].sequence = n + k /\ C[n + k].event_id = fresh[k]
        /\ C[n + k].previous_hash = previous
        /\ C[n + k].binding_id = BindingId(run_id, Content[log][order[k]])
    BY <2>1, <2>6
  <2>. QED BY <2>2, <2>3, <2>5, <2>7
<1>16. IsChain(C)
  <2>1. ASSUME NEW i \in 1 .. n + size
        PROVE  C[i].sequence = i /\ C[i].previous_hash = HashAt(C, i - 1)
    <3>1. CASE i \in 1 .. n
      <4>1. HashAt(C, i - 1) = HashAt(J, i - 1)
        BY <1>13, <3>1 DEF HashAt
      <4>. QED BY <1>8, <1>13, <3>1, <4>1 DEF IsChain
    <3>2. CASE ~(i \in 1 .. n)
      <4>1. PICK k \in 1 .. size : i = n + k
        BY <1>14, <3>2
      <4>2. PICK H : H = HashAt(J, n) \o SubSeq(fresh, 1, k - 1)
        OBVIOUS
      <4>3. /\ H \in Seq(Logs \X Nat) /\ Len(H) = n + k - 1
            /\ \A j \in 1 .. n : H[j] = HashAt(J, n)[j]
            /\ \A j \in 1 .. k - 1 : H[n + j] = fresh[j]
        <5>1. /\ SubSeq(fresh, 1, k - 1) \in Seq(Logs \X Nat) /\ Len(SubSeq(fresh, 1, k - 1)) = k - 1
              /\ \A j \in 1 .. k - 1 : SubSeq(fresh, 1, k - 1)[j] = fresh[j]
          <6>1. k - 1 \in 0 .. Len(fresh)
            BY <1>7
          <6>. QED BY <1>7, <6>1, PrefixSeq
        <5>2. PICK S : S = SubSeq(fresh, 1, k - 1)
          OBVIOUS
        <5>3. PICK F : F = HashAt(J, n)
          OBVIOUS
        <5>4. /\ F \o S \in Seq(Logs \X Nat) /\ Len(F \o S) = Len(F) + Len(S)
              /\ \A j \in 1 .. Len(F) : (F \o S)[j] = F[j]
              /\ \A j \in 1 .. Len(S) : (F \o S)[Len(F) + j] = S[j]
          BY <1>10, <5>1, <5>2, <5>3, ConcatSeq
        <5>. QED BY <1>10, <4>2, <5>1, <5>2, <5>3, <5>4
      <4>4. ASSUME NEW j \in 1 .. i - 1 PROVE H[j] = C[j].event_id
        <5>1. CASE j \in 1 .. n
          BY <1>13, <4>3, <5>1 DEF HashAt
        <5>2. CASE ~(j \in 1 .. n)
          <6>1. PICK m \in 1 .. size : j = n + m
            BY <1>14, <5>2
          <6>2. m \in 1 .. k - 1
            BY <4>1, <6>1
          <6>. QED BY <1>6, <1>15, <4>3, <6>1, <6>2
        <5>. QED BY <5>1, <5>2
      <4>5. H = HashAt(C, i - 1)
        BY <4>1, <4>3, <4>4 DEF HashAt
      <4>. QED BY <1>15, <4>1, <4>2, <4>5
    <3>. QED BY <3>1, <3>2
  <2>2. ASSUME NEW i \in 1 .. n, NEW k \in 1 .. size
        PROVE  C[i].event_id # C[n + k].event_id /\ C[i].binding_id # C[n + k].binding_id
    <3>1. C[i].event_id \in Known(J) /\ C[i].binding_id \in Bound(J)
      BY <1>8, <1>13 DEF Known, Bound
    <3>. QED BY <1>15, <3>1 DEF NewLines, Conflicts
  <2>3. ASSUME NEW k \in 1 .. size, NEW m \in 1 .. size, k # m
        PROVE  C[n + k].event_id # C[n + m].event_id /\ C[n + k].binding_id # C[n + m].binding_id
    <3>1. order[k] # order[m]
      <4>1. order[k] \in Nat /\ order[m] \in Nat /\ (k < m \/ m < k)
        <5>1. order[k] \in 1 .. last /\ order[m] \in 1 .. last
          BY <1>15
        <5>2. k < m \/ m < k
          BY <2>3
        <5>. QED BY <5>1, <5>2
      <4>. QED BY <1>5, <4>1
    <3>2. Content[log][order[k]] # Content[log][order[m]]
      BY <1>2, <1>15, <3>1 DEF parse_qemu_log, IsInjective
    <3>. QED BY <1>15, <3>1, <3>2 DEF EventId, BindingId
  <2>4. ASSUME NEW i \in 1 .. n + size, NEW j \in 1 .. n + size, i # j
        PROVE  C[i].event_id # C[j].event_id /\ C[i].binding_id # C[j].binding_id
    <3>1. CASE i \in 1 .. n /\ j \in 1 .. n
      <4>1. C[i] = J[i] /\ C[j] = J[j] /\ i \in DOMAIN J /\ j \in DOMAIN J
        BY <1>8, <1>13, <3>1
      <4>. QED BY <2>4, <4>1 DEF IsChain
    <3>2. CASE i \in 1 .. n /\ ~(j \in 1 .. n)
      BY <1>14, <2>2, <3>2
    <3>3. CASE ~(i \in 1 .. n) /\ j \in 1 .. n
      BY <1>14, <2>2, <3>3
    <3>4. CASE ~(i \in 1 .. n) /\ ~(j \in 1 .. n)
      <4>1. PICK k \in 1 .. size : i = n + k
        BY <1>14, <3>4
      <4>2. PICK m \in 1 .. size : j = n + m
        BY <1>14, <3>4
      <4>. QED BY <2>3, <2>4, <4>1, <4>2
    <3>. QED BY <3>1, <3>2, <3>3, <3>4
  <2>. QED BY <1>13, <2>1, <2>4 DEF IsChain
<1>17. Recorded(C, log)
  <2>. SUFFICES ASSUME NEW line \in 1 .. last PROVE EventId(log, line) \in Known(C)
    BY <1>2 DEF Recorded
  <2>1. CASE line \in new
    <3>1. PICK k \in 1 .. size : order[k] = line
      BY <1>1, <1>2, <1>5, <2>1
    <3>2. n + k \in 1 .. Len(C) /\ C[n + k].event_id = EventId(log, line)
      BY <1>13, <1>15, <3>1
    <3>. QED BY <1>13, <3>2, KnownAt
  <2>2. CASE line \notin new
    <3>1. EventId(log, line) \in Known(J)
      BY <1>2, <2>2 DEF NewLines
    <3>2. PICK i \in 1 .. n : J[i].event_id = EventId(log, line)
      BY <1>8, <3>1, KnownAt
    <3>3. i \in 1 .. Len(C) /\ C[i].event_id = EventId(log, line)
      BY <1>13, <3>2
    <3>. QED BY <1>13, <3>3, KnownAt
  <2>. QED BY <2>1, <2>2
\* Of two lines of the log, the earlier is in the journal or earlier in the plan.
<1>18. LinesInOrder(C)
  <2>0. DOMAIN C = 1 .. n + size
    BY <1>13
  <2>. SUFFICES ASSUME NEW i \in 1 .. n + size, NEW l \in Logs, NEW line \in Nat,
                       C[i].event_id = EventId(l, line), NEW h \in 1 .. line - 1
                PROVE  \E j \in 1 .. i - 1 : C[j].event_id = EventId(l, h)
    BY <2>0 DEF LinesInOrder
  <2>1. CASE i \in 1 .. n
    <3>1. PICK j \in 1 .. i - 1 : J[j].event_id = EventId(l, h)
      BY <1>8, <1>13, <2>1 DEF LinesInOrder
    <3>2. j \in 1 .. n
      BY <2>1
    <3>. QED BY <1>13, <3>1, <3>2
  <2>2. CASE ~(i \in 1 .. n)
    <3>1. PICK k \in 1 .. size : i = n + k
      BY <1>14, <2>2
    <3>2. l = log /\ line = order[k] /\ line \in 1 .. last /\ h \in 1 .. last
      <4>1. EventId(log, order[k]) = EventId(l, line) /\ order[k] \in 1 .. last
        BY <1>15, <3>1
      <4>2. l = log /\ line = order[k]
        BY <4>1 DEF EventId
      <4>. QED BY <4>1, <4>2
    <3>3. CASE h \in new
      <4>1. PICK m \in 1 .. size : order[m] = h
        BY <1>1, <1>2, <1>5, <3>3
      <4>2. m < k
        <5>1. ~(k < m) /\ k # m
          BY <1>5, <3>2, <4>1
        <5>. QED BY <5>1
      <4>3. n + m \in 1 .. i - 1 /\ C[n + m].event_id = EventId(l, h)
        <5>1. n + m \in 1 .. i - 1
          BY <3>1, <4>2
        <5>2. C[n + m].event_id = EventId(log, order[m])
          BY <1>15
        <5>. QED BY <3>2, <4>1, <5>1, <5>2
      <4>. QED BY <4>3
    <3>4. CASE h \notin new
      <4>1. EventId(log, h) \in Known(J)
        BY <1>2, <3>2, <3>4 DEF NewLines
      <4>2. PICK j \in 1 .. n : J[j].event_id = EventId(log, h)
        BY <1>8, <4>1, KnownAt
      <4>3. j \in 1 .. i - 1 /\ C[j].event_id = EventId(l, h)
        BY <1>13, <3>1, <3>2, <4>2
      <4>. QED BY <4>3
    <3>. QED BY <3>3, <3>4
  <2>. QED BY <2>1, <2>2
<1>. QED BY <1>11, <1>12, <1>16, <1>17, <1>18

(* The steps. *)

LEMMA JournalInitial == ASSUME JournalConstants PROVE JournalInit => JournalInv
<1>. SUFFICES ASSUME JournalInit PROVE JournalInv
  OBVIOUS
<1>1. NoCall \in [log : Logs, run_id : RunIds]
  BY DEF NoCall, JournalConstants
<1>2. lines = <<>> /\ <<>> \in Seq(Records) /\ Len(<<>>) = 0 /\ DOMAIN <<>> = {}
  BY DEF JournalInit
<1>3. JournalTypes
  <2>1. durable \in 0 .. Len(lines) /\ partial \in BOOLEAN
    <3>1. Len(lines) = 0
      BY <1>2
    <3>2. durable = 0
      BY DEF JournalInit
    <3>3. durable \in 0 .. Len(lines)
      BY <3>1, <3>2
    <3>4. partial \in BOOLEAN
      BY DEF JournalInit
    <3>. QED BY <3>3, <3>4
  <2>2. jpc \in [Ingesters -> JLabels]
    BY DEF JournalInit, JLabels
  <2>3. call \in [Ingesters -> [log : Logs, run_id : RunIds]] /\ additions \in [Ingesters -> Seq(Records)]
    BY <1>1, <1>2 DEF JournalInit
  <2>. QED BY <1>2, <2>1, <2>2, <2>3 DEF JournalTypes
<1>4. JLockHeld /\ \A p \in Ingesters : CallOK(p)
  BY DEF JournalInit, JLockHeld, CallOK
<1>5. ChainSound /\ LinesInOrder(lines)
  BY <1>2 DEF ChainSound, IsChain, LinesInOrder
<1>6. ReceiptsDurable /\ PlansCurrent
  BY DEF JournalInit, ReceiptsDurable, PlansCurrent
<1>. QED BY <1>3, <1>4, <1>5, <1>6 DEF JournalInv, JournalSound

\* A step of p that leaves the file and the calls of the others alone.
OnlyCall(p) ==
  /\ UNCHANGED <<lines, partial, durable, receipts>>
  /\ \A q \in Ingesters : q # p =>
       jpc'[q] = jpc[q] /\ call'[q] = call[q] /\ additions'[q] = additions[q]

LEMMA CallKeeps ==
  ASSUME JournalInv, NEW p \in Ingesters, OnlyCall(p), JournalTypes', JLockHeld', CallOK(p)',
         jpc'[p] = "write" => IsChain(lines \o additions'[p])
  PROVE  JournalInv'
<1>0. JournalSound /\ LinesInOrder(lines) /\ \A q \in Ingesters : CallOK(q)
  BY DEF JournalInv
<1>1. ChainSound' /\ ReceiptsDurable' /\ LinesInOrder(lines')
  BY <1>0 DEF JournalSound, ChainSound, ReceiptsDurable, OnlyCall
<1>2. PlansCurrent'
  BY <1>0 DEF JournalSound, PlansCurrent, OnlyCall
<1>3. ASSUME NEW q \in Ingesters, q # p PROVE CallOK(q)'
  BY <1>0, <1>3 DEF CallOK, OnlyCall
<1>. QED BY <1>1, <1>2, <1>3 DEF JournalInv, JournalSound

\* A call that ends, refused or killed, leaves what it found.
LEMMA LeaveKeeps ==
  ASSUME JournalInv, NEW p \in Ingesters, LeaveCall(p), UNCHANGED <<file, call, receipts>>
  PROVE  JournalInv'
<1>0. JournalTypes /\ JLockHeld
  BY DEF JournalInv
<1>1. /\ jpc' = [jpc EXCEPT ![p] = "idle"] /\ additions' = [additions EXCEPT ![p] = <<>>]
      /\ jlock' = jlock \ {p} /\ call' = call
      /\ UNCHANGED <<lines, partial, durable, receipts>>
  BY DEF LeaveCall, Release, file
<1>2. jpc'[p] = "idle" /\ OnlyCall(p)
  BY <1>0, <1>1 DEF JournalTypes, OnlyCall
<1>3. JournalTypes'
  <2>1. <<>> \in Seq(Records)
    OBVIOUS
  <2>. QED BY <1>0, <1>1, <2>1 DEF JournalTypes, JLabels
<1>4. JLockHeld'
  BY <1>0, <1>1, <1>2 DEF JLockHeld, OnlyCall
<1>5. CallOK(p)'
  BY <1>2 DEF CallOK
<1>. QED BY <1>2, <1>3, <1>4, <1>5, CallKeeps

\* The file of a process that holds the lock grows to K, a journal that begins
\* with what was synchronized; nobody else has a plan.
LEMMA FileKeeps ==
  ASSUME JournalInv, NEW p \in Ingesters, jpc[p] \in {"load", "write", "fsync"},
         NEW K \in Seq(Records), lines' = K, IsChain(K), LinesInOrder(K),
         durable <= Len(K), \A i \in 1 .. durable : K[i] = lines[i],
         UNCHANGED <<durable, call, receipts>>, partial' \in BOOLEAN,
         \A q \in Ingesters : q # p => jpc'[q] = jpc[q],
         jpc' \in [Ingesters -> JLabels], additions' \in [Ingesters -> Seq(Records)],
         jpc'[p] \in {"idle", "fsync"}, jpc'[p] = "fsync" => jlock' = jlock /\ Recorded(K, call[p].log),
         jlock' = jlock \/ jlock' = jlock \ {p}
  PROVE  JournalInv'
<1>0. JournalTypes /\ JLockHeld /\ JournalSound /\ \A q \in Ingesters : CallOK(q)
  BY DEF JournalInv
<1>1. jlock = {p} /\ \A q \in Ingesters : q # p => jpc'[q] \notin {"load", "write", "fsync"}
  BY <1>0 DEF JLockHeld
<1>2. JournalTypes'
  BY <1>0 DEF JournalTypes
<1>3. JLockHeld'
  BY <1>1 DEF JLockHeld
<1>4. ReceiptsDurable'
  <2>1. Known(SubSeq(K, 1, durable)) = Known(SubSeq(lines, 1, durable))
    BY <1>0, SamePrefix DEF JournalTypes
  <2>. QED BY <1>0, <2>1 DEF JournalSound, ReceiptsDurable
<1>5. ChainSound' /\ LinesInOrder(lines') /\ PlansCurrent'
  BY <1>1 DEF ChainSound, PlansCurrent
<1>6. ASSUME NEW q \in Ingesters PROVE CallOK(q)'
  <2>1. CASE q = p
    BY <1>0, <2>1 DEF CallOK
  <2>2. CASE q # p
    BY <1>0, <1>1, <2>2 DEF CallOK
  <2>. QED BY <2>1, <2>2
<1>. QED BY <1>2, <1>3, <1>4, <1>5, <1>6 DEF JournalInv, JournalSound

LEMMA JournalStep == ASSUME JournalConstants PROVE JournalInv /\ [JournalNext]_jvars => JournalInv'
<1>. SUFFICES ASSUME JournalInv, [JournalNext]_jvars PROVE JournalInv'
  OBVIOUS
<1>0. /\ JournalTypes /\ JLockHeld /\ JournalSound /\ LinesInOrder(lines)
      /\ \A p \in Ingesters : CallOK(p)
  BY DEF JournalInv
<1>1. ASSUME NEW p \in Ingesters
      PROVE  /\ additions[p] \in Seq(Records) /\ call[p] \in [log : Logs, run_id : RunIds]
             /\ call[p].log \in Logs /\ call[p].run_id \in RunIds
  BY <1>0 DEF JournalTypes
<1>2. lines \in Seq(Records) /\ durable \in 0 .. Len(lines) /\ IsChain(lines)
  BY <1>0 DEF JournalTypes, JournalSound, ChainSound
<1>a. CASE UNCHANGED jvars
  BY <1>0, <1>a DEF jvars, file, JournalInv, JournalTypes, JLockHeld, JournalSound, ChainSound,
     ReceiptsDurable, PlansCurrent, CallOK
<1>b. ASSUME NEW p \in Ingesters, NEW log \in Logs, NEW run_id \in RunIds, Open(p, log, run_id)
      PROVE  JournalInv'
  <2>1. /\ parse_qemu_log(log) /\ jpc' = [jpc EXCEPT ![p] = "lock"]
        /\ call' = [call EXCEPT ![p] = [log |-> log, run_id |-> run_id]]
        /\ UNCHANGED <<lines, partial, durable, jlock, additions, receipts>>
    BY <1>b DEF Open, file
  <2>2. jpc'[p] = "lock" /\ call'[p].log = log /\ OnlyCall(p)
    BY <1>0, <2>1 DEF JournalTypes, OnlyCall
  <2>3. JournalTypes'
    BY <1>0, <2>1 DEF JournalTypes, JLabels
  <2>4. JLockHeld'
    BY <1>0, <2>1, <2>2 DEF JLockHeld, OnlyCall
  <2>5. CallOK(p)'
    BY <2>1, <2>2 DEF CallOK
  <2>. QED BY <2>2, <2>3, <2>4, <2>5, CallKeeps
<1>c. ASSUME NEW p \in Ingesters, flock_ex(p) PROVE JournalInv'
  <2>1. /\ jpc[p] = "lock" /\ jpc' = [jpc EXCEPT ![p] = "load"] /\ jlock = {} /\ jlock' = {p}
        /\ UNCHANGED <<lines, partial, durable, call, additions, receipts>>
    BY <1>c DEF flock_ex, file
  <2>2. jpc'[p] = "load" /\ OnlyCall(p)
    BY <1>0, <2>1 DEF JournalTypes, OnlyCall
  <2>3. JournalTypes'
    BY <1>0, <2>1 DEF JournalTypes, JLabels
  <2>4. JLockHeld'
    BY <1>0, <2>1, <2>2 DEF JLockHeld, OnlyCall
  <2>5. CallOK(p)'
    BY <1>0, <2>1, <2>2 DEF CallOK
  <2>. QED BY <2>2, <2>3, <2>4, <2>5, CallKeeps
\* What is missing is the rest of the log, and fits behind the journal.
<1>d. ASSUME NEW p \in Ingesters, Prepare(p) PROVE JournalInv'
  <2>0. PICK log \in Logs, run_id \in RunIds : log = call[p].log /\ run_id = call[p].run_id
    BY <1>1
  <2>1. PICK new : new = NewLines(lines, log)
    OBVIOUS
  <2>2. CASE ~load_descriptor(lines, partial) \/ Conflicts(lines, log, run_id, new) \/ new = {}
    <3>1. LeaveCall(p) /\ UNCHANGED <<file, call, receipts>>
      BY <1>d, <2>0, <2>1, <2>2 DEF Prepare
    <3>. QED BY <3>1, LeaveKeeps
  <2>3. CASE ~(~load_descriptor(lines, partial) \/ Conflicts(lines, log, run_id, new) \/ new = {})
    <3>1. PICK A : A = RecordsFor(lines, log, run_id, new)
      OBVIOUS
    <3>2. /\ jpc[p] = "load" /\ jpc' = [jpc EXCEPT ![p] = "write"]
          /\ additions' = [additions EXCEPT ![p] = A]
          /\ UNCHANGED <<lines, partial, durable, call, receipts, jlock>>
      BY <1>d, <2>0, <2>1, <2>3, <3>1 DEF Prepare, file
    <3>3. /\ A \in Seq(Records) /\ IsChain(lines \o A)
          /\ LinesInOrder(lines \o A) /\ Recorded(lines \o A, log)
      <4>1. parse_qemu_log(log)
        BY <1>0, <2>0, <3>2 DEF CallOK
      <4>2. Content[log] \in Seq(Bindings)
        BY DEF JournalConstants
      <4>. QED BY <1>0, <1>2, <2>1, <2>3, <3>1, <4>1, <4>2, PlanFits
    <3>4. jpc'[p] = "write" /\ additions'[p] = A /\ OnlyCall(p)
      BY <1>0, <3>2 DEF JournalTypes, OnlyCall
    <3>5. JournalTypes'
      BY <1>0, <3>2, <3>3 DEF JournalTypes, JLabels
    <3>6. JLockHeld'
      BY <1>0, <3>2, <3>4 DEF JLockHeld, OnlyCall
    <3>7. CallOK(p)'
      <4>1. ~partial
        BY <2>3 DEF load_descriptor
      <4>2. parse_qemu_log(log)
        BY <1>0, <2>0, <3>2 DEF CallOK
      <4>. QED BY <2>0, <3>2, <3>3, <3>4, <4>1, <4>2 DEF CallOK
    <3>. QED BY <3>3, <3>4, <3>5, <3>6, <3>7, CallKeeps
  <2>. QED BY <2>2, <2>3
<1>e. ASSUME NEW p \in Ingesters, Write(p) PROVE JournalInv'
  <2>1. PICK A \in Seq(Records) : A = additions[p]
    BY <1>1
  <2>2. /\ jpc[p] = "write" /\ ~partial
        /\ IsChain(lines \o A) /\ LinesInOrder(lines \o A) /\ Recorded(lines \o A, call[p].log)
    BY <1>0, <1>e, <2>1 DEF Write, CallOK, JournalSound, PlansCurrent
  <2>3. /\ lines' = lines \o A /\ partial' = FALSE /\ jpc' = [jpc EXCEPT ![p] = "fsync"]
        /\ UNCHANGED <<durable, jlock, call, additions, receipts>>
    BY <1>e, <2>1, <2>2 DEF Write, Extended
  <2>4. PICK K : K = lines \o A
    OBVIOUS
  <2>5. K \in Seq(Records) /\ durable <= Len(K) /\ \A i \in 1 .. durable : K[i] = lines[i]
    BY <1>2, <2>4, ConcatOf
  <2>6. /\ jpc'[p] = "fsync" /\ \A q \in Ingesters : q # p => jpc'[q] = jpc[q]
        /\ jpc' \in [Ingesters -> JLabels] /\ additions' \in [Ingesters -> Seq(Records)]
    BY <1>0, <2>3 DEF JournalTypes, JLabels
  <2>. QED BY <2>2, <2>3, <2>4, <2>5, <2>6, FileKeeps
\* What a short write leaves is a prefix of the chain that was planned.
<1>f. ASSUME NEW p \in Ingesters, ShortWrite(p) PROVE JournalInv'
  <2>1. PICK A \in Seq(Records) : A = additions[p]
    BY <1>1
  <2>2. jpc[p] = "write" /\ ~partial /\ IsChain(lines \o A) /\ LinesInOrder(lines \o A)
    BY <1>0, <1>f, <2>1 DEF ShortWrite, CallOK, JournalSound, PlansCurrent
  <2>3. PICK n \in 0 .. Len(A) :
          /\ lines' = lines \o SubSeq(A, 1, n) /\ partial' \in BOOLEAN
          /\ jpc' = [jpc EXCEPT ![p] = "idle"] /\ jlock' = jlock \ {p}
          /\ additions' = [additions EXCEPT ![p] = <<>>]
          /\ UNCHANGED <<durable, call, receipts>>
    <3>1. PICK n \in 0 .. Len(A) - 1, torn \in BOOLEAN :
            /\ lines' = Extended(SubSeq(A, 1, n)) /\ partial' = (torn \/ (partial /\ n = 0))
      BY <1>f, <2>1 DEF ShortWrite
    <3>2. lines' = lines \o SubSeq(A, 1, n)
      BY <2>2, <3>1 DEF Extended
    <3>3. partial' \in BOOLEAN
      BY <3>1
    <3>4. n \in 0 .. Len(A)
      OBVIOUS
    <3>. QED BY <1>f, <3>2, <3>3, <3>4 DEF ShortWrite, LeaveCall, Release
  <2>4. PICK K : K = SubSeq(lines \o A, 1, Len(lines) + n)
    OBVIOUS
  <2>5. lines' = K /\ Len(lines) + n \in 0 .. Len(lines \o A)
    BY <1>2, <2>3, <2>4, ShortConcat
  <2>6. K \in Seq(Records) /\ IsChain(K) /\ LinesInOrder(K) /\ Len(K) = Len(lines) + n
        /\ \A i \in 1 .. Len(lines) + n : K[i] = (lines \o A)[i]
    BY <1>2, <2>2, <2>4, <2>5, ConcatOf, PrefixOf, PrefixSound
  <2>7. durable <= Len(K) /\ \A i \in 1 .. durable : K[i] = lines[i]
    BY <1>2, <2>6, ConcatOf
  <2>8. /\ jpc'[p] = "idle" /\ \A q \in Ingesters : q # p => jpc'[q] = jpc[q]
        /\ jpc' \in [Ingesters -> JLabels]
    BY <1>0, <2>3 DEF JournalTypes, JLabels
  <2>9. additions' \in [Ingesters -> Seq(Records)]
    <3>1. <<>> \in Seq(Records)
      OBVIOUS
    <3>. QED BY <1>0, <2>3, <3>1 DEF JournalTypes
  <2>. QED BY <2>2, <2>3, <2>5, <2>6, <2>7, <2>8, <2>9, FileKeeps
\* The whole journal is on disk, and the whole log in it.
<1>g. ASSUME NEW p \in Ingesters, fsync(p) PROVE JournalInv'
  <2>1. /\ jpc[p] = "fsync" /\ durable' = Len(lines) /\ lines' = lines /\ partial' = partial
        /\ receipts' = receipts \cup {EventId(call[p].log, line) : line \in DOMAIN Content[call[p].log]}
        /\ jpc' = [jpc EXCEPT ![p] = "idle"] /\ jlock' = jlock \ {p} /\ call' = call
        /\ additions' = [additions EXCEPT ![p] = <<>>]
    BY <1>g DEF fsync, LeaveCall, Release
  <2>2. jpc'[p] = "idle" /\ \A q \in Ingesters : q # p => jpc'[q] = jpc[q] /\ additions'[q] = additions[q]
    BY <1>0, <2>1 DEF JournalTypes
  <2>3. JournalTypes'
    <3>1. <<>> \in Seq(Records)
      OBVIOUS
    <3>2. Len(lines) \in 0 .. Len(lines)
      BY <1>2
    <3>. QED BY <1>0, <2>1, <3>1, <3>2 DEF JournalTypes, JLabels
  <2>4. JLockHeld'
    BY <1>0, <2>1, <2>2 DEF JLockHeld
  <2>5. ReceiptsDurable'
    <3>1. SubSeq(lines, 1, Len(lines)) = lines
      BY <1>2
    <3>2. receipts \subseteq Known(lines)
      <4>1. ASSUME NEW e \in receipts PROVE e \in Known(lines)
        <5>1. /\ SubSeq(lines, 1, durable) \in Seq(Records) /\ Len(SubSeq(lines, 1, durable)) = durable
              /\ \A i \in 1 .. durable : SubSeq(lines, 1, durable)[i] = lines[i]
          BY <1>2, PrefixOf
        <5>2. e \in Known(SubSeq(lines, 1, durable))
          BY <1>0 DEF JournalSound, ReceiptsDurable
        <5>3. PICK i \in 1 .. durable : lines[i].event_id = e
          <6>1. PICK P : P = SubSeq(lines, 1, durable)
            OBVIOUS
          <6>2. PICK i \in 1 .. Len(P) : P[i].event_id = e
            BY <5>1, <5>2, <6>1, KnownAt
          <6>. QED BY <5>1, <6>1, <6>2
        <5>4. i \in 1 .. Len(lines)
          BY <1>2
        <5>. QED BY <1>2, <5>3, <5>4, KnownAt
      <4>. QED BY <4>1
    <3>3. Recorded(lines, call[p].log)
      BY <1>0, <2>1 DEF CallOK
    <3>. QED BY <2>1, <3>1, <3>2, <3>3 DEF ReceiptsDurable, Recorded
  <2>6. ChainSound' /\ LinesInOrder(lines') /\ PlansCurrent'
    BY <1>0, <2>1, <2>2 DEF JournalSound, ChainSound, PlansCurrent
  <2>7. ASSUME NEW q \in Ingesters PROVE CallOK(q)'
    <3>1. CASE q = p
      BY <2>2, <3>1 DEF CallOK
    <3>2. CASE q # p
      BY <1>0, <2>1, <2>2, <3>2 DEF CallOK
    <3>. QED BY <3>1, <3>2
  <2>. QED BY <2>3, <2>4, <2>5, <2>6, <2>7 DEF JournalInv, JournalSound
<1>h. ASSUME NEW p \in Ingesters, KillIngester(p) PROVE JournalInv'
  BY <1>h, LeaveKeeps DEF KillIngester
\* Every synchronized line is left, and nobody runs.
<1>i. CASE PowerLoss
  <2>1. PICK n \in durable .. Len(lines) : lines' = SubSeq(lines, 1, n) /\ partial' \in BOOLEAN
    BY <1>0, <1>i DEF PowerLoss, JournalTypes
  <2>2. /\ jpc' = [p \in Ingesters |-> "idle"] /\ additions' = [p \in Ingesters |-> <<>>]
        /\ jlock' = {} /\ UNCHANGED <<durable, call, receipts>>
    BY <1>i DEF PowerLoss
  <2>3. PICK K : K = SubSeq(lines, 1, n)
    OBVIOUS
  <2>4. n \in 0 .. Len(lines) /\ durable \in 0 .. n /\ durable <= n
    BY <1>2
  <2>5. /\ K \in Seq(Records) /\ Len(K) = n /\ \A i \in 1 .. n : K[i] = lines[i]
        /\ IsChain(K) /\ LinesInOrder(K)
    BY <1>0, <1>2, <2>3, <2>4, PrefixOf, PrefixSound
  <2>6. JournalTypes'
    <3>1. <<>> \in Seq(Records)
      OBVIOUS
    <3>2. additions' \in [Ingesters -> Seq(Records)] /\ jpc' \in [Ingesters -> JLabels]
      BY <2>2, <3>1 DEF JLabels
    <3>. QED BY <1>0, <2>1, <2>2, <2>3, <2>4, <2>5, <3>2 DEF JournalTypes
  <2>7. JLockHeld' /\ PlansCurrent' /\ \A p \in Ingesters : CallOK(p)'
    BY <2>2 DEF JLockHeld, PlansCurrent, CallOK
  <2>8. ReceiptsDurable'
    <3>1. \A i \in 1 .. durable : K[i] = lines[i]
      BY <2>4, <2>5
    <3>2. Known(SubSeq(K, 1, durable)) = Known(SubSeq(lines, 1, durable))
      BY <1>2, <2>4, <2>5, <3>1, SamePrefix
    <3>. QED BY <1>0, <2>1, <2>2, <2>3, <3>2 DEF JournalSound, ReceiptsDurable
  <2>9. ChainSound' /\ LinesInOrder(lines')
    BY <2>1, <2>3, <2>5 DEF ChainSound
  <2>. QED BY <2>6, <2>7, <2>8, <2>9 DEF JournalInv, JournalSound
<1>. QED BY <1>a, <1>b, <1>c, <1>d, <1>e, <1>f, <1>g, <1>h, <1>i DEF JournalNext

\* Whatever the processes and logs, after any kills, short writes and losses of
\* power the journal is one chain, the events of every call that returned a
\* count are on disk, and a plan fits the journal it is written to
\* (CompletionTelemetryStore.ingest_qemu_log).
THEOREM JournalIsSound == JournalSpec => []JournalSound
<1>1. JournalInv => JournalSound
  BY DEF JournalInv
<1>. QED BY JournalAssumption, JournalInitial, JournalStep, <1>1, PTL DEF JournalSpec

============================================================================
