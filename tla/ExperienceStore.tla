--------------------------- MODULE ExperienceStore ---------------------------
(***************************************************************************)
(* ExperienceStore of raveil/experience.py with the commands that use it:  *)
(* an append-only log of records and a bounded index of them in memory.    *)
(* One process at a time works on the log; it may stop in the middle of    *)
(* an append, and what it has written may end in a part of a line, or in a *)
(* whole record without its newline.                                       *)
(*                                                                         *)
(* A record is its sequence number, its exact_key and its samples; the     *)
(* averages that consolidation keeps are abstracted away, and so is the    *)
(* score by which it retains: any choice of active_limit records is.       *)
(***************************************************************************)
EXTENDS Integers, Sequences, FiniteSets, FiniteSetsExt

CONSTANTS
  Keys,          \* the exact keys of the evidence
  active_limit,  \* records that consolidation retains
  MaxLog,        \* bound on the records of a log
  MaxForked      \* bound on the records a fork has seen

\* The code asks for at least four; two show the same cases in a short log.
VARIABLES
  lines,    \* the lines of the log: records, or Junk that is no JSON object
  tail,     \* how the log ends: "clean", "bare" without a newline, or "torn"
  pc,       \* "down", "load", "ready" or "write"
  line,     \* the next line to load
  store,    \* the index of the process
  clone,    \* the index of its fork, if it has one
  pending,  \* the record to be written
  acked     \* how many appends have returned since the log was begun

evars == <<lines, tail, pc, line, store, clone, pending, acked>>
log == <<lines, tail>>

Junk == [sequence |-> 0, key |-> "junk", samples |-> 0]
EmptyStore == [active |-> {}, cold_count |-> 0, next_sequence |-> 1]

StoreInit ==
  /\ lines = <<>> /\ tail = "clean"
  /\ pc = "down" /\ line = 1
  /\ store = EmptyStore /\ clone = {}
  /\ pending = Junk
  /\ acked = 0

----------------------------------------------------------------------------
(* The index.                                                              *)

Samples(records) == MapThenSumSet(LAMBDA r : r.samples, records)

\* One record for each exact key: the youngest, with the samples of all.
Merged(records) ==
  {[sequence |-> Max({r.sequence : r \in {s \in records : s.key = k}}),
    key |-> k,
    samples |-> Samples({s \in records : s.key = k})] : k \in {r.key : r \in records}}

\* What the index may hold after _consolidate.
consolidate(records) ==
  IF Cardinality(records) <= active_limit
    THEN {records}
    ELSE LET merged == Merged(records) IN
           IF Cardinality(merged) <= active_limit
             THEN {merged}
             ELSE {kept \in SUBSET merged : Cardinality(kept) = active_limit}

NewRecord(s, key) == [sequence |-> s.next_sequence, key |-> key, samples |-> 1]

\* What append makes of an index.
Appended(s, key) ==
  {[active |-> kept, cold_count |-> s.cold_count + 1, next_sequence |-> s.next_sequence + 1] :
     kept \in consolidate(s.active \cup {NewRecord(s, key)})}

----------------------------------------------------------------------------
(* The process.                                                            *)

Stop ==
  /\ pc' = "down" /\ line' = 1
  /\ store' = EmptyStore /\ clone' = {} /\ pending' = Junk

\* A command opens the store.
Open ==
  /\ pc = "down"
  /\ pc' = "load"
  /\ UNCHANGED <<log, line, store, clone, pending, acked>>

\* demo --reset removes the log first.
Reset ==
  /\ pc = "down"
  /\ lines' = <<>> /\ tail' = "clean" /\ acked' = 0
  /\ pc' = "load"
  /\ UNCHANGED <<line, store, clone, pending>>

Records == IF tail = "torn" THEN Append(lines, Junk) ELSE lines

\* Mutant: a line that does not parse is left out.
Mutant_LoadLine ==
  /\ pc = "load" /\ line <= Len(Records)
  /\ LET record == Records[line] IN
       IF record = Junk \/ record.sequence # store.next_sequence
         THEN UNCHANGED store
         ELSE store' = [active |-> store.active \cup {record},
                        cold_count |-> store.cold_count + record.samples,
                        next_sequence |-> record.sequence + 1]
  /\ line' = line + 1
  /\ UNCHANGED <<log, pc, clone, pending, acked>>

\* One line of _load: a record of the expected sequence, or the end.
LoadLine ==
  /\ pc = "load" /\ line <= Len(Records)
  /\ LET record == Records[line] IN
       IF record = Junk \/ record.sequence # line
         THEN Stop
         ELSE /\ \E kept \in LET all == store.active \cup {record} IN
                        IF Cardinality(all) >= 2 * active_limit THEN consolidate(all) ELSE {all} :
                   store' = [active |-> kept,
                             cold_count |-> store.cold_count + record.samples,
                             next_sequence |-> record.sequence + 1]
              /\ line' = line + 1
              /\ UNCHANGED <<pc, clone, pending>>
  /\ UNCHANGED <<log, acked>>

Loaded ==
  /\ pc = "load" /\ line = Len(Records) + 1
  /\ \E kept \in consolidate(store.active) : store' = [store EXCEPT !.active = kept]
  /\ pc' = "ready" /\ line' = 1
  /\ UNCHANGED <<log, clone, pending, acked>>

\* append, up to the log: the record is counted, indexed and consolidated.
AppendRecord(key) ==
  /\ pc = "ready" /\ Len(lines) < MaxLog
  /\ pending' = NewRecord(store, key)
  /\ store' \in Appended(store, key)
  /\ pc' = "write"
  /\ UNCHANGED <<log, line, clone, acked>>

\* The log with a record behind whatever it ends in.
Extended(record) ==
  IF tail = "bare" THEN [lines EXCEPT ![Len(lines)] = Junk] ELSE Append(lines, record)

WriteLine ==
  /\ pc = "write"
  /\ lines' = Extended(pending) /\ tail' = "clean"
  /\ acked' = acked + 1
  /\ pc' = "ready" /\ pending' = Junk
  /\ UNCHANGED <<line, store, clone>>

\* Some of the bytes are written and the command ends.
WriteStops ==
  /\ pc = "write"
  /\ \/ lines' = Extended(pending) /\ tail' \in {"bare", "clean"}
     \/ tail # "bare" /\ UNCHANGED lines /\ tail' \in {"torn", tail}
  /\ Stop
  /\ UNCHANGED acked

\* fork copies the index and does not share the log.
fork ==
  /\ pc = "ready" /\ clone = {} /\ store.cold_count < MaxForked
  /\ clone' = {store}
  /\ UNCHANGED <<log, pc, line, store, pending, acked>>

AppendToClone(key) ==
  /\ pc = "ready"
  /\ \E c \in clone : c.cold_count < MaxForked /\ \E s \in Appended(c, key) : clone' = {s}
  /\ UNCHANGED <<log, pc, line, store, pending, acked>>

Exit ==
  /\ pc \in {"load", "ready"}
  /\ Stop
  /\ UNCHANGED <<log, acked>>

StoreNext ==
  \/ Open \/ Reset \/ LoadLine \/ Loaded \/ WriteLine \/ WriteStops \/ fork \/ Exit
  \/ \E key \in Keys : AppendRecord(key) \/ AppendToClone(key)

StoreSpec == StoreInit /\ [][StoreNext]_evars

----------------------------------------------------------------------------
(* Properties.                                                             *)

\* No append has joined its record to one that lacked its newline.
Separate == \A i \in DOMAIN lines : lines[i] # Junk

InLog(key, upto) ==
  Cardinality({i \in DOMAIN lines : i <= upto /\ lines[i].key = key})

\* The online index never outgrows its limit, in a store and in its fork.
ActiveBounded ==
  pc \in {"ready", "write"} =>
    \A s \in {store} \cup clone : Cardinality(s.active) <= active_limit

\* No evidence counts twice: a record of the index stands for at most the
\* records of its key that the log holds up to it, however often it was
\* merged, dropped and loaded again.
EvidenceOnce ==
  pc = "ready" /\ Separate => \A r \in store.active : r.samples <= InLog(r.key, r.sequence)

\* What a running store counts is what a new process would count: the lines.
\* An append to a log whose last newline is missing is the exception: no later
\* load accepts the line it makes.
CountsAgree ==
  pc = "ready" /\ Separate =>
                  /\ store.cold_count = Len(lines)
                  /\ store.next_sequence = Len(lines) + 1

\* A load that succeeds leaves nothing out: every append that has returned is
\* counted, whatever interrupted the appends around it.
LoadComplete == pc = "ready" => store.cold_count >= acked

\* Through appends, merges, torn lines, restarts and forks: the index is bounded,
\* counts no observation twice, agrees with the log, and loses nothing that was
\* acknowledged.
StoreSound == ActiveBounded /\ EvidenceOnce /\ CountsAgree /\ LoadComplete

============================================================================
