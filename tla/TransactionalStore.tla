------------------------- MODULE TransactionalStore -------------------------
(***************************************************************************)
(* What the job authority promises its clients: a store of versioned       *)
(* objects on which optimistic transactions run.  A transaction begins on  *)
(* the current state of some objects, may be cancelled, and ends once: it  *)
(* commits only if every object it began on is still exactly what it began *)
(* on, and then changes some of those objects in one step; otherwise it    *)
(* leaves the store alone.                                                 *)
(***************************************************************************)
EXTENDS Integers

CONSTANTS
  Ids,      \* the objects
  Txns,     \* the identities a transaction may have, each used at most once
  Absent    \* the state of an object that does not exist

VARIABLES
  store,    \* store[id]: its version and its bytes, or Absent
  fate,     \* fate[t]: what became of transaction t
  basis     \* basis[t]: the objects t began on and what they were, Absent elsewhere

vars == <<store, fate, basis>>

Fates == {"unused", "open", "cancelled", "committed", "aborted"}

Init ==
  /\ store = [id \in Ids |-> Absent]
  /\ fate = [t \in Txns |-> "unused"]
  /\ basis = [t \in Txns |-> [id \in Ids |-> Absent]]

\* The authority is started afresh and forgets everything.
Restart ==
  /\ store' = [id \in Ids |-> Absent]
  /\ fate' = [t \in Txns |-> "unused"]
  /\ basis' = [t \in Txns |-> [id \in Ids |-> Absent]]

Register(id) ==
  /\ store[id] = Absent
  /\ store'[id] # Absent
  /\ store' = [store EXCEPT ![id] = store'[id]]
  /\ UNCHANGED <<fate, basis>>

Begin(t) ==
  /\ fate[t] = "unused"
  /\ fate' = [fate EXCEPT ![t] = "open"]
  /\ \E id \in Ids : basis'[t][id] # Absent
  /\ \A id \in Ids : basis'[t][id] # Absent => basis'[t][id] = store[id]
  /\ basis' = [basis EXCEPT ![t] = basis'[t]]
  /\ UNCHANGED store

Cancel(t) ==
  /\ fate[t] = "open"
  /\ fate' = [fate EXCEPT ![t] = "cancelled"]
  /\ UNCHANGED <<store, basis>>

Abort(t) ==
  /\ fate[t] \in {"open", "cancelled"}
  /\ fate' = [fate EXCEPT ![t] = "aborted"]
  /\ UNCHANGED <<store, basis>>

Commit(t) ==
  /\ fate[t] = "open"
  /\ \A id \in Ids : basis[t][id] # Absent => store[id] = basis[t][id]
  /\ store' = [id \in Ids |-> store'[id]]
  /\ \A id \in Ids : store'[id] # store[id] =>
       /\ basis[t][id] # Absent
       /\ store'[id] # Absent
       /\ store'[id].version = store[id].version + 1
  /\ fate' = [fate EXCEPT ![t] = "committed"]
  /\ UNCHANGED basis

Next ==
  \/ Restart
  \/ \E id \in Ids : Register(id)
  \/ \E t \in Txns : Begin(t) \/ Cancel(t) \/ Abort(t) \/ Commit(t)

Spec == Init /\ [][Next]_vars
============================================================================
