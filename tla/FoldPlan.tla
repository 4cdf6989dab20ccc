------------------------------ MODULE FoldPlan ------------------------------
(***************************************************************************)
(* What raveil_fold_session_decode, raveil_fold_chain_decode and           *)
(* raveil_fold_dag_decode make of an envelope before its first job: whether *)
(* it is admitted and, for a DAG, the slots of every result.               *)
(***************************************************************************)
EXTENDS Integers, FiniteSets, FiniteSetsExt

CONSTANTS
  ObjectIds,   \* the slots of the object table
  MaxObjects,  \* RAVEIL_JOB_MAX_OBJECTS
  MaxJobs      \* the most jobs of an envelope

Indices == 0 .. MaxJobs - 1
Chunks == {0, 1}

\* raveil_fold_evaluate as an uninterpreted function of the job and the chunk,
\* when its inputs are right; it has no state and may not fail on a request
\* that decodes.
Value(i, chunk) == 2 * i + chunk + 2

----------------------------------------------------------------------------
(* Admission of an envelope.  reads[i] holds the pairs <<producer, chunk>> *)
(* that job i reads; chunks[i] is the size of its result.                  *)

Producers(req, i) == {pair[1] : pair \in req.reads[i]}

EarlierOnly(req) ==
  \A i \in 0 .. req.count - 1 : \A pair \in req.reads[i] :
    pair[1] < i /\ pair[2] < req.chunks[pair[1]]

raveil_fold_session_decode(req) ==
  /\ req.count \in 1 .. MaxJobs
  /\ \A i \in 0 .. req.count - 1 : req.reads[i] = {}

\* A linked job reads all of one earlier result.
raveil_fold_chain_decode(req) ==
  /\ req.count \in 1 .. MaxJobs
  /\ EarlierOnly(req)
  /\ \A i \in 0 .. req.count - 1 :
       /\ Cardinality(Producers(req, i)) <= 1
       /\ req.reads[i] = Producers(req, i) \X Chunks

\* Mutant: the result that the request asks for is kept only for its readers.
Mutant_last_use(req, p) ==
  Max({p} \cup {i \in 0 .. req.count - 1 : p \in Producers(req, i)})

\* The last job that needs the result of p; the output is needed at the end.
last_use(req, p) ==
  IF p = req.output THEN req.count
  ELSE Max({p} \cup {i \in 0 .. req.count - 1 : p \in Producers(req, i)})

\* The slots whose content nobody needs from job i on.
FreeFor(req, own, i) == {o \in ObjectIds : own[o] = -1 \/ last_use(req, own[o]) < i}

\* The n lowest members of free, or all of it.
Lowest(free, n) == {o \in free : Cardinality({p \in free : p < o}) < n}

\* owners[i]: the job that owns each slot when job i is placed.
owners(req) ==
  LET own[i \in 0 .. req.count] ==
        IF i = 0 THEN [o \in ObjectIds |-> -1]
        ELSE [o \in ObjectIds |->
                IF o \in Lowest(FreeFor(req, own[i - 1], i - 1), req.chunks[i - 1])
                  THEN i - 1 ELSE own[i - 1][o]]
  IN own

Allocation(req) ==
  LET own == owners(req) IN
    [i \in Indices |-> IF i < req.count
                         THEN Lowest(FreeFor(req, own[i], i), req.chunks[i]) ELSE {}]

\* A job may name at most RAVEIL_JOB_MAX_OBJECTS objects.
FitsDescriptor(req, i) ==
  req.chunks[i] + Cardinality(req.reads[i]) <= MaxObjects

raveil_fold_dag_decode(req) ==
  /\ req.count \in 1 .. MaxJobs
  /\ req.output < req.count
  /\ EarlierOnly(req)
  /\ \A i \in 0 .. req.count - 1 :
       /\ Cardinality(Producers(req, i)) <= 2
       /\ FitsDescriptor(req, i)
       /\ Cardinality(Allocation(req)[i]) = req.chunks[i]

Decodes(req) ==
  CASE req.kind = "session" -> raveil_fold_session_decode(req)
    [] req.kind = "chain" -> raveil_fold_chain_decode(req)
    [] req.kind = "dag" -> raveil_fold_dag_decode(req)

============================================================================
