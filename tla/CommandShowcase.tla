-------------------------- MODULE CommandShowcase --------------------------
(***************************************************************************)
(* The command-graph showcase (raveil/command_showcase.py): prepare writes *)
(* N inputs and, last, a state file; mutate adds one replacement input;     *)
(* run compares three executions of N independent sorts and then reuses or  *)
(* refills a cache whose file names carry the recipe, the digest of the     *)
(* input and the digest of the payload. Every file is created exclusively.  *)
(* A content is a number, a digest is the content itself, and sorting is    *)
(* the function Sort.                                                       *)
(***************************************************************************)
EXTENDS Integers, FiniteSets, Sequences

CONSTANTS N, MaxRuns, MaxTampers, MaxHostEdits
ASSUME ShowcaseConstants == N \in Nat \ {0}

VARIABLES pc, original, mutation, state, recipe, idx, active, digest, cache, executed, reused,
          invalidated, runs, tampers, edits

showcase_vars == <<pc, original, mutation, state, recipe, idx, active, digest, cache, executed, reused,
          invalidated, runs, tampers, edits>>

ABSENT == 0
Inputs == 1..N
_input_bytes(i) == i
Mutated(c) == c + 20
Edited(c) == c + 50
Sort(c) == c + 1000
Spoiled == -1   \* the content of no file that a run wrote

(* The path that the next command names: the replacement once it exists. *)
active_input_path(i) == IF mutation[i] # ABSENT THEN "mutation" ELSE "original"
Read(i, path) == IF path = "mutation" THEN mutation[i] ELSE original[i]

(* prepare: directories and inputs one after another, the state file last;   *)
(* an interrupt leaves what was written, and a second prepare is refused by  *)
(* the first directory.                                                      *)
prepare_showcase ==
    /\ pc = "fresh"
    /\ original' = [i \in Inputs |-> IF i = idx THEN _input_bytes(i) ELSE original[i]]
    /\ idx' = IF idx = N THEN 1 ELSE idx + 1
    /\ state' = (idx = N)
    /\ pc' = IF idx = N THEN "idle" ELSE "fresh"
    /\ UNCHANGED <<mutation, recipe, active, digest, cache, executed, reused, invalidated, runs, tampers, edits>>
Interrupted ==
    /\ pc = "fresh" /\ idx > 1
    /\ pc' = "idle"
    /\ UNCHANGED <<original, mutation, state, recipe, idx, active, digest, cache, executed, reused,
                   invalidated, runs, tampers, edits>>

_require_prepared == state

(* mutate: another command, exclusive; the original stays. *)
mutate_showcase(i) ==
    /\ _require_prepared /\ mutation[i] = ABSENT
    /\ mutation' = [mutation EXCEPT ![i] = Mutated(original[i])]
    /\ UNCHANGED <<pc, original, state, recipe, idx, active, digest, cache, executed, reused,
                   invalidated, runs, tampers, edits>>

(* run: compile both programs, naming each active input. *)
run_showcase ==
    /\ pc = "idle" /\ runs < MaxRuns /\ runs' = runs + 1
    /\ recipe' = [i \in Inputs |-> active_input_path(i)]
    /\ idx' = 1 /\ executed' = {} /\ reused' = {} /\ invalidated' = {}
    /\ pc' = IF _require_prepared THEN "compare" ELSE "failed"
    /\ UNCHANGED <<original, mutation, state, active, digest, cache, tampers, edits>>

(* The sequential, the fan-out and the graph executions read one workspace   *)
(* after another; they agree unless an input changed meanwhile.              *)
Compare ==
    /\ pc = "compare"
    /\ pc' \in {"lookup"} \cup (IF edits > 0 THEN {"failed"} ELSE {})
    /\ UNCHANGED <<original, mutation, state, recipe, idx, active, digest, cache, executed, reused,
                   invalidated, runs, tampers, edits>>

(* A hit is an entry named for this node, recipe and input whose payload     *)
(* still has the digest in its name.                                         *)
Entry(i, d) == {e \in cache : e.node = i /\ e.recipe = recipe[i] /\ e.input = d}
Mutant_cache_hit(i, d) == Entry(i, d)
_cache_hit(i, d) == {e \in Entry(i, d) : e.payload = e.claimed}

Lookup ==
    /\ pc = "lookup"
    /\ LET d == Read(idx, active_input_path(idx)) IN
       /\ active' = active_input_path(idx) /\ digest' = d
       /\ IF _cache_hit(idx, d) # {}
            THEN /\ reused' = reused \cup
                        {[input |-> d, payload |-> (CHOOSE e \in _cache_hit(idx, d) : TRUE).payload]}
                 /\ pc' = IF idx = N THEN "idle" ELSE "lookup"
                 /\ idx' = IF idx = N THEN 1 ELSE idx + 1
                 /\ UNCHANGED invalidated
            ELSE /\ invalidated' = IF \E e \in cache : e.node = idx THEN invalidated \cup {idx} ELSE invalidated
                 /\ pc' = "single" /\ UNCHANGED <<idx, reused>>
    /\ UNCHANGED <<original, mutation, state, recipe, cache, executed, runs, tampers, edits>>

(* A miss runs the node alone in a private workspace, from another read of   *)
(* the same input path, and stores the output under the digest read before.     *)
_cache_path(i, d, out) == [node |-> i, recipe |-> recipe[i], input |-> d, claimed |-> out]
_single_node_output ==
    /\ pc = "single"
    /\ LET out == Sort(Read(idx, active))
           name == _cache_path(idx, digest, out)
           taken == \E e \in cache : \A f \in DOMAIN name : e[f] = name[f]
       IN IF taken
            THEN pc' = "failed" /\ UNCHANGED <<cache, executed, idx>>
            ELSE /\ cache' = cache \cup {[node |-> idx, recipe |-> recipe[idx], input |-> digest,
                                          claimed |-> out, payload |-> out]}
                 /\ executed' = executed \cup {idx}
                 /\ pc' = IF idx = N THEN "idle" ELSE "lookup"
                 /\ idx' = IF idx = N THEN 1 ELSE idx + 1
    /\ UNCHANGED <<original, mutation, state, recipe, active, digest, reused, invalidated, runs, tampers, edits>>

(* A file of the cache is damaged; a host editor rewrites an input. *)
Tamper ==
    /\ tampers < MaxTampers /\ tampers' = tampers + 1
    /\ \E e \in cache : cache' = (cache \ {e}) \cup {[e EXCEPT !.payload = Spoiled]}
    /\ UNCHANGED <<pc, original, mutation, state, recipe, idx, active, digest, executed, reused,
                   invalidated, runs, edits>>
HostEdit ==
    /\ edits < MaxHostEdits /\ edits' = edits + 1 /\ state
    /\ \E i \in Inputs : original' = [original EXCEPT ![i] = Edited(@)]
    /\ UNCHANGED <<pc, mutation, state, recipe, idx, active, digest, cache, executed, reused,
                   invalidated, runs, tampers>>

Restart == pc = "failed" /\ pc' = "idle" /\ idx' = 1
           /\ UNCHANGED <<original, mutation, state, recipe, active, digest, cache, executed, reused,
                          invalidated, runs, tampers, edits>>

ShowcaseInit ==
    /\ pc = "fresh" /\ state = FALSE /\ idx = 1 /\ active = "original" /\ digest = ABSENT
    /\ original = [i \in Inputs |-> ABSENT] /\ mutation = [i \in Inputs |-> ABSENT]
    /\ recipe = [i \in Inputs |-> "original"] /\ cache = {}
    /\ executed = {} /\ reused = {} /\ invalidated = {}
    /\ runs = 0 /\ tampers = 0 /\ edits = 0

ShowcaseNext ==
    \/ prepare_showcase \/ Interrupted \/ run_showcase \/ Compare \/ Lookup
    \/ _single_node_output \/ Tamper \/ HostEdit \/ Restart
    \/ \E i \in Inputs : mutate_showcase(i)

ShowcaseSpec == ShowcaseInit /\ [][ShowcaseNext]_showcase_vars

(* A reused payload is never a damaged one, and is what sorting the input    *)
(* that the run just digested would give, through mutations that fall inside *)
(* a run, interrupted preparations and failed runs, as long as no editor     *)
(* rewrote an input in place.                                                *)
ReuseSound ==
    \A r \in reused : /\ r.payload # Spoiled
                      /\ edits = 0 => r.payload = Sort(r.input)

(* NATIVE_COMMAND_GRAPH_SHOWCASE.md: "Cache identity includes the complete   *)
(* node recipe (including hash-bound tool identity), active input SHA-256,   *)
(* and payload SHA-256": an entry was computed from the input it names. Not  *)
(* so of the code: it is read again after it was digested.                   *)
CacheBindsInput == \A e \in cache : e.claimed = Sort(e.input)
=============================================================================
