---------------------------- MODULE DynamicSeal ----------------------------
(***************************************************************************)
(* Dynamic graph-device requests: the sealed bundle and its replay         *)
(* (raveil/graph_device_dynamic_sealed.py, graph_device_uio_dry_run.py)    *)
(* and the direct run of one or two requests (graph_device_dynamic.py).    *)
(* One sealing, one replaying and one direct process share the source tree *)
(* and the artifact directories.  Meanwhile somebody edits sources (and    *)
(* may put them back), descriptors and bundles, and processes are killed.  *)
(*                                                                         *)
(* A digest is the value it digests, so the identity of a bundle is the    *)
(* record of what its manifest names.  The lower runner is external: it    *)
(* copies the sources when it builds, and it may produce a wrong output or *)
(* a second simulator.                                                     *)
(***************************************************************************)
EXTENDS Integers, Sequences, FiniteSets

CONSTANTS Program,     \* the program compile_descriptor makes of each descriptor
          Shape,       \* its affine shape: "baseline", "compact" or another
          Seeds,
          MaxEdits,    \* edits of sources, descriptors and bundles altogether
          MaxCommands  \* commands started altogether

VARIABLES sources,        \* the content of SOURCE_PATHS: 0 or 1
          descriptor,        \* the descriptor at each path, "cat" a catalogue path
          edits, commands,
          dirs,        \* bundle directories: [key, leaves, damaged]
          sealed,      \* keys of the bundles whose seal() returned
          sp, rp, dp,  \* the sealing, the replaying and the direct process
          replayed,    \* sealed-dynamic-receipt.json
          runs         \* the receipts of direct runs

sealvars == <<sources, descriptor, edits, commands, dirs, sealed, sp, rp, dp, replayed, runs>>

Descriptors == DOMAIN Program
DescriptorPaths == {"cat", "own"}
Leaves == 3            \* the payloads, manifest.json, SEALED: in this order
Oracle(d, seed) == <<d, seed>>
Wrong == <<"wrong", 0>>

-----------------------------------------------------------------------------
\* The wire image: load 1, add 2, store 3, and max 4 from version 2 on.

_valid_program_words(p) ==
  LET n == Len(p.words)
      defined(i) == {p.words[j].dst : j \in 1 .. i - 1}
  IN /\ p.version \in {1, 2} /\ n \in 2 .. 16
     /\ \A i \in 1 .. n :
          LET w == p.words[i]
          IN /\ w.op \in {1, 2, 3, 4}
             /\ w.op = 1 => i # n /\ w.left <= 4
             /\ w.op \in {2, 4} => i # n /\ {w.left, w.right} \subseteq defined(i)
             /\ w.op = 4 => p.version = 2
             /\ w.op = 3 => i = n /\ w.dst \in defined(i)

_profile_for(d) == Shape[d] \in {"baseline", "compact"}

\* _request_bytes: the versions a request may carry without explicit input.
_request_admits(d) == Program[d].version \in 1 .. 4

NoKey == [desc |-> CHOOSE d \in Descriptors : TRUE, seed |-> 0, source |-> 0,
          headers |-> 0, by |-> 0]
SIdle == [pc |-> "idle", key |-> NoKey]
RIdle == [pc |-> "idle", key |-> NoKey, damaged |-> FALSE, swapped |-> FALSE,
          built |-> 0, output |-> Wrong]
DIdle == [pc |-> "idle", todo |-> <<>>, done |-> <<>>]

SealInit ==
  /\ sources = 0 /\ descriptor \in [DescriptorPaths -> Descriptors] /\ edits = 0 /\ commands = 0
  /\ dirs = {} /\ sealed = {}
  /\ sp = SIdle /\ rp = RIdle /\ dp = DIdle
  /\ replayed = {} /\ runs = {}

Command == commands < MaxCommands /\ commands' = commands + 1

Dir(key) == CHOOSE d \in dirs : d.key = key

-----------------------------------------------------------------------------
\* seal(): `by` is the source the process was started from.

SealStart ==
  /\ sp.pc = "idle" /\ Command
  /\ sp' = [sp EXCEPT !.pc = "read", !.key.by = sources]
  /\ UNCHANGED <<sources, descriptor, edits, dirs, sealed, rp, dp, replayed, runs>>

\* The descriptor's bytes and the first snapshot of the sources.
SealRead(path, seed) ==
  /\ sp.pc = "read"
  /\ sp' = [sp EXCEPT !.pc = "compile", !.key.desc = descriptor[path], !.key.seed = seed,
                      !.key.source = sources]
  /\ UNCHANGED <<sources, descriptor, edits, commands, dirs, sealed, rp, dp, replayed, runs>>

\* Programs of version 3 and later are refused; load_device_abi reads the tree.
SealCompile ==
  /\ sp.pc = "compile"
  /\ sp' = IF Program[sp.key.desc].version \in {1, 2} /\ _profile_for(sp.key.desc)
           THEN [sp EXCEPT !.pc = "recheck", !.key.headers = sources] ELSE SIdle
  /\ UNCHANGED <<sources, descriptor, edits, commands, dirs, sealed, rp, dp, replayed, runs>>

\* The second snapshot, and the exclusive directory named by the manifest.
SealCreate ==
  /\ sp.pc = "recheck"
  /\ IF sources = sp.key.source /\ \A d \in dirs : d.key # sp.key
     THEN /\ dirs' = dirs \cup {[key |-> sp.key, leaves |-> 0, damaged |-> FALSE]}
          /\ sp' = [sp EXCEPT !.pc = "write"]
     ELSE dirs' = dirs /\ sp' = SIdle
  /\ UNCHANGED <<sources, descriptor, edits, commands, sealed, rp, dp, replayed, runs>>

_write_at ==
  /\ sp.pc = "write"
  /\ LET d == Dir(sp.key)
     IN /\ dirs' = (dirs \ {d}) \cup {[d EXCEPT !.leaves = @ + 1]}
        /\ sp' = IF d.leaves + 1 = Leaves THEN SIdle ELSE sp
        /\ sealed' = IF d.leaves + 1 = Leaves THEN sealed \cup {sp.key} ELSE sealed
  /\ UNCHANGED <<sources, descriptor, edits, commands, rp, dp, replayed, runs>>

-----------------------------------------------------------------------------
\* verify() and run_sealed().

\* The inventory is closed; the leaves are identified and read.
VerifyBegin(d) ==
  /\ rp.pc = "idle" /\ Command /\ d.leaves = Leaves
  /\ rp' = [RIdle EXCEPT !.pc = "reading", !.key = d.key, !.damaged = d.damaged]
  /\ UNCHANGED <<sources, descriptor, edits, dirs, sealed, sp, dp, replayed, runs>>

\* Nothing changed meanwhile, every digest agrees, the sources are the ones
\* the manifest names and the program is a valid image.
Verified ==
  /\ ~ rp.damaged /\ ~ Dir(rp.key).damaged
  /\ rp.key.source = sources
  /\ _valid_program_words(Program[rp.key.desc])
  /\ _profile_for(rp.key.desc)

VerifyEnd ==
  /\ rp.pc = "reading"
  /\ rp' = IF Verified THEN [rp EXCEPT !.pc = "open"] ELSE RIdle
  /\ UNCHANGED <<sources, descriptor, edits, commands, dirs, sealed, sp, dp, replayed, runs>>

\* A private directory with the verified bytes; the sources once more.
_materialize_verified_at ==
  /\ rp.pc = "open"
  /\ rp' = IF sources = rp.key.source THEN [rp EXCEPT !.pc = "runner"] ELSE RIdle
  /\ UNCHANGED <<sources, descriptor, edits, commands, dirs, sealed, sp, dp, replayed, runs>>

\* External: the runner copies the sources, builds and executes.
ReplayRunner(right) ==
  /\ rp.pc = "runner"
  /\ rp' = [rp EXCEPT !.pc = "after", !.built = sources,
                      !.output = IF right THEN Oracle(rp.key.desc, rp.key.seed) ELSE Wrong]
  /\ UNCHANGED <<sources, descriptor, edits, commands, dirs, sealed, sp, dp, replayed, runs>>

Mutant_expected_runner_source_manifest(key, built) == TRUE

\* What the runner says it compiled is what the bundle's manifest names.
_expected_runner_source_manifest(key, built) == built = key.source

\* Same directories, same sources, outputs equal to the sealed oracle.
_run_sealed_open ==
  /\ rp.pc = "after"
  /\ LET ok == /\ ~ rp.swapped /\ sources = rp.key.source
               /\ rp.output = Oracle(rp.key.desc, rp.key.seed)
               /\ _expected_runner_source_manifest(rp.key, rp.built)
     IN replayed' = IF ok THEN replayed \cup {[key |-> rp.key, built |-> rp.built,
                                              output |-> rp.output]}
                    ELSE replayed
  /\ rp' = RIdle
  /\ UNCHANGED <<sources, descriptor, edits, commands, dirs, sealed, sp, dp, runs>>

-----------------------------------------------------------------------------
\* _run_dynamic(): one request outside the catalogue, a pair whose first is in
\* it, or a private copy of a project's descriptor (run_snapshot).

Request(path, seed, copy) ==
  [path |-> path, seed |-> seed, copy |-> copy, desc |-> descriptor[path],
   named |-> descriptor[path], output |-> Wrong, simulator |-> 0]

run_dynamic(seed) ==
  /\ dp.pc = "idle" /\ Command
  /\ dp' = [DIdle EXCEPT !.pc = "load", !.todo = <<Request("own", seed, FALSE)>>]
  /\ UNCHANGED <<sources, descriptor, edits, dirs, sealed, sp, rp, replayed, runs>>

run_dynamic_pair(seed) ==
  /\ dp.pc = "idle" /\ Command
  /\ dp' = [DIdle EXCEPT !.pc = "load",
              !.todo = <<Request("cat", seed, FALSE), Request("own", seed, FALSE)>>]
  /\ UNCHANGED <<sources, descriptor, edits, dirs, sealed, sp, rp, replayed, runs>>

run_snapshot(seed) ==
  /\ dp.pc = "idle" /\ Command
  /\ dp' = [DIdle EXCEPT !.pc = "load",
              !.todo = <<Request("own", seed, TRUE)>>]
  /\ UNCHANGED <<sources, descriptor, edits, dirs, sealed, sp, rp, replayed, runs>>

\* prepare_request() loads and compiles the descriptor ...
prepare_request ==
  /\ dp.pc = "load" /\ dp.todo # <<>>
  /\ LET r == Head(dp.todo)
         d == IF r.copy THEN r.desc ELSE descriptor[r.path]
     IN dp' = IF _profile_for(d) /\ _request_admits(d)
              THEN [dp EXCEPT !.pc = "digest", !.todo = <<[r EXCEPT !.desc = d]>> \o Tail(@)]
              ELSE DIdle
  /\ UNCHANGED <<sources, descriptor, edits, commands, dirs, sealed, sp, rp, replayed, runs>>

\* ... and reads it again for the digest its metadata and receipt carry.
DigestDescriptor ==
  /\ dp.pc = "digest"
  /\ LET r == Head(dp.todo)
     IN dp' = [dp EXCEPT !.pc = IF Len(dp.todo) = 1 THEN "runner" ELSE "load",
                         !.todo = Tail(@),
                         !.done = Append(@, [r EXCEPT !.named =
                                              IF r.copy THEN r.named ELSE descriptor[r.path]])]
  /\ UNCHANGED <<sources, descriptor, edits, commands, dirs, sealed, sp, rp, replayed, runs>>

\* External: outputs and simulators of the requests.
DynamicRunner(right, one) ==
  /\ dp.pc = "runner"
  /\ LET answer(r, i) ==
           [r EXCEPT !.output = IF right \/ i > 1 THEN Oracle(r.desc, r.seed) ELSE Wrong,
                     !.simulator = IF one \/ i = 1 THEN sources ELSE 1 - sources]
     IN dp' = [dp EXCEPT !.pc = "check",
                         !.done = [i \in DOMAIN dp.done |-> answer(dp.done[i], i)]]
  /\ UNCHANGED <<sources, descriptor, edits, commands, dirs, sealed, sp, rp, replayed, runs>>

\* The marker's simulator and the output of the independent oracle, request by
\* request: the receipts before the first disagreement stay.
_run_dynamic ==
  /\ dp.pc = "check"
  /\ LET ok(i) == /\ dp.done[i].output = Oracle(dp.done[i].desc, dp.done[i].seed)
                  /\ dp.done[i].simulator = dp.done[1].simulator
     IN runs' = {dp.done[i] : i \in {j \in DOMAIN dp.done : \A k \in 1 .. j : ok(k)}}
  /\ dp' = DIdle
  /\ UNCHANGED <<sources, descriptor, edits, commands, dirs, sealed, sp, rp, replayed>>

-----------------------------------------------------------------------------
\* The surroundings.

EditTree ==
  /\ sources' = 1 - sources
  /\ UNCHANGED <<descriptor, commands, dirs, sealed, sp, rp, dp, replayed, runs>>

EditFile(path, d) ==
  /\ descriptor' = [descriptor EXCEPT ![path] = d]
  /\ UNCHANGED <<sources, commands, dirs, sealed, sp, rp, dp, replayed, runs>>

DamageBundle(d) ==
  /\ dirs' = (dirs \ {d}) \cup {[d EXCEPT !.damaged = TRUE]}
  /\ UNCHANGED <<sources, descriptor, commands, sealed, sp, rp, dp, replayed, runs>>

SwapSession ==
  /\ rp.pc \in {"runner", "after"} /\ rp' = [rp EXCEPT !.swapped = TRUE]
  /\ UNCHANGED <<sources, descriptor, commands, dirs, sealed, sp, dp, replayed, runs>>

EditAnything ==
  /\ edits < MaxEdits /\ edits' = edits + 1
  /\ \/ EditTree
     \/ \E p \in DescriptorPaths, d \in Descriptors : EditFile(p, d)
     \/ \E d \in dirs : DamageBundle(d)
     \/ SwapSession

KillCommand ==
  /\ \/ sp # SIdle /\ sp' = SIdle /\ UNCHANGED rp
     \/ rp # RIdle /\ rp' = RIdle /\ UNCHANGED sp
  /\ UNCHANGED <<sources, descriptor, edits, commands, dirs, sealed, dp, replayed, runs>>

SealNext ==
  \/ SealStart \/ \E p \in DescriptorPaths, s \in Seeds : SealRead(p, s)
  \/ SealCompile \/ SealCreate \/ _write_at
  \/ \E d \in dirs : VerifyBegin(d)
  \/ VerifyEnd \/ _materialize_verified_at
  \/ \E right \in BOOLEAN : ReplayRunner(right)
  \/ _run_sealed_open
  \/ \E s \in Seeds : run_dynamic(s) \/ run_dynamic_pair(s) \/ run_snapshot(s)
  \/ prepare_request \/ DigestDescriptor
  \/ \E right, one \in BOOLEAN : DynamicRunner(right, one)
  \/ _run_dynamic
  \/ EditAnything \/ KillCommand

SealSpec == SealInit /\ [][SealNext]_sealvars

-----------------------------------------------------------------------------
\* A replay receipt names a bundle whose sealing completed, with a valid
\* program of version 1 or 2, was executed by a simulator built from exactly
\* the sources the manifest names, and carries the output of the retained
\* descriptor for the retained seed; requests reported by one direct run used
\* one simulator, and a project's receipt names the descriptor it compiled.
ReplaySound ==
  /\ \A r \in replayed :
       /\ r.key \in sealed /\ _valid_program_words(Program[r.key.desc])
       /\ r.built = r.key.source
       /\ r.output = <<r.key.desc, r.key.seed>>
  /\ \A r \in runs : /\ r.output = <<r.desc, r.seed>> /\ (r.copy => r.named = r.desc)
                     /\ \A q \in runs : q.simulator = r.simulator

\* The comment of _source_snapshot: the sources a bundle names compiled it.
\* Not so of the code: the compiler is what the process imported before the
\* snapshot.
CompilerNamed == \A k \in sealed : k.by = k.source

\* The comment in seal(): headers generated from other sources are refused.
\* Not so of the code: a file replaced and put back leaves both snapshots
\* equal.
HeadersNamed == \A k \in sealed : k.headers = k.source

\* ADR-0078: the receipt binds the descriptor that was compiled. Not so of the
\* code: prepare_request reads the file a second time for its digest.
DescriptorNamed == \A r \in runs : r.named = r.desc
=============================================================================
