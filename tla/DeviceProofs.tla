---------------------------- MODULE DeviceProofs ----------------------------
(***************************************************************************)
(* The graph device, for every value of the constants.                     *)
(*   Sealed requests (DynamicSeal): a bundle is replayed only as what its  *)
(*     manifest names, for any programs, shapes and seeds.                 *)
(*   Evidence (DeviceEvidence): what a finalizer that was alone writes is  *)
(*     exactly its directory's, and what a presenter prints as PASS        *)
(*     belongs together, for any processes, commands, runs and edits.      *)
(***************************************************************************)
EXTENDS DynamicSeal, DeviceEvidence, SequenceTheorems, TLAPS

----------------------------------------------------------------------------
(* Sealed requests: a bundle whose last leaf is written is a sealed one, and *)
(* a replay that was let through stays with the bundle it verified.          *)

SealKeys ==
  [desc : Descriptors, seed : Seeds \cup {0}, source : Int, headers : Int, by : Int]
Bundles == [key : SealKeys, leaves : Nat, damaged : BOOLEAN]
Outputs == (Descriptors \X (Seeds \cup {0})) \cup {Wrong}
DynamicRequests ==
  [path : DescriptorPaths, seed : Seeds \cup {0}, copy : BOOLEAN, desc : Descriptors,
   named : Descriptors, output : Outputs, simulator : Int]

SealTypes ==
  /\ sources \in Int /\ descriptor \in [DescriptorPaths -> Descriptors]
  /\ dirs \subseteq Bundles
  /\ sp \in [pc : {"idle", "read", "compile", "recheck", "write"}, key : SealKeys]
  /\ rp \in [pc : {"idle", "reading", "open", "runner", "after"}, key : SealKeys,
             damaged : BOOLEAN, swapped : BOOLEAN, built : Int, output : Outputs]
  /\ dp \in [pc : {"idle", "load", "digest", "runner", "check"},
             todo : Seq(DynamicRequests), done : Seq(DynamicRequests)]
  /\ dp.pc = "digest" => dp.todo # <<>>

\* One directory for each key; it is sealed once its last leaf is there.
BundlesSound ==
  /\ \A d, e \in dirs : d.key = e.key => d = e
  /\ \A d \in dirs : d.leaves = Leaves => d.key \in sealed
  /\ sp.pc = "write" => \E d \in dirs : d.key = sp.key

ReplayerSound ==
  /\ rp.pc # "idle" => rp.key \in sealed
  /\ rp.pc \in {"open", "runner", "after"} => _valid_program_words(Program[rp.key.desc])

\* A project's private copy is not read again from anywhere else.
CopiesNamed(requests) ==
  \A i \in 1 .. Len(requests) : requests[i].copy => requests[i].named = requests[i].desc

ReplayInv ==
  /\ SealTypes /\ BundlesSound /\ ReplayerSound
  /\ CopiesNamed(dp.todo) /\ CopiesNamed(dp.done)
  /\ ReplaySound

LEMMA NoKeyTyped == ASSUME Descriptors # {} PROVE NoKey \in SealKeys
BY DEF NoKey, SealKeys

LEMMA RequestTyped ==
  ASSUME SealTypes, NEW path \in DescriptorPaths, NEW seed \in Seeds, NEW copy \in BOOLEAN
  PROVE  /\ Request(path, seed, copy) \in DynamicRequests
         /\ Request(path, seed, copy).named = Request(path, seed, copy).desc
BY DEF SealTypes, Request, DynamicRequests, Outputs

LEMMA ReplayInitially == SealInit => ReplayInv
<1> SUFFICES ASSUME SealInit PROVE ReplayInv
  OBVIOUS
<1>1. NoKey \in SealKeys
  BY NoKeyTyped DEF SealInit, DescriptorPaths
<1>2. SealTypes
  BY <1>1 DEF SealInit, SealTypes, SIdle, RIdle, DIdle, Outputs
<1>3. BundlesSound /\ ReplayerSound
  BY DEF SealInit, BundlesSound, ReplayerSound, SIdle, RIdle
<1>4. CopiesNamed(dp.todo) /\ CopiesNamed(dp.done)
  BY DEF SealInit, CopiesNamed, DIdle
<1>5. ReplaySound
  BY DEF SealInit, ReplaySound
<1>. QED BY <1>2, <1>3, <1>4, <1>5 DEF ReplayInv

\* A process that stops holds nothing.
LEMMA IdleTyped ==
  ASSUME SealTypes
  PROVE  /\ SIdle \in [pc : {"idle", "read", "compile", "recheck", "write"}, key : SealKeys]
         /\ RIdle \in [pc : {"idle", "reading", "open", "runner", "after"}, key : SealKeys,
                       damaged : BOOLEAN, swapped : BOOLEAN, built : Int, output : Outputs]
         /\ DIdle \in [pc : {"idle", "load", "digest", "runner", "check"},
                       todo : Seq(DynamicRequests), done : Seq(DynamicRequests)]
         /\ SIdle.pc = "idle" /\ RIdle.pc = "idle" /\ DIdle.pc = "idle"
         /\ CopiesNamed(DIdle.todo) /\ CopiesNamed(DIdle.done)
<1>1. NoKey \in SealKeys
  BY NoKeyTyped DEF SealTypes, DescriptorPaths
<1>. QED BY <1>1 DEF SIdle, RIdle, DIdle, Outputs, CopiesNamed

\* The steps of seal() that do not touch a bundle.
LEMMA SealsOn ==
  ASSUME ReplayInv, UNCHANGED <<sources, descriptor, dirs, sealed, rp, dp, replayed, runs>>,
         sp' \in [pc : {"idle", "read", "compile", "recheck", "write"}, key : SealKeys],
         sp'.pc # "write"
  PROVE  ReplayInv'
BY DEF ReplayInv, SealTypes, BundlesSound, ReplayerSound, CopiesNamed, ReplaySound

LEMMA SealerInv ==
  ASSUME ReplayInv, SealStart \/ (\E p \in DescriptorPaths, s \in Seeds : SealRead(p, s)) \/ SealCompile
  PROVE  ReplayInv'
<1>1. SealTypes
  BY DEF ReplayInv
<1>2. PICK stage, key : sp = [pc |-> stage, key |-> key] /\ key \in SealKeys
  BY <1>1 DEF SealTypes
<1>3. UNCHANGED <<sources, descriptor, dirs, sealed, rp, dp, replayed, runs>>
  BY DEF SealStart, SealRead, SealCompile
<1>4. \E k \in SealKeys : sp' \in {[pc |-> "read", key |-> k], [pc |-> "compile", key |-> k],
                                   [pc |-> "recheck", key |-> k], SIdle}
  <2>1. CASE SealStart
    <3>1. [key EXCEPT !.by = sources] \in SealKeys
      BY <1>1, <1>2 DEF SealTypes, SealKeys
    <3>2. sp' = [pc |-> "read", key |-> [key EXCEPT !.by = sources]]
      BY <1>2, <2>1 DEF SealStart
    <3>. QED BY <3>1, <3>2
  <2>2. ASSUME NEW p \in DescriptorPaths, NEW s \in Seeds, SealRead(p, s)
        PROVE  \E k \in SealKeys : sp' = [pc |-> "compile", key |-> k]
    <3>1. sp' = [pc |-> "compile", key |-> [desc |-> descriptor[p], seed |-> s, source |-> sources,
                                            headers |-> key.headers, by |-> key.by]]
      BY <1>2, <2>2 DEF SealRead, SealKeys
    <3>2. [desc |-> descriptor[p], seed |-> s, source |-> sources, headers |-> key.headers,
           by |-> key.by] \in SealKeys
      BY <1>1, <1>2 DEF SealTypes, SealKeys
    <3>. QED BY <3>1, <3>2
  <2>3. CASE SealCompile
    <3>1. [key EXCEPT !.headers = sources] \in SealKeys
      BY <1>1, <1>2 DEF SealTypes, SealKeys
    <3>2. sp' = SIdle \/ sp' = [pc |-> "recheck", key |-> [key EXCEPT !.headers = sources]]
      BY <1>2, <2>3 DEF SealCompile
    <3>. QED BY <3>1, <3>2
  <2>. QED BY <2>1, <2>2, <2>3
<1>. QED BY <1>1, <1>3, <1>4, IdleTyped, SealsOn

\* The directory is a new one, of this key alone.
LEMMA SealCreateInv == ASSUME ReplayInv, SealCreate PROVE ReplayInv'
<1>1. /\ SealTypes /\ UNCHANGED <<sources, descriptor, sealed, rp, dp, replayed, runs>>
  BY DEF ReplayInv, SealCreate
<1>2. CASE dirs' = dirs /\ sp' = SIdle
  BY <1>1, <1>2, IdleTyped, SealsOn
<1>3. CASE /\ \A d \in dirs : d.key # sp.key
           /\ dirs' = dirs \cup {[key |-> sp.key, leaves |-> 0, damaged |-> FALSE]}
           /\ sp' = [sp EXCEPT !.pc = "write"]
  <2>1. PICK key \in SealKeys : key = sp.key
    BY <1>1 DEF SealTypes
  <2>2. PICK new \in Bundles : new.key = key /\ new.leaves = 0
                              /\ new = [key |-> sp.key, leaves |-> 0, damaged |-> FALSE]
    BY <2>1 DEF Bundles
  <2>3. sp' = [pc |-> "write", key |-> key] /\ dirs' = dirs \cup {new}
        /\ \A d \in dirs : d.key # key
    BY <1>1, <1>3, <2>1, <2>2 DEF SealTypes
  <2>4. SealTypes'
    BY <1>1, <2>1, <2>2, <2>3 DEF SealTypes
  <2>5. BundlesSound'
    <3>1. \A d, e \in dirs' : d.key = e.key => d = e
      BY <2>2, <2>3 DEF ReplayInv, BundlesSound
    <3>2. \A d \in dirs' : d.leaves = Leaves => d.key \in sealed'
      BY <1>1, <2>2, <2>3 DEF ReplayInv, BundlesSound, Leaves
    <3>3. \E d \in dirs' : d.key = sp'.key
      BY <2>2, <2>3
    <3>. QED BY <3>1, <3>2, <3>3 DEF BundlesSound
  <2>. QED BY <1>1, <2>4, <2>5 DEF ReplayInv, ReplayerSound, CopiesNamed, ReplaySound
<1>. QED BY <1>2, <1>3 DEF SealCreate

\* A bundle changes and keeps its key.
LEMMA BundleChanges ==
  ASSUME ReplayInv, NEW d \in dirs, NEW e \in Bundles, e.key = d.key,
         dirs' = (dirs \ {d}) \cup {e}, sealed \subseteq sealed',
         e.leaves = Leaves => e.key \in sealed',
         UNCHANGED <<sources, descriptor, rp, dp, replayed, runs>>,
         sp' \in [pc : {"idle", "read", "compile", "recheck", "write"}, key : SealKeys],
         sp' = sp \/ sp'.pc = "idle"
  PROVE  ReplayInv'
<1>1. SealTypes'
  BY DEF ReplayInv, SealTypes
<1>2. BundlesSound'
  <2>1. \A b, c \in dirs' : b.key = c.key => b = c
    BY DEF ReplayInv, BundlesSound
  <2>2. \A b \in dirs' : b.leaves = Leaves => b.key \in sealed'
    BY DEF ReplayInv, BundlesSound
  <2>3. sp'.pc = "write" => \E b \in dirs' : b.key = sp'.key
    BY DEF ReplayInv, BundlesSound
  <2>. QED BY <2>1, <2>2, <2>3 DEF BundlesSound
<1>. QED BY <1>1, <1>2 DEF ReplayInv, ReplayerSound, CopiesNamed, ReplaySound

LEMMA WriteAtInv == ASSUME ReplayInv, _write_at PROVE ReplayInv'
<1>1. SealTypes /\ BundlesSound /\ sp.pc = "write"
  BY DEF ReplayInv, _write_at
<1>2. PICK d \in dirs : d.key = sp.key
  BY <1>1 DEF BundlesSound
<1>3. Dir(sp.key) = d
  BY <1>1, <1>2 DEF Dir, BundlesSound
<1>4. PICK e : e = [d EXCEPT !.leaves = @ + 1]
  OBVIOUS
<1>5. e \in Bundles /\ e.key = d.key /\ e.leaves = d.leaves + 1
  <2>1. PICK k \in SealKeys, n \in Nat, b \in BOOLEAN : d = [key |-> k, leaves |-> n, damaged |-> b]
    BY <1>1 DEF SealTypes, Bundles
  <2>2. e = [key |-> k, leaves |-> n + 1, damaged |-> b]
    BY <1>4, <2>1
  <2>. QED BY <2>1, <2>2 DEF Bundles
<1>6. /\ dirs' = (dirs \ {d}) \cup {e}
      /\ sp' = (IF d.leaves + 1 = Leaves THEN SIdle ELSE sp)
      /\ sealed' = (IF d.leaves + 1 = Leaves THEN sealed \cup {sp.key} ELSE sealed)
      /\ UNCHANGED <<sources, descriptor, rp, dp, replayed, runs>>
  BY <1>3, <1>4 DEF _write_at
<1>7. sp' \in [pc : {"idle", "read", "compile", "recheck", "write"}, key : SealKeys]
      /\ (sp' = sp \/ sp'.pc = "idle")
  BY <1>1, <1>6, IdleTyped DEF SealTypes
<1>8. sealed \subseteq sealed' /\ (e.leaves = Leaves => e.key \in sealed')
  BY <1>2, <1>5, <1>6
<1>. QED BY <1>5, <1>6, <1>7, <1>8, BundleChanges

\* The replaying process goes on with the bundle it began with.
LEMMA ReplaysOn ==
  ASSUME ReplayInv, UNCHANGED <<sources, descriptor, dirs, sealed, sp, dp, replayed, runs>>,
         rp' \in [pc : {"idle", "reading", "open", "runner", "after"}, key : SealKeys,
                  damaged : BOOLEAN, swapped : BOOLEAN, built : Int, output : Outputs],
         rp'.pc # "idle" => rp'.key \in sealed,
         rp'.pc \in {"open", "runner", "after"} => _valid_program_words(Program[rp'.key.desc])
  PROVE  ReplayInv'
BY DEF ReplayInv, SealTypes, BundlesSound, ReplayerSound, CopiesNamed, ReplaySound

LEMMA ReplayStepsInv ==
  ASSUME ReplayInv,
         \/ \E d \in dirs : VerifyBegin(d)
         \/ VerifyEnd \/ _materialize_verified_at \/ \E right \in BOOLEAN : ReplayRunner(right)
  PROVE  ReplayInv'
<1>1. SealTypes /\ BundlesSound /\ ReplayerSound
  BY DEF ReplayInv
<1>2. UNCHANGED <<sources, descriptor, dirs, sealed, sp, dp, replayed, runs>>
  BY DEF VerifyBegin, VerifyEnd, _materialize_verified_at, ReplayRunner
<1>3. ASSUME NEW d \in dirs, VerifyBegin(d) PROVE ReplayInv'
  <2>1. rp' = [pc |-> "reading", key |-> d.key, damaged |-> d.damaged, swapped |-> FALSE,
               built |-> 0, output |-> Wrong]
    BY <1>3 DEF VerifyBegin, RIdle
  <2>2. d.key \in sealed /\ d.key \in SealKeys /\ d.damaged \in BOOLEAN
    BY <1>1, <1>3 DEF VerifyBegin, BundlesSound, SealTypes, Bundles
  <2>. QED BY <1>2, <2>1, <2>2, ReplaysOn DEF Outputs
<1>4. CASE rp' = RIdle
  BY <1>1, <1>2, <1>4, IdleTyped, ReplaysOn
<1>5. CASE VerifyEnd /\ rp' # RIdle
  <2>1. rp' = [rp EXCEPT !.pc = "open"] /\ rp.pc = "reading"
        /\ _valid_program_words(Program[rp.key.desc])
    BY <1>5 DEF VerifyEnd, Verified
  <2>. QED BY <1>1, <1>2, <2>1, ReplaysOn DEF SealTypes, ReplayerSound
<1>6. CASE _materialize_verified_at /\ rp' # RIdle
  <2>1. rp' = [rp EXCEPT !.pc = "runner"] /\ rp.pc = "open"
    BY <1>6 DEF _materialize_verified_at
  <2>. QED BY <1>1, <1>2, <2>1, ReplaysOn DEF SealTypes, ReplayerSound
<1>7. ASSUME NEW right \in BOOLEAN, ReplayRunner(right) PROVE ReplayInv'
  <2>1. PICK output : output = IF right THEN Oracle(rp.key.desc, rp.key.seed) ELSE Wrong
    OBVIOUS
  <2>2. output \in Outputs
    BY <1>1, <2>1 DEF SealTypes, SealKeys, Outputs, Oracle
  <2>3. rp' = [pc |-> "after", key |-> rp.key, damaged |-> rp.damaged, swapped |-> rp.swapped,
               built |-> sources, output |-> output] /\ rp.pc = "runner"
    BY <1>1, <1>7, <2>1 DEF ReplayRunner, SealTypes
  <2>4. /\ sources \in Int /\ rp.key \in SealKeys /\ rp.damaged \in BOOLEAN /\ rp.swapped \in BOOLEAN
        /\ rp.key \in sealed /\ _valid_program_words(Program[rp.key.desc])
    BY <1>1, <2>3 DEF SealTypes, ReplayerSound
  <2>. QED BY <1>2, <2>2, <2>3, <2>4, ReplaysOn
<1>. QED BY <1>3, <1>4, <1>5, <1>6, <1>7

\* A receipt is of what was verified, run by what the bundle names.
LEMMA RunSealedInv == ASSUME ReplayInv, _run_sealed_open PROVE ReplayInv'
<1>1. SealTypes /\ ReplayerSound /\ ReplaySound /\ rp.pc = "after"
  BY DEF ReplayInv, _run_sealed_open
<1>2. /\ rp' = RIdle /\ UNCHANGED <<sources, descriptor, dirs, sealed, sp, dp, runs>>
      /\ \/ UNCHANGED replayed
         \/ /\ replayed' = replayed \cup {[key |-> rp.key, built |-> rp.built, output |-> rp.output]}
            /\ rp.output = Oracle(rp.key.desc, rp.key.seed) /\ rp.built = rp.key.source
  BY DEF _run_sealed_open, _expected_runner_source_manifest
<1>3. rp.key \in sealed /\ _valid_program_words(Program[rp.key.desc])
  BY <1>1 DEF ReplayerSound
<1>4. ReplaySound'
  BY <1>1, <1>2, <1>3 DEF ReplaySound, Oracle
<1>. QED BY <1>1, <1>2, <1>4, IdleTyped DEF ReplayInv, SealTypes, BundlesSound, ReplayerSound, CopiesNamed

\* The direct process goes on: nothing else moves.
LEMMA DirectGoesOn ==
  ASSUME ReplayInv, UNCHANGED <<sources, descriptor, dirs, sealed, sp, rp, replayed, runs>>,
         dp' \in [pc : {"idle", "load", "digest", "runner", "check"},
                  todo : Seq(DynamicRequests), done : Seq(DynamicRequests)],
         dp'.pc = "digest" => dp'.todo # <<>>,
         CopiesNamed(dp'.todo), CopiesNamed(dp'.done)
  PROVE  ReplayInv'
BY DEF ReplayInv, SealTypes, BundlesSound, ReplayerSound, CopiesNamed, ReplaySound

\* What one command asks for is typed, and a copy is named by its descriptor.
LEMMA DirectStarts ==
  ASSUME ReplayInv, NEW seed \in Seeds,
         run_dynamic(seed) \/ run_dynamic_pair(seed) \/ run_snapshot(seed)
  PROVE  ReplayInv'
<1>1. SealTypes /\ UNCHANGED <<sources, descriptor, dirs, sealed, sp, rp, replayed, runs>>
  BY DEF ReplayInv, run_dynamic, run_dynamic_pair, run_snapshot
<1>2. PICK own \in DynamicRequests : own = Request("own", seed, FALSE) /\ own.named = own.desc
  BY <1>1, RequestTyped DEF DescriptorPaths
<1>3. PICK cat \in DynamicRequests : cat = Request("cat", seed, FALSE) /\ cat.named = cat.desc
  BY <1>1, RequestTyped DEF DescriptorPaths
<1>4. PICK copy \in DynamicRequests : copy = Request("own", seed, TRUE) /\ copy.named = copy.desc
  BY <1>1, RequestTyped DEF DescriptorPaths
<1>5. PICK asked \in {<<own>>, <<cat, own>>, <<copy>>} :
        dp' = [pc |-> "load", todo |-> asked, done |-> <<>>]
  BY <1>2, <1>3, <1>4 DEF run_dynamic, run_dynamic_pair, run_snapshot, DIdle
<1>6. asked \in Seq(DynamicRequests) /\ CopiesNamed(asked)
  <2>1. asked \in Seq(DynamicRequests)
    <3>1. CASE asked = <<own>>
      BY <3>1
    <3>2. CASE asked = <<cat, own>>
      BY <3>2
    <3>3. CASE asked = <<copy>>
      BY <3>3
    <3>. QED BY <1>5, <3>1, <3>2, <3>3
  <2>2. \A i \in 1 .. Len(asked) : asked[i] \in {own, cat, copy}
    <3>1. CASE asked = <<own>>
      BY <3>1
    <3>2. CASE asked = <<cat, own>>
      BY <3>2
    <3>3. CASE asked = <<copy>>
      BY <3>3
    <3>. QED BY <1>5, <3>1, <3>2, <3>3
  <2>3. \A r \in {own, cat, copy} : r.named = r.desc
    BY <1>2, <1>3, <1>4
  <2>. QED BY <2>1, <2>2, <2>3 DEF CopiesNamed
<1>7. CopiesNamed(<<>>)
  BY DEF CopiesNamed
<1>. QED BY <1>1, <1>5, <1>6, <1>7, DirectGoesOn

LEMMA PrepareInv == ASSUME ReplayInv, prepare_request PROVE ReplayInv'
<1>1. /\ SealTypes /\ CopiesNamed(dp.todo) /\ CopiesNamed(dp.done)
      /\ UNCHANGED <<sources, descriptor, dirs, sealed, sp, rp, replayed, runs>>
      /\ dp.todo # <<>>
  BY DEF ReplayInv, prepare_request
<1>2. PICK asks \in Seq(DynamicRequests), done \in Seq(DynamicRequests) :
        asks = dp.todo /\ done = dp.done
  BY <1>1 DEF SealTypes
<1>3. PICK r \in DynamicRequests : r = Head(asks)
  BY <1>1, <1>2
<1>4. PICK d \in Descriptors : d = IF r.copy THEN r.desc ELSE descriptor[r.path]
  BY <1>1, <1>3 DEF SealTypes, DynamicRequests
<1>5. PICK q \in DynamicRequests : q = [r EXCEPT !.desc = d]
  BY <1>3, <1>4 DEF DynamicRequests
<1>6. r.copy => r.named = r.desc
  BY <1>1, <1>2, <1>3 DEF CopiesNamed
<1>7. q.copy => q.named = q.desc
  BY <1>3, <1>4, <1>5, <1>6 DEF DynamicRequests
<1>8. PICK asked : asked = <<q>> \o Tail(asks)
  OBVIOUS
<1>9. Tail(asks) \in Seq(DynamicRequests) /\ Len(Tail(asks)) = Len(asks) - 1
      /\ \A i \in 1 .. Len(Tail(asks)) : Tail(asks)[i] = asks[i + 1]
  BY <1>1, <1>2
<1>10. /\ asked \in Seq(DynamicRequests) /\ Len(asked) = Len(asks) /\ asked[1] = q
       /\ \A i \in 2 .. Len(asks) : asked[i] = asks[i]
  BY <1>1, <1>2, <1>8, <1>9
<1>11. CopiesNamed(asked)
  BY <1>1, <1>2, <1>7, <1>10 DEF CopiesNamed
<1>12. dp' = DIdle \/ dp' = [pc |-> "digest", todo |-> asked, done |-> done]
  <2>1. dp' = DIdle \/ dp' = [dp EXCEPT !.pc = "digest",
                                        !.todo = <<[Head(dp.todo) EXCEPT !.desc =
                                           IF Head(dp.todo).copy THEN Head(dp.todo).desc
                                           ELSE descriptor[Head(dp.todo).path]]>> \o Tail(@)]
    BY DEF prepare_request
  <2>2. dp' = DIdle \/ dp' = [dp EXCEPT !.pc = "digest", !.todo = asked]
    BY <1>2, <1>3, <1>4, <1>5, <1>8, <2>1
  <2>. QED BY <1>1, <1>2, <2>2 DEF SealTypes
<1>13. CASE dp' = DIdle
  BY <1>1, <1>13, IdleTyped, DirectGoesOn
<1>14. CASE dp' = [pc |-> "digest", todo |-> asked, done |-> done]
  BY <1>1, <1>2, <1>10, <1>11, <1>14, DirectGoesOn
<1>. QED BY <1>12, <1>13, <1>14

LEMMA DigestInv == ASSUME ReplayInv, DigestDescriptor PROVE ReplayInv'
<1>1. /\ SealTypes /\ CopiesNamed(dp.todo) /\ CopiesNamed(dp.done)
      /\ UNCHANGED <<sources, descriptor, dirs, sealed, sp, rp, replayed, runs>>
      /\ dp.todo # <<>>
  BY DEF ReplayInv, SealTypes, DigestDescriptor
<1>2. PICK asks \in Seq(DynamicRequests), done \in Seq(DynamicRequests) :
        asks = dp.todo /\ done = dp.done
  BY <1>1 DEF SealTypes
<1>3. PICK r \in DynamicRequests : r = Head(asks)
  BY <1>1, <1>2
<1>4. PICK d \in Descriptors : d = IF r.copy THEN r.named ELSE descriptor[r.path]
  BY <1>1, <1>3 DEF SealTypes, DynamicRequests
<1>5. PICK q \in DynamicRequests : q = [r EXCEPT !.named = d]
  BY <1>3, <1>4 DEF DynamicRequests
<1>6. r.copy => r.named = r.desc
  BY <1>1, <1>2, <1>3 DEF CopiesNamed
<1>7. q.copy => q.named = q.desc
  BY <1>3, <1>4, <1>5, <1>6 DEF DynamicRequests
<1>8. PICK left : left = Tail(asks)
  OBVIOUS
<1>9. left \in Seq(DynamicRequests) /\ Len(left) = Len(asks) - 1
      /\ \A i \in 1 .. Len(left) : left[i] = asks[i + 1]
  BY <1>1, <1>2, <1>8
<1>10. PICK made : made = Append(done, q)
  OBVIOUS
<1>11. made \in Seq(DynamicRequests) /\ CopiesNamed(left) /\ CopiesNamed(made)
  <2>1. CopiesNamed(left)
    BY <1>1, <1>2, <1>9 DEF CopiesNamed
  <2>2. made \in Seq(DynamicRequests) /\ Len(made) = Len(done) + 1 /\ made[Len(made)] = q
        /\ \A i \in 1 .. Len(done) : made[i] = done[i]
    BY <1>2, <1>5, <1>10
  <2>3. CopiesNamed(made)
    BY <1>1, <1>2, <1>7, <2>2 DEF CopiesNamed
  <2>. QED BY <2>1, <2>2, <2>3
<1>12. PICK stage \in {"runner", "load"} : dp' = [pc |-> stage, todo |-> left, done |-> made]
  <2>1. PICK stage \in {"runner", "load"} :
          dp' = [dp EXCEPT !.pc = stage, !.todo = Tail(@),
                 !.done = Append(@, [Head(dp.todo) EXCEPT !.named =
                                       IF Head(dp.todo).copy THEN Head(dp.todo).named
                                       ELSE descriptor[Head(dp.todo).path]])]
    BY DEF DigestDescriptor
  <2>2. dp' = [dp EXCEPT !.pc = stage, !.todo = left, !.done = made]
    BY <1>2, <1>3, <1>4, <1>5, <1>8, <1>10, <2>1
  <2>. QED BY <1>1, <1>2, <2>2 DEF SealTypes
<1>. QED BY <1>1, <1>9, <1>11, <1>12, DirectGoesOn

\* Whatever the external runner answers, the requests stay what they were.
LEMMA RunnerInv ==
  ASSUME ReplayInv, NEW right \in BOOLEAN, NEW one \in BOOLEAN, DynamicRunner(right, one)
  PROVE  ReplayInv'
<1>1. /\ SealTypes /\ CopiesNamed(dp.todo) /\ CopiesNamed(dp.done)
      /\ UNCHANGED <<sources, descriptor, dirs, sealed, sp, rp, replayed, runs>>
  BY DEF ReplayInv, DynamicRunner
<1>2. PICK asks \in Seq(DynamicRequests), done \in Seq(DynamicRequests) :
        asks = dp.todo /\ done = dp.done
  BY <1>1 DEF SealTypes
<1> DEFINE Output(i) == IF right \/ i > 1 THEN Oracle(done[i].desc, done[i].seed) ELSE Wrong
           Simulator(i) == IF one \/ i = 1 THEN sources ELSE 1 - sources
           Answered(i) == [done[i] EXCEPT !.output = Output(i), !.simulator = Simulator(i)]
<1>3. PICK made : made = [i \in 1 .. Len(done) |-> Answered(i)]
  OBVIOUS
<1>4. dp' = [pc |-> "check", todo |-> asks, done |-> made]
  <2>. DOMAIN done = 1 .. Len(done)
    BY <1>2
  <2>1. dp' = [dp EXCEPT !.pc = "check", !.done = made]
    BY <1>2, <1>3, Zenon DEF DynamicRunner
  <2>. QED BY <1>1, <1>2, <2>1 DEF SealTypes
<1>5. ASSUME NEW i \in 1 .. Len(done)
      PROVE  Answered(i) \in DynamicRequests /\ (Answered(i).copy => Answered(i).named = Answered(i).desc)
  <2>1. PICK r \in DynamicRequests : r = done[i]
    BY <1>2
  <2>2. r.copy => r.named = r.desc
    BY <1>1, <1>2, <2>1 DEF CopiesNamed
  <2>6. r.desc \in Descriptors /\ r.seed \in Seeds \cup {0}
    BY DEF DynamicRequests
  <2>7. Output(i) \in {<<r.desc, r.seed>>, Wrong} /\ Simulator(i) \in {sources, 1 - sources}
    BY <2>1 DEF Oracle
  <2>8. Output(i) \in Outputs
    BY <2>6, <2>7 DEF Outputs
  <2>9. Simulator(i) \in Int
    BY <1>1, <2>7 DEF SealTypes
  <2>3. PICK o \in Outputs, s \in Int : o = Output(i) /\ s = Simulator(i)
    BY <2>8, <2>9
  <2>4. Answered(i) = [path |-> r.path, seed |-> r.seed, copy |-> r.copy, desc |-> r.desc,
                       named |-> r.named, output |-> o, simulator |-> s]
    <3>1. Answered(i) = [r EXCEPT !.output = o, !.simulator = s]
      BY <2>1, <2>3
    <3>2. r \in [path : DescriptorPaths, seed : Seeds \cup {0}, copy : BOOLEAN, desc : Descriptors,
                 named : Descriptors, output : Outputs, simulator : Int]
      BY DEF DynamicRequests
    <3> HIDE DEF Answered
    <3>. QED BY <3>1, <3>2
  <2>5. /\ r.path \in DescriptorPaths /\ r.seed \in Seeds \cup {0} /\ r.copy \in BOOLEAN
        /\ r.desc \in Descriptors /\ r.named \in Descriptors
    BY DEF DynamicRequests
  <2> HIDE DEF Answered
  <2>. QED BY <2>2, <2>3, <2>4, <2>5 DEF DynamicRequests
<1> HIDE DEF Answered
<1>6. made \in Seq(DynamicRequests) /\ CopiesNamed(made)
  BY <1>2, <1>3, <1>5 DEF CopiesNamed
<1>. QED BY <1>1, <1>2, <1>4, <1>6, DirectGoesOn

\* The receipts of one direct run agree with the oracle and with each other.
LEMMA DirectRunInv == ASSUME ReplayInv, _run_dynamic PROVE ReplayInv'
<1>1. /\ SealTypes /\ CopiesNamed(dp.done) /\ ReplaySound
      /\ UNCHANGED <<sources, descriptor, dirs, sealed, sp, rp, replayed>> /\ dp' = DIdle
  BY DEF ReplayInv, _run_dynamic
<1>2. PICK done \in Seq(DynamicRequests) : done = dp.done
  BY <1>1 DEF SealTypes
<1>3. ASSUME NEW r \in runs'
      PROVE  /\ r.output = <<r.desc, r.seed>> /\ (r.copy => r.named = r.desc)
             /\ r.simulator = done[1].simulator
  <2>1. PICK i \in 1 .. Len(done) :
          r = done[i] /\ \A k \in 1 .. i : /\ done[k].output = Oracle(done[k].desc, done[k].seed)
                                           /\ done[k].simulator = done[1].simulator
    BY <1>2, <1>3 DEF _run_dynamic
  <2>. QED BY <1>1, <1>2, <2>1 DEF Oracle, CopiesNamed
<1>4. ReplaySound'
  BY <1>1, <1>3 DEF ReplaySound
<1>5. SealTypes' /\ CopiesNamed(dp'.todo) /\ CopiesNamed(dp'.done)
  BY <1>1, IdleTyped DEF SealTypes
<1>6. BundlesSound' /\ ReplayerSound'
  BY <1>1 DEF ReplayInv, BundlesSound, ReplayerSound
<1>7. CopiesNamed(dp.todo)' /\ CopiesNamed(dp.done)'
  BY <1>5 DEF CopiesNamed
<1>. QED BY <1>4, <1>5, <1>6, <1>7 DEF ReplayInv

\* Somebody edits the sources, a descriptor, a bundle or the open session.
LEMMA EditAnythingInv == ASSUME ReplayInv, EditAnything PROVE ReplayInv'
<1>1. SealTypes /\ BundlesSound /\ ReplayerSound
  BY DEF ReplayInv
<1>2. CASE EditTree
  BY <1>1, <1>2 DEF EditTree, ReplayInv, SealTypes, BundlesSound, ReplayerSound, CopiesNamed, ReplaySound
<1>3. ASSUME NEW p \in DescriptorPaths, NEW d \in Descriptors, EditFile(p, d) PROVE ReplayInv'
  BY <1>1, <1>3 DEF EditFile, ReplayInv, SealTypes, BundlesSound, ReplayerSound, CopiesNamed, ReplaySound
<1>4. ASSUME NEW d \in dirs, DamageBundle(d) PROVE ReplayInv'
  <2>1. PICK e : e = [d EXCEPT !.damaged = TRUE]
    OBVIOUS
  <2>2. e \in Bundles /\ e.key = d.key /\ e.leaves = d.leaves
    BY <1>1, <2>1 DEF SealTypes, Bundles
  <2>3. e.leaves = Leaves => e.key \in sealed'
    BY <1>1, <1>4, <2>2 DEF BundlesSound, DamageBundle
  <2>4. /\ dirs' = (dirs \ {d}) \cup {e} /\ sp' = sp /\ sealed' = sealed
        /\ UNCHANGED <<sources, descriptor, rp, dp, replayed, runs>>
    BY <1>4, <2>1 DEF DamageBundle
  <2>. QED BY <1>1, <2>2, <2>3, <2>4, BundleChanges DEF SealTypes
<1>5. CASE SwapSession
  <2>1. rp' = [rp EXCEPT !.swapped = TRUE]
        /\ UNCHANGED <<sources, descriptor, dirs, sealed, sp, dp, replayed, runs>>
    BY <1>5 DEF SwapSession
  <2>. QED BY <1>1, <2>1, ReplaysOn DEF SealTypes, ReplayerSound
<1>. QED BY <1>2, <1>3, <1>4, <1>5 DEF EditAnything

LEMMA KillCommandInv == ASSUME ReplayInv, KillCommand PROVE ReplayInv'
<1>1. SealTypes /\ UNCHANGED <<sources, descriptor, dirs, sealed, dp, replayed, runs>>
  BY DEF ReplayInv, KillCommand
<1>2. CASE sp' = SIdle /\ UNCHANGED rp
  BY <1>1, <1>2, IdleTyped, SealsOn
<1>3. CASE rp' = RIdle /\ UNCHANGED sp
  BY <1>1, <1>3, IdleTyped, ReplaysOn
<1>. QED BY <1>2, <1>3 DEF KillCommand

LEMMA ReplayKept == ReplayInv /\ [SealNext]_sealvars => ReplayInv'
<1> SUFFICES ASSUME ReplayInv, [SealNext]_sealvars PROVE ReplayInv'
  OBVIOUS
<1>1. CASE SealStart \/ (\E p \in DescriptorPaths, s \in Seeds : SealRead(p, s)) \/ SealCompile
  BY <1>1, SealerInv
<1>2. CASE SealCreate \/ _write_at
  BY <1>2, SealCreateInv, WriteAtInv
<1>3. CASE \/ \E d \in dirs : VerifyBegin(d)
           \/ VerifyEnd \/ _materialize_verified_at \/ \E right \in BOOLEAN : ReplayRunner(right)
  BY <1>3, ReplayStepsInv
<1>4. CASE _run_sealed_open
  BY <1>4, RunSealedInv
<1>5. CASE \E s \in Seeds : run_dynamic(s) \/ run_dynamic_pair(s) \/ run_snapshot(s)
  BY <1>5, DirectStarts
<1>6. CASE prepare_request \/ DigestDescriptor
  BY <1>6, PrepareInv, DigestInv
<1>7. CASE \E right, one \in BOOLEAN : DynamicRunner(right, one)
  BY <1>7, RunnerInv
<1>8. CASE _run_dynamic
  BY <1>8, DirectRunInv
<1>9. CASE EditAnything \/ KillCommand
  BY <1>9, EditAnythingInv, KillCommandInv
<1>10. CASE UNCHANGED sealvars
  BY <1>10 DEF sealvars, ReplayInv, SealTypes, BundlesSound, ReplayerSound, CopiesNamed, ReplaySound
<1>. QED BY <1>1, <1>2, <1>3, <1>4, <1>5, <1>6, <1>7, <1>8, <1>9, <1>10 DEF SealNext

\* graph_device_dynamic_sealed.py replays a bundle only after its last leaf was
\* written, with the program and the sources its manifest names, whatever is
\* edited, damaged, swapped or killed between two of its reads;
\* graph_device_dynamic.py reports requests of one simulator that agree with
\* the oracle, and a project's receipt names the descriptor it compiled.
THEOREM ReplayIsSound == SealSpec => []ReplaySound
<1>1. ReplayInv => ReplaySound
  BY DEF ReplayInv
<1>. QED BY <1>1, ReplayInitially, ReplayKept, PTL DEF SealSpec

-----------------------------------------------------------------------------
(* Evidence directories.                                                     *)

\* The operations that scripts are made of.
FileVerbs == {"put", "check", "again", "shown", "equal", "bound", "name", "verify", "copy"}
Verbs == FileVerbs \union
  {"empty", "ready", "admit", "lower", "lower_again", "exists", "create", "exclusive", "write",
   "receipt", "same", "asked", "second", "one_simulator", "finalize_copy", "report"}
Operations == {o \in [do : Verbs, file : Files \union {"none"}] :
                 o.do \in FileVerbs => o.file \in Files}

Digests == {"none", "v0", "v1", "right", "right1", "wrong", "s0", "s1"}
Contents == [Files -> Digests]
Requested == Requests \union {"none"}
Presenters == {"playable", "run", "run_request", "run_pair"}
Commands == Kinds \union Presenters \union {"idle", "simulate", "finalize"}

DirectoryRecord == [kind : Kinds \union {"none"}, request : Requested, files : Contents,
                    traffic : BOOLEAN, marker : Digests, ready : BOOLEAN]
ReceiptRecord == [state : {"absent", "torn", "whole"}, request : Requested, body : Contents,
                  lower : Contents, quiet : BOOLEAN]
CommandRecord == [op : Commands, dir : EvidenceDirs, layer : Layers \union {"none"},
                  asked : Seq(Requested), todo : Seq(Operations), checked : Contents,
                  named : Contents, lower : Contents, body : Contents, first : Contents,
                  quiet : BOOLEAN, put : Contents]

EvidenceTypeOK ==
  /\ ver \in {"v0", "v1"}
  /\ evidence \in [EvidenceDirs -> DirectoryRecord]
  /\ receipts \in [EvidenceDirs -> [Layers -> ReceiptRecord]]
  /\ procs \in [Procs -> CommandRecord]

\* What is left of a command is the end of its script.
Script(c) == CASE c.op = "simulate" -> SimulatorRun
               [] c.op = "finalize" -> FinalizerOf(c.layer)
               [] c.op = "playable" -> Playable
               [] c.op = "run" -> run
               [] c.op = "run_request" -> _run_axi4lite_request
               [] c.op = "run_pair" -> run_pair
               [] OTHER -> PrepareOf(c.op)
Steps(c) == Len(Script(c)) - Len(c.todo)

OnScript(c) ==
  c.todo # <<>> =>
    /\ c.op # "idle" /\ Steps(c) \in Nat
    /\ \A i \in 1 .. Len(c.todo) : c.todo[i] = Script(c)[Steps(c) + i]
    /\ c.op \in Presenters \union {"finalize"} => c.layer \in Layers
    /\ c.op \in Kinds \union {"run", "run_request"} => Len(c.asked) = 1
    /\ c.op = "run_pair" => Len(c.asked) = 2

-----------------------------------------------------------------------------
\* The scripts, written out.

LEMMA Join_3_2 ==
  \A e1, e2, e3, e4, e5 :
    <<e1, e2, e3>> \o <<e4, e5>>
      = <<e1, e2, e3, e4, e5>>
<1>. SUFFICES ASSUME NEW e1, NEW e2, NEW e3, NEW e4, NEW e5
              PROVE  <<e1, e2, e3>> \o <<e4, e5>>
                     = <<e1, e2, e3, e4, e5>>
  OBVIOUS
<1>. DEFINE S == {e1, e2, e3, e4, e5}
            joined == <<e1, e2, e3>> \o <<e4, e5>>
            flat == <<e1, e2, e3, e4, e5>>
<1>1. e1 \in S /\ e2 \in S /\ e3 \in S /\ e4 \in S /\ e5 \in S
  OBVIOUS
<1>. HIDE DEF S
<1>2. joined \in Seq(S) /\ flat \in Seq(S) /\ Len(joined) = 5 /\ Len(flat) = 5
  BY <1>1
<1>3. \A i \in 1 .. 5 : joined[i] = flat[i]
  BY <1>1
<1>. QED BY <1>2, <1>3, SeqEqual

LEMMA At_SchedulePrepare ==
  SchedulePrepare =
    <<Do("empty"), On("put", "artifact"), On("put", "oracle"), On("put", "artifact"), Do("ready")>>
  BY Join_3_2 DEF SchedulePrepare, prepare, Do, On

LEMMA Join_3_3 ==
  \A e1, e2, e3, e4, e5, e6 :
    <<e1, e2, e3>> \o <<e4, e5, e6>>
      = <<e1, e2, e3, e4, e5, e6>>
<1>. SUFFICES ASSUME NEW e1, NEW e2, NEW e3, NEW e4, NEW e5, NEW e6
              PROVE  <<e1, e2, e3>> \o <<e4, e5, e6>>
                     = <<e1, e2, e3, e4, e5, e6>>
  OBVIOUS
<1>. DEFINE S == {e1, e2, e3, e4, e5, e6}
            joined == <<e1, e2, e3>> \o <<e4, e5, e6>>
            flat == <<e1, e2, e3, e4, e5, e6>>
<1>1. e1 \in S /\ e2 \in S /\ e3 \in S /\ e4 \in S /\ e5 \in S /\ e6 \in S
  OBVIOUS
<1>. HIDE DEF S
<1>2. joined \in Seq(S) /\ flat \in Seq(S) /\ Len(joined) = 6 /\ Len(flat) = 6
  BY <1>1
<1>3. \A i \in 1 .. 6 : joined[i] = flat[i]
  BY <1>1
<1>. QED BY <1>2, <1>3, SeqEqual

LEMMA At_AffinePrepare ==
  AffinePrepare =
    <<Do("empty"), On("put", "artifact"), On("put", "oracle"), On("put", "artifact"),
    On("put", "oracle"), Do("ready")>>
  BY Join_3_3 DEF AffinePrepare, prepare, Do, On

LEMMA At_DagPrepare ==
  DagPrepare =
    <<Do("empty"), On("put", "artifact"), On("put", "oracle"), On("put", "artifact"),
    On("put", "oracle"), Do("ready")>>
  BY Join_3_3 DEF DagPrepare, prepare, Do, On

LEMMA Join_1_6 ==
  \A e1, e2, e3, e4, e5, e6, e7 :
    <<e1>> \o <<e2, e3, e4, e5, e6, e7>>
      = <<e1, e2, e3, e4, e5, e6, e7>>
<1>. SUFFICES ASSUME NEW e1, NEW e2, NEW e3, NEW e4, NEW e5, NEW e6, NEW e7
              PROVE  <<e1>> \o <<e2, e3, e4, e5, e6, e7>>
                     = <<e1, e2, e3, e4, e5, e6, e7>>
  OBVIOUS
<1>. DEFINE S == {e1, e2, e3, e4, e5, e6, e7}
            joined == <<e1>> \o <<e2, e3, e4, e5, e6, e7>>
            flat == <<e1, e2, e3, e4, e5, e6, e7>>
<1>1. e1 \in S /\ e2 \in S /\ e3 \in S /\ e4 \in S /\ e5 \in S /\ e6 \in S /\ e7 \in S
  OBVIOUS
<1>. HIDE DEF S
<1>2. joined \in Seq(S) /\ flat \in Seq(S) /\ Len(joined) = 7 /\ Len(flat) = 7
  BY <1>1
<1>3. \A i \in 1 .. 7 : joined[i] = flat[i]
  BY <1>1
<1>. QED BY <1>2, <1>3, SeqEqual

LEMMA At_SelectedPrepare ==
  SelectedPrepare =
    <<Do("admit"), Do("empty"), On("put", "artifact"), On("put", "oracle"), On("put", "artifact"),
    On("put", "oracle"), Do("ready")>>
  BY Join_1_6, At_DagPrepare DEF SelectedPrepare, Do, On

LEMMA At_RequestPrepare ==
  RequestPrepare =
    <<Do("admit"), Do("empty"), On("put", "artifact"), On("put", "oracle"), On("put", "artifact"),
    On("put", "oracle"), Do("ready")>>
  BY Join_1_6, At_DagPrepare DEF RequestPrepare, Do, On

LEMMA Join_1_5_6 ==
  \A e1, e2, e3, e4, e5, e6, e7, e8, e9, e10, e11, e12 :
    <<e1>> \o <<e2, e3, e4, e5, e6>> \o <<e7, e8, e9, e10, e11, e12>>
      = <<e1, e2, e3, e4, e5, e6, e7, e8, e9, e10, e11, e12>>
<1>. SUFFICES ASSUME NEW e1, NEW e2, NEW e3, NEW e4, NEW e5, NEW e6, NEW e7, NEW e8, NEW e9, NEW
                     e10, NEW e11, NEW e12
              PROVE  <<e1>> \o <<e2, e3, e4, e5, e6>> \o <<e7, e8, e9, e10, e11, e12>>
                     = <<e1, e2, e3, e4, e5, e6, e7, e8, e9, e10, e11, e12>>
  OBVIOUS
<1>. DEFINE S == {e1, e2, e3, e4, e5, e6, e7, e8, e9, e10, e11, e12}
            joined == <<e1>> \o <<e2, e3, e4, e5, e6>> \o <<e7, e8, e9, e10, e11, e12>>
            flat == <<e1, e2, e3, e4, e5, e6, e7, e8, e9, e10, e11, e12>>
<1>1. e1 \in S /\ e2 \in S /\ e3 \in S /\ e4 \in S /\ e5 \in S /\ e6 \in S /\ e7 \in S /\
      e8 \in S /\ e9 \in S /\ e10 \in S /\ e11 \in S /\ e12 \in S
  OBVIOUS
<1>. HIDE DEF S
<1>2. joined \in Seq(S) /\ flat \in Seq(S) /\ Len(joined) = 12 /\ Len(flat) = 12
  BY <1>1
<1>3. \A i \in 1 .. 12 : joined[i] = flat[i]
  BY <1>1
<1>. QED BY <1>2, <1>3, SeqEqual

LEMMA At_ScheduleFinalize ==
  ScheduleFinalize =
    <<Do("lower"), On("check", "artifact"), On("bound", "artifact"), On("bound", "simulator"),
    On("equal", "output"), On("bound", "output"), On("check", "trace"), Do("lower_again"),
    On("name", "trace"), Do("exists"), Do("create"), Do("write")>>
  BY Join_1_5_6 DEF ScheduleFinalize, _validate_graph_device_receipt, Do, On

LEMMA Join_6_2 ==
  \A e1, e2, e3, e4, e5, e6, e7, e8 :
    <<e1, e2, e3, e4, e5, e6>> \o <<e7, e8>>
      = <<e1, e2, e3, e4, e5, e6, e7, e8>>
<1>. SUFFICES ASSUME NEW e1, NEW e2, NEW e3, NEW e4, NEW e5, NEW e6, NEW e7, NEW e8
              PROVE  <<e1, e2, e3, e4, e5, e6>> \o <<e7, e8>>
                     = <<e1, e2, e3, e4, e5, e6, e7, e8>>
  OBVIOUS
<1>. DEFINE S == {e1, e2, e3, e4, e5, e6, e7, e8}
            joined == <<e1, e2, e3, e4, e5, e6>> \o <<e7, e8>>
            flat == <<e1, e2, e3, e4, e5, e6, e7, e8>>
<1>1. e1 \in S /\ e2 \in S /\ e3 \in S /\ e4 \in S /\ e5 \in S /\ e6 \in S /\ e7 \in S /\
      e8 \in S
  OBVIOUS
<1>. HIDE DEF S
<1>2. joined \in Seq(S) /\ flat \in Seq(S) /\ Len(joined) = 8 /\ Len(flat) = 8
  BY <1>1
<1>3. \A i \in 1 .. 8 : joined[i] = flat[i]
  BY <1>1
<1>. QED BY <1>2, <1>3, SeqEqual

LEMMA At_SelectedFinalize ==
  SelectedFinalize =
    <<Do("admit"), On("check", "artifact"), On("again", "oracle"), On("again", "output"),
    On("name", "simulator"), On("check", "trace"), Do("exclusive"), Do("write")>>
  BY Join_6_2 DEF SelectedFinalize, _expected_receipt, Do, On

LEMMA At_RequestFinalize ==
  RequestFinalize =
    <<Do("admit"), On("check", "artifact"), On("again", "oracle"), On("name", "simulator"),
    On("verify", "output"), On("verify", "trace"), Do("exclusive"), Do("write")>>
  BY Join_6_2 DEF RequestFinalize, _expected, Do, On

LEMMA Join_3_5 ==
  \A e1, e2, e3, e4, e5, e6, e7, e8 :
    <<e1, e2, e3>> \o <<e4, e5, e6, e7, e8>>
      = <<e1, e2, e3, e4, e5, e6, e7, e8>>
<1>. SUFFICES ASSUME NEW e1, NEW e2, NEW e3, NEW e4, NEW e5, NEW e6, NEW e7, NEW e8
              PROVE  <<e1, e2, e3>> \o <<e4, e5, e6, e7, e8>>
                     = <<e1, e2, e3, e4, e5, e6, e7, e8>>
  OBVIOUS
<1>. DEFINE S == {e1, e2, e3, e4, e5, e6, e7, e8}
            joined == <<e1, e2, e3>> \o <<e4, e5, e6, e7, e8>>
            flat == <<e1, e2, e3, e4, e5, e6, e7, e8>>
<1>1. e1 \in S /\ e2 \in S /\ e3 \in S /\ e4 \in S /\ e5 \in S /\ e6 \in S /\ e7 \in S /\
      e8 \in S
  OBVIOUS
<1>. HIDE DEF S
<1>2. joined \in Seq(S) /\ flat \in Seq(S) /\ Len(joined) = 8 /\ Len(flat) = 8
  BY <1>1
<1>3. \A i \in 1 .. 8 : joined[i] = flat[i]
  BY <1>1
<1>. QED BY <1>2, <1>3, SeqEqual

LEMMA At_Playable ==
  Playable =
    <<Do("receipt"), On("check", "artifact"), On("bound", "artifact"), On("copy", "output"),
    On("copy", "trace"), On("copy", "simulator"), Do("finalize_copy"), Do("report")>>
  BY Join_3_5 DEF Playable, validate, _revalidate_raw_evidence, Do, On

LEMMA At_validate_receipt ==
  validate_receipt =
    <<Do("admit"), On("check", "artifact"), On("again", "oracle"), On("again", "output"),
    On("name", "simulator"), On("check", "trace"), Do("receipt"), Do("same")>>
  BY Join_6_2 DEF validate_receipt, _expected_receipt, Do, On

LEMMA Join_8_2_1_1_1 ==
  \A e1, e2, e3, e4, e5, e6, e7, e8, e9, e10, e11, e12, e13 :
    <<e1, e2, e3, e4, e5, e6, e7, e8>> \o <<e9, e10>> \o <<e11>> \o <<e12>> \o
             <<e13>>
      = <<e1, e2, e3, e4, e5, e6, e7, e8, e9, e10, e11, e12, e13>>
<1>. SUFFICES ASSUME NEW e1, NEW e2, NEW e3, NEW e4, NEW e5, NEW e6, NEW e7, NEW e8, NEW e9, NEW
                     e10, NEW e11, NEW e12, NEW e13
              PROVE  <<e1, e2, e3, e4, e5, e6, e7, e8>> \o <<e9, e10>> \o <<e11>> \o <<e12>> \o
             <<e13>>
                     = <<e1, e2, e3, e4, e5, e6, e7, e8, e9, e10, e11, e12, e13>>
  OBVIOUS
<1>. DEFINE S == {e1, e2, e3, e4, e5, e6, e7, e8, e9, e10, e11, e12, e13}
            joined == <<e1, e2, e3, e4, e5, e6, e7, e8>> \o <<e9, e10>> \o <<e11>> \o <<e12>> \o
             <<e13>>
            flat == <<e1, e2, e3, e4, e5, e6, e7, e8, e9, e10, e11, e12, e13>>
<1>1. e1 \in S /\ e2 \in S /\ e3 \in S /\ e4 \in S /\ e5 \in S /\ e6 \in S /\ e7 \in S /\
      e8 \in S /\ e9 \in S /\ e10 \in S /\ e11 \in S /\ e12 \in S /\ e13 \in S
  OBVIOUS
<1>. HIDE DEF S
<1>2. joined \in Seq(S) /\ flat \in Seq(S) /\ Len(joined) = 13 /\ Len(flat) = 13
  BY <1>1
<1>3. \A i \in 1 .. 13 : joined[i] = flat[i]
  BY <1>1
<1>. QED BY <1>2, <1>3, SeqEqual

LEMMA At_run ==
  run =
    <<Do("admit"), On("check", "artifact"), On("again", "oracle"), On("again", "output"),
    On("name", "simulator"), On("check", "trace"), Do("receipt"), Do("same"), Do("admit"),
    Do("asked"), Do("admit"), On("shown", "trace"), Do("report")>>
  BY Join_8_2_1_1_1, At_validate_receipt DEF run, _verified_descriptor, _trace_read_again, Do, On

LEMMA Join_6_3 ==
  \A e1, e2, e3, e4, e5, e6, e7, e8, e9 :
    <<e1, e2, e3, e4, e5, e6>> \o <<e7, e8, e9>>
      = <<e1, e2, e3, e4, e5, e6, e7, e8, e9>>
<1>. SUFFICES ASSUME NEW e1, NEW e2, NEW e3, NEW e4, NEW e5, NEW e6, NEW e7, NEW e8, NEW e9
              PROVE  <<e1, e2, e3, e4, e5, e6>> \o <<e7, e8, e9>>
                     = <<e1, e2, e3, e4, e5, e6, e7, e8, e9>>
  OBVIOUS
<1>. DEFINE S == {e1, e2, e3, e4, e5, e6, e7, e8, e9}
            joined == <<e1, e2, e3, e4, e5, e6>> \o <<e7, e8, e9>>
            flat == <<e1, e2, e3, e4, e5, e6, e7, e8, e9>>
<1>1. e1 \in S /\ e2 \in S /\ e3 \in S /\ e4 \in S /\ e5 \in S /\ e6 \in S /\ e7 \in S /\
      e8 \in S /\ e9 \in S
  OBVIOUS
<1>. HIDE DEF S
<1>2. joined \in Seq(S) /\ flat \in Seq(S) /\ Len(joined) = 9 /\ Len(flat) = 9
  BY <1>1
<1>3. \A i \in 1 .. 9 : joined[i] = flat[i]
  BY <1>1
<1>. QED BY <1>2, <1>3, SeqEqual

LEMMA At_Verify ==
  Verify =
    <<Do("admit"), On("check", "artifact"), On("again", "oracle"), On("name", "simulator"),
    On("verify", "output"), On("verify", "trace"), Do("receipt"), Do("same"), Do("asked")>>
  BY Join_6_3 DEF Verify, _expected, Do, On

LEMMA Join_1_9_1 ==
  \A e1, e2, e3, e4, e5, e6, e7, e8, e9, e10, e11 :
    <<e1>> \o <<e2, e3, e4, e5, e6, e7, e8, e9, e10>> \o <<e11>>
      = <<e1, e2, e3, e4, e5, e6, e7, e8, e9, e10, e11>>
<1>. SUFFICES ASSUME NEW e1, NEW e2, NEW e3, NEW e4, NEW e5, NEW e6, NEW e7, NEW e8, NEW e9, NEW
                     e10, NEW e11
              PROVE  <<e1>> \o <<e2, e3, e4, e5, e6, e7, e8, e9, e10>> \o <<e11>>
                     = <<e1, e2, e3, e4, e5, e6, e7, e8, e9, e10, e11>>
  OBVIOUS
<1>. DEFINE S == {e1, e2, e3, e4, e5, e6, e7, e8, e9, e10, e11}
            joined == <<e1>> \o <<e2, e3, e4, e5, e6, e7, e8, e9, e10>> \o <<e11>>
            flat == <<e1, e2, e3, e4, e5, e6, e7, e8, e9, e10, e11>>
<1>1. e1 \in S /\ e2 \in S /\ e3 \in S /\ e4 \in S /\ e5 \in S /\ e6 \in S /\ e7 \in S /\
      e8 \in S /\ e9 \in S /\ e10 \in S /\ e11 \in S
  OBVIOUS
<1>. HIDE DEF S
<1>2. joined \in Seq(S) /\ flat \in Seq(S) /\ Len(joined) = 11 /\ Len(flat) = 11
  BY <1>1
<1>3. \A i \in 1 .. 11 : joined[i] = flat[i]
  BY <1>1
<1>. QED BY <1>2, <1>3, SeqEqual

LEMMA At_run_axi4lite_request ==
  _run_axi4lite_request =
    <<Do("admit"), Do("admit"), On("check", "artifact"), On("again", "oracle"),
    On("name", "simulator"), On("verify", "output"), On("verify", "trace"), Do("receipt"),
    Do("same"), Do("asked"), Do("report")>>
  BY Join_1_9_1, At_Verify DEF _run_axi4lite_request, Do, On

LEMMA Join_1_9_1_9_2 ==
  \A e1, e2, e3, e4, e5, e6, e7, e8, e9, e10, e11, e12, e13, e14, e15, e16, e17, e18, e19,
     e20, e21, e22 :
    <<e1>> \o <<e2, e3, e4, e5, e6, e7, e8, e9, e10>> \o <<e11>> \o <<e12, e13, e14,
             e15, e16, e17, e18, e19, e20>> \o <<e21, e22>>
      = <<e1, e2, e3, e4, e5, e6, e7, e8, e9, e10, e11, e12, e13, e14, e15, e16, e17,
                 e18, e19, e20, e21, e22>>
<1>. SUFFICES ASSUME NEW e1, NEW e2, NEW e3, NEW e4, NEW e5, NEW e6, NEW e7, NEW e8, NEW e9, NEW
                     e10, NEW e11, NEW e12, NEW e13, NEW e14, NEW e15, NEW e16, NEW e17, NEW e18,
                     NEW e19, NEW e20, NEW e21, NEW e22
              PROVE  <<e1>> \o <<e2, e3, e4, e5, e6, e7, e8, e9, e10>> \o <<e11>> \o <<e12, e13, e14,
             e15, e16, e17, e18, e19, e20>> \o <<e21, e22>>
                     = <<e1, e2, e3, e4, e5, e6, e7, e8, e9, e10, e11, e12, e13, e14, e15, e16, e17,
                 e18, e19, e20, e21, e22>>
  OBVIOUS
<1>. DEFINE S == {e1, e2, e3, e4, e5, e6, e7, e8, e9, e10, e11, e12, e13, e14, e15, e16,
                   e17, e18, e19, e20, e21, e22}
            joined == <<e1>> \o <<e2, e3, e4, e5, e6, e7, e8, e9, e10>> \o <<e11>> \o <<e12, e13, e14,
             e15, e16, e17, e18, e19, e20>> \o <<e21, e22>>
            flat == <<e1, e2, e3, e4, e5, e6, e7, e8, e9, e10, e11, e12, e13, e14, e15, e16, e17,
                 e18, e19, e20, e21, e22>>
<1>1. e1 \in S /\ e2 \in S /\ e3 \in S /\ e4 \in S /\ e5 \in S /\ e6 \in S /\ e7 \in S /\
      e8 \in S /\ e9 \in S /\ e10 \in S /\ e11 \in S /\ e12 \in S /\ e13 \in S /\ e14 \in
      S /\ e15 \in S /\ e16 \in S /\ e17 \in S /\ e18 \in S /\ e19 \in S /\ e20 \in S /\
      e21 \in S /\ e22 \in S
  OBVIOUS
<1>. HIDE DEF S
<1>2. joined \in Seq(S) /\ flat \in Seq(S) /\ Len(joined) = 22 /\ Len(flat) = 22
  BY <1>1
<1>3. \A i \in 1 .. 22 : joined[i] = flat[i]
  BY <1>1
<1>. QED BY <1>2, <1>3, SeqEqual

LEMMA At_run_pair ==
  run_pair =
    <<Do("admit"), Do("admit"), On("check", "artifact"), On("again", "oracle"),
    On("name", "simulator"), On("verify", "output"), On("verify", "trace"), Do("receipt"),
    Do("same"), Do("asked"), Do("second"), Do("admit"), On("check", "artifact"),
    On("again", "oracle"), On("name", "simulator"), On("verify", "output"),
    On("verify", "trace"), Do("receipt"), Do("same"), Do("asked"), Do("one_simulator"),
    Do("report")>>
  BY Join_1_9_1_9_2, At_Verify DEF run_pair, Do, On

-----------------------------------------------------------------------------

PrepareOperations == {Do("admit"), Do("empty"), Do("ready"), On("put", "artifact"),
                      On("put", "oracle")}
SimulateOperations == {On("put", "simulator"), On("put", "trace"), On("put", "output")}
FinalizeOperations ==
  {Do("admit"), Do("lower"), Do("lower_again"), Do("exists"), Do("create"), Do("exclusive"),
   Do("write"), On("check", "artifact"), On("check", "oracle"), On("check", "trace"),
   On("again", "oracle"), On("again", "output"), On("equal", "output"), On("bound", "artifact"),
   On("bound", "simulator"), On("bound", "output"), On("name", "output"),
   On("name", "simulator"), On("name", "trace"), On("verify", "output"), On("verify", "trace")}
PresentOperations ==
  {Do("admit"), Do("receipt"), Do("same"), Do("asked"), Do("report"), Do("finalize_copy"),
   On("check", "artifact"), On("check", "trace"), On("again", "oracle"), On("again", "output"),
   On("shown", "trace"), On("bound", "artifact"), On("copy", "output"), On("copy", "trace"),
   On("copy", "simulator"), On("name", "simulator"), On("verify", "output"),
   On("verify", "trace")}
PairOperations == PresentOperations \union {Do("second"), Do("one_simulator")}

\* Every operation of a script has the kind its command uses.
LEMMA PrepareScripts == \A k \in Kinds : PrepareOf(k) \in Seq(PrepareOperations)
<1>1. SchedulePrepare \in Seq(PrepareOperations)
  BY At_SchedulePrepare DEF PrepareOperations, Do, On
<1>2. AffinePrepare \in Seq(PrepareOperations)
  BY At_AffinePrepare DEF PrepareOperations, Do, On
<1>3. DagPrepare \in Seq(PrepareOperations)
  BY At_DagPrepare DEF PrepareOperations, Do, On
<1>4. SelectedPrepare \in Seq(PrepareOperations)
  BY At_SelectedPrepare DEF PrepareOperations, Do, On
<1>5. RequestPrepare \in Seq(PrepareOperations)
  BY At_RequestPrepare DEF PrepareOperations, Do, On
<1>. QED BY <1>1, <1>2, <1>3, <1>4, <1>5 DEF PrepareOf

LEMMA SimulateScript == SimulatorRun \in Seq(SimulateOperations)
  BY DEF SimulatorRun, SimulateOperations, Do, On

LEMMA FinalizeScripts == \A l \in Layers : FinalizerOf(l) \in Seq(FinalizeOperations)
<1>1. finalize \in Seq(FinalizeOperations)
  BY DEF finalize, FinalizeOperations, Do, On
<1>2. ScheduleFinalize \in Seq(FinalizeOperations)
  BY At_ScheduleFinalize DEF FinalizeOperations, Do, On
<1>3. AffineFinalize \in Seq(FinalizeOperations)
  BY DEF AffineFinalize, FinalizeOperations, Do, On
<1>4. DagFinalize \in Seq(FinalizeOperations)
  BY DEF DagFinalize, FinalizeOperations, Do, On
<1>5. SelectedFinalize \in Seq(FinalizeOperations)
  BY At_SelectedFinalize DEF FinalizeOperations, Do, On
<1>6. RequestFinalize \in Seq(FinalizeOperations)
  BY At_RequestFinalize DEF FinalizeOperations, Do, On
<1>. QED BY <1>1, <1>2, <1>3, <1>4, <1>5, <1>6 DEF FinalizerOf, Layers

LEMMA PresentScripts ==
  /\ Playable \in Seq(PresentOperations) /\ run \in Seq(PresentOperations)
  /\ _run_axi4lite_request \in Seq(PresentOperations) /\ run_pair \in Seq(PairOperations)
<1>1. Playable \in Seq(PresentOperations)
  BY At_Playable DEF PresentOperations, Do, On
<1>2. run \in Seq(PresentOperations)
  BY At_run DEF PresentOperations, Do, On
<1>3. _run_axi4lite_request \in Seq(PresentOperations)
  BY At_run_axi4lite_request DEF PresentOperations, Do, On
<1>4. run_pair \in Seq(PairOperations)
  BY At_run_pair DEF PresentOperations, PairOperations, Do, On
<1>. QED BY <1>1, <1>2, <1>3, <1>4

LEMMA AllOperations ==
  /\ PrepareOperations \subseteq Operations /\ SimulateOperations \subseteq Operations
  /\ FinalizeOperations \subseteq Operations /\ PairOperations \subseteq Operations
<1>1. PrepareOperations \subseteq Operations /\ SimulateOperations \subseteq Operations
  BY DEF PrepareOperations, SimulateOperations, Operations, Verbs, FileVerbs, Files, Do, On
<1>2. FinalizeOperations \subseteq Operations
  BY DEF FinalizeOperations, Operations, Verbs, FileVerbs, Files, Do, On
<1>3. PairOperations \subseteq Operations
  BY DEF PresentOperations, PairOperations, Operations, Verbs, FileVerbs, Files, Do, On
<1>. QED BY <1>1, <1>2, <1>3

\* The operations of a command are those of what it is.
OperationsOf(op) == CASE op = "simulate" -> SimulateOperations
                      [] op = "finalize" -> FinalizeOperations
                      [] op \in {"playable", "run", "run_request"} -> PresentOperations
                      [] op = "run_pair" -> PairOperations
                      [] OTHER -> PrepareOperations

\* What is left to do is always an operation of the command's own script.
LEMMA ScriptTyped ==
  ASSUME NEW c, c.op \in Commands, c.op # "idle", c.op = "finalize" => c.layer \in Layers
  PROVE  Script(c) \in Seq(OperationsOf(c.op)) /\ OperationsOf(c.op) \subseteq Operations
<1>1. Kinds \subseteq {"schedule", "affine", "dag", "selected", "request"}
  BY EvidenceConstants
<1>2. CASE c.op \in Kinds
  <2>1. Script(c) = PrepareOf(c.op) /\ OperationsOf(c.op) = PrepareOperations
    BY <1>1, <1>2 DEF Script, OperationsOf
  <2>. QED BY <1>2, <2>1, PrepareScripts, AllOperations
<1>3. CASE c.op = "simulate"
  <2>1. Script(c) = SimulatorRun /\ OperationsOf(c.op) = SimulateOperations
    BY <1>3 DEF Script, OperationsOf
  <2>. QED BY <2>1, SimulateScript, AllOperations
<1>4. CASE c.op = "finalize"
  <2>1. Script(c) = FinalizerOf(c.layer) /\ OperationsOf(c.op) = FinalizeOperations
    BY <1>4 DEF Script, OperationsOf
  <2>. QED BY <1>4, <2>1, FinalizeScripts, AllOperations
<1>5. CASE c.op \in Presenters
  <2>1. PresentOperations \subseteq Operations /\ PairOperations \subseteq Operations
    BY AllOperations DEF PairOperations
  <2>2. CASE c.op = "playable"
    <3>1. Script(c) = Playable /\ OperationsOf(c.op) = PresentOperations
      BY <2>2 DEF Script, OperationsOf
    <3>. QED BY <2>1, <3>1, PresentScripts
  <2>3. CASE c.op = "run"
    <3>1. Script(c) = run /\ OperationsOf(c.op) = PresentOperations
      BY <2>3 DEF Script, OperationsOf
    <3>. QED BY <2>1, <3>1, PresentScripts
  <2>4. CASE c.op = "run_request"
    <3>1. Script(c) = _run_axi4lite_request /\ OperationsOf(c.op) = PresentOperations
      BY <2>4 DEF Script, OperationsOf
    <3>. QED BY <2>1, <3>1, PresentScripts
  <2>5. CASE c.op = "run_pair"
    <3>1. Script(c) = run_pair /\ OperationsOf(c.op) = PairOperations
      BY <2>5 DEF Script, OperationsOf
    <3>. QED BY <2>1, <3>1, PresentScripts
  <2>. QED BY <1>5, <2>2, <2>3, <2>4, <2>5 DEF Presenters
<1>. QED BY <1>2, <1>3, <1>4, <1>5 DEF Commands

\* The next operation, and what is left after it.
LEMMA NextOperation ==
  ASSUME NEW c \in CommandRecord, OnScript(c), c.todo # <<>>
  PROVE  /\ Script(c) \in Seq(Operations) /\ Len(Script(c)) \in Nat
         /\ Steps(c) \in 0 .. Len(Script(c)) - 1
         /\ Head(c.todo) = Script(c)[Steps(c) + 1]
         /\ Head(c.todo) \in OperationsOf(c.op) /\ Head(c.todo) \in Operations
         /\ Tail(c.todo) \in Seq(Operations) /\ Len(Tail(c.todo)) = Len(c.todo) - 1
         /\ \A i \in 1 .. Len(Tail(c.todo)) :
              Tail(c.todo)[i] = Script(c)[Steps(c) + 1 + i]
         /\ Tail(c.todo) = <<>> <=> Steps(c) + 1 = Len(Script(c))
<1>1. /\ Script(c) \in Seq(OperationsOf(c.op)) /\ OperationsOf(c.op) \subseteq Operations
  BY ScriptTyped DEF CommandRecord, OnScript
<1>2. Script(c) \in Seq(Operations) /\ Len(Script(c)) \in Nat
      /\ \A i \in 1 .. Len(Script(c)) : Script(c)[i] \in OperationsOf(c.op)
  BY <1>1
<1>3. c.todo \in Seq(Operations) /\ Len(c.todo) \in Nat \ {0}
  BY DEF CommandRecord
<1>4. /\ Tail(c.todo) \in Seq(Operations) /\ Len(Tail(c.todo)) = Len(c.todo) - 1
      /\ \A i \in 1 .. Len(Tail(c.todo)) : Tail(c.todo)[i] = c.todo[i + 1]
  BY <1>3, HeadTailProperties
<1>5. Head(c.todo) = c.todo[1]
  BY <1>3
<1>6. Steps(c) \in Nat /\ \A i \in 1 .. Len(c.todo) : c.todo[i] = Script(c)[Steps(c) + i]
  BY DEF OnScript
<1>7. Len(c.todo) = Len(Script(c)) - Steps(c)
  <2>1. Steps(c) = Len(Script(c)) - Len(c.todo)
    BY DEF Steps
  <2>2. Len(Script(c)) \in Nat /\ Len(c.todo) \in Nat
    BY <1>2, <1>3
  <2>. QED BY <2>1, <2>2
<1>8. Steps(c) \in 0 .. Len(Script(c)) - 1 /\ Head(c.todo) = Script(c)[Steps(c) + 1]
  <2>1. Steps(c) \in Nat /\ Len(Script(c)) \in Nat /\ Len(c.todo) \in Nat \ {0}
    BY <1>2, <1>3, <1>6
  <2>2. Steps(c) \in 0 .. Len(Script(c)) - 1 /\ 1 \in 1 .. Len(c.todo)
    BY <1>7, <2>1
  <2>. QED BY <1>5, <1>6, <2>2
<1>9. \A i \in 1 .. Len(Tail(c.todo)) : Tail(c.todo)[i] = Script(c)[Steps(c) + 1 + i]
  <2>1. TAKE i \in 1 .. Len(Tail(c.todo))
  <2>2. Steps(c) \in Nat /\ Len(c.todo) \in Nat \ {0} /\ Len(Tail(c.todo)) = Len(c.todo) - 1
    BY <1>3, <1>4, <1>6
  <2>3. i + 1 \in 1 .. Len(c.todo) /\ Steps(c) + (i + 1) = Steps(c) + 1 + i
    BY <2>2
  <2>. QED BY <1>4, <1>6, <2>3
<1>10. Tail(c.todo) = <<>> <=> Steps(c) + 1 = Len(Script(c))
  <2>1. Tail(c.todo) = <<>> <=> Len(Tail(c.todo)) = 0
    BY <1>4, EmptySeq
  <2>2. Len(Script(c)) \in Nat /\ Len(c.todo) \in Nat \ {0} /\ Len(Tail(c.todo)) = Len(c.todo) - 1
        /\ Steps(c) \in Nat
    BY <1>2, <1>3, <1>4, <1>6
  <2>3. Len(Tail(c.todo)) = 0 <=> Steps(c) + 1 = Len(Script(c))
    <3>. DEFINE whole == Len(Script(c))
                left  == Len(c.todo)
                rest  == Len(Tail(c.todo))
    <3>1. /\ whole \in Nat /\ left \in Nat \ {0} /\ Steps(c) \in Nat
          /\ rest = left - 1 /\ left = whole - Steps(c)
      BY <1>7, <2>2
    <3>. HIDE DEF whole, left, rest
    <3>2. rest = 0 <=> Steps(c) + 1 = whole
      BY <3>1
    <3>. QED BY <3>2 DEF whole, rest
  <2>. QED BY <2>1, <2>3
<1>11. Head(c.todo) \in OperationsOf(c.op)
  BY <1>2, <1>8
<1>. QED BY <1>1, <1>2, <1>4, <1>8, <1>9, <1>10, <1>11

-----------------------------------------------------------------------------

\* The command after its next operation.
Onward(c) == [After(c, Head(c.todo)) EXCEPT !.todo = Tail(@)]

\* A command after its next operation, field by field.
LEMMA OnwardFields ==
  ASSUME NEW c \in CommandRecord
  PROVE  LET s == Head(c.todo)
             n == Onward(c)
         IN /\ n.op = c.op /\ n.layer = c.layer /\ n.quiet = c.quiet /\ n.put = c.put
            /\ n.todo = Tail(c.todo)
            /\ n.checked = Checked(c, s) /\ n.named = Named(c, s) /\ n.body = Body(c, s)
            /\ n.lower = IF s.do = "lower_again" THEN Base(c).body ELSE c.lower
            /\ n.dir = IF s.do = "second" THEN 2 ELSE c.dir
            /\ n.asked = IF s.do = "second" THEN <<c.asked[2], c.asked[1]>> ELSE c.asked
            /\ n.first = IF s.do = "second" THEN c.body ELSE c.first
  BY DEF CommandRecord, Onward, After

\* What the operations read.
LEMMA CheckedIs ==
  ASSUME NEW c, NEW s
  PROVE  /\ Reads(s) => Checked(c, s) = [c.checked EXCEPT ![s.file] = File(c, s.file)]
         /\ ~Reads(s) /\ s.do # "finalize_copy" => Checked(c, s) = c.checked
         /\ s.do = "finalize_copy" => Checked(c, s) = c.named
<1>1. s.do = "finalize_copy" => ~Reads(s)
  BY DEF Reads
<1>. QED BY <1>1 DEF Checked

LEMMA NamedIs ==
  ASSUME NEW c, NEW s
  PROVE  /\ Identifies(s) => Named(c, s) = [c.named EXCEPT ![s.file] = File(c, s.file)]
         /\ ~Identifies(s) /\ s.do # "second" => Named(c, s) = c.named
         /\ s.do = "second" => Named(c, s) = Nothing
<1>1. s.do = "second" => ~Identifies(s)
  BY DEF Identifies
<1>. QED BY <1>1 DEF Named

LEMMA BodyIs ==
  ASSUME NEW c, NEW s
  PROVE  /\ s.do = "lower" => Body(c, s) = Base(c).body
         /\ s.do = "receipt" => Body(c, s) = Receipt(c).body
         /\ s.do \notin {"lower", "receipt"} => Body(c, s) = c.body
  BY DEF Body

\* Which command an operation belongs to.
LEMMA Whose ==
  ASSUME NEW c \in CommandRecord, OnScript(c), c.todo # <<>>
  PROVE  LET s == Head(c.todo)
         IN /\ s.do \in {"empty", "ready"} => c.op \in Kinds
            /\ s.do = "put" => \/ c.op \in Kinds /\ s.file \in {"artifact", "oracle"}
                               \/ c.op = "simulate" /\ s.file \in {"simulator", "trace", "output"}
            /\ s.do \in {"create", "exclusive", "write", "lower", "lower_again"} => c.op = "finalize"
            /\ s.do = "second" => c.op = "run_pair"
            /\ s.do \in {"report", "receipt", "finalize_copy", "same", "second", "copy"} => c.op \in Presenters
            /\ s.do \in FileVerbs => s.file \in Files
            /\ s.do = "verify" => s.file \in {"output", "trace"}
            /\ Identifies(s) => s.file \in Files \ {"oracle"}
            /\ c.op = "simulate" => s.do = "put"
<1>1. Head(c.todo) \in OperationsOf(c.op) /\ c.op \in Commands \ {"idle"}
  BY NextOperation DEF CommandRecord, OnScript
<1>2. CASE c.op \in Kinds
  <2>1. c.op \notin Presenters \union {"simulate", "finalize"} /\ OperationsOf(c.op) = PrepareOperations
    BY <1>2, EvidenceConstants DEF OperationsOf, Presenters
  <2>. QED BY <1>1, <1>2, <2>1 DEF PrepareOperations, Do, On, FileVerbs, Identifies, Files
<1>3. CASE c.op = "simulate"
  <2>1. OperationsOf(c.op) = SimulateOperations
    BY <1>3 DEF OperationsOf
  <2>. QED BY <1>1, <1>3, <2>1 DEF SimulateOperations, Do, On, FileVerbs, Identifies, Files
<1>4. CASE c.op = "finalize"
  <2>1. OperationsOf(c.op) = FinalizeOperations
    BY <1>4 DEF OperationsOf
  <2>. QED BY <1>1, <1>4, <2>1 DEF FinalizeOperations, Do, On, FileVerbs, Identifies, Files
<1>5. CASE c.op \in {"playable", "run", "run_request"}
  <2>1. OperationsOf(c.op) = PresentOperations
    BY <1>5 DEF OperationsOf
  <2>. QED BY <1>1, <1>5, <2>1 DEF PresentOperations, Do, On, FileVerbs, Identifies, Files, Presenters
<1>6. CASE c.op = "run_pair"
  <2>1. OperationsOf(c.op) = PairOperations
    BY <1>6 DEF OperationsOf
  <2>. QED BY <1>1, <1>6, <2>1
         DEF PairOperations, PresentOperations, Do, On, FileVerbs, Identifies, Files, Presenters
<1>. QED BY <1>1, <1>2, <1>3, <1>4, <1>5, <1>6 DEF Commands, Presenters

\* Contents, directories and receipts keep their types.
LEMMA FileTyped ==
  ASSUME EvidenceTypeOK, NEW c \in CommandRecord, NEW f \in Files
  PROVE  File(c, f) \in Digests
  BY DEF EvidenceTypeOK, CommandRecord, DirectoryRecord, File, Contents

LEMMA NothingTyped == Nothing \in Contents
  BY DEF Nothing, Contents, Digests

\* A command that goes on is a command, one operation further in the same script.
LEMMA OnwardTyped ==
  ASSUME EvidenceTypeOK, NEW c \in CommandRecord, OnScript(c), c.todo # <<>>
  PROVE  /\ Onward(c) \in CommandRecord /\ OnScript(Onward(c))
         /\ Onward(c).todo # <<>> => Steps(Onward(c)) = Steps(c) + 1
         /\ Script(Onward(c)) = Script(c)
<1>. DEFINE s == Head(c.todo)
            n == Onward(c)
<1>1. /\ s \in Operations /\ Tail(c.todo) \in Seq(Operations)
      /\ c.op \in Commands \ {"idle"}
  BY NextOperation DEF CommandRecord, OnScript
<1>2. Checked(c, s) \in Contents
  <2>1. Reads(s) => s.file \in Files
    BY Whose DEF Reads, FileVerbs
  <2>2. c.checked \in Contents /\ c.named \in Contents
    BY DEF CommandRecord
  <2>3. CASE Reads(s)
    BY <2>1, <2>2, <2>3, CheckedIs, FileTyped DEF Contents
  <2>4. CASE ~Reads(s)
    BY <2>2, <2>4, CheckedIs
  <2>. QED BY <2>3, <2>4
<1>3. Named(c, s) \in Contents
  <2>1. Identifies(s) => s.file \in Files
    BY Whose
  <2>2. c.named \in Contents
    BY DEF CommandRecord
  <2>3. CASE Identifies(s)
    BY <2>1, <2>2, <2>3, NamedIs, FileTyped DEF Contents
  <2>4. CASE ~Identifies(s)
    BY <2>2, <2>4, NamedIs, NothingTyped
  <2>. QED BY <2>3, <2>4
<1>4. Base(c).body \in Contents
  BY DEF EvidenceTypeOK, CommandRecord, ReceiptRecord, Base, Layers
<1>5. Body(c, s) \in Contents
  <2>1. c.body \in Contents /\ c.dir \in EvidenceDirs
    BY DEF CommandRecord
  <2>2. s.do = "receipt" => c.layer \in Layers
    BY Whose DEF OnScript
  <2>3. s.do = "receipt" => Receipt(c).body \in Contents
    BY <2>1, <2>2 DEF EvidenceTypeOK, ReceiptRecord, Receipt
  <2>. QED BY <1>4, <2>1, <2>3, BodyIs
<1>6. s.do = "second" => c.op = "run_pair" /\ Len(c.asked) = 2
  BY Whose DEF OnScript
<1>7. s.do = "second" => c.asked[1] \in Requested /\ c.asked[2] \in Requested
  BY <1>6 DEF CommandRecord
<1>8. n.asked \in Seq(Requested) /\ Len(n.asked) = Len(c.asked) /\ n.dir \in EvidenceDirs
  <2>1. CASE s.do = "second"
    <3>1. n.asked = <<c.asked[2], c.asked[1]>> /\ n.dir = 2
      BY <2>1, OnwardFields
    <3>2. n.asked \in Seq(Requested) /\ Len(n.asked) = 2
      BY <1>7, <2>1, <3>1
    <3>. QED BY <1>6, <2>1, <3>1, <3>2 DEF EvidenceDirs
  <2>2. CASE s.do # "second"
    BY <2>2, OnwardFields DEF CommandRecord
  <2>. QED BY <2>1, <2>2
<1>9. n \in CommandRecord
  <2>. DEFINE d == [c EXCEPT !.checked = Checked(c, s), !.named = Named(c, s), !.body = Body(c, s),
                      !.lower = IF s.do = "lower_again" THEN Base(c).body ELSE @]
  <2>1. d \in CommandRecord
    BY <1>2, <1>3, <1>4, <1>5 DEF CommandRecord
  <2>2. CASE s.do = "second"
    <3>1. n = [[d EXCEPT !.dir = 2, !.asked = <<@[2], @[1]>>, !.first = c.body]
                 EXCEPT !.todo = Tail(@)]
      BY <2>2 DEF Onward, After
    <3>2. d.asked = c.asked /\ d.todo = c.todo /\ c.body \in Contents
      BY DEF CommandRecord
    <3>3. n.asked = <<d.asked[2], d.asked[1]>> /\ n.asked \in Seq(Requested)
      BY <1>8, <2>2, <3>2, OnwardFields
    <3>4. n = [d EXCEPT !.dir = 2, !.asked = n.asked, !.first = c.body, !.todo = Tail(c.todo)]
      BY <2>1, <3>1, <3>2, <3>3 DEF CommandRecord
    <3>. HIDE DEF d, n
    <3>. QED BY <1>1, <2>1, <3>2, <3>3, <3>4 DEF CommandRecord, EvidenceDirs
  <2>3. CASE s.do # "second"
    <3>1. n = [d EXCEPT !.todo = Tail(@)]
      BY <2>3 DEF Onward, After
    <3>2. d.todo = c.todo
      BY DEF CommandRecord
    <3>. HIDE DEF d, n
    <3>. QED BY <1>1, <2>1, <3>1, <3>2 DEF CommandRecord
  <2>. QED BY <2>2, <2>3
<1>10. Script(n) = Script(c)
  <2>1. n.op = c.op /\ n.layer = c.layer
    BY OnwardFields
  <2>. QED BY <2>1 DEF Script
<1>11. n.todo # <<>> => Steps(n) = Steps(c) + 1
  <2>1. n.todo = Tail(c.todo) /\ Len(Tail(c.todo)) = Len(c.todo) - 1
    BY NextOperation, OnwardFields
  <2>2. Steps(n) = Len(Script(c)) - Len(Tail(c.todo)) /\ Steps(c) = Len(Script(c)) - Len(c.todo)
    BY <1>10, <2>1 DEF Steps
  <2>. DEFINE whole == Len(Script(c))
              left == Len(c.todo)
              rest == Len(Tail(c.todo))
  <2>3. whole \in Nat /\ left \in Nat /\ rest = left - 1
        /\ Steps(n) = whole - rest /\ Steps(c) = whole - left
    BY <2>1, <2>2, NextOperation DEF CommandRecord
  <2>. HIDE DEF whole, left, rest, n
  <2>. QED BY <2>3
<1>12. OnScript(n)
  <2>1. SUFFICES ASSUME n.todo # <<>> PROVE OnScript(n)
    BY DEF OnScript
  <2>2. Steps(n) \in Nat
    BY <1>11, <2>1, NextOperation
  <2>4. \A i \in 1 .. Len(n.todo) : n.todo[i] = Script(n)[Steps(n) + i]
    <3>1. n.todo = Tail(c.todo) /\ Steps(n) = Steps(c) + 1 /\ Script(n) = Script(c)
      BY <1>10, <1>11, <2>1, OnwardFields
    <3>. HIDE DEF n
    <3>. QED BY <3>1, NextOperation
  <2>3. n.op = c.op /\ n.layer = c.layer /\ Len(n.asked) = Len(c.asked)
    BY <1>8, OnwardFields
  <2>. QED BY <2>2, <2>3, <2>4 DEF OnScript
<1>. QED BY <1>9, <1>10, <1>11, <1>12

-----------------------------------------------------------------------------
\* The inductive invariant.

Preparing(c) == c.todo # <<>> /\ c.op \in Kinds
Finalizing(c) == c.todo # <<>> /\ c.op = "finalize"
Artifact(d) == evidence[d].files["artifact"]

DirectoryOK(d) ==
  LET here == evidence[d]
  IN /\ here.files["oracle"] \in {"none", "right", "right1"}
     /\ here.ready => /\ here.kind # "none" /\ here.files["oracle"] # "none"
                      /\ \A f \in {"output", "trace"} :
                           here.files[f] \in {"none", "wrong", Result(Artifact(d))}
     /\ ~here.ready => here.files["output"] = "none" /\ here.files["trace"] = "none"
     /\ \A l \in Layers : /\ receipts[d][l].state = "whole" => here.ready
                          /\ receipts[d][l].body["oracle"] = "none"

First(k) == IF k \in {"selected", "request"} THEN 1 ELSE 0
PrepareOK(c) ==
  Preparing(c) =>
    /\ ~evidence[c.dir].ready
    /\ Steps(c) > First(c.op) => evidence[c.dir].kind # "none"
    /\ Steps(c) > First(c.op) + 2 => evidence[c.dir].files["oracle"] # "none"

SimulateOK(c) ==
  (c.todo # <<>> /\ c.op = "simulate") =>
    /\ evidence[c.dir].ready
    /\ c.put["output"] \in {"none", "wrong"} /\ c.put["trace"] \in {"none", "wrong"}

\* Where a finalizer has compared the artifact, the output and the trace.
ArtifactAt(l) == IF l = "mvp" THEN 1 ELSE 2
OutputAt(l) == CASE l = "mvp" -> 2
                 [] l = "affine" -> 3
                 [] l \in {"dag", "selected"} -> 4
                 [] OTHER -> 5
TraceAt(l) == CASE l = "dag" -> 3
                [] l = "schedule" -> 7
                [] l = "mvp" -> 8
                [] OTHER -> 6

\* What a finalizer nobody disturbed has established about the directory.
Established(c) ==
  LET here == evidence[c.dir].files
      l == c.layer
  IN /\ Steps(c) >= ArtifactAt(l) =>
          here["artifact"] = ver /\ c.checked["artifact"] = ver /\ c.named["artifact"] = ver
     /\ Steps(c) >= OutputAt(l) => here["output"] = Result(ver)
     /\ Steps(c) >= TraceAt(l) => here["trace"] = Result(ver)
     /\ \A f \in Files : c.named[f] \in {"none", here[f]}
     /\ l = "mvp" => c.named["trace"] = "none"
     /\ l = "schedule" =>
          /\ Steps(c) >= 3 => c.body["artifact"] = ver
          /\ Steps(c) >= 4 => c.body["simulator"] = here["simulator"]
          /\ Steps(c) >= 6 => c.body["output"] = here["output"]
          /\ Steps(c) >= 8 => c.lower = receipts[c.dir]["mvp"].body

FinalizeOK(c) == Finalizing(c) => /\ evidence[c.dir].ready
                                  /\ c.quiet => Established(c)

CommandOK(c) == /\ OnScript(c) /\ PrepareOK(c) /\ SimulateOK(c) /\ FinalizeOK(c)
                /\ c.named["oracle"] = "none" /\ c.body["oracle"] = "none"

PrepareAlone == \A p, q \in Procs : Preparing(procs[p]) /\ Preparing(procs[q]) => p = q

\* An exclusive receipt is opened, and not written yet.
Writing(p, d, l) == /\ Finalizing(procs[p]) /\ procs[p].dir = d /\ procs[p].layer = l
                    /\ Steps(procs[p]) = 7
ExclusiveOK ==
  \A d \in EvidenceDirs, l \in {"selected", "request"}, p \in Procs :
    Writing(p, d, l) => /\ receipts[d][l].state = "torn"
                        /\ \A q \in Procs : Writing(q, d, l) => p = q

DirectoriesOK == \A d \in EvidenceDirs : DirectoryOK(d)
CommandsOK == \A p \in Procs : CommandOK(procs[p])

EvidenceIInv == EvidenceTypeOK /\ DirectoriesOK /\ CommandsOK /\ PrepareAlone /\ ExclusiveOK

-----------------------------------------------------------------------------

\* A command that does not move, while its directory is prepared or finished.
LEMMA CommandKept ==
  ASSUME NEW c \in CommandRecord, NEW x \in CommandRecord, CommandOK(c),
         x.op = c.op, x.dir = c.dir, x.layer = c.layer, x.asked = c.asked, x.todo = c.todo,
         x.checked = c.checked, x.named = c.named, x.lower = c.lower, x.body = c.body,
         x.put = c.put, x.quiet => c.quiet,
         x.quiet /\ Finalizing(c) =>
           /\ ver' = ver /\ evidence'[c.dir].files = evidence[c.dir].files
           /\ receipts'[c.dir] = receipts[c.dir],
         evidence[c.dir].ready => evidence'[c.dir].ready,
         Preparing(c) => (evidence'[c.dir].ready => evidence[c.dir].ready),
         evidence[c.dir].kind # "none" => evidence'[c.dir].kind # "none",
         evidence[c.dir].files["oracle"] # "none" => evidence'[c.dir].files["oracle"] # "none"
  PROVE  CommandOK(x)'
<1>1. Script(x) = Script(c)
  BY DEF Script
<1>2. Steps(x) = Steps(c)
  BY <1>1 DEF Steps
<1>3. OnScript(x)
  BY <1>1, <1>2 DEF CommandOK, OnScript
<1>4. PrepareOK(x)'
  BY <1>2 DEF CommandOK, PrepareOK, Preparing
<1>5. SimulateOK(x)'
  BY DEF CommandOK, SimulateOK
<1>6. FinalizeOK(x)'
  BY <1>2 DEF CommandOK, FinalizeOK, Finalizing, Established
<1>7. x.named["oracle"] = "none" /\ x.body["oracle"] = "none"
  BY DEF CommandOK
<1>8. OnScript(x)'
  BY <1>3
<1>. QED BY <1>8, <1>4, <1>5, <1>6, <1>7 DEF CommandOK

-----------------------------------------------------------------------------
\* What an operation does, as facts.

\* What an operation does to the directory, and what has passed when it goes on.
LEMMA WorkedIs ==
  ASSUME NEW c, NEW s
  PROVE  LET here == evidence[c.dir]
         IN /\ s.do = "empty" => Worked(c, s) = [here EXCEPT !.kind = c.op, !.request = c.asked[1]]
            /\ s.do = "ready" => Worked(c, s) = [here EXCEPT !.ready = TRUE]
            /\ s.do = "put" => Worked(c, s) = [here EXCEPT !.files[s.file] = Content(c, s.file)]
            /\ s.do \notin {"empty", "ready", "put"} => Worked(c, s) = here
  BY DEF Worked

LEMMA ContentIs ==
  ASSUME NEW c
  PROVE  /\ Content(c, "oracle") = Result(ver)
         /\ Content(c, "artifact") = ver
         /\ \A f \in {"output", "trace", "simulator"} :
              Content(c, f) = IF c.put[f] # "none" THEN c.put[f] ELSE Result(File(c, "artifact"))
  BY DEF Content, compile_artifact

LEMMA ResultTyped == \A v : Result(v) \in {"right", "right1"}
  BY DEF Result

LEMMA PassesIs ==
  ASSUME NEW c, NEW s, Passes(c, s)
  PROVE  /\ s.do = "empty" => evidence[c.dir].kind = "none"
         /\ s.do = "check" /\ s.file = "artifact" => File(c, "artifact") = ver
         /\ s.do = "check" /\ s.file # "artifact" =>
              File(c, s.file) = Result(c.checked["artifact"])
         /\ s.do \in {"again", "verify"} => File(c, s.file) = Result(ver)
         /\ s.do = "shown" => File(c, s.file) = Result("v0")
         /\ s.do = "equal" => File(c, s.file) # "none" /\ File(c, s.file) = File(c, "oracle")
         /\ s.do = "bound" => File(c, s.file) = c.body[s.file]
         /\ s.do \in {"exists", "exclusive"} => Receipt(c).state = "absent"
  BY DEF Passes, validate_artifact, compile_artifact

\* Each step stays within the types.
LEMMA WorkedTyped ==
  ASSUME EvidenceTypeOK, NEW c \in CommandRecord, OnScript(c), c.todo # <<>>
  PROVE  Worked(c, Head(c.todo)) \in DirectoryRecord
<1>. DEFINE s == Head(c.todo)
            here == evidence[c.dir]
<1>1. here \in DirectoryRecord
  BY DEF EvidenceTypeOK, CommandRecord
<1>2. s.do \in {"empty", "ready"} => c.op \in Kinds
  BY Whose
<1>3. s.do = "put" => s.file \in Files
  BY Whose DEF FileVerbs
<1>4. CASE s.do = "empty"
  <2>1. Len(c.asked) = 1 /\ c.asked \in Seq(Requested)
    BY <1>2, <1>4 DEF OnScript, CommandRecord
  <2>2. c.asked[1] \in Requested
    BY <2>1
  <2>3. Worked(c, s) = [here EXCEPT !.kind = c.op, !.request = c.asked[1]]
    BY <1>4, WorkedIs
  <2>. QED BY <1>1, <1>2, <1>4, <2>2, <2>3 DEF DirectoryRecord
<1>5. CASE s.do = "ready"
  <2>1. Worked(c, s) = [here EXCEPT !.ready = TRUE]
    BY <1>5, WorkedIs
  <2>. QED BY <1>1, <2>1 DEF DirectoryRecord
<1>6. CASE s.do = "put"
  <2>1. Content(c, s.file) \in Digests
    <3>1. c.put[s.file] \in Digests /\ ver \in Digests /\ \A v : Result(v) \in Digests
      BY <1>3, <1>6, ResultTyped DEF CommandRecord, Contents, EvidenceTypeOK, Digests
    <3>2. s.file \in {"artifact", "oracle"} \/ s.file \in {"output", "trace", "simulator"}
      BY <1>3, <1>6 DEF Files
    <3>. QED BY <3>1, <3>2, ContentIs
  <2>2. Worked(c, s) = [here EXCEPT !.files[s.file] = Content(c, s.file)]
    BY <1>6, WorkedIs
  <2>3. here.files \in [Files -> Digests]
    BY <1>1 DEF DirectoryRecord, Contents
  <2>4. [here.files EXCEPT ![s.file] = Content(c, s.file)] \in Contents
    BY <2>1, <2>3 DEF Contents
  <2>5. Worked(c, s) = [here EXCEPT !.files = [here.files EXCEPT ![s.file] = Content(c, s.file)]]
    BY <2>2
  <2>. QED BY <1>1, <2>4, <2>5 DEF DirectoryRecord
<1>7. CASE s.do \notin {"empty", "ready", "put"}
  BY <1>1, <1>7, WorkedIs
<1>. QED BY <1>4, <1>5, <1>6, <1>7

\* The receipt file after an operation.
ReceiptAfter(c, s) == CASE s.do \in {"create", "exclusive"} -> Torn
                        [] s.do = "write" -> Written(c)
                        [] OTHER -> Receipt(c)

LEMMA ReceiptAfterTyped ==
  ASSUME EvidenceTypeOK, NEW c \in CommandRecord, c.layer \in Layers, NEW s
  PROVE  ReceiptAfter(c, s) \in ReceiptRecord
<1>1. Torn \in ReceiptRecord
  <2>1. "none" \in Requested /\ Nothing \in Contents
    BY NothingTyped DEF Requested
  <2>. QED BY <2>1 DEF Torn, NoReceipt, ReceiptRecord
<1>2. Written(c) \in ReceiptRecord
  <2>1. evidence[c.dir].request \in Requested
    BY DEF EvidenceTypeOK, CommandRecord, DirectoryRecord
  <2>2. c.body \in Contents /\ c.named \in Contents /\ c.lower \in Contents /\ c.quiet \in BOOLEAN
    BY DEF CommandRecord
  <2>3. [c.body EXCEPT !["trace"] = c.named["trace"]] \in Contents
    BY <2>2 DEF Contents, Files
  <2>. QED BY <2>1, <2>2, <2>3 DEF Written, ReceiptRecord
<1>3. Receipt(c) \in ReceiptRecord
  BY DEF EvidenceTypeOK, CommandRecord, Receipt
<1>. QED BY <1>1, <1>2, <1>3 DEF ReceiptAfter

\* A step either ends the command or does its next operation.
Stops(p) == /\ procs' = [procs EXCEPT ![p] = Idle]
            /\ ver' = ver /\ evidence' = evidence /\ receipts' = receipts /\ reports' = reports
Advances(p) ==
  LET c == procs[p]
      s == Head(c.todo)
  IN /\ Passes(c, s) /\ ver' = ver
     /\ procs' = [q \in Procs |->
                    IF q = p THEN (IF Tail(c.todo) = <<>> THEN Idle ELSE Onward(c))
                    ELSE IF Disturbs(s) /\ procs[q].dir = c.dir
                         THEN [procs[q] EXCEPT !.quiet = FALSE] ELSE procs[q]]
     /\ evidence' = [evidence EXCEPT ![c.dir] = Worked(c, s)]
     /\ \A d \in EvidenceDirs, l \in Layers :
          receipts'[d][l] = IF d = c.dir /\ l = c.layer THEN ReceiptAfter(c, s) ELSE receipts[d][l]
     /\ receipts' \in [EvidenceDirs -> [Layers -> ReceiptRecord]]
     /\ reports' = reports \union (IF s.do = "report" THEN {Reported(c)} ELSE {})

\* A step stops the command, or passes and advances it.
LEMMA StepIs ==
  ASSUME EvidenceTypeOK, CommandsOK, NEW p \in Procs, Step(p)
  PROVE  procs[p].todo # <<>> /\ (Stops(p) \/ Advances(p))
<1>. DEFINE c == procs[p]
            s == Head(c.todo)
            alone == IF Disturbs(s) THEN Disturbed(p, c.dir) ELSE procs
<1>1. c \in CommandRecord /\ c.dir \in EvidenceDirs /\ c.todo # <<>> /\ ver' = ver /\ OnScript(c)
  BY DEF EvidenceTypeOK, CommandRecord, Step, CommandsOK, CommandOK
<1>2. CASE ~Passes(c, s)
  BY <1>1, <1>2 DEF Step, Stops
<1>3. CASE Passes(c, s)
  <2>1. procs' = [alone EXCEPT ![p] = IF Onward(c).todo = <<>> THEN Idle ELSE Onward(c)]
    BY <1>3 DEF Step, Onward
  <2>2. Onward(c).todo = Tail(c.todo)
    BY <1>1, OnwardFields
  <2>3. \A q \in Procs \ {p} :
          alone[q] = IF Disturbs(s) /\ procs[q].dir = c.dir
                     THEN [procs[q] EXCEPT !.quiet = FALSE] ELSE procs[q]
    BY <1>1 DEF Disturbed, EvidenceDirs
  <2>4. DOMAIN alone = Procs
    BY DEF Disturbed, EvidenceTypeOK
  <2>5. procs' = [q \in Procs |->
                    IF q = p THEN (IF Tail(c.todo) = <<>> THEN Idle ELSE Onward(c))
                    ELSE IF Disturbs(s) /\ procs[q].dir = c.dir
                         THEN [procs[q] EXCEPT !.quiet = FALSE] ELSE procs[q]]
    <3>. HIDE DEF alone, c, s
    <3>. QED BY <2>1, <2>2, <2>3, <2>4
  <2>6. evidence' = [evidence EXCEPT ![c.dir] = Worked(c, s)]
        /\ reports' = reports \union (IF s.do = "report" THEN {Reported(c)} ELSE {})
    BY <1>3 DEF Step
  <2>7. receipts' = CASE s.do \in {"create", "exclusive"} ->
                           [receipts EXCEPT ![c.dir][c.layer] = Torn]
                      [] s.do = "write" -> [receipts EXCEPT ![c.dir][c.layer] = Written(c)]
                      [] OTHER -> receipts
    BY <1>3 DEF Step
  <2>8. s.do \in {"create", "exclusive", "write"} => c.layer \in Layers
    BY <1>1, Whose DEF OnScript
  <2>9. receipts \in [EvidenceDirs -> [Layers -> ReceiptRecord]]
    BY DEF EvidenceTypeOK
  <2>10. receipts' = IF s.do \in {"create", "exclusive", "write"}
                     THEN [receipts EXCEPT ![c.dir][c.layer] = ReceiptAfter(c, s)] ELSE receipts
    BY <2>7 DEF ReceiptAfter
  <2>11. CASE s.do \in {"create", "exclusive", "write"}
    <3>1. ReceiptAfter(c, s) \in ReceiptRecord
      BY <1>1, <2>8, <2>11, ReceiptAfterTyped
    <3>. HIDE DEF c, s
    <3>2. receipts' = [receipts EXCEPT ![c.dir] = [receipts[c.dir] EXCEPT ![c.layer] = ReceiptAfter(c, s)]]
      BY <2>9, <2>10, <2>11
    <3>3. [receipts[c.dir] EXCEPT ![c.layer] = ReceiptAfter(c, s)] \in [Layers -> ReceiptRecord]
      BY <1>1, <2>9, <3>1
    <3>4. receipts' \in [EvidenceDirs -> [Layers -> ReceiptRecord]]
      BY <2>9, <3>2, <3>3
    <3>5. \A d \in EvidenceDirs, l \in Layers :
            receipts'[d][l] = IF d = c.dir /\ l = c.layer THEN ReceiptAfter(c, s) ELSE receipts[d][l]
      BY <1>1, <2>9, <3>2
    <3>. QED BY <1>1, <1>3, <2>5, <2>6, <3>4, <3>5 DEF Advances, c, s
  <2>12. CASE s.do \notin {"create", "exclusive", "write"}
    <3>1. receipts' = receipts
      BY <2>10, <2>12
    <3>2. \A d \in EvidenceDirs, l \in Layers :
            receipts'[d][l] = IF d = c.dir /\ l = c.layer THEN ReceiptAfter(c, s) ELSE receipts[d][l]
      BY <2>12, <3>1 DEF ReceiptAfter, Receipt
    <3>. QED BY <1>1, <1>3, <2>5, <2>6, <2>9, <3>1, <3>2 DEF Advances
  <2>. QED BY <2>11, <2>12
<1>. QED BY <1>1, <1>2, <1>3

-----------------------------------------------------------------------------
\* Where the scripts do what the invariant counts on.

\* What the scripts of prepare() and of the finalizers have at each position.
LEMMA PrepareTable ==
  ASSUME NEW k \in Kinds
  PROVE  LET X == PrepareOf(k)
             n == First(k)
         IN /\ n \in {0, 1} /\ Len(X) > n + 3
            /\ X[n + 1] = Do("empty") /\ X[n + 3] = On("put", "oracle")
            /\ \A i \in 1 .. Len(X) : X[i].do = "ready" => i = Len(X)
<1>1. CASE k = "schedule"
  BY <1>1, At_SchedulePrepare DEF PrepareOf, First, Do, On
<1>2. CASE k = "affine"
  BY <1>2, At_AffinePrepare DEF PrepareOf, First, Do, On
<1>3. CASE k = "dag"
  BY <1>3, At_DagPrepare DEF PrepareOf, First, Do, On
<1>4. CASE k = "selected"
  BY <1>4, At_SelectedPrepare DEF PrepareOf, First, Do, On
<1>5. CASE k = "request"
  BY <1>5, At_RequestPrepare DEF PrepareOf, First, Do, On
<1>. QED BY <1>1, <1>2, <1>3, <1>4, <1>5, EvidenceConstants

LEMMA FinalizeTable ==
  ASSUME NEW l \in Layers
  PROVE  LET X == FinalizerOf(l)
         IN /\ X[ArtifactAt(l)] = On("check", "artifact")
            /\ X[OutputAt(l)] \in {On("equal", "output"), On("again", "output"), On("verify", "output")}
            /\ l # "mvp" => X[TraceAt(l)] \in {On("check", "trace"), On("verify", "trace")}
            /\ ArtifactAt(l) \in Nat /\ OutputAt(l) \in Nat /\ TraceAt(l) \in Nat
            /\ ArtifactAt(l) < OutputAt(l) /\ ArtifactAt(l) < TraceAt(l) /\ OutputAt(l) < Len(X)
            /\ Len(X) \in Nat
            /\ IF l = "mvp" THEN Len(X) < TraceAt(l) ELSE TraceAt(l) < Len(X)
            /\ \A i \in 1 .. Len(X) : X[i].do = "write" => i = Len(X)
<1>1. CASE l = "mvp"
  BY <1>1 DEF FinalizerOf, ArtifactAt, OutputAt, TraceAt, finalize, Do, On
<1>2. CASE l = "schedule"
  BY <1>2, At_ScheduleFinalize DEF FinalizerOf, ArtifactAt, OutputAt, TraceAt, Do, On
<1>3. CASE l = "affine"
  BY <1>3 DEF FinalizerOf, ArtifactAt, OutputAt, TraceAt, AffineFinalize, Do, On
<1>4. CASE l = "dag"
  BY <1>4 DEF FinalizerOf, ArtifactAt, OutputAt, TraceAt, DagFinalize, Do, On
<1>5. CASE l = "selected"
  BY <1>5, At_SelectedFinalize DEF FinalizerOf, ArtifactAt, OutputAt, TraceAt, Do, On
<1>6. CASE l = "request"
  BY <1>6, At_RequestFinalize DEF FinalizerOf, ArtifactAt, OutputAt, TraceAt, Do, On
<1>. QED BY <1>1, <1>2, <1>3, <1>4, <1>5, <1>6 DEF Layers

\* The first receipt names no trace.
LEMMA MvpTable ==
  \A i \in 1 .. Len(FinalizerOf("mvp")) :
    LET s == FinalizerOf("mvp")[i] IN Identifies(s) => s.file # "trace"
  BY DEF FinalizerOf, finalize, Do, On, Identifies

LEMMA ScheduleTable ==
  LET X == FinalizerOf("schedule")
  IN /\ X[3] = On("bound", "artifact") /\ X[4] = On("bound", "simulator")
     /\ X[6] = On("bound", "output") /\ X[8] = Do("lower_again") /\ Len(X) = 12
     /\ \A i \in 1 .. Len(X) : /\ X[i].do \in {"lower", "receipt"} => i = 1
                               /\ X[i].do = "lower_again" => i = 8
  BY At_ScheduleFinalize DEF FinalizerOf, Do, On

LEMMA ExclusiveTable ==
  ASSUME NEW l \in {"selected", "request"}
  PROVE  LET X == FinalizerOf(l)
         IN /\ Len(X) = 8 /\ X[7] = Do("exclusive") /\ X[8] = Do("write")
            /\ \A i \in 1 .. Len(X) : X[i].do # "create"
<1>1. CASE l = "selected"
  BY <1>1, At_SelectedFinalize DEF FinalizerOf, Do, On
<1>2. CASE l = "request"
  BY <1>2, At_RequestFinalize DEF FinalizerOf, Do, On
<1>. QED BY <1>1, <1>2

\* The operations a finalizer never makes.
LEMMA FinalizersOnly ==
  ASSUME NEW s \in FinalizeOperations
  PROVE  /\ Reads(s) /\ s.file = "artifact" => s.do = "check"
         /\ Identifies(s) /\ s.file = "artifact" => s.do = "check"
         /\ s.do \notin {"empty", "ready", "put", "second", "report", "finalize_copy", "receipt"}
  BY DEF FinalizeOperations, Do, On, Reads, Identifies

-----------------------------------------------------------------------------
\* A finalizer's own next operation.

\* A finalizer nobody disturbed has established one operation more.
LEMMA EstablishedOn ==
  ASSUME EvidenceTypeOK, NEW c \in CommandRecord, NEW x, x = Onward(c),
         CommandOK(c), DirectoryOK(c.dir),
         Finalizing(c), c.quiet, Passes(c, Head(c.todo)), Tail(c.todo) # <<>>,
         ver' = ver, evidence'[c.dir].files = evidence[c.dir].files,
         c.layer = "schedule" => receipts'[c.dir]["mvp"] = receipts[c.dir]["mvp"]
  PROVE  Established(x)'
<1>. DEFINE s == Head(c.todo)
            n == Onward(c)
            l == c.layer
            X == FinalizerOf(l)
            k == Steps(c)
            here == evidence[c.dir].files
<1>1. /\ l \in Layers /\ Script(c) = X /\ Established(c) /\ evidence[c.dir].ready
      /\ c.todo # <<>> /\ OnScript(c) /\ c.op = "finalize"
  BY DEF CommandOK, FinalizeOK, Finalizing, OnScript, Script
<1>2. /\ k \in 0 .. Len(X) - 1 /\ s = X[k + 1] /\ s \in FinalizeOperations
      /\ Len(X) \in Nat /\ k + 1 \in 1 .. Len(X)
  <2>1. /\ Len(X) \in Nat /\ k \in 0 .. Len(X) - 1 /\ s = X[k + 1] /\ s \in FinalizeOperations
    BY <1>1, NextOperation DEF OperationsOf
  <2>. HIDE DEF k, X, s
  <2>. QED BY <2>1
<1>3. n.dir = c.dir /\ n.layer = l /\ Steps(n) = k + 1
  <2>1. s.do # "second" /\ n.todo = Tail(c.todo)
    BY <1>2, FinalizersOnly, OnwardFields
  <2>. QED BY <1>1, <2>1, OnwardFields, OnwardTyped
<1>4. here \in [Files -> Digests] /\ \A f \in Files : File(c, f) = here[f]
  BY DEF EvidenceTypeOK, CommandRecord, DirectoryRecord, Contents, File
<1>5. c.checked \in [Files -> Digests] /\ c.named \in [Files -> Digests]
  BY DEF CommandRecord, Contents
<1>6. n.checked = Checked(c, s) /\ n.named = Named(c, s) /\ n.body = Body(c, s)
  BY OnwardFields
<1>7. /\ s.do \in FileVerbs => s.file \in Files
      /\ s.do # "second" /\ s.do # "finalize_copy" /\ s.do # "receipt"
  BY <1>1, <1>2, Whose, FinalizersOnly
<1>8. Reads(s) => s.file \in Files
  BY <1>7 DEF Reads, FileVerbs
<1>9. Identifies(s) => s.file \in Files
  BY <1>7 DEF Identifies, FileVerbs, Files
<1>10. /\ n.checked = IF Reads(s) THEN [c.checked EXCEPT ![s.file] = here[s.file]] ELSE c.checked
       /\ n.named = IF Identifies(s) THEN [c.named EXCEPT ![s.file] = here[s.file]] ELSE c.named
  BY <1>4, <1>6, <1>7, <1>8, <1>9, CheckedIs, NamedIs
<1>11. s = On("check", "artifact") =>
         here["artifact"] = ver /\ n.checked["artifact"] = ver /\ n.named["artifact"] = ver
  <2>1. SUFFICES ASSUME s = On("check", "artifact")
                 PROVE  here["artifact"] = ver /\ n.checked["artifact"] = ver
                        /\ n.named["artifact"] = ver
    OBVIOUS
  <2>2. s.do = "check" /\ s.file = "artifact" /\ Reads(s) /\ Identifies(s)
    BY <2>1 DEF On, Reads, Identifies
  <2>3. here["artifact"] = ver
    BY <1>4, <2>2, PassesIs DEF Files
  <2>. QED BY <1>5, <1>10, <2>2, <2>3 DEF Files
<1>12. s # On("check", "artifact") =>
         n.checked["artifact"] = c.checked["artifact"] /\ n.named["artifact"] = c.named["artifact"]
  <2>1. SUFFICES ASSUME s # On("check", "artifact")
                 PROVE  n.checked["artifact"] = c.checked["artifact"]
                        /\ n.named["artifact"] = c.named["artifact"]
    OBVIOUS
  <2>2. ~(s.do = "check" /\ s.file = "artifact")
    BY <1>2, <2>1 DEF FinalizeOperations, Do, On
  <2>3. (Reads(s) => s.file # "artifact") /\ (Identifies(s) => s.file # "artifact")
    BY <1>2, <2>2, FinalizersOnly
  <2>. QED BY <1>5, <1>10, <2>3
<1>. DEFINE atA == ArtifactAt(l)
            atO == OutputAt(l)
            atT == TraceAt(l)
<1>13. /\ X[atA] = On("check", "artifact")
       /\ X[atO] \in {On("equal", "output"), On("again", "output"), On("verify", "output")}
       /\ l # "mvp" => X[atT] \in {On("check", "trace"), On("verify", "trace")}
       /\ atA \in Nat /\ atO \in Nat /\ atT \in Nat /\ atA < atO /\ atA < atT
       /\ l = "mvp" => Len(X) < atT
  BY <1>1, FinalizeTable
<1>14. /\ k >= atA => here["artifact"] = ver /\ c.checked["artifact"] = ver /\ c.named["artifact"] = ver
       /\ k >= atO => here["output"] = Result(ver)
       /\ k >= atT => here["trace"] = Result(ver)
  BY <1>1 DEF Established
<1>15. k + 1 >= atA =>
         here["artifact"] = ver /\ n.checked["artifact"] = ver /\ n.named["artifact"] = ver
  <2>1. CASE s = On("check", "artifact")
    BY <1>11, <2>1
  <2>2. CASE s # On("check", "artifact")
    <3>1. k + 1 # atA
      BY <1>2, <1>13, <2>2
    <3>. HIDE DEF k, atA, here, n, s, X
    <3>2. k + 1 >= atA => k >= atA
      BY <1>2, <1>13, <3>1
    <3>. QED BY <1>12, <1>14, <2>2, <3>2
  <2>. QED BY <2>1, <2>2
<1>16. k + 1 >= atO => here["output"] = Result(ver)
  <2>1. CASE k + 1 = atO
    <3>1. s \in {On("equal", "output"), On("again", "output"), On("verify", "output")}
      BY <1>2, <1>13, <2>1
    <3>2. s.file = "output" /\ s.do \in {"equal", "again", "verify"}
      BY <3>1 DEF On
    <3>3. CASE s.do \in {"again", "verify"}
      BY <1>4, <3>2, <3>3, PassesIs DEF Files
    <3>4. CASE s.do = "equal"
      <4>1. here["output"] # "none" /\ here["output"] = here["oracle"]
        BY <1>4, <3>2, <3>4, PassesIs DEF Files
      <4>2. /\ here["output"] \in {"none", "wrong", Result(here["artifact"])}
            /\ here["oracle"] \in {"none", "right", "right1"}
        BY <1>1 DEF DirectoryOK, Artifact
      <4>3. here["output"] = Result(here["artifact"])
        BY <4>1, <4>2
      <4>4. k >= atA
        <5>. HIDE DEF k, atA, atO
        <5>. QED BY <1>2, <1>13, <2>1
      <4>. QED BY <1>14, <4>3, <4>4
    <3>. QED BY <3>2, <3>3, <3>4
  <2>2. CASE k + 1 # atO
    <3>. HIDE DEF k, atO, here
    <3>. QED BY <1>2, <1>13, <1>14, <2>2
  <2>. QED BY <2>1, <2>2
<1>17. k + 1 >= atT => here["trace"] = Result(ver)
  <2>1. CASE k + 1 = atT
    <3>1. l # "mvp"
      <4>. HIDE DEF k, atT, l, X
      <4>. QED BY <1>2, <1>13, <2>1
    <3>2. s.file = "trace" /\ s.do \in {"check", "verify"}
      BY <1>2, <1>13, <2>1, <3>1 DEF On
    <3>3. k >= atA
      <4>. HIDE DEF k, atA, atT
      <4>. QED BY <1>2, <1>13, <2>1
    <3>. QED BY <1>4, <1>14, <3>2, <3>3, PassesIs DEF Files
  <2>2. CASE k + 1 # atT
    <3>. HIDE DEF k, atT, here
    <3>. QED BY <1>2, <1>13, <1>14, <2>2
  <2>. QED BY <2>1, <2>2
<1>18. \A f \in Files : n.named[f] \in {"none", here[f]}
  <2>1. \A f \in Files : c.named[f] \in {"none", here[f]}
    BY <1>1 DEF Established
  <2>. QED BY <1>5, <1>9, <1>10, <2>1
<1>19. l = "mvp" => n.named["trace"] = "none"
  <2>1. SUFFICES ASSUME l = "mvp" PROVE n.named["trace"] = "none"
    OBVIOUS
  <2>2. c.named["trace"] = "none"
    BY <1>1, <2>1 DEF Established
  <2>3. Identifies(s) => s.file # "trace"
    BY <1>2, <2>1, MvpTable
  <2>. QED BY <1>5, <1>10, <2>2, <2>3
<1>20. l = "schedule" =>
         /\ k + 1 >= 3 => n.body["artifact"] = ver
         /\ k + 1 >= 4 => n.body["simulator"] = here["simulator"]
         /\ k + 1 >= 6 => n.body["output"] = here["output"]
         /\ k + 1 >= 8 => n.lower = receipts[c.dir]["mvp"].body
  <2>1. SUFFICES ASSUME l = "schedule"
                 PROVE  /\ k + 1 >= 3 => n.body["artifact"] = ver
                        /\ k + 1 >= 4 => n.body["simulator"] = here["simulator"]
                        /\ k + 1 >= 6 => n.body["output"] = here["output"]
                        /\ k + 1 >= 8 => n.lower = receipts[c.dir]["mvp"].body
    OBVIOUS
  <2>2. /\ X[3] = On("bound", "artifact") /\ X[4] = On("bound", "simulator")
        /\ X[6] = On("bound", "output") /\ X[8] = Do("lower_again")
        /\ s.do \in {"lower", "receipt"} => k + 1 = 1
        /\ s.do = "lower_again" => k + 1 = 8
    BY <1>2, <2>1, ScheduleTable
  <2>3. /\ k >= 3 => c.body["artifact"] = ver
        /\ k >= 4 => c.body["simulator"] = here["simulator"]
        /\ k >= 6 => c.body["output"] = here["output"]
        /\ k >= 8 => c.lower = receipts[c.dir]["mvp"].body
    BY <1>1, <2>1 DEF Established
  <2>4. k + 1 # 1 => n.body = c.body
    BY <1>6, <2>2, BodyIs
  <2>5. n.lower = IF s.do = "lower_again" THEN receipts[c.dir]["mvp"].body ELSE c.lower
    BY OnwardFields DEF Base
  <2>6. k + 1 = 3 => n.body["artifact"] = ver
    <3>1. SUFFICES ASSUME k + 1 = 3 PROVE n.body["artifact"] = ver
      OBVIOUS
    <3>2. s = On("bound", "artifact") /\ k + 1 # 1
      BY <1>2, <2>2, <3>1
    <3>3. here["artifact"] = c.body["artifact"]
      BY <1>4, <3>2, PassesIs DEF On, Files
    <3>4. k + 1 >= atA
      BY <2>1, <3>1 DEF ArtifactAt
    <3>. QED BY <1>15, <2>4, <3>2, <3>3, <3>4
  <2>7. k + 1 = 4 => n.body["simulator"] = here["simulator"]
    <3>1. SUFFICES ASSUME k + 1 = 4 PROVE n.body["simulator"] = here["simulator"]
      OBVIOUS
    <3>2. s = On("bound", "simulator") /\ k + 1 # 1
      BY <1>2, <2>2, <3>1
    <3>. QED BY <1>4, <2>4, <3>2, PassesIs DEF On, Files
  <2>8. k + 1 = 6 => n.body["output"] = here["output"]
    <3>1. SUFFICES ASSUME k + 1 = 6 PROVE n.body["output"] = here["output"]
      OBVIOUS
    <3>2. s = On("bound", "output") /\ k + 1 # 1
      BY <1>2, <2>2, <3>1
    <3>. QED BY <1>4, <2>4, <3>2, PassesIs DEF On, Files
  <2>9. k + 1 = 8 => n.lower = receipts[c.dir]["mvp"].body
    BY <1>2, <2>2, <2>5 DEF Do
  <2>10. k + 1 # 8 => n.lower = c.lower
    BY <2>2, <2>5
  <2>. HIDE DEF k, n, here, s, X, l
  <2>. QED BY <1>2, <2>3, <2>4, <2>6, <2>7, <2>8, <2>9, <2>10
<1>21. receipts'[c.dir]["mvp"].body = receipts[c.dir]["mvp"].body \/ l # "schedule"
  OBVIOUS
<1>22. /\ evidence'[n.dir].files = here /\ n.layer = l /\ Steps(n) = k + 1 /\ n.dir = c.dir
  BY <1>3
<1>. HIDE DEF n, k, l, here, X, s, atA, atO, atT
<1>23. /\ Steps(n) >= ArtifactAt(n.layer) =>
            here["artifact"] = ver' /\ n.checked["artifact"] = ver' /\ n.named["artifact"] = ver'
       /\ Steps(n) >= OutputAt(n.layer) => here["output"] = Result(ver')
       /\ Steps(n) >= TraceAt(n.layer) => here["trace"] = Result(ver')
  BY <1>15, <1>16, <1>17, <1>22 DEF atA, atO, atT
<1>24. n.layer = "schedule" =>
          /\ Steps(n) >= 3 => n.body["artifact"] = ver'
          /\ Steps(n) >= 4 => n.body["simulator"] = here["simulator"]
          /\ Steps(n) >= 6 => n.body["output"] = here["output"]
          /\ Steps(n) >= 8 => n.lower = receipts'[n.dir]["mvp"].body
  BY <1>20, <1>21, <1>22
<1>25. n = x
  BY DEF n
<1>. QED BY <1>18, <1>19, <1>22, <1>23, <1>24, <1>25 DEF Established

-----------------------------------------------------------------------------
\* What the other commands see of an operation.

\* The directory after an operation that passed.
LEMMA WorldAfter ==
  ASSUME EvidenceIInv, NEW p \in Procs, procs[p].todo # <<>>, Advances(p), NEW d \in EvidenceDirs
  PROVE  LET c == procs[p]
             s == Head(c.todo)
         IN /\ evidence[d].ready => evidence'[d].ready
            /\ evidence'[d].ready => evidence[d].ready \/ (s.do = "ready" /\ d = c.dir)
            /\ evidence[d].kind # "none" => evidence'[d].kind # "none"
            /\ evidence[d].files["oracle"] # "none" => evidence'[d].files["oracle"] # "none"
            /\ ~(Disturbs(s) /\ d = c.dir) =>
                 /\ evidence'[d].files = evidence[d].files /\ receipts'[d] = receipts[d]
            /\ s.do # "put" => evidence'[d].files = evidence[d].files
<1>. DEFINE c == procs[p]
            s == Head(c.todo)
            here == evidence[c.dir]
<1>1. /\ c \in CommandRecord /\ OnScript(c) /\ c.dir \in EvidenceDirs /\ here \in DirectoryRecord
      /\ evidence \in [EvidenceDirs -> DirectoryRecord]
  BY DEF EvidenceIInv, EvidenceTypeOK, CommandsOK, CommandOK, CommandRecord
<1>2. evidence'[d] = IF d = c.dir THEN Worked(c, s) ELSE evidence[d]
  BY <1>1 DEF Advances
<1>3. /\ s.do = "empty" => c.op \in Kinds
      /\ s.do = "put" => s.file \in Files
  BY <1>1, Whose DEF FileVerbs
<1>4. "none" \notin Kinds
  BY EvidenceConstants
<1>5. CASE d # c.dir
  <2>1. evidence'[d] = evidence[d]
    BY <1>2, <1>5
  <2>2. receipts'[d] = receipts[d]
    <3>1. \A l \in Layers : receipts'[d][l] = receipts[d][l]
      BY <1>5 DEF Advances
    <3>2. receipts'[d] \in [Layers -> ReceiptRecord] /\ receipts[d] \in [Layers -> ReceiptRecord]
      BY DEF Advances, EvidenceIInv, EvidenceTypeOK
    <3>. QED BY <3>1, <3>2
  <2>. QED BY <1>5, <2>1, <2>2
<1>6. CASE d = c.dir
  <2>1. evidence'[d] = Worked(c, s) /\ evidence[d] = here
    BY <1>2, <1>6
  <2>2. ~Disturbs(s) => receipts'[d] = receipts[d]
    <3>1. SUFFICES ASSUME ~Disturbs(s) PROVE receipts'[d] = receipts[d]
      OBVIOUS
    <3>2. ReceiptAfter(c, s) = Receipt(c)
      BY <3>1 DEF Disturbs, ReceiptAfter
    <3>3. \A l \in Layers : receipts'[d][l] = receipts[d][l]
      BY <1>6, <3>2 DEF Advances, Receipt
    <3>4. receipts'[d] \in [Layers -> ReceiptRecord] /\ receipts[d] \in [Layers -> ReceiptRecord]
      BY DEF Advances, EvidenceIInv, EvidenceTypeOK
    <3>. QED BY <3>3, <3>4
  <2>3. CASE s.do = "empty"
    <3>1. Worked(c, s) = [here EXCEPT !.kind = c.op, !.request = c.asked[1]]
      BY <2>3, WorkedIs
    <3>2. /\ Worked(c, s).ready = here.ready /\ Worked(c, s).files = here.files
          /\ Worked(c, s).kind # "none"
      BY <1>1, <1>3, <1>4, <2>3, <3>1 DEF DirectoryRecord
    <3>. QED BY <1>6, <2>1, <2>2, <2>3, <3>2 DEF Disturbs
  <2>4. CASE s.do = "ready"
    <3>1. Worked(c, s) = [here EXCEPT !.ready = TRUE]
      BY <2>4, WorkedIs
    <3>2. /\ Worked(c, s).ready /\ Worked(c, s).files = here.files
          /\ Worked(c, s).kind = here.kind
      BY <1>1, <3>1 DEF DirectoryRecord
    <3>. QED BY <1>6, <2>1, <2>2, <2>4, <3>2 DEF Disturbs
  <2>5. CASE s.do = "put"
    <3>1. Worked(c, s) = [here EXCEPT !.files[s.file] = Content(c, s.file)]
      <4>. HIDE DEF c, s
      <4>. QED BY <2>5, WorkedIs
    <3>2. /\ Worked(c, s).ready = here.ready /\ Worked(c, s).kind = here.kind
          /\ Worked(c, s).files = [here.files EXCEPT ![s.file] = Content(c, s.file)]
      BY <1>1, <3>1 DEF DirectoryRecord
    <3>3. here.files["oracle"] # "none" => Worked(c, s).files["oracle"] # "none"
      BY <1>1, <1>3, <2>5, <3>2, ContentIs, ResultTyped DEF DirectoryRecord, Contents, Files
    <3>. QED BY <1>6, <2>1, <2>2, <2>5, <3>2, <3>3 DEF Disturbs
  <2>6. CASE s.do \notin {"empty", "ready", "put"}
    <3>1. Worked(c, s) = here
      BY <2>6, WorkedIs
    <3>. QED BY <1>6, <2>1, <2>2, <2>6, <3>1 DEF Disturbs
  <2>. QED BY <2>3, <2>4, <2>5, <2>6
<1>. QED BY <1>5, <1>6

\* The invariant of the commands that did not move.
LEMMA OthersKept ==
  ASSUME EvidenceIInv, NEW p \in Procs, procs[p].todo # <<>>, Advances(p), NEW q \in Procs, q # p
  PROVE  CommandOK(procs[q])' /\ procs'[q] \in CommandRecord
<1>. DEFINE c == procs[q]
            s == Head(procs[p].todo)
<1>. SUFFICES ASSUME NEW x, x = procs'[q] PROVE CommandOK(x)' /\ x \in CommandRecord
  OBVIOUS
<1>1. /\ c \in CommandRecord /\ CommandOK(c) /\ c.dir \in EvidenceDirs
      /\ procs[p] \in CommandRecord /\ OnScript(procs[p])
  BY DEF EvidenceIInv, EvidenceTypeOK, CommandsOK, CommandOK, CommandRecord
<1>2. x = IF Disturbs(s) /\ c.dir = procs[p].dir THEN [c EXCEPT !.quiet = FALSE] ELSE c
  BY DEF Advances
<1>3. /\ x \in CommandRecord
      /\ x.op = c.op /\ x.dir = c.dir /\ x.layer = c.layer /\ x.asked = c.asked /\ x.todo = c.todo
      /\ x.checked = c.checked /\ x.named = c.named /\ x.lower = c.lower /\ x.body = c.body
      /\ x.put = c.put /\ (x.quiet => c.quiet /\ ~(Disturbs(s) /\ c.dir = procs[p].dir))
  <2>. HIDE DEF c, s
  <2>1. CASE Disturbs(s) /\ c.dir = procs[p].dir
    BY <1>1, <1>2, <2>1 DEF CommandRecord
  <2>2. CASE ~(Disturbs(s) /\ c.dir = procs[p].dir)
    BY <1>1, <1>2, <2>2
  <2>. QED BY <2>1, <2>2
<1>4. x.quiet => /\ ver' = ver /\ evidence'[c.dir].files = evidence[c.dir].files
                 /\ receipts'[c.dir] = receipts[c.dir]
  BY <1>1, <1>3, WorldAfter DEF Advances
<1>5. /\ evidence[c.dir].ready => evidence'[c.dir].ready
      /\ evidence[c.dir].kind # "none" => evidence'[c.dir].kind # "none"
      /\ evidence[c.dir].files["oracle"] # "none" => evidence'[c.dir].files["oracle"] # "none"
  BY <1>1, WorldAfter
<1>6. Preparing(c) => (evidence'[c.dir].ready => evidence[c.dir].ready)
  <2>1. SUFFICES ASSUME Preparing(c) PROVE s.do # "ready"
    BY <1>1, WorldAfter
  <2>2. ~Preparing(procs[p])
    BY <2>1 DEF EvidenceIInv, PrepareAlone
  <2>. QED BY <1>1, <2>2, Whose DEF Preparing
<1>. HIDE DEF c, s
<1>7. CommandOK(x)'
  BY <1>1, <1>3, <1>4, <1>5, <1>6, CommandKept
<1>. QED BY <1>3, <1>7

\* A process without a command.
LEMMA IdleOK == Idle \in CommandRecord /\ CommandOK(Idle) /\ CommandOK(Idle)'
<1>1. /\ Idle.todo = <<>> /\ Idle.op = "idle" /\ Idle.layer = "none" /\ Idle.dir = 1 /\ Idle.asked = <<>>
      /\ Idle.named["oracle"] = "none" /\ Idle.body["oracle"] = "none"
  BY DEF Idle, Nothing, Files
<1>2. Idle \in CommandRecord
  <2>1. <<>> \in Seq(Requested) /\ <<>> \in Seq(Operations)
    OBVIOUS
  <2>. QED BY <2>1, NothingTyped DEF Idle, CommandRecord, Commands, EvidenceDirs
<1>3. OnScript(Idle)
  BY <1>1 DEF OnScript
<1>. QED BY <1>1, <1>2, <1>3 DEF CommandOK, PrepareOK, Preparing, SimulateOK, FinalizeOK, Finalizing

\* The command that did the operation.
LEMMA OwnKept ==
  ASSUME EvidenceIInv, NEW p \in Procs, procs[p].todo # <<>>, Advances(p)
  PROVE  CommandOK(procs[p])' /\ procs'[p] \in CommandRecord
<1>. DEFINE c == procs[p]
            s == Head(c.todo)
<1>. SUFFICES ASSUME NEW x, x = procs'[p] PROVE CommandOK(x)' /\ x \in CommandRecord
  OBVIOUS
<1>1. /\ c \in CommandRecord /\ CommandOK(c) /\ OnScript(c) /\ c.dir \in EvidenceDirs /\ c.todo # <<>>
      /\ EvidenceTypeOK /\ DirectoryOK(c.dir)
  BY DEF EvidenceIInv, EvidenceTypeOK, CommandsOK, CommandOK, CommandRecord, DirectoriesOK
<1>2. Passes(c, s) /\ ver' = ver /\ x = IF Tail(c.todo) = <<>> THEN Idle ELSE Onward(c)
  BY DEF Advances
<1>3. CASE Tail(c.todo) = <<>>
  BY <1>2, <1>3, IdleOK
<1>4. CASE Tail(c.todo) # <<>>
  <2>1. x = Onward(c)
    BY <1>2, <1>4
  <2>2. /\ x \in CommandRecord /\ OnScript(x) /\ x.todo = Tail(c.todo) /\ x.todo # <<>>
        /\ Steps(x) = Steps(c) + 1 /\ x.op = c.op /\ x.layer = c.layer /\ x.put = c.put
        /\ x.quiet = c.quiet /\ x.named = Named(c, s) /\ x.body = Body(c, s)
        /\ s.do # "second" => x.dir = c.dir
    BY <1>1, <1>4, <2>1, OnwardTyped, OnwardFields
  <2>3. /\ s.do = "second" => c.op = "run_pair"
        /\ s.do = "receipt" => c.op \in Presenters
        /\ Identifies(s) => s.file \in Files \ {"oracle"}
    BY <1>1, Whose
  <2>4. c.op \in Kinds \union {"simulate", "finalize"} => s.do # "second"
    BY <2>3, EvidenceConstants
  <2>5. x.named["oracle"] = "none"
    <3>1. c.named["oracle"] = "none" /\ c.named \in [Files -> Digests]
      BY <1>1 DEF CommandOK, CommandRecord, Contents
    <3>2. Nothing["oracle"] = "none"
      BY DEF Nothing, Files
    <3>3. CASE Identifies(s)
      <4>1. x.named = [c.named EXCEPT ![s.file] = File(c, s.file)]
        BY <2>2, <3>3, NamedIs
      <4>. QED BY <2>3, <3>1, <3>3, <4>1 DEF Files
    <3>4. CASE ~Identifies(s)
      BY <2>2, <3>1, <3>2, <3>4, NamedIs
    <3>. QED BY <3>3, <3>4
  <2>6. x.body["oracle"] = "none"
    <3>1. \A l \in Layers : receipts[c.dir][l].body["oracle"] = "none"
      BY <1>1 DEF DirectoryOK
    <3>2. s.do = "receipt" => c.layer \in Layers
      BY <1>1, <2>3 DEF OnScript
    <3>3. c.body["oracle"] = "none"
      BY <1>1 DEF CommandOK
    <3>. QED BY <2>2, <3>1, <3>2, <3>3, BodyIs DEF Base, Receipt, Layers
  <2>7. PrepareOK(x)'
    <3>1. SUFFICES ASSUME c.op \in Kinds
                   PROVE  /\ ~evidence'[x.dir].ready
                          /\ Steps(x) > First(c.op) => evidence'[x.dir].kind # "none"
                          /\ Steps(x) > First(c.op) + 2 => evidence'[x.dir].files["oracle"] # "none"
      BY <2>2 DEF PrepareOK, Preparing
    <3>. DEFINE X == PrepareOf(c.op)
                k == Steps(c)
                n == First(c.op)
    <3>2. /\ k \in 0 .. Len(X) - 1 /\ Len(X) \in Nat /\ s = X[k + 1]
          /\ Tail(c.todo) = <<>> <=> k + 1 = Len(X)
      <4>1. Script(c) = X
        BY <3>1, EvidenceConstants DEF Script
      <4>. QED BY <1>1, <4>1, NextOperation
    <3>3. /\ n \in {0, 1} /\ X[n + 1] = Do("empty") /\ X[n + 3] = On("put", "oracle")
          /\ \A i \in 1 .. Len(X) : X[i].do = "ready" => i = Len(X)
      BY <3>1, PrepareTable
    <3>4. s.do # "ready"
      <4>. HIDE DEF k, X, n, s
      <4>1. k + 1 \in 1 .. Len(X)
        BY <3>2
      <4>. QED BY <1>4, <3>2, <3>3, <4>1
    <3>5. /\ ~evidence[c.dir].ready
          /\ k > n => evidence[c.dir].kind # "none"
          /\ k > n + 2 => evidence[c.dir].files["oracle"] # "none"
      BY <1>1, <3>1 DEF CommandOK, PrepareOK, Preparing
    <3>6. x.dir = c.dir
      BY <2>2, <2>4, <3>1
    <3>7. evidence' = [evidence EXCEPT ![c.dir] = Worked(c, s)] /\ evidence[c.dir] \in DirectoryRecord
          /\ evidence \in [EvidenceDirs -> DirectoryRecord]
      BY <1>1 DEF Advances, EvidenceTypeOK
    <3>8. k = n => evidence'[c.dir].kind # "none"
      <4>1. SUFFICES ASSUME k = n PROVE evidence'[c.dir].kind # "none"
        OBVIOUS
      <4>2. s.do = "empty"
        BY <3>2, <3>3, <4>1 DEF Do
      <4>3. evidence'[c.dir] = [evidence[c.dir] EXCEPT !.kind = c.op, !.request = c.asked[1]]
        BY <1>1, <3>7, <4>2, WorkedIs
      <4>. HIDE DEF c, s
      <4>4. evidence'[c.dir].kind = c.op
        BY <3>7, <4>3 DEF DirectoryRecord
      <4>. QED BY <3>1, <4>4, EvidenceConstants
    <3>9. k = n + 2 => evidence'[c.dir].files["oracle"] # "none"
      <4>1. SUFFICES ASSUME k = n + 2 PROVE evidence'[c.dir].files["oracle"] # "none"
        OBVIOUS
      <4>2. k + 1 = n + 3
        <5>. HIDE DEF k, n
        <5>. QED BY <3>3, <4>1
      <4>3. s.do = "put" /\ s.file = "oracle"
        BY <3>2, <3>3, <4>2 DEF On
      <4>. HIDE DEF c, s, k, n, X
      <4>4. evidence'[c.dir] = [evidence[c.dir] EXCEPT !.files["oracle"] = Content(c, "oracle")]
        <5>1. evidence'[c.dir] = Worked(c, s)
          BY <1>1, <3>7
        <5>2. Worked(c, s) = [evidence[c.dir] EXCEPT !.files[s.file] = Content(c, s.file)]
          BY <4>3, WorkedIs
        <5>. QED BY <4>3, <5>1, <5>2
      <4>. QED BY <3>7, <4>4, ContentIs, ResultTyped DEF DirectoryRecord, Contents, Files
    <3>10. /\ ~evidence'[c.dir].ready
           /\ evidence[c.dir].kind # "none" => evidence'[c.dir].kind # "none"
           /\ evidence[c.dir].files["oracle"] # "none" => evidence'[c.dir].files["oracle"] # "none"
      BY <1>1, <3>4, <3>5, WorldAfter
    <3>11. Steps(x) = k + 1
      BY <2>2
    <3>. HIDE DEF k, n, X, s, c
    <3>12. Steps(x) > n => evidence'[c.dir].kind # "none"
      BY <3>2, <3>3, <3>5, <3>8, <3>10, <3>11
    <3>13. Steps(x) > n + 2 => evidence'[c.dir].files["oracle"] # "none"
      BY <3>2, <3>3, <3>5, <3>9, <3>10, <3>11
    <3>. QED BY <3>6, <3>10, <3>12, <3>13 DEF n
  <2>8. SimulateOK(x)'
    <3>1. SUFFICES ASSUME c.op = "simulate"
                   PROVE  /\ evidence'[x.dir].ready
                          /\ c.put["output"] \in {"none", "wrong"} /\ c.put["trace"] \in {"none", "wrong"}
      BY <2>2 DEF SimulateOK
    <3>2. x.dir = c.dir
      BY <2>2, <2>4, <3>1
    <3>. QED BY <1>1, <3>1, <3>2, WorldAfter DEF CommandOK, SimulateOK
  <2>9. FinalizeOK(x)'
    <3>1. SUFFICES ASSUME c.op = "finalize"
                   PROVE  evidence'[x.dir].ready /\ (x.quiet => Established(x)')
      BY <2>2 DEF FinalizeOK, Finalizing
    <3>2. x.dir = c.dir /\ Finalizing(c)
      BY <1>1, <2>2, <2>4, <3>1 DEF Finalizing
    <3>3. evidence[c.dir].ready /\ evidence'[c.dir].ready
      BY <1>1, <3>2, WorldAfter DEF CommandOK, FinalizeOK
    <3>4. ASSUME x.quiet PROVE Established(x)'
      <4>1. s \in FinalizeOperations
        BY <1>1, <3>1, NextOperation DEF OperationsOf
      <4>2. evidence'[c.dir].files = evidence[c.dir].files
        BY <1>1, <4>1, FinalizersOnly, WorldAfter
      <4>3. c.layer = "schedule" => receipts'[c.dir]["mvp"] = receipts[c.dir]["mvp"]
        BY <1>1 DEF Advances, Layers
      <4>. HIDE DEF c
      <4>. QED BY <1>1, <1>2, <1>4, <2>1, <2>2, <3>2, <3>4, <4>2, <4>3, EstablishedOn DEF s
    <3>. QED BY <3>2, <3>3, <3>4
  <2>. QED BY <2>2, <2>5, <2>6, <2>7, <2>8, <2>9 DEF CommandOK
<1>. QED BY <1>3, <1>4

-----------------------------------------------------------------------------
\* The directory it worked on.

\* A receipt is whole only in a directory that is ready.
LEMMA ReceiptsKept ==
  ASSUME EvidenceIInv, NEW p \in Procs, procs[p].todo # <<>>, Advances(p), NEW d \in EvidenceDirs,
         NEW l \in Layers
  PROVE  /\ receipts'[d][l].state = "whole" => evidence'[d].ready
         /\ receipts'[d][l].body["oracle"] = "none"
<1>. DEFINE c == procs[p]
            s == Head(c.todo)
<1>1. /\ c \in CommandRecord /\ CommandOK(c) /\ OnScript(c) /\ c.todo # <<>> /\ DirectoryOK(d)
  BY DEF EvidenceIInv, EvidenceTypeOK, CommandsOK, CommandOK, DirectoriesOK
<1>2. evidence[d].ready => evidence'[d].ready
  BY WorldAfter
<1>3. receipts[d][l].body["oracle"] = "none" /\ (receipts[d][l].state = "whole" => evidence[d].ready)
  BY <1>1 DEF DirectoryOK
<1>4. receipts'[d][l] = IF d = c.dir /\ l = c.layer THEN ReceiptAfter(c, s) ELSE receipts[d][l]
  BY DEF Advances
<1>5. CASE d = c.dir /\ l = c.layer /\ s.do \in {"create", "exclusive"}
  <2>1. receipts'[d][l] = Torn
    BY <1>4, <1>5 DEF ReceiptAfter
  <2>2. Torn.state = "torn" /\ Torn.body = Nothing
    BY DEF Torn, NoReceipt
  <2>. QED BY <2>1, <2>2 DEF Nothing, Files
<1>6. CASE d = c.dir /\ l = c.layer /\ s.do = "write"
  <2>1. receipts'[d][l] = Written(c)
    BY <1>4, <1>6 DEF ReceiptAfter
  <2>2. c.op = "finalize"
    BY <1>1, <1>6, Whose
  <2>3. evidence[d].ready
    BY <1>1, <1>6, <2>2 DEF CommandOK, FinalizeOK, Finalizing
  <2>4. c.body["oracle"] = "none" /\ c.named["oracle"] = "none" /\ c.body \in [Files -> Digests]
    BY <1>1 DEF CommandOK, CommandRecord, Contents
  <2>5. Written(c).body["oracle"] = "none"
    BY <2>4 DEF Written, Files
  <2>. QED BY <1>2, <2>1, <2>3, <2>5
<1>7. CASE ~(d = c.dir /\ l = c.layer) \/ s.do \notin {"create", "exclusive", "write"}
  <2>1. receipts'[d][l] = receipts[d][l]
    BY <1>4, <1>7 DEF ReceiptAfter, Receipt
  <2>. QED BY <1>2, <1>3, <2>1
<1>. QED BY <1>5, <1>6, <1>7

\* The invariant of the directories after an operation.
LEMMA DirectoriesKept ==
  ASSUME EvidenceIInv, NEW p \in Procs, procs[p].todo # <<>>, Advances(p), NEW d \in EvidenceDirs
  PROVE  DirectoryOK(d)' /\ evidence'[d] \in DirectoryRecord
<1>. DEFINE c == procs[p]
            s == Head(c.todo)
            here == evidence[c.dir]
            w == Worked(c, s)
<1>1. /\ c \in CommandRecord /\ CommandOK(c) /\ OnScript(c) /\ c.todo # <<>> /\ c.dir \in EvidenceDirs
      /\ DirectoryOK(d) /\ EvidenceTypeOK
      /\ evidence \in [EvidenceDirs -> DirectoryRecord]
  BY DEF EvidenceIInv, EvidenceTypeOK, CommandsOK, CommandOK, DirectoriesOK, CommandRecord
<1>2. \A l \in Layers : /\ receipts'[d][l].state = "whole" => evidence'[d].ready
                        /\ receipts'[d][l].body["oracle"] = "none"
  BY ReceiptsKept
<1>3. evidence'[d] = IF d = c.dir THEN w ELSE evidence[d]
  BY <1>1 DEF Advances
<1>4. w \in DirectoryRecord
  BY <1>1, WorkedTyped
<1>5. evidence'[d] \in DirectoryRecord
  BY <1>1, <1>3, <1>4
<1>6. SUFFICES LET new == evidence'[d]
               IN /\ new.files["oracle"] \in {"none", "right", "right1"}
                  /\ new.ready => /\ new.kind # "none" /\ new.files["oracle"] # "none"
                                  /\ \A f \in {"output", "trace"} :
                                       new.files[f] \in {"none", "wrong", Result(new.files["artifact"])}
                  /\ ~new.ready => new.files["output"] = "none" /\ new.files["trace"] = "none"
  BY <1>2, <1>5 DEF DirectoryOK, Artifact
<1>7. /\ evidence[d].files["oracle"] \in {"none", "right", "right1"}
      /\ evidence[d].ready =>
           /\ evidence[d].kind # "none" /\ evidence[d].files["oracle"] # "none"
           /\ \A f \in {"output", "trace"} :
                evidence[d].files[f] \in {"none", "wrong", Result(evidence[d].files["artifact"])}
      /\ ~evidence[d].ready => evidence[d].files["output"] = "none" /\ evidence[d].files["trace"] = "none"
  BY <1>1 DEF DirectoryOK, Artifact
<1>8. CASE d # c.dir
  BY <1>3, <1>7, <1>8
<1>9. CASE d = c.dir /\ s.do \notin {"ready", "put"}
  <2>1. /\ evidence'[d].files = evidence[d].files /\ (evidence'[d].ready <=> evidence[d].ready)
        /\ evidence[d].kind # "none" => evidence'[d].kind # "none"
    BY <1>9, WorldAfter
  <2>. QED BY <1>7, <2>1
<1>10. CASE d = c.dir /\ s.do = "ready"
  <2>. DEFINE X == PrepareOf(c.op)
              k == Steps(c)
              n == First(c.op)
  <2>1. c.op \in Kinds
    BY <1>1, <1>10, Whose
  <2>2. Script(c) = X
    BY <2>1, EvidenceConstants DEF Script
  <2>3. k \in 0 .. Len(X) - 1 /\ Len(X) \in Nat /\ s = X[k + 1]
    BY <1>1, <2>2, NextOperation
  <2>4. n \in {0, 1} /\ Len(X) > n + 3 /\ \A i \in 1 .. Len(X) : X[i].do = "ready" => i = Len(X)
    BY <2>1, PrepareTable
  <2>5. k > n /\ k > n + 2
    <3>. HIDE DEF k, n, X, s, c
    <3>1. k + 1 \in 1 .. Len(X)
      BY <2>3
    <3>2. k + 1 = Len(X)
      BY <1>10, <2>3, <2>4, <3>1
    <3>. QED BY <2>3, <2>4, <3>2
  <2>6. ~here.ready /\ here.kind # "none" /\ here.files["oracle"] # "none"
    BY <1>1, <2>1, <2>5 DEF CommandOK, PrepareOK, Preparing
  <2>7. here.files["output"] = "none" /\ here.files["trace"] = "none"
    BY <1>7, <1>10, <2>6
  <2>8. evidence'[d].files = here.files /\ evidence'[d].kind # "none"
    BY <1>10, <2>6, WorldAfter
  <2>9. evidence'[d].ready
    <3>1. w = [here EXCEPT !.ready = TRUE]
      BY <1>10, WorkedIs
    <3>. HIDE DEF w, c, s
    <3>. QED BY <1>1, <1>3, <1>10, <3>1 DEF DirectoryRecord
  <2>. HIDE DEF c, s, w
  <2>. QED BY <1>7, <1>10, <2>6, <2>7, <2>8, <2>9
<1>11. CASE d = c.dir /\ s.do = "put"
  <2>. DEFINE g == s.file
              v == Content(c, s.file)
  <2>1. evidence'[d] = [here EXCEPT !.files[g] = v]
    <3>1. w = [here EXCEPT !.files[g] = v]
      <4>. HIDE DEF c, s
      <4>. QED BY <1>11, WorkedIs DEF w
    <3>. QED BY <1>3, <1>11, <3>1
  <2>2. here \in DirectoryRecord /\ here.files \in [Files -> Digests]
    BY <1>1 DEF DirectoryRecord, Contents
  <2>3. /\ evidence'[d].ready = here.ready /\ evidence'[d].kind = here.kind
        /\ evidence'[d].files = [here.files EXCEPT ![g] = v]
    <3>. HIDE DEF here, g, v
    <3>. QED BY <2>1, <2>2 DEF DirectoryRecord
  <2>4. v \in {"none", "wrong", Result(here.files["artifact"])} \/ g \notin {"output", "trace"}
    <3>1. SUFFICES ASSUME g \in {"output", "trace"}
                   PROVE  v \in {"none", "wrong", Result(here.files["artifact"])}
      OBVIOUS
    <3>2. c.op = "simulate"
      BY <1>1, <1>11, <3>1, Whose
    <3>3. c.put["output"] \in {"none", "wrong"} /\ c.put["trace"] \in {"none", "wrong"}
      BY <1>1, <3>2 DEF CommandOK, SimulateOK
    <3>4. v = IF c.put[g] # "none" THEN c.put[g] ELSE Result(here.files["artifact"])
      BY <3>1, ContentIs DEF File
    <3>. HIDE DEF v, g, here, c, s
    <3>. QED BY <3>1, <3>3, <3>4
  <2>5. /\ g = "oracle" => v \in {"right", "right1"}
        /\ g \in Files
    BY <1>1, <1>11, ContentIs, ResultTyped, Whose DEF FileVerbs
  <2>6. \/ here.ready /\ g \in {"simulator", "trace", "output"}
        \/ ~here.ready /\ g \in {"artifact", "oracle"}
    <3>1. \/ c.op \in Kinds /\ g \in {"artifact", "oracle"}
          \/ c.op = "simulate" /\ g \in {"simulator", "trace", "output"}
      BY <1>1, <1>11, Whose
    <3>2. /\ c.op \in Kinds => ~here.ready
          /\ c.op = "simulate" => here.ready
      BY <1>1 DEF CommandOK, PrepareOK, Preparing, SimulateOK
    <3>. HIDE DEF g, here, c, s
    <3>. QED BY <3>1, <3>2
  <2>7. here = evidence[d]
    BY <1>11
  <2>. HIDE DEF c, s, w, g, v, here
  <2>8. CASE here.ready /\ g \in {"simulator", "trace", "output"}
    <3>1. /\ evidence'[d].files["oracle"] = here.files["oracle"]
          /\ evidence'[d].files["artifact"] = here.files["artifact"]
          /\ \A f \in {"output", "trace"} : evidence'[d].files[f] = IF f = g THEN v ELSE here.files[f]
      BY <2>2, <2>3, <2>8 DEF Files
    <3>. QED BY <1>7, <2>3, <2>4, <2>7, <2>8, <3>1
  <2>9. CASE ~here.ready /\ g \in {"artifact", "oracle"}
    <3>1. /\ evidence'[d].files["oracle"] = IF g = "oracle" THEN v ELSE here.files["oracle"]
          /\ \A f \in {"output", "trace"} : evidence'[d].files[f] = here.files[f]
      BY <2>2, <2>3, <2>9 DEF Files
    <3>. QED BY <1>7, <2>3, <2>5, <2>7, <2>9, <3>1
  <2>. QED BY <2>6, <2>8, <2>9
<1>. QED BY <1>8, <1>9, <1>10, <1>11

-----------------------------------------------------------------------------
\* The exclusive receipts.

\* A command after another process moved, or its own next operation.
LEMMA WhoWas ==
  ASSUME EvidenceIInv, NEW p \in Procs, procs[p].todo # <<>>, Advances(p), NEW q \in Procs,
         procs'[q].todo # <<>>
  PROVE  /\ procs[q].todo # <<>> /\ procs'[q].op = procs[q].op /\ procs'[q].layer = procs[q].layer
         /\ procs[q].op = "finalize" => procs'[q].dir = procs[q].dir
         /\ Steps(procs'[q]) = IF q = p THEN Steps(procs[q]) + 1 ELSE Steps(procs[q])
<1>. DEFINE c == procs[q]
            s == Head(procs[p].todo)
<1>. SUFFICES ASSUME NEW x, x = procs'[q]
              PROVE  /\ c.todo # <<>> /\ x.op = c.op /\ x.layer = c.layer
                     /\ c.op = "finalize" => x.dir = c.dir
                     /\ Steps(x) = IF q = p THEN Steps(c) + 1 ELSE Steps(c)
  OBVIOUS
<1>1. /\ c \in CommandRecord /\ OnScript(c) /\ EvidenceTypeOK
      /\ x = IF q = p THEN (IF Tail(c.todo) = <<>> THEN Idle ELSE Onward(c))
             ELSE IF Disturbs(s) /\ procs[q].dir = procs[p].dir
                  THEN [procs[q] EXCEPT !.quiet = FALSE] ELSE procs[q]
  BY DEF EvidenceIInv, EvidenceTypeOK, CommandsOK, CommandOK, Advances
<1>2. CASE q = p
  <2>1. c.todo # <<>> /\ Idle.todo = <<>> /\ x.todo # <<>>
    BY <1>2 DEF Idle
  <2>2. x = Onward(c)
    <3>. HIDE DEF c
    <3>. QED BY <1>1, <1>2, <2>1
  <2>4. /\ x.op = c.op /\ x.layer = c.layer /\ Steps(x) = Steps(c) + 1
        /\ x.dir = IF Head(c.todo).do = "second" THEN 2 ELSE c.dir
    <3>. HIDE DEF c
    <3>1. Steps(x) = Steps(c) + 1
      BY <1>1, <2>1, <2>2, OnwardTyped
    <3>2. /\ x.op = c.op /\ x.layer = c.layer
          /\ x.dir = IF Head(c.todo).do = "second" THEN 2 ELSE c.dir
      BY <1>1, <2>2, OnwardFields
    <3>. QED BY <3>1, <3>2
  <2>3. Head(c.todo).do = "second" => c.op = "run_pair"
    BY <1>1, <2>1, Whose
  <2>. QED BY <1>2, <2>1, <2>3, <2>4
<1>3. CASE q # p
  <2>1. x.todo = c.todo /\ x.op = c.op /\ x.layer = c.layer /\ x.dir = c.dir
    <3>. HIDE DEF c, s
    <3>. QED BY <1>1, <1>3 DEF CommandRecord, c
  <2>2. Steps(x) = Steps(c)
    BY <2>1 DEF Steps, Script
  <2>. QED BY <1>3, <2>1, <2>2
<1>. QED BY <1>2, <1>3

\* A command at the first write of an exclusive receipt is at the opening of it.
LEMMA AtExclusive ==
  ASSUME EvidenceIInv, NEW p \in Procs, Finalizing(procs[p]), procs[p].layer \in {"selected", "request"}
  PROVE  LET s == Head(procs[p].todo)
         IN /\ Steps(procs[p]) = 6 => s.do = "exclusive"
            /\ s.do = "write" => Steps(procs[p]) = 7
            /\ s.do # "create"
<1>. DEFINE c == procs[p]
            s == Head(c.todo)
            X == FinalizerOf(c.layer)
            k == Steps(c)
<1>1. /\ c \in CommandRecord /\ OnScript(c) /\ c.todo # <<>> /\ Script(c) = X /\ c.layer \in Layers
  BY DEF EvidenceIInv, EvidenceTypeOK, CommandsOK, CommandOK, Finalizing, Script, Layers
<1>2. k \in 0 .. Len(X) - 1 /\ s = X[k + 1]
  BY <1>1, NextOperation
<1>3. /\ Len(X) = 8 /\ X[7] = Do("exclusive") /\ X[8] = Do("write")
      /\ \A i \in 1 .. Len(X) : X[i].do # "create"
  BY ExclusiveTable
<1>4. \A i \in 1 .. Len(X) : X[i].do = "write" => i = Len(X)
  BY <1>1, FinalizeTable
<1>. HIDE DEF k, X, s
<1>5. k + 1 \in 1 .. 8
  BY <1>2, <1>3
<1>6. s.do # "create" /\ (s.do = "write" => k + 1 = 8)
  BY <1>2, <1>3, <1>4, <1>5
<1>7. k = 6 => s.do = "exclusive"
  BY <1>2, <1>3 DEF Do
<1>. QED BY <1>2, <1>3, <1>6, <1>7 DEF k, s

\* One finalizer at a time writes a receipt opened exclusively.
LEMMA ExclusiveKept ==
  ASSUME EvidenceIInv, NEW p \in Procs, procs[p].todo # <<>>, Advances(p)
  PROVE  ExclusiveOK'
<1>. DEFINE c == procs[p]
            s == Head(c.todo)
<1>. SUFFICES ASSUME NEW d \in EvidenceDirs, NEW l \in {"selected", "request"}, NEW q \in Procs,
                     Writing(q, d, l)'
              PROVE  /\ receipts'[d][l].state = "torn"
                     /\ \A r \in Procs : Writing(r, d, l)' => q = r
  BY DEF ExclusiveOK
<1>1. /\ c \in CommandRecord /\ OnScript(c) /\ c.todo # <<>> /\ l \in Layers
      /\ \A r \in Procs : procs[r] \in CommandRecord /\ OnScript(procs[r])
  BY DEF EvidenceIInv, EvidenceTypeOK, CommandsOK, CommandOK, Layers
<1>2. \A r \in Procs : Writing(r, d, l)' =>
        /\ Finalizing(procs[r]) /\ procs[r].dir = d /\ procs[r].layer = l
        /\ r # p => Writing(r, d, l)
        /\ r = p => Steps(c) = 6
  <2>1. SUFFICES ASSUME NEW r \in Procs, Writing(r, d, l)'
                 PROVE  /\ Finalizing(procs[r]) /\ procs[r].dir = d /\ procs[r].layer = l
                        /\ r # p => Writing(r, d, l)
                        /\ r = p => Steps(c) = 6
    OBVIOUS
  <2>2. /\ procs'[r].todo # <<>> /\ procs'[r].op = "finalize" /\ procs'[r].dir = d
        /\ procs'[r].layer = l /\ Steps(procs'[r]) = 7
    BY <2>1 DEF Writing, Finalizing, Steps, Script
  <2>3. /\ procs[r].todo # <<>> /\ procs[r].op = "finalize" /\ procs[r].layer = l
        /\ procs[r].dir = d
        /\ IF r = p THEN Steps(procs[r]) + 1 = 7 ELSE Steps(procs[r]) = 7
    BY <2>2, WhoWas
  <2>4. Steps(procs[r]) \in Nat
    BY <1>1, <2>3 DEF OnScript
  <2>. QED BY <2>3, <2>4 DEF Writing, Finalizing
<1>3. Passes(c, s) /\ receipts'[d][l] = IF d = c.dir /\ l = c.layer THEN ReceiptAfter(c, s) ELSE receipts[d][l]
  BY <1>1 DEF Advances
<1>4. ASSUME NEW r \in Procs, Writing(r, d, l)
      PROVE  /\ receipts[d][l].state = "torn"
             /\ \A t \in Procs : Writing(t, d, l) => r = t
  BY <1>4 DEF EvidenceIInv, ExclusiveOK
<1>5. ASSUME Writing(p, d, l)' PROVE s.do = "exclusive" /\ receipts[d][l].state = "absent"
                                     /\ receipts'[d][l] = Torn
  <2>1. Finalizing(c) /\ c.dir = d /\ c.layer = l /\ Steps(c) = 6
    BY <1>2, <1>5
  <2>2. s.do = "exclusive"
    BY <2>1, AtExclusive
  <2>3. Receipt(c).state = "absent"
    BY <1>3, <2>2, PassesIs
  <2>. QED BY <1>3, <2>1, <2>2, <2>3 DEF Receipt, ReceiptAfter
<1>6. CASE q = p
  <2>1. receipts'[d][l].state = "torn"
    BY <1>5, <1>6 DEF Torn, NoReceipt
  <2>2. ASSUME NEW r \in Procs, Writing(r, d, l)', r # p PROVE FALSE
    BY <1>2, <1>4, <1>5, <1>6, <2>2
  <2>. QED BY <1>6, <2>1, <2>2
<1>7. CASE q # p
  <2>1. Writing(q, d, l)
    BY <1>2, <1>7
  <2>2. receipts[d][l].state = "torn"
    BY <1>4, <2>1
  <2>3. ~Writing(p, d, l)'
    BY <1>5, <2>2
  <2>4. \A r \in Procs : Writing(r, d, l)' => q = r
    BY <1>2, <1>4, <2>1, <2>3
  <2>5. receipts'[d][l].state = "torn"
    <3>1. CASE d = c.dir /\ l = c.layer /\ s.do \in {"create", "write"}
      <4>1. c.op = "finalize"
        BY <1>1, <3>1, Whose
      <4>2. Finalizing(c) /\ Steps(c) = 7
        BY <1>1, <3>1, <4>1, AtExclusive DEF Finalizing
      <4>3. Writing(p, d, l)
        BY <3>1, <4>2 DEF Writing
      <4>. QED BY <1>4, <1>7, <2>1, <4>3
    <3>2. CASE d = c.dir /\ l = c.layer /\ s.do = "exclusive"
      <4>1. Receipt(c).state = "absent"
        BY <1>3, <3>2, PassesIs
      <4>. QED BY <2>2, <3>2, <4>1 DEF Receipt
    <3>3. CASE ~(d = c.dir /\ l = c.layer) \/ s.do \notin {"create", "exclusive", "write"}
      BY <1>3, <2>2, <3>3 DEF ReceiptAfter, Receipt
    <3>. QED BY <3>1, <3>2, <3>3
  <2>. QED BY <2>4, <2>5
<1>. QED BY <1>6, <1>7

-----------------------------------------------------------------------------

\* An operation keeps the invariant.
LEMMA AdvancesKeeps ==
  ASSUME EvidenceIInv, NEW p \in Procs, procs[p].todo # <<>>, Advances(p)
  PROVE  EvidenceIInv'
<1>1. \A q \in Procs : CommandOK(procs[q])' /\ procs'[q] \in CommandRecord
  BY OwnKept, OthersKept
<1>2. \A d \in EvidenceDirs : DirectoryOK(d)' /\ evidence'[d] \in DirectoryRecord
  BY DirectoriesKept
<1>3. EvidenceTypeOK'
  <2>1. ver' \in {"v0", "v1"} /\ receipts' \in [EvidenceDirs -> [Layers -> ReceiptRecord]]
    BY DEF EvidenceIInv, EvidenceTypeOK, Advances
  <2>2. procs' \in [Procs -> CommandRecord]
    <3>1. DOMAIN procs' = Procs /\ procs' = [q \in Procs |-> procs'[q]]
      BY DEF Advances
    <3>. QED BY <1>1, <3>1
  <2>3. evidence' \in [EvidenceDirs -> DirectoryRecord]
    <3>1. evidence' = [d \in EvidenceDirs |-> evidence'[d]]
      BY DEF EvidenceIInv, EvidenceTypeOK, Advances
    <3>. QED BY <1>2, <3>1
  <2>. QED BY <2>1, <2>2, <2>3 DEF EvidenceTypeOK
<1>4. PrepareAlone'
  <2>1. \A q \in Procs : Preparing(procs[q])' => Preparing(procs[q])
    BY WhoWas DEF Preparing
  <2>. QED BY <2>1 DEF EvidenceIInv, PrepareAlone
<1>. QED BY <1>1, <1>2, <1>3, <1>4, ExclusiveKept DEF EvidenceIInv, CommandsOK, DirectoriesOK

\* One process begins a command or stops; the world stays.
LEMMA ReplacedKeeps ==
  ASSUME EvidenceIInv, NEW p \in Procs, NEW x \in CommandRecord, CommandOK(x),
         procs' = [procs EXCEPT ![p] = x], ver' = ver, evidence' = evidence, receipts' = receipts,
         Preparing(x) => \A q \in Procs : procs[q].todo = <<>>,
         x.todo # <<>> => Steps(x) = 0
  PROVE  EvidenceIInv'
<1>1. procs \in [Procs -> CommandRecord] /\ procs' \in [Procs -> CommandRecord]
      /\ \A q \in Procs : procs'[q] = IF q = p THEN x ELSE procs[q]
  BY DEF EvidenceIInv, EvidenceTypeOK
<1>2. EvidenceTypeOK'
  BY <1>1 DEF EvidenceIInv, EvidenceTypeOK
<1>3. DirectoriesOK'
  BY DEF EvidenceIInv, DirectoriesOK, DirectoryOK, Artifact
<1>4. CommandsOK'
  <2>1. ASSUME NEW c, CommandOK(c) PROVE CommandOK(c)'
    BY <2>1 DEF CommandOK, PrepareOK, SimulateOK, FinalizeOK, Established
  <2>2. \A q \in Procs : CommandOK(procs[q])
    BY DEF EvidenceIInv, CommandsOK
  <2>3. ASSUME NEW q \in Procs PROVE CommandOK(procs[q])'
    <3>1. PICK c : c = procs'[q]
      OBVIOUS
    <3>2. CommandOK(c)
      BY <1>1, <2>2, <3>1
    <3>3. CommandOK(c)'
      BY <2>1, <3>2
    <3>. QED BY <3>1, <3>3
  <2>. QED BY <2>3 DEF CommandsOK
<1>5. PrepareAlone'
  BY <1>1 DEF EvidenceIInv, PrepareAlone, Preparing
<1>6. ExclusiveOK'
  <2>1. \A q \in Procs, d \in EvidenceDirs, l \in Layers : Writing(q, d, l)' => Writing(q, d, l)
    <3>. SUFFICES ASSUME NEW q \in Procs, NEW d \in EvidenceDirs, NEW l \in Layers, Writing(q, d, l)'
                  PROVE  Writing(q, d, l)
      OBVIOUS
    <3>1. procs'[q].todo # <<>> /\ Steps(procs'[q]) = 7
      BY DEF Writing, Finalizing, Steps, Script
    <3>2. procs'[q] = procs[q]
      BY <1>1, <3>1
    <3>. QED BY <3>1, <3>2 DEF Writing, Finalizing
  <2>. QED BY <2>1 DEF EvidenceIInv, ExclusiveOK, Layers
<1>. QED BY <1>2, <1>3, <1>4, <1>5, <1>6 DEF EvidenceIInv

\* A command begins with all of its script to do.
LEMMA Begins ==
  ASSUME NEW x \in CommandRecord, x.op # "idle", x.todo = Script(x),
         x.op = "finalize" => x.layer \in Layers, x.op \in Presenters => x.layer \in Layers,
         x.op \in Kinds \union {"run", "run_request"} => Len(x.asked) = 1,
         x.op = "run_pair" => Len(x.asked) = 2
  PROVE  OnScript(x) /\ Steps(x) = 0
<1>1. Script(x) \in Seq(Operations)
  BY DEF CommandRecord
<1>2. Len(Script(x)) \in Nat
  BY <1>1
<1>3. Steps(x) = 0
  BY <1>2 DEF Steps
<1>. QED BY <1>2, <1>3 DEF OnScript

LEMMA IdleFields ==
  /\ Idle \in CommandRecord
  /\ Idle.op = "idle" /\ Idle.dir = 1 /\ Idle.layer = "none" /\ Idle.named = Nothing /\ Idle.body = Nothing
  /\ Nothing["oracle"] = "none" /\ \A f \in Files : Nothing[f] = "none"
  BY IdleOK DEF Idle, Nothing, Files

\* A command that begins, an edit and the session's marker keep the invariant.
LEMMA PrepareKeeps ==
  ASSUME EvidenceIInv, NEW p \in Procs, Prepare(p)
  PROVE  EvidenceIInv'
<1>1. PICK d \in EvidenceDirs, k \in Kinds, r \in Requests \union {"none"} :
        /\ evidence[d].kind = "none" /\ \A q \in Procs : procs[q].todo = <<>>
        /\ Begin(p, [Idle EXCEPT !.op = k, !.dir = d, !.asked = <<r>>, !.todo = PrepareOf(k)])
  BY DEF Prepare
<1>. DEFINE x == [Idle EXCEPT !.op = k, !.dir = d, !.asked = <<r>>, !.todo = PrepareOf(k)]
<1>2. k \in {"schedule", "affine", "dag", "selected", "request"}
  BY EvidenceConstants
<1>3. PrepareOf(k) \in Seq(Operations) /\ <<r>> \in Seq(Requested) /\ Len(<<r>>) = 1
  BY PrepareScripts, AllOperations DEF Requested
<1>4. /\ x \in CommandRecord /\ x.op = k /\ x.dir = d /\ x.asked = <<r>> /\ x.todo = PrepareOf(k)
      /\ x.named = Nothing /\ x.body = Nothing
  BY <1>3, IdleFields DEF CommandRecord, Commands
<1>. HIDE DEF x
<1>5. Script(x) = PrepareOf(k)
  BY <1>2, <1>4 DEF Script
<1>6. OnScript(x) /\ Steps(x) = 0
  BY <1>2, <1>3, <1>4, <1>5, Begins DEF Presenters
<1>7. ~evidence[d].ready
  BY <1>1 DEF EvidenceIInv, DirectoriesOK, DirectoryOK
<1>8. CommandOK(x)
  <2>1. First(k) \in {0, 1}
    BY DEF First
  <2>. QED BY <1>2, <1>4, <1>6, <1>7, <2>1, IdleFields
           DEF CommandOK, PrepareOK, Preparing, SimulateOK, FinalizeOK, Finalizing
<1>9. procs' = [procs EXCEPT ![p] = x] /\ ver' = ver /\ evidence' = evidence /\ receipts' = receipts
  BY <1>1 DEF Begin, x
<1>. QED BY <1>1, <1>4, <1>6, <1>8, <1>9, ReplacedKeeps

LEMMA SimulateKeeps ==
  ASSUME EvidenceIInv, NEW p \in Procs, Simulate(p)
  PROVE  EvidenceIInv'
<1>1. PICK d \in EvidenceDirs, id \in {"s0", "s1"}, bad \in {{}, {"output"}, {"trace"}} :
        /\ evidence[d].ready
        /\ Begin(p, [Idle EXCEPT !.op = "simulate", !.dir = d, !.todo = SimulatorRun,
                                !.put = [f \in Files |-> CASE f = "simulator" -> id
                                                           [] f \in bad -> "wrong"
                                                           [] OTHER -> "none"]])
  BY DEF Simulate
<1>. DEFINE put == [f \in Files |-> CASE f = "simulator" -> id
                                     [] f \in bad -> "wrong"
                                     [] OTHER -> "none"]
            x == [Idle EXCEPT !.op = "simulate", !.dir = d, !.todo = SimulatorRun, !.put = put]
<1>2. put \in Contents /\ put["output"] \in {"none", "wrong"} /\ put["trace"] \in {"none", "wrong"}
  BY DEF Contents, Digests, Files
<1>3. SimulatorRun \in Seq(Operations)
  BY SimulateScript, AllOperations
<1>4. procs' = [procs EXCEPT ![p] = x] /\ ver' = ver /\ evidence' = evidence /\ receipts' = receipts
  BY <1>1 DEF Begin
<1>. HIDE DEF put
<1>5. /\ x \in CommandRecord /\ x.op = "simulate" /\ x.dir = d /\ x.todo = SimulatorRun /\ x.put = put
      /\ x.named = Nothing /\ x.body = Nothing
  BY <1>2, <1>3, IdleFields DEF CommandRecord, Commands
<1>. HIDE DEF x
<1>6. "simulate" \notin Kinds
  BY EvidenceConstants
<1>7. OnScript(x) /\ Steps(x) = 0
  BY <1>5, <1>6, Begins DEF Presenters, Script
<1>8. CommandOK(x) /\ ~Preparing(x)
  BY <1>1, <1>2, <1>5, <1>6, <1>7, IdleFields
     DEF CommandOK, PrepareOK, Preparing, SimulateOK, FinalizeOK, Finalizing
<1>. QED BY <1>4, <1>5, <1>7, <1>8, ReplacedKeeps

LEMMA FinalizeKeeps ==
  ASSUME EvidenceIInv, NEW p \in Procs, Finalize(p)
  PROVE  EvidenceIInv'
<1>1. PICK d \in EvidenceDirs : \E l \in LayersOf(evidence[d].kind) :
        /\ evidence[d].files["output"] # "none"
        /\ Begin(p, [Idle EXCEPT !.op = "finalize", !.dir = d, !.layer = l, !.todo = FinalizerOf(l)])
  BY DEF Finalize
<1>2. PICK l \in LayersOf(evidence[d].kind) :
        /\ evidence[d].files["output"] # "none"
        /\ Begin(p, [Idle EXCEPT !.op = "finalize", !.dir = d, !.layer = l, !.todo = FinalizerOf(l)])
  BY <1>1
<1>. DEFINE x == [Idle EXCEPT !.op = "finalize", !.dir = d, !.layer = l, !.todo = FinalizerOf(l)]
<1>3. evidence[d].ready /\ evidence[d].kind # "none"
  BY <1>2 DEF EvidenceIInv, DirectoriesOK, DirectoryOK
<1>4. l \in Layers
  <2>1. evidence[d].kind \in Kinds
    BY <1>3 DEF EvidenceIInv, EvidenceTypeOK, DirectoryRecord
  <2>. QED BY <2>1, EvidenceConstants DEF LayersOf, Layers
<1>5. FinalizerOf(l) \in Seq(Operations)
  BY <1>4, FinalizeScripts, AllOperations
<1>6. procs' = [procs EXCEPT ![p] = x] /\ ver' = ver /\ evidence' = evidence /\ receipts' = receipts
  BY <1>2 DEF Begin
<1>7. /\ x \in CommandRecord /\ x.op = "finalize" /\ x.dir = d /\ x.layer = l
      /\ x.todo = FinalizerOf(l) /\ x.named = Nothing /\ x.body = Nothing
  BY <1>4, <1>5, IdleFields DEF CommandRecord, Commands
<1>. HIDE DEF x
<1>8. "finalize" \notin Kinds
  BY EvidenceConstants
<1>9. OnScript(x) /\ Steps(x) = 0
  BY <1>4, <1>7, <1>8, Begins DEF Presenters, Script
<1>10. Established(x)
  <2>1. ArtifactAt(l) \in Nat \ {0} /\ OutputAt(l) \in Nat \ {0} /\ TraceAt(l) \in Nat \ {0}
    BY DEF ArtifactAt, OutputAt, TraceAt
  <2>2. ~(0 >= ArtifactAt(l)) /\ ~(0 >= OutputAt(l)) /\ ~(0 >= TraceAt(l))
    BY <2>1
  <2>3. \A f \in Files : x.named[f] = "none"
    BY <1>7, IdleFields
  <2>. QED BY <1>7, <1>9, <2>2, <2>3 DEF Established, Files
<1>11. CommandOK(x) /\ ~Preparing(x)
  BY <1>3, <1>7, <1>8, <1>9, <1>10, IdleFields
     DEF CommandOK, PrepareOK, Preparing, SimulateOK, FinalizeOK, Finalizing
<1>. QED BY <1>6, <1>7, <1>9, <1>11, ReplacedKeeps

\* A presenter starts at the beginning of its script, on a whole receipt of the first
\* directory, and a pair's on both and on the session's marker.
PresentStart(x) ==
  /\ x.op \in Presenters /\ x.layer \in Layers /\ x.dir = 1 /\ x.todo = Script(x)
  /\ x.named = Nothing /\ x.body = Nothing
  /\ x.op \in {"run", "run_request"} => Len(x.asked) = 1
  /\ x.op = "run_pair" => Len(x.asked) = 2
  /\ receipts[1][x.layer].state = "whole"
  /\ x.op = "run_pair" => receipts[2]["request"].state = "whole" /\ evidence[1].marker # "none"

LEMMA PresentBegins ==
  ASSUME NEW p \in Procs, Present(p)
  PROVE  \E x \in CommandRecord : Begin(p, x) /\ PresentStart(x)
<1>1. /\ Playable \in Seq(Operations) /\ run \in Seq(Operations)
      /\ _run_axi4lite_request \in Seq(Operations) /\ run_pair \in Seq(Operations)
  BY PresentScripts, AllOperations DEF PairOperations
<1>2. PICK r \in Requests :
       \/ /\ receipts[1]["dag"].state = "whole"
          /\ Begin(p, [Idle EXCEPT !.op = "playable", !.layer = "dag", !.todo = Playable])
       \/ /\ receipts[1]["selected"].state = "whole"
          /\ Begin(p, [Idle EXCEPT !.op = "run", !.layer = "selected", !.asked = <<r>>, !.todo = run])
       \/ /\ receipts[1]["request"].state = "whole"
          /\ Begin(p, [Idle EXCEPT !.op = "run_request", !.layer = "request", !.asked = <<r>>,
                                  !.todo = _run_axi4lite_request])
       \/ /\ receipts[1]["request"].state = "whole" /\ receipts[2]["request"].state = "whole"
          /\ evidence[1].marker # "none"
          /\ \E q \in Requests :
               Begin(p, [Idle EXCEPT !.op = "run_pair", !.layer = "request", !.asked = <<r, q>>,
                                     !.todo = run_pair])
  BY DEF Present
<1>3. CASE /\ receipts[1]["dag"].state = "whole"
           /\ Begin(p, [Idle EXCEPT !.op = "playable", !.layer = "dag",
                               !.todo = Playable])
  <2>. DEFINE x == [Idle EXCEPT !.op = "playable", !.layer = "dag",
                               !.todo = Playable]
  <2>2. /\ x \in CommandRecord /\ x.op = "playable" /\ x.layer = "dag" /\ x.todo = Playable
        /\ x.dir = 1 /\ x.named = Nothing /\ x.body = Nothing
    BY <1>1, IdleFields DEF CommandRecord, Commands, Presenters, Layers
  <2>3. Begin(p, x)
    BY <1>3
  <2>. HIDE DEF x
  <2>4. Script(x) = Playable
    BY <2>2 DEF Script
  <2>. QED BY <1>3, <2>2, <2>3, <2>4 DEF PresentStart, Presenters, Layers
<1>4. CASE /\ receipts[1]["selected"].state = "whole"
           /\ Begin(p, [Idle EXCEPT !.op = "run", !.layer = "selected", !.asked = <<r>>,
                               !.todo = run])
  <2>. DEFINE x == [Idle EXCEPT !.op = "run", !.layer = "selected", !.asked = <<r>>,
                               !.todo = run]
  <2>1. <<r>> \in Seq(Requested) /\ Len(<<r>>) = 1
    BY DEF Requested
  <2>2. /\ x \in CommandRecord /\ x.op = "run" /\ x.layer = "selected" /\ x.todo = run
        /\ x.dir = 1 /\ x.named = Nothing /\ x.body = Nothing /\ x.asked = <<r>>
    BY <1>1, <2>1, IdleFields DEF CommandRecord, Commands, Presenters, Layers
  <2>3. Begin(p, x)
    BY <1>4
  <2>. HIDE DEF x
  <2>4. Script(x) = run
    BY <2>2 DEF Script
  <2>. QED BY <1>4, <2>1, <2>2, <2>3, <2>4 DEF PresentStart, Presenters, Layers
<1>5. CASE /\ receipts[1]["request"].state = "whole"
           /\ Begin(p, [Idle EXCEPT !.op = "run_request", !.layer = "request", !.asked = <<r>>,
                               !.todo = _run_axi4lite_request])
  <2>. DEFINE x == [Idle EXCEPT !.op = "run_request", !.layer = "request", !.asked = <<r>>,
                               !.todo = _run_axi4lite_request]
  <2>1. <<r>> \in Seq(Requested) /\ Len(<<r>>) = 1
    BY DEF Requested
  <2>2. /\ x \in CommandRecord /\ x.op = "run_request" /\ x.layer = "request" /\ x.todo = _run_axi4lite_request
        /\ x.dir = 1 /\ x.named = Nothing /\ x.body = Nothing /\ x.asked = <<r>>
    BY <1>1, <2>1, IdleFields DEF CommandRecord, Commands, Presenters, Layers
  <2>3. Begin(p, x)
    BY <1>5
  <2>. HIDE DEF x
  <2>4. Script(x) = _run_axi4lite_request
    BY <2>2 DEF Script
  <2>. QED BY <1>5, <2>1, <2>2, <2>3, <2>4 DEF PresentStart, Presenters, Layers
<1>6. CASE /\ receipts[1]["request"].state = "whole" /\ receipts[2]["request"].state = "whole"
           /\ evidence[1].marker # "none"
           /\ \E q \in Requests :
                Begin(p, [Idle EXCEPT !.op = "run_pair", !.layer = "request", !.asked = <<r, q>>,
                                      !.todo = run_pair])
  <2>. PICK q \in Requests :
         Begin(p, [Idle EXCEPT !.op = "run_pair", !.layer = "request", !.asked = <<r, q>>,
                               !.todo = run_pair])
    BY <1>6
  <2>. DEFINE x == [Idle EXCEPT !.op = "run_pair", !.layer = "request", !.asked = <<r, q>>,
                               !.todo = run_pair]
  <2>1. <<r, q>> \in Seq(Requested) /\ Len(<<r, q>>) = 2
    BY DEF Requested
  <2>2. /\ x \in CommandRecord /\ x.op = "run_pair" /\ x.layer = "request" /\ x.todo = run_pair
        /\ x.dir = 1 /\ x.named = Nothing /\ x.body = Nothing /\ x.asked = <<r, q>>
    BY <1>1, <2>1, IdleFields DEF CommandRecord, Commands, Presenters, Layers
  <2>3. Begin(p, x)
    OBVIOUS
  <2>. HIDE DEF x
  <2>4. Script(x) = run_pair
    BY <2>2 DEF Script
  <2>. QED BY <1>6, <2>1, <2>2, <2>3, <2>4 DEF PresentStart, Presenters, Layers
<1>. QED BY <1>2, <1>3, <1>4, <1>5, <1>6

LEMMA PresentKeeps ==
  ASSUME EvidenceIInv, NEW p \in Procs, Present(p)
  PROVE  EvidenceIInv'
<1>1. PICK x \in CommandRecord : Begin(p, x) /\ PresentStart(x)
  BY PresentBegins
<1>2. x.op \notin Kinds /\ x.op # "idle" /\ x.op # "simulate" /\ x.op # "finalize"
  BY <1>1, EvidenceConstants DEF PresentStart, Presenters
<1>3. OnScript(x) /\ Steps(x) = 0
  BY <1>1, <1>2, Begins DEF PresentStart
<1>4. CommandOK(x) /\ ~Preparing(x)
  BY <1>1, <1>2, <1>3, IdleFields
     DEF PresentStart, CommandOK, PrepareOK, Preparing, SimulateOK, FinalizeOK, Finalizing
<1>5. procs' = [procs EXCEPT ![p] = x] /\ ver' = ver /\ evidence' = evidence /\ receipts' = receipts
  BY <1>1 DEF Begin
<1>. QED BY <1>3, <1>4, <1>5, ReplacedKeeps

LEMMA EditKeeps ==
  ASSUME EvidenceIInv, EditSource
  PROVE  EvidenceIInv'
<1>1. /\ procs \in [Procs -> CommandRecord] /\ evidence' = evidence /\ receipts' = receipts
      /\ procs' = [q \in Procs |-> [procs[q] EXCEPT !.quiet = procs[q].todo = <<>>]]
      /\ ver' \in {"v0", "v1"}
  BY DEF EvidenceIInv, EvidenceTypeOK, EditSource
<1>2. \A q \in Procs :
        /\ procs'[q] \in CommandRecord
        /\ procs'[q] = [procs[q] EXCEPT !.quiet = procs[q].todo = <<>>]
        /\ procs'[q].todo = procs[q].todo /\ procs'[q].op = procs[q].op /\ procs'[q].dir = procs[q].dir
        /\ procs'[q].layer = procs[q].layer
        /\ procs'[q].quiet <=> procs[q].todo = <<>>
  <2>1. TAKE q \in Procs
  <2>2. PICK c \in CommandRecord : c = procs[q]
    BY <1>1
  <2>3. PICK b \in BOOLEAN : b = (procs[q].todo = <<>>)
    OBVIOUS
  <2>4. procs'[q] = [c EXCEPT !.quiet = b]
    BY <1>1, <2>2, <2>3
  <2>. QED BY <2>2, <2>3, <2>4 DEF CommandRecord
<1>3. EvidenceTypeOK'
  <2>1. procs' \in [Procs -> CommandRecord]
    BY <1>1, <1>2
  <2>. QED BY <1>1, <2>1 DEF EvidenceIInv, EvidenceTypeOK
<1>4. DirectoriesOK'
  BY <1>1 DEF EvidenceIInv, DirectoriesOK, DirectoryOK, Artifact
<1>5. CommandsOK'
  <2>1. ASSUME NEW q \in Procs PROVE CommandOK(procs[q])'
    <3>1. PICK c \in CommandRecord : c = procs[q] /\ CommandOK(c)
      BY <1>1 DEF EvidenceIInv, CommandsOK
    <3>2. PICK x \in CommandRecord : x = procs'[q]
      BY <1>2
    <3>3. /\ x.op = c.op /\ x.dir = c.dir /\ x.layer = c.layer /\ x.asked = c.asked /\ x.todo = c.todo
          /\ x.checked = c.checked /\ x.named = c.named /\ x.lower = c.lower /\ x.body = c.body
          /\ x.put = c.put /\ (x.quiet <=> c.todo = <<>>)
      <4>1. PICK b \in BOOLEAN : b = (c.todo = <<>>)
        OBVIOUS
      <4>2. x = [c EXCEPT !.quiet = b]
        BY <1>2, <3>1, <3>2, <4>1
      <4>. QED BY <4>1, <4>2 DEF CommandRecord
    <3>4. CommandOK(x)'
      <4>1. CASE c.todo = <<>>
        BY <3>1, <3>3, <4>1 DEF CommandOK, OnScript, PrepareOK, Preparing, SimulateOK, FinalizeOK, Finalizing
      <4>2. CASE c.todo # <<>>
        <5>1. ~x.quiet
          BY <3>3, <4>2
        <5>. QED BY <1>1, <3>1, <3>2, <3>3, <5>1, CommandKept
      <4>. QED BY <4>1, <4>2
    <3>. QED BY <3>2, <3>4
  <2>. QED BY <2>1 DEF CommandsOK
<1>6. PrepareAlone'
  BY <1>2 DEF EvidenceIInv, PrepareAlone, Preparing
<1>7. ExclusiveOK'
  <2>1. \A q \in Procs : Steps(procs'[q]) = Steps(procs[q])
    BY <1>2 DEF Steps, Script
  <2>2. \A q \in Procs, d \in EvidenceDirs, l \in Layers : Writing(q, d, l)' => Writing(q, d, l)
    <3>. SUFFICES ASSUME NEW q \in Procs, NEW d \in EvidenceDirs, NEW l \in Layers, Writing(q, d, l)'
                  PROVE  Writing(q, d, l)
      OBVIOUS
    <3>1. /\ Steps(procs'[q]) = 7 /\ procs'[q].todo # <<>> /\ procs'[q].op = "finalize"
          /\ procs'[q].dir = d /\ procs'[q].layer = l
      BY DEF Writing, Finalizing, Steps, Script
    <3>2. /\ Steps(procs[q]) = 7 /\ procs[q].todo # <<>> /\ procs[q].op = "finalize"
          /\ procs[q].dir = d /\ procs[q].layer = l
      <4>1. /\ procs'[q].todo = procs[q].todo /\ procs'[q].op = procs[q].op
            /\ procs'[q].dir = procs[q].dir /\ procs'[q].layer = procs[q].layer
        BY <1>2
      <4>2. Steps(procs'[q]) = Steps(procs[q])
        BY <2>1
      <4>. QED BY <3>1, <4>1, <4>2
    <3>. QED BY <3>2 DEF Writing, Finalizing
  <2>. QED BY <1>1, <2>2 DEF EvidenceIInv, ExclusiveOK, Layers
<1>. QED BY <1>3, <1>4, <1>5, <1>6, <1>7 DEF EvidenceIInv

LEMMA MarkKeeps ==
  ASSUME EvidenceIInv, MarkSession
  PROVE  EvidenceIInv'
<1>1. PICK traffic \in BOOLEAN :
        evidence' = [evidence EXCEPT ![1].marker = evidence[1].files["simulator"], ![1].traffic = traffic]
  BY DEF MarkSession
<1>2. ver' = ver /\ receipts' = receipts /\ procs' = procs
  BY DEF MarkSession
<1>3. evidence \in [EvidenceDirs -> DirectoryRecord] /\ 1 \in EvidenceDirs
  BY DEF EvidenceIInv, EvidenceTypeOK, EvidenceDirs
<1>4. PICK m \in Digests : m = evidence[1].files["simulator"]
  BY <1>3 DEF DirectoryRecord, Contents, Files
<1>5. evidence' = [evidence EXCEPT ![1] = [evidence[1] EXCEPT !.marker = m, !.traffic = traffic]]
  BY <1>1, <1>3, <1>4
<1>6. [evidence[1] EXCEPT !.marker = m, !.traffic = traffic] \in DirectoryRecord
  BY <1>3 DEF DirectoryRecord
<1>7. /\ evidence' \in [EvidenceDirs -> DirectoryRecord]
      /\ \A d \in EvidenceDirs : /\ evidence'[d].files = evidence[d].files
                                 /\ evidence'[d].ready = evidence[d].ready
                                 /\ evidence'[d].kind = evidence[d].kind
  <2>1. /\ [evidence[1] EXCEPT !.marker = m, !.traffic = traffic].files = evidence[1].files
        /\ [evidence[1] EXCEPT !.marker = m, !.traffic = traffic].ready = evidence[1].ready
        /\ [evidence[1] EXCEPT !.marker = m, !.traffic = traffic].kind = evidence[1].kind
    BY <1>3 DEF DirectoryRecord
  <2>. QED BY <1>3, <1>5, <1>6, <2>1
<1>8. EvidenceTypeOK'
  BY <1>2, <1>7 DEF EvidenceIInv, EvidenceTypeOK
<1>9. DirectoriesOK'
  BY <1>2, <1>7 DEF EvidenceIInv, DirectoriesOK, DirectoryOK, Artifact
<1>10. CommandsOK'
  <2>1. ASSUME NEW q \in Procs PROVE CommandOK(procs[q])'
    <3>1. PICK c \in CommandRecord : c = procs[q] /\ CommandOK(c) /\ c.dir \in EvidenceDirs
      BY DEF EvidenceIInv, EvidenceTypeOK, CommandsOK, CommandRecord
    <3>2. CommandOK(c)'
      BY <1>2, <1>7, <3>1, CommandKept
    <3>. QED BY <1>2, <3>1, <3>2
  <2>. QED BY <2>1 DEF CommandsOK
<1>11. PrepareAlone' /\ ExclusiveOK'
  BY <1>2 DEF EvidenceIInv, PrepareAlone, Preparing, ExclusiveOK, Writing, Finalizing, Steps, Script
<1>. QED BY <1>8, <1>9, <1>10, <1>11 DEF EvidenceIInv

\* The invariant holds initially and is kept by every step.
LEMMA EvidenceStarts == EvidenceInit => EvidenceIInv
<1>. SUFFICES ASSUME EvidenceInit PROVE EvidenceIInv
  OBVIOUS
<1>1. \A p \in Procs : procs[p] = Idle
  BY DEF EvidenceInit
<1>2. NoDir \in DirectoryRecord /\ NoDir.files = Nothing /\ NoDir.ready = FALSE
  BY NothingTyped DEF NoDir, DirectoryRecord, Requested, Digests
<1>3. NoReceipt \in ReceiptRecord /\ NoReceipt.state = "absent" /\ NoReceipt.body = Nothing
  BY NothingTyped DEF NoReceipt, ReceiptRecord, Requested
<1>4. EvidenceTypeOK
  BY <1>2, <1>3, IdleOK DEF EvidenceInit, EvidenceTypeOK
<1>5. \A f \in Files : Nothing[f] = "none"
  BY DEF Nothing
<1>6. DirectoriesOK
  BY <1>2, <1>3, <1>5 DEF EvidenceInit, DirectoriesOK, DirectoryOK, Files
<1>7. CommandsOK
  BY <1>1, IdleOK DEF CommandsOK
<1>8. Idle.todo = <<>>
  BY DEF Idle
<1>. QED BY <1>1, <1>4, <1>6, <1>7, <1>8
         DEF EvidenceIInv, PrepareAlone, Preparing, ExclusiveOK, Writing, Finalizing

LEMMA StopsKeeps ==
  ASSUME EvidenceIInv, NEW p \in Procs, procs' = [procs EXCEPT ![p] = Idle],
         ver' = ver, evidence' = evidence, receipts' = receipts
  PROVE  EvidenceIInv'
<1>1. Idle.todo = <<>> /\ ~Preparing(Idle)
  BY DEF Idle, Preparing
<1>. QED BY <1>1, IdleOK, ReplacedKeeps

LEMMA EvidenceKeeps == EvidenceIInv /\ [EvidenceNext]_evars => EvidenceIInv'
<1>. SUFFICES ASSUME EvidenceIInv, [EvidenceNext]_evars PROVE EvidenceIInv'
  OBVIOUS
<1>1. ASSUME NEW p \in Procs, Step(p) PROVE EvidenceIInv'
  <2>1. procs[p].todo # <<>> /\ (Stops(p) \/ Advances(p))
    BY <1>1, StepIs DEF EvidenceIInv
  <2>. QED BY <2>1, StopsKeeps, AdvancesKeeps DEF Stops
<1>2. ASSUME NEW p \in Procs, KillProcess(p) PROVE EvidenceIInv'
  BY <1>2, StopsKeeps DEF KillProcess
<1>3. CASE UNCHANGED evars
  <2>1. ver' = ver /\ evidence' = evidence /\ receipts' = receipts /\ procs' = procs
    BY <1>3 DEF evars
  <2>2. CommandsOK'
    <3>1. ASSUME NEW q \in Procs PROVE CommandOK(procs[q])'
      <4>1. PICK c \in CommandRecord : c = procs[q] /\ CommandOK(c)
        BY DEF EvidenceIInv, EvidenceTypeOK, CommandsOK
      <4>2. CommandOK(c)'
        BY <2>1, <4>1, CommandKept
      <4>. QED BY <2>1, <4>1, <4>2
    <3>. QED BY <3>1 DEF CommandsOK
  <2>3. EvidenceTypeOK' /\ DirectoriesOK'
    BY <2>1 DEF EvidenceIInv, EvidenceTypeOK, DirectoriesOK, DirectoryOK, Artifact
  <2>4. PrepareAlone' /\ ExclusiveOK'
    BY <2>1 DEF EvidenceIInv, PrepareAlone, Preparing, ExclusiveOK, Writing, Finalizing, Steps, Script
  <2>. QED BY <2>2, <2>3, <2>4 DEF EvidenceIInv
<1>. QED BY <1>1, <1>2, <1>3, PrepareKeeps, SimulateKeeps, FinalizeKeeps, PresentKeeps, MarkKeeps,
            EditKeeps DEF EvidenceNext

-----------------------------------------------------------------------------
\* What is written.

\* The last operation of a finalizer nobody disturbed.
LEMMA WritesExact ==
  ASSUME EvidenceIInv, NEW p \in Procs, Finalizing(procs[p]), procs[p].quiet,
         Head(procs[p].todo).do = "write"
  PROVE  LET c == procs[p]
             r == Written(c)
         IN /\ \A f \in Files : r.body[f] \in {"none", evidence[c.dir].files[f]}
            /\ \A f \in {"output", "trace"} : r.body[f] \in {"none", Result(r.body["artifact"])}
            /\ c.layer = "schedule" => r.lower = receipts[c.dir]["mvp"].body
<1>. DEFINE c == procs[p]
            s == Head(c.todo)
            here == evidence[c.dir].files
            l == c.layer
            X == FinalizerOf(l)
            k == Steps(c)
            b == Written(c).body
<1>1. /\ c \in CommandRecord /\ CommandOK(c) /\ OnScript(c) /\ c.todo # <<>> /\ Established(c)
      /\ l \in Layers /\ Script(c) = X
  BY DEF EvidenceIInv, EvidenceTypeOK, CommandsOK, CommandOK, FinalizeOK, Finalizing, OnScript, Script
<1>2. k \in 0 .. Len(X) - 1 /\ s = X[k + 1]
  BY <1>1, NextOperation
<1>3. /\ Len(X) \in Nat /\ ArtifactAt(l) \in Nat /\ OutputAt(l) \in Nat /\ TraceAt(l) \in Nat
      /\ ArtifactAt(l) < OutputAt(l) /\ OutputAt(l) < Len(X)
      /\ l # "mvp" => TraceAt(l) < Len(X)
      /\ \A i \in 1 .. Len(X) : X[i].do = "write" => i = Len(X)
  BY <1>1, FinalizeTable
<1>4. k = Len(X) - 1 /\ k >= ArtifactAt(l) /\ k >= OutputAt(l) /\ (l # "mvp" => k >= TraceAt(l))
  <2>1. s.do = "write"
    OBVIOUS
  <2>. HIDE DEF k, X, l, s
  <2>2. k + 1 \in 1 .. Len(X)
    BY <1>2, <1>3
  <2>3. k + 1 = Len(X)
    BY <1>2, <1>3, <2>1, <2>2
  <2>. QED BY <1>2, <1>3, <2>3
<1>5. /\ here["artifact"] = ver /\ c.named["artifact"] = ver /\ here["output"] = Result(ver)
      /\ l # "mvp" => here["trace"] = Result(ver)
      /\ l = "mvp" => c.named["trace"] = "none"
      /\ \A f \in Files : c.named[f] \in {"none", here[f]}
  BY <1>1, <1>4 DEF Established
<1>6. c.named \in [Files -> Digests] /\ c.body \in [Files -> Digests]
  BY <1>1 DEF CommandRecord, Contents
<1>7. CASE l = "schedule"
  <2>1. Len(X) = 12
    BY <1>7, ScheduleTable
  <2>2. k >= 3 /\ k >= 4 /\ k >= 6 /\ k >= 8
    <3>. HIDE DEF k, X
    <3>. QED BY <1>4, <2>1
  <2>3. /\ c.body["artifact"] = ver /\ c.body["simulator"] = here["simulator"]
        /\ c.body["output"] = here["output"] /\ c.lower = receipts[c.dir]["mvp"].body
    BY <1>1, <1>7, <2>2 DEF Established
  <2>4. c.body["oracle"] = "none"
    BY <1>1 DEF CommandOK
  <2>5. b = [c.body EXCEPT !["trace"] = c.named["trace"]] /\ Written(c).lower = c.lower
    BY <1>7 DEF Written
  <2>6. /\ b["artifact"] = ver /\ b["simulator"] = here["simulator"] /\ b["output"] = here["output"]
        /\ b["oracle"] = "none" /\ b["trace"] = c.named["trace"]
    BY <1>6, <2>3, <2>4, <2>5 DEF Files
  <2>7. b["trace"] \in {"none", here["trace"]}
    BY <1>5, <2>6 DEF Files
  <2>8. \A f \in Files : b[f] \in {"none", here[f]}
    BY <1>5, <2>6, <2>7 DEF Files
  <2>9. \A f \in {"output", "trace"} : b[f] \in {"none", Result(b["artifact"])}
    BY <1>5, <1>7, <2>6, <2>7
  <2>. QED BY <2>3, <2>5, <2>8, <2>9
<1>8. CASE l # "schedule"
  <2>1. b = c.named
    BY <1>8 DEF Written
  <2>2. \A f \in {"output", "trace"} : b[f] \in {"none", Result(b["artifact"])}
    <3>1. b["output"] \in {"none", Result(ver)}
      BY <1>5, <2>1 DEF Files
    <3>2. b["trace"] \in {"none", Result(ver)}
      BY <1>5, <2>1 DEF Files
    <3>. QED BY <1>5, <2>1, <3>1, <3>2
  <2>. QED BY <1>5, <1>8, <2>1, <2>2
<1>. QED BY <1>7, <1>8

\* An exclusive receipt that is whole stays as it is.
LEMMA ExclusiveStays ==
  ASSUME EvidenceIInv, NEW p \in Procs, procs[p].todo # <<>>, Advances(p), NEW d \in EvidenceDirs,
         NEW l \in {"selected", "request"}, receipts[d][l].state = "whole"
  PROVE  receipts'[d][l] = receipts[d][l]
<1>. DEFINE c == procs[p]
            s == Head(c.todo)
<1>1. /\ c \in CommandRecord /\ OnScript(c) /\ l \in Layers /\ Passes(c, s)
      /\ receipts'[d][l] = IF d = c.dir /\ l = c.layer THEN ReceiptAfter(c, s) ELSE receipts[d][l]
  BY DEF EvidenceIInv, EvidenceTypeOK, CommandsOK, CommandOK, Layers, Advances
<1>2. CASE d = c.dir /\ l = c.layer /\ s.do \in {"create", "write"}
  <2>1. Finalizing(c)
    BY <1>1, <1>2, Whose DEF Finalizing
  <2>2. Writing(p, d, l)
    BY <1>2, <2>1, AtExclusive DEF Writing
  <2>3. receipts[d][l].state = "torn"
    BY <2>2 DEF EvidenceIInv, ExclusiveOK
  <2>. QED BY <2>3
<1>3. CASE d = c.dir /\ l = c.layer /\ s.do = "exclusive"
  BY <1>1, <1>3, PassesIs DEF Receipt
<1>4. CASE ~(d = c.dir /\ l = c.layer) \/ s.do \notin {"create", "write", "exclusive"}
  BY <1>1, <1>4 DEF ReceiptAfter, Receipt
<1>. QED BY <1>2, <1>3, <1>4

ReceiptStep ==
  /\ \A d \in EvidenceDirs, l \in Layers :
       LET r == receipts'[d][l]
       IN (receipts[d][l].state = "torn" /\ r.state = "whole" /\ r.quiet) =>
            /\ \A f \in Files : r.body[f] \in {"none", evidence[d].files[f]}
            /\ \A f \in {"output", "trace"} :
                 r.body[f] \in {"none", Result(r.body["artifact"])}
            /\ l = "schedule" => r.lower = receipts[d]["mvp"].body
  /\ Kept("selected") /\ Kept("request")

\* What is written into a receipt.
LEMMA ReceiptsUnchanged == receipts' = receipts => ReceiptStep
  BY DEF ReceiptStep, Kept

LEMMA StepWrites == ASSUME EvidenceIInv, NEW p \in Procs, procs[p].todo # <<>>, Advances(p)
                    PROVE  ReceiptStep
<1>. DEFINE c == procs[p]
            s == Head(c.todo)
<1>1. c \in CommandRecord /\ OnScript(c)
  BY DEF EvidenceIInv, EvidenceTypeOK, CommandsOK, CommandOK
<1>2. ASSUME NEW d \in EvidenceDirs, NEW l \in Layers, receipts[d][l].state = "torn",
             receipts'[d][l].state = "whole", receipts'[d][l].quiet
      PROVE  /\ \A f \in Files : receipts'[d][l].body[f] \in {"none", evidence[d].files[f]}
             /\ \A f \in {"output", "trace"} :
                  receipts'[d][l].body[f] \in {"none", Result(receipts'[d][l].body["artifact"])}
             /\ l = "schedule" => receipts'[d][l].lower = receipts[d]["mvp"].body
  <2>1. receipts'[d][l] = IF d = c.dir /\ l = c.layer THEN ReceiptAfter(c, s) ELSE receipts[d][l]
    BY DEF Advances
  <2>2. d = c.dir /\ l = c.layer /\ ReceiptAfter(c, s).state = "whole" /\ receipts[d][l] = Receipt(c)
    BY <1>2, <2>1 DEF Receipt
  <2>3. s.do = "write"
    <3>1. Torn.state # "whole" /\ Receipt(c).state # "whole"
      BY <1>2, <2>2 DEF Torn, NoReceipt
    <3>. QED BY <2>2, <3>1 DEF ReceiptAfter
  <2>4. receipts'[d][l] = Written(c)
    BY <2>1, <2>2, <2>3 DEF ReceiptAfter
  <2>5. c.quiet
    BY <1>2, <2>4 DEF Written
  <2>6. Finalizing(c)
    BY <1>1, <2>3, Whose DEF Finalizing
  <2>. QED BY <2>2, <2>3, <2>4, <2>5, <2>6, WritesExact
<1>3. Kept("selected") /\ Kept("request")
  BY ExclusiveStays DEF Kept
<1>. QED BY <1>2, <1>3 DEF ReceiptStep

LEMMA EvidenceWrites == EvidenceIInv /\ [EvidenceNext]_evars => ReceiptStep
<1>. SUFFICES ASSUME EvidenceIInv, [EvidenceNext]_evars PROVE ReceiptStep
  OBVIOUS
<1>1. ASSUME NEW p \in Procs, Step(p) PROVE ReceiptStep
  <2>1. procs[p].todo # <<>> /\ (Stops(p) \/ Advances(p))
    BY <1>1, StepIs DEF EvidenceIInv
  <2>. QED BY <2>1, ReceiptsUnchanged, StepWrites DEF Stops
<1>2. ASSUME NEW p \in Procs, Prepare(p) \/ Simulate(p) \/ Finalize(p) \/ Present(p) \/ KillProcess(p)
      PROVE  receipts' = receipts
  BY <1>2 DEF Prepare, Simulate, Finalize, Present, KillProcess, Begin
<1>3. MarkSession \/ EditSource \/ UNCHANGED evars => receipts' = receipts
  BY DEF MarkSession, EditSource, evars
<1>. QED BY <1>1, <1>2, <1>3, ReceiptsUnchanged DEF EvidenceNext

\* A finalizer of graph_device_mvp.py, _schedule.py, _affine.py, _dag.py, _selected.py or
\* _axi4lite_request.py that nobody disturbed writes exactly the digests of the files it
\* leaves, whose output and trace are the program's; the receipts opened with exclusive
\* creation are never rewritten, disturbed or not.
THEOREM ReceiptsAreExact == EvidenceSpec => ReceiptExact
<1>1. EvidenceIInv /\ [EvidenceNext]_evars => [ReceiptStep]_evars
  BY EvidenceWrites
<1>. QED BY <1>1, EvidenceStarts, EvidenceKeeps, PTL DEF EvidenceSpec, ReceiptExact, ReceiptStep

-----------------------------------------------------------------------------
\* The presenters: what one has seen is what its directory holds, and stays so, because
\* nothing of a prepared directory that decides it is written again.

Settled(b, d) == Artifact(d) \in {"v0", "v1"} /\ Names(b, Artifact(d))

\* artifact, output, trace, same, asked: the operation that establishes each.
ShownOK(c, artifact, output, trace, same, asked) ==
  LET v == Artifact(c.dir)
  IN /\ Steps(c) >= artifact =>
          v \in {"v0", "v1"} /\ c.checked["artifact"] = v /\ c.named["artifact"] = v
     /\ Steps(c) >= output => c.checked["output"] = Result(v)
     /\ Steps(c) >= trace => c.checked["trace"] = Result(v)
     /\ \A f \in {"output", "trace"} : c.named[f] \in {"none", Result(v)}
     /\ Steps(c) >= same => c.body = c.named
     /\ Steps(c) >= asked => evidence[c.dir].request = c.asked[1]

PlayableOK(c) ==
  LET v == Artifact(c.dir)
  IN /\ Steps(c) >= 2 =>
          v \in {"v0", "v1"} /\ c.checked["artifact"] = v /\ c.named["artifact"] = v
     /\ Steps(c) >= 4 => c.named["output"] \in {"none", "wrong", Result(v)}
     /\ Steps(c) >= 7 => /\ c.body = c.checked
                         /\ c.checked["output"] = Result(v) /\ c.checked["trace"] = Result(v)

PairOK(c) ==
  /\ evidence[1].ready /\ evidence[1].marker # "none"
  /\ Steps(c) <= 10 => c.dir = 1 /\ ShownOK(c, 3, 6, 7, 9, 10)
  /\ Steps(c) > 10 => /\ c.dir = 2 /\ ShownOK(c, 13, 16, 17, 19, 20)
                      /\ Settled(c.first, 1) /\ evidence[1].request = c.asked[2]
  /\ Steps(c) > 20 => /\ c.first["simulator"] = evidence[1].marker
                      /\ c.body["simulator"] = evidence[1].marker /\ ~evidence[1].traffic

Presenting(c) == c.todo # <<>> /\ c.op \in Presenters
PresentOK(c) ==
  Presenting(c) =>
    /\ evidence[c.dir].ready
    /\ c.op = "playable" => PlayableOK(c)
    /\ c.op = "run" => ShownOK(c, 2, 4, 6, 8, 10)
    /\ c.op = "run_request" => ShownOK(c, 3, 6, 7, 9, 10)
    /\ c.op = "run_pair" => PairOK(c) /\ evidence[2].ready

ReportOK(r) ==
  LET v == Artifact(r.dir)
  IN /\ r.dir \in EvidenceDirs /\ evidence[r.dir].ready
     /\ r.checked["artifact"] = v /\ r.checked["output"] = Result(v) /\ r.checked["trace"] = Result(v)
     /\ Settled(r.body, r.dir)
     /\ r.kind # "playable" => evidence[r.dir].request = r.asked[1]
     /\ r.kind = "run_pair" =>
          /\ r.dir = 2 /\ evidence[1].ready /\ Settled(r.first, 1) /\ evidence[1].request = r.asked[2]
          /\ r.first["simulator"] = evidence[1].marker /\ r.body["simulator"] = evidence[1].marker
          /\ evidence[1].marker # "none" /\ ~evidence[1].traffic

PresentedIInv == (\A p \in Procs : PresentOK(procs[p])) /\ (\A r \in reports : ReportOK(r))

\* With one edit of the sources, the artifact of a directory whose descriptors were
\* admitted is that of the admitted version.
SingleChange ==
  /\ changes \in {0, 1} /\ (ver = "v0" <=> changes = 0)
  /\ changes = 0 => \A d \in EvidenceDirs : Artifact(d) \in {"none", "v0"}
AdmittedOK(c) ==
  (c.todo # <<>> /\ c.op \in {"run", "run_request", "run_pair"}) =>
    /\ Steps(c) >= 1 => Artifact(1) # "v1"
    /\ c.op = "run_pair" /\ Steps(c) >= 12 => Artifact(2) # "v1"
    /\ c.dir = 2 => c.op = "run_pair"
ReportAdmitted(r) ==
  /\ r.kind # "playable" => Artifact(r.dir) = "v0"
  /\ r.kind = "run_pair" => Artifact(1) = "v0"
AdmittedIInv ==
  SingleChange /\ (\A p \in Procs : AdmittedOK(procs[p])) /\ (\A r \in reports : ReportAdmitted(r))

\* What the operations of a presenter show when they pass.
LEMMA PassesShow ==
  ASSUME NEW c, NEW s, Passes(c, s)
  PROVE  /\ s.do = "same" => c.body = c.named
         /\ s.do = "admit" => ver = "v0"
         /\ s.do = "asked" => evidence[c.dir].request = c.asked[1]
         /\ s.do = "one_simulator" =>
              /\ c.first["simulator"] = evidence[1].marker /\ c.body["simulator"] = evidence[1].marker
              /\ ~evidence[1].traffic
         /\ s.do = "finalize_copy" =>
              /\ c.named["trace"] = Result(c.named["artifact"])
              /\ c.named["output"] = File(c, "oracle") /\ c.named = c.body
  BY DEF Passes, _rejected_before_axi, admit

\* The directory of a receipt, once it is ready, and the marker of a session.
SettledStep ==
  /\ \A d \in EvidenceDirs :
       evidence[d].ready => /\ evidence'[d].ready
                            /\ evidence'[d].files["artifact"] = evidence[d].files["artifact"]
                            /\ evidence'[d].request = evidence[d].request
  /\ evidence[1].marker # "none" =>
       evidence'[1].marker = evidence[1].marker /\ evidence'[1].traffic = evidence[1].traffic

\* No operation writes the artifact or the request of a directory that is ready.
LEMMA AdvancesSettled ==
  ASSUME EvidenceIInv, NEW p \in Procs, procs[p].todo # <<>>, Advances(p)
  PROVE  SettledStep
<1>. DEFINE c == procs[p]
            s == Head(c.todo)
            here == evidence[c.dir]
            w == Worked(c, s)
<1>1. /\ c \in CommandRecord /\ CommandOK(c) /\ OnScript(c) /\ c.todo # <<>> /\ c.dir \in EvidenceDirs
      /\ DirectoryOK(c.dir) /\ here \in DirectoryRecord /\ Passes(c, s)
      /\ evidence \in [EvidenceDirs -> DirectoryRecord]
      /\ evidence' = [evidence EXCEPT ![c.dir] = w]
  BY DEF EvidenceIInv, EvidenceTypeOK, CommandsOK, CommandOK, DirectoriesOK, CommandRecord, Advances
<1>2. w.marker = here.marker /\ w.traffic = here.traffic
  <2>. HIDE DEF c, s
  <2>1. CASE s.do = "empty"
    <3>1. w = [here EXCEPT !.kind = c.op, !.request = c.asked[1]]
      BY <2>1, WorkedIs
    <3>. HIDE DEF here, w
    <3>. QED BY <1>1, <3>1 DEF DirectoryRecord
  <2>2. CASE s.do = "ready"
    <3>1. w = [here EXCEPT !.ready = TRUE]
      BY <2>2, WorkedIs
    <3>. HIDE DEF here, w
    <3>. QED BY <1>1, <3>1 DEF DirectoryRecord
  <2>3. CASE s.do = "put"
    <3>1. w = [here EXCEPT !.files[s.file] = Content(c, s.file)]
      BY <2>3, WorkedIs
    <3>. HIDE DEF here, w
    <3>. QED BY <1>1, <3>1 DEF DirectoryRecord
  <2>4. CASE s.do \notin {"empty", "ready", "put"}
    BY <2>4, WorkedIs
  <2>. QED BY <2>1, <2>2, <2>3, <2>4
<1>3. here.ready => w.files["artifact"] = here.files["artifact"] /\ w.request = here.request
  <2>. SUFFICES ASSUME here.ready
                PROVE  w.files["artifact"] = here.files["artifact"] /\ w.request = here.request
    OBVIOUS
  <2>1. s.do # "empty"
    BY <1>1, PassesIs DEF DirectoryOK
  <2>2. s.do = "put" => s.file \in {"simulator", "trace", "output"}
    <3>1. c.op \notin Kinds
      BY <1>1 DEF CommandOK, PrepareOK, Preparing
    <3>. QED BY <1>1, <3>1, Whose
  <2>. HIDE DEF c, s
  <2>3. CASE s.do = "ready"
    <3>1. w = [here EXCEPT !.ready = TRUE]
      BY <2>3, WorkedIs
    <3>. HIDE DEF here, w
    <3>. QED BY <1>1, <3>1 DEF DirectoryRecord
  <2>4. CASE s.do = "put"
    <3>1. w = [here EXCEPT !.files[s.file] = Content(c, s.file)]
      BY <2>4, WorkedIs
    <3>. HIDE DEF here, w
    <3>. QED BY <1>1, <2>2, <2>4, <3>1 DEF DirectoryRecord, Contents, Files
  <2>5. CASE s.do \notin {"empty", "ready", "put"}
    BY <2>5, WorkedIs
  <2>. QED BY <2>1, <2>3, <2>4, <2>5
<1>4. \A d \in EvidenceDirs : evidence[d].ready => evidence'[d].ready
  BY WorldAfter
<1>. HIDE DEF c, s, w
<1>5. \A d \in EvidenceDirs : evidence'[d] = IF d = c.dir THEN w ELSE evidence[d]
  BY <1>1
<1>6. evidence'[1].marker = evidence[1].marker /\ evidence'[1].traffic = evidence[1].traffic
  BY <1>2, <1>5 DEF EvidenceDirs
<1>. QED BY <1>3, <1>4, <1>5, <1>6 DEF SettledStep

LEMMA MarkSettled == ASSUME EvidenceIInv, MarkSession PROVE SettledStep
<1>1. PICK traffic \in BOOLEAN :
        evidence' = [evidence EXCEPT ![1].marker = evidence[1].files["simulator"], ![1].traffic = traffic]
  BY DEF MarkSession
<1>2. evidence[1].marker = "none"
  BY DEF MarkSession
<1>3. evidence \in [EvidenceDirs -> DirectoryRecord] /\ 1 \in EvidenceDirs
  BY DEF EvidenceIInv, EvidenceTypeOK, EvidenceDirs
<1>4. PICK m : m = evidence[1].files["simulator"]
  OBVIOUS
<1>5. evidence' = [evidence EXCEPT ![1] = [evidence[1] EXCEPT !.marker = m, !.traffic = traffic]]
  BY <1>1, <1>3, <1>4
<1>6. \A d \in EvidenceDirs : /\ evidence'[d].files = evidence[d].files
                              /\ evidence'[d].ready = evidence[d].ready
                              /\ evidence'[d].request = evidence[d].request
  <2>1. /\ [evidence[1] EXCEPT !.marker = m, !.traffic = traffic].files = evidence[1].files
        /\ [evidence[1] EXCEPT !.marker = m, !.traffic = traffic].ready = evidence[1].ready
        /\ [evidence[1] EXCEPT !.marker = m, !.traffic = traffic].request = evidence[1].request
    BY <1>3 DEF DirectoryRecord
  <2>. QED BY <1>3, <1>5, <2>1
<1>. QED BY <1>2, <1>6 DEF SettledStep

LEMMA SettledSteps == EvidenceIInv /\ [EvidenceNext]_evars => SettledStep
<1>. SUFFICES ASSUME EvidenceIInv, [EvidenceNext]_evars PROVE SettledStep
  OBVIOUS
<1>1. evidence' = evidence => SettledStep
  BY DEF SettledStep
<1>2. ASSUME NEW p \in Procs, Step(p) PROVE SettledStep
  <2>1. procs[p].todo # <<>> /\ (Stops(p) \/ Advances(p))
    BY <1>2, StepIs DEF EvidenceIInv
  <2>. QED BY <1>1, <2>1, AdvancesSettled DEF Stops
<1>3. ASSUME NEW p \in Procs, Prepare(p) \/ Simulate(p) \/ Finalize(p) \/ Present(p) \/ KillProcess(p)
      PROVE  evidence' = evidence
  BY <1>3 DEF Prepare, Simulate, Finalize, Present, KillProcess, Begin
<1>4. EditSource \/ UNCHANGED evars => evidence' = evidence
  BY DEF EditSource, evars
<1>. QED BY <1>1, <1>2, <1>3, <1>4, MarkSettled DEF EvidenceNext

\* What a presenter has seen, and what was reported, stays true beside other steps.
LEMMA PresentKept ==
  ASSUME NEW c \in CommandRecord, NEW x \in CommandRecord, PresentOK(c), SettledStep,
         x.op = c.op, x.dir = c.dir, x.layer = c.layer, x.asked = c.asked, x.todo = c.todo,
         x.checked = c.checked, x.named = c.named, x.body = c.body, x.first = c.first
  PROVE  PresentOK(x)'
<1>. SUFFICES ASSUME Presenting(c) PROVE PresentOK(x)'
  BY DEF PresentOK, Presenting
<1>1. Steps(x) = Steps(c)
  BY DEF Steps, Script
<1>2. /\ evidence[c.dir].ready /\ evidence'[c.dir].ready /\ Artifact(c.dir)' = Artifact(c.dir)
      /\ evidence'[c.dir].request = evidence[c.dir].request
  BY DEF PresentOK, SettledStep, CommandRecord, Artifact
<1>3. c.op = "run_pair" =>
        /\ PairOK(c) /\ evidence[1].ready /\ evidence[2].ready /\ evidence'[2].ready /\ evidence'[1].ready
        /\ Artifact(1)' = Artifact(1) /\ evidence'[1].request = evidence[1].request
        /\ evidence'[1].marker = evidence[1].marker /\ evidence'[1].traffic = evidence[1].traffic
        /\ evidence[1].marker # "none"
  BY DEF PresentOK, PairOK, SettledStep, EvidenceDirs, Artifact
<1>4. c.op = "playable" => PlayableOK(x)'
  BY <1>1, <1>2 DEF PresentOK, PlayableOK
<1>5. ASSUME NEW i1, NEW i2, NEW i3, NEW i4, NEW i5, ShownOK(c, i1, i2, i3, i4, i5)
      PROVE  ShownOK(x, i1, i2, i3, i4, i5)'
  BY <1>1, <1>2, <1>5 DEF ShownOK
<1>6. c.op = "run_pair" => PairOK(x)'
  BY <1>1, <1>3, <1>5 DEF PairOK, Settled
<1>. QED BY <1>2, <1>3, <1>4, <1>5, <1>6 DEF PresentOK

LEMMA ReportKept ==
  ASSUME NEW r, ReportOK(r), SettledStep
  PROVE  ReportOK(r)'
<1>1. /\ evidence'[r.dir].ready /\ Artifact(r.dir)' = Artifact(r.dir)
      /\ evidence'[r.dir].request = evidence[r.dir].request
  BY DEF ReportOK, SettledStep, Artifact
<1>2. r.kind = "run_pair" =>
        /\ evidence'[1].ready /\ Artifact(1)' = Artifact(1) /\ evidence'[1].request = evidence[1].request
        /\ evidence'[1].marker = evidence[1].marker /\ evidence'[1].traffic = evidence[1].traffic
  BY DEF ReportOK, SettledStep, EvidenceDirs, Artifact
<1>. QED BY <1>1, <1>2 DEF ReportOK, Settled

-----------------------------------------------------------------------------

\* No presenter's operation after its first n puts another receipt or identity in place.
Quietly(X, first, last) ==
  \A i \in first .. last : ~Identifies(X[i]) /\ X[i].do # "receipt"
\* An output or a trace is named by the read that compares it.
VerifiesWhatItNames(X) ==
  \A i \in 1 .. Len(X) :
    /\ Identifies(X[i]) /\ X[i].file \in {"output", "trace"} => X[i].do = "verify"
    /\ X[i].do # "finalize_copy"

\* What the scripts of the presenters have at each position.
LEMMA RunTable ==
  LET X == run
  IN /\ Len(X) = 13 /\ X[1] = Do("admit") /\ X[2] = On("check", "artifact")
     /\ X[4] = On("again", "output") /\ X[6] = On("check", "trace")
     /\ X[8] = Do("same") /\ X[10] = Do("asked")
     /\ Quietly(X, 9, 13) /\ VerifiesWhatItNames(X)
     /\ \A i \in 1 .. Len(X) : X[i].do # "second" /\ (X[i].do = "report" => i = 13)
  BY At_run DEF Quietly, VerifiesWhatItNames, Identifies, Do, On

LEMMA RequestTable ==
  LET X == _run_axi4lite_request
  IN /\ Len(X) = 11 /\ X[1] = Do("admit") /\ X[3] = On("check", "artifact")
     /\ X[6] = On("verify", "output") /\ X[7] = On("verify", "trace")
     /\ X[9] = Do("same") /\ X[10] = Do("asked")
     /\ Quietly(X, 10, 11) /\ VerifiesWhatItNames(X)
     /\ \A i \in 1 .. Len(X) : X[i].do # "second" /\ (X[i].do = "report" => i = 11)
  BY At_run_axi4lite_request DEF Quietly, VerifiesWhatItNames, Identifies, Do, On

LEMMA PairTable ==
  LET X == run_pair
  IN /\ Len(X) = 22 /\ X[1] = Do("admit") /\ X[12] = Do("admit")
     /\ X[3] = On("check", "artifact") /\ X[13] = On("check", "artifact")
     /\ X[6] = On("verify", "output") /\ X[16] = On("verify", "output")
     /\ X[7] = On("verify", "trace") /\ X[17] = On("verify", "trace")
     /\ X[9] = Do("same") /\ X[19] = Do("same") /\ X[10] = Do("asked") /\ X[20] = Do("asked")
     /\ X[11] = Do("second") /\ X[21] = Do("one_simulator")
     /\ Quietly(X, 10, 11) /\ Quietly(X, 20, 22) /\ VerifiesWhatItNames(X)
     /\ \A i \in 1 .. Len(X) : /\ X[i].do = "second" => i = 11
                               /\ X[i].do = "report" => i = 22
  BY At_run_pair DEF Quietly, VerifiesWhatItNames, Identifies, Do, On

LEMMA PlayableTable ==
  LET X == Playable
  IN /\ Len(X) = 8 /\ X[2] = On("check", "artifact") /\ X[4] = On("copy", "output")
     /\ X[7] = Do("finalize_copy") /\ X[8] = Do("report")
     /\ \A i \in 1 .. Len(X) :
          /\ X[i].do = "finalize_copy" => i = 7
          /\ X[i].do = "report" => i = 8
          /\ X[i].do # "second"
          /\ Reads(X[i]) => X[i] = On("check", "artifact") /\ i = 2
          /\ Identifies(X[i]) /\ X[i].file = "artifact" => i = 2
          /\ Identifies(X[i]) /\ X[i].file = "output" => i = 4
  BY At_Playable DEF Reads, Identifies, Do, On

\* An output or a trace that a presenter compares is the artifact's.
LEMMA ReadsRight ==
  ASSUME EvidenceTypeOK, NEW c \in CommandRecord, evidence[c.dir].ready, DirectoryOK(c.dir), NEW s,
         Passes(c, s), Reads(s), s.file \in {"output", "trace"}
  PROVE  File(c, s.file) = Result(Artifact(c.dir))
<1>1. /\ File(c, s.file) \in {"none", "wrong", Result(Artifact(c.dir))}
      /\ File(c, "oracle") \in {"right", "right1"}
  BY DEF DirectoryOK, File
<1>2. File(c, s.file) \in {"right", "right1"} \/ File(c, s.file) = File(c, "oracle")
  <2>1. CASE s.do = "check"
    BY <2>1, PassesIs, ResultTyped
  <2>2. CASE s.do \in {"again", "verify"}
    BY <2>2, PassesIs, ResultTyped
  <2>3. CASE s.do = "shown"
    BY <2>3, PassesIs, ResultTyped
  <2>4. CASE s.do = "equal"
    BY <2>4, PassesIs
  <2>. QED BY <2>1, <2>2, <2>3, <2>4 DEF Reads
<1>. QED BY <1>1, <1>2

\* What operation s, after k others, must be for a presenter that establishes the artifact,
\* the output, the trace, the comparison and the request at these positions.
Establishes(s, k, artifact, output, trace, same, asked) ==
  /\ k \in Nat /\ artifact \in Nat /\ output \in Nat /\ trace \in Nat /\ same \in Nat /\ asked \in Nat
  /\ k + 1 = artifact => s = On("check", "artifact")
  /\ k + 1 = output => Reads(s) /\ s.file = "output"
  /\ k + 1 = trace => Reads(s) /\ s.file = "trace"
  /\ k + 1 = same => s.do = "same"
  /\ k + 1 > same => ~Identifies(s) /\ s.do # "receipt"
  /\ k + 1 = asked => s.do = "asked"
  /\ Identifies(s) /\ s.file \in {"output", "trace"} => s.do = "verify"
  /\ Identifies(s) /\ s.file = "artifact" => s.do = "check"
  /\ Reads(s) /\ s.file = "artifact" => s.do = "check"
  /\ s.do \notin {"finalize_copy", "second", "lower"}

\* One operation further, a presenter has seen one thing more.
LEMMA ShownOn ==
  ASSUME EvidenceTypeOK, NEW c \in CommandRecord, OnScript(c), c.todo # <<>>, Tail(c.todo) # <<>>,
         evidence[c.dir].ready, DirectoryOK(c.dir), Passes(c, Head(c.todo)),
         NEW artifact, NEW output, NEW trace, NEW same, NEW asked,
         ShownOK(c, artifact, output, trace, same, asked),
         NEW s, s = Head(c.todo), NEW k, k = Steps(c),
         Establishes(s, k, artifact, output, trace, same, asked),
         NEW x, x = Onward(c)
  PROVE  /\ ShownOK(x, artifact, output, trace, same, asked) /\ x.dir = c.dir /\ x.asked = c.asked
         /\ x.first = c.first /\ Steps(x) = k + 1
         /\ k + 1 > same => x.body = c.body
<1>. DEFINE v == Artifact(c.dir)
<1>. USE DEF Establishes
<1>1. /\ x.dir = c.dir /\ x.asked = c.asked /\ x.first = c.first /\ x.todo = Tail(c.todo)
      /\ x.checked = Checked(c, s) /\ x.named = Named(c, s) /\ x.body = Body(c, s)
  BY OnwardFields
<1>2. Steps(x) = k + 1
  BY <1>1, OnwardTyped
<1>3. c.checked \in [Files -> Digests] /\ c.named \in [Files -> Digests]
  BY DEF CommandRecord, Contents
<1>4. s.do \in FileVerbs => s.file \in Files
  BY Whose
<1>5. (Reads(s) => s.file \in Files) /\ (Identifies(s) => s.file \in Files)
  BY <1>4 DEF Reads, Identifies, FileVerbs, Files
<1>6. /\ x.checked = IF Reads(s) THEN [c.checked EXCEPT ![s.file] = File(c, s.file)] ELSE c.checked
      /\ x.named = IF Identifies(s) THEN [c.named EXCEPT ![s.file] = File(c, s.file)] ELSE c.named
  BY <1>1, CheckedIs, NamedIs
<1>7. File(c, "artifact") = v
  BY DEF File, Artifact
<1>8. Reads(s) /\ s.file \in {"output", "trace"} => File(c, s.file) = Result(v)
  BY ReadsRight
<1>9. s.do = "check" /\ s.file = "artifact" => v = ver /\ v \in {"v0", "v1"}
  BY <1>7, PassesIs DEF EvidenceTypeOK
<1>10. k + 1 >= artifact => v \in {"v0", "v1"} /\ x.checked["artifact"] = v /\ x.named["artifact"] = v
  <2>1. CASE k + 1 = artifact
    <3>1. s.do = "check" /\ s.file = "artifact" /\ Reads(s) /\ Identifies(s)
      BY <2>1 DEF On, Reads, Identifies
    <3>. QED BY <1>3, <1>6, <1>7, <1>9, <3>1 DEF Files
  <2>2. CASE k + 1 # artifact
    <3>1. SUFFICES ASSUME k + 1 >= artifact
                   PROVE  v \in {"v0", "v1"} /\ x.checked["artifact"] = v /\ x.named["artifact"] = v
      OBVIOUS
    <3>2. k >= artifact
      BY <2>2, <3>1
    <3>3. v \in {"v0", "v1"} /\ c.checked["artifact"] = v /\ c.named["artifact"] = v
      BY <3>2 DEF ShownOK
    <3>4. x.checked["artifact"] = v
      BY <1>3, <1>5, <1>6, <1>7, <3>3 DEF Files
    <3>5. x.named["artifact"] = v
      BY <1>3, <1>5, <1>6, <1>7, <3>3 DEF Files
    <3>. QED BY <3>3, <3>4, <3>5
  <2>. QED BY <2>1, <2>2
<1>11. k + 1 >= output => x.checked["output"] = Result(v)
  <2>1. CASE Reads(s) /\ s.file = "output"
    BY <1>3, <1>6, <1>8, <2>1 DEF Files
  <2>2. CASE ~(Reads(s) /\ s.file = "output")
    <3>1. SUFFICES ASSUME k + 1 >= output PROVE x.checked["output"] = Result(v)
      OBVIOUS
    <3>2. k >= output
      BY <2>2, <3>1
    <3>3. c.checked["output"] = Result(v)
      BY <3>2 DEF ShownOK
    <3>. QED BY <1>3, <1>5, <1>6, <2>2, <3>3 DEF Files
  <2>. QED BY <2>1, <2>2
<1>12. k + 1 >= trace => x.checked["trace"] = Result(v)
  <2>1. CASE Reads(s) /\ s.file = "trace"
    BY <1>3, <1>6, <1>8, <2>1 DEF Files
  <2>2. CASE ~(Reads(s) /\ s.file = "trace")
    <3>1. SUFFICES ASSUME k + 1 >= trace PROVE x.checked["trace"] = Result(v)
      OBVIOUS
    <3>2. k >= trace
      BY <2>2, <3>1
    <3>3. c.checked["trace"] = Result(v)
      BY <3>2 DEF ShownOK
    <3>. QED BY <1>3, <1>5, <1>6, <2>2, <3>3 DEF Files
  <2>. QED BY <2>1, <2>2
<1>13. \A f \in {"output", "trace"} : x.named[f] \in {"none", Result(v)}
  <2>1. \A f \in {"output", "trace"} : c.named[f] \in {"none", Result(v)}
    BY DEF ShownOK
  <2>2. CASE Identifies(s) /\ s.file \in {"output", "trace"}
    <3>1. Reads(s)
      BY <2>2 DEF Reads
    <3>. QED BY <1>3, <1>6, <1>8, <2>1, <2>2, <3>1 DEF Files
  <2>3. CASE ~(Identifies(s) /\ s.file \in {"output", "trace"})
    BY <1>3, <1>5, <1>6, <2>1, <2>3 DEF Files
  <2>. QED BY <2>2, <2>3
<1>14. k + 1 > same => x.body = c.body /\ x.named = c.named
  BY <1>1, <1>6, BodyIs
<1>15. k + 1 >= same => x.body = x.named
  <2>1. CASE k + 1 = same
    <3>1. s.do = "same"
      BY <2>1
    <3>2. c.body = c.named
      BY <3>1, PassesShow
    <3>3. x.body = c.body /\ x.named = c.named
      BY <1>1, <1>6, <3>1, BodyIs DEF Identifies
    <3>. QED BY <3>2, <3>3
  <2>2. CASE k + 1 # same
    <3>1. SUFFICES ASSUME k + 1 >= same PROVE x.body = x.named
      OBVIOUS
    <3>2. k >= same /\ k + 1 > same
      BY <2>2, <3>1
    <3>3. c.body = c.named
      BY <3>2 DEF ShownOK
    <3>. QED BY <1>14, <3>2, <3>3
  <2>. QED BY <2>1, <2>2
<1>16. k + 1 >= asked => evidence[c.dir].request = c.asked[1]
  <2>1. CASE k + 1 = asked
    BY <2>1, PassesShow
  <2>2. CASE k + 1 # asked
    <3>1. k + 1 >= asked => k >= asked
      BY <2>2
    <3>. QED BY <3>1 DEF ShownOK
  <2>. QED BY <2>1, <2>2
<1>. HIDE DEF v
<1>17. x.dir = c.dir /\ v = Artifact(x.dir)
  BY <1>1 DEF v
<1>18. ShownOK(x, artifact, output, trace, same, asked)
  BY <1>1, <1>2, <1>10, <1>11, <1>12, <1>13, <1>15, <1>16, <1>17 DEF ShownOK
<1>. QED BY <1>1, <1>2, <1>14, <1>18

LEMMA PresentersOnly ==
  ASSUME NEW s \in PairOperations
  PROVE  /\ Identifies(s) /\ s.file = "artifact" => s.do = "check"
         /\ Reads(s) /\ s.file = "artifact" => s.do = "check"
         /\ s.do \notin {"lower", "empty", "ready", "put", "create", "exclusive", "write"}
  BY DEF PairOperations, PresentOperations, Do, On, Reads, Identifies

\* Where a presenter stands in its script.
LEMMA PresenterAt ==
  ASSUME NEW c \in CommandRecord, OnScript(c), Presenting(c)
  PROVE  LET X == Script(c)
             k == Steps(c)
         IN /\ k \in Nat /\ k + 1 \in 1 .. Len(X) /\ Head(c.todo) = X[k + 1]
            /\ Head(c.todo) \in PairOperations /\ Len(X) \in Nat
            /\ Tail(c.todo) = <<>> <=> k + 1 = Len(X)
<1>. DEFINE X == Script(c)
            k == Steps(c)
<1>1. c.todo # <<>> /\ c.op \in Presenters
  BY DEF Presenting
<1>2. /\ k \in 0 .. Len(X) - 1 /\ Len(X) \in Nat /\ Head(c.todo) = X[k + 1]
      /\ Tail(c.todo) = <<>> <=> k + 1 = Len(X)
  BY <1>1, NextOperation
<1>3. Head(c.todo) \in PairOperations
  <2>1. Head(c.todo) \in OperationsOf(c.op)
    BY <1>1, NextOperation
  <2>2. OperationsOf(c.op) \subseteq PairOperations
    BY <1>1 DEF OperationsOf, PairOperations, Presenters
  <2>. QED BY <2>1, <2>2
<1>4. k \in Nat /\ k + 1 \in 1 .. Len(X)
  <2>. HIDE DEF k, X
  <2>. QED BY <1>2
<1>. QED BY <1>2, <1>3, <1>4

\* The same of each presenter.
LEMMA RunOn ==
  ASSUME EvidenceTypeOK, DirectoriesOK, NEW c \in CommandRecord, OnScript(c), Presenting(c),
         PresentOK(c), Passes(c, Head(c.todo)), Tail(c.todo) # <<>>, c.op = "run",
         NEW x, x = Onward(c)
  PROVE  PresentOK(x)
<1>1. PICK s : s = Head(c.todo)
  OBVIOUS
<1>2. PICK k : k = Steps(c)
  OBVIOUS
<1>3. Script(c) = run
  BY DEF Script
<1>4. /\ k \in Nat /\ k + 1 \in 1 .. 13 /\ s = run[k + 1] /\ s \in PairOperations /\ k + 1 # 13
  BY <1>1, <1>2, <1>3, PresenterAt, RunTable
<1>5. /\ evidence[c.dir].ready /\ ShownOK(c, 2, 4, 6, 8, 10) /\ c.dir \in EvidenceDirs /\ DirectoryOK(c.dir)
      /\ c.todo # <<>>
  BY DEF PresentOK, CommandRecord, DirectoriesOK, Presenting
<1>6. /\ k + 1 = 2 => s = On("check", "artifact")
      /\ k + 1 = 4 => s = On("again", "output")
      /\ k + 1 = 6 => s = On("check", "trace")
      /\ k + 1 = 8 => s = Do("same")
      /\ k + 1 = 10 => s = Do("asked")
  BY <1>4, RunTable
<1>7. k + 1 > 8 => ~Identifies(s) /\ s.do # "receipt"
  <2>1. k + 1 > 8 => k + 1 \in 9 .. 13
    BY <1>4
  <2>. QED BY <1>4, <2>1, RunTable DEF Quietly
<1>8. /\ Identifies(s) /\ s.file \in {"output", "trace"} => s.do = "verify"
      /\ s.do # "finalize_copy" /\ s.do # "second"
  BY <1>4, RunTable DEF VerifiesWhatItNames
<1>9. /\ k + 1 = 4 => Reads(s) /\ s.file = "output"
      /\ k + 1 = 6 => Reads(s) /\ s.file = "trace"
      /\ k + 1 = 8 => s.do = "same"
      /\ k + 1 = 10 => s.do = "asked"
  BY <1>6 DEF Reads, On, Do
<1>10. ShownOK(x, 2, 4, 6, 8, 10) /\ x.dir = c.dir
  <2>1. /\ Identifies(s) /\ s.file = "artifact" => s.do = "check"
        /\ Reads(s) /\ s.file = "artifact" => s.do = "check"
        /\ s.do # "lower"
    BY <1>4, PresentersOnly
  <2>2. k + 1 = 2 => s = On("check", "artifact")
    BY <1>6
  <2>3. Establishes(s, k, 2, 4, 6, 8, 10)
    BY <1>4, <1>7, <1>8, <1>9, <2>1, <2>2 DEF Establishes
  <2>. QED BY <1>1, <1>2, <1>5, <2>3, ShownOn
<1>11. x.op = "run"
  BY OnwardFields
<1>. QED BY <1>5, <1>10, <1>11 DEF PresentOK

LEMMA RequestOn ==
  ASSUME EvidenceTypeOK, DirectoriesOK, NEW c \in CommandRecord, OnScript(c), Presenting(c),
         PresentOK(c), Passes(c, Head(c.todo)), Tail(c.todo) # <<>>, c.op = "run_request",
         NEW x, x = Onward(c)
  PROVE  PresentOK(x)
<1>1. PICK s : s = Head(c.todo)
  OBVIOUS
<1>2. PICK k : k = Steps(c)
  OBVIOUS
<1>3. Script(c) = _run_axi4lite_request
  BY DEF Script
<1>4. /\ k \in Nat /\ k + 1 \in 1 .. 11 /\ s = _run_axi4lite_request[k + 1] /\ s \in PairOperations
      /\ k + 1 # 11
  BY <1>1, <1>2, <1>3, PresenterAt, RequestTable
<1>5. /\ evidence[c.dir].ready /\ ShownOK(c, 3, 6, 7, 9, 10) /\ c.dir \in EvidenceDirs /\ DirectoryOK(c.dir)
      /\ c.todo # <<>>
  BY DEF PresentOK, CommandRecord, DirectoriesOK, Presenting
<1>6. /\ k + 1 = 3 => s = On("check", "artifact")
      /\ k + 1 = 6 => s = On("verify", "output")
      /\ k + 1 = 7 => s = On("verify", "trace")
      /\ k + 1 = 9 => s = Do("same")
      /\ k + 1 = 10 => s = Do("asked")
  BY <1>4, RequestTable
<1>7. k + 1 > 9 => ~Identifies(s) /\ s.do # "receipt"
  <2>1. k + 1 > 9 => k + 1 \in 10 .. 11
    BY <1>4
  <2>. QED BY <1>4, <2>1, RequestTable DEF Quietly
<1>8. /\ Identifies(s) /\ s.file \in {"output", "trace"} => s.do = "verify"
      /\ s.do # "finalize_copy" /\ s.do # "second"
  BY <1>4, RequestTable DEF VerifiesWhatItNames
<1>9. /\ k + 1 = 6 => Reads(s) /\ s.file = "output"
      /\ k + 1 = 7 => Reads(s) /\ s.file = "trace"
      /\ k + 1 = 9 => s.do = "same"
      /\ k + 1 = 10 => s.do = "asked"
  BY <1>6 DEF Reads, On, Do
<1>10. ShownOK(x, 3, 6, 7, 9, 10) /\ x.dir = c.dir
  <2>1. /\ Identifies(s) /\ s.file = "artifact" => s.do = "check"
        /\ Reads(s) /\ s.file = "artifact" => s.do = "check"
        /\ s.do # "lower"
    BY <1>4, PresentersOnly
  <2>2. k + 1 = 3 => s = On("check", "artifact")
    BY <1>6
  <2>3. Establishes(s, k, 3, 6, 7, 9, 10)
    BY <1>4, <1>7, <1>8, <1>9, <2>1, <2>2 DEF Establishes
  <2>. QED BY <1>1, <1>2, <1>5, <2>3, ShownOn
<1>11. x.op = "run_request"
  BY OnwardFields
<1>. QED BY <1>5, <1>10, <1>11 DEF PresentOK

LEMMA PlayableOn ==
  ASSUME EvidenceTypeOK, DirectoriesOK, NEW c \in CommandRecord, OnScript(c), Presenting(c),
         PresentOK(c), Passes(c, Head(c.todo)), Tail(c.todo) # <<>>, c.op = "playable",
         NEW x, x = Onward(c)
  PROVE  PresentOK(x)
<1>1. PICK s : s = Head(c.todo)
  OBVIOUS
<1>2. PICK k : k = Steps(c)
  OBVIOUS
<1>3. Script(c) = Playable
  BY DEF Script
<1>4. /\ k \in Nat /\ k + 1 \in 1 .. 8 /\ s = Playable[k + 1] /\ s \in PairOperations /\ k + 1 # 8
  BY <1>1, <1>2, <1>3, PresenterAt, PlayableTable
<1>. DEFINE v == Artifact(c.dir)
<1>5. /\ evidence[c.dir].ready /\ PlayableOK(c) /\ c.dir \in EvidenceDirs /\ DirectoryOK(c.dir)
      /\ c.todo # <<>>
  BY DEF PresentOK, CommandRecord, DirectoriesOK, Presenting
<1>6. /\ k + 1 = 2 => s = On("check", "artifact")
      /\ k + 1 = 4 => s = On("copy", "output")
      /\ k + 1 = 7 => s = Do("finalize_copy")
      /\ s.do = "finalize_copy" => k + 1 = 7
      /\ s.do # "second"
      /\ Reads(s) => s = On("check", "artifact") /\ k + 1 = 2
      /\ Identifies(s) /\ s.file = "artifact" => k + 1 = 2
      /\ Identifies(s) /\ s.file = "output" => k + 1 = 4
  BY <1>4, PlayableTable
<1>7. /\ x.dir = c.dir /\ x.op = "playable" /\ x.todo = Tail(c.todo) /\ x.checked = Checked(c, s)
      /\ x.named = Named(c, s) /\ x.body = Body(c, s)
  BY <1>1, <1>6, OnwardFields
<1>8. Steps(x) = k + 1
  BY <1>2, <1>5, <1>7, OnwardTyped
<1>9. c.checked \in [Files -> Digests] /\ c.named \in [Files -> Digests]
  BY DEF CommandRecord, Contents
<1>10. (Identifies(s) => s.file \in Files) /\ File(c, "artifact") = v
  BY <1>1, <1>5, Whose DEF File, Artifact
<1>11. x.named = IF Identifies(s) THEN [c.named EXCEPT ![s.file] = File(c, s.file)] ELSE c.named
  BY <1>6, <1>7, NamedIs
<1>12. k + 1 >= 2 => v \in {"v0", "v1"} /\ x.checked["artifact"] = v /\ x.named["artifact"] = v
  <2>1. CASE k + 1 = 2
    <3>1. s.do = "check" /\ s.file = "artifact" /\ Reads(s) /\ Identifies(s)
      BY <1>6, <2>1 DEF On, Reads, Identifies
    <3>2. v \in {"v0", "v1"}
      BY <1>1, <1>10, <3>1, PassesIs DEF EvidenceTypeOK
    <3>3. x.checked = [c.checked EXCEPT ![s.file] = File(c, s.file)]
      BY <1>7, <3>1, CheckedIs
    <3>. QED BY <1>9, <1>10, <1>11, <3>1, <3>2, <3>3 DEF Files
  <2>2. CASE k + 1 # 2
    <3>1. SUFFICES ASSUME k + 1 >= 2
                   PROVE  v \in {"v0", "v1"} /\ x.checked["artifact"] = v /\ x.named["artifact"] = v
      OBVIOUS
    <3>2. k >= 2
      BY <1>4, <2>2, <3>1
    <3>3. v \in {"v0", "v1"} /\ c.checked["artifact"] = v /\ c.named["artifact"] = v
      BY <1>2, <1>5, <3>2 DEF PlayableOK
    <3>4. x.checked = c.checked \/ x.checked = c.named
      BY <1>6, <1>7, <2>2, CheckedIs
    <3>5. x.named["artifact"] = v
      BY <1>6, <1>9, <1>10, <1>11, <2>2, <3>3 DEF Files
    <3>. QED BY <3>3, <3>4, <3>5
  <2>. QED BY <2>1, <2>2
<1>13. k + 1 >= 4 => x.named["output"] \in {"none", "wrong", Result(v)}
  <2>1. CASE k + 1 = 4
    <3>1. s.file = "output" /\ Identifies(s)
      BY <1>6, <2>1 DEF On, Identifies
    <3>2. File(c, "output") \in {"none", "wrong", Result(v)}
      BY <1>5 DEF DirectoryOK, File
    <3>. QED BY <1>9, <1>11, <3>1, <3>2 DEF Files
  <2>2. CASE k + 1 # 4
    <3>1. SUFFICES ASSUME k + 1 >= 4 PROVE x.named["output"] \in {"none", "wrong", Result(v)}
      OBVIOUS
    <3>2. k >= 4
      BY <1>4, <2>2, <3>1
    <3>3. c.named["output"] \in {"none", "wrong", Result(v)}
      BY <1>2, <1>5, <3>2 DEF PlayableOK
    <3>. QED BY <1>6, <1>9, <1>10, <1>11, <2>2, <3>3 DEF Files
  <2>. QED BY <2>1, <2>2
<1>14. k + 1 >= 7 => /\ x.body = x.checked
                     /\ x.checked["output"] = Result(v) /\ x.checked["trace"] = Result(v)
  <2>1. SUFFICES ASSUME k + 1 >= 7
                 PROVE  /\ x.body = x.checked
                        /\ x.checked["output"] = Result(v) /\ x.checked["trace"] = Result(v)
    OBVIOUS
  <2>2. k + 1 = 7
    BY <1>4, <2>1
  <2>3. s.do = "finalize_copy"
    BY <1>6, <2>2 DEF Do
  <2>4. /\ c.named["trace"] = Result(c.named["artifact"])
        /\ c.named["output"] = File(c, "oracle") /\ c.named = c.body
    BY <1>1, <2>3, PassesShow
  <2>5. x.checked = c.named /\ x.body = c.body
    BY <1>7, <2>3, CheckedIs, BodyIs
  <2>6. k >= 2 /\ k >= 4
    BY <1>4, <2>2
  <2>7. c.named["artifact"] = v /\ c.named["output"] \in {"none", "wrong", Result(v)}
    BY <1>2, <1>5, <2>6 DEF PlayableOK
  <2>8. File(c, "oracle") \in {"right", "right1"}
    BY <1>5 DEF DirectoryOK, File
  <2>. QED BY <2>4, <2>5, <2>7, <2>8
<1>. HIDE DEF v
<1>15. v = Artifact(x.dir)
  BY <1>7 DEF v
<1>16. PlayableOK(x)
  BY <1>8, <1>12, <1>13, <1>14, <1>15 DEF PlayableOK
<1>. QED BY <1>5, <1>7, <1>16 DEF PresentOK

LEMMA PairOn ==
  ASSUME EvidenceTypeOK, DirectoriesOK, NEW c \in CommandRecord, OnScript(c), Presenting(c),
         PresentOK(c), Passes(c, Head(c.todo)), Tail(c.todo) # <<>>, c.op = "run_pair",
         NEW x, x = Onward(c)
  PROVE  PresentOK(x)
<1>1. PICK s : s = Head(c.todo)
  OBVIOUS
<1>2. PICK k : k = Steps(c)
  OBVIOUS
<1>3. Script(c) = run_pair
  BY DEF Script
<1>4. /\ k \in Nat /\ k + 1 \in 1 .. 22 /\ s = run_pair[k + 1] /\ s \in PairOperations /\ k + 1 # 22
  BY <1>1, <1>2, <1>3, PresenterAt, PairTable
<1>5. /\ evidence[c.dir].ready /\ PairOK(c) /\ c.dir \in EvidenceDirs /\ DirectoryOK(c.dir)
      /\ c.todo # <<>> /\ evidence[2].ready
  BY DEF PresentOK, CommandRecord, DirectoriesOK, Presenting
<1>6. x.op = "run_pair"
  BY OnwardFields
<1>7. Steps(x) = k + 1
  <2>1. x.todo = Tail(c.todo)
    BY OnwardFields
  <2>. QED BY <1>2, <1>5, <2>1, OnwardTyped
<1>8. /\ k + 1 = 3 => s = On("check", "artifact")
      /\ k + 1 = 6 => s = On("verify", "output")
      /\ k + 1 = 7 => s = On("verify", "trace")
      /\ k + 1 = 9 => s = Do("same")
      /\ k + 1 = 10 => s = Do("asked")
      /\ k + 1 = 13 => s = On("check", "artifact")
      /\ k + 1 = 16 => s = On("verify", "output")
      /\ k + 1 = 17 => s = On("verify", "trace")
      /\ k + 1 = 19 => s = Do("same")
      /\ k + 1 = 20 => s = Do("asked")
      /\ k + 1 = 11 => s = Do("second")
      /\ k + 1 = 21 => s = Do("one_simulator")
  BY <1>4, PairTable
<1>9. /\ Identifies(s) /\ s.file \in {"output", "trace"} => s.do = "verify"
      /\ s.do # "finalize_copy" /\ (s.do = "second" => k + 1 = 11)
  BY <1>4, PairTable DEF VerifiesWhatItNames
<1>10. CASE k < 10
  <2>1. ShownOK(c, 3, 6, 7, 9, 10) /\ c.dir = 1 /\ evidence[1].ready /\ evidence[1].marker # "none"
    BY <1>2, <1>4, <1>5, <1>10 DEF PairOK
  <2>2. k + 1 > 9 => ~Identifies(s) /\ s.do # "receipt"
    <3>1. k + 1 > 9 => k + 1 \in 10 .. 11
      BY <1>4, <1>10
    <3>. QED BY <1>4, <3>1, PairTable DEF Quietly
  <2>3. /\ k + 1 = 6 => Reads(s) /\ s.file = "output"
        /\ k + 1 = 7 => Reads(s) /\ s.file = "trace"
        /\ k + 1 = 9 => s.do = "same"
        /\ k + 1 = 10 => s.do = "asked"
    BY <1>8 DEF Reads, On, Do
  <2>4. s.do # "second"
    BY <1>4, <1>9, <1>10
  <2>5. ShownOK(x, 3, 6, 7, 9, 10) /\ x.dir = c.dir
    <3>1. /\ Identifies(s) /\ s.file = "artifact" => s.do = "check"
          /\ Reads(s) /\ s.file = "artifact" => s.do = "check"
          /\ s.do # "lower"
      BY <1>4, PresentersOnly
    <3>2. k + 1 = 3 => s = On("check", "artifact")
      BY <1>8
    <3>3. Establishes(s, k, 3, 6, 7, 9, 10)
      BY <1>4, <1>9, <2>2, <2>3, <2>4, <3>1, <3>2 DEF Establishes
    <3>. QED BY <1>1, <1>2, <1>5, <2>1, <3>3, ShownOn
  <2>6. Steps(x) <= 10 /\ ~(Steps(x) > 10) /\ ~(Steps(x) > 20)
    BY <1>4, <1>7, <1>10
  <2>. QED BY <1>5, <1>6, <2>1, <2>5, <2>6 DEF PresentOK, PairOK
<1>11. CASE k = 10
  <2>1. ShownOK(c, 3, 6, 7, 9, 10) /\ c.dir = 1 /\ evidence[1].ready /\ evidence[1].marker # "none"
    BY <1>2, <1>5, <1>11 DEF PairOK
  <2>2. s.do = "second"
    BY <1>8, <1>11 DEF Do
  <2>3. /\ x.dir = 2 /\ x.first = c.body /\ x.asked = <<c.asked[2], c.asked[1]>> /\ x.named = Nothing
    <3>1. /\ x.dir = 2 /\ x.first = c.body /\ x.asked = <<c.asked[2], c.asked[1]>>
          /\ x.named = Named(c, s)
      BY <1>1, <2>2, OnwardFields
    <3>2. Named(c, s) = Nothing
      BY <2>2, NamedIs
    <3>. QED BY <3>1, <3>2
  <2>4. /\ Artifact(1) \in {"v0", "v1"} /\ c.named["artifact"] = Artifact(1) /\ c.body = c.named
        /\ \A f \in {"output", "trace"} : c.named[f] \in {"none", Result(Artifact(1))}
        /\ evidence[1].request = c.asked[1]
    BY <1>2, <1>11, <2>1 DEF ShownOK
  <2>5. Settled(x.first, 1) /\ evidence[1].request = x.asked[2]
    BY <2>3, <2>4 DEF Settled, Names
  <2>6. Steps(x) = 11
    BY <1>7, <1>11
  <2>7. ShownOK(x, 13, 16, 17, 19, 20)
    <3>1. \A f \in {"output", "trace"} : x.named[f] = "none"
      BY <2>3, IdleFields DEF Files
    <3>. QED BY <2>6, <3>1 DEF ShownOK
  <2>. QED BY <1>5, <1>6, <2>1, <2>3, <2>5, <2>6, <2>7 DEF PresentOK, PairOK
<1>12. CASE k > 10
  <2>1. /\ ShownOK(c, 13, 16, 17, 19, 20) /\ c.dir = 2 /\ evidence[1].ready /\ evidence[1].marker # "none"
        /\ Settled(c.first, 1) /\ evidence[1].request = c.asked[2]
    BY <1>2, <1>5, <1>12 DEF PairOK
  <2>2. k + 1 > 19 => ~Identifies(s) /\ s.do # "receipt"
    <3>1. k + 1 > 19 => k + 1 \in 20 .. 22
      BY <1>4
    <3>. QED BY <1>4, <3>1, PairTable DEF Quietly
  <2>3. /\ k + 1 = 16 => Reads(s) /\ s.file = "output"
        /\ k + 1 = 17 => Reads(s) /\ s.file = "trace"
        /\ k + 1 = 19 => s.do = "same"
        /\ k + 1 = 20 => s.do = "asked"
    BY <1>8 DEF Reads, On, Do
  <2>4. s.do # "second"
    BY <1>4, <1>9, <1>12
  <2>5. /\ ShownOK(x, 13, 16, 17, 19, 20) /\ x.dir = c.dir /\ x.asked = c.asked /\ x.first = c.first
        /\ k + 1 > 19 => x.body = c.body
    <3>1. /\ Identifies(s) /\ s.file = "artifact" => s.do = "check"
          /\ Reads(s) /\ s.file = "artifact" => s.do = "check"
          /\ s.do # "lower"
      BY <1>4, PresentersOnly
    <3>2. k + 1 = 13 => s = On("check", "artifact")
      BY <1>8
    <3>3. Establishes(s, k, 13, 16, 17, 19, 20)
      BY <1>4, <1>9, <2>2, <2>3, <2>4, <3>1, <3>2 DEF Establishes
    <3>. QED BY <1>1, <1>2, <1>5, <2>1, <3>3, ShownOn
  <2>6. k + 1 > 20 => /\ c.first["simulator"] = evidence[1].marker
                      /\ c.body["simulator"] = evidence[1].marker /\ ~evidence[1].traffic
    <3>1. CASE k = 20
      <4>1. s.do = "one_simulator"
        BY <1>8, <3>1 DEF Do
      <4>. QED BY <1>1, <4>1, PassesShow
    <3>2. CASE k # 20
      <4>1. k + 1 > 20 => k > 20
        BY <1>4, <3>2
      <4>. QED BY <1>2, <1>5, <4>1 DEF PairOK
    <3>. QED BY <3>1, <3>2
  <2>7. Steps(x) > 10 /\ ~(Steps(x) <= 10) /\ (Steps(x) > 20 => k + 1 > 20 /\ k + 1 > 19)
    BY <1>4, <1>7, <1>12
  <2>. QED BY <1>5, <1>6, <2>1, <2>5, <2>6, <2>7 DEF PresentOK, PairOK
<1>. QED BY <1>4, <1>10, <1>11, <1>12

LEMMA PresentOn ==
  ASSUME EvidenceTypeOK, DirectoriesOK, NEW c \in CommandRecord, OnScript(c), Presenting(c),
         PresentOK(c), Passes(c, Head(c.todo)), Tail(c.todo) # <<>>, NEW x, x = Onward(c)
  PROVE  PresentOK(x)
<1>1. c.op = "run" \/ c.op = "run_request" \/ c.op = "run_pair" \/ c.op = "playable"
  BY DEF Presenting, Presenters
<1>2. CASE c.op = "run"
  BY <1>2, RunOn
<1>3. CASE c.op = "run_request"
  BY <1>3, RequestOn
<1>4. CASE c.op = "run_pair"
  BY <1>4, PairOn
<1>5. CASE c.op = "playable"
  BY <1>5, PlayableOn
<1>. QED BY <1>1, <1>2, <1>3, <1>4, <1>5

\* A presenter that reaches its report has seen all of it.
LEMMA ReportedOK ==
  ASSUME NEW c \in CommandRecord, OnScript(c), Presenting(c), PresentOK(c), Head(c.todo).do = "report"
  PROVE  ReportOK(Reported(c))
<1>1. PICK s : s = Head(c.todo)
  OBVIOUS
<1>2. PICK k : k = Steps(c)
  OBVIOUS
<1>3. PICK r : r = Reported(c)
  OBVIOUS
<1>4. /\ r.kind = c.op /\ r.asked = c.asked /\ r.dir = c.dir /\ r.checked = c.checked
      /\ r.body = c.body /\ r.first = c.first
  BY <1>3 DEF Reported
<1>5. /\ evidence[c.dir].ready /\ c.dir \in EvidenceDirs /\ s.do = "report"
  BY <1>1 DEF PresentOK, CommandRecord
<1>6. k \in Nat
  BY <1>2, PresenterAt
<1>7. CASE c.op = "run"
  <2>1. Script(c) = run
    BY <1>7 DEF Script
  <2>2. k + 1 \in 1 .. 13 /\ s = run[k + 1]
    BY <1>1, <1>2, <2>1, PresenterAt, RunTable
  <2>3. k + 1 = 13
    BY <1>5, <2>2, RunTable
  <2>4. ShownOK(c, 2, 4, 6, 8, 10) /\ k = 12
    BY <1>6, <1>7, <2>3 DEF PresentOK
  <2>5. ReportOK(r)
    BY <1>2, <1>4, <1>5, <1>7, <2>4 DEF ShownOK, ReportOK, Settled, Names
  <2>. QED BY <1>3, <2>5
<1>8. CASE c.op = "run_request"
  <2>1. Script(c) = _run_axi4lite_request
    BY <1>8 DEF Script
  <2>2. k + 1 \in 1 .. 11 /\ s = _run_axi4lite_request[k + 1]
    BY <1>1, <1>2, <2>1, PresenterAt, RequestTable
  <2>3. k + 1 = 11
    BY <1>5, <2>2, RequestTable
  <2>4. ShownOK(c, 3, 6, 7, 9, 10) /\ k = 10
    BY <1>6, <1>8, <2>3 DEF PresentOK
  <2>5. ReportOK(r)
    BY <1>2, <1>4, <1>5, <1>8, <2>4 DEF ShownOK, ReportOK, Settled, Names
  <2>. QED BY <1>3, <2>5
<1>9. CASE c.op = "playable"
  <2>1. Script(c) = Playable
    BY <1>9 DEF Script
  <2>2. k + 1 \in 1 .. 8 /\ s = Playable[k + 1]
    BY <1>1, <1>2, <2>1, PresenterAt, PlayableTable
  <2>3. k + 1 = 8
    BY <1>5, <2>2, PlayableTable
  <2>4. PlayableOK(c) /\ k = 7
    BY <1>6, <1>9, <2>3 DEF PresentOK
  <2>5. ReportOK(r)
    BY <1>2, <1>4, <1>5, <1>9, <2>4 DEF PlayableOK, ReportOK, Settled, Names
  <2>. QED BY <1>3, <2>5
<1>10. CASE c.op = "run_pair"
  <2>1. Script(c) = run_pair
    BY <1>10 DEF Script
  <2>2. k + 1 \in 1 .. 22 /\ s = run_pair[k + 1]
    BY <1>1, <1>2, <2>1, PresenterAt, PairTable
  <2>3. k + 1 = 22
    BY <1>5, <2>2, PairTable
  <2>4. PairOK(c) /\ k = 21
    BY <1>6, <1>10, <2>3 DEF PresentOK
  <2>5. /\ ShownOK(c, 13, 16, 17, 19, 20) /\ c.dir = 2 /\ Settled(c.first, 1)
        /\ evidence[1].request = c.asked[2] /\ evidence[1].ready /\ evidence[1].marker # "none"
        /\ c.first["simulator"] = evidence[1].marker
        /\ c.body["simulator"] = evidence[1].marker /\ ~evidence[1].traffic
    BY <1>2, <2>4 DEF PairOK
  <2>6. /\ Settled(c.body, c.dir) /\ evidence[c.dir].request = c.asked[1]
        /\ c.checked["artifact"] = Artifact(c.dir) /\ c.checked["output"] = Result(Artifact(c.dir))
        /\ c.checked["trace"] = Result(Artifact(c.dir))
    BY <1>2, <2>4, <2>5 DEF ShownOK, Settled, Names
  <2>7. ReportOK(r)
    BY <1>4, <1>5, <2>5, <2>6 DEF ReportOK
  <2>. QED BY <1>3, <2>7
<1>. QED BY <1>7, <1>8, <1>9, <1>10 DEF Presenting, Presenters

\* Whoever only learns that it is no longer alone has seen what it had seen.
LEMMA OthersPresent ==
  ASSUME EvidenceIInv, PresentedIInv, SettledStep, NEW q \in Procs,
         procs'[q] = procs[q] \/ \E b \in BOOLEAN : procs'[q] = [procs[q] EXCEPT !.quiet = b]
  PROVE  PresentOK(procs[q])'
<1>1. PICK c \in CommandRecord : c = procs[q] /\ PresentOK(c)
  BY DEF EvidenceIInv, EvidenceTypeOK, PresentedIInv
<1>2. PICK x : x = procs'[q]
  OBVIOUS
<1>3. x = c \/ \E b \in BOOLEAN : x = [c EXCEPT !.quiet = b]
  BY <1>1, <1>2
<1>4. /\ x \in CommandRecord /\ x.op = c.op /\ x.dir = c.dir /\ x.layer = c.layer /\ x.asked = c.asked
      /\ x.todo = c.todo /\ x.checked = c.checked /\ x.named = c.named /\ x.body = c.body
      /\ x.first = c.first
  BY <1>3 DEF CommandRecord
<1>5. PresentOK(x)'
  BY <1>1, <1>4, PresentKept
<1>. QED BY <1>2, <1>5

\* What was reported stays true while nothing is added to it.
LEMMA ReportsPresent ==
  ASSUME PresentedIInv, SettledStep, reports' = reports
  PROVE  \A r \in reports' : ReportOK(r)'
BY ReportKept DEF PresentedIInv

LEMMA IdlePresents == ASSUME NEW x, x.todo = <<>> PROVE PresentOK(x)'
BY DEF PresentOK, Presenting

\* Every step keeps what presenters have seen and reported.
LEMMA AdvancesPresented ==
  ASSUME EvidenceIInv, PresentedIInv, NEW p \in Procs, procs[p].todo # <<>>, Advances(p)
  PROVE  PresentedIInv'
<1>1. SettledStep
  BY AdvancesSettled
<1>2. PICK c \in CommandRecord : c = procs[p] /\ PresentOK(c) /\ OnScript(c) /\ c.todo # <<>>
  BY DEF EvidenceIInv, EvidenceTypeOK, CommandsOK, CommandOK, PresentedIInv
<1>3. PICK s : s = Head(c.todo)
  OBVIOUS
<1>4. /\ Passes(c, s)
      /\ procs'[p] = IF Tail(c.todo) = <<>> THEN Idle ELSE Onward(c)
      /\ reports' = reports \union (IF s.do = "report" THEN {Reported(c)} ELSE {})
  BY <1>2, <1>3 DEF Advances
<1>5. ASSUME NEW q \in Procs, q # p
      PROVE  procs'[q] = procs[q] \/ \E b \in BOOLEAN : procs'[q] = [procs[q] EXCEPT !.quiet = b]
  BY <1>5 DEF Advances
<1>6. ASSUME NEW q \in Procs, q # p PROVE PresentOK(procs[q])'
  BY <1>1, <1>5, <1>6, OthersPresent
<1>7. PresentOK(procs[p])'
  <2>1. CASE Tail(c.todo) = <<>>
    <3>1. procs'[p] = Idle /\ Idle.todo = <<>>
      BY <1>4, <2>1 DEF Idle
    <3>. QED BY <3>1, IdlePresents
  <2>2. CASE Tail(c.todo) # <<>>
    <3>1. PICK x : x = Onward(c)
      OBVIOUS
    <3>2. x \in CommandRecord /\ x.op = c.op
      BY <1>2, <3>1, OnwardTyped, OnwardFields DEF EvidenceIInv
    <3>3. PresentOK(x)
      <4>1. CASE c.op \in Presenters
        BY <1>2, <1>3, <1>4, <2>2, <3>1, <4>1, PresentOn DEF Presenting, EvidenceIInv
      <4>2. CASE c.op \notin Presenters
        BY <3>2, <4>2 DEF PresentOK, Presenting
      <4>. QED BY <4>1, <4>2
    <3>4. PresentOK(x)'
      BY <1>1, <3>2, <3>3, PresentKept
    <3>5. procs'[p] = x
      BY <1>4, <2>2, <3>1
    <3>. QED BY <3>4, <3>5
  <2>. QED BY <2>1, <2>2
<1>8. ASSUME NEW r \in reports' PROVE ReportOK(r)'
  <2>1. CASE r \in reports
    BY <1>1, <2>1, ReportKept DEF PresentedIInv
  <2>2. CASE s.do = "report" /\ r = Reported(c)
    <3>1. Presenting(c)
      BY <1>2, <1>3, <2>2, Whose DEF Presenting
    <3>2. ReportOK(r)
      BY <1>2, <1>3, <2>2, <3>1, ReportedOK
    <3>. QED BY <1>1, <3>2, ReportKept
  <2>. QED BY <1>4, <2>1, <2>2
<1>. QED BY <1>6, <1>7, <1>8 DEF PresentedIInv

LEMMA StopsPresented ==
  ASSUME EvidenceIInv, PresentedIInv, SettledStep, NEW p \in Procs,
         procs' = [procs EXCEPT ![p] = Idle], reports' = reports
  PROVE  PresentedIInv'
<1>1. ASSUME NEW q \in Procs PROVE PresentOK(procs[q])'
  <2>1. CASE q = p
    <3>1. procs'[q] = Idle /\ Idle.todo = <<>>
      BY <2>1 DEF Idle, EvidenceIInv, EvidenceTypeOK
    <3>. QED BY <3>1, IdlePresents
  <2>2. CASE q # p
    <3>1. procs'[q] = procs[q]
      BY <2>2 DEF EvidenceIInv, EvidenceTypeOK
    <3>. QED BY <3>1, OthersPresent
  <2>. QED BY <2>1, <2>2
<1>. QED BY <1>1, ReportsPresent DEF PresentedIInv

\* A command that begins as PresentOK says.
LEMMA BeginsPresented ==
  ASSUME EvidenceIInv, PresentedIInv, SettledStep, NEW p \in Procs, NEW x, PresentOK(x)',
         procs' = [procs EXCEPT ![p] = x], reports' = reports
  PROVE  PresentedIInv'
<1>1. ASSUME NEW q \in Procs PROVE PresentOK(procs[q])'
  <2>1. CASE q = p
    <3>1. procs'[q] = x
      BY <2>1 DEF EvidenceIInv, EvidenceTypeOK
    <3>. QED BY <3>1
  <2>2. CASE q # p
    <3>1. procs'[q] = procs[q]
      BY <2>2 DEF EvidenceIInv, EvidenceTypeOK
    <3>. QED BY <3>1, OthersPresent
  <2>. QED BY <2>1, <2>2
<1>. QED BY <1>1, ReportsPresent DEF PresentedIInv

LEMMA PresentPresented ==
  ASSUME EvidenceIInv, PresentedIInv, SettledStep, NEW p \in Procs, Present(p)
  PROVE  PresentedIInv'
<1>1. PICK x \in CommandRecord : Begin(p, x) /\ PresentStart(x)
  BY PresentBegins
<1>2. x.op \notin Kinds /\ x.op # "idle" /\ x.op # "simulate" /\ x.op # "finalize"
  BY <1>1, EvidenceConstants DEF PresentStart, Presenters
<1>3. Steps(x) = 0
  BY <1>1, <1>2, Begins DEF PresentStart
<1>4. evidence[1].ready /\ x.dir = 1
  BY <1>1 DEF PresentStart, EvidenceIInv, DirectoriesOK, DirectoryOK, EvidenceDirs
<1>5. x.op = "run_pair" => evidence[2].ready /\ evidence[1].marker # "none"
  BY <1>1 DEF PresentStart, EvidenceIInv, DirectoriesOK, DirectoryOK, EvidenceDirs, Layers
<1>6. \A f \in {"output", "trace"} : x.named[f] = "none"
  BY <1>1, IdleFields DEF PresentStart, Files
<1>7. ShownOK(x, 2, 4, 6, 8, 10) /\ ShownOK(x, 3, 6, 7, 9, 10)
  BY <1>3, <1>6 DEF ShownOK
<1>8. PlayableOK(x)
  BY <1>3 DEF PlayableOK
<1>9. x.op = "run_pair" => PairOK(x)
  BY <1>3, <1>4, <1>5, <1>7 DEF PairOK
<1>10. PresentOK(x)
  BY <1>4, <1>5, <1>7, <1>8, <1>9 DEF PresentOK
<1>11. PresentOK(x)'
  BY <1>10, PresentKept
<1>12. procs' = [procs EXCEPT ![p] = x] /\ reports' = reports
  BY <1>1 DEF Begin
<1>. QED BY <1>11, <1>12, BeginsPresented

LEMMA OtherBegins ==
  ASSUME EvidenceIInv, NEW p \in Procs, Prepare(p) \/ Simulate(p) \/ Finalize(p)
  PROVE  /\ reports' = reports
         /\ \E x : x.op \notin Presenters /\ procs' = [procs EXCEPT ![p] = x]
<1>1. CASE Prepare(p)
  <2>1. PICK d \in EvidenceDirs, k \in Kinds, r \in Requests \union {"none"} :
          Begin(p, [Idle EXCEPT !.op = k, !.dir = d, !.asked = <<r>>, !.todo = PrepareOf(k)])
    BY <1>1 DEF Prepare
  <2>2. k \notin Presenters
    BY EvidenceConstants DEF Presenters
  <2>. QED BY <2>1, <2>2 DEF Begin, Idle
<1>2. CASE Simulate(p)
  <2>1. PICK d, put :
          Begin(p, [Idle EXCEPT !.op = "simulate", !.dir = d, !.todo = SimulatorRun, !.put = put])
    BY <1>2 DEF Simulate
  <2>. QED BY <2>1 DEF Begin, Idle, Presenters
<1>3. CASE Finalize(p)
  <2>1. PICK d, l :
          Begin(p, [Idle EXCEPT !.op = "finalize", !.dir = d, !.layer = l, !.todo = FinalizerOf(l)])
    BY <1>3 DEF Finalize
  <2>. QED BY <2>1 DEF Begin, Idle, Presenters
<1>. QED BY <1>1, <1>2, <1>3

LEMMA PresentedKeeps ==
  EvidenceIInv /\ PresentedIInv /\ [EvidenceNext]_evars => PresentedIInv'
<1>. SUFFICES ASSUME EvidenceIInv, PresentedIInv, [EvidenceNext]_evars PROVE PresentedIInv'
  OBVIOUS
<1>1. SettledStep
  BY SettledSteps
<1>2. ASSUME NEW p \in Procs, Step(p) PROVE PresentedIInv'
  <2>1. procs[p].todo # <<>> /\ (Stops(p) \/ Advances(p))
    BY <1>2, StepIs DEF EvidenceIInv
  <2>. QED BY <1>1, <2>1, StopsPresented, AdvancesPresented DEF Stops
<1>3. ASSUME NEW p \in Procs, KillProcess(p) PROVE PresentedIInv'
  BY <1>1, <1>3, StopsPresented DEF KillProcess
<1>4. ASSUME NEW p \in Procs, Prepare(p) \/ Simulate(p) \/ Finalize(p) PROVE PresentedIInv'
  <2>1. PICK x : x.op \notin Presenters /\ procs' = [procs EXCEPT ![p] = x]
    BY <1>4, OtherBegins
  <2>2. PresentOK(x)'
    BY <2>1 DEF PresentOK, Presenting
  <2>. QED BY <1>1, <1>4, <2>1, <2>2, OtherBegins, BeginsPresented
<1>5. ASSUME NEW p \in Procs, Present(p) PROVE PresentedIInv'
  BY <1>1, <1>5, PresentPresented
<1>6. ASSUME /\ reports' = reports
             /\ \A q \in Procs : procs'[q] = procs[q]
                                 \/ \E b \in BOOLEAN : procs'[q] = [procs[q] EXCEPT !.quiet = b]
      PROVE  PresentedIInv'
  BY <1>1, <1>6, OthersPresent, ReportsPresent DEF PresentedIInv
<1>7. CASE MarkSession
  BY <1>6, <1>7 DEF MarkSession
<1>8. CASE EditSource
  <2>1. ASSUME NEW q \in Procs PROVE \E b \in BOOLEAN : procs'[q] = [procs[q] EXCEPT !.quiet = b]
    <3>1. PICK b \in BOOLEAN : b = (procs[q].todo = <<>>)
      OBVIOUS
    <3>. QED BY <1>8, <3>1 DEF EditSource
  <2>2. reports' = reports
    BY <1>8 DEF EditSource
  <2>. QED BY <1>6, <2>1, <2>2
<1>9. CASE UNCHANGED evars
  BY <1>6, <1>9 DEF evars
<1>. QED BY <1>2, <1>3, <1>4, <1>5, <1>7, <1>8, <1>9 DEF EvidenceNext

LEMMA PresentedStarts == EvidenceInit => PresentedIInv
BY DEF EvidenceInit, PresentedIInv, PresentOK, Presenting, Idle

\* What graph_device_playable.py, graph_device_run.py and graph_device_runtime_pair.py print
\* as PASS belongs to one artifact, one receipt and the submission asked for, whatever is
\* edited, simulated again and killed beside it, any number of times.
THEOREM PresentedBelongsTogether == EvidenceSpec => []PresentedTogether
<1>1. PresentedIInv => PresentedTogether
  BY DEF PresentedIInv, PresentedTogether, ReportOK, Settled, Names
<1>. QED BY <1>1, EvidenceStarts, EvidenceKeeps, PresentedStarts, PresentedKeeps, PTL DEF EvidenceSpec

-----------------------------------------------------------------------------
\* Admission, when the sources are edited once at most.

\* A presenter that asks for it is admitted before it looks at a directory.
LEMMA AdmitsFirst ==
  ASSUME NEW c \in CommandRecord, OnScript(c), c.todo # <<>>, c.op \in {"run", "run_request", "run_pair"}
  PROVE  /\ Steps(c) \in Nat
         /\ Steps(c) = 0 => Head(c.todo).do = "admit"
         /\ c.op = "run_pair" /\ Steps(c) = 11 => Head(c.todo).do = "admit"
         /\ Head(c.todo).do = "report" => Steps(c) >= 1 /\ (c.op = "run_pair" => Steps(c) >= 12)
<1>1. PICK s : s = Head(c.todo)
  OBVIOUS
<1>2. PICK k : k = Steps(c)
  OBVIOUS
<1>3. Presenting(c)
  BY DEF Presenting, Presenters
<1>4. k \in Nat
  BY <1>2, <1>3, PresenterAt
<1>5. CASE c.op = "run"
  <2>1. Script(c) = run
    BY <1>5 DEF Script
  <2>2. k + 1 \in 1 .. 13 /\ s = run[k + 1]
    BY <1>1, <1>2, <1>3, <2>1, PresenterAt, RunTable
  <2>3. (k + 1 = 1 => s.do = "admit") /\ (s.do = "report" => k + 1 = 13)
    BY <2>2, RunTable DEF Do
  <2>. QED BY <1>1, <1>2, <1>4, <1>5, <2>3
<1>6. CASE c.op = "run_request"
  <2>1. Script(c) = _run_axi4lite_request
    BY <1>6 DEF Script
  <2>2. k + 1 \in 1 .. 11 /\ s = _run_axi4lite_request[k + 1]
    BY <1>1, <1>2, <1>3, <2>1, PresenterAt, RequestTable
  <2>3. (k + 1 = 1 => s.do = "admit") /\ (s.do = "report" => k + 1 = 11)
    BY <2>2, RequestTable DEF Do
  <2>. QED BY <1>1, <1>2, <1>4, <1>6, <2>3
<1>7. CASE c.op = "run_pair"
  <2>1. Script(c) = run_pair
    BY <1>7 DEF Script
  <2>2. k + 1 \in 1 .. 22 /\ s = run_pair[k + 1]
    BY <1>1, <1>2, <1>3, <2>1, PresenterAt, PairTable
  <2>3. /\ k + 1 = 1 => s.do = "admit"
        /\ k + 1 = 12 => s.do = "admit"
        /\ s.do = "report" => k + 1 = 22
    BY <2>2, PairTable DEF Do
  <2>. QED BY <1>1, <1>2, <1>4, <1>7, <2>3
<1>. QED BY <1>5, <1>6, <1>7

\* An artifact that is put is that of the version being compiled.
LEMMA ArtifactPut ==
  ASSUME EvidenceIInv, NEW p \in Procs, procs[p].todo # <<>>, Advances(p), NEW d \in EvidenceDirs
  PROVE  Artifact(d)' \in {Artifact(d), ver}
<1>. DEFINE c == procs[p]
            s == Head(c.todo)
            here == evidence[c.dir]
            w == Worked(c, s)
<1>1. /\ c \in CommandRecord /\ OnScript(c) /\ c.todo # <<>> /\ c.dir \in EvidenceDirs
      /\ here \in DirectoryRecord /\ evidence \in [EvidenceDirs -> DirectoryRecord]
      /\ evidence' = [evidence EXCEPT ![c.dir] = w]
  BY DEF EvidenceIInv, EvidenceTypeOK, CommandsOK, CommandOK, CommandRecord, Advances
<1>2. s.do \in FileVerbs => s.file \in Files
  BY <1>1, Whose
<1>. HIDE DEF c, s
<1>3. w.files["artifact"] \in {here.files["artifact"], ver}
  <2>1. CASE s.do = "empty"
    <3>1. w = [here EXCEPT !.kind = c.op, !.request = c.asked[1]]
      BY <2>1, WorkedIs
    <3>. HIDE DEF here, w
    <3>. QED BY <1>1, <3>1 DEF DirectoryRecord
  <2>2. CASE s.do = "ready"
    <3>1. w = [here EXCEPT !.ready = TRUE]
      BY <2>2, WorkedIs
    <3>. HIDE DEF here, w
    <3>. QED BY <1>1, <3>1 DEF DirectoryRecord
  <2>3. CASE s.do = "put"
    <3>1. w = [here EXCEPT !.files[s.file] = Content(c, s.file)]
      BY <2>3, WorkedIs
    <3>2. Content(c, "artifact") = ver
      BY ContentIs
    <3>. HIDE DEF here, w
    <3>3. w.files = [here.files EXCEPT ![s.file] = Content(c, s.file)]
      BY <1>1, <3>1 DEF DirectoryRecord
    <3>. QED BY <1>1, <3>2, <3>3 DEF DirectoryRecord, Contents, Files
  <2>4. CASE s.do \notin {"empty", "ready", "put"}
    BY <2>4, WorkedIs
  <2>. QED BY <2>1, <2>2, <2>3, <2>4
<1>. HIDE DEF w
<1>. QED BY <1>1, <1>3 DEF Artifact

\* The version is the admitted one until the edit, and never again.
LEMMA SingleChanges ==
  ASSUME MaxChanges \in {0, 1}, EvidenceIInv, SingleChange, [EvidenceNext]_evars
  PROVE  SingleChange'
<1>1. ASSUME ver' = ver, changes' = changes,
             \A d \in EvidenceDirs : Artifact(d)' \in {Artifact(d), ver}
      PROVE  SingleChange'
  BY <1>1 DEF SingleChange
<1>2. ASSUME evidence' = evidence PROVE \A d \in EvidenceDirs : Artifact(d)' \in {Artifact(d), ver}
  BY <1>2 DEF Artifact
<1>3. ASSUME NEW p \in Procs, Step(p) PROVE SingleChange'
  <2>1. procs[p].todo # <<>> /\ (Stops(p) \/ Advances(p))
    BY <1>3, StepIs DEF EvidenceIInv
  <2>2. ver' = ver /\ changes' = changes
    BY <1>3 DEF Step
  <2>. QED BY <1>1, <1>2, <2>1, <2>2, ArtifactPut DEF Stops
<1>4. ASSUME NEW p \in Procs, Prepare(p) \/ Simulate(p) \/ Finalize(p) \/ Present(p) \/ KillProcess(p)
      PROVE  ver' = ver /\ changes' = changes /\ evidence' = evidence
  BY <1>4 DEF Prepare, Simulate, Finalize, Present, KillProcess, Begin
<1>5. CASE UNCHANGED evars
  BY <1>1, <1>2, <1>5 DEF evars
<1>6. CASE MarkSession
  <2>1. PICK traffic \in BOOLEAN :
          evidence' = [evidence EXCEPT ![1].marker = evidence[1].files["simulator"], ![1].traffic = traffic]
    BY <1>6 DEF MarkSession
  <2>2. evidence \in [EvidenceDirs -> DirectoryRecord] /\ 1 \in EvidenceDirs
    BY DEF EvidenceIInv, EvidenceTypeOK, EvidenceDirs
  <2>3. PICK m : m = evidence[1].files["simulator"]
    OBVIOUS
  <2>4. evidence' = [evidence EXCEPT ![1] = [evidence[1] EXCEPT !.marker = m, !.traffic = traffic]]
    BY <2>1, <2>2, <2>3
  <2>5. [evidence[1] EXCEPT !.marker = m, !.traffic = traffic].files = evidence[1].files
    BY <2>2 DEF DirectoryRecord
  <2>6. \A d \in EvidenceDirs : evidence'[d].files = evidence[d].files
    BY <2>2, <2>4, <2>5
  <2>7. ver' = ver /\ changes' = changes
    BY <1>6 DEF MarkSession
  <2>. QED BY <1>1, <2>6, <2>7 DEF Artifact
<1>7. CASE EditSource
  <2>1. /\ changes < MaxChanges /\ changes' = changes + 1 /\ ver' = (IF ver = "v0" THEN "v1" ELSE "v0")
    BY <1>7 DEF EditSource
  <2>2. changes = 0 /\ ver = "v0"
    BY <2>1 DEF SingleChange
  <2>. QED BY <2>1, <2>2 DEF SingleChange
<1>. QED BY <1>1, <1>2, <1>3, <1>4, <1>5, <1>6, <1>7 DEF EvidenceNext

\* A directory admitted once stays so.
LEMMA AdmittedKept ==
  ASSUME NEW c \in CommandRecord, NEW x \in CommandRecord, PresentOK(c), AdmittedOK(c), SettledStep,
         x.op = c.op, x.dir = c.dir, x.todo = c.todo, x.layer = c.layer
  PROVE  AdmittedOK(x)'
<1>. SUFFICES ASSUME c.todo # <<>>, c.op \in {"run", "run_request", "run_pair"} PROVE AdmittedOK(x)'
  BY DEF AdmittedOK
<1>1. Steps(x) = Steps(c)
  BY DEF Steps, Script
<1>2. evidence[1].ready /\ (c.op = "run_pair" => evidence[2].ready)
  <2>1. Presenting(c)
    BY DEF Presenting, Presenters
  <2>2. CASE c.op = "run_pair"
    BY <2>1, <2>2 DEF PresentOK, PairOK
  <2>3. CASE c.op # "run_pair"
    <3>1. c.dir = 1
      BY <2>3 DEF AdmittedOK, CommandRecord, EvidenceDirs
    <3>. QED BY <2>1, <2>3, <3>1 DEF PresentOK
  <2>. QED BY <2>2, <2>3
<1>3. Artifact(1)' = Artifact(1) /\ (c.op = "run_pair" => Artifact(2)' = Artifact(2))
  BY <1>2 DEF SettledStep, Artifact, EvidenceDirs
<1>. QED BY <1>1, <1>3 DEF AdmittedOK

LEMMA OthersAdmitted ==
  ASSUME EvidenceIInv, PresentedIInv, AdmittedIInv, SettledStep, NEW q \in Procs,
         procs'[q] = procs[q] \/ \E b \in BOOLEAN : procs'[q] = [procs[q] EXCEPT !.quiet = b]
  PROVE  AdmittedOK(procs[q])'
<1>1. PICK c \in CommandRecord : c = procs[q] /\ PresentOK(c) /\ AdmittedOK(c)
  BY DEF EvidenceIInv, EvidenceTypeOK, PresentedIInv, AdmittedIInv
<1>2. PICK x : x = procs'[q]
  OBVIOUS
<1>3. x = c \/ \E b \in BOOLEAN : x = [c EXCEPT !.quiet = b]
  BY <1>1, <1>2
<1>4. x \in CommandRecord /\ x.op = c.op /\ x.dir = c.dir /\ x.layer = c.layer /\ x.todo = c.todo
  BY <1>3 DEF CommandRecord
<1>5. AdmittedOK(x)'
  BY <1>1, <1>4, AdmittedKept
<1>. QED BY <1>2, <1>5

\* What the presenter that goes on has been admitted for.
LEMMA AdmittedOn ==
  ASSUME EvidenceIInv, SingleChange, NEW c \in CommandRecord, OnScript(c), c.todo # <<>>,
         AdmittedOK(c), Passes(c, Head(c.todo)), Tail(c.todo) # <<>>, NEW x, x = Onward(c)
  PROVE  AdmittedOK(x)
<1>1. x.op = c.op /\ x.todo = Tail(c.todo) /\ x.dir = IF Head(c.todo).do = "second" THEN 2 ELSE c.dir
  BY OnwardFields
<1>. SUFFICES ASSUME c.op \in {"run", "run_request", "run_pair"} PROVE AdmittedOK(x)
  BY <1>1 DEF AdmittedOK
<1>2. Steps(x) = Steps(c) + 1
  BY <1>1, OnwardTyped DEF EvidenceIInv
<1>3. PICK k \in Nat : k = Steps(c)
  BY AdmitsFirst
<1>4. Head(c.todo).do = "admit" => Artifact(1) # "v1" /\ Artifact(2) # "v1"
  BY PassesShow DEF SingleChange, EvidenceDirs
<1>5. k = 0 \/ (c.op = "run_pair" /\ k = 11) => Head(c.todo).do = "admit"
  BY <1>3, AdmitsFirst
<1>6. Artifact(1) # "v1"
  <2>1. CASE k = 0
    BY <1>4, <1>5, <2>1
  <2>2. CASE k >= 1
    BY <1>3, <2>2 DEF AdmittedOK
  <2>. QED BY <1>3, <2>1, <2>2
<1>7. c.op = "run_pair" /\ k + 1 >= 12 => Artifact(2) # "v1"
  <2>1. CASE k = 11
    BY <1>4, <1>5, <2>1
  <2>2. CASE k >= 12
    BY <1>3, <2>2 DEF AdmittedOK
  <2>. QED BY <1>3, <2>1, <2>2
<1>8. x.dir = 2 => x.op = "run_pair"
  <2>1. Head(c.todo).do = "second" => c.op = "run_pair"
    BY Whose
  <2>. QED BY <1>1, <2>1 DEF AdmittedOK
<1>. QED BY <1>1, <1>2, <1>3, <1>6, <1>7, <1>8 DEF AdmittedOK

LEMMA ReportIsAdmitted ==
  ASSUME EvidenceIInv, NEW c \in CommandRecord, OnScript(c), Presenting(c), PresentOK(c),
         AdmittedOK(c), Head(c.todo).do = "report"
  PROVE  ReportAdmitted(Reported(c))
<1>1. PICK r : r = Reported(c)
  OBVIOUS
<1>2. r.kind = c.op /\ r.dir = c.dir /\ ReportOK(r)
  BY <1>1, ReportedOK DEF Reported
<1>3. CASE c.op = "playable"
  BY <1>1, <1>2, <1>3 DEF ReportAdmitted
<1>4. CASE c.op # "playable"
  <2>1. c.op \in {"run", "run_request", "run_pair"} /\ c.todo # <<>>
    BY <1>4 DEF Presenting, Presenters
  <2>2. Steps(c) >= 1 /\ (c.op = "run_pair" => Steps(c) >= 12)
    BY <2>1, AdmitsFirst
  <2>3. Artifact(1) # "v1" /\ (c.op = "run_pair" => Artifact(2) # "v1") /\ (c.dir = 2 => c.op = "run_pair")
    BY <2>1, <2>2 DEF AdmittedOK
  <2>4. Artifact(c.dir) \in {"v0", "v1"} /\ (c.op = "run_pair" => Artifact(1) \in {"v0", "v1"})
    BY <1>2 DEF ReportOK, Settled
  <2>5. c.dir \in {1, 2}
    BY DEF CommandRecord, EvidenceDirs
  <2>6. ReportAdmitted(r)
    BY <1>2, <2>3, <2>4, <2>5 DEF ReportAdmitted
  <2>. QED BY <1>1, <2>6
<1>. QED BY <1>3, <1>4

LEMMA ReportStaysAdmitted ==
  ASSUME NEW r, ReportOK(r), ReportAdmitted(r), SettledStep
  PROVE  ReportAdmitted(r)'
<1>1. Artifact(r.dir)' = Artifact(r.dir)
  BY DEF ReportOK, SettledStep, Artifact
<1>2. r.kind = "run_pair" => Artifact(1)' = Artifact(1)
  BY DEF ReportOK, SettledStep, Artifact, EvidenceDirs
<1>. QED BY <1>1, <1>2 DEF ReportAdmitted

LEMMA ReportsAdmitted ==
  ASSUME PresentedIInv, AdmittedIInv, SettledStep, reports' = reports
  PROVE  \A r \in reports' : ReportAdmitted(r)'
BY ReportStaysAdmitted DEF PresentedIInv, AdmittedIInv

\* Every step keeps what was admitted.
LEMMA AdvancesAdmitted ==
  ASSUME EvidenceIInv, PresentedIInv, AdmittedIInv, NEW p \in Procs, procs[p].todo # <<>>, Advances(p)
  PROVE  /\ \A q \in Procs : AdmittedOK(procs[q])'
         /\ \A r \in reports' : ReportAdmitted(r)'
<1>1. SettledStep
  BY AdvancesSettled
<1>2. PICK c \in CommandRecord : /\ c = procs[p] /\ PresentOK(c) /\ AdmittedOK(c) /\ OnScript(c)
                                 /\ c.todo # <<>>
  BY DEF EvidenceIInv, EvidenceTypeOK, CommandsOK, CommandOK, PresentedIInv, AdmittedIInv
<1>3. PICK s : s = Head(c.todo)
  OBVIOUS
<1>4. /\ Passes(c, s)
      /\ procs'[p] = IF Tail(c.todo) = <<>> THEN Idle ELSE Onward(c)
      /\ reports' = reports \union (IF s.do = "report" THEN {Reported(c)} ELSE {})
  BY <1>2, <1>3 DEF Advances
<1>5. ASSUME NEW q \in Procs, q # p
      PROVE  procs'[q] = procs[q] \/ \E b \in BOOLEAN : procs'[q] = [procs[q] EXCEPT !.quiet = b]
  BY <1>5 DEF Advances
<1>6. ASSUME NEW q \in Procs, q # p PROVE AdmittedOK(procs[q])'
  BY <1>1, <1>5, <1>6, OthersAdmitted
<1>7. AdmittedOK(procs[p])'
  <2>1. CASE Tail(c.todo) = <<>>
    <3>1. procs'[p] = Idle /\ Idle.todo = <<>>
      BY <1>4, <2>1 DEF Idle
    <3>. QED BY <3>1 DEF AdmittedOK
  <2>2. CASE Tail(c.todo) # <<>>
    <3>1. PICK x : x = Onward(c)
      OBVIOUS
    <3>2. x \in CommandRecord /\ x.op = c.op
      BY <1>2, <3>1, OnwardTyped, OnwardFields DEF EvidenceIInv
    <3>3. AdmittedOK(x)
      BY <1>2, <1>3, <1>4, <2>2, <3>1, AdmittedOn DEF AdmittedIInv
    <3>4. PresentOK(x)
      <4>1. CASE c.op \in Presenters
        BY <1>2, <1>3, <1>4, <2>2, <3>1, <4>1, PresentOn DEF Presenting, EvidenceIInv
      <4>2. CASE c.op \notin Presenters
        BY <3>2, <4>2 DEF PresentOK, Presenting
      <4>. QED BY <4>1, <4>2
    <3>5. AdmittedOK(x)'
      BY <1>1, <3>2, <3>3, <3>4, AdmittedKept
    <3>6. procs'[p] = x
      BY <1>4, <2>2, <3>1
    <3>. QED BY <3>5, <3>6
  <2>. QED BY <2>1, <2>2
<1>8. ASSUME NEW r \in reports' PROVE ReportAdmitted(r)'
  <2>1. CASE r \in reports
    BY <1>1, <2>1, ReportStaysAdmitted DEF PresentedIInv, AdmittedIInv
  <2>2. CASE s.do = "report" /\ r = Reported(c)
    <3>1. Presenting(c)
      BY <1>2, <1>3, <2>2, Whose DEF Presenting
    <3>2. ReportOK(r) /\ ReportAdmitted(r)
      BY <1>2, <1>3, <2>2, <3>1, ReportedOK, ReportIsAdmitted
    <3>. QED BY <1>1, <3>2, ReportStaysAdmitted
  <2>. QED BY <1>4, <2>1, <2>2
<1>. QED BY <1>6, <1>7, <1>8

\* A command that begins, or ends, with nothing admitted yet.
LEMMA BeginsAdmitted ==
  ASSUME EvidenceIInv, PresentedIInv, AdmittedIInv, SettledStep, NEW p \in Procs, NEW x, AdmittedOK(x)',
         procs' = [procs EXCEPT ![p] = x], reports' = reports
  PROVE  /\ \A q \in Procs : AdmittedOK(procs[q])'
         /\ \A r \in reports' : ReportAdmitted(r)'
<1>1. ASSUME NEW q \in Procs PROVE AdmittedOK(procs[q])'
  <2>1. CASE q = p
    <3>1. procs'[q] = x
      BY <2>1 DEF EvidenceIInv, EvidenceTypeOK
    <3>. QED BY <3>1
  <2>2. CASE q # p
    <3>1. procs'[q] = procs[q]
      BY <2>2 DEF EvidenceIInv, EvidenceTypeOK
    <3>. QED BY <3>1, OthersAdmitted
  <2>. QED BY <2>1, <2>2
<1>. QED BY <1>1, ReportsAdmitted

LEMMA AdmittedKeeps ==
  ASSUME MaxChanges \in {0, 1}
  PROVE  EvidenceIInv /\ PresentedIInv /\ AdmittedIInv /\ [EvidenceNext]_evars => AdmittedIInv'
<1>. SUFFICES ASSUME EvidenceIInv, PresentedIInv, AdmittedIInv, [EvidenceNext]_evars PROVE AdmittedIInv'
  OBVIOUS
<1>1. SettledStep /\ SingleChange'
  BY SettledSteps, SingleChanges DEF AdmittedIInv
<1>2. SUFFICES /\ \A q \in Procs : AdmittedOK(procs[q])'
               /\ \A r \in reports' : ReportAdmitted(r)'
  BY <1>1 DEF AdmittedIInv
<1>3. ASSUME NEW x, NEW p \in Procs, x.op \notin {"run", "run_request", "run_pair"} \/ x.todo = <<>>,
             procs' = [procs EXCEPT ![p] = x], reports' = reports
      PROVE  /\ \A q \in Procs : AdmittedOK(procs[q])'
             /\ \A r \in reports' : ReportAdmitted(r)'
  <2>1. AdmittedOK(x)'
    BY <1>3 DEF AdmittedOK
  <2>. QED BY <1>1, <1>3, <2>1, BeginsAdmitted
<1>4. Idle.todo = <<>>
  BY DEF Idle
<1>5. ASSUME NEW p \in Procs, Step(p)
      PROVE  /\ \A q \in Procs : AdmittedOK(procs[q])'
             /\ \A r \in reports' : ReportAdmitted(r)'
  <2>1. procs[p].todo # <<>> /\ (Stops(p) \/ Advances(p))
    BY <1>5, StepIs DEF EvidenceIInv
  <2>2. CASE Stops(p)
    BY <1>3, <1>4, <2>2 DEF Stops
  <2>3. CASE Advances(p)
    BY <2>1, <2>3, AdvancesAdmitted
  <2>. QED BY <2>1, <2>2, <2>3
<1>6. ASSUME NEW p \in Procs, KillProcess(p)
      PROVE  /\ \A q \in Procs : AdmittedOK(procs[q])'
             /\ \A r \in reports' : ReportAdmitted(r)'
  BY <1>3, <1>4, <1>6 DEF KillProcess
<1>7. ASSUME NEW p \in Procs, Prepare(p) \/ Simulate(p) \/ Finalize(p)
      PROVE  /\ \A q \in Procs : AdmittedOK(procs[q])'
             /\ \A r \in reports' : ReportAdmitted(r)'
  <2>1. reports' = reports /\ \E x : x.op \notin Presenters /\ procs' = [procs EXCEPT ![p] = x]
    BY <1>7, OtherBegins
  <2>2. PICK x : x.op \notin Presenters /\ procs' = [procs EXCEPT ![p] = x]
    BY <2>1
  <2>3. x.op \notin {"run", "run_request", "run_pair"}
    BY <2>2 DEF Presenters
  <2>. QED BY <1>3, <2>1, <2>2, <2>3
<1>8. ASSUME NEW p \in Procs, Present(p)
      PROVE  /\ \A q \in Procs : AdmittedOK(procs[q])'
             /\ \A r \in reports' : ReportAdmitted(r)'
  <2>1. PICK x \in CommandRecord : Begin(p, x) /\ PresentStart(x)
    BY <1>8, PresentBegins
  <2>2. x.op \notin Kinds /\ x.op # "idle" /\ x.op # "simulate" /\ x.op # "finalize"
    BY <2>1, EvidenceConstants DEF PresentStart, Presenters
  <2>3. Steps(x) = 0 /\ x.dir = 1
    BY <2>1, <2>2, Begins DEF PresentStart
  <2>4. AdmittedOK(x)'
    <3>1. Steps(x)' = 0
      BY <2>3 DEF Steps, Script
    <3>. QED BY <2>3, <3>1 DEF AdmittedOK
  <2>5. procs' = [procs EXCEPT ![p] = x] /\ reports' = reports
    BY <2>1 DEF Begin
  <2>. QED BY <1>1, <2>4, <2>5, BeginsAdmitted
<1>9. ASSUME /\ reports' = reports
             /\ \A q \in Procs : procs'[q] = procs[q]
                                 \/ \E b \in BOOLEAN : procs'[q] = [procs[q] EXCEPT !.quiet = b]
      PROVE  /\ \A q \in Procs : AdmittedOK(procs[q])'
             /\ \A r \in reports' : ReportAdmitted(r)'
  BY <1>1, <1>9, OthersAdmitted, ReportsAdmitted
<1>10. CASE MarkSession
  BY <1>9, <1>10 DEF MarkSession
<1>11. CASE EditSource
  <2>1. ASSUME NEW q \in Procs PROVE \E b \in BOOLEAN : procs'[q] = [procs[q] EXCEPT !.quiet = b]
    <3>1. PICK b \in BOOLEAN : b = (procs[q].todo = <<>>)
      OBVIOUS
    <3>. QED BY <1>11, <3>1 DEF EditSource
  <2>2. reports' = reports
    BY <1>11 DEF EditSource
  <2>. QED BY <1>9, <2>1, <2>2
<1>12. CASE UNCHANGED evars
  BY <1>9, <1>12 DEF evars
<1>. QED BY <1>5, <1>6, <1>7, <1>8, <1>10, <1>11, <1>12 DEF EvidenceNext

LEMMA AdmittedStarts == EvidenceInit => AdmittedIInv
BY DEF EvidenceInit, AdmittedIInv, SingleChange, AdmittedOK, Idle, Artifact, NoDir, Nothing, Files

\* And it is the admitted program's, with the sources edited once at most beside all of it:
\* more edits could bring another version after each of a command's admissions and take it
\* back before the next, and no command holds the descriptors still in between.
THEOREM PresentedIsSound ==
  ASSUME MaxChanges \in {0, 1}
  PROVE  EvidenceSpec => []PresentedSound
<1>1. PresentedIInv /\ AdmittedIInv => PresentedSound
  BY DEF PresentedIInv, AdmittedIInv, PresentedSound, PresentedTogether, ReportOK, ReportAdmitted,
         Settled, Names
<1>. QED BY <1>1, EvidenceStarts, EvidenceKeeps, PresentedStarts, PresentedKeeps, AdmittedStarts,
            AdmittedKeeps, PTL DEF EvidenceSpec
=============================================================================
