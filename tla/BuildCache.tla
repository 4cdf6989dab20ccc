----------------------------- MODULE BuildCache -----------------------------
(***************************************************************************)
(* Reuse of compiled simulators: raveil/graph_device_build_cache.py with   *)
(* the run around it (graph_device_dynamic.py) and the container script it *)
(* starts.  Runs of several processes share the cache directory and the    *)
(* source tree they build; sources are edited, and the dependency volume   *)
(* is updated, while runs are under way; a process may be killed anywhere. *)
(*                                                                         *)
(* An identity is the pair of source tree and dependencies that identity   *)
(* digests.  A bundle is what the cache keeps of a build: the identity it  *)
(* was published under, the source manifest of the container that built    *)
(* it, and the dependencies it was built with.  Its members are copied one *)
(* by one, so a directory is a bundle and the number of its members.       *)
(***************************************************************************)
EXTENDS Integers, FiniteSets, FiniteSetTheorems, TLAPS

CONSTANTS
  Procs,       \* the processes that run dynamic requests with reuse on
  Trees,       \* the contents the source tree takes
  MaxDeps,     \* how often the dependency volume is updated
  Members,     \* files of a bundle, the manifest the last of them
  MAX_ENTRIES  \* directories the cache may hold

VARIABLES
  tree,      \* the source tree
  deps,      \* the dependency volume
  entries,   \* the directories named by a key, as a set of [key, bundle, members]
  stages,    \* the private siblings not yet renamed, by the process that made them
  orphans,   \* how many stages their makers have left behind
  lock,      \* the process that holds the publication lock, as a set
  at,        \* what each process does next
  context,   \* what prepare remembers: the identity, and the bundle that was hit
  container, \* the container's copy of the sources and the simulator it runs
  evidence   \* the runs that were reported to have passed

cvars == <<tree, deps, entries, stages, orphans, lock, at, context, container, evidence>>
world == <<tree, deps>>
cache == <<entries, stages, orphans>>

Deps == 0 .. MaxDeps
Identity == [tree : Trees, deps : Deps]
NoIdentity == [tree |-> CHOOSE t \in Trees : TRUE, deps |-> 0]

CacheInit ==
  /\ tree \in Trees /\ deps = 0
  /\ entries = {} /\ stages = {} /\ orphans = 0
  /\ lock = {}
  /\ at = [p \in Procs |-> "idle"]
  /\ context = [p \in Procs |-> [identity |-> NoIdentity, hit |-> {}]]
  /\ container = [p \in Procs |-> [copy |-> NoIdentity.tree, simulator |-> NoIdentity]]
  /\ evidence = {}

----------------------------------------------------------------------------

GoOn(p, label) == at' = [at EXCEPT ![p] = label]

\* The run ends, well or not: descriptors are closed, the session is retained
\* but never read again.
Leave(p) ==
  /\ GoOn(p, "idle")
  /\ lock' = lock \ {p}
  /\ orphans' = orphans + Cardinality({s \in stages : s.by = p})
  /\ stages' = {s \in stages : s.by # p}
  /\ context' = [context EXCEPT ![p] = [identity |-> NoIdentity, hit |-> {}]]
  /\ container' = [container EXCEPT ![p] = [copy |-> NoIdentity.tree, simulator |-> NoIdentity]]

Reject(p) == Leave(p) /\ UNCHANGED <<world, entries, evidence>>

At(key) == {e \in entries : e.key = key}

\* What read demands of an entry: all its members, under its own identity.
Valid(e) == e.members = Members /\ e.bundle.identity = e.key

(* prepare *)

dependency_digest(p) ==
  /\ at[p] = "idle"
  /\ context' = [context EXCEPT ![p].identity.deps = deps]
  /\ GoOn(p, "identity")
  /\ UNCHANGED <<world, cache, lock, container, evidence>>

identity(p) ==
  /\ at[p] = "identity"
  /\ context' = [context EXCEPT ![p].identity.tree = tree]
  /\ GoOn(p, "stage")
  /\ UNCHANGED <<world, cache, lock, container, evidence>>

\* Copy the entry of this identity into the session, if there is one; the
\* reader does not take the lock.
stage(p) ==
  LET found == At(context[p].identity) IN
    /\ at[p] = "stage"
    /\ IF \E e \in found : ~Valid(e)
         THEN Reject(p)
         ELSE /\ context' = [context EXCEPT ![p].hit = {e.bundle : e \in found}]
              /\ GoOn(p, "copy")
              /\ UNCHANGED <<world, cache, lock, container, evidence>>

(* The container. *)

\* The compiled sources are copied and their manifest made from the copies;
\* then the dependencies are compared with those the host has seen.
CopySources(p) ==
  /\ at[p] = "copy"
  /\ IF deps # context[p].identity.deps
       THEN Reject(p)
       ELSE /\ container' = [container EXCEPT ![p].copy = tree]
            /\ GoOn(p, "build")
            /\ UNCHANGED <<world, cache, lock, context, evidence>>

\* Mutant: the manifests of the staged bundle are not compared.
Mutant_Comparable(p, b) == b.identity = context[p].identity

\* What the container compares before it runs a staged simulator.
Comparable(p, b) ==
  /\ b.identity = context[p].identity
  /\ b.tree = container[p].copy

Reuse(p) ==
  /\ at[p] = "build"
  /\ \E b \in context[p].hit :
       IF ~Comparable(p, b)
         THEN Reject(p)
         ELSE /\ container' = [container EXCEPT ![p].simulator = [tree |-> b.tree, deps |-> b.deps]]
              /\ GoOn(p, "after")
              /\ UNCHANGED <<world, cache, lock, context, evidence>>

\* Elaborate and build from the copies, with the volume as it is.
Build(p) ==
  /\ at[p] = "build"
  /\ context[p].hit = {}
  /\ container' = [container EXCEPT ![p].simulator = [tree |-> container[p].copy, deps |-> deps]]
  /\ GoOn(p, "after")
  /\ UNCHANGED <<world, cache, lock, context, evidence>>

\* The requests are executed and the dependencies compared again.
Execute(p) ==
  /\ at[p] = "after"
  /\ IF deps # context[p].identity.deps
       THEN Reject(p)
       ELSE /\ evidence' = evidence \cup {[simulator |-> container[p].simulator,
                                           copy |-> container[p].copy,
                                           deps |-> context[p].identity.deps]}
            /\ GoOn(p, "finish")
            /\ UNCHANGED <<world, cache, lock, context, container>>

(* finish and publish *)

\* Dependencies and sources must be what prepare saw; a hit is not published.
Recheck(p) ==
  /\ at[p] = "finish"
  /\ IF deps # context[p].identity.deps \/ tree # context[p].identity.tree \/ context[p].hit # {}
       THEN Reject(p)
       ELSE /\ GoOn(p, "publish")
            /\ UNCHANGED <<world, cache, lock, context, container, evidence>>

flock(p) ==
  /\ at[p] = "publish"
  /\ lock = {}
  /\ lock' = {p}
  /\ GoOn(p, "locked")
  /\ UNCHANGED <<world, cache, context, container, evidence>>

Full == Cardinality(entries) + Cardinality(stages) + orphans >= MAX_ENTRIES

\* An entry of this key, valid or not, ends the call, and so does a full
\* cache; otherwise a private stage is made.
Admit(p) ==
  /\ at[p] = "locked"
  /\ IF At(context[p].identity) # {} \/ Full
       THEN Reject(p)
       ELSE /\ stages' = stages \cup {[by |-> p, members |-> 0]}
            /\ GoOn(p, "write")
            /\ UNCHANGED <<world, entries, orphans, lock, context, container, evidence>>

WriteMember(p) ==
  /\ at[p] = "write"
  /\ \E s \in stages :
       /\ s.by = p
       /\ stages' = (stages \ {s}) \cup {[s EXCEPT !.members = s.members + 1]}
       /\ IF s.members + 1 = Members THEN GoOn(p, "rename") ELSE UNCHANGED at
  /\ UNCHANGED <<world, entries, orphans, lock, context, container, evidence>>

Bundle(p) == [identity |-> context[p].identity,
              tree |-> container[p].simulator.tree,
              deps |-> container[p].simulator.deps]

\* rename fails on a directory that is there and not empty.
rename(p) ==
  /\ at[p] = "rename"
  /\ \E s \in stages :
       /\ s.by = p
       /\ IF At(context[p].identity) # {}
            THEN Reject(p)
            ELSE /\ entries' = entries \cup {[key |-> context[p].identity, bundle |-> Bundle(p),
                                               members |-> s.members]}
                 /\ stages' = stages \ {s}
                 /\ GoOn(p, "receipt")
                 /\ UNCHANGED <<world, orphans, lock, context, container, evidence>>

\* The lock is released and the receipt written.
Close(p) ==
  /\ at[p] = "receipt"
  /\ Reject(p)

----------------------------------------------------------------------------
(* The environment.                                                        *)

\* The process is killed, or an OSError ends it in the same place.
KillProcess(p) ==
  /\ at[p] # "idle"
  /\ Reject(p)

Edit ==
  /\ tree' \in Trees \ {tree}
  /\ UNCHANGED <<deps, cache, lock, at, context, container, evidence>>

\* The dependency volume only moves forward.
UpdateDeps ==
  /\ deps < MaxDeps
  /\ deps' = deps + 1
  /\ UNCHANGED <<tree, cache, lock, at, context, container, evidence>>

Run(p) ==
  \/ dependency_digest(p) \/ identity(p) \/ stage(p)
  \/ CopySources(p) \/ Reuse(p) \/ Build(p) \/ Execute(p)
  \/ Recheck(p) \/ flock(p) \/ Admit(p) \/ WriteMember(p) \/ rename(p) \/ Close(p)

CacheNext == (\E p \in Procs : Run(p) \/ KillProcess(p)) \/ Edit \/ UpdateDeps

CacheSpec == CacheInit /\ [][CacheNext]_cvars

----------------------------------------------------------------------------
(* Properties.                                                             *)

\* Whatever dies where, a directory that has a key for its name is a whole
\* bundle under its own identity, and there is one: an unlocked reader never
\* sees a part of one (graph_device_build_cache.py:91-104).
EntriesWhole ==
  /\ \A e \in entries : e.members = Members /\ e.bundle.identity = e.key
  /\ \A e, f \in entries : e.key = f.key => e = f

\* Entries and abandoned stages together never outgrow the cache, however
\* many publishers pass the check at once (lines 138-140).
CacheBounded == Cardinality(entries) + Cardinality(stages) + orphans <= MAX_ENTRIES

\* A run that passed, fresh or reused, ran a simulator built from the very
\* sources its container had copied, with the dependencies it was prepared
\* for, even if the tree was edited and edited back while another run built.
EvidenceCurrent ==
  \A e \in evidence : e.simulator.tree = e.copy /\ e.simulator.deps = e.deps

\* The cache under concurrent runs, kills and edits: entries are whole and one per
\* identity, entries and stages stay within the limit, and published evidence was
\* produced by a simulator built from the tree it names.
CacheSound == EntriesWhole /\ CacheBounded /\ EvidenceCurrent

----------------------------------------------------------------------------
(***************************************************************************)
(* CacheSound for any processes, source trees, members and limits.  The    *)
(* limit holds because a stage exists only under the lock, and the         *)
(* evidence because the dependency volume only moves forward: equal before *)
(* and after the build, it was the same in between.                        *)
(***************************************************************************)
CacheConstants ==
  /\ Trees # {} /\ MaxDeps \in Nat
  /\ Members \in Nat \ {0} /\ MAX_ENTRIES \in Nat

ASSUME CacheAssumption == CacheConstants

Labels == {"idle", "identity", "stage", "copy", "build", "after", "finish", "publish",
           "locked", "write", "rename", "receipt"}
Bundles == [identity : Identity, tree : Trees, deps : Deps]
Contexts == [identity : Identity, hit : SUBSET Bundles]
Containers == [copy : Trees, simulator : Identity]

CacheTypes ==
  /\ tree \in Trees /\ deps \in Deps
  /\ entries \subseteq [key : Identity, bundle : Bundles, members : Nat]
  /\ IsFiniteSet(entries)
  /\ orphans \in Nat /\ lock \subseteq Procs
  /\ at \in [Procs -> Labels]
  /\ context \in [Procs -> Contexts]
  /\ container \in [Procs -> Containers]

LockHeld ==
  \A p \in Procs : at[p] \in {"locked", "write", "rename", "receipt"} => lock = {p}

Staging(p) == at[p] \in {"write", "rename"}

\* The only stage is that of the process that fills it.
StageOwned ==
  /\ \A p \in Procs : Staging(p) =>
       \E m \in 0 .. Members : /\ stages = {[by |-> p, members |-> m]}
                               /\ at[p] = "write" => m < Members
                               /\ at[p] = "rename" => m = Members
  /\ (\A p \in Procs : ~Staging(p)) => stages = {}

\* A published bundle was built with the dependencies of its identity.
BundlesTrue == \A e \in entries : e.bundle.deps = e.bundle.identity.deps

RunTrue(p) ==
  /\ \A b \in context[p].hit : b.deps = b.identity.deps
  /\ at[p] = "build" => context[p].identity.deps <= deps
  /\ at[p] = "after" => /\ container[p].simulator.tree = container[p].copy
                        /\ context[p].identity.deps <= container[p].simulator.deps
                        /\ container[p].simulator.deps <= deps
  /\ at[p] \in {"finish", "publish", "locked", "write", "rename"} =>
       container[p].simulator.deps = context[p].identity.deps

CacheInv ==
  /\ CacheTypes /\ LockHeld /\ StageOwned /\ CacheSound /\ BundlesTrue
  /\ \A p \in Procs : RunTrue(p)

LEMMA DepsAreNumbers == ASSUME CacheConstants PROVE Deps \subseteq Nat /\ 0 \in Deps
BY DEF CacheConstants, Deps

LEMMA NoIdentityType ==
  ASSUME CacheConstants PROVE NoIdentity \in Identity /\ NoIdentity.tree \in Trees
<1>1. (CHOOSE t \in Trees : TRUE) \in Trees
  BY DEF CacheConstants
<1>. QED BY <1>1, DepsAreNumbers DEF NoIdentity, Identity

LEMMA CacheInitial == ASSUME CacheConstants PROVE CacheInit => CacheInv
<1>. SUFFICES ASSUME CacheInit PROVE CacheInv
  OBVIOUS
<1>1. CacheTypes
  BY NoIdentityType, DepsAreNumbers, FS_EmptySet
  DEF CacheInit, CacheTypes, Labels, Contexts, Containers
<1>2. LockHeld /\ StageOwned /\ BundlesTrue
  BY DEF CacheInit, LockHeld, StageOwned, Staging, BundlesTrue
<1>3. CacheSound
  BY FS_EmptySet DEF CacheInit, CacheConstants, CacheSound, EntriesWhole, CacheBounded, EvidenceCurrent
<1>4. \A p \in Procs : RunTrue(p)
  BY DEF CacheInit, RunTrue
<1>. QED BY <1>1, <1>2, <1>3, <1>4 DEF CacheInv

\* A step of p that changes at most its own place and what it remembers.
OnlyRun(p) ==
  /\ UNCHANGED <<tree, deps, entries, stages, orphans>>
  /\ \A q \in Procs : q # p =>
       at'[q] = at[q] /\ context'[q] = context[q] /\ container'[q] = container[q]

LEMMA RunKeeps ==
  ASSUME CacheInv, NEW p \in Procs, OnlyRun(p), CacheTypes', RunTrue(p)', EvidenceCurrent',
         ~Staging(p), ~Staging(p)', LockHeld'
  PROVE  CacheInv'
<1>1. StageOwned'
  <2>1. \A q \in Procs : Staging(q)' = Staging(q) /\ (q # p => at'[q] = at[q])
    BY DEF OnlyRun, Staging
  <2>. QED BY <2>1 DEF CacheInv, StageOwned, OnlyRun, Staging
<1>2. EntriesWhole' /\ CacheBounded' /\ BundlesTrue'
  BY DEF CacheInv, CacheSound, EntriesWhole, CacheBounded, BundlesTrue, OnlyRun
<1>3. ASSUME NEW q \in Procs, q # p PROVE RunTrue(q)'
  BY <1>3 DEF CacheInv, RunTrue, OnlyRun
<1>. QED BY <1>1, <1>2, <1>3 DEF CacheInv, CacheSound

\* The end of a run: its stage, if it has one, is left behind and counted.
LEMMA RejectKeeps ==
  ASSUME CacheConstants, CacheInv, NEW p \in Procs, Reject(p)
  PROVE  CacheInv'
<1>0. /\ CacheTypes /\ StageOwned
      /\ at' = [at EXCEPT ![p] = "idle"] /\ lock' = lock \ {p}
      /\ orphans' = orphans + Cardinality({s \in stages : s.by = p})
      /\ stages' = {s \in stages : s.by # p}
      /\ context' = [context EXCEPT ![p] = [identity |-> NoIdentity, hit |-> {}]]
      /\ container' = [container EXCEPT ![p] = [copy |-> NoIdentity.tree, simulator |-> NoIdentity]]
      /\ tree' = tree /\ deps' = deps /\ entries' = entries /\ evidence' = evidence
  BY DEF Reject, Leave, GoOn, CacheInv, world
<1>1. /\ at'[p] = "idle" /\ context'[p].hit = {}
      /\ \A q \in Procs : q # p =>
           at'[q] = at[q] /\ context'[q] = context[q] /\ container'[q] = container[q]
  BY <1>0 DEF CacheTypes
<1>2. /\ stages' = (IF Staging(p) THEN {} ELSE stages)
      /\ orphans' = (IF Staging(p) THEN orphans + 1 ELSE orphans)
      /\ Staging(p) => Cardinality(stages) = 1
  <2>1. CASE Staging(p)
    <3>1. PICK m : stages = {[by |-> p, members |-> m]}
      BY <1>0, <2>1 DEF StageOwned
    <3>2. {s \in stages : s.by = p} = stages /\ {s \in stages : s.by # p} = {}
      BY <3>1
    <3>3. Cardinality(stages) = 1
      BY <3>1, FS_Singleton
    <3>. QED BY <1>0, <2>1, <3>2, <3>3
  <2>2. CASE ~Staging(p)
    <3>1. {s \in stages : s.by = p} = {} /\ {s \in stages : s.by # p} = stages
      <4>1. CASE \E q \in Procs : Staging(q)
        <5>1. PICK q \in Procs : Staging(q)
          BY <4>1
        <5>2. PICK m : stages = {[by |-> q, members |-> m]}
          BY <1>0, <5>1 DEF StageOwned
        <5>. QED BY <2>2, <5>1, <5>2
      <4>2. CASE \A q \in Procs : ~Staging(q)
        BY <1>0, <4>2 DEF StageOwned
      <4>. QED BY <4>1, <4>2
    <3>2. orphans' = orphans + 0
      BY <1>0, <3>1, FS_EmptySet
    <3>. QED BY <1>0, <2>2, <3>1, <3>2 DEF CacheTypes
  <2>. QED BY <2>1, <2>2
<1>3. CacheTypes'
  <2>1. orphans' \in Nat
    BY <1>0, <1>2 DEF CacheTypes
  <2>2. /\ [identity |-> NoIdentity, hit |-> {}] \in Contexts
        /\ [copy |-> NoIdentity.tree, simulator |-> NoIdentity] \in Containers
    BY NoIdentityType DEF Contexts, Containers
  <2>3. context' \in [Procs -> Contexts] /\ container' \in [Procs -> Containers]
    BY <1>0, <2>2 DEF CacheTypes
  <2>. QED BY <1>0, <2>1, <2>3 DEF CacheTypes, Labels
<1>4. LockHeld'
  BY <1>0, <1>1 DEF CacheInv, LockHeld
<1>5. StageOwned'
  <2>1. ASSUME NEW q \in Procs, Staging(q)'
        PROVE  \E m \in 0 .. Members : /\ stages' = {[by |-> q, members |-> m]}
                                       /\ at'[q] = "write" => m < Members
                                       /\ at'[q] = "rename" => m = Members
    <3>1. q # p /\ Staging(q)
      BY <1>1, <2>1 DEF Staging
    <3>2. ~Staging(p)
      BY <3>1 DEF CacheInv, LockHeld, Staging
    <3>. QED BY <1>0, <1>1, <1>2, <3>1, <3>2 DEF StageOwned
  <2>2. ASSUME \A q \in Procs : ~Staging(q)' PROVE stages' = {}
    <3>1. CASE Staging(p)
      BY <1>2, <3>1
    <3>2. CASE ~Staging(p)
      BY <1>0, <1>1, <1>2, <2>2, <3>2 DEF StageOwned, Staging
    <3>. QED BY <3>1, <3>2
  <2>. QED BY <2>1, <2>2 DEF StageOwned, Staging
<1>6. CacheBounded'
  <2>1. Cardinality(entries) \in Nat
    BY <1>0, FS_CardinalityType DEF CacheTypes
  <2>2. CASE Staging(p)
    <3>1. Cardinality(entries) + 1 + orphans <= MAX_ENTRIES
      BY <1>2, <2>2 DEF CacheInv, CacheSound, CacheBounded
    <3>2. Cardinality(entries') = Cardinality(entries) /\ Cardinality(stages') = 0
      BY <1>0, <1>2, <2>2, FS_EmptySet
    <3>3. orphans \in Nat /\ orphans' = orphans + 1 /\ MAX_ENTRIES \in Nat
      BY <1>0, <1>2, <2>2 DEF CacheTypes, CacheConstants
    <3>. QED BY <2>1, <3>1, <3>2, <3>3 DEF CacheBounded
  <2>3. CASE ~Staging(p)
    BY <1>0, <1>2, <2>3 DEF CacheInv, CacheSound, CacheBounded
  <2>. QED BY <2>2, <2>3
<1>7. EntriesWhole' /\ EvidenceCurrent' /\ BundlesTrue'
  BY <1>0 DEF CacheInv, CacheSound, EntriesWhole, EvidenceCurrent, BundlesTrue
<1>8. ASSUME NEW q \in Procs PROVE RunTrue(q)'
  <2>1. CASE q = p
    BY <1>1, <2>1 DEF RunTrue
  <2>2. CASE q # p
    BY <1>0, <1>1, <2>2 DEF CacheInv, RunTrue
  <2>. QED BY <2>1, <2>2
<1>. QED BY <1>3, <1>4, <1>5, <1>6, <1>7, <1>8 DEF CacheInv, CacheSound

\* A step of p before the lock: its place, context and container change.
LocalStep(p, label, c, k) ==
  /\ at' = [at EXCEPT ![p] = label]
  /\ context' = [context EXCEPT ![p] = c] /\ container' = [container EXCEPT ![p] = k]
  /\ UNCHANGED <<tree, deps, entries, stages, orphans, lock>>

\* What p may rely on once it is at label.
Fit(label, c, k) ==
  /\ c \in Contexts /\ k \in Containers
  /\ \A b \in c.hit : b.deps = b.identity.deps
  /\ label = "build" => c.identity.deps <= deps
  /\ label = "after" => /\ k.simulator.tree = k.copy
                        /\ c.identity.deps <= k.simulator.deps /\ k.simulator.deps <= deps
  /\ label \in {"finish", "publish"} => k.simulator.deps = c.identity.deps

LEMMA LocalKeeps ==
  ASSUME CacheInv, NEW p \in Procs, ~Staging(p), EvidenceCurrent',
         NEW label \in {"identity", "stage", "copy", "build", "after", "finish", "publish"},
         NEW c, NEW k, LocalStep(p, label, c, k), Fit(label, c, k)
  PROVE  CacheInv'
<1>0. CacheTypes
  BY DEF CacheInv
<1>1. /\ at'[p] = label /\ context'[p] = c /\ container'[p] = k
      /\ \A q \in Procs : q # p =>
           at'[q] = at[q] /\ context'[q] = context[q] /\ container'[q] = container[q]
  BY <1>0 DEF CacheTypes, LocalStep
<1>2. CacheTypes'
  BY <1>0 DEF CacheTypes, Labels, LocalStep, Fit
<1>3. OnlyRun(p) /\ ~Staging(p)'
  BY <1>1 DEF OnlyRun, Staging, LocalStep
<1>4. LockHeld'
  BY <1>1 DEF CacheInv, LockHeld, LocalStep
<1>5. RunTrue(p)'
  BY <1>1 DEF RunTrue, LocalStep, Fit
<1>. QED BY <1>2, <1>3, <1>4, <1>5, RunKeeps

\* A step of the process that holds the lock: nobody else has a stage.
HolderStep(p, label) ==
  /\ at[p] \in {"locked", "write", "rename"} /\ at' = [at EXCEPT ![p] = label]
  /\ UNCHANGED <<tree, deps, orphans, lock, context, container, evidence>>

LEMMA HolderKeeps ==
  ASSUME CacheInv, NEW p \in Procs, NEW label \in {"write", "rename", "receipt"},
         HolderStep(p, label)
  PROVE  /\ \A q \in Procs : q # p => ~Staging(q) /\ ~Staging(q)'
         /\ at'[p] = label /\ at' \in [Procs -> Labels]
         /\ LockHeld' /\ EvidenceCurrent' /\ \A q \in Procs : RunTrue(q)'
<1>0. CacheTypes /\ LockHeld /\ CacheSound /\ \A q \in Procs : RunTrue(q)
  BY DEF CacheInv
<1>1. /\ at'[p] = label /\ at' \in [Procs -> Labels]
      /\ \A q \in Procs : q # p => at'[q] = at[q]
  BY <1>0 DEF CacheTypes, HolderStep, Labels
<1>2. lock = {p} /\ lock' = lock
  BY <1>0 DEF LockHeld, HolderStep
<1>3. \A q \in Procs : q # p => ~Staging(q) /\ ~Staging(q)'
  BY <1>0, <1>1, <1>2 DEF LockHeld, Staging
<1>4. LockHeld'
  BY <1>0, <1>1, <1>2 DEF LockHeld
<1>5. EvidenceCurrent'
  BY <1>0 DEF CacheSound, EvidenceCurrent, HolderStep
<1>6. ASSUME NEW q \in Procs PROVE RunTrue(q)'
  <2>1. RunTrue(q) /\ context' = context /\ container' = container /\ deps' = deps
    BY <1>0 DEF HolderStep
  <2>2. CASE q = p
    BY <1>1, <2>1, <2>2 DEF RunTrue, HolderStep
  <2>3. CASE q # p
    BY <1>1, <2>1, <2>3 DEF RunTrue
  <2>. QED BY <2>2, <2>3
<1>. QED BY <1>1, <1>3, <1>4, <1>5, <1>6

LEMMA CacheStep == ASSUME CacheConstants PROVE CacheInv /\ [CacheNext]_cvars => CacheInv'
<1>. SUFFICES ASSUME CacheInv, [CacheNext]_cvars PROVE CacheInv'
  OBVIOUS
<1>0. CacheTypes /\ LockHeld /\ StageOwned /\ CacheSound /\ BundlesTrue /\ \A p \in Procs : RunTrue(p)
  BY DEF CacheInv
<1>1. ASSUME NEW p \in Procs
      PROVE  /\ context[p] \in Contexts /\ container[p] \in Containers
             /\ context[p].identity \in Identity /\ context[p].identity.deps \in Nat
             /\ container[p].simulator \in Identity /\ container[p].simulator.deps \in Nat
             /\ container[p].copy \in Trees /\ deps \in Nat
             /\ context = [context EXCEPT ![p] = context[p]]
             /\ container = [container EXCEPT ![p] = container[p]]
  BY <1>0, DepsAreNumbers DEF CacheTypes, Contexts, Containers, Identity
<1>2. ASSUME evidence' = evidence PROVE EvidenceCurrent'
  BY <1>0, <1>2 DEF CacheSound, EvidenceCurrent
<1>a. CASE UNCHANGED cvars
  BY <1>0, <1>a DEF cvars, CacheInv, CacheTypes, LockHeld, StageOwned, Staging, CacheSound,
     EntriesWhole, CacheBounded, EvidenceCurrent, BundlesTrue, RunTrue
<1>b. ASSUME NEW p \in Procs, dependency_digest(p) PROVE CacheInv'
  <2>1. /\ at[p] = "idle" /\ at' = [at EXCEPT ![p] = "identity"]
        /\ context' = [context EXCEPT ![p].identity.deps = deps]
        /\ UNCHANGED <<tree, deps, entries, stages, orphans, lock, container, evidence>>
    BY <1>b DEF dependency_digest, GoOn, world, cache
  <2>2. PICK c \in Contexts : c = context[p]
    BY <1>1
  <2>3. PICK n : n = [c EXCEPT !.identity.deps = deps]
    OBVIOUS
  <2>4. n \in Contexts /\ n.hit = c.hit
    <3>1. [c.identity EXCEPT !.deps = deps] \in Identity
      BY <1>0, <2>2 DEF Contexts, Identity, CacheTypes
    <3>. QED BY <2>2, <2>3, <3>1 DEF Contexts
  <2>5. context' = [context EXCEPT ![p] = n]
    BY <1>0, <2>1, <2>2, <2>3 DEF CacheTypes
  <2>6. ~Staging(p) /\ \A b \in n.hit : b.deps = b.identity.deps
    BY <1>0, <2>1, <2>2, <2>4 DEF RunTrue, Staging
  <2>7. PICK k \in Containers : k = container[p] /\ container = [container EXCEPT ![p] = k]
    BY <1>1
  <2>8. LocalStep(p, "identity", n, k) /\ Fit("identity", n, k)
    BY <2>1, <2>4, <2>5, <2>6, <2>7 DEF LocalStep, Fit
  <2>. QED BY <1>2, <2>1, <2>6, <2>8, LocalKeeps
<1>c. ASSUME NEW p \in Procs, identity(p) PROVE CacheInv'
  <2>1. /\ at[p] = "identity" /\ at' = [at EXCEPT ![p] = "stage"]
        /\ context' = [context EXCEPT ![p].identity.tree = tree]
        /\ UNCHANGED <<tree, deps, entries, stages, orphans, lock, container, evidence>>
    BY <1>c DEF identity, GoOn, world, cache
  <2>2. PICK c \in Contexts : c = context[p]
    BY <1>1
  <2>3. PICK n : n = [c EXCEPT !.identity.tree = tree]
    OBVIOUS
  <2>4. n \in Contexts /\ n.hit = c.hit
    <3>1. [c.identity EXCEPT !.tree = tree] \in Identity
      BY <1>0, <2>2 DEF Contexts, Identity, CacheTypes
    <3>. QED BY <2>2, <2>3, <3>1 DEF Contexts
  <2>5. context' = [context EXCEPT ![p] = n]
    BY <1>0, <2>1, <2>2, <2>3 DEF CacheTypes
  <2>6. ~Staging(p) /\ \A b \in n.hit : b.deps = b.identity.deps
    BY <1>0, <2>1, <2>2, <2>4 DEF RunTrue, Staging
  <2>7. PICK k \in Containers : k = container[p] /\ container = [container EXCEPT ![p] = k]
    BY <1>1
  <2>8. LocalStep(p, "stage", n, k) /\ Fit("stage", n, k)
    BY <2>1, <2>4, <2>5, <2>6, <2>7 DEF LocalStep, Fit
  <2>. QED BY <1>2, <2>1, <2>6, <2>8, LocalKeeps
\* What is hit is a set of published bundles.
<1>d. ASSUME NEW p \in Procs, stage(p) PROVE CacheInv'
  <2>1. CASE \E e \in At(context[p].identity) : ~Valid(e)
    BY <1>d, <2>1, RejectKeeps DEF stage
  <2>2. CASE ~ \E e \in At(context[p].identity) : ~Valid(e)
    <3>1. PICK h : h = {e.bundle : e \in At(context[p].identity)}
      OBVIOUS
    <3>2. /\ at[p] = "stage" /\ at' = [at EXCEPT ![p] = "copy"]
          /\ context' = [context EXCEPT ![p].hit = h]
          /\ UNCHANGED <<tree, deps, entries, stages, orphans, lock, container, evidence>>
      BY <1>d, <2>2, <3>1 DEF stage, GoOn, world, cache
    <3>3. h \in SUBSET Bundles /\ \A b \in h : b.deps = b.identity.deps
      BY <1>0, <3>1 DEF At, CacheTypes, BundlesTrue
    <3>4. PICK c \in Contexts : c = context[p]
      BY <1>1
    <3>5. PICK n : n = [c EXCEPT !.hit = h]
      OBVIOUS
    <3>6. n \in Contexts /\ n.hit = h
      BY <3>3, <3>5 DEF Contexts
    <3>7. context' = [context EXCEPT ![p] = n] /\ ~Staging(p)
      BY <1>0, <3>2, <3>4, <3>5 DEF CacheTypes, Staging
    <3>8. PICK k \in Containers : k = container[p] /\ container = [container EXCEPT ![p] = k]
      BY <1>1
    <3>9. LocalStep(p, "copy", n, k) /\ Fit("copy", n, k)
      BY <3>2, <3>3, <3>6, <3>7, <3>8 DEF LocalStep, Fit
    <3>. QED BY <1>2, <3>2, <3>7, <3>9, LocalKeeps
  <2>. QED BY <2>1, <2>2
\* The volume is what prepare saw; from here on it can only be newer.
<1>e. ASSUME NEW p \in Procs, CopySources(p) PROVE CacheInv'
  <2>1. CASE deps # context[p].identity.deps
    BY <1>e, <2>1, RejectKeeps DEF CopySources
  <2>2. CASE deps = context[p].identity.deps
    <3>1. /\ at[p] = "copy" /\ at' = [at EXCEPT ![p] = "build"]
          /\ container' = [container EXCEPT ![p].copy = tree]
          /\ UNCHANGED <<tree, deps, entries, stages, orphans, lock, context, evidence>>
      BY <1>e, <2>2 DEF CopySources, GoOn, world, cache
    <3>2. PICK k \in Containers : k = container[p]
      BY <1>1
    <3>3. PICK n \in Containers : n = [k EXCEPT !.copy = tree]
      BY <1>0 DEF Containers, CacheTypes
    <3>4. container' = [container EXCEPT ![p] = n] /\ ~Staging(p)
      BY <1>0, <3>1, <3>2, <3>3 DEF CacheTypes, Staging
    <3>5. PICK c \in Contexts : c = context[p] /\ context = [context EXCEPT ![p] = c]
      BY <1>1
    <3>6. c.identity.deps <= deps /\ \A b \in c.hit : b.deps = b.identity.deps
      BY <1>0, <1>1, <2>2, <3>5 DEF RunTrue
    <3>7. LocalStep(p, "build", c, n) /\ Fit("build", c, n)
      BY <3>1, <3>3, <3>4, <3>5, <3>6 DEF LocalStep, Fit
    <3>. QED BY <1>2, <3>1, <3>4, <3>7, LocalKeeps
  <2>. QED BY <2>1, <2>2
\* A staged simulator has the identity's dependencies, a built one those of now.
<1>f. ASSUME NEW p \in Procs, Reuse(p) \/ Build(p) PROVE CacheInv'
  <2>1. CASE \E b \in context[p].hit : ~Comparable(p, b) /\ Reject(p)
    BY <2>1, RejectKeeps
  <2>2. ASSUME NEW sim \in Identity, sim.tree = container[p].copy,
               context[p].identity.deps <= sim.deps, sim.deps <= deps, at[p] = "build",
               container' = [container EXCEPT ![p].simulator = sim],
               at' = [at EXCEPT ![p] = "after"],
               UNCHANGED <<tree, deps, entries, stages, orphans, lock, context, evidence>>
        PROVE  CacheInv'
    <3>1. PICK k \in Containers : k = container[p]
      BY <1>1
    <3>2. PICK n : n = [k EXCEPT !.simulator = sim]
      OBVIOUS
    <3>3. n \in Containers /\ n.simulator = sim /\ n.copy = k.copy
      BY <2>2, <3>2 DEF Containers
    <3>4. container' = [container EXCEPT ![p] = n] /\ ~Staging(p)
      BY <1>0, <2>2, <3>1, <3>2 DEF CacheTypes, Staging
    <3>5. PICK c \in Contexts : c = context[p] /\ context = [context EXCEPT ![p] = c]
      BY <1>1
    <3>6. \A b \in c.hit : b.deps = b.identity.deps
      BY <1>0, <3>5 DEF RunTrue
    <3>7. LocalStep(p, "after", c, n)
      BY <2>2, <3>4, <3>5 DEF LocalStep
    <3>8. Fit("after", c, n)
      BY <2>2, <3>1, <3>3, <3>5, <3>6 DEF Fit
    <3>. QED BY <1>2, <2>2, <3>4, <3>7, <3>8, LocalKeeps
  <2>3. CASE ~ \E b \in context[p].hit : ~Comparable(p, b) /\ Reject(p)
    <3>1. CASE Reuse(p)
      <4>1. PICK b \in context[p].hit :
              /\ Comparable(p, b) /\ at[p] = "build"
              /\ container' = [container EXCEPT ![p].simulator = [tree |-> b.tree, deps |-> b.deps]]
              /\ at' = [at EXCEPT ![p] = "after"]
              /\ UNCHANGED <<tree, deps, entries, stages, orphans, lock, context, evidence>>
        BY <2>3, <3>1 DEF Reuse, GoOn, world, cache
      <4>2. b \in Bundles
        BY <1>1, <4>1 DEF Contexts
      <4>3. PICK sim : sim = [tree |-> b.tree, deps |-> b.deps]
        OBVIOUS
      <4>4. sim \in Identity /\ sim.tree = container[p].copy /\ sim.deps = b.deps
        BY <4>1, <4>2, <4>3 DEF Bundles, Identity, Comparable
      <4>5. sim.deps = context[p].identity.deps
        BY <1>0, <4>1, <4>4 DEF RunTrue, Comparable
      <4>6. context[p].identity.deps <= sim.deps /\ sim.deps <= deps
        BY <1>0, <1>1, <4>1, <4>5 DEF RunTrue
      <4>. QED BY <2>2, <4>1, <4>3, <4>4, <4>6
    <3>2. CASE Build(p)
      <4>1. PICK sim : sim = [tree |-> container[p].copy, deps |-> deps]
        OBVIOUS
      <4>2. sim \in Identity /\ sim.tree = container[p].copy /\ sim.deps = deps
        BY <1>0, <1>1, <4>1 DEF Identity, CacheTypes
      <4>3. context[p].identity.deps <= sim.deps /\ sim.deps <= deps
        BY <1>0, <1>1, <3>2, <4>2 DEF RunTrue, Build
      <4>. QED BY <2>2, <3>2, <4>1, <4>2, <4>3 DEF Build, GoOn, world, cache
    <3>. QED BY <1>f, <3>1, <3>2
  <2>. QED BY <2>1, <2>3
\* Between two equal readings the volume has not moved.
<1>g. ASSUME NEW p \in Procs, Execute(p) PROVE CacheInv'
  <2>1. CASE deps # context[p].identity.deps
    BY <1>g, <2>1, RejectKeeps DEF Execute
  <2>2. CASE deps = context[p].identity.deps
    <3>1. /\ at[p] = "after" /\ at' = [at EXCEPT ![p] = "finish"]
          /\ evidence' = evidence \cup {[simulator |-> container[p].simulator,
                                         copy |-> container[p].copy,
                                         deps |-> context[p].identity.deps]}
          /\ UNCHANGED <<tree, deps, entries, stages, orphans, lock, context, container>>
      BY <1>g, <2>2 DEF Execute, GoOn, world, cache
    <3>2. /\ container[p].simulator.deps = context[p].identity.deps
          /\ container[p].simulator.tree = container[p].copy
      BY <1>0, <1>1, <2>2, <3>1 DEF RunTrue
    <3>3. EvidenceCurrent'
      BY <1>0, <3>1, <3>2 DEF EvidenceCurrent, CacheSound
    <3>4. PICK c \in Contexts : c = context[p] /\ context = [context EXCEPT ![p] = c]
      BY <1>1
    <3>5. PICK k \in Containers : k = container[p] /\ container = [container EXCEPT ![p] = k]
      BY <1>1
    <3>6. ~Staging(p) /\ \A b \in c.hit : b.deps = b.identity.deps
      BY <1>0, <3>1, <3>4 DEF RunTrue, Staging
    <3>7. LocalStep(p, "finish", c, k) /\ Fit("finish", c, k)
      BY <3>1, <3>2, <3>4, <3>5, <3>6 DEF LocalStep, Fit
    <3>. QED BY <3>3, <3>6, <3>7, LocalKeeps
  <2>. QED BY <2>1, <2>2
<1>h. ASSUME NEW p \in Procs, Recheck(p) PROVE CacheInv'
  <2>1. CASE Reject(p)
    BY <2>1, RejectKeeps
  <2>2. CASE ~Reject(p)
    <3>1. /\ at[p] = "finish" /\ at' = [at EXCEPT ![p] = "publish"]
          /\ UNCHANGED <<tree, deps, entries, stages, orphans, lock, context, container, evidence>>
      BY <1>h, <2>2 DEF Recheck, GoOn, world, cache
    <3>2. PICK c \in Contexts : c = context[p] /\ context = [context EXCEPT ![p] = c]
      BY <1>1
    <3>3. PICK k \in Containers : k = container[p] /\ container = [container EXCEPT ![p] = k]
      BY <1>1
    <3>4. /\ ~Staging(p) /\ \A b \in c.hit : b.deps = b.identity.deps
          /\ k.simulator.deps = c.identity.deps
      BY <1>0, <3>1, <3>2, <3>3 DEF RunTrue, Staging
    <3>5. LocalStep(p, "publish", c, k) /\ Fit("publish", c, k)
      BY <3>1, <3>2, <3>3, <3>4 DEF LocalStep, Fit
    <3>. QED BY <1>2, <3>1, <3>4, <3>5, LocalKeeps
  <2>. QED BY <2>1, <2>2
\* Nobody else is past the lock when it is free.
<1>i. ASSUME NEW p \in Procs, flock(p) PROVE CacheInv'
  <2>1. /\ at[p] = "publish" /\ at' = [at EXCEPT ![p] = "locked"] /\ lock = {} /\ lock' = {p}
        /\ UNCHANGED <<tree, deps, entries, stages, orphans, context, container, evidence>>
    BY <1>i DEF flock, GoOn, world, cache
  <2>2. at'[p] = "locked" /\ \A q \in Procs : q # p => at'[q] = at[q]
    BY <1>0, <2>1 DEF CacheTypes
  <2>3. CacheTypes'
    BY <1>0, <2>1 DEF CacheTypes, Labels
  <2>4. OnlyRun(p) /\ ~Staging(p) /\ ~Staging(p)'
    BY <2>1, <2>2 DEF OnlyRun, Staging
  <2>5. LockHeld'
    BY <1>0, <2>1, <2>2 DEF LockHeld
  <2>6. RunTrue(p)'
    BY <1>0, <2>1, <2>2 DEF RunTrue
  <2>. QED BY <1>2, <2>1, <2>3, <2>4, <2>5, <2>6, RunKeeps
\* A free place, and no stage but the new one.
<1>j. ASSUME NEW p \in Procs, Admit(p) PROVE CacheInv'
  <2>1. CASE At(context[p].identity) # {} \/ Full
    BY <1>j, <2>1, RejectKeeps DEF Admit
  <2>2. CASE ~(At(context[p].identity) # {} \/ Full)
    <3>1. /\ HolderStep(p, "write") /\ at[p] = "locked" /\ entries' = entries
          /\ stages' = stages \cup {[by |-> p, members |-> 0]} /\ orphans' = orphans
      BY <1>j, <2>2 DEF Admit, HolderStep, GoOn, world
    <3>2. /\ \A q \in Procs : q # p => ~Staging(q) /\ ~Staging(q)'
          /\ at'[p] = "write" /\ at' \in [Procs -> Labels]
          /\ LockHeld' /\ EvidenceCurrent' /\ \A q \in Procs : RunTrue(q)'
      BY <3>1, HolderKeeps
    <3>3. stages = {} /\ stages' = {[by |-> p, members |-> 0]}
      <4>1. \A q \in Procs : ~Staging(q)
        BY <3>1, <3>2 DEF Staging
      <4>2. stages = {}
        BY <1>0, <4>1 DEF StageOwned
      <4>. QED BY <3>1, <4>2
    <3>4. CacheTypes'
      BY <1>0, <3>1, <3>2 DEF CacheTypes, HolderStep
    <3>5. StageOwned'
      BY <3>2, <3>3 DEF StageOwned, Staging, CacheConstants
    <3>6. CacheBounded'
      <4>1. Cardinality(entries) \in Nat /\ orphans \in Nat /\ MAX_ENTRIES \in Nat
        BY <1>0, FS_CardinalityType DEF CacheTypes, CacheConstants
      <4>2. Cardinality(stages) = 0 /\ Cardinality(stages') = 1
        BY <3>3, FS_EmptySet, FS_Singleton
      <4>3. ~(Cardinality(entries) + 0 + orphans >= MAX_ENTRIES)
        BY <2>2, <4>2 DEF Full
      <4>4. Cardinality(entries) + 1 + orphans <= MAX_ENTRIES
        BY <4>1, <4>3
      <4>. QED BY <3>1, <4>2, <4>4 DEF CacheBounded
    <3>7. EntriesWhole' /\ BundlesTrue'
      BY <1>0, <3>1 DEF CacheSound, EntriesWhole, BundlesTrue
    <3>. QED BY <3>2, <3>4, <3>5, <3>6, <3>7 DEF CacheInv, CacheSound
  <2>. QED BY <2>1, <2>2
\* One member more, of the stage that is there.
<1>k. ASSUME NEW p \in Procs, WriteMember(p) PROVE CacheInv'
  <2>1. PICK m \in 0 .. Members : stages = {[by |-> p, members |-> m]} /\ m < Members
    BY <1>0, <1>k DEF StageOwned, Staging, WriteMember
  <2>2. PICK label : label = IF m + 1 = Members THEN "rename" ELSE "write"
    OBVIOUS
  <2>3. /\ stages' = {[by |-> p, members |-> m + 1]}
        /\ HolderStep(p, label) /\ entries' = entries /\ orphans' = orphans
    <3>1. at[p] = "write" /\ at = [at EXCEPT ![p] = "write"]
      BY <1>0, <1>k DEF CacheTypes, WriteMember
    <3>2. PICK s \in stages :
            /\ stages' = (stages \ {s}) \cup {[s EXCEPT !.members = s.members + 1]}
            /\ IF s.members + 1 = Members THEN GoOn(p, "rename") ELSE UNCHANGED at
      BY <1>k DEF WriteMember
    <3>3. s = [by |-> p, members |-> m] /\ s.members = m
      BY <2>1, <3>2
    <3>4. [s EXCEPT !.members = s.members + 1] = [by |-> p, members |-> m + 1]
      BY <3>3
    <3>5. stages' = {[by |-> p, members |-> m + 1]}
      BY <2>1, <3>2, <3>3, <3>4
    <3>6. at' = [at EXCEPT ![p] = label]
      BY <2>2, <3>1, <3>2, <3>3 DEF GoOn
    <3>. QED BY <1>k, <3>1, <3>5, <3>6 DEF WriteMember, HolderStep, world
  <2>4. label \in {"write", "rename", "receipt"}
    BY <2>2
  <2>5. /\ \A q \in Procs : q # p => ~Staging(q) /\ ~Staging(q)'
        /\ at'[p] = label /\ at' \in [Procs -> Labels]
        /\ LockHeld' /\ EvidenceCurrent' /\ \A q \in Procs : RunTrue(q)'
    BY <2>3, <2>4, HolderKeeps
  <2>6. CacheTypes'
    BY <1>0, <2>3, <2>5 DEF CacheTypes, HolderStep
  <2>7. StageOwned'
    <3>1. /\ m + 1 \in 0 .. Members
          /\ label = "write" => m + 1 < Members
          /\ label = "rename" => m + 1 = Members
      BY <2>1, <2>2 DEF CacheConstants
    <3>2. Staging(p)'
      BY <2>2, <2>5 DEF Staging
    <3>. QED BY <2>3, <2>5, <3>1, <3>2 DEF StageOwned, Staging
  <2>8. CacheBounded'
    <3>1. Cardinality(stages') = Cardinality(stages)
      BY <2>1, <2>3, FS_Singleton
    <3>. QED BY <1>0, <2>3, <3>1 DEF CacheSound, CacheBounded
  <2>9. EntriesWhole' /\ BundlesTrue'
    BY <1>0, <2>3 DEF CacheSound, EntriesWhole, BundlesTrue
  <2>. QED BY <2>5, <2>6, <2>7, <2>8, <2>9 DEF CacheInv, CacheSound
\* The stage becomes an entry, whole and the first of its key.
<1>l. ASSUME NEW p \in Procs, rename(p) PROVE CacheInv'
  <2>1. CASE At(context[p].identity) # {}
    BY <1>l, <2>1, RejectKeeps DEF rename
  <2>2. CASE At(context[p].identity) = {}
    <3>1. stages = {[by |-> p, members |-> Members]}
      BY <1>0, <1>l DEF StageOwned, Staging, rename
    <3>2. PICK e : e = [key |-> context[p].identity, bundle |-> Bundle(p), members |-> Members]
      OBVIOUS
    <3>3. /\ HolderStep(p, "receipt") /\ at[p] = "rename" /\ orphans' = orphans
          /\ entries' = entries \cup {e} /\ stages' = {}
      <4>1. PICK s \in stages :
              /\ entries' = entries \cup {[key |-> context[p].identity, bundle |-> Bundle(p),
                                           members |-> s.members]}
              /\ stages' = stages \ {s}
        BY <1>l, <2>2 DEF rename
      <4>2. s.members = Members /\ stages' = {}
        BY <3>1, <4>1
      <4>. QED BY <1>l, <2>2, <3>2, <4>1, <4>2 DEF rename, HolderStep, GoOn, world
    <3>4. /\ \A q \in Procs : q # p => ~Staging(q) /\ ~Staging(q)'
          /\ at'[p] = "receipt" /\ at' \in [Procs -> Labels]
          /\ LockHeld' /\ EvidenceCurrent' /\ \A q \in Procs : RunTrue(q)'
      BY <3>3, HolderKeeps
    <3>5. /\ e.key = context[p].identity /\ e.members = Members /\ e.bundle = Bundle(p)
          /\ Bundle(p).identity = context[p].identity
          /\ Bundle(p).deps = container[p].simulator.deps
      BY <3>2 DEF Bundle
    <3>6. e \in [key : Identity, bundle : Bundles, members : Nat]
      <4>1. Bundle(p) \in Bundles
        BY <1>1 DEF Bundle, Bundles, Identity
      <4>. QED BY <1>1, <3>2, <4>1 DEF CacheConstants
    <3>7. e \notin entries /\ \A g \in entries : g.key # e.key
      BY <2>2, <3>5 DEF At
    <3>8. IsFiniteSet(entries') /\ Cardinality(entries') = Cardinality(entries) + 1
      BY <1>0, <3>3, <3>7, FS_AddElement DEF CacheTypes
    <3>9. CacheTypes'
      BY <1>0, <3>3, <3>4, <3>6, <3>8 DEF CacheTypes, HolderStep
    <3>10. StageOwned'
      BY <3>3, <3>4 DEF StageOwned, Staging
    <3>11. CacheBounded'
      <4>1. Cardinality(entries) \in Nat /\ orphans \in Nat /\ MAX_ENTRIES \in Nat
        BY <1>0, FS_CardinalityType DEF CacheTypes, CacheConstants
      <4>2. Cardinality(stages) = 1 /\ Cardinality(stages') = 0
        BY <3>1, <3>3, FS_EmptySet, FS_Singleton
      <4>3. Cardinality(entries) + 1 + orphans <= MAX_ENTRIES
        BY <1>0, <4>2 DEF CacheSound, CacheBounded
      <4>4. Cardinality(entries') + 0 + orphans <= MAX_ENTRIES
        BY <3>8, <4>1, <4>3
      <4>. QED BY <3>3, <4>2, <4>4 DEF CacheBounded
    <3>12. EntriesWhole'
      BY <1>0, <3>3, <3>5, <3>7 DEF CacheSound, EntriesWhole
    <3>13. BundlesTrue'
      <4>1. e.bundle.deps = e.bundle.identity.deps
        BY <1>0, <3>3, <3>5 DEF RunTrue
      <4>. QED BY <1>0, <3>3, <4>1 DEF BundlesTrue
    <3>. QED BY <3>4, <3>9, <3>10, <3>11, <3>12, <3>13 DEF CacheInv, CacheSound
  <2>. QED BY <2>1, <2>2
<1>m. ASSUME NEW p \in Procs, Close(p) \/ KillProcess(p) PROVE CacheInv'
  BY <1>m, RejectKeeps DEF Close, KillProcess
\* The volume only grows, and nothing else of the world is remembered.
<1>n. CASE Edit \/ UpdateDeps
  <2>1. /\ tree' \in Trees /\ deps' \in Deps /\ deps \in Nat /\ deps' \in Nat /\ deps <= deps'
        /\ UNCHANGED <<entries, stages, orphans, lock, at, context, container, evidence>>
    BY <1>0, <1>n, DepsAreNumbers DEF Edit, UpdateDeps, CacheTypes, Deps, cache, CacheConstants
  <2>2. CacheTypes' /\ LockHeld' /\ BundlesTrue'
    BY <1>0, <2>1 DEF CacheTypes, LockHeld, BundlesTrue
  <2>3. StageOwned' /\ CacheSound'
    BY <1>0, <2>1 DEF StageOwned, Staging, CacheSound, EntriesWhole, CacheBounded, EvidenceCurrent
  <2>4. ASSUME NEW p \in Procs PROVE RunTrue(p)'
    BY <1>0, <1>1, <2>1 DEF RunTrue
  <2>. QED BY <2>2, <2>3, <2>4 DEF CacheInv
<1>. QED
  BY <1>a, <1>b, <1>c, <1>d, <1>e, <1>f, <1>g, <1>h, <1>i, <1>j, <1>k, <1>l, <1>m, <1>n
  DEF CacheNext, Run

\* Whatever the processes, trees, members and limits, runs that are edited
\* under, interleaved and killed leave entries whole and one per identity, the
\* cache within MAX_ENTRIES, and evidence from a simulator built from the copied
\* sources with the dependencies of its identity (graph_device_build_cache.py).
THEOREM CacheIsSound == CacheSpec => []CacheSound
<1>1. CacheInv => CacheSound
  BY DEF CacheInv
<1>. QED BY CacheAssumption, CacheInitial, CacheStep, <1>1, PTL DEF CacheSpec
============================================================================
