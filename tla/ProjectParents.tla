--------------------------- MODULE ProjectParents ---------------------------
(* Runs made of child executions: a fold is one (raveil/project_fold.py), a  *)
(* dag one, a batch several independent ones, a grid one batch, flows and    *)
(* arrays passes that read earlier passes, compositions and tilings several  *)
(* Graph runs (project_dag, project_dag_batch, project_mf01_grid,            *)
(* project_mf01_flow, project_array, project_composition, project_tiling).   *)
(* The sources are frozen, the children run in order, and one record,        *)
(* published last by a link that never replaces, says what the parent is     *)
(* worth. A fold renames its record into its own directory and has no        *)
(* checksum file: the step that writes one then stands for nothing. A stop   *)
(* request (raveil/run_control.py) is noticed only at checkpoints, an        *)
(* interrupt anywhere. The containers that execute the children belong to a  *)
(* daemon that may create them late.                                         *)
EXTENDS Naturals, Sequences

CONSTANTS NChildren, MaxEdits, MaxStrays

ASSUME ParentConstants == NChildren \in Nat \ {0}

VARIABLES
    live,       \* the user's current input and build
    parent,     \* the directory of the parent run
    step, kind, \* the step of the command and the kind of parent
    children,   \* the executed children, in order
    status,     \* the verdict the record will carry
    stop,       \* a stop was requested: a signal or the deadline
    committed,  \* the control learnt of the publication
    docker,     \* the client and the container of the current child
    told,       \* what the command told its caller
    edits, strays

pvars == <<live, parent, step, kind, children, status, stop, committed, docker, told, edits, strays>>

Kinds == {"fold", "dag", "batch", "grid", "flow", "array", "composition", "tiling"}
GraphKinds == {"composition", "tiling"}
Count == IF kind \in {"fold", "dag", "grid"} THEN 1 ELSE NChildren
Contained == kind \notin GraphKinds      \* executes through project_fold._container
NoParent == [input |-> 0, build |-> 0, sha |-> FALSE, pending |-> FALSE,
             record |-> "none", files |-> <<>>]
NoDocker == [client |-> "none", daemon |-> "none", cid |-> FALSE]

ParentInit ==
    /\ live = [input |-> 1, build |-> 1]
    /\ parent = NoParent /\ step = "idle" /\ kind \in Kinds
    /\ children = <<>> /\ status = "none"
    /\ stop = FALSE /\ committed = FALSE /\ docker = NoDocker /\ told = "nothing" /\ edits = 0 /\ strays = 0

(* The user edits inputs/ or rebuilds while the command runs.                *)
EditSources ==
    /\ edits < MaxEdits /\ edits' = edits + 1
    /\ \E field \in {"input", "build"} : live' = [live EXCEPT ![field] = @ + 1]
    /\ UNCHANGED <<parent, step, kind, children, status, stop, committed, docker, told, strays>>

(* A stray change hits the saved files of a child.                           *)
Stray ==
    /\ strays < MaxStrays /\ strays' = strays + 1
    /\ \E i \in DOMAIN children : children' = [children EXCEPT ![i].touched = TRUE]
    /\ UNCHANGED <<live, parent, step, kind, status, stop, committed, docker, told, edits>>

(* Control.request keeps the first signal; a deadline passes by itself.      *)
RequestStop ==
    /\ step # "idle" /\ told = "nothing" /\ ~stop
    /\ stop' = TRUE
    /\ UNCHANGED <<live, parent, step, kind, children, status, committed, docker, told, edits, strays>>

(* Control.check: what a checkpoint does about a stop request.               *)
Stopping == stop /\ ~committed

-----------------------------------------------------------------------------
(* Admission reads the input and the build's identity before the directory   *)
(* exists.                                                                   *)
Admit ==
    /\ step = "idle" /\ told = "nothing"
    /\ parent' = [NoParent EXCEPT !.input = live.input, !.build = live.build]
    /\ step' = "freeze"
    /\ UNCHANGED <<live, kind, children, status, stop, committed, docker, told, edits, strays>>

(* verify_build: the copied build still has the admitted identity.           *)
BuildUnchanged == live.build = parent.build

(* project_fold.run: a build that changed under the copy is one more failed  *)
(* attempt, recorded as incomplete.                                          *)
FreezeFold ==
    /\ step = "freeze" /\ kind = "fold"
    /\ IF ~BuildUnchanged THEN status' = "incomplete" /\ step' = "inventory"
                                    ELSE step' = "child" /\ UNCHANGED status
    /\ UNCHANGED <<live, parent, kind, children, stop, committed, docker, told, edits, strays>>

(* The other kinds over folds raise and leave the attempt unsealed.          *)
FreezeBuild ==
    /\ step = "freeze" /\ kind \notin GraphKinds \cup {"fold"}
    /\ IF ~BuildUnchanged THEN told' = "error" /\ step' = "idle"
                                    ELSE step' = "child" /\ UNCHANGED told
    /\ UNCHANGED <<live, parent, kind, children, status, stop, committed, docker, edits, strays>>

(* Compositions and tilings freeze input and descriptors only; every child   *)
(* builds its own simulator.                                                 *)
FreezePlan ==
    /\ step = "freeze" /\ kind \in GraphKinds
    /\ step' = "child"
    /\ UNCHANGED <<live, parent, kind, children, status, stop, committed, docker, told, edits, strays>>

(* A stop seen at a checkpoint or while waiting: the array's Stopped unwinds *)
(* and leaves the attempt unsealed, as any exception does in a dag, batch,   *)
(* grid or flow; the others turn it into an incomplete record.               *)
Unwinds == kind \in {"dag", "batch", "grid", "flow", "array"}

StopHere ==
    IF Unwinds THEN /\ told' = IF kind = "array" THEN "stopped" ELSE "interrupted"
                    /\ step' = "idle" /\ UNCHANGED status
    ELSE status' = "incomplete" /\ step' = "inventory" /\ UNCHANGED told

(* Only these kinds look for a stop request between their children.          *)
Checks == kind \in GraphKinds \cup {"fold", "array"}

(* Passes of arrays and flows read what earlier ones produced, the children  *)
(* of the other kinds the frozen input.                                      *)
Source(i) == IF kind \in {"array", "flow"} /\ i > 1 THEN children[i - 1].out ELSE parent.input

ChildBegins ==
    /\ step = "child"
    /\ IF Len(children) = Count THEN step' = "assemble" /\ UNCHANGED <<docker, told, status>>
       ELSE IF Stopping /\ Checks THEN StopHere /\ UNCHANGED docker
       ELSE /\ step' = IF Contained THEN "container" ELSE "collect"
            /\ docker' = IF Contained THEN [client |-> "running", daemon |-> "queued", cid |-> FALSE]
                         ELSE docker
            /\ UNCHANGED <<told, status>>
    /\ UNCHANGED <<live, parent, kind, children, stop, committed, edits, strays>>

-----------------------------------------------------------------------------
(* project_fold._container.                                                  *)

(* The daemon works off its queue in its own time, and removes a container   *)
(* that ended; the client writes the id file once creation is acknowledged.  *)
Daemon ==
    /\ \/ docker.daemon = "queued" /\ docker' = [docker EXCEPT !.daemon = "running"]
       \/ docker.daemon = "running" /\ docker' = [docker EXCEPT !.daemon = "gone"]
       \/ /\ docker.client = "running" /\ docker.daemon \in {"running", "gone"} /\ ~docker.cid
          /\ docker' = [docker EXCEPT !.cid = TRUE]
    /\ UNCHANGED <<live, parent, step, kind, children, status, stop, committed, told, edits, strays>>

(* The client returns 0 after the container ended, or fails at any moment;   *)
(* a stop, an interrupt or the time limit ends the wait and kills it.        *)
ClientEnds ==
    /\ step = "container" /\ docker.client = "running"
    /\ \E how \in {"ok", "failed", "killed"} :
          /\ how = "ok" => docker.daemon = "gone" /\ docker.cid
          /\ docker' = [docker EXCEPT !.client = how]
    /\ step' = "cleanup"
    /\ UNCHANGED <<live, parent, kind, children, status, stop, committed, told, edits, strays>>

Mutant_Acknowledged(removed) == TRUE

(* docker rm -f: absence proves nothing while creation may still be queued,  *)
(* so a client that neither completed nor acknowledged needs a positive      *)
(* removal. Uncertainty leaves the parent unsealed.                          *)
Acknowledged(removed) == docker.client = "ok" \/ docker.cid \/ removed

Cleanup ==
    /\ step = "cleanup"
    /\ \E rmFails \in BOOLEAN :
          LET removed == ~rmFails /\ docker.daemon = "running" IN
          /\ docker' = [docker EXCEPT !.daemon = IF removed THEN "gone" ELSE @]
          /\ IF rmFails \/ ~Acknowledged(removed)
               THEN told' = "uncertain" /\ step' = "idle" /\ UNCHANGED status
               ELSE IF docker.client = "killed" THEN StopHere
               ELSE step' = "collect" /\ UNCHANGED <<told, status>>
    /\ UNCHANGED <<live, parent, kind, children, stop, committed, edits, strays>>

-----------------------------------------------------------------------------
(* What _child, _bound_child and d.verify require of a saved child: intact   *)
(* files, the source the parent binds it to, the parent's executables.       *)
ChildProof(i) ==
    /\ ~children[i].touched
    /\ children[i].source = Source(i)
    /\ Contained => children[i].build = parent.build

(* The child's own record is verified again, whatever its run returned; the  *)
(* first child that is not complete is the last one that runs. Kinds that    *)
(* list a prefix keep it as the last entry.                                  *)
Collect ==
    /\ step = "collect"
    /\ \E ok \in BOOLEAN :
          /\ ok /\ Contained => docker.client = "ok"
          /\ LET i == Len(children) + 1
                 child == [ok |-> ok, touched |-> FALSE, source |-> Source(i), out |-> 10 * Source(i) + i,
                           build |-> IF Contained THEN parent.build ELSE live.build]
             IN children' = IF ok \/ Unwinds THEN Append(children, child) ELSE children
          /\ status' = IF ok THEN status ELSE "incomplete"
          /\ step' = IF ok THEN "child" ELSE "inventory"
    /\ UNCHANGED <<live, parent, kind, stop, committed, docker, told, edits, strays>>

SameBuild == \A i \in DOMAIN children : children[i].build = children[1].build

(* compose and tiling: every child is verified once more, build identities   *)
(* must agree, and a tiling must equal the whole-grid reference.             *)
AssembleGraphs ==
    /\ step = "assemble" /\ kind \in GraphKinds
    /\ status' = IF /\ ~Stopping /\ SameBuild
                    /\ \A i \in DOMAIN children : ChildProof(i)
                 THEN "succeeded" ELSE "incomplete"
    /\ step' = "inventory"
    /\ UNCHANGED <<live, parent, kind, children, stop, committed, docker, told, edits, strays>>

(* The kinds over folds take the children's verdicts as they collected them; *)
(* a fold drops a success when its caller cancelled meanwhile.               *)
AssembleFolds ==
    /\ step = "assemble" /\ kind \notin GraphKinds
    /\ IF Stopping /\ Checks THEN StopHere
       ELSE status' = "succeeded" /\ step' = "inventory" /\ UNCHANGED told
    /\ UNCHANGED <<live, parent, kind, children, stop, committed, docker, edits, strays>>

-----------------------------------------------------------------------------
(* What loading a record requires: the inventory it lists, and               *)
Prefix == \A i \in DOMAIN children : ChildProof(i) /\ (children[i].ok \/ i = Len(children))
Complete == Len(children) = Count /\ \A i \in DOMAIN children : children[i].ok

inspect_dag(record) == Prefix /\ Len(children) = 1 /\ (record = "succeeded" <=> Complete)
inspect_batch(record) == Prefix /\ children # <<>> /\ (record = "succeeded" <=> Complete)
inspect_grid(record) == Prefix /\ Len(children) = 1 /\ (record = "succeeded" <=> children[1].ok)
inspect_flow(record) == Prefix /\ children # <<>> /\ (record = "succeeded" <=> Complete)
inspect_array(record) == Prefix /\ children # <<>> /\ (record = "succeeded" <=> Complete)
load_fold(record) == record = "succeeded" => Complete /\ ChildProof(1)
load_composition(record) ==
    /\ \A i \in DOMAIN children : ChildProof(i)
    /\ record = "succeeded" => Complete /\ SameBuild
(* a tiling's assembly must also equal the reference of the frozen grid.     *)
load_tiling(record) ==
    /\ load_composition(record)
    /\ record = "succeeded" => \A i \in DOMAIN children : children[i].out = 10 * parent.input + i

inspect(record) ==
    CASE kind = "fold" -> load_fold(record)
      [] kind = "dag" -> inspect_dag(record)
      [] kind = "batch" -> inspect_batch(record)
      [] kind = "grid" -> inspect_grid(record)
      [] kind = "flow" -> inspect_flow(record)
      [] kind = "array" -> inspect_array(record)
      [] kind = "composition" -> load_composition(record)
      [] kind = "tiling" -> load_tiling(record)

Loads == parent.record # "none" /\ parent.sha /\ parent.files = children /\ inspect(parent.record)

(* The record is built over the inventory. The kinds that list a prefix      *)
(* inspect it as if loaded and raise when that fails.                        *)
WritePending ==
    /\ step = "inventory"
    /\ IF Unwinds /\ ~inspect(status)
         THEN told' = "error" /\ step' = "idle" /\ UNCHANGED parent
         ELSE /\ parent' = [parent EXCEPT !.pending = TRUE, !.files = children]
              /\ step' = "sha" /\ UNCHANGED told
    /\ UNCHANGED <<live, kind, children, status, stop, committed, docker, edits, strays>>

WriteSha ==
    /\ step = "sha"
    /\ parent' = [parent EXCEPT !.sha = TRUE]
    /\ step' = "link"
    /\ UNCHANGED <<live, kind, children, status, stop, committed, docker, told, edits, strays>>

(* The last checkpoint precedes the link: an array stops whatever its        *)
(* verdict, compositions and tilings only give up a success.                 *)
PublishRecord ==
    /\ step = "link"
    /\ IF /\ Stopping
          /\ kind = "array" \/ (kind \in GraphKinds /\ status = "succeeded")
         THEN /\ told' = IF kind = "array" THEN "stopped" ELSE "incomplete"
              /\ step' = "idle" /\ UNCHANGED parent
         ELSE /\ parent' = [parent EXCEPT !.record = status]
              /\ step' = "commit" /\ UNCHANGED told
    /\ UNCHANGED <<live, kind, children, status, stop, committed, docker, edits, strays>>

(* committed = True, then the pending name goes.                             *)
Commit ==
    /\ step = "commit"
    /\ committed' = (kind = "array")
    /\ parent' = [parent EXCEPT !.pending = FALSE]
    /\ step' = "load"
    /\ UNCHANGED <<live, kind, children, status, stop, docker, told, edits, strays>>

(* Compositions and tilings return what they wrote; the others load it.      *)
Answer ==
    /\ step = "load"
    /\ told' = IF kind = "array" /\ Stopping THEN "stopped"
               ELSE IF kind \in GraphKinds \/ Loads THEN parent.record ELSE "error"
    /\ step' = "idle"
    /\ UNCHANGED <<live, parent, kind, children, status, stop, committed, docker, edits, strays>>

(* KeyboardInterrupt at any step of a kind without signal handlers; once the *)
(* record exists the publishing code swallows it.                            *)
Interrupt ==
    /\ step \notin {"idle", "container", "cleanup"} /\ kind # "array"
    /\ IF step = "commit" THEN step' = "load" /\ UNCHANGED <<told, status>>
       ELSE IF step \in {"child", "collect", "assemble"} /\ ~Unwinds
            THEN status' = "incomplete" /\ step' = "inventory" /\ UNCHANGED told
       ELSE told' = "interrupted" /\ step' = "idle" /\ UNCHANGED status
    /\ UNCHANGED <<live, parent, kind, children, stop, committed, docker, edits, strays>>

ParentNext ==
    \/ EditSources \/ Stray \/ RequestStop
    \/ Admit \/ FreezeFold \/ FreezeBuild \/ FreezePlan
    \/ ChildBegins \/ Daemon \/ ClientEnds \/ Cleanup \/ Collect
    \/ AssembleGraphs \/ AssembleFolds
    \/ WritePending \/ WriteSha \/ PublishRecord \/ Commit \/ Answer \/ Interrupt

ParentSpec == ParentInit /\ [][ParentNext]_pvars

-----------------------------------------------------------------------------
(* A success that loads covers every child, intact, on the frozen input,     *)
(* through one build, each pass on the output of the one before.             *)
SuccessWhole ==
    Loads /\ parent.record = "succeeded" =>
        /\ Len(children) = Count
        /\ \A i \in 1..Count : children[i].ok /\ ~children[i].touched /\ children[i].source = Source(i)
        /\ SameBuild
        /\ Contained => children[1].build = parent.build

(* A published record whose children nobody touched loads, and an incomplete *)
(* one lists a prefix in which only the last child may have failed.          *)
PublishedLoads ==
    parent.record # "none" =>
        /\ (strays = 0 => Loads)
        /\ parent.record = "incomplete" =>
              \A i \in DOMAIN parent.files : parent.files[i].ok \/ i = Len(parent.files)

(* The record appears with its checksum (a fold has none), and never while   *)
(* a container of the run exists or may still be created.                    *)
SealedQuietly ==
    parent.record # "none" => parent.sha /\ docker.daemon \notin {"queued", "running"}

(* The caller learns of a success only if it is published, and a command     *)
(* that reports it was stopped has published nothing.                        *)
ToldTruth ==
    /\ told = "succeeded" => parent.record = "succeeded"
    /\ told \in {"stopped", "uncertain"} => parent.record = "none"

(* A parent record is published whole, truthful and after every writer.      *)
ParentSound == SuccessWhole /\ PublishedLoads /\ SealedQuietly /\ ToldTruth
=============================================================================
