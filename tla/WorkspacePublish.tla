-------------------------- MODULE WorkspacePublish --------------------------
(***************************************************************************)
(* LocalWorkspace of raveil/workspace.py: the operations that create       *)
(* entries of a workspace directory.  publish_many checks a whole set of   *)
(* outputs, creates them one system call at a time and takes back what it  *)
(* created when one of them fails; write_bytes and mkdir create one entry. *)
(* Calls of several processes share the directory and interleave between   *)
(* their system calls, any of them may fail, also the close behind a       *)
(* complete write and the removals of the rollback, whose errors the code  *)
(* ignores, and a process may be killed.                                   *)
(*                                                                         *)
(* A path is its sequence of components, as _parts returns it.  An entry   *)
(* remembers the call that created it; the bytes of a file are abstracted  *)
(* to whether all of them are there.                                       *)
(***************************************************************************)
EXTENDS Integers, Sequences

CONSTANTS
  Calls,     \* the calls that create entries
  Paths,     \* the paths they are about: nonempty sequences of names
  Method,    \* Method[c]: "publish_many", "write_bytes" or "mkdir"
  Entries,   \* Entries[c]: the paths the call is to create
  Dirs       \* Dirs[c]: those of them that are directories

ASSUME WorkspaceConstants ==
  /\ "nobody" \notin Calls
  /\ \A path \in Paths : path \in Seq(STRING) /\ path # <<>>
  /\ \A c \in Calls : Dirs[c] \subseteq Entries[c] /\ Entries[c] \subseteq Paths

\* An empty publication returns at once; the other methods create one entry.
ASSUME SingleEntries ==
  \A c \in Calls :
    /\ Entries[c] # {}
    /\ Method[c] \in {"publish_many", "write_bytes", "mkdir"}
    /\ Method[c] = "write_bytes" => (\E path \in Paths : Entries[c] = {path}) /\ Dirs[c] = {}
    /\ Method[c] = "mkdir" => (\E path \in Paths : Entries[c] = {path}) /\ Dirs[c] = Entries[c]

VARIABLES
  entry,     \* the workspace: the entries that exist
  pc,        \* what each call does next
  todo,      \* the entries it has yet to check, or yet to create
  open,      \* the file it has open for writing, as a set
  created,   \* the entries it would take back, oldest first
  disturbed, \* whether another call or a fault has met it since it started
  errors,    \* history: the entries at which an error met it, and in which step
  found      \* history: what it found in directories it could not take back

wvars == <<entry, pc, todo, open, created, disturbed, errors, found>>
histories == <<errors, found>>

Absent == [kind |-> "absent", by |-> "nobody", full |-> FALSE]
Exists(path) == entry[path].kind # "absent"
IsDir(path) == path = <<>> \/ (path \in Paths /\ entry[path].kind = "dir")
Parent(path) == SubSeq(path, 1, Len(path) - 1)
Active(c) == pc[c] \in {"check", "create", "write", "undo"}

WorkspaceInit ==
  /\ entry = [path \in Paths |-> Absent]
  /\ pc = [c \in Calls |-> "idle"]
  /\ todo = [c \in Calls |-> {}]
  /\ open = [c \in Calls |-> {}]
  /\ created = [c \in Calls |-> <<>>]
  /\ disturbed = [c \in Calls |-> FALSE]
  /\ errors = [c \in Calls |-> {}]
  /\ found = [c \in Calls |-> {}]

----------------------------------------------------------------------------
(* Steps of a call.                                                        *)

Goto(c, label) == pc' = [pc EXCEPT ![c] = label]

\* Every other active call sees the workspace change under it.
Disturb(c) == disturbed' = [d \in Calls |-> disturbed[d] \/ (d # c /\ Active(d))]

\* A command is issued, or issued again after it was refused or failed.
Start(c) ==
  /\ pc[c] \in {"idle", "refused", "failed"}
  /\ Goto(c, "check")
  /\ todo' = [todo EXCEPT ![c] = Entries[c]]
  /\ created' = [created EXCEPT ![c] = <<>>]
  /\ disturbed' = [disturbed EXCEPT ![c] = FALSE]
  /\ errors' = [errors EXCEPT ![c] = {}]
  /\ found' = [found EXCEPT ![c] = {}]
  /\ UNCHANGED <<entry, open>>

\* The longest proper prefix of a path that this call is not to create.
ExistingPrefix(c, path) ==
  LET n == CHOOSE i \in 0 .. Len(path) - 1 :
             /\ SubSeq(path, 1, i) \notin Dirs[c]
             /\ \A j \in i + 1 .. Len(path) - 1 : SubSeq(path, 1, j) \in Dirs[c]
  IN SubSeq(path, 1, n)

\* What the preflight of publish_many and _new_leaf ask of a target.
Admissible(c, path) == IsDir(ExistingPrefix(c, path)) /\ ~Exists(path)

\* One target passes the preflight; behind the last the mutations begin.
Preflight(c) ==
  /\ pc[c] = "check"
  /\ \E path \in todo[c] :
       /\ Admissible(c, path)
       /\ IF todo[c] = {path}
            THEN todo' = [todo EXCEPT ![c] = Entries[c]] /\ Goto(c, "create")
            ELSE todo' = [todo EXCEPT ![c] = todo[c] \ {path}] /\ UNCHANGED pc
  /\ UNCHANGED <<entry, open, created, disturbed, histories>>

\* A target is refused before anything has been changed.
Refuse(c) ==
  /\ pc[c] = "check"
  /\ \E path \in todo[c] : ~Admissible(c, path)
  /\ Goto(c, "refused")
  /\ UNCHANGED <<entry, todo, open, created, disturbed, histories>>

\* publish_many creates in order of depth.
NextTarget(c, path) ==
  /\ path \in todo[c]
  /\ \A other \in todo[c] : Len(path) <= Len(other)

\* mkdir and open with O_EXCL refuse a name that is taken and need its parent.
Creatable(path) == ~Exists(path) /\ IsDir(Parent(path))

\* The entry is complete: the call goes on with the next, or returns.
Record(c, path) ==
  /\ created' = [created EXCEPT ![c] = Append(created[c], path)]
  /\ todo' = [todo EXCEPT ![c] = todo[c] \ {path}]
  /\ Goto(c, IF todo[c] = {path} THEN "done" ELSE "create")

CreateDir(c) ==
  /\ pc[c] = "create"
  /\ \E path \in Dirs[c] :
       /\ NextTarget(c, path) /\ Creatable(path)
       /\ entry' = [entry EXCEPT ![path] = [kind |-> "dir", by |-> c, full |-> TRUE]]
       /\ Record(c, path)
  /\ Disturb(c)
  /\ UNCHANGED <<open, histories>>

\* The file exists and is open; none of its bytes are there yet.
OpenFile(c) ==
  /\ pc[c] = "create"
  /\ \E path \in Entries[c] \ Dirs[c] :
       /\ NextTarget(c, path) /\ Creatable(path)
       /\ entry' = [entry EXCEPT ![path] = [kind |-> "file", by |-> c, full |-> FALSE]]
       /\ open' = [open EXCEPT ![c] = {path}]
  /\ Goto(c, "write")
  /\ Disturb(c)
  /\ UNCHANGED <<todo, created, histories>>

\* The loop of writes has put all bytes in place and the file is closed.
WriteFile(c) ==
  /\ pc[c] = "write"
  /\ \E path \in open[c] :
       /\ entry' = [entry EXCEPT ![path].full = TRUE]
       /\ Record(c, path)
  /\ open' = [open EXCEPT ![c] = {}]
  /\ UNCHANGED <<disturbed, histories>>

----------------------------------------------------------------------------
(* Failures.                                                               *)

\* The exception ends the call; publish_many takes back what it created.
Unwind(c) == Goto(c, IF Method[c] = "publish_many" THEN "undo" ELSE "failed")

\* Mutant: a target is recorded before it is known to be created.
Mutant_CreateFails(c) ==
  /\ pc[c] = "create"
  /\ \E path \in todo[c] :
       /\ NextTarget(c, path) /\ ~Creatable(path)
       /\ created' = [created EXCEPT ![c] = Append(created[c], path)]
  /\ Unwind(c)
  /\ UNCHANGED <<entry, todo, open, disturbed, histories>>

\* The next target was taken, or its parent lost, since the preflight.
CreateFails(c) ==
  /\ pc[c] = "create"
  /\ \E path \in todo[c] : NextTarget(c, path) /\ ~Creatable(path)
  /\ Unwind(c)
  /\ UNCHANGED <<entry, todo, open, created, disturbed, histories>>

\* mkdir or open reports another OSError: the disk is full, say.
IOError(c) ==
  /\ pc[c] = "create"
  /\ Unwind(c)
  /\ disturbed' = [disturbed EXCEPT ![c] = TRUE]
  /\ UNCHANGED <<entry, todo, open, created, histories>>

ErrorAt(c, step, path) ==
  errors' = [errors EXCEPT ![c] = errors[c] \cup {[step |-> step, path |-> path]}]

\* write reports an OSError, or close does when all bytes are there: the file
\* stays, whole or not, and has not been listed.
WriteError(c) ==
  /\ pc[c] = "write"
  /\ \E path \in open[c], whole \in BOOLEAN :
       /\ entry' = [entry EXCEPT ![path].full = whole]
       /\ ErrorAt(c, "write", path)
  /\ Unwind(c)
  /\ open' = [open EXCEPT ![c] = {}]
  /\ disturbed' = [disturbed EXCEPT ![c] = TRUE]
  /\ UNCHANGED <<todo, created, found>>

\* os.write returns zero, a WorkspaceError: write_bytes unlinks its target and
\* ignores an error of that; publish_many has not listed it.
NoProgress(c) ==
  /\ pc[c] = "write"
  /\ \E path \in open[c] :
       \/ /\ Method[c] = "write_bytes"
          /\ entry' = [entry EXCEPT ![path] = Absent]
          /\ UNCHANGED errors
       \/ UNCHANGED entry /\ ErrorAt(c, "write", path)
  /\ Unwind(c)
  /\ open' = [open EXCEPT ![c] = {}]
  /\ disturbed' = [d \in Calls |-> disturbed[d] \/ d = c \/ (entry' # entry /\ Active(d))]
  /\ UNCHANGED <<todo, created, found>>

\* What exists in a directory.
Inside(path) == {child \in Paths : Parent(child) = path /\ Exists(child)}

\* rmdir takes only an empty directory.
Removable(path) == IsDir(path) => Inside(path) = {}

\* One removal by name.  It succeeds, or the directory is not empty, or it
\* reports another error; every error is ignored and the entry stays.
TakeBack(c, target) ==
  \/ /\ Removable(target)
     /\ entry' = [entry EXCEPT ![target] = Absent]
     /\ UNCHANGED histories
  \/ /\ ~Removable(target)
     /\ found' = [found EXCEPT ![c] = found[c] \cup
                    {[path |-> child, by |-> entry[child].by] : child \in Inside(target)}]
     /\ UNCHANGED <<entry, errors>>
  \/ ErrorAt(c, "remove", target) /\ UNCHANGED <<entry, found>>

\* Mutant: the entries are taken back oldest first.
Mutant_Rollback(c) ==
  /\ pc[c] = "undo" /\ created[c] # <<>>
  /\ TakeBack(c, created[c][1])
  /\ created' = [created EXCEPT ![c] = SubSeq(created[c], 2, Len(created[c]))]
  /\ Disturb(c)
  /\ UNCHANGED <<pc, todo, open>>

\* The youngest entry comes first.
Rollback(c) ==
  /\ pc[c] = "undo" /\ created[c] # <<>>
  /\ TakeBack(c, created[c][Len(created[c])])
  /\ created' = [created EXCEPT ![c] = SubSeq(created[c], 1, Len(created[c]) - 1)]
  /\ Disturb(c)
  /\ UNCHANGED <<pc, todo, open>>

RollbackEnds(c) ==
  /\ pc[c] = "undo" /\ created[c] = <<>>
  /\ Goto(c, "failed")
  /\ UNCHANGED <<entry, todo, open, created, disturbed, histories>>

\* The process is killed: nothing is taken back.
Kill(c) ==
  /\ Active(c)
  /\ Goto(c, "killed")
  /\ open' = [open EXCEPT ![c] = {}]
  /\ UNCHANGED <<entry, todo, created, disturbed, histories>>

CallStep(c) ==
  \/ Start(c) \/ Preflight(c) \/ Refuse(c)
  \/ CreateDir(c) \/ OpenFile(c) \/ WriteFile(c)
  \/ CreateFails(c) \/ IOError(c) \/ WriteError(c) \/ NoProgress(c)
  \/ Rollback(c) \/ RollbackEnds(c) \/ Kill(c)

WorkspaceNext == \E c \in Calls : CallStep(c)

WorkspaceSpec == WorkspaceInit /\ [][WorkspaceNext]_wvars

----------------------------------------------------------------------------
(* Properties.                                                             *)

WorkspaceTypeOK ==
  /\ entry \in [Paths -> [kind : {"absent", "dir", "file"}, by : Calls \cup {"nobody"}, full : BOOLEAN]]
  /\ pc \in [Calls -> {"idle", "check", "create", "write", "undo", "done", "refused", "failed", "killed"}]
  /\ todo \in [Calls -> SUBSET Paths]
  /\ open \in [Calls -> SUBSET Paths]
  /\ created \in [Calls -> Seq(Paths)]
  /\ disturbed \in [Calls -> BOOLEAN]
  /\ errors \in [Calls -> SUBSET [step : {"write", "remove"}, path : Paths]]
  /\ found \in [Calls -> SUBSET [path : Paths, by : Calls \cup {"nobody"}]]

\* What a call that returned has published stays, whole, whatever other calls
\* create, fail and take back by name (workspace.py:377-382).
PublishedIntact ==
  \A c \in Calls : pc[c] = "done" =>
    \A path \in Entries[c] : entry[path].by = c /\ entry[path].full

\* An error met the call at this very entry, or something was found in it
\* when it was to be removed.
Explained(c, path) ==
  \/ \E error \in errors[c] : error.path = path
  \/ \E thing \in found[c] : Parent(thing.path) = path

\* What a call that failed leaves behind is explained, and so is everything of
\* its own that it found in a directory: the order of the rollback alone never
\* leaves anything.
LeftoversExplained ==
  \A c \in Calls :
    /\ pc[c] = "failed" =>
         \A path \in Entries[c] : entry[path].by = c => Explained(c, path)
    /\ \A thing \in found[c] : thing.by = c => Explained(c, thing.path)

\* The preflight decides: a call that no other call and no fault has met since
\* it started does not fail behind it.
PreflightDecides ==
  \A c \in Calls : pc[c] \in {"undo", "failed"} => disturbed[c]

\* What the documentation of publish_many says of a call that failed: the
\* files it created are removed, as far as unlink does what it is asked to.
NoFileLeft ==
  \A c \in Calls : pc[c] = "failed" /\ Method[c] = "publish_many" =>
    \A path \in Entries[c] : entry[path].by = c /\ entry[path].kind = "file" =>
      [step |-> "remove", path |-> path] \in errors[c]

\* A call fails behind its preflight only because another call or a fault has
\* met it, and then leaves an entry only where an error met it at that entry,
\* or a directory in which such an entry or another call's was found.
RollbackSound == LeftoversExplained /\ PreflightDecides

============================================================================
