-------------------------- MODULE WorkspaceProofs --------------------------
(***************************************************************************)
(* For any number of calls and any sets of outputs: what a call that       *)
(* returned has published is never removed, overwritten or torn by the     *)
(* rollback of another; a call that failed was met by another call or a    *)
(* fault, and what it leaves behind is where an error met it, or is a      *)
(* directory in which something else was left.                             *)
(***************************************************************************)
EXTENDS WorkspacePublish, SequenceTheorems, TLAPS

EntryRecord == [kind : {"absent", "dir", "file"}, by : Calls \cup {"nobody"}, full : BOOLEAN]

\* No call has created what is not there.
AbsentUnowned == \A path \in Paths : entry[path].kind = "absent" => entry[path] = Absent

Holds(c) == pc[c] \in {"create", "write", "undo"}

\* What a call may take back is its own and is listed once.
CreatedOwn(c) ==
  Holds(c) =>
    /\ \A i \in DOMAIN created[c] : entry[created[c][i]].by = c
    /\ \A i, j \in DOMAIN created[c] : i # j => created[c][i] # created[c][j]

\* A call that is still creating has all that it is not yet to do.
DoneSoFar(c) ==
  pc[c] \in {"create", "write"} =>
    /\ \A path \in Entries[c] \ todo[c] : entry[path].by = c /\ entry[path].full
    /\ \A i \in DOMAIN created[c] : created[c][i] \notin todo[c]

\* The file a call writes is its own and is still to do.
OpenOwn(c) ==
  /\ pc[c] = "write" => \A path \in open[c] : path \in todo[c] /\ entry[path].by = c
  /\ pc[c] # "write" => open[c] = {}

\* A call that has not passed its preflight has created nothing.
NothingYet(c) == pc[c] = "check" => created[c] = <<>>

Published(c) ==
  pc[c] = "done" => \A path \in Entries[c] : entry[path].by = c /\ entry[path].full

CallOK(c) == CreatedOwn(c) /\ DoneSoFar(c) /\ OpenOwn(c) /\ NothingYet(c) /\ Published(c)

WInv == WorkspaceTypeOK /\ AbsentUnowned /\ \A c \in Calls : CallOK(c)

----------------------------------------------------------------------------

LEMMA WInit == WorkspaceInit => WInv
<1>. SUFFICES ASSUME WorkspaceInit PROVE WInv
  OBVIOUS
<1>1. WorkspaceTypeOK
  BY DEF WorkspaceInit, WorkspaceTypeOK, Absent
<1>2. AbsentUnowned
  BY DEF WorkspaceInit, AbsentUnowned
<1>3. ASSUME NEW c \in Calls PROVE CallOK(c)
  BY DEF WorkspaceInit, CallOK, CreatedOwn, Holds, DoneSoFar, OpenOwn, NothingYet, Published
<1>. QED BY <1>1, <1>2, <1>3 DEF WInv

\* An error is recorded at a path.
LEMMA ErrorType ==
  ASSUME WorkspaceTypeOK, NEW c \in Calls, NEW step \in {"write", "remove"}, NEW path \in Paths,
         ErrorAt(c, step, path)
  PROVE  /\ errors' \in [Calls -> SUBSET [step : {"write", "remove"}, path : Paths]]
         /\ errors[c] \subseteq errors'[c]
         /\ \E error \in errors'[c] : error.path = path
         /\ \A d \in Calls \ {c} : errors'[d] = errors[d]
<1>. DEFINE error == [step |-> step, path |-> path]
<1>1. error \in [step : {"write", "remove"}, path : Paths] /\ error.path = path
  OBVIOUS
<1>2. errors' = [errors EXCEPT ![c] = errors[c] \cup {error}]
  BY DEF ErrorAt
<1>. HIDE DEF error
<1>3. error \in errors'[c]
  BY <1>2 DEF WorkspaceTypeOK
<1>. QED BY <1>1, <1>2, <1>3 DEF WorkspaceTypeOK

LEMMA TypeStep == WorkspaceTypeOK /\ [WorkspaceNext]_wvars => WorkspaceTypeOK'
<1>. SUFFICES ASSUME WorkspaceTypeOK, [WorkspaceNext]_wvars
              PROVE  WorkspaceTypeOK'
  OBVIOUS
<1>. USE WorkspaceConstants DEF WorkspaceTypeOK
<1>a. ASSUME UNCHANGED wvars PROVE WorkspaceTypeOK'
  BY <1>a DEF wvars
<1>b. ASSUME NEW c \in Calls, Start(c) PROVE WorkspaceTypeOK'
  BY <1>b DEF Start, Goto, histories
<1>c. ASSUME NEW c \in Calls, Preflight(c) PROVE WorkspaceTypeOK'
  <2>1. PICK path \in todo[c] :
          IF todo[c] = {path}
            THEN todo' = [todo EXCEPT ![c] = Entries[c]] /\ Goto(c, "create")
            ELSE todo' = [todo EXCEPT ![c] = todo[c] \ {path}] /\ UNCHANGED pc
    BY <1>c DEF Preflight
  <2>2. Entries[c] \in SUBSET Paths /\ todo[c] \ {path} \in SUBSET Paths
    OBVIOUS
  <2>3. CASE todo[c] = {path}
    BY <1>c, <2>1, <2>2, <2>3 DEF Preflight, Goto, histories
  <2>4. CASE todo[c] # {path}
    <3>1. /\ todo' = [todo EXCEPT ![c] = todo[c] \ {path}]
          /\ UNCHANGED <<entry, pc, open, created, disturbed, errors, found>>
      BY <1>c, <2>1, <2>4 DEF Preflight, histories
    <3>2. todo' \in [Calls -> SUBSET Paths]
      BY <2>2, <3>1
    <3>. QED BY <3>1, <3>2
  <2>. QED BY <2>3, <2>4
<1>d. ASSUME NEW c \in Calls, Refuse(c) PROVE WorkspaceTypeOK'
  BY <1>d DEF Refuse, Goto, histories
<1>e. ASSUME NEW c \in Calls, CreateDir(c) PROVE WorkspaceTypeOK'
  BY <1>e DEF CreateDir, Record, Disturb, Goto, NextTarget, histories
<1>f. ASSUME NEW c \in Calls, OpenFile(c) PROVE WorkspaceTypeOK'
  BY <1>f DEF OpenFile, Disturb, Goto, NextTarget, histories
<1>g. ASSUME NEW c \in Calls, WriteFile(c) PROVE WorkspaceTypeOK'
  <2>1. PICK path \in open[c] : /\ entry' = [entry EXCEPT ![path].full = TRUE]
                                /\ Record(c, path)
    BY <1>g DEF WriteFile
  <2>2. entry[path] \in EntryRecord
    BY DEF EntryRecord
  <2>3. [entry[path] EXCEPT !.full = TRUE] \in EntryRecord
    BY <2>2 DEF EntryRecord
  <2>4. entry' \in [Paths -> EntryRecord]
    BY <2>1, <2>3 DEF EntryRecord
  <2>. QED BY <1>g, <2>1, <2>4 DEF WriteFile, Record, Goto, EntryRecord, histories
<1>h. ASSUME NEW c \in Calls, CreateFails(c) PROVE WorkspaceTypeOK'
  BY <1>h DEF CreateFails, Unwind, Goto, histories
<1>i. ASSUME NEW c \in Calls, IOError(c) PROVE WorkspaceTypeOK'
  BY <1>i DEF IOError, Unwind, Goto, histories
<1>j. ASSUME NEW c \in Calls, WriteError(c) PROVE WorkspaceTypeOK'
  <2>1. PICK path \in open[c], whole \in BOOLEAN :
          entry' = [entry EXCEPT ![path].full = whole] /\ ErrorAt(c, "write", path)
    BY <1>j DEF WriteError
  <2>2. entry' \in [Paths -> EntryRecord]
    <3>1. entry[path] \in EntryRecord
      BY DEF EntryRecord
    <3>2. [entry[path] EXCEPT !.full = whole] \in EntryRecord
      BY <3>1 DEF EntryRecord
    <3>. QED BY <2>1, <3>2 DEF EntryRecord
  <2>3. errors' \in [Calls -> SUBSET [step : {"write", "remove"}, path : Paths]]
    BY <2>1, ErrorType
  <2>. QED BY <1>j, <2>2, <2>3 DEF WriteError, Unwind, Goto, EntryRecord
<1>k. ASSUME NEW c \in Calls, NoProgress(c) PROVE WorkspaceTypeOK'
  <2>1. PICK path \in open[c] :
          \/ entry' = [entry EXCEPT ![path] = Absent] /\ errors' = errors
          \/ entry' = entry /\ ErrorAt(c, "write", path)
    BY <1>k DEF NoProgress
  <2>2. entry' \in [Paths -> EntryRecord]
    <3>1. Absent \in EntryRecord /\ entry \in [Paths -> EntryRecord]
      BY DEF Absent, EntryRecord
    <3>. HIDE DEF WorkspaceTypeOK
    <3>. QED BY <2>1, <3>1
  <2>3. errors' \in [Calls -> SUBSET [step : {"write", "remove"}, path : Paths]]
    BY <2>1, ErrorType
  <2>. QED BY <1>k, <2>2, <2>3 DEF NoProgress, Unwind, Goto, EntryRecord
<1>l. ASSUME NEW c \in Calls, Rollback(c) PROVE WorkspaceTypeOK'
  <2>. DEFINE target == created[c][Len(created[c])]
  <2>1. target \in Paths /\ SubSeq(created[c], 1, Len(created[c]) - 1) \in Seq(Paths)
    BY <1>l DEF Rollback
  <2>2. TakeBack(c, target)
    BY <1>l DEF Rollback
  <2>3. entry' \in [Paths -> EntryRecord]
    <3>1. Absent \in EntryRecord /\ entry \in [Paths -> EntryRecord]
      BY DEF Absent, EntryRecord
    <3>. HIDE DEF WorkspaceTypeOK, target
    <3>. QED BY <2>1, <2>2, <3>1 DEF TakeBack
  <2>4. errors' \in [Calls -> SUBSET [step : {"write", "remove"}, path : Paths]]
    <3>. HIDE DEF target
    <3>. QED BY <2>1, <2>2, ErrorType DEF TakeBack, histories
  <2>5. found' \in [Calls -> SUBSET [path : Paths, by : Calls \cup {"nobody"}]]
    <3>. HIDE DEF target
    <3>. DEFINE things == {[path |-> child, by |-> entry[child].by] : child \in Inside(target)}
    <3>1. \A child \in Paths : entry[child].by \in Calls \cup {"nobody"}
      OBVIOUS
    <3>2. things \subseteq [path : Paths, by : Calls \cup {"nobody"}]
      BY <3>1 DEF Inside
    <3>3. found' = found \/ found' = [found EXCEPT ![c] = found[c] \cup things]
      BY <2>2 DEF TakeBack, histories
    <3>4. found[c] \cup things \in SUBSET [path : Paths, by : Calls \cup {"nobody"}]
      BY <3>2
    <3>. HIDE DEF things
    <3>. QED BY <3>3, <3>4
  <2>. QED BY <1>l, <2>1, <2>3, <2>4, <2>5 DEF Rollback, Disturb, EntryRecord
<1>m. ASSUME NEW c \in Calls, RollbackEnds(c) PROVE WorkspaceTypeOK'
  BY <1>m DEF RollbackEnds, Goto, histories
<1>n. ASSUME NEW c \in Calls, Kill(c) PROVE WorkspaceTypeOK'
  BY <1>n DEF Kill, Goto, histories
<1>. QED
  BY <1>a, <1>b, <1>c, <1>d, <1>e, <1>f, <1>g, <1>h, <1>i, <1>j, <1>k, <1>l, <1>m, <1>n
  DEF WorkspaceNext, CallStep

----------------------------------------------------------------------------
(* A step of one call is harmless to the others as long as it leaves       *)
(* alone the entries that are theirs.                                      *)

LEMMA OthersKeep ==
  ASSUME WInv, NEW c \in Calls, NEW d \in Calls, d # c,
         pc'[d] = pc[d], todo'[d] = todo[d], open'[d] = open[d], created'[d] = created[d],
         \A q \in Paths : entry[q].by = d => entry'[q].by = d /\ (entry[q].full => entry'[q].full)
  PROVE  CallOK(d)'
<1>0. /\ \A i \in DOMAIN created[d] : created[d][i] \in Paths
      /\ Entries[d] \subseteq Paths
      /\ open[d] \subseteq Paths
  BY WorkspaceConstants DEF WInv, WorkspaceTypeOK
<1>00. CreatedOwn(d) /\ DoneSoFar(d) /\ OpenOwn(d) /\ NothingYet(d) /\ Published(d)
  BY DEF WInv, CallOK
<1>1. CreatedOwn(d)'
  BY <1>0, <1>00 DEF CreatedOwn, Holds
<1>2. DoneSoFar(d)'
  BY <1>0, <1>00 DEF DoneSoFar
<1>3. OpenOwn(d)'
  BY <1>0, <1>00 DEF OpenOwn
<1>4. NothingYet(d)'
  BY <1>00 DEF NothingYet
<1>5. Published(d)'
  BY <1>0, <1>00 DEF Published
<1>. QED BY <1>1, <1>2, <1>3, <1>4, <1>5 DEF CallOK

\* The target of a creation was absent, so it was nobody's.
LEMMA Creation ==
  ASSUME WInv, NEW c \in Calls, NEW path \in Paths, ~Exists(path),
         NEW kind \in {"dir", "file"}, NEW full \in BOOLEAN,
         entry' = [entry EXCEPT ![path] = [kind |-> kind, by |-> c, full |-> full]]
  PROVE  /\ AbsentUnowned'
         /\ entry'[path].by = c /\ entry'[path].full = full
         /\ \A d \in Calls, q \in Paths : entry[q].by = d => entry'[q] = entry[q]
<1>. USE DEF WInv, WorkspaceTypeOK
<1>1. entry[path] = Absent
  BY DEF AbsentUnowned, Exists
<1>2. \A q \in Paths : q # path => entry'[q] = entry[q]
  OBVIOUS
<1>3. entry'[path] = [kind |-> kind, by |-> c, full |-> full]
  OBVIOUS
<1>4. AbsentUnowned'
  BY <1>2, <1>3 DEF AbsentUnowned, Absent
<1>5. \A d \in Calls : entry[path].by # d
  BY <1>1, WorkspaceConstants DEF Absent
<1>. QED BY <1>2, <1>3, <1>4, <1>5

\* The list of created entries grows by one that was still to do.
LEMMA RecordKeeps ==
  ASSUME WInv, WorkspaceTypeOK', NEW c \in Calls, NEW path \in todo[c], path \in Paths,
         pc[c] \in {"create", "write"}, Record(c, path), open'[c] = {},
         entry'[path].by = c, entry'[path].full,
         \A q \in Paths : entry[q].by = c => entry'[q].by = c /\ (entry[q].full => entry'[q].full)
  PROVE  CallOK(c)'
<1>0. /\ created'[c] = Append(created[c], path)
      /\ todo'[c] = todo[c] \ {path}
      /\ pc'[c] = IF todo[c] = {path} THEN "done" ELSE "create"
  BY DEF Record, Goto, WInv, WorkspaceTypeOK
<1>1. /\ Len(created'[c]) = Len(created[c]) + 1
      /\ created'[c][Len(created[c]) + 1] = path
      /\ \A i \in DOMAIN created[c] : created'[c][i] = created[c][i]
      /\ DOMAIN created'[c] = 1 .. Len(created[c]) + 1
      /\ DOMAIN created[c] = 1 .. Len(created[c])
      /\ Len(created[c]) \in Nat
      /\ \A i \in DOMAIN created[c] : created[c][i] \in Paths
  BY <1>0 DEF WInv, WorkspaceTypeOK
<1>2. \A i \in DOMAIN created'[c] : i = Len(created[c]) + 1 \/ i \in DOMAIN created[c]
  BY <1>1
<1>a. /\ \A i \in DOMAIN created[c] : entry[created[c][i]].by = c /\ created[c][i] # path
      /\ \A i, j \in DOMAIN created[c] : i # j => created[c][i] # created[c][j]
  BY DEF WInv, CallOK, CreatedOwn, DoneSoFar, Holds
<1>b. \A i \in DOMAIN created'[c] : entry'[created'[c][i]].by = c
  BY <1>1, <1>2, <1>a
<1>c. \A i, j \in DOMAIN created'[c] : i # j => created'[c][i] # created'[c][j]
  BY <1>1, <1>2, <1>a
<1>3. CreatedOwn(c)'
  BY <1>b, <1>c DEF CreatedOwn
<1>4. \A q \in Entries[c] \ todo'[c] : entry'[q].by = c /\ entry'[q].full
  BY <1>0, WorkspaceConstants DEF WInv, CallOK, DoneSoFar
<1>5. DoneSoFar(c)'
  BY <1>0, <1>1, <1>2, <1>4 DEF WInv, CallOK, DoneSoFar
<1>6. OpenOwn(c)' /\ NothingYet(c)'
  BY <1>0 DEF OpenOwn, NothingYet
<1>7. Published(c)'
  BY <1>0, <1>4 DEF Published
<1>. QED BY <1>3, <1>5, <1>6, <1>7 DEF CallOK

\* A call that ends, or has not begun to create, claims nothing.
LEMMA ClaimsNothing ==
  ASSUME NEW c \in Calls, pc'[c] \in {"check", "refused", "failed", "killed"},
         open'[c] = {}, pc'[c] = "check" => created'[c] = <<>>
  PROVE  CallOK(c)'
BY DEF CallOK, CreatedOwn, Holds, DoneSoFar, OpenOwn, NothingYet, Published

\* A call that begins to take back keeps what it has listed.
LEMMA UnwindKeeps ==
  ASSUME WInv, NEW c \in Calls, pc[c] \in {"create", "write"}, Unwind(c),
         created' = created, open'[c] = {},
         \A i \in DOMAIN created[c] : entry'[created[c][i]] = entry[created[c][i]]
  PROVE  CallOK(c)'
<1>1. pc'[c] \in {"undo", "failed"}
  BY DEF Unwind, Goto, WInv, WorkspaceTypeOK
<1>2. CreatedOwn(c)'
  BY <1>1 DEF WInv, CallOK, CreatedOwn, Holds
<1>. QED BY <1>1, <1>2 DEF CallOK, DoneSoFar, OpenOwn, NothingYet, Published

\* The inductive step: what each operation does to its own call, and why it
\* leaves the entries of the others alone.
LEMMA WStep == WInv /\ [WorkspaceNext]_wvars => WInv'
<1>. SUFFICES ASSUME WInv, [WorkspaceNext]_wvars PROVE WInv'
  OBVIOUS
<1>0. WorkspaceTypeOK /\ WorkspaceTypeOK'
  BY TypeStep DEF WInv
<1>a. ASSUME UNCHANGED wvars PROVE WInv'
  BY <1>a DEF wvars, WInv, WorkspaceTypeOK, AbsentUnowned, Absent, CallOK, CreatedOwn, Holds,
     DoneSoFar, OpenOwn, NothingYet, Published
\* Entries unchanged, and only the state of one call moves.
<1>b. ASSUME NEW c \in Calls, entry' = entry, CallOK(c)',
             \A d \in Calls \ {c} : /\ pc'[d] = pc[d] /\ todo'[d] = todo[d]
                                    /\ open'[d] = open[d] /\ created'[d] = created[d]
      PROVE  WInv'
  <2>1. AbsentUnowned'
    BY <1>b DEF WInv, AbsentUnowned, Absent
  <2>2. ASSUME NEW d \in Calls, d # c PROVE CallOK(d)'
    BY <1>b, <2>2, OthersKeep
  <2>. QED BY <1>0, <1>b, <2>1, <2>2 DEF WInv
<1>c. ASSUME NEW c \in Calls, Start(c) PROVE WInv'
  <2>0. open[c] = {} /\ open' = open
    BY <1>c DEF Start, WInv, CallOK, OpenOwn
  <2>1. CallOK(c)'
    BY <1>0, <1>c, <2>0, ClaimsNothing DEF Start, Goto, WorkspaceTypeOK
  <2>. QED BY <1>0, <1>b, <1>c, <2>1 DEF Start, Goto, WorkspaceTypeOK
<1>d. ASSUME NEW c \in Calls, Preflight(c) PROVE WInv'
  <2>1. PICK path \in todo[c] :
          IF todo[c] = {path}
            THEN todo' = [todo EXCEPT ![c] = Entries[c]] /\ Goto(c, "create")
            ELSE todo' = [todo EXCEPT ![c] = todo[c] \ {path}] /\ UNCHANGED pc
    BY <1>d DEF Preflight
  <2>2. created[c] = <<>> /\ open[c] = {} /\ pc[c] = "check"
    BY <1>d DEF Preflight, WInv, CallOK, NothingYet, OpenOwn
  <2>3. CASE todo[c] = {path}
    <3>1. pc'[c] = "create" /\ todo'[c] = Entries[c] /\ created'[c] = <<>> /\ open'[c] = {}
      BY <1>0, <1>d, <2>1, <2>2, <2>3 DEF Preflight, Goto, WorkspaceTypeOK
    <3>2. CallOK(c)'
      BY <3>1 DEF CallOK, CreatedOwn, DoneSoFar, OpenOwn, NothingYet, Published
    <3>. QED BY <1>0, <1>b, <1>d, <2>1, <2>3, <3>2 DEF Preflight, Goto, WorkspaceTypeOK
  <2>4. CASE todo[c] # {path}
    <3>1. CallOK(c)'
      BY <1>0, <1>d, <2>1, <2>2, <2>4, ClaimsNothing DEF Preflight
    <3>. QED BY <1>0, <1>b, <1>d, <2>1, <2>4, <3>1 DEF Preflight, WorkspaceTypeOK
  <2>. QED BY <2>3, <2>4
<1>e. ASSUME NEW c \in Calls, Refuse(c) PROVE WInv'
  <2>0. open[c] = {} /\ open' = open
    BY <1>e DEF Refuse, WInv, CallOK, OpenOwn
  <2>1. CallOK(c)'
    BY <1>0, <1>e, <2>0, ClaimsNothing DEF Refuse, Goto, WorkspaceTypeOK
  <2>. QED BY <1>0, <1>b, <1>e, <2>1 DEF Refuse, Goto, WorkspaceTypeOK
<1>f. ASSUME NEW c \in Calls, CreateDir(c) PROVE WInv'
  <2>1. PICK path \in Dirs[c] :
          /\ path \in todo[c] /\ ~Exists(path)
          /\ entry' = [entry EXCEPT ![path] = [kind |-> "dir", by |-> c, full |-> TRUE]]
          /\ Record(c, path)
    BY <1>f DEF CreateDir, NextTarget, Creatable
  <2>2. path \in Paths
    BY <1>0, <2>1 DEF WorkspaceTypeOK
  <2>3. /\ AbsentUnowned'
        /\ entry'[path].by = c /\ entry'[path].full = TRUE
        /\ \A d \in Calls, q \in Paths : entry[q].by = d => entry'[q] = entry[q]
    BY <2>1, <2>2, Creation
  <2>4. open'[c] = {} /\ pc[c] = "create"
    BY <1>f DEF CreateDir, WInv, CallOK, OpenOwn
  <2>5. CallOK(c)'
    BY <1>0, <2>1, <2>2, <2>3, <2>4, RecordKeeps
  <2>6. ASSUME NEW d \in Calls, d # c PROVE CallOK(d)'
    <3>1. pc'[d] = pc[d] /\ todo'[d] = todo[d] /\ open'[d] = open[d] /\ created'[d] = created[d]
      BY <1>0, <1>f, <2>1, <2>6 DEF CreateDir, Record, Goto, WorkspaceTypeOK
    <3>. QED BY <2>3, <2>6, <3>1, OthersKeep
  <2>. QED BY <1>0, <2>3, <2>5, <2>6 DEF WInv
<1>g. ASSUME NEW c \in Calls, OpenFile(c) PROVE WInv'
  <2>1. PICK path \in Entries[c] \ Dirs[c] :
          /\ path \in todo[c] /\ ~Exists(path)
          /\ entry' = [entry EXCEPT ![path] = [kind |-> "file", by |-> c, full |-> FALSE]]
          /\ open' = [open EXCEPT ![c] = {path}]
    BY <1>g DEF OpenFile, NextTarget, Creatable
  <2>2. path \in Paths
    BY <1>0, <2>1 DEF WorkspaceTypeOK
  <2>3. /\ AbsentUnowned'
        /\ entry'[path].by = c
        /\ \A d \in Calls, q \in Paths : entry[q].by = d => entry'[q] = entry[q]
    BY <2>1, <2>2, Creation
  <2>4. /\ pc[c] = "create" /\ pc'[c] = "write" /\ open'[c] = {path}
        /\ todo' = todo /\ created' = created
    <3>1. pc[c] = "create" /\ pc' = [pc EXCEPT ![c] = "write"] /\ todo' = todo /\ created' = created
      BY <1>g DEF OpenFile, Goto
    <3>. QED BY <1>0, <2>1, <3>1 DEF WorkspaceTypeOK
  <2>5. /\ Entries[c] \subseteq Paths
        /\ \A i \in DOMAIN created[c] : created[c][i] \in Paths
    BY <1>0, WorkspaceConstants DEF WorkspaceTypeOK
  <2>6. CreatedOwn(c)' /\ DoneSoFar(c)'
    BY <2>3, <2>4, <2>5 DEF WInv, CallOK, CreatedOwn, Holds, DoneSoFar
  <2>7. CallOK(c)'
    BY <2>1, <2>3, <2>4, <2>6 DEF CallOK, OpenOwn, NothingYet, Published
  <2>8. ASSUME NEW d \in Calls, d # c PROVE CallOK(d)'
    <3>1. pc'[d] = pc[d] /\ open'[d] = open[d]
      BY <1>0, <1>g, <2>1, <2>8 DEF OpenFile, Goto, WorkspaceTypeOK
    <3>. QED BY <2>3, <2>4, <2>8, <3>1, OthersKeep
  <2>. QED BY <1>0, <2>3, <2>7, <2>8 DEF WInv
<1>h. ASSUME NEW c \in Calls, WriteFile(c) PROVE WInv'
  <2>1. PICK path \in open[c] : /\ entry' = [entry EXCEPT ![path].full = TRUE]
                                /\ Record(c, path)
    BY <1>h DEF WriteFile
  <2>2. path \in Paths /\ path \in todo[c] /\ pc[c] = "write" /\ open'[c] = {}
    BY <1>0, <1>h, <2>1 DEF WriteFile, WorkspaceTypeOK, WInv, CallOK, OpenOwn
  <2>3. /\ entry'[path] = [entry[path] EXCEPT !.full = TRUE]
        /\ \A q \in Paths : q # path => entry'[q] = entry[q]
    BY <1>0, <2>1, <2>2 DEF WorkspaceTypeOK
  <2>4. entry[path] \in EntryRecord /\ entry[path].by = c
    BY <1>0, <2>1, <2>2 DEF WorkspaceTypeOK, EntryRecord, WInv, CallOK, OpenOwn
  <2>5. entry'[path].by = c /\ entry'[path].full /\ entry'[path].kind = entry[path].kind
    BY <2>3, <2>4 DEF EntryRecord
  <2>6. AbsentUnowned'
    <3>1. entry[path].kind # "absent"
      BY <2>2, <2>4, WorkspaceConstants DEF WInv, AbsentUnowned, Absent
    <3>. QED BY <2>2, <2>3, <2>5, <3>1 DEF WInv, AbsentUnowned, Absent
  <2>7. CallOK(c)'
    BY <1>0, <2>1, <2>2, <2>3, <2>5, RecordKeeps
  <2>8. ASSUME NEW d \in Calls, d # c PROVE CallOK(d)'
    <3>1. pc'[d] = pc[d] /\ todo'[d] = todo[d] /\ open'[d] = open[d] /\ created'[d] = created[d]
      BY <1>0, <1>h, <2>1, <2>8 DEF WriteFile, Record, Goto, WorkspaceTypeOK
    <3>. QED BY <2>3, <2>4, <2>8, <3>1, OthersKeep
  <2>. QED BY <1>0, <2>6, <2>7, <2>8 DEF WInv
<1>i. ASSUME NEW c \in Calls, CreateFails(c) PROVE WInv'
  <2>1. CallOK(c)'
    BY <1>i, UnwindKeeps DEF CreateFails, WInv, CallOK, OpenOwn
  <2>. QED BY <1>0, <1>b, <1>i, <2>1 DEF CreateFails, Unwind, Goto, WorkspaceTypeOK
<1>j. ASSUME NEW c \in Calls, IOError(c) PROVE WInv'
  <2>1. CallOK(c)'
    BY <1>j, UnwindKeeps DEF IOError, WInv, CallOK, OpenOwn
  <2>. QED BY <1>0, <1>b, <1>j, <2>1 DEF IOError, Unwind, Goto, WorkspaceTypeOK
<1>o. ASSUME NEW c \in Calls, WriteError(c) PROVE WInv'
  <2>1. PICK path \in open[c], whole \in BOOLEAN : entry' = [entry EXCEPT ![path].full = whole]
    BY <1>o DEF WriteError
  <2>2. /\ pc[c] = "write" /\ open'[c] = {} /\ path \in Paths /\ entry[path].by = c
        /\ path \in todo[c] /\ created' = created /\ Unwind(c)
    BY <1>0, <1>o, <2>1 DEF WriteError, WorkspaceTypeOK, WInv, CallOK, OpenOwn
  <2>3. /\ \A q \in Paths : q # path => entry'[q] = entry[q]
        /\ entry'[path].by = c /\ entry'[path].kind = entry[path].kind
    <3>1. entry[path] \in EntryRecord
      BY <1>0, <2>2 DEF WorkspaceTypeOK, EntryRecord
    <3>2. /\ entry'[path] = [entry[path] EXCEPT !.full = whole]
          /\ \A q \in Paths : q # path => entry'[q] = entry[q]
      BY <1>0, <2>1, <2>2 DEF WorkspaceTypeOK
    <3>. QED BY <2>2, <3>1, <3>2 DEF EntryRecord
  <2>4. CallOK(c)'
    <3>1. \A i \in DOMAIN created[c] : created[c][i] \in Paths /\ created[c][i] # path
      BY <1>0, <2>2 DEF WInv, CallOK, DoneSoFar, WorkspaceTypeOK
    <3>. QED BY <2>2, <2>3, <3>1, UnwindKeeps
  <2>5. AbsentUnowned'
    <3>1. entry[path].kind # "absent"
      BY <2>2, WorkspaceConstants DEF WInv, AbsentUnowned, Absent
    <3>. QED BY <2>2, <2>3, <3>1 DEF WInv, AbsentUnowned, Absent
  <2>6. ASSUME NEW d \in Calls, d # c PROVE CallOK(d)'
    <3>1. pc'[d] = pc[d] /\ todo'[d] = todo[d] /\ open'[d] = open[d] /\ created'[d] = created[d]
      BY <1>0, <1>o, <2>6 DEF WriteError, Unwind, Goto, WorkspaceTypeOK
    <3>2. \A q \in Paths : entry[q].by = d => entry'[q] = entry[q]
      BY <2>2, <2>3, <2>6
    <3>. QED BY <2>6, <3>1, <3>2, OthersKeep
  <2>. QED BY <1>0, <2>4, <2>5, <2>6 DEF WInv
<1>k. ASSUME NEW c \in Calls, NoProgress(c) PROVE WInv'
  <2>1. PICK path \in open[c] :
          \/ Method[c] = "write_bytes" /\ entry' = [entry EXCEPT ![path] = Absent]
          \/ entry' = entry
    BY <1>k DEF NoProgress
  <2>2. pc[c] = "write" /\ open'[c] = {} /\ path \in Paths /\ entry[path].by = c
    BY <1>0, <1>k, <2>1 DEF NoProgress, WorkspaceTypeOK, WInv, CallOK, OpenOwn
  <2>3. \A d \in Calls \ {c} : /\ pc'[d] = pc[d] /\ todo'[d] = todo[d]
                               /\ open'[d] = open[d] /\ created'[d] = created[d]
    BY <1>0, <1>k DEF NoProgress, Unwind, Goto, WorkspaceTypeOK
  <2>4. CASE Method[c] = "write_bytes" /\ entry' = [entry EXCEPT ![path] = Absent]
    <3>1. pc'[c] = "failed"
      BY <1>0, <1>k, <2>4 DEF NoProgress, Unwind, Goto, WorkspaceTypeOK
    <3>2. CallOK(c)'
      BY <2>2, <3>1, ClaimsNothing
    <3>3. /\ entry'[path] = Absent
          /\ \A q \in Paths : q # path => entry'[q] = entry[q]
      BY <1>0, <2>2, <2>4 DEF WorkspaceTypeOK
    <3>4. AbsentUnowned'
      BY <3>3 DEF WInv, AbsentUnowned, Absent
    <3>5. ASSUME NEW d \in Calls, d # c PROVE CallOK(d)'
      BY <2>2, <2>3, <3>3, <3>5, OthersKeep
    <3>. QED BY <1>0, <3>2, <3>4, <3>5 DEF WInv
  <2>5. CASE entry' = entry
    <3>1. CallOK(c)'
      BY <1>k, <2>2, <2>5, UnwindKeeps DEF NoProgress
    <3>. QED BY <1>b, <2>3, <2>5, <3>1
  <2>. QED BY <2>1, <2>4, <2>5
<1>l. ASSUME NEW c \in Calls, Rollback(c) PROVE WInv'
  <2>. DEFINE n == Len(created[c])
              target == created[c][n]
  <2>1. /\ n \in Nat \ {0} /\ DOMAIN created[c] = 1 .. n
        /\ \A i \in 1 .. n : created[c][i] \in Paths
    BY <1>0, <1>l DEF Rollback, WorkspaceTypeOK
  <2>2. /\ pc[c] = "undo" /\ pc' = pc /\ todo' = todo /\ open' = open
        /\ entry' = [entry EXCEPT ![target] = Absent] \/ entry' = entry
        /\ created'[c] = SubSeq(created[c], 1, n - 1)
        /\ \A d \in Calls \ {c} : created'[d] = created[d]
    BY <1>0, <1>l DEF Rollback, TakeBack, WorkspaceTypeOK
  <2>3. /\ \A i \in 1 .. n : entry[created[c][i]].by = c
        /\ \A i, j \in 1 .. n : i # j => created[c][i] # created[c][j]
    BY <2>1, <2>2 DEF WInv, CallOK, CreatedOwn, Holds
  <2>4. /\ target \in Paths /\ entry[target].by = c
        /\ \A q \in Paths : q # target => entry'[q] = entry[q]
        /\ entry'[target] = Absent \/ entry'[target] = entry[target]
    <3>1. target \in Paths /\ entry[target].by = c
      BY <2>1, <2>3
    <3>. HIDE DEF target
    <3>. QED BY <1>0, <2>2, <3>1 DEF WorkspaceTypeOK
  <2>5. AbsentUnowned'
    BY <2>4 DEF WInv, AbsentUnowned, Absent
  <2>6. /\ DOMAIN created'[c] = 1 .. n - 1
        /\ \A i \in 1 .. n - 1 : created'[c][i] = created[c][i] /\ i \in 1 .. n /\ i # n
    BY <2>1, <2>2
  <2>7. \A i \in 1 .. n - 1 : created[c][i] # target /\ created[c][i] \in Paths
    BY <2>1, <2>3, <2>6
  <2>a. \A i \in DOMAIN created'[c] : entry'[created'[c][i]].by = c
    <3>1. \A i \in 1 .. n - 1 : entry'[created[c][i]] = entry[created[c][i]]
      BY <2>4, <2>7
    <3>. QED BY <2>3, <2>6, <3>1
  <2>b. \A i, j \in DOMAIN created'[c] : i # j => created'[c][i] # created'[c][j]
    BY <2>3, <2>6
  <2>8. CreatedOwn(c)'
    BY <2>a, <2>b DEF CreatedOwn
  <2>9. CallOK(c)'
    BY <2>2, <2>8 DEF WInv, CallOK, DoneSoFar, OpenOwn, NothingYet, Published
  <2>10. ASSUME NEW d \in Calls, d # c PROVE CallOK(d)'
    BY <2>2, <2>4, <2>10, OthersKeep
  <2>. QED BY <1>0, <2>5, <2>9, <2>10 DEF WInv
<1>m. ASSUME NEW c \in Calls, RollbackEnds(c) PROVE WInv'
  <2>0. open[c] = {} /\ open' = open
    BY <1>m DEF RollbackEnds, WInv, CallOK, OpenOwn
  <2>1. CallOK(c)'
    BY <1>0, <1>m, <2>0, ClaimsNothing DEF RollbackEnds, Goto, WorkspaceTypeOK
  <2>. QED BY <1>0, <1>b, <1>m, <2>1 DEF RollbackEnds, Goto, WorkspaceTypeOK
<1>n. ASSUME NEW c \in Calls, Kill(c) PROVE WInv'
  <2>1. CallOK(c)'
    BY <1>0, <1>n, ClaimsNothing DEF Kill, Goto, WorkspaceTypeOK
  <2>. QED BY <1>0, <1>b, <1>n, <2>1 DEF Kill, Goto, WorkspaceTypeOK
<1>. QED
  BY <1>a, <1>c, <1>d, <1>e, <1>f, <1>g, <1>h, <1>i, <1>j, <1>k, <1>l, <1>m, <1>n, <1>o
  DEF WorkspaceNext, CallStep

\* What a call that returned has published stays whole and in place, for any
\* calls, outputs and failures (workspace.py:325-385).
THEOREM PublicationsKept == WorkspaceSpec => []PublishedIntact
<1>1. WInv => PublishedIntact
  BY DEF WInv, CallOK, Published, PublishedIntact
<1>. QED BY WInit, WStep, <1>1, PTL DEF WorkspaceSpec

----------------------------------------------------------------------------
(***************************************************************************)
(* Failure.  What a call leaves behind, and why an undisturbed call does   *)
(* not fail: everything it needs is as the preflight found it, or is a     *)
(* directory it made itself, in the order of depth.                        *)
(***************************************************************************)
\* A call owns nothing but outputs of its own.
OwnOutputs(c) == \A path \in Paths : entry[path].by = c => path \in Entries[c]

\* What a call owns it would take back, has open for writing, or could not
\* remove; it owns nothing that its preflight has found free.
Listed(c) ==
  /\ pc[c] = "check" => \A path \in Entries[c] \ todo[c] : entry[path].by # c
  /\ Holds(c) => \A path \in Paths : entry[path].by = c =>
       \/ \E i \in DOMAIN created[c] : created[c][i] = path
       \/ pc[c] = "write" /\ path \in open[c]
       \/ pc[c] = "undo" /\ Explained(c, path)
  /\ pc[c] = "failed" => \A path \in Paths : entry[path].by = c => Explained(c, path)

\* What it found of its own in a directory it could not have removed before.
FoundExplained(c) == \A thing \in found[c] : thing.by = c => Explained(c, thing.path)

\* Outputs are listed in the order of depth, so the contents of a directory
\* are taken back before the directory.
ByDepth(c) ==
  /\ Holds(c) => \A i, j \in DOMAIN created[c] : i < j => Len(created[c][i]) <= Len(created[c][j])
  /\ pc[c] \in {"create", "write"} =>
       \A i \in DOMAIN created[c], path \in todo[c] : Len(created[c][i]) <= Len(path)
  /\ pc[c] = "write" => \A file \in open[c], path \in todo[c] : Len(file) <= Len(path)

Accounted(c) == OwnOutputs(c) /\ Listed(c) /\ FoundExplained(c) /\ ByDepth(c)

\* A call that creates has something to do, lists only outputs of its own and
\* has at most one file open.
Busy(c) ==
  pc[c] \in {"create", "write"} =>
    /\ todo[c] \subseteq Entries[c] /\ todo[c] # {}
    /\ \A i \in DOMAIN created[c] : created[c][i] \in Entries[c]
    /\ \A path \in Dirs[c] \ todo[c] : entry[path].kind = "dir"
    /\ \A path \in open[c] : path \notin Dirs[c] /\ open[c] = {path}

\* As long as nothing has met the call, its targets are free and the parents
\* that it is not to make itself exist.
Clear(c) ==
  ~disturbed[c] =>
    /\ pc[c] = "check" => \A path \in Entries[c] \ todo[c] : Admissible(c, path)
    /\ pc[c] \in {"create", "write"} =>
         \A path \in todo[c] \ open[c] :
           ~Exists(path) /\ (Parent(path) \notin Dirs[c] => IsDir(Parent(path)))
    /\ pc[c] \notin {"undo", "failed"}

RollbackInv == WInv /\ \A c \in Calls : Accounted(c) /\ Busy(c) /\ Clear(c)

\* The parent of a target is what the preflight looked at, unless the call is
\* to make it.
LEMMA PrefixIsParent ==
  ASSUME NEW c \in Calls, NEW path \in Paths, Parent(path) \notin Dirs[c]
  PROVE  ExistingPrefix(c, path) = Parent(path)
<1>. DEFINE n == Len(path) - 1
            Fits(i) == /\ SubSeq(path, 1, i) \notin Dirs[c]
                       /\ \A j \in i + 1 .. Len(path) - 1 : SubSeq(path, 1, j) \in Dirs[c]
<1>1. n \in Nat /\ n \in 0 .. Len(path) - 1 /\ n + 1 .. Len(path) - 1 = {}
  BY WorkspaceConstants
<1>2. Fits(n)
  BY <1>1 DEF Parent
<1>3. ASSUME NEW i \in 0 .. Len(path) - 1, Fits(i) PROVE i = n
  <2>1. i # n => n \in i + 1 .. Len(path) - 1
    BY <1>1
  <2>. QED BY <1>2, <1>3, <2>1
<1>4. (CHOOSE i \in 0 .. Len(path) - 1 : Fits(i)) = n
  <2>. HIDE DEF Fits, n
  <2>. QED BY <1>1, <1>2, <1>3
<1>. QED BY <1>4 DEF ExistingPrefix, Parent

\* A target whose turn it is, in a call nothing has met, can be created.
LEMMA NextIsCreatable ==
  ASSUME RollbackInv, NEW c \in Calls, pc[c] = "create", ~disturbed[c],
         NEW path \in todo[c], NextTarget(c, path)
  PROVE  Creatable(path)
<1>1. open[c] = {}
  BY DEF RollbackInv, WInv, CallOK, OpenOwn
<1>2. ~Exists(path) /\ (Parent(path) \notin Dirs[c] => IsDir(Parent(path)))
  BY <1>1 DEF RollbackInv, Clear
<1>3. path \in Seq(STRING) /\ path # <<>>
  BY WorkspaceConstants DEF RollbackInv, WInv, WorkspaceTypeOK
<1>4. ASSUME Parent(path) \in Dirs[c] PROVE IsDir(Parent(path))
  <2>1. Len(Parent(path)) < Len(path)
    BY <1>3 DEF Parent
  <2>2. Parent(path) \notin todo[c]
    <3>1. Len(Parent(path)) \in Nat /\ Len(path) \in Nat
      BY <1>3 DEF Parent
    <3>. QED BY <2>1, <3>1 DEF NextTarget
  <2>3. entry[Parent(path)].kind = "dir" /\ Parent(path) \in Paths
    BY <1>4, <2>2, WorkspaceConstants DEF RollbackInv, Busy
  <2>. QED BY <2>3 DEF IsDir
<1>. QED BY <1>2, <1>4 DEF Creatable

\* A step of another call: what it owns and what met it are as they were, and it
\* is met by every step that makes or removes an entry.
LEMMA OthersKeepClear ==
  ASSUME RollbackInv, NEW d \in Calls,
         pc'[d] = pc[d], todo'[d] = todo[d], open'[d] = open[d], created'[d] = created[d],
         errors'[d] = errors[d], found'[d] = found[d], disturbed[d] => disturbed'[d],
         \A q \in Paths : /\ entry'[q].by = d => entry'[q] = entry[q]
                          /\ entry[q].by = d => entry'[q] = entry[q],
         Active(d) /\ ~disturbed'[d] => \A q \in Paths : entry'[q].kind = entry[q].kind
  PROVE  Accounted(d)' /\ Busy(d)' /\ Clear(d)'
<1>0. /\ Accounted(d) /\ Busy(d) /\ Clear(d) /\ DoneSoFar(d)
      /\ todo[d] \subseteq Paths /\ Dirs[d] \subseteq Entries[d] /\ Entries[d] \subseteq Paths
  BY WorkspaceConstants DEF RollbackInv, WInv, CallOK, WorkspaceTypeOK
<1>1. Accounted(d)'
  <2>1. \A q : Explained(d, q)' = Explained(d, q)
    BY DEF Explained
  <2>2. OwnOutputs(d)' /\ Listed(d)'
    BY <1>0, <2>1 DEF Accounted, OwnOutputs, Listed, Holds
  <2>3. FoundExplained(d)'
    BY <1>0, <2>1 DEF Accounted, FoundExplained
  <2>4. ByDepth(d)'
    BY <1>0 DEF Accounted, ByDepth, Holds
  <2>. QED BY <2>2, <2>3, <2>4 DEF Accounted
<1>2. Busy(d)'
  BY <1>0 DEF Busy, DoneSoFar
<1>3. ASSUME Active(d), ~disturbed'[d]
      PROVE  /\ \A q \in Paths : Exists(q)' = Exists(q)
             /\ \A q : IsDir(q)' = IsDir(q)
  BY <1>3 DEF Exists, IsDir
<1>4. Clear(d)'
  <2>. SUFFICES ASSUME ~disturbed'[d] PROVE Clear(d)'
    BY DEF Clear
  <2>1. CASE Active(d)
    <3>1. \A path \in Paths : Admissible(d, path)' = Admissible(d, path)
      BY <1>3, <2>1 DEF Admissible, ExistingPrefix
    <3>. QED BY <1>0, <1>3, <2>1, <3>1 DEF Clear
  <2>2. CASE ~Active(d)
    BY <1>0, <2>2 DEF Clear, Active
  <2>. QED BY <2>1, <2>2
<1>. QED BY <1>1, <1>2, <1>4

FailureOK(c) == Accounted(c) /\ Busy(c) /\ Clear(c)

LEMMA RollbackInit == WorkspaceInit => RollbackInv
<1>. SUFFICES ASSUME WorkspaceInit PROVE RollbackInv
  OBVIOUS
<1>1. ASSUME NEW c \in Calls PROVE Accounted(c) /\ Busy(c) /\ Clear(c)
  <2>1. pc[c] = "idle" /\ found[c] = {}
    BY DEF WorkspaceInit
  <2>2. \A path \in Paths : entry[path].by # c
    BY WorkspaceConstants DEF WorkspaceInit, Absent
  <2>3. Accounted(c)
    BY <2>1, <2>2 DEF Accounted, OwnOutputs, Listed, Holds, FoundExplained, ByDepth
  <2>. QED BY <2>1, <2>3 DEF Busy, Clear
<1>. QED BY <1>1, WInit DEF RollbackInv

\* The workspace is as it was: the other calls see nothing.
LEMMA QuietForOthers ==
  ASSUME RollbackInv, NEW d \in Calls, entry' = entry,
         pc'[d] = pc[d], todo'[d] = todo[d], open'[d] = open[d], created'[d] = created[d],
         errors'[d] = errors[d], found'[d] = found[d], disturbed'[d] = disturbed[d]
  PROVE  FailureOK(d)'
BY OthersKeepClear DEF FailureOK

\* The checks: nothing is created, and what has been found free stays so
\* unless somebody meets the call.
LEMMA ChecksKeep ==
  ASSUME RollbackInv, WorkspaceTypeOK', NEW c \in Calls, Start(c) \/ Preflight(c) \/ Refuse(c)
  PROVE  \A d \in Calls : FailureOK(d)'
<1>0. WorkspaceTypeOK /\ Accounted(c) /\ Clear(c) /\ NothingYet(c) /\ OpenOwn(c)
  BY DEF RollbackInv, WInv, CallOK
<1>1. entry' = entry /\ open' = open
  BY DEF Start, Preflight, Refuse
<1>2. ASSUME NEW d \in Calls, d # c PROVE FailureOK(d)'
  <2>1. /\ pc'[d] = pc[d] /\ todo'[d] = todo[d] /\ created'[d] = created[d]
        /\ disturbed'[d] = disturbed[d] /\ errors'[d] = errors[d] /\ found'[d] = found[d]
    BY <1>0, <1>2 DEF Start, Preflight, Refuse, Goto, WorkspaceTypeOK, histories
  <2>. QED BY <1>1, <2>1, QuietForOthers
<1>3. OwnOutputs(c)'
  BY <1>0, <1>1 DEF Accounted, OwnOutputs
<1>4. FoundExplained(c)'
  <2>1. CASE Start(c)
    BY <1>0, <2>1 DEF Start, FoundExplained, WorkspaceTypeOK
  <2>2. CASE Preflight(c) \/ Refuse(c)
    BY <1>0, <2>2 DEF Preflight, Refuse, histories, Accounted, FoundExplained, Explained
  <2>. QED BY <2>1, <2>2
<1>5. \A path : Admissible(c, path)' = Admissible(c, path)
  BY <1>1 DEF Admissible, ExistingPrefix, IsDir, Exists
<1>6. \A path : Admissible(c, path) => entry[path].by # c \/ path \notin Paths
  BY WorkspaceConstants DEF Admissible, Exists, RollbackInv, WInv, AbsentUnowned, Absent
<1>7. CASE Start(c)
  <2>1. pc'[c] = "check" /\ todo'[c] = Entries[c]
    BY <1>0, <1>7 DEF Start, Goto, WorkspaceTypeOK
  <2>2. Busy(c)' /\ Clear(c)'
    BY <2>1 DEF Busy, Clear
  <2>3. Accounted(c)'
    BY <1>3, <1>4, <2>1 DEF Accounted, Listed, Holds, ByDepth
  <2>. QED BY <1>2, <2>2, <2>3 DEF FailureOK
<1>8. CASE Refuse(c)
  <2>1. pc'[c] = "refused"
    BY <1>0, <1>8 DEF Refuse, Goto, WorkspaceTypeOK
  <2>2. Busy(c)' /\ Clear(c)'
    BY <2>1 DEF Busy, Clear
  <2>3. Accounted(c)'
    BY <1>3, <1>4, <2>1 DEF Accounted, Listed, Holds, ByDepth
  <2>. QED BY <1>2, <2>2, <2>3 DEF FailureOK
<1>9. CASE Preflight(c)
  <2>1. PICK path \in todo[c] :
          /\ Admissible(c, path)
          /\ IF todo[c] = {path}
               THEN todo' = [todo EXCEPT ![c] = Entries[c]] /\ Goto(c, "create")
               ELSE todo' = [todo EXCEPT ![c] = todo[c] \ {path}] /\ UNCHANGED pc
    BY <1>9 DEF Preflight
  <2>2. pc[c] = "check" /\ created'[c] = <<>> /\ open[c] = {} /\ disturbed' = disturbed
    BY <1>0, <1>9 DEF Preflight, NothingYet, OpenOwn
  <2>3. CASE todo[c] = {path}
    <3>1. pc'[c] = "create" /\ todo'[c] = Entries[c]
      BY <1>0, <2>1, <2>3 DEF Goto, WorkspaceTypeOK
    <3>2. Busy(c)'
      <4>1. Entries[c] # {} /\ Dirs[c] \subseteq Entries[c]
        BY SingleEntries, WorkspaceConstants
      <4>. QED BY <1>1, <2>2, <3>1, <4>1 DEF Busy
    <3>3. Clear(c)'
      <4>. SUFFICES ASSUME ~disturbed[c], NEW q \in Entries[c]
                    PROVE  ~Exists(q) /\ (Parent(q) \notin Dirs[c] => IsDir(Parent(q)))
        BY <1>1, <2>2, <3>1 DEF Clear, Exists, IsDir
      <4>1. Admissible(c, q)
        BY <1>0, <2>1, <2>2, <2>3 DEF Clear
      <4>2. q \in Paths
        BY WorkspaceConstants
      <4>. QED BY <4>1, <4>2, PrefixIsParent DEF Admissible
    <3>4. Accounted(c)'
      <4>1. ASSUME NEW q \in Entries[c] PROVE entry[q].by # c
        <5>1. q \in Paths
          BY WorkspaceConstants
        <5>. QED BY <1>0, <1>6, <2>1, <2>2, <2>3, <5>1 DEF Accounted, Listed
      <4>2. \A q \in Paths : entry'[q].by # c
        BY <1>0, <1>1, <4>1 DEF Accounted, OwnOutputs
      <4>3. Listed(c)' /\ ByDepth(c)'
        BY <2>2, <3>1, <4>2 DEF Listed, Holds, ByDepth
      <4>. QED BY <1>3, <1>4, <4>3 DEF Accounted
    <3>. QED BY <1>2, <3>2, <3>3, <3>4 DEF FailureOK
  <2>4. CASE todo[c] # {path}
    <3>1. pc'[c] = "check" /\ todo'[c] = todo[c] \ {path}
      BY <1>0, <2>1, <2>2, <2>4 DEF WorkspaceTypeOK
    <3>2. Busy(c)' /\ Clear(c)'
      BY <1>0, <1>5, <2>1, <2>2, <3>1 DEF Busy, Clear
    <3>3. Accounted(c)'
      <4>1. \A q \in Entries[c] \ todo'[c] : entry'[q].by # c
        <5>1. Entries[c] \subseteq Paths
          BY WorkspaceConstants
        <5>. QED BY <1>0, <1>1, <1>6, <2>1, <2>2, <3>1, <5>1 DEF Accounted, Listed
      <4>2. Listed(c)' /\ ByDepth(c)'
        BY <3>1, <4>1 DEF Listed, Holds, ByDepth
      <4>. QED BY <1>3, <1>4, <4>2 DEF Accounted
    <3>. QED BY <1>2, <3>2, <3>3 DEF FailureOK
  <2>. QED BY <2>3, <2>4
<1>. QED BY <1>7, <1>8, <1>9

\* An entry appears where there was none, or one of c's own goes: every other
\* call that is under way is met, and what is theirs stays.
LEMMA ChangeForOthers ==
  ASSUME RollbackInv, NEW c \in Calls, NEW d \in Calls, d # c, NEW path \in Paths,
         entry[path].by \in {c, "nobody"}, entry'[path].by \in {c, "nobody"},
         \A q \in Paths : q # path => entry'[q] = entry[q],
         pc'[d] = pc[d], todo'[d] = todo[d], open'[d] = open[d], created'[d] = created[d],
         errors'[d] = errors[d], found'[d] = found[d], Disturb(c)
  PROVE  FailureOK(d)'
<1>1. disturbed'[d] = (disturbed[d] \/ Active(d))
  BY DEF Disturb
<1>2. d # "nobody"
  BY WorkspaceConstants
<1>3. \A q \in Paths : /\ entry'[q].by = d => entry'[q] = entry[q]
                       /\ entry[q].by = d => entry'[q] = entry[q]
  BY <1>2
<1>. QED BY <1>1, <1>3, OthersKeepClear DEF FailureOK

\* The output that has been completed is the deepest of the list so far.
LEMMA RecordAccounts ==
  ASSUME RollbackInv, NEW c \in Calls, NEW path \in todo[c],
         pc[c] \in {"create", "write"}, pc[c] = "write" => open[c] = {path},
         Record(c, path), errors' = errors, found' = found,
         \A q \in todo[c] : Len(path) <= Len(q),
         \A q \in Paths : entry'[q].by = c => entry[q].by = c \/ q = path
  PROVE  Accounted(c)'
<1>0. WorkspaceTypeOK /\ Accounted(c) /\ Busy(c)
  BY DEF RollbackInv, WInv
<1>1. /\ todo'[c] = todo[c] \ {path} /\ path \in Entries[c]
      /\ pc'[c] = IF todo[c] = {path} THEN "done" ELSE "create"
      /\ created'[c] = Append(created[c], path)
  BY <1>0 DEF Record, Goto, WorkspaceTypeOK, Busy
<1>2. /\ DOMAIN created'[c] = 1 .. Len(created[c]) + 1 /\ DOMAIN created[c] = 1 .. Len(created[c])
      /\ Len(created[c]) \in Nat /\ created'[c][Len(created[c]) + 1] = path
      /\ \A i \in DOMAIN created[c] : created'[c][i] = created[c][i] /\ i \in DOMAIN created'[c]
      /\ \A i \in DOMAIN created'[c] : i \in DOMAIN created[c] \/ i = Len(created[c]) + 1
  BY <1>0, <1>1 DEF WorkspaceTypeOK
<1>3. OwnOutputs(c)' /\ FoundExplained(c)'
  BY <1>0, <1>1 DEF Accounted, OwnOutputs, FoundExplained, Explained
<1>4. Listed(c)'
  <2>1. \A q \in Paths : entry[q].by = c => q = path \/ \E i \in DOMAIN created[c] : created[c][i] = q
    BY <1>0 DEF Accounted, Listed, Holds
  <2>2. \E i \in DOMAIN created'[c] : created'[c][i] = path
    BY <1>2
  <2>3. \A q \in Paths : entry'[q].by = c => \E i \in DOMAIN created'[c] : created'[c][i] = q
    BY <1>2, <2>1, <2>2
  <2>. QED BY <1>1, <2>3 DEF Listed
<1>5. ByDepth(c)'
  <2>1. \A i \in DOMAIN created[c], q \in todo[c] : Len(created[c][i]) <= Len(q)
    BY <1>0 DEF Accounted, ByDepth
  <2>2. \A i, j \in DOMAIN created[c] : i < j => Len(created[c][i]) <= Len(created[c][j])
    BY <1>0 DEF Accounted, ByDepth, Holds
  <2>3. ASSUME NEW i \in DOMAIN created'[c], NEW j \in DOMAIN created'[c], i < j
        PROVE  Len(created'[c][i]) <= Len(created'[c][j])
    <3>1. i \in DOMAIN created[c]
      BY <1>2, <2>3
    <3>. QED BY <1>2, <2>1, <2>2, <2>3, <3>1
  <2>4. \A i \in DOMAIN created'[c], q \in todo'[c] : Len(created'[c][i]) <= Len(q)
    BY <1>1, <1>2, <2>1
  <2>. QED BY <1>1, <2>3, <2>4 DEF ByDepth
<1>. QED BY <1>3, <1>4, <1>5 DEF Accounted

LEMMA CreateDirKeeps ==
  ASSUME RollbackInv, NEW c \in Calls, CreateDir(c)
  PROVE  \A d \in Calls : FailureOK(d)'
<1>0. WorkspaceTypeOK /\ WInv /\ Accounted(c) /\ Busy(c) /\ Clear(c) /\ OpenOwn(c)
  BY DEF RollbackInv, WInv, CallOK
<1>1. PICK path \in Dirs[c] :
        /\ path \in todo[c] /\ ~Exists(path) /\ \A q \in todo[c] : Len(path) <= Len(q)
        /\ entry' = [entry EXCEPT ![path] = [kind |-> "dir", by |-> c, full |-> TRUE]]
        /\ Record(c, path)
  BY DEF CreateDir, NextTarget, Creatable
<1>2. path \in Paths /\ Disturb(c) /\ pc[c] = "create" /\ open' = open /\ open[c] = {}
      /\ errors' = errors /\ found' = found
  BY <1>0, <1>1 DEF CreateDir, WorkspaceTypeOK, OpenOwn, histories
<1>3. /\ entry'[path] = [kind |-> "dir", by |-> c, full |-> TRUE]
      /\ \A q \in Paths : q # path => entry'[q] = entry[q]
      /\ entry[path].by = "nobody"
  BY <1>0, <1>1, <1>2 DEF WorkspaceTypeOK, WInv, AbsentUnowned, Exists, Absent
<1>4. ASSUME NEW d \in Calls, d # c PROVE FailureOK(d)'
  <2>1. pc'[d] = pc[d] /\ todo'[d] = todo[d] /\ open'[d] = open[d] /\ created'[d] = created[d]
    BY <1>0, <1>1, <1>2, <1>4 DEF Record, Goto, WorkspaceTypeOK
  <2>. QED BY <1>2, <1>3, <1>4, <2>1, ChangeForOthers
<1>5. /\ todo'[c] = todo[c] \ {path}
      /\ pc'[c] = IF todo[c] = {path} THEN "done" ELSE "create"
      /\ created'[c] = Append(created[c], path)
  BY <1>0, <1>1 DEF Record, Goto, WorkspaceTypeOK
<1>6. /\ DOMAIN created'[c] = 1 .. Len(created[c]) + 1 /\ DOMAIN created[c] = 1 .. Len(created[c])
      /\ Len(created[c]) \in Nat /\ created'[c][Len(created[c]) + 1] = path
      /\ \A i \in DOMAIN created[c] : created'[c][i] = created[c][i] /\ i \in DOMAIN created'[c]
  BY <1>0, <1>2, <1>5 DEF WorkspaceTypeOK
<1>7. Accounted(c)'
  <2>1. \A q \in Paths : entry'[q].by = c => entry[q].by = c \/ q = path
    BY <1>3
  <2>. QED BY <1>1, <1>2, <2>1, RecordAccounts
<1>8. Busy(c)'
  <2>1. \A i \in DOMAIN created'[c] : created'[c][i] \in Entries[c]
    <3>1. \A i \in DOMAIN created'[c] : i \in DOMAIN created[c] \/ i = Len(created[c]) + 1
      BY <1>6
    <3>2. path \in Entries[c] /\ \A i \in DOMAIN created[c] : created[c][i] \in Entries[c]
      BY <1>0, <1>1, <1>2 DEF Busy
    <3>. QED BY <1>6, <3>1, <3>2
  <2>2. \A q \in Dirs[c] \ todo'[c] : entry'[q].kind = "dir"
    BY <1>0, <1>2, <1>3, <1>5, WorkspaceConstants DEF Busy
  <2>3. pc'[c] = "create" => todo'[c] \subseteq Entries[c] /\ todo'[c] # {}
    BY <1>0, <1>2, <1>5, <1>1 DEF Busy
  <2>. QED BY <1>2, <1>5, <2>1, <2>2, <2>3 DEF Busy
<1>9. Clear(c)'
  <2>1. disturbed'[c] = disturbed[c]
    BY <1>0, <1>2 DEF Disturb, WorkspaceTypeOK
  <2>2. \A q : IsDir(q) => IsDir(q)'
    BY <1>3 DEF IsDir
  <2>3. \A q \in Paths : q # path => Exists(q)' = Exists(q)
    BY <1>3 DEF Exists
  <2>4. ASSUME ~disturbed[c], NEW q \in todo'[c]
        PROVE  ~Exists(q)' /\ (Parent(q) \notin Dirs[c] => IsDir(Parent(q))')
    <3>1. q \in todo[c] /\ q # path /\ q \in Paths
      BY <1>0, <1>5 DEF WorkspaceTypeOK
    <3>2. ~Exists(q) /\ (Parent(q) \notin Dirs[c] => IsDir(Parent(q)))
      BY <1>0, <1>2, <2>4, <3>1 DEF Clear
    <3>. QED BY <2>2, <2>3, <3>1, <3>2
  <2>. QED BY <1>5, <2>1, <2>4 DEF Clear
<1>. QED BY <1>4, <1>7, <1>8, <1>9 DEF FailureOK

LEMMA OpenFileKeeps ==
  ASSUME RollbackInv, NEW c \in Calls, OpenFile(c)
  PROVE  \A d \in Calls : FailureOK(d)'
<1>0. WorkspaceTypeOK /\ WInv /\ Accounted(c) /\ Busy(c) /\ Clear(c) /\ OpenOwn(c)
  BY DEF RollbackInv, WInv, CallOK
<1>1. PICK path \in Entries[c] \ Dirs[c] :
        /\ path \in todo[c] /\ ~Exists(path) /\ \A q \in todo[c] : Len(path) <= Len(q)
        /\ entry' = [entry EXCEPT ![path] = [kind |-> "file", by |-> c, full |-> FALSE]]
        /\ open' = [open EXCEPT ![c] = {path}]
  BY DEF OpenFile, NextTarget, Creatable
<1>2. /\ path \in Paths /\ Disturb(c) /\ pc[c] = "create" /\ open[c] = {}
      /\ pc' = [pc EXCEPT ![c] = "write"] /\ todo' = todo /\ created' = created
      /\ errors' = errors /\ found' = found
  BY <1>0, <1>1 DEF OpenFile, Goto, WorkspaceTypeOK, OpenOwn, histories
<1>3. /\ entry'[path] = [kind |-> "file", by |-> c, full |-> FALSE]
      /\ \A q \in Paths : q # path => entry'[q] = entry[q]
      /\ entry[path].by = "nobody"
  BY <1>0, <1>1, <1>2 DEF WorkspaceTypeOK, WInv, AbsentUnowned, Exists, Absent
<1>4. ASSUME NEW d \in Calls, d # c PROVE FailureOK(d)'
  <2>1. pc'[d] = pc[d] /\ todo'[d] = todo[d] /\ open'[d] = open[d] /\ created'[d] = created[d]
    BY <1>0, <1>1, <1>2, <1>4 DEF WorkspaceTypeOK
  <2>. QED BY <1>2, <1>3, <1>4, <2>1, ChangeForOthers
<1>5. pc'[c] = "write" /\ open'[c] = {path}
  BY <1>0, <1>1, <1>2 DEF WorkspaceTypeOK
<1>6. Accounted(c)'
  <2>1. OwnOutputs(c)' /\ FoundExplained(c)'
    BY <1>0, <1>1, <1>2, <1>3 DEF Accounted, OwnOutputs, FoundExplained, Explained
  <2>2. \A q \in Paths : entry[q].by = c => \E i \in DOMAIN created[c] : created[c][i] = q
    BY <1>0, <1>2 DEF Accounted, Listed, Holds
  <2>3. Listed(c)'
    BY <1>2, <1>3, <1>5, <2>2 DEF Listed
  <2>4. ByDepth(c)'
    BY <1>0, <1>1, <1>2, <1>5 DEF Accounted, ByDepth, Holds
  <2>. QED BY <2>1, <2>3, <2>4 DEF Accounted
<1>7. Busy(c)'
  BY <1>0, <1>1, <1>2, <1>3, <1>5, WorkspaceConstants DEF Busy
<1>8. Clear(c)'
  <2>1. disturbed'[c] = disturbed[c]
    BY <1>0, <1>2 DEF Disturb, WorkspaceTypeOK
  <2>2. \A q : IsDir(q) => IsDir(q)'
    <3>1. entry[path].kind # "dir"
      BY <1>1 DEF Exists
    <3>. QED BY <1>3, <3>1 DEF IsDir
  <2>3. \A q \in Paths : q # path => Exists(q)' = Exists(q)
    BY <1>3 DEF Exists
  <2>4. ASSUME ~disturbed[c], NEW q \in todo'[c] \ open'[c]
        PROVE  ~Exists(q)' /\ (Parent(q) \notin Dirs[c] => IsDir(Parent(q))')
    <3>1. q \in todo[c] /\ q # path /\ q \in Paths
      BY <1>0, <1>2, <1>5 DEF WorkspaceTypeOK
    <3>2. ~Exists(q) /\ (Parent(q) \notin Dirs[c] => IsDir(Parent(q)))
      BY <1>0, <1>2, <2>4, <3>1 DEF Clear
    <3>. QED BY <2>2, <2>3, <3>1, <3>2
  <2>. QED BY <1>5, <2>1, <2>4 DEF Clear
<1>. QED BY <1>4, <1>6, <1>7, <1>8 DEF FailureOK

\* The file is whole and, in the same step, listed; no entry comes or goes.
LEMMA WriteFileKeeps ==
  ASSUME RollbackInv, NEW c \in Calls, WriteFile(c)
  PROVE  \A d \in Calls : FailureOK(d)'
<1>0. WorkspaceTypeOK /\ WInv /\ Accounted(c) /\ Busy(c) /\ Clear(c) /\ OpenOwn(c)
  BY DEF RollbackInv, WInv, CallOK
<1>1. PICK path \in open[c] : /\ entry' = [entry EXCEPT ![path].full = TRUE]
                              /\ Record(c, path)
  BY DEF WriteFile
<1>2. /\ path \in Paths /\ path \in todo[c] /\ pc[c] = "write" /\ entry[path].by = c
      /\ open' = [open EXCEPT ![c] = {}] /\ disturbed' = disturbed
      /\ path \notin Dirs[c] /\ open[c] = {path}
      /\ errors' = errors /\ found' = found
  BY <1>0, <1>1 DEF WriteFile, WorkspaceTypeOK, OpenOwn, Busy, histories
<1>3. /\ \A q \in Paths : q # path => entry'[q] = entry[q]
      /\ \A q \in Paths : entry'[q].kind = entry[q].kind
      /\ entry'[path].by = c
  <2>1. entry[path] \in EntryRecord
    BY <1>0, <1>2 DEF WorkspaceTypeOK, EntryRecord
  <2>2. /\ entry'[path] = [entry[path] EXCEPT !.full = TRUE]
        /\ \A q \in Paths : q # path => entry'[q] = entry[q]
    BY <1>0, <1>1, <1>2 DEF WorkspaceTypeOK
  <2>. QED BY <1>2, <2>1, <2>2 DEF EntryRecord
<1>4. ASSUME NEW d \in Calls, d # c PROVE FailureOK(d)'
  <2>1. /\ pc'[d] = pc[d] /\ todo'[d] = todo[d] /\ open'[d] = open[d] /\ created'[d] = created[d]
        /\ disturbed'[d] = disturbed[d] /\ errors'[d] = errors[d] /\ found'[d] = found[d]
    BY <1>0, <1>1, <1>2, <1>4 DEF Record, Goto, WorkspaceTypeOK
  <2>2. \A q \in Paths : /\ entry'[q].by = d => entry'[q] = entry[q]
                         /\ entry[q].by = d => entry'[q] = entry[q]
    BY <1>2, <1>3, <1>4
  <2>. QED BY <1>3, <2>1, <2>2, OthersKeepClear DEF FailureOK
<1>5. /\ todo'[c] = todo[c] \ {path} /\ open'[c] = {}
      /\ pc'[c] = IF todo[c] = {path} THEN "done" ELSE "create"
      /\ created'[c] = Append(created[c], path)
  BY <1>0, <1>1, <1>2 DEF Record, Goto, WorkspaceTypeOK
<1>6. /\ DOMAIN created'[c] = 1 .. Len(created[c]) + 1 /\ DOMAIN created[c] = 1 .. Len(created[c])
      /\ Len(created[c]) \in Nat /\ created'[c][Len(created[c]) + 1] = path
      /\ \A i \in DOMAIN created[c] : created'[c][i] = created[c][i] /\ i \in DOMAIN created'[c]
  BY <1>0, <1>2, <1>5 DEF WorkspaceTypeOK
<1>7. Accounted(c)'
  <2>1. \A q \in Paths : entry'[q].by = c => entry[q].by = c
    BY <1>2, <1>3
  <2>2. \A q \in todo[c] : Len(path) <= Len(q)
    BY <1>0, <1>2 DEF Accounted, ByDepth
  <2>. QED BY <1>1, <1>2, <2>1, <2>2, RecordAccounts
<1>8. Busy(c)'
  <2>1. \A i \in DOMAIN created'[c] : created'[c][i] \in Entries[c]
    <3>1. \A i \in DOMAIN created'[c] : i \in DOMAIN created[c] \/ i = Len(created[c]) + 1
      BY <1>6
    <3>2. path \in Entries[c] /\ \A i \in DOMAIN created[c] : created[c][i] \in Entries[c]
      BY <1>0, <1>2 DEF Busy
    <3>. QED BY <1>6, <3>1, <3>2
  <2>2. \A q \in Dirs[c] \ todo'[c] : entry'[q].kind = "dir"
    BY <1>0, <1>2, <1>3, <1>5, WorkspaceConstants DEF Busy
  <2>3. pc'[c] = "create" => todo'[c] \subseteq Entries[c] /\ todo'[c] # {}
    BY <1>0, <1>2, <1>5 DEF Busy
  <2>. QED BY <1>5, <2>1, <2>2, <2>3 DEF Busy
<1>9. Clear(c)'
  <2>1. \A q : IsDir(q)' = IsDir(q)
    BY <1>3 DEF IsDir
  <2>2. \A q \in Paths : Exists(q)' = Exists(q)
    BY <1>3 DEF Exists
  <2>3. todo'[c] = todo[c] \ open[c] /\ todo[c] \subseteq Paths
    BY <1>0, <1>2, <1>5 DEF WorkspaceTypeOK
  <2>. QED BY <1>0, <1>2, <1>5, <2>1, <2>2, <2>3 DEF Clear
<1>. QED BY <1>4, <1>7, <1>8, <1>9 DEF FailureOK

\* The exception of a call that somebody met.  write_bytes and mkdir take
\* nothing back: their only entry is still to do, so they have listed none.
LEMMA UnwindFails ==
  ASSUME RollbackInv, NEW c \in Calls, pc[c] \in {"create", "write"}, Unwind(c),
         created' = created, found' = found, disturbed'[c], errors[c] \subseteq errors'[c],
         \A q \in Paths : entry'[q].by = c =>
           /\ entry[q].by = c
           /\ (\E i \in DOMAIN created[c] : created[c][i] = q) \/ Explained(c, q)'
  PROVE  FailureOK(c)'
<1>0. WorkspaceTypeOK /\ Accounted(c) /\ Busy(c) /\ DoneSoFar(c)
  BY DEF RollbackInv, WInv, CallOK
<1>1. pc'[c] = IF Method[c] = "publish_many" THEN "undo" ELSE "failed"
  BY <1>0 DEF Unwind, Goto, WorkspaceTypeOK
<1>2. OwnOutputs(c)' /\ FoundExplained(c)'
  BY <1>0 DEF Accounted, OwnOutputs, FoundExplained, Explained
<1>3. ASSUME Method[c] # "publish_many" PROVE DOMAIN created[c] = {}
  <2>1. PICK only \in Paths : Entries[c] = {only}
    BY <1>3, SingleEntries
  <2>2. todo[c] = {only}
    BY <1>0, <2>1 DEF Busy
  <2>. QED BY <1>0, <2>1, <2>2 DEF Busy, DoneSoFar
<1>4. Listed(c)' /\ ByDepth(c)'
  BY <1>0, <1>1, <1>3 DEF Accounted, Listed, ByDepth, Holds
<1>5. Busy(c)' /\ Clear(c)'
  BY <1>1 DEF Busy, Clear
<1>. QED BY <1>2, <1>4, <1>5 DEF FailureOK, Accounted

LEMMA FailuresKeep ==
  ASSUME RollbackInv, NEW c \in Calls,
         CreateFails(c) \/ IOError(c) \/ WriteError(c) \/ NoProgress(c)
  PROVE  \A d \in Calls : FailureOK(d)'
<1>0. WorkspaceTypeOK /\ WInv /\ OpenOwn(c) /\ Accounted(c) /\ Busy(c)
  BY DEF RollbackInv, WInv, CallOK
<1>1. pc[c] \in {"create", "write"} /\ Unwind(c) /\ created' = created /\ todo' = todo /\ found' = found
  BY DEF CreateFails, IOError, WriteError, NoProgress, histories
<1>2. \A d \in Calls : d # c => pc'[d] = pc[d] /\ open'[d] = open[d]
  BY <1>0, <1>1 DEF CreateFails, IOError, WriteError, NoProgress, Unwind, Goto, WorkspaceTypeOK
\* Nothing has been changed but the state of the call.
<1>3. ASSUME pc[c] = "create", entry' = entry, errors' = errors, disturbed'[c],
             \A d \in Calls : d # c => disturbed'[d] = disturbed[d]
      PROVE  \A d \in Calls : FailureOK(d)'
  <2>1. \A q \in Paths : entry[q].by = c => \E i \in DOMAIN created[c] : created[c][i] = q
    BY <1>0, <1>3 DEF Accounted, Listed, Holds
  <2>2. FailureOK(c)'
    BY <1>1, <1>3, <2>1, UnwindFails
  <2>. QED BY <1>1, <1>2, <1>3, <2>2, QuietForOthers
<1>4. CASE CreateFails(c)
  <2>1. pc[c] = "create" /\ entry' = entry /\ disturbed' = disturbed /\ errors' = errors
    BY <1>4 DEF CreateFails, histories
  <2>2. disturbed[c]
    BY <1>4, NextIsCreatable DEF CreateFails
  <2>. QED BY <1>3, <2>1, <2>2
<1>5. CASE IOError(c)
  <2>1. /\ pc[c] = "create" /\ entry' = entry /\ errors' = errors
        /\ disturbed'[c] /\ \A d \in Calls : d # c => disturbed'[d] = disturbed[d]
    BY <1>0, <1>5 DEF IOError, WorkspaceTypeOK, histories
  <2>. QED BY <1>3, <2>1
\* The file it was writing stays with an error at it, or is removed.
<1>6. ASSUME NEW path \in open[c], pc[c] = "write",
             \A q \in Paths : q # path => entry'[q] = entry[q],
             entry'[path].by \in {c, "nobody"}, errors[c] \subseteq errors'[c],
             \/ entry'[path] = Absent
             \/ \E error \in errors'[c] : error.path = path,
             disturbed'[c], \A d \in Calls : disturbed[d] => disturbed'[d],
             \A d \in Calls \ {c} : errors'[d] = errors[d],
             \A d \in Calls \ {c}, q \in Paths :
               Active(d) /\ ~disturbed'[d] => entry'[q].kind = entry[q].kind
      PROVE  \A d \in Calls : FailureOK(d)'
  <2>1. path \in Paths /\ entry[path].by = c /\ open[c] = {path}
    BY <1>0, <1>6 DEF WorkspaceTypeOK, OpenOwn, Busy
  <2>2. FailureOK(c)'
    <3>1. ASSUME NEW q \in Paths, entry'[q].by = c
          PROVE  entry[q].by = c /\ ((\E i \in DOMAIN created[c] : created[c][i] = q) \/ Explained(c, q)')
      <4>1. CASE q = path
        <5>1. entry'[path] # Absent
          BY <3>1, <4>1, WorkspaceConstants DEF Absent
        <5>. QED BY <1>6, <2>1, <4>1, <5>1 DEF Explained
      <4>2. CASE q # path
        BY <1>0, <1>6, <2>1, <3>1, <4>2 DEF Accounted, Listed, Holds
      <4>. QED BY <4>1, <4>2
    <3>. QED BY <1>1, <1>6, <3>1, UnwindFails
  <2>3. ASSUME NEW d \in Calls, d # c PROVE FailureOK(d)'
    <3>1. \A q \in Paths : /\ entry'[q].by = d => entry'[q] = entry[q]
                           /\ entry[q].by = d => entry'[q] = entry[q]
      BY <1>6, <2>1, <2>3, WorkspaceConstants
    <3>2. errors'[d] = errors[d] /\ found'[d] = found[d]
      BY <1>1, <1>6, <2>3
    <3>. QED BY <1>1, <1>2, <1>6, <2>3, <3>1, <3>2, OthersKeepClear DEF FailureOK
  <2>. QED BY <2>2, <2>3
<1>7. CASE WriteError(c)
  <2>1. PICK path \in open[c], whole \in BOOLEAN :
          entry' = [entry EXCEPT ![path].full = whole] /\ ErrorAt(c, "write", path)
    BY <1>7 DEF WriteError
  <2>2. path \in Paths /\ entry[path].by = c /\ pc[c] = "write"
    BY <1>0, <1>7, <2>1 DEF WriteError, WorkspaceTypeOK, OpenOwn
  <2>3. /\ \A q \in Paths : q # path => entry'[q] = entry[q]
        /\ entry'[path].by = c /\ entry'[path].kind = entry[path].kind
    <3>1. entry[path] \in EntryRecord
      BY <1>0, <2>2 DEF WorkspaceTypeOK, EntryRecord
    <3>2. /\ entry'[path] = [entry[path] EXCEPT !.full = whole]
          /\ \A q \in Paths : q # path => entry'[q] = entry[q]
      BY <1>0, <2>1, <2>2 DEF WorkspaceTypeOK
    <3>. QED BY <2>2, <3>1, <3>2 DEF EntryRecord
  <2>4. /\ errors[c] \subseteq errors'[c]
        /\ \E error \in errors'[c] : error.path = path
        /\ \A d \in Calls \ {c} : errors'[d] = errors[d]
    BY <1>0, <2>1, <2>2, ErrorType
  <2>5. disturbed'[c] /\ \A d \in Calls : disturbed[d] => disturbed'[d]
    BY <1>0, <1>7 DEF WriteError, WorkspaceTypeOK
  <2>6. \A q \in Paths : entry'[q].kind = entry[q].kind
    BY <2>3
  <2>7. \A d \in Calls \ {c}, q \in Paths : Active(d) /\ ~disturbed'[d] => entry'[q].kind = entry[q].kind
    BY <2>6
  <2>8. entry'[path].by \in {c, "nobody"}
    BY <2>3
  <2>9. \A q \in Paths : q # path => entry'[q] = entry[q]
    BY <2>3
  <2>. QED BY <1>6, <2>2, <2>4, <2>5, <2>7, <2>8, <2>9
<1>8. CASE NoProgress(c)
  <2>1. PICK path \in open[c] :
          \/ entry' = [entry EXCEPT ![path] = Absent] /\ errors' = errors
          \/ entry' = entry /\ ErrorAt(c, "write", path)
    BY <1>8 DEF NoProgress
  <2>2. path \in Paths /\ entry[path].by = c /\ pc[c] = "write"
    BY <1>0, <1>8, <2>1 DEF NoProgress, WorkspaceTypeOK, OpenOwn
  <2>3. \A d \in Calls : disturbed'[d] = (disturbed[d] \/ d = c \/ (entry' # entry /\ Active(d)))
    BY <1>8 DEF NoProgress
  <2>4. /\ disturbed'[c] /\ \A d \in Calls : disturbed[d] => disturbed'[d]
        /\ \A d \in Calls \ {c}, q \in Paths :
             Active(d) /\ ~disturbed'[d] => entry'[q].kind = entry[q].kind
    BY <2>3
  <2>5. CASE entry' = [entry EXCEPT ![path] = Absent] /\ errors' = errors
    <3>1. entry'[path] = Absent /\ \A q \in Paths : q # path => entry'[q] = entry[q]
      BY <1>0, <2>2, <2>5 DEF WorkspaceTypeOK
    <3>2. entry'[path].by \in {c, "nobody"}
      BY <3>1 DEF Absent
    <3>. QED BY <1>6, <2>2, <2>4, <2>5, <3>1, <3>2
  <2>6. CASE entry' = entry /\ ErrorAt(c, "write", path)
    <3>1. /\ errors[c] \subseteq errors'[c]
          /\ \E error \in errors'[c] : error.path = path
          /\ \A d \in Calls \ {c} : errors'[d] = errors[d]
      BY <1>0, <2>2, <2>6, ErrorType
    <3>2. entry'[path].by \in {c, "nobody"} /\ \A q \in Paths : q # path => entry'[q] = entry[q]
      BY <2>2, <2>6
    <3>. QED BY <1>6, <2>2, <2>4, <3>1, <3>2
  <2>. QED BY <2>1, <2>5, <2>6
<1>. QED BY <1>4, <1>5, <1>7, <1>8

\* The youngest listed entry goes, or stays because a removal reported an
\* error or because something was left in it: of the call's own, only what the
\* call could not remove before, since its list is in the order of depth.
LEMMA RollbackKeeps ==
  ASSUME RollbackInv, NEW c \in Calls, Rollback(c)
  PROVE  \A d \in Calls : FailureOK(d)'
<1>n. PICK n, target : n = Len(created[c]) /\ target = created[c][n]
  OBVIOUS
<1>0. WorkspaceTypeOK /\ Accounted(c) /\ Clear(c) /\ CreatedOwn(c)
  BY DEF RollbackInv, WInv, CallOK
<1>1. /\ pc[c] = "undo" /\ pc' = pc /\ todo' = todo /\ open' = open /\ Disturb(c)
      /\ TakeBack(c, target)
      /\ created'[c] = SubSeq(created[c], 1, n - 1)
      /\ \A d \in Calls \ {c} : created'[d] = created[d]
  BY <1>0, <1>n DEF Rollback, WorkspaceTypeOK
<1>2. /\ n \in Nat \ {0} /\ DOMAIN created[c] = 1 .. n
      /\ \A i \in 1 .. n : created[c][i] \in Paths /\ entry[created[c][i]].by = c
  BY <1>0, <1>1, <1>n DEF Rollback, WorkspaceTypeOK, CreatedOwn, Holds
<1>3. /\ DOMAIN created'[c] = 1 .. n - 1
      /\ \A i \in 1 .. n - 1 : created'[c][i] = created[c][i]
      /\ \A i \in 1 .. n : i = n \/ i \in 1 .. n - 1
  BY <1>0, <1>1, <1>2 DEF WorkspaceTypeOK
<1>4. target \in Paths /\ entry[target].by = c
  BY <1>2, <1>n
<1>5. /\ \A q \in Paths : q # target => entry'[q] = entry[q]
      /\ entry'[target] = Absent \/ entry'[target] = entry[target]
  BY <1>0, <1>1, <1>4 DEF TakeBack, WorkspaceTypeOK
<1>6. /\ errors[c] \subseteq errors'[c] /\ found[c] \subseteq found'[c]
      /\ \A d \in Calls \ {c} : errors'[d] = errors[d] /\ found'[d] = found[d]
  BY <1>0, <1>1 DEF TakeBack, ErrorAt, histories, WorkspaceTypeOK
<1>7. ASSUME NEW d \in Calls, d # c PROVE FailureOK(d)'
  <2>1. entry'[target].by \in {c, "nobody"}
    BY <1>4, <1>5 DEF Absent
  <2>. QED BY <1>1, <1>4, <1>5, <1>6, <1>7, <2>1, ChangeForOthers
<1>8. \A q : Explained(c, q) => Explained(c, q)'
  BY <1>6 DEF Explained
<1>9. \A q \in Paths : entry[q].by = c =>
        (\E i \in 1 .. n : created[c][i] = q) \/ Explained(c, q)
  BY <1>0, <1>1, <1>2 DEF Accounted, Listed, Holds
<1>10. OwnOutputs(c)' /\ ByDepth(c)'
  <2>1. OwnOutputs(c)'
    BY <1>0, <1>5, WorkspaceConstants DEF Accounted, OwnOutputs, Absent
  <2>2. \A i, j \in 1 .. n : i < j => Len(created[c][i]) <= Len(created[c][j])
    BY <1>0, <1>1, <1>2 DEF Accounted, ByDepth, Holds
  <2>3. \A i \in 1 .. n - 1 : i \in 1 .. n
    BY <1>2
  <2>4. ByDepth(c)'
    BY <1>1, <1>3, <2>2, <2>3 DEF ByDepth
  <2>. QED BY <2>1, <2>4
\* What the call owns inside the target it has already tried to remove.
<1>11. ASSUME NEW child \in Inside(target), entry[child].by = c PROVE Explained(c, child)
  <2>1. child \in Paths /\ Parent(child) = target
    BY DEF Inside
  <2>2. child \in Seq(STRING) /\ child # <<>> /\ Len(target) = Len(child) - 1 /\ Len(child) \in Nat
    BY <2>1, WorkspaceConstants DEF Parent
  <2>3. ASSUME NEW i \in 1 .. n, created[c][i] = child PROVE FALSE
    <3>1. i # n
      BY <1>n, <2>2, <2>3
    <3>2. \A j, k \in 1 .. n : j < k => Len(created[c][j]) <= Len(created[c][k])
      BY <1>0, <1>1, <1>2 DEF Accounted, ByDepth, Holds
    <3>3. n \in 1 .. n /\ i < n
      BY <1>2, <3>1
    <3>4. Len(child) <= Len(target)
      BY <1>n, <2>3, <3>2, <3>3
    <3>. QED BY <2>2, <3>4
  <2>. QED BY <1>9, <1>11, <2>1, <2>3
<1>12. FoundExplained(c)'
  <2>. SUFFICES ASSUME NEW thing \in found'[c], thing.by = c PROVE Explained(c, thing.path)
    BY <1>8 DEF FoundExplained
  <2>1. CASE thing \in found[c]
    BY <1>0, <2>1 DEF Accounted, FoundExplained
  <2>2. CASE thing \notin found[c]
    <3>1. found'[c] = found[c] \cup {[path |-> child, by |-> entry[child].by] : child \in Inside(target)}
      BY <1>0, <1>1, <2>2 DEF TakeBack, histories, WorkspaceTypeOK
    <3>2. PICK child \in Inside(target) : thing = [path |-> child, by |-> entry[child].by]
      BY <2>2, <3>1
    <3>. QED BY <1>11, <3>2
  <2>. QED BY <2>1, <2>2
<1>13. entry'[target].by = c => Explained(c, target)'
  <2>1. CASE entry' = [entry EXCEPT ![target] = Absent]
    BY <1>0, <1>4, <2>1, WorkspaceConstants DEF WorkspaceTypeOK, Absent
  <2>2. CASE ErrorAt(c, "remove", target)
    <3>1. \E error \in errors'[c] : error.path = target
      BY <1>0, <1>4, <2>2, ErrorType
    <3>. QED BY <3>1 DEF Explained
  <2>3. CASE /\ ~Removable(target)
             /\ found' = [found EXCEPT ![c] = found[c] \cup
                            {[path |-> child, by |-> entry[child].by] : child \in Inside(target)}]
    <3>1. PICK child \in Inside(target) : TRUE
      BY <2>3 DEF Removable
    <3>2. [path |-> child, by |-> entry[child].by] \in found'[c]
      BY <1>0, <2>3 DEF WorkspaceTypeOK
    <3>3. Parent(child) = target
      BY DEF Inside
    <3>. QED BY <3>2, <3>3 DEF Explained
  <2>. QED BY <1>1, <2>1, <2>2, <2>3 DEF TakeBack
<1>14. Listed(c)'
  <2>. SUFFICES ASSUME NEW q \in Paths, entry'[q].by = c
                PROVE  (\E i \in DOMAIN created'[c] : created'[c][i] = q) \/ Explained(c, q)'
    BY <1>1 DEF Listed
  <2>1. CASE q = target
    BY <1>13, <2>1
  <2>2. CASE q # target
    <3>1. entry[q].by = c
      BY <1>5, <2>2
    <3>2. CASE Explained(c, q)
      BY <1>8, <3>2
    <3>3. ASSUME NEW i \in 1 .. n, created[c][i] = q PROVE \E j \in DOMAIN created'[c] : created'[c][j] = q
      <4>1. i \in 1 .. n - 1
        BY <1>3, <1>n, <2>2, <3>3
      <4>. QED BY <1>3, <3>3, <4>1
    <3>. QED BY <1>9, <3>1, <3>2, <3>3
  <2>. QED BY <2>1, <2>2
<1>15. Busy(c)' /\ Clear(c)'
  <2>1. disturbed[c]
    BY <1>0, <1>1 DEF Clear
  <2>2. disturbed'[c]
    BY <1>1, <2>1 DEF Disturb
  <2>. QED BY <1>1, <2>2 DEF Busy, Clear
<1>. QED BY <1>7, <1>10, <1>12, <1>14, <1>15 DEF FailureOK, Accounted

LEMMA EndsKeep ==
  ASSUME RollbackInv, NEW c \in Calls, RollbackEnds(c) \/ Kill(c)
  PROVE  \A d \in Calls : FailureOK(d)'
<1>0. WorkspaceTypeOK /\ Accounted(c) /\ Clear(c)
  BY DEF RollbackInv, WInv
<1>1. /\ entry' = entry /\ todo' = todo /\ created' = created /\ disturbed' = disturbed
      /\ errors' = errors /\ found' = found
      /\ \A d \in Calls : d # c => pc'[d] = pc[d] /\ open'[d] = open[d]
  BY <1>0 DEF RollbackEnds, Kill, Goto, WorkspaceTypeOK, histories
<1>2. ASSUME NEW d \in Calls, d # c PROVE FailureOK(d)'
  BY <1>1, <1>2, QuietForOthers
<1>3. OwnOutputs(c)' /\ FoundExplained(c)'
  BY <1>0, <1>1 DEF Accounted, OwnOutputs, FoundExplained, Explained
<1>4. CASE RollbackEnds(c)
  <2>1. pc[c] = "undo" /\ pc'[c] = "failed" /\ created[c] = <<>>
    BY <1>0, <1>4 DEF RollbackEnds, Goto, WorkspaceTypeOK
  <2>2. \A q \in Paths : entry[q].by = c => Explained(c, q)
    BY <1>0, <2>1 DEF Accounted, Listed, Holds
  <2>3. Listed(c)' /\ ByDepth(c)'
    BY <1>1, <2>1, <2>2 DEF Listed, Holds, ByDepth, Explained
  <2>4. disturbed'[c]
    BY <1>0, <1>1, <2>1 DEF Clear
  <2>5. Busy(c)' /\ Clear(c)'
    BY <2>1, <2>4 DEF Busy, Clear
  <2>. QED BY <1>2, <1>3, <2>3, <2>5 DEF FailureOK, Accounted
<1>5. CASE Kill(c)
  <2>1. pc'[c] = "killed"
    BY <1>0, <1>5 DEF Kill, Goto, WorkspaceTypeOK
  <2>2. Listed(c)' /\ ByDepth(c)' /\ Busy(c)' /\ Clear(c)'
    BY <2>1 DEF Listed, ByDepth, Holds, Busy, Clear
  <2>. QED BY <1>2, <1>3, <2>2 DEF FailureOK, Accounted
<1>. QED BY <1>4, <1>5

LEMMA RollbackStep == RollbackInv /\ [WorkspaceNext]_wvars => RollbackInv'
<1>. SUFFICES ASSUME RollbackInv, [WorkspaceNext]_wvars PROVE RollbackInv'
  OBVIOUS
<1>1. WInv' /\ WorkspaceTypeOK'
  BY WStep DEF RollbackInv, WInv
<1>2. \A d \in Calls : FailureOK(d)'
  <2>1. CASE UNCHANGED wvars
    BY <2>1, QuietForOthers DEF wvars
  <2>2. CASE WorkspaceNext
    <3>1. PICK c \in Calls : CallStep(c)
      BY <2>2 DEF WorkspaceNext
    <3>. QED BY <1>1, <3>1, ChecksKeep, CreateDirKeeps, OpenFileKeeps, WriteFileKeeps,
                FailuresKeep, RollbackKeeps, EndsKeep DEF CallStep
  <2>. QED BY <2>1, <2>2
<1>. QED BY <1>1, <1>2 DEF RollbackInv, FailureOK

\* A call fails behind its preflight only when another call or a fault met it,
\* and what it then leaves behind is an entry at which an error met it, or a
\* directory in which such an entry or another call's was found: its order of
\* removals leaves nothing, for any number of calls, any sets of outputs and any
\* depth of directories (workspace.py:325-385).
THEOREM RollbacksSound == WorkspaceSpec => []RollbackSound
<1>1. RollbackInv => RollbackSound
  <2>. SUFFICES ASSUME RollbackInv PROVE RollbackSound
    OBVIOUS
  <2>1. LeftoversExplained
    BY WorkspaceConstants DEF RollbackInv, Accounted, Listed, FoundExplained, LeftoversExplained
  <2>2. PreflightDecides
    BY DEF RollbackInv, Clear, PreflightDecides
  <2>. QED BY <2>1, <2>2 DEF RollbackSound
<1>. QED BY RollbackInit, RollbackStep, <1>1, PTL DEF WorkspaceSpec
=============================================================================
