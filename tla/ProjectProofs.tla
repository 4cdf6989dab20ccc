---------------------------- MODULE ProjectProofs ----------------------------
(***************************************************************************)
(* Everything here holds for every value of the constants.                 *)
(*   The board: while no two commands overlap it agrees with the issues    *)
(*     and their pull requests, wherever a command stops; what is in       *)
(*     delivery is bounded however they overlap.                           *)
(*   The forks: recipes are published whole and touch nothing of the user. *)
(*   A graph session: what it shows and saves belongs to what was proposed.*)
(*   The parent runs: a record is truthful and follows every writer.       *)
(*   The runs: what a saved run says of itself, what is shown and exported *)
(*     of it, and what the prerequisite report promised.                   *)
(***************************************************************************)
EXTENDS ProjectQueue, ProjectFork, GraphSession, ProjectParents, ProjectRuns,
        FiniteSetTheorems, SequenceTheorems, TLAPS

----------------------------------------------------------------------------
(* The inductive invariant: what each status stands for, and what a        *)
(* command that is under way has checked and already written.              *)

Items ==
  [status : Statuses, priority : {"", "P0", "P1"}, meta : BOOLEAN, initial : Points \cup {0},
   evidence : BOOLEAN]

QueueTypes ==
  /\ issue \in [Issues -> {"none", "OPEN", "CLOSED"}]
  /\ pull \in [Issues -> {"none", "OPEN", "MERGED"}]
  /\ board \in [Issues -> Items]
  /\ DOMAIN job = Operators

\* Work in delivery is complete, first in line, and open until its merge; work
\* is done once it is closed; a successor can be pulled, or was.
StatusMeans(i) ==
  /\ board[i].status \in ActiveStatuses =>
       /\ issue[i] = "OPEN" \/ (issue[i] = "CLOSED" /\ board[i].status = "Review")
       /\ board[i].meta /\ board[i].priority = "P0" /\ i \in Packets
  /\ board[i].status = "Done" => issue[i] = "CLOSED" /\ board[i].meta
  /\ issue[i] = "CLOSED" => board[i].status \in {"Review", "Done"}
  /\ board[i].status = "Ready" =>
       /\ validate_issue_packet(i) /\ board[i].meta /\ board[i].initial # 0
       /\ board[i].priority \in {"P0", "P1"}

\* The limits of the board.
Limits ==
  /\ \A i, j \in Ready : i = j
  /\ Cardinality(Active) <= WipLimit

\* What `start` has left to do, and what holds meanwhile.
Starting(i, left) ==
  /\ validate_issue_packet(i)
  /\ board[i].status \in {"Ready", "In Progress"}
  /\ board[i].status = "Ready" => Cardinality(Active) < WipLimit
  /\ \/ left = <<Edit("priority", "P0"), Edit("meta", TRUE), Edit("status", "In Progress")>>
     \/ /\ left = <<Edit("meta", TRUE), Edit("status", "In Progress")>>
        /\ board[i].priority = "P0"
     \/ /\ left = <<Edit("status", "In Progress")>>
        /\ board[i].priority = "P0" /\ board[i].meta

Preparing(i, points, left) ==
  /\ validate_issue_packet(i)
  /\ board[i].status \in {"unset", "Backlog", "Blocked", "Ready"}
  /\ Ready \subseteq {i}
  /\ \/ left = PrepareEdits(points)
     \/ /\ left = <<Edit("initial", points), Edit("meta", TRUE), Edit("status", "Ready")>>
        /\ board[i].priority = "P1"
     \/ /\ left = <<Edit("meta", TRUE), Edit("status", "Ready")>>
        /\ board[i].priority = "P1" /\ board[i].initial # 0
     \/ /\ left = <<Edit("status", "Ready")>>
        /\ board[i].priority = "P1" /\ board[i].initial # 0 /\ board[i].meta

Reviewing(i, left) ==
  /\ board[i].status \in ActiveStatuses
  /\ left = <<Edit("status", "Review")>>

Completing(i, left) ==
  /\ issue[i] = "CLOSED" /\ board[i].status = "Review"
  /\ \/ left = <<Edit("evidence", TRUE), Edit("status", "Done")>>
     \/ left = <<Edit("status", "Done")>>

UnderWay(i, left) ==
  \/ Starting(i, left) \/ Reviewing(i, left) \/ Completing(i, left)
  \/ \E points \in Points : Preparing(i, points, left)

Commands ==
  \A o \in Operators :
    job[o] = NoJob \/ \E i \in Issues, left \in {job[o].edits} :
                        job[o] = [items |-> {i}, edits |-> left] /\ UnderWay(i, left)

QueueInv == QueueTypes /\ (\A i \in Issues : StatusMeans(i)) /\ Limits /\ Commands

----------------------------------------------------------------------------
(* What the invariant says about the board.                                *)

\* Only the errors the merge of an issue explains, or its not being linked.
LEMMA AuditExplained ==
  ASSUME QueueInv, NEW error \in audit_state
  PROVE  error[2] \in Pending
<1>1. \A i \in Issues : StatusMeans(i)
  BY DEF QueueInv
<1>2. \A i \in Issues : board[i].status \in Statuses /\ issue[i] \in {"none", "OPEN", "CLOSED"}
  BY DEF QueueInv, QueueTypes, Items
<1>3. project \subseteq Issues /\ Active \subseteq project
  BY DEF project, Active
<1>4. ~(Cardinality(Active) > WipLimit)
  <2>1. IsFiniteSet(Active)
    BY <1>3, FS_Subset, QueueConstants
  <2>2. Cardinality(Active) \in Nat /\ Cardinality(Active) <= WipLimit
    BY <2>1, FS_CardinalityType DEF QueueInv, Limits
  <2>. QED BY <2>2 DEF WipLimit
<1>5. CASE \E i \in Issues \ project : issue[i] = "OPEN" /\ error = <<"missing from Project", i>>
  <2>1. PICK i \in Issues \ project : issue[i] = "OPEN" /\ error = <<"missing from Project", i>>
    BY <1>5
  <2>. QED BY <2>1 DEF Pending
<1>6. CASE \E i \in Active : issue[i] # "OPEN" /\ error = <<"active but not open", i>>
  <2>1. PICK i \in Active : issue[i] # "OPEN" /\ error = <<"active but not open", i>>
    BY <1>6
  <2>2. issue[i] = "CLOSED" /\ board[i].status = "Review" /\ i \in Issues
    BY <1>1, <1>3, <2>1 DEF StatusMeans, Active
  <2>. QED BY <2>1, <2>2 DEF Pending
<1>7. CASE \E i \in project : board[i].status = "Done" /\ issue[i] # "CLOSED"
                              /\ error = <<"Done but open", i>>
  BY <1>1, <1>3, <1>7 DEF StatusMeans
<1>8. CASE \E i \in project : board[i].status # "Done" /\ issue[i] = "CLOSED"
                              /\ error = <<"closed but not Done", i>>
  <2>1. PICK i \in project : board[i].status # "Done" /\ issue[i] = "CLOSED"
                             /\ error = <<"closed but not Done", i>>
    BY <1>8
  <2>2. board[i].status = "Review" /\ i \in Issues
    BY <1>1, <1>3, <2>1 DEF StatusMeans
  <2>. QED BY <2>1, <2>2 DEF Pending
<1>9. CASE \E i \in project : board[i].status \in ActiveStatuses \cup {"Done"} /\ ~board[i].meta
  BY <1>1, <1>3, <1>9 DEF StatusMeans
<1>10. CASE \E i \in Active : i \notin Packets \/ board[i].priority # "P0"
  BY <1>1, <1>3, <1>10 DEF StatusMeans, Active
<1>. QED BY <1>4, <1>5, <1>6, <1>7, <1>8, <1>9, <1>10 DEF audit_state

LEMMA BoardFollows ==
  ASSUME QueueInv
  PROVE  /\ \A error \in audit_state : error[2] \in Pending
         /\ Ready \subseteq pullable_ready_items \cup {i \in Ready : board[i].priority = "P0"}
         /\ Cardinality(Ready) <= 1
<1>1. \A error \in audit_state : error[2] \in Pending
  BY AuditExplained
<1>2. ASSUME NEW i \in Ready PROVE i \in pullable_ready_items \/ board[i].priority = "P0"
  <2>1. i \in Issues /\ board[i].status = "Ready"
    BY DEF Ready, project
  <2>2. StatusMeans(i)
    BY <2>1 DEF QueueInv
  <2>. QED BY <2>1, <2>2 DEF StatusMeans, pullable_ready_items
<1>3. Cardinality(Ready) <= 1
  <2>1. CASE Ready = {}
    <3>1. Cardinality({}) = 0
      BY FS_EmptySet
    <3>. QED BY <2>1, <3>1
  <2>2. CASE Ready # {}
    <3>1. PICK i \in Ready : TRUE
      BY <2>2
    <3>2. Ready = {i}
      BY <3>1 DEF QueueInv, Limits
    <3>3. Cardinality({i}) = 1
      BY FS_Singleton
    <3>. QED BY <3>2, <3>3
  <2>. QED BY <2>1, <2>2
<1>. QED BY <1>1, <1>2, <1>3

LEMMA QueueInitInv == QueueInit => QueueInv
<1>. SUFFICES ASSUME QueueInit PROVE QueueInv
  OBVIOUS
<1>1. QueueTypes
  <2>1. NoItem \in Items
    BY DEF NoItem, Items, Statuses
  <2>. QED BY <2>1 DEF QueueInit, QueueTypes
<1>2. \A i \in Issues : board[i].status = "absent" /\ issue[i] = "none"
  BY DEF QueueInit, NoItem
<1>3. ASSUME NEW i \in Issues PROVE StatusMeans(i)
  BY <1>2 DEF StatusMeans, ActiveStatuses
<1>4. Limits
  <2>1. Ready = {} /\ Active = {}
    BY <1>2 DEF Ready, Active, project
  <2>. QED BY <2>1, FS_EmptySet DEF Limits, WipLimit
<1>5. Commands
  BY DEF QueueInit, Commands
<1>. QED BY <1>1, <1>3, <1>4, <1>5 DEF QueueInv

----------------------------------------------------------------------------
(* What people do on GitHub.                                               *)

\* Steps that leave the board alone.
LEMMA SameBoard ==
  ASSUME UNCHANGED board
  PROVE  project' = project /\ Active' = Active /\ Ready' = Ready
BY DEF project, Active, Ready

LEMMA FileInv == ASSUME QueueInv, NEW i \in Issues, File(i) PROVE QueueInv'
<1>1. /\ issue[i] = "none" /\ issue' = [issue EXCEPT ![i] = "OPEN"]
      /\ UNCHANGED <<pull, board, job>>
  BY DEF File
<1>2. QueueTypes /\ (\A j \in Issues : StatusMeans(j)) /\ Limits /\ Commands
  BY DEF QueueInv
<1>3. QueueTypes'
  BY <1>1, <1>2 DEF QueueTypes
<1>4. ASSUME NEW j \in Issues PROVE issue'[j] = issue[j] \/ (j = i /\ issue'[j] = "OPEN")
  BY <1>1, <1>2 DEF QueueTypes
<1>5. ASSUME NEW j \in Issues PROVE StatusMeans(j)'
  BY <1>1, <1>2, <1>4 DEF StatusMeans, validate_issue_packet
<1>6. Active' = Active /\ Ready' = Ready
  BY <1>1, SameBoard
<1>7. Limits'
  BY <1>2, <1>6 DEF Limits
<1>8. ASSUME NEW j \in Issues, NEW left, UnderWay(j, left) PROVE UnderWay(j, left)'
  BY <1>1, <1>4, <1>6, <1>8
     DEF UnderWay, Starting, Preparing, Reviewing, Completing, validate_issue_packet
<1>9. Commands'
  BY <1>1, <1>2, <1>8 DEF Commands
<1>. QED BY <1>3, <1>5, <1>7, <1>9 DEF QueueInv

LEMMA LinkInv == ASSUME QueueInv, NEW i \in Issues, Link(i) PROVE QueueInv'
<1>1. PICK given \in {"unset", "Backlog", "Blocked"} :
        /\ issue[i] = "OPEN" /\ i \notin project /\ UNCHANGED <<issue, pull, job>>
        /\ board' = [board EXCEPT ![i].status = given]
  BY DEF Link
<1>2. QueueTypes /\ (\A j \in Issues : StatusMeans(j)) /\ Limits /\ Commands
  BY DEF QueueInv
<1>3. /\ board[i].status = "absent" /\ board'[i].status = given
      /\ board' \in [Issues -> Items]
      /\ \A j \in Issues \ {i} : board'[j] = board[j]
  <2>1. board \in [Issues -> Items] /\ \A t \in Items : [t EXCEPT !.status = given] \in Items
    BY <1>2 DEF QueueTypes, Items, Statuses
  <2>2. board[i].status = "absent"
    BY <1>1, <2>1 DEF Items, project
  <2>. QED BY <1>1, <2>1, <2>2 DEF Items
<1>4. QueueTypes'
  BY <1>1, <1>2, <1>3 DEF QueueTypes
<1>5. ASSUME NEW j \in Issues PROVE StatusMeans(j)'
  <2>1. CASE j = i
    BY <1>1, <1>3, <2>1 DEF StatusMeans, ActiveStatuses
  <2>2. CASE j # i
    BY <1>1, <1>2, <1>3, <2>2 DEF StatusMeans, validate_issue_packet
  <2>. QED BY <2>1, <2>2
<1>6. Active' = Active /\ Ready' = Ready
  BY <1>3 DEF Active, Ready, project, ActiveStatuses
<1>7. Limits'
  BY <1>2, <1>6 DEF Limits
<1>8. ASSUME NEW j \in Issues, NEW left, UnderWay(j, left) PROVE UnderWay(j, left)'
  <2>1. j # i
    BY <1>3, <1>8
       DEF UnderWay, Starting, Preparing, Reviewing, Completing, ActiveStatuses
  <2>. QED BY <1>1, <1>3, <1>6, <1>8, <2>1
           DEF UnderWay, Starting, Preparing, Reviewing, Completing, validate_issue_packet
<1>9. Commands'
  BY <1>1, <1>2, <1>8 DEF Commands
<1>. QED BY <1>4, <1>5, <1>7, <1>9 DEF QueueInv

LEMMA OpenPullInv == ASSUME QueueInv, NEW i \in Issues, OpenPull(i) PROVE QueueInv'
<1>1. pull' = [pull EXCEPT ![i] = "OPEN"] /\ UNCHANGED <<issue, board, job>>
  BY DEF OpenPull
<1>2. QueueTypes /\ (\A j \in Issues : StatusMeans(j)) /\ Limits /\ Commands
  BY DEF QueueInv
<1>3. QueueTypes'
  BY <1>1, <1>2 DEF QueueTypes
<1>4. ASSUME NEW j \in Issues PROVE StatusMeans(j)'
  BY <1>1, <1>2 DEF StatusMeans, validate_issue_packet
<1>5. Active' = Active /\ Ready' = Ready
  BY <1>1, SameBoard
<1>6. Limits'
  BY <1>2, <1>5 DEF Limits
<1>7. ASSUME NEW j \in Issues, NEW left, UnderWay(j, left) PROVE UnderWay(j, left)'
  BY <1>1, <1>5, <1>7
     DEF UnderWay, Starting, Preparing, Reviewing, Completing, validate_issue_packet
<1>8. Commands'
  BY <1>1, <1>2, <1>7 DEF Commands
<1>. QED BY <1>3, <1>4, <1>6, <1>8 DEF QueueInv

\* A merge closes an issue in Review, which no command but `review` itself and
\* the later `complete` is working on.
LEMMA MergeInv == ASSUME QueueInv, NEW i \in Issues, Merge(i) PROVE QueueInv'
<1>1. /\ board[i].status = "Review" /\ pull' = [pull EXCEPT ![i] = "MERGED"]
      /\ issue' = [issue EXCEPT ![i] = "CLOSED"] /\ UNCHANGED <<board, job>>
  BY DEF Merge
<1>2. QueueTypes /\ (\A j \in Issues : StatusMeans(j)) /\ Limits /\ Commands
  BY DEF QueueInv
<1>3. QueueTypes'
  BY <1>1, <1>2 DEF QueueTypes
<1>4. issue'[i] = "CLOSED" /\ \A j \in Issues \ {i} : issue'[j] = issue[j]
  BY <1>1, <1>2 DEF QueueTypes
<1>5. ASSUME NEW j \in Issues PROVE StatusMeans(j)'
  BY <1>1, <1>2, <1>4 DEF StatusMeans, validate_issue_packet, ActiveStatuses
<1>6. Active' = Active /\ Ready' = Ready
  BY <1>1, SameBoard
<1>7. Limits'
  BY <1>2, <1>6 DEF Limits
<1>8. ASSUME NEW j \in Issues, NEW left, UnderWay(j, left) PROVE UnderWay(j, left)'
  BY <1>1, <1>4, <1>6, <1>8
     DEF UnderWay, Starting, Preparing, Reviewing, Completing, validate_issue_packet
<1>9. Commands'
  BY <1>1, <1>2, <1>8 DEF Commands
<1>. QED BY <1>3, <1>5, <1>7, <1>9 DEF QueueInv

----------------------------------------------------------------------------
(* The commands.                                                           *)

LEMMA BeginInv ==
  ASSUME QueueInv, NEW o \in Operators, NEW i \in Issues, NEW plan, Begin(o, i, plan),
         UnderWay(i, plan)
  PROVE  QueueInv'
<1>1. /\ job' = [job EXCEPT ![o] = [items |-> {i}, edits |-> plan]]
      /\ UNCHANGED <<issue, pull, board>>
  BY DEF Begin
<1>2. QueueTypes /\ (\A j \in Issues : StatusMeans(j)) /\ Limits /\ Commands
  BY DEF QueueInv
<1>3. QueueTypes'
  BY <1>1, <1>2 DEF QueueTypes
<1>4. ASSUME NEW j \in Issues PROVE StatusMeans(j)'
  BY <1>1, <1>2 DEF StatusMeans, validate_issue_packet
<1>5. Active' = Active /\ Ready' = Ready
  BY <1>1, SameBoard
<1>6. Limits'
  BY <1>2, <1>5 DEF Limits
<1>7. ASSUME NEW j \in Issues, NEW left, UnderWay(j, left) PROVE UnderWay(j, left)'
  BY <1>1, <1>5, <1>7
     DEF UnderWay, Starting, Preparing, Reviewing, Completing, validate_issue_packet
<1>8. ASSUME NEW p \in Operators
      PROVE  job'[p] = NoJob \/ \E j \in Issues, left \in {job'[p].edits} :
                                   job'[p] = [items |-> {j}, edits |-> left] /\ UnderWay(j, left)'
  <2>1. CASE p = o
    <3>1. job'[p] = [items |-> {i}, edits |-> plan]
      BY <1>1, <1>2, <2>1 DEF QueueTypes
    <3>2. UnderWay(i, plan)'
      BY <1>7
    <3>3. job'[p].edits = plan
      BY <3>1
    <3>. QED BY <3>1, <3>2, <3>3, Zenon
  <2>2. CASE p # o
    <3>1. job'[p] = job[p]
      BY <1>1, <1>2, <2>2 DEF QueueTypes
    <3>. QED BY <1>2, <1>7, <3>1 DEF Commands
  <2>. QED BY <2>1, <2>2
<1>9. Commands'
  BY <1>8 DEF Commands
<1>. QED BY <1>3, <1>4, <1>6, <1>9 DEF QueueInv

LEMMA BeginsInv ==
  ASSUME QueueInv, NEW o \in Operators, NEW i \in Issues,
         \/ start(o, i) \/ review(o, i) \/ complete(o, i)
         \/ \E points \in Points, unblocked \in BOOLEAN : prepare(o, i, points, unblocked)
  PROVE  QueueInv'
<1>1. CASE start(o, i)
  <2>1. Starting(i, <<Edit("priority", "P0"), Edit("meta", TRUE), Edit("status", "In Progress")>>)
    BY <1>1 DEF start, CanStart, Starting
  <2>. QED BY <1>1, <2>1, BeginInv DEF start, UnderWay
<1>2. CASE review(o, i)
  <2>1. Reviewing(i, <<Edit("status", "Review")>>)
    BY <1>2 DEF review, Reviewing
  <2>. QED BY <1>2, <2>1, BeginInv DEF review, UnderWay
<1>3. CASE complete(o, i)
  <2>1. Completing(i, <<Edit("evidence", TRUE), Edit("status", "Done")>>)
    BY <1>3 DEF complete, CanComplete, Completing, validate_closed_issue_packet
  <2>. QED BY <1>3, <2>1, BeginInv DEF complete, UnderWay
<1>4. ASSUME NEW points \in Points, NEW unblocked \in BOOLEAN, prepare(o, i, points, unblocked)
      PROVE  QueueInv'
  <2>1. Preparing(i, points, PrepareEdits(points))
    BY <1>4 DEF prepare, Preparing
  <2>. QED BY <1>4, <2>1, BeginInv DEF prepare, UnderWay
<1>. QED BY <1>1, <1>2, <1>3, <1>4

\* One field of one item is written.
Edited(i, field, value) ==
  /\ UNCHANGED <<issue, pull>>
  /\ board' = [j \in Issues |-> IF j = i THEN [board[i] EXCEPT ![field] = value] ELSE board[j]]

\* A field other than the status: no item moves.
LEMMA FieldEdited ==
  ASSUME QueueInv, NEW i \in Issues, NEW field, NEW value, Edited(i, field, value),
         \/ field = "priority" /\ value \in {"P0", "P1"}
         \/ field \in {"meta", "evidence"} /\ value = TRUE
         \/ field = "initial" /\ value \in Points
  PROVE  /\ board' \in [Issues -> Items]
         /\ Active' = Active /\ Ready' = Ready
         /\ \A j \in Issues \ {i} : board'[j] = board[j]
         /\ board'[i].status = board[i].status
         /\ field = "priority" => board'[i].priority = value
         /\ field # "priority" => board'[i].priority = board[i].priority
         /\ field = "initial" => board'[i].initial = value
         /\ field # "initial" => board'[i].initial = board[i].initial
         /\ board[i].meta => board'[i].meta
         /\ field = "meta" => board'[i].meta
<1>1. board[i] \in Items /\ board \in [Issues -> Items]
  BY DEF QueueInv, QueueTypes
<1>2. \A j \in Issues \ {i} : board'[j] = board[j]
  BY DEF Edited
<1>3. board'[i] = [board[i] EXCEPT ![field] = value]
  BY DEF Edited
<1>4. CASE field = "priority" /\ value \in {"P0", "P1"}
  <2>1. board'[i] = [board[i] EXCEPT !.priority = value]
    BY <1>3, <1>4
  <2>2. /\ board'[i] \in Items /\ board'[i].status = board[i].status
        /\ board'[i].priority = value /\ board'[i].initial = board[i].initial
        /\ board'[i].meta = board[i].meta
    BY <1>1, <1>4, <2>1 DEF Items
  <2>3. board' \in [Issues -> Items]
    BY <1>1, <1>2, <2>2 DEF Edited
  <2>4. Active' = Active /\ Ready' = Ready
    BY <1>2, <2>2 DEF Active, Ready, project
  <2>. QED BY <1>2, <1>4, <2>2, <2>3, <2>4
<1>5. CASE field = "meta" /\ value = TRUE
  <2>1. board'[i] = [board[i] EXCEPT !.meta = TRUE]
    BY <1>3, <1>5
  <2>2. /\ board'[i] \in Items /\ board'[i].status = board[i].status
        /\ board'[i].priority = board[i].priority /\ board'[i].initial = board[i].initial
        /\ board'[i].meta = TRUE
    BY <1>1, <2>1 DEF Items
  <2>3. board' \in [Issues -> Items]
    BY <1>1, <1>2, <2>2 DEF Edited
  <2>4. Active' = Active /\ Ready' = Ready
    BY <1>2, <2>2 DEF Active, Ready, project
  <2>. QED BY <1>2, <1>5, <2>2, <2>3, <2>4
<1>6. CASE field = "evidence" /\ value = TRUE
  <2>1. board'[i] = [board[i] EXCEPT !.evidence = TRUE]
    BY <1>3, <1>6
  <2>2. /\ board'[i] \in Items /\ board'[i].status = board[i].status
        /\ board'[i].priority = board[i].priority /\ board'[i].initial = board[i].initial
        /\ board'[i].meta = board[i].meta
    BY <1>1, <2>1 DEF Items
  <2>3. board' \in [Issues -> Items]
    BY <1>1, <1>2, <2>2 DEF Edited
  <2>4. Active' = Active /\ Ready' = Ready
    BY <1>2, <2>2 DEF Active, Ready, project
  <2>. QED BY <1>2, <1>6, <2>2, <2>3, <2>4
<1>7. CASE field = "initial" /\ value \in Points
  <2>1. board'[i] = [board[i] EXCEPT !.initial = value]
    BY <1>3, <1>7
  <2>2. /\ board'[i] \in Items /\ board'[i].status = board[i].status
        /\ board'[i].priority = board[i].priority /\ board'[i].initial = value
        /\ board'[i].meta = board[i].meta
    BY <1>1, <1>7, <2>1 DEF Items
  <2>3. board' \in [Issues -> Items]
    BY <1>1, <1>2, <2>2 DEF Edited
  <2>4. Active' = Active /\ Ready' = Ready
    BY <1>2, <2>2 DEF Active, Ready, project
  <2>. QED BY <1>2, <1>7, <2>2, <2>3, <2>4
<1>. QED BY <1>4, <1>5, <1>6, <1>7

LEMMA MetaEdited ==
  ASSUME QueueInv, NEW i \in Issues, NEW value, Edited(i, "meta", value)
  PROVE  board'[i].priority = board[i].priority /\ board'[i].initial = board[i].initial
<1>1. board[i] \in Items
  BY DEF QueueInv, QueueTypes
<1>2. board'[i] = [board[i] EXCEPT !.meta = value]
  BY DEF Edited
<1>. QED BY <1>1, <1>2 DEF Items

\* The status: the item moves, the others stay.
LEMMA StatusEdited ==
  ASSUME QueueInv, NEW i \in Issues, NEW value \in Statuses \ {"absent"},
         Edited(i, "status", value)
  PROVE  /\ board' \in [Issues -> Items]
         /\ \A j \in Issues \ {i} : board'[j] = board[j]
         /\ board'[i].status = value /\ board'[i].priority = board[i].priority
         /\ board'[i].initial = board[i].initial /\ board'[i].meta = board[i].meta
         /\ Ready' = IF value = "Ready" THEN Ready \cup {i} ELSE Ready \ {i}
         /\ Active' = IF value \in ActiveStatuses THEN Active \cup {i} ELSE Active \ {i}
<1>1. board[i] \in Items /\ board \in [Issues -> Items]
  BY DEF QueueInv, QueueTypes
<1>2. \A j \in Issues \ {i} : board'[j] = board[j]
  BY DEF Edited
<1>3. board'[i] = [board[i] EXCEPT !.status = value]
  BY DEF Edited
<1>4. /\ board'[i] \in Items /\ board'[i].status = value
      /\ board'[i].priority = board[i].priority /\ board'[i].initial = board[i].initial
      /\ board'[i].meta = board[i].meta
  BY <1>1, <1>3 DEF Items
<1>5. board' \in [Issues -> Items]
  BY <1>1, <1>2, <1>4 DEF Edited
<1>6. Ready' = IF value = "Ready" THEN Ready \cup {i} ELSE Ready \ {i}
  BY <1>2, <1>4 DEF Ready, project
<1>7. Active' = IF value \in ActiveStatuses THEN Active \cup {i} ELSE Active \ {i}
  BY <1>2, <1>4 DEF Active, project
<1>. QED BY <1>2, <1>4, <1>5, <1>6, <1>7

\* What the edit of a field other than the status leaves as it was.
LEMMA FieldKeeps ==
  ASSUME QueueInv, NEW i \in Issues, NEW field, NEW value, Edited(i, field, value),
         \/ field = "priority" /\ value \in {"P0", "P1"}
         \/ field \in {"meta", "evidence"} /\ value = TRUE
         \/ field = "initial" /\ value \in Points,
         board[i].status \in ActiveStatuses /\ field = "priority" => value = "P0",
         DOMAIN job' = Operators
  PROVE  QueueTypes' /\ (\A j \in Issues : StatusMeans(j)') /\ Limits'
<1>1. /\ board' \in [Issues -> Items]
      /\ Active' = Active /\ Ready' = Ready
      /\ \A j \in Issues \ {i} : board'[j] = board[j]
      /\ board'[i].status = board[i].status
      /\ field = "priority" => board'[i].priority = value
      /\ field # "priority" => board'[i].priority = board[i].priority
      /\ field = "initial" => board'[i].initial = value
      /\ field # "initial" => board'[i].initial = board[i].initial
      /\ board[i].meta => board'[i].meta
      /\ field = "meta" => board'[i].meta
  BY FieldEdited
<1>2. UNCHANGED <<issue, pull>>
  BY DEF Edited
<1>3. QueueTypes /\ (\A j \in Issues : StatusMeans(j)) /\ Limits
  BY DEF QueueInv
<1>4. StatusMeans(i)'
  <2>1. field = "priority" => value \in {"P0", "P1"}
    OBVIOUS
  <2>2. field = "initial" => value # 0
    BY QueueConstants
  <2>3. StatusMeans(i)
    BY <1>3
  <2>. QED BY <1>1, <1>2, <2>1, <2>2, <2>3 DEF StatusMeans, validate_issue_packet
<1>5. ASSUME NEW j \in Issues \ {i} PROVE StatusMeans(j)'
  BY <1>1, <1>2, <1>3 DEF StatusMeans, validate_issue_packet
<1>6. Limits'
  BY <1>1, <1>3 DEF Limits
<1>7. QueueTypes'
  BY <1>1, <1>2, <1>3 DEF QueueTypes
<1>. QED BY <1>4, <1>5, <1>6, <1>7

\* The edit that is made is the first of those left; the others remain.
Progress(o, i, left) ==
  /\ Edited(i, Head(left).field, Head(left).value)
  /\ job'[o] = IF Len(left) = 1 THEN NoJob ELSE [items |-> {i}, edits |-> Tail(left)]

LEMMA LastEdit ==
  ASSUME NEW o, NEW i, NEW f, NEW v, NEW left,
         left = <<Edit(f, v)>>, Progress(o, i, left)
  PROVE  Edited(i, f, v) /\ job'[o] = NoJob
BY DEF Progress, Edited, Edit

\* No other operator's command is under way after the step.
AloneAfter(o) == \A p \in Operators \ {o} : job'[p] = NoJob

\* The command goes on with its remaining edits, or is done.
LEMMA GoesOn ==
  ASSUME NEW o \in Operators, AloneAfter(o), NEW i \in Issues,
         QueueTypes' /\ (\A j \in Issues : StatusMeans(j)') /\ Limits',
         NEW rest, \/ job'[o] = NoJob
                   \/ job'[o] = [items |-> {i}, edits |-> rest] /\ UnderWay(i, rest)'
  PROVE  QueueInv'
<1>1. ASSUME NEW p \in Operators
      PROVE  job'[p] = NoJob \/ \E j \in Issues, left \in {job'[p].edits} :
                                   job'[p] = [items |-> {j}, edits |-> left] /\ UnderWay(j, left)'
  <2>1. CASE p # o
    BY <2>1 DEF AloneAfter
  <2>. QED BY <2>1
<1>2. Commands'
  BY <1>1 DEF Commands
<1>. QED BY <1>2 DEF QueueInv

LEMMA StartEdit ==
  ASSUME QueueInv, NEW o \in Operators, AloneAfter(o), NEW i \in Issues,
         NEW left, Starting(i, left), Progress(o, i, left),
         DOMAIN job' = Operators
  PROVE  QueueInv'
<1>1. CASE left = <<Edit("priority", "P0"), Edit("meta", TRUE), Edit("status", "In Progress")>>
  <2>1. /\ Edited(i, "priority", "P0")
        /\ job'[o] = [items |-> {i}, edits |-> <<Edit("meta", TRUE), Edit("status", "In Progress")>>]
    <3>1. PICK b, c : b = Edit("meta", TRUE) /\ c = Edit("status", "In Progress")
      OBVIOUS
    <3>2. left = <<Edit("priority", "P0"), b, c>>
      BY <1>1, <3>1
    <3>3. Edited(i, "priority", "P0") /\ job'[o] = [items |-> {i}, edits |-> <<b, c>>]
      BY <3>2 DEF Progress, Edited, Edit
    <3>. QED BY <3>1, <3>3
  <2>2. (\A j \in Issues : StatusMeans(j)') /\ Limits' /\ QueueTypes'
    BY <2>1, FieldKeeps
  <2>3. /\ board'[i].status = board[i].status /\ board'[i].priority = "P0" /\ Active' = Active
        /\ UNCHANGED issue
    <3>1. UNCHANGED issue
      BY <2>1 DEF Edited
    <3>2. /\ Active' = Active /\ board'[i].status = board[i].status
          /\ "priority" = "priority" => board'[i].priority = "P0"
      BY <2>1, FieldEdited, ZenonT(60)
    <3>. QED BY <3>1, <3>2
  <2>4. Starting(i, <<Edit("meta", TRUE), Edit("status", "In Progress")>>)'
    BY <2>3 DEF Starting, validate_issue_packet
  <2>. QED BY <2>1, <2>2, <2>4, GoesOn DEF UnderWay
<1>2. CASE left = <<Edit("meta", TRUE), Edit("status", "In Progress")>> /\ board[i].priority = "P0"
  <2>0. PICK yes : yes = TRUE
    OBVIOUS
  <2>1. /\ Edited(i, "meta", yes)
        /\ job'[o] = [items |-> {i}, edits |-> <<Edit("status", "In Progress")>>]
    <3>1. PICK b : b = Edit("status", "In Progress")
      OBVIOUS
    <3>2. left = <<Edit("meta", yes), b>>
      BY <1>2, <2>0, <3>1
    <3>3. Edited(i, "meta", yes) /\ job'[o] = [items |-> {i}, edits |-> <<b>>]
      BY <3>2 DEF Progress, Edited, Edit
    <3>. QED BY <3>1, <3>3
  <2>2. (\A j \in Issues : StatusMeans(j)') /\ Limits' /\ QueueTypes'
    BY <2>0, <2>1, FieldKeeps
  <2>3. /\ board'[i].status = board[i].status /\ board'[i].priority = "P0" /\ Active' = Active
        /\ board'[i].meta /\ UNCHANGED issue
    <3>1. UNCHANGED issue
      BY <2>1 DEF Edited
    <3>2. Active' = Active /\ board'[i].status = board[i].status
      BY <2>0, <2>1, FieldEdited
    <3>3. board'[i].priority = board[i].priority
      BY <2>1, MetaEdited
    <3>4. board'[i].meta
      BY <2>0, <2>1, FieldEdited
    <3>. QED BY <1>2, <3>1, <3>2, <3>3, <3>4
  <2>4. Starting(i, <<Edit("status", "In Progress")>>)'
    BY <2>3 DEF Starting, validate_issue_packet
  <2>. QED BY <2>1, <2>2, <2>4, GoesOn DEF UnderWay
<1>3. CASE /\ left = <<Edit("status", "In Progress")>>
           /\ board[i].priority = "P0" /\ board[i].meta
  <2>1. Edited(i, "status", "In Progress") /\ job'[o] = NoJob
    BY <1>3, LastEdit
  <2>2. /\ board' \in [Issues -> Items] /\ UNCHANGED <<issue, pull>>
        /\ \A j \in Issues \ {i} : board'[j] = board[j]
        /\ board'[i].status = "In Progress" /\ board'[i].priority = "P0" /\ board'[i].meta
        /\ Ready' = Ready \ {i} /\ Active' = Active \cup {i}
    <3>1. UNCHANGED <<issue, pull>>
      BY <2>1 DEF Edited
    <3>2. "In Progress" \in Statuses \ {"absent"} /\ "In Progress" \in ActiveStatuses
      BY DEF Statuses, ActiveStatuses
    <3>. QED BY <1>3, <2>1, <3>1, <3>2, StatusEdited
  <2>3. QueueTypes /\ (\A j \in Issues : StatusMeans(j)) /\ Limits
    BY DEF QueueInv
  <2>4. StatusMeans(i)'
    BY <2>2 DEF StatusMeans, Starting, validate_issue_packet
  <2>5. ASSUME NEW j \in Issues \ {i} PROVE StatusMeans(j)'
    BY <2>2, <2>3 DEF StatusMeans, validate_issue_packet
  <2>6. Cardinality(Active \cup {i}) <= WipLimit
    <3>1. IsFiniteSet(Active)
      BY FS_Subset, QueueConstants DEF Active, project
    <3>2. CASE i \in Active
      <4>1. Active \cup {i} = Active
        BY <3>2
      <4>. QED BY <2>3, <4>1 DEF Limits
    <3>3. CASE i \notin Active
      <4>1. board[i].status = "Ready"
        BY <3>3 DEF Starting, Active, project, ActiveStatuses
      <4>2. Cardinality(Active \cup {i}) = Cardinality(Active) + 1 /\ Cardinality(Active) \in Nat
        BY <3>1, <3>3, FS_AddElement, FS_CardinalityType
      <4>3. Cardinality(Active) < WipLimit
        BY <4>1 DEF Starting
      <4>. QED BY <4>2, <4>3 DEF WipLimit
    <3>. QED BY <3>2, <3>3
  <2>7. Limits'
    BY <2>2, <2>3, <2>6 DEF Limits, WipLimit
  <2>8. QueueTypes'
    BY <2>2, <2>3 DEF QueueTypes
  <2>. QED BY <2>1, <2>4, <2>5, <2>7, <2>8, GoesOn
<1>. QED BY <1>1, <1>2, <1>3 DEF Starting

LEMMA PrepareEdit ==
  ASSUME QueueInv, NEW o \in Operators, AloneAfter(o), NEW i \in Issues,
         NEW points \in Points, NEW left, Preparing(i, points, left), Progress(o, i, left),
         DOMAIN job' = Operators
  PROVE  QueueInv'
<1>1. PICK yes : yes = TRUE
  OBVIOUS
<1>2. PICK initial, meta, ready :
        /\ initial = Edit("initial", points) /\ meta = Edit("meta", yes)
        /\ ready = Edit("status", "Ready")
  OBVIOUS
<1>3. board[i].status \notin ActiveStatuses
  BY DEF Preparing, ActiveStatuses
<1>4. CASE left = PrepareEdits(points)
  <2>1. left = <<Edit("priority", "P1"), initial, meta, ready>>
    BY <1>1, <1>2, <1>4 DEF PrepareEdits
  <2>2. Edited(i, "priority", "P1") /\ job'[o] = [items |-> {i}, edits |-> <<initial, meta, ready>>]
    BY <2>1 DEF Progress, Edited, Edit
  <2>3. (\A j \in Issues : StatusMeans(j)') /\ Limits' /\ QueueTypes'
    BY <1>3, <2>2, FieldKeeps
  <2>4. board'[i].status = board[i].status /\ board'[i].priority = "P1" /\ Ready' = Ready
    <3>1. /\ Ready' = Ready /\ board'[i].status = board[i].status
          /\ "priority" = "priority" => board'[i].priority = "P1"
      BY <2>2, FieldEdited, ZenonT(60)
    <3>. QED BY <3>1
  <2>5. UNCHANGED issue
    BY <2>2 DEF Edited
  <2>6. Preparing(i, points, <<initial, meta, ready>>)'
    BY <1>1, <1>2, <2>4, <2>5 DEF Preparing, validate_issue_packet
  <2>. QED BY <2>2, <2>3, <2>6, GoesOn DEF UnderWay
<1>5. CASE /\ left = <<Edit("initial", points), Edit("meta", TRUE), Edit("status", "Ready")>>
           /\ board[i].priority = "P1"
  <2>1. left = <<Edit("initial", points), meta, ready>>
    BY <1>1, <1>2, <1>5
  <2>2. Edited(i, "initial", points) /\ job'[o] = [items |-> {i}, edits |-> <<meta, ready>>]
    BY <2>1 DEF Progress, Edited, Edit
  <2>3. (\A j \in Issues : StatusMeans(j)') /\ Limits' /\ QueueTypes'
    BY <2>2, FieldKeeps
  <2>4. board'[i].status = board[i].status /\ board'[i].initial = points /\ Ready' = Ready
    <3>1. /\ Ready' = Ready /\ board'[i].status = board[i].status
          /\ "initial" = "initial" => board'[i].initial = points
      BY <2>2, FieldEdited, ZenonT(60)
    <3>. QED BY <3>1
  <2>5. board'[i].priority = board[i].priority
    <3>1. "initial" # "priority" => board'[i].priority = board[i].priority
      BY <2>2, FieldEdited, Zenon
    <3>. QED BY <3>1
  <2>6. UNCHANGED issue
    BY <2>2 DEF Edited
  <2>7. Preparing(i, points, <<meta, ready>>)'
    BY <1>1, <1>2, <1>5, <2>4, <2>5, <2>6, QueueConstants DEF Preparing, validate_issue_packet
  <2>. QED BY <2>2, <2>3, <2>7, GoesOn DEF UnderWay
<1>6. CASE /\ left = <<Edit("meta", TRUE), Edit("status", "Ready")>>
           /\ board[i].priority = "P1" /\ board[i].initial # 0
  <2>1. left = <<Edit("meta", yes), ready>>
    BY <1>1, <1>2, <1>6
  <2>2. Edited(i, "meta", yes) /\ job'[o] = [items |-> {i}, edits |-> <<ready>>]
    BY <2>1 DEF Progress, Edited, Edit
  <2>3. (\A j \in Issues : StatusMeans(j)') /\ Limits' /\ QueueTypes'
    BY <1>1, <2>2, FieldKeeps
  <2>4. board'[i].status = board[i].status /\ Ready' = Ready
    BY <1>1, <2>2, FieldEdited
  <2>5. board'[i].meta
    BY <1>1, <2>2, FieldEdited
  <2>6. board'[i].priority = board[i].priority /\ board'[i].initial = board[i].initial
    BY <2>2, MetaEdited
  <2>7. UNCHANGED issue
    BY <2>2 DEF Edited
  <2>8. Preparing(i, points, <<ready>>)'
    BY <1>2, <1>6, <2>4, <2>5, <2>6, <2>7 DEF Preparing, validate_issue_packet
  <2>. QED BY <2>2, <2>3, <2>8, GoesOn DEF UnderWay
<1>7. CASE /\ left = <<Edit("status", "Ready")>>
           /\ board[i].priority = "P1" /\ board[i].initial # 0 /\ board[i].meta
  <2>1. Edited(i, "status", "Ready") /\ job'[o] = NoJob
    BY <1>7, LastEdit
  <2>2. "Ready" \in Statuses \ {"absent"} /\ "Ready" \notin ActiveStatuses
    BY DEF Statuses, ActiveStatuses
  <2>3. /\ board' \in [Issues -> Items]
        /\ \A j \in Issues \ {i} : board'[j] = board[j]
        /\ board'[i].status = "Ready" /\ board'[i].priority = "P1" /\ board'[i].meta
        /\ board'[i].initial # 0
        /\ Ready' = Ready \cup {i} /\ Active' = Active \ {i}
    BY <1>7, <2>1, <2>2, StatusEdited
  <2>4. UNCHANGED <<issue, pull>>
    BY <2>1 DEF Edited
  <2>5. QueueTypes /\ (\A j \in Issues : StatusMeans(j)) /\ Limits
    BY DEF QueueInv
  <2>6. StatusMeans(i)'
    BY <2>2, <2>3, <2>4 DEF StatusMeans, Preparing, validate_issue_packet
  <2>7. ASSUME NEW j \in Issues \ {i} PROVE StatusMeans(j)'
    BY <2>3, <2>4, <2>5 DEF StatusMeans, validate_issue_packet
  <2>8. Active' = Active /\ Ready' = {i}
    BY <1>3, <2>3 DEF Active, Preparing
  <2>9. Limits'
    BY <2>5, <2>8 DEF Limits
  <2>10. QueueTypes'
    BY <2>3, <2>4, <2>5 DEF QueueTypes
  <2>. QED BY <2>1, <2>6, <2>7, <2>9, <2>10, GoesOn
<1>. QED BY <1>4, <1>5, <1>6, <1>7 DEF Preparing

LEMMA ReviewEdit ==
  ASSUME QueueInv, NEW o \in Operators, AloneAfter(o), NEW i \in Issues,
         NEW left, Reviewing(i, left), Progress(o, i, left), DOMAIN job' = Operators
  PROVE  QueueInv'
<1>1. Edited(i, "status", "Review") /\ job'[o] = NoJob
  BY LastEdit DEF Reviewing
<1>2. "Review" \in Statuses \ {"absent"} /\ "Review" \in ActiveStatuses
  BY DEF Statuses, ActiveStatuses
<1>3. /\ board' \in [Issues -> Items]
      /\ \A j \in Issues \ {i} : board'[j] = board[j]
      /\ board'[i].status = "Review" /\ board'[i].priority = board[i].priority
      /\ board'[i].meta = board[i].meta
      /\ Ready' = Ready \ {i} /\ Active' = Active \cup {i}
  BY <1>1, <1>2, StatusEdited
<1>4. UNCHANGED <<issue, pull>>
  BY <1>1 DEF Edited
<1>5. QueueTypes /\ (\A j \in Issues : StatusMeans(j)) /\ Limits
  BY DEF QueueInv
<1>6. StatusMeans(i)'
  BY <1>3, <1>4, <1>5 DEF StatusMeans, Reviewing
<1>7. ASSUME NEW j \in Issues \ {i} PROVE StatusMeans(j)'
  BY <1>3, <1>4, <1>5 DEF StatusMeans, validate_issue_packet
<1>8. Active' = Active
  BY <1>3 DEF Active, project, Reviewing, ActiveStatuses
<1>9. Limits'
  BY <1>3, <1>5, <1>8 DEF Limits
<1>10. QueueTypes'
  BY <1>3, <1>4, <1>5 DEF QueueTypes
<1>. QED BY <1>1, <1>6, <1>7, <1>9, <1>10, GoesOn

LEMMA CompleteEdit ==
  ASSUME QueueInv, NEW o \in Operators, AloneAfter(o), NEW i \in Issues,
         NEW left, Completing(i, left), Progress(o, i, left), DOMAIN job' = Operators
  PROVE  QueueInv'
<1>1. PICK yes : yes = TRUE
  OBVIOUS
<1>2. PICK done : done = Edit("status", "Done")
  OBVIOUS
<1>3. CASE left = <<Edit("evidence", TRUE), Edit("status", "Done")>>
  <2>1. left = <<Edit("evidence", yes), done>>
    BY <1>1, <1>2, <1>3
  <2>2. Edited(i, "evidence", yes) /\ job'[o] = [items |-> {i}, edits |-> <<done>>]
    BY <2>1 DEF Progress, Edited, Edit
  <2>3. (\A j \in Issues : StatusMeans(j)') /\ Limits' /\ QueueTypes'
    BY <1>1, <2>2, FieldKeeps
  <2>4. board'[i].status = board[i].status
    BY <1>1, <2>2, FieldEdited
  <2>5. UNCHANGED issue
    BY <2>2 DEF Edited
  <2>6. Completing(i, <<done>>)'
    BY <1>2, <2>4, <2>5 DEF Completing
  <2>. QED BY <2>2, <2>3, <2>6, GoesOn DEF UnderWay
<1>4. CASE left = <<Edit("status", "Done")>>
  <2>1. Edited(i, "status", "Done") /\ job'[o] = NoJob
    BY <1>4, LastEdit
  <2>2. "Done" \in Statuses \ {"absent"} /\ "Done" \notin ActiveStatuses
    BY DEF Statuses, ActiveStatuses
  <2>3. /\ board' \in [Issues -> Items]
        /\ \A j \in Issues \ {i} : board'[j] = board[j]
        /\ board'[i].status = "Done" /\ board'[i].meta = board[i].meta
        /\ Ready' = Ready \ {i} /\ Active' = Active \ {i}
    BY <2>1, <2>2, StatusEdited
  <2>4. UNCHANGED <<issue, pull>>
    BY <2>1 DEF Edited
  <2>5. QueueTypes /\ (\A j \in Issues : StatusMeans(j)) /\ Limits
    BY DEF QueueInv
  <2>6. StatusMeans(i)'
    BY <2>2, <2>3, <2>4, <2>5 DEF StatusMeans, Completing, ActiveStatuses
  <2>7. ASSUME NEW j \in Issues \ {i} PROVE StatusMeans(j)'
    BY <2>3, <2>4, <2>5 DEF StatusMeans, validate_issue_packet
  <2>8. Cardinality(Active \ {i}) <= WipLimit
    <3>1. IsFiniteSet(Active)
      BY FS_Subset, QueueConstants DEF Active, project
    <3>2. /\ Cardinality(Active \ {i}) \in Nat /\ Cardinality(Active) \in Nat
          /\ Cardinality(Active \ {i}) <= Cardinality(Active)
      BY <3>1, FS_Subset, FS_CardinalityType
    <3>. QED BY <2>5, <3>2 DEF Limits, WipLimit
  <2>9. Limits'
    BY <2>3, <2>5, <2>8 DEF Limits, WipLimit
  <2>10. QueueTypes'
    BY <2>3, <2>4, <2>5 DEF QueueTypes
  <2>. QED BY <2>1, <2>6, <2>7, <2>9, <2>10, GoesOn
<1>. QED BY <1>3, <1>4 DEF Completing

LEMMA EditInv ==
  ASSUME QueueInv, NEW o \in Operators, AloneAfter(o), edit_field(o)
  PROVE  QueueInv'
<1>1. PICK i \in Issues, left \in {job[o].edits} :
        job[o] = [items |-> {i}, edits |-> left] /\ UnderWay(i, left)
  <2>1. job[o].edits # <<>>
    BY DEF edit_field
  <2>2. job[o] # NoJob
    BY <2>1 DEF NoJob
  <2>. QED BY <2>2 DEF QueueInv, Commands
<1>2. job[o].items = {i} /\ job[o].edits = left /\ UNCHANGED <<issue, pull>>
  BY <1>1 DEF edit_field
<1>3. DOMAIN job = Operators
  BY DEF QueueInv, QueueTypes
<1>4. PICK next : next = IF Len(left) = 1 THEN NoJob ELSE [job[o] EXCEPT !.edits = Tail(left)]
  OBVIOUS
<1>5. next = IF Len(left) = 1 THEN NoJob ELSE [items |-> {i}, edits |-> Tail(left)]
  <2>1. PICK rest : rest = Tail(left)
    OBVIOUS
  <2>2. [job[o] EXCEPT !.edits = rest] = [items |-> {i}, edits |-> rest]
    BY <1>1
  <2>. QED BY <1>4, <2>1, <2>2
<1>6. Edited(i, Head(left).field, Head(left).value)
  BY <1>2 DEF edit_field, Edited
<1>7. job' = [job EXCEPT ![o] = next]
  <2>1. next = IF Len(job[o].edits) = 1 THEN NoJob
               ELSE [job[o] EXCEPT !.edits = Tail(job[o].edits)]
    BY <1>2, <1>4
  <2>. QED BY <2>1 DEF edit_field
<1>8. job'[o] = next /\ DOMAIN job' = Operators
  BY <1>3, <1>7
<1>9. Progress(o, i, left)
  BY <1>5, <1>6, <1>8 DEF Progress
<1>. QED BY <1>1, <1>8, <1>9, StartEdit, PrepareEdit, ReviewEdit, CompleteEdit DEF UnderWay

LEMMA AbortInv ==
  ASSUME QueueInv, NEW o \in Operators, AloneAfter(o), Abort(o)
  PROVE  QueueInv'
<1>1. job' = [job EXCEPT ![o] = NoJob] /\ UNCHANGED <<issue, pull, board>>
  BY DEF Abort
<1>2. QueueTypes /\ (\A j \in Issues : StatusMeans(j)) /\ Limits
  BY DEF QueueInv
<1>3. QueueTypes' /\ job'[o] = NoJob
  BY <1>1, <1>2 DEF QueueTypes
<1>4. ASSUME NEW j \in Issues PROVE StatusMeans(j)'
  BY <1>1, <1>2 DEF StatusMeans, validate_issue_packet
<1>5. Active' = Active /\ Ready' = Ready
  BY <1>1, SameBoard
<1>6. Limits'
  BY <1>2, <1>5 DEF Limits
<1>7. Commands'
  BY <1>3 DEF Commands, AloneAfter
<1>. QED BY <1>3, <1>4, <1>6, <1>7 DEF QueueInv

LEMMA QueueStutter == ASSUME QueueInv, UNCHANGED qvars PROVE QueueInv'
<1>1. UNCHANGED <<issue, pull, board, job>>
  BY DEF qvars
<1>2. QueueTypes /\ (\A j \in Issues : StatusMeans(j)) /\ Limits /\ Commands
  BY DEF QueueInv
<1>3. QueueTypes'
  BY <1>1, <1>2 DEF QueueTypes
<1>4. ASSUME NEW j \in Issues PROVE StatusMeans(j)'
  BY <1>1, <1>2 DEF StatusMeans, validate_issue_packet
<1>5. Active' = Active /\ Ready' = Ready
  BY <1>1, SameBoard
<1>6. Limits'
  BY <1>2, <1>5 DEF Limits
<1>7. ASSUME NEW j \in Issues, NEW left, UnderWay(j, left) PROVE UnderWay(j, left)'
  BY <1>1, <1>5, <1>7
     DEF UnderWay, Starting, Preparing, Reviewing, Completing, validate_issue_packet
<1>8. Commands'
  BY <1>1, <1>2, <1>7 DEF Commands
<1>. QED BY <1>3, <1>4, <1>6, <1>8 DEF QueueInv

\* Until two commands overlap, at most one operator has edits to make.
Alone == \A a, b \in Operators : job[a] # NoJob /\ job[b] # NoJob => a = b

AloneInv == ~overlapped => QueueInv /\ Alone

LEMMA QueueStep == ASSUME AloneInv, [QueueNext]_qvars PROVE AloneInv'
<1> SUFFICES ASSUME ~overlapped' PROVE QueueInv' /\ Alone'
  BY DEF AloneInv
<1>1. ASSUME NEW o \in Operators, edit_field(o) \/ Abort(o) PROVE QueueInv' /\ Alone'
  <2>1. QueueInv /\ Alone /\ DOMAIN job = Operators
    BY <1>1 DEF AloneInv, edit_field, Abort, QueueInv, QueueTypes
  <2>2. \A p \in Operators \ {o} : job'[p] = job[p] /\ job[p] = NoJob
    <3>1. job[o] # NoJob
      BY <1>1 DEF edit_field, Abort, NoJob
    <3>2. \A p \in Operators \ {o} : job'[p] = job[p]
      BY <1>1, <2>1 DEF edit_field, Abort
    <3>. QED BY <2>1, <3>1, <3>2 DEF Alone
  <2>3. AloneAfter(o) /\ Alone'
    BY <2>2 DEF AloneAfter, Alone
  <2>. QED BY <1>1, <2>1, <2>3, EditInv, AbortInv
<1>2. ASSUME NEW o \in Operators, NEW i \in Issues,
             \/ start(o, i) \/ review(o, i) \/ complete(o, i)
             \/ \E points \in Points, unblocked \in BOOLEAN : prepare(o, i, points, unblocked)
      PROVE  QueueInv' /\ Alone'
  <2>1. PICK plan : Begin(o, i, plan)
    BY <1>2 DEF start, review, complete, prepare
  <2>2. ~overlapped /\ \A p \in Operators \ {o} : job[p] = NoJob
    BY <2>1 DEF Begin
  <2>3. QueueInv /\ DOMAIN job = Operators
    BY <2>2 DEF AloneInv, QueueInv, QueueTypes
  <2>4. Alone'
    BY <2>1, <2>2, <2>3 DEF Begin, Alone
  <2>. QED BY <1>2, <2>3, <2>4, BeginsInv
<1>3. ASSUME NEW i \in Issues, File(i) \/ Link(i) \/ OpenPull(i) \/ Merge(i)
      PROVE  QueueInv' /\ Alone'
  <2>1. UNCHANGED <<job, overlapped>>
    BY <1>3 DEF File, Link, OpenPull, Merge
  <2>2. QueueInv /\ Alone
    BY <2>1 DEF AloneInv
  <2>. QED BY <1>3, <2>1, <2>2, FileInv, LinkInv, OpenPullInv, MergeInv DEF Alone
<1>4. CASE UNCHANGED qvars
  <2>1. UNCHANGED <<job, overlapped>>
    BY <1>4 DEF qvars
  <2>2. QueueInv /\ Alone
    BY <2>1 DEF AloneInv
  <2>. QED BY <1>4, <2>1, <2>2, QueueStutter DEF Alone
<1>. QED BY <1>1, <1>2, <1>3, <1>4 DEF QueueNext

----------------------------------------------------------------------------
(* The limit on items in delivery, for any number of operators.            *)

Fields == {"status", "priority", "meta", "initial", "evidence"}
Values == BOOLEAN \cup Statuses \cup {"P0", "P1"} \cup Points

QueueShape ==
  /\ DOMAIN board = Issues /\ \A i \in Issues : DOMAIN board[i] = Fields
  /\ job \in [Operators -> [items : SUBSET Issues,
                            edits : Seq([field : Fields, value : Values])]]
  /\ \A o \in Operators : \A i, j \in job[o].items : i = j

\* The edits will put their item into delivery.
Claims(changes) ==
  \E k \in DOMAIN changes : changes[k].field = "status" /\ changes[k].value \in ActiveStatuses

Claimed == {i \in Issues : \E o \in Operators : i \in job[o].items /\ Claims(job[o].edits)}

\* The inductive invariant: an operator adds an item only if it saw at most one
\* in delivery, and then holds at most that one besides.
WipInv == QueueShape /\ Cardinality(Active \cup Claimed) <= 1 + Cardinality(Operators)

\* Sets of items, and those that the commands of the operators name.
LEMMA Counted ==
  ASSUME NEW A \in SUBSET Issues, NEW C \in SUBSET Issues
  PROVE  /\ IsFiniteSet(A \cup C) /\ Cardinality(A \cup C) \in Nat
         /\ Cardinality(A) \in Nat /\ Cardinality(C) \in Nat
         /\ Cardinality(A \cup C) <= Cardinality(A) + Cardinality(C)
<1>1. IsFiniteSet(A) /\ IsFiniteSet(C) /\ IsFiniteSet(A \cap C)
  BY QueueConstants, FS_Subset
<1>2. /\ IsFiniteSet(A \cup C)
      /\ Cardinality(A \cup C) = Cardinality(A) + Cardinality(C) - Cardinality(A \cap C)
  BY <1>1, FS_Union
<1>3. /\ Cardinality(A \cup C) \in Nat /\ Cardinality(A) \in Nat /\ Cardinality(C) \in Nat
      /\ Cardinality(A \cap C) \in Nat
  BY <1>1, <1>2, FS_CardinalityType
<1>. QED BY <1>2, <1>3

LEMMA NamedByJobs ==
  ASSUME NEW jobs, \A o \in Operators : \A i, j \in jobs[o].items : i = j,
         NEW named \in SUBSET Issues, \A i \in named : \E o \in Operators : i \in jobs[o].items
  PROVE  Cardinality(named) <= Cardinality(Operators) /\ Cardinality(Operators) \in Nat
<1> DEFINE pick == [o \in Operators |-> CHOOSE i : i \in jobs[o].items]
           picks == {pick[o] : o \in Operators}
<1>1. IsFiniteSet(Operators)
  BY QueueConstants
<1>2. pick \in Surjection(Operators, picks)
  BY DEF Surjection
<1>3. named \subseteq picks
  <2>1. ASSUME NEW i \in named PROVE i \in picks
    <3>1. PICK o \in Operators : i \in jobs[o].items
      OBVIOUS
    <3>2. pick[o] \in jobs[o].items
      BY <3>1
    <3>3. pick[o] = i
      BY <3>1, <3>2
    <3>. QED BY <3>3
  <2>. QED BY <2>1
<1> HIDE DEF pick, picks
<1>4. IsFiniteSet(picks) /\ Cardinality(picks) <= Cardinality(Operators)
  BY <1>1, <1>2, FS_Surjection
<1>5. Cardinality(named) <= Cardinality(picks)
  BY <1>3, <1>4, FS_Subset
<1>6. Cardinality(named) \in Nat /\ Cardinality(picks) \in Nat /\ Cardinality(Operators) \in Nat
  BY <1>1, <1>3, <1>4, FS_Subset, FS_CardinalityType
<1>. QED BY <1>4, <1>5, <1>6

\* A step that puts nothing new into delivery or on its way there.
LEMMA NoNewClaim ==
  ASSUME WipInv, QueueShape', Active' \cup Claimed' \subseteq Active \cup Claimed
  PROVE  WipInv'
<1>1. Active \subseteq Issues /\ Claimed \subseteq Issues
  BY DEF Active, project, Claimed
<1>2. IsFiniteSet(Active \cup Claimed) /\ Cardinality(Active \cup Claimed) \in Nat
  BY <1>1, Counted
<1>3. /\ Cardinality(Active' \cup Claimed') <= Cardinality(Active \cup Claimed)
      /\ Cardinality(Active' \cup Claimed') \in Nat
  BY <1>2, FS_Subset, FS_CardinalityType
<1>4. Cardinality(Operators) \in Nat
  BY FS_CardinalityType, QueueConstants
<1>. QED BY <1>2, <1>3, <1>4 DEF WipInv

LEMMA WipInitInv == QueueInit => WipInv
<1> SUFFICES ASSUME QueueInit PROVE WipInv
  OBVIOUS
<1>1. QueueShape
  <2>1. DOMAIN board = Issues /\ \A i \in Issues : DOMAIN board[i] = Fields
    BY DEF QueueInit, NoItem, Fields
  <2>2. NoJob \in [items : SUBSET Issues, edits : Seq([field : Fields, value : Values])]
    BY DEF NoJob
  <2>. QED BY <2>1, <2>2 DEF QueueInit, QueueShape, NoJob
<1>2. Active \cup Claimed = {}
  BY DEF QueueInit, NoItem, NoJob, Active, project, Claimed, Claims
<1>3. Cardinality(Active \cup Claimed) = 0 /\ Cardinality(Operators) \in Nat
  BY <1>2, FS_EmptySet, FS_CardinalityType, QueueConstants
<1>. QED BY <1>1, <1>3 DEF WipInv

\* A command begins: only its own item is added to those claimed, and only if
\* the edits claim it.
LEMMA BeginClaims ==
  ASSUME WipInv, NEW o \in Operators, NEW i \in Issues,
         NEW changes \in Seq([field : Fields, value : Values]), Begin(o, i, changes)
  PROVE  /\ QueueShape' /\ Active' = Active
         /\ Claimed' \subseteq Claimed \cup {i}
         /\ ~Claims(changes) => Claimed' \subseteq Claimed
<1>1. /\ job' = [job EXCEPT ![o] = [items |-> {i}, edits |-> changes]]
      /\ UNCHANGED <<issue, pull, board>>
  BY DEF Begin
<1>2. /\ QueueShape /\ DOMAIN job = Operators
  BY DEF WipInv, QueueShape
<1>3. job'[o].items = {i} /\ job'[o].edits = changes /\ \A p \in Operators \ {o} : job'[p] = job[p]
  BY <1>1, <1>2
<1>4. QueueShape'
  BY <1>1, <1>2, <1>3 DEF QueueShape
<1>5. Active' = Active
  BY <1>1 DEF Active, project
<1>. QED BY <1>3, <1>4, <1>5 DEF Claimed

\* The edits of the commands.
LEMMA PlansShape ==
  /\ <<Edit("priority", "P0"), Edit("meta", TRUE), Edit("status", "In Progress")>>
       \in Seq([field : Fields, value : Values])
  /\ <<Edit("status", "Review")>> \in Seq([field : Fields, value : Values])
  /\ <<Edit("evidence", TRUE), Edit("status", "Done")>>
       \in Seq([field : Fields, value : Values])
  /\ \A points \in Points : PrepareEdits(points) \in Seq([field : Fields, value : Values])
<1> DEFINE Edits == [field : Fields, value : Values]
<1>1. ASSUME NEW f \in Fields, NEW v \in Values PROVE Edit(f, v) \in Edits
  BY DEF Edit
<1>2. /\ "priority" \in Fields /\ "meta" \in Fields /\ "status" \in Fields
      /\ "evidence" \in Fields /\ "initial" \in Fields
  BY DEF Fields
<1>3. /\ "P0" \in Values /\ "P1" \in Values /\ "In Progress" \in Values /\ "Review" \in Values
      /\ "Done" \in Values /\ "Ready" \in Values /\ TRUE \in Values
      /\ \A points \in Points : points \in Values
  BY DEF Values, Statuses
<1>4. /\ Edit("priority", "P0") \in Edits /\ Edit("status", "In Progress") \in Edits
      /\ Edit("status", "Review") \in Edits /\ Edit("status", "Done") \in Edits
      /\ Edit("priority", "P1") \in Edits /\ Edit("status", "Ready") \in Edits
      /\ Edit("meta", TRUE) \in Edits /\ Edit("evidence", TRUE) \in Edits
      /\ \A points \in Points : Edit("initial", points) \in Edits
  BY <1>1, <1>2, <1>3
<1> HIDE DEF Edits
<1>5. ASSUME NEW a \in Edits, NEW b \in Edits, NEW c \in Edits, NEW d \in Edits
      PROVE  /\ <<a>> \in Seq(Edits) /\ <<a, b>> \in Seq(Edits) /\ <<a, b, c>> \in Seq(Edits)
             /\ <<a, b, c, d>> \in Seq(Edits)
  OBVIOUS
<1>6. <<Edit("priority", "P0"), Edit("meta", TRUE), Edit("status", "In Progress")>> \in Seq(Edits)
  BY <1>4, <1>5, Zenon
<1>7. <<Edit("status", "Review")>> \in Seq(Edits)
  BY <1>4, <1>5, Zenon
<1>8. <<Edit("evidence", TRUE), Edit("status", "Done")>> \in Seq(Edits)
  BY <1>4, <1>5, Zenon
<1>9. ASSUME NEW points \in Points PROVE PrepareEdits(points) \in Seq(Edits)
  BY <1>4, <1>5, Zenon DEF PrepareEdits
<1>. QED BY <1>6, <1>7, <1>8, <1>9, Zenon DEF Edits

\* Only start puts an item on its way that was not there; the count of the
\* board that it rests on is as old as the edits of the other operators.
LEMMA StartWip == ASSUME WipInv, NEW o \in Operators, NEW i \in Issues, start(o, i) PROVE WipInv'
<1>1. QueueShape' /\ Active' = Active /\ Claimed' \subseteq Claimed \cup {i}
  BY PlansShape, BeginClaims DEF start
<1>2. CASE i \in Active
  BY <1>1, <1>2, NoNewClaim
<1>3. CASE i \notin Active
  <2>1. Cardinality(Active') < 2
    BY <1>1, <1>3 DEF start, CanStart, Active, project, ActiveStatuses, WipLimit
  <2>2. /\ Cardinality(Active' \cup Claimed') <= Cardinality(Active') + Cardinality(Claimed')
        /\ Cardinality(Claimed') \in Nat /\ Cardinality(Active') \in Nat
        /\ Cardinality(Active' \cup Claimed') \in Nat
    <3>1. Active' \subseteq Issues /\ Claimed' \subseteq Issues
      BY DEF Active, project, Claimed
    <3>. QED BY <3>1, Counted
  <2>3. Cardinality(Claimed') <= Cardinality(Operators) /\ Cardinality(Operators) \in Nat
    <3>1. \A p \in Operators : \A j, k \in job'[p].items : j = k
      BY <1>1 DEF QueueShape
    <3>2. Claimed' \subseteq Issues /\ \A j \in Claimed' : \E p \in Operators : j \in job'[p].items
      BY DEF Claimed
    <3>. QED BY <3>1, <3>2, NamedByJobs
  <2>. QED BY <1>1, <2>1, <2>2, <2>3 DEF WipInv
<1>. QED BY <1>2, <1>3

LEMMA ReviewWip == ASSUME WipInv, NEW o \in Operators, NEW i \in Issues, review(o, i) PROVE WipInv'
<1>1. QueueShape' /\ Active' = Active /\ Claimed' \subseteq Claimed \cup {i}
  BY PlansShape, BeginClaims DEF review
<1>2. i \in Active
  BY DEF review, Active, project, ActiveStatuses
<1>. QED BY <1>1, <1>2, NoNewClaim

LEMMA CompleteWip ==
  ASSUME WipInv, NEW o \in Operators, NEW i \in Issues, complete(o, i)
  PROVE  WipInv'
<1>1. ~Claims(<<Edit("evidence", TRUE), Edit("status", "Done")>>)
  <2>1. PICK a, b : a = Edit("evidence", TRUE) /\ b = Edit("status", "Done")
    OBVIOUS
  <2>2. a.field # "status" /\ b.value \notin ActiveStatuses
    BY <2>1 DEF Edit, ActiveStatuses
  <2>3. ~Claims(<<a, b>>)
    BY <2>2 DEF Claims
  <2>. QED BY <2>1, <2>3
<1>2. QueueShape' /\ Active' = Active /\ Claimed' \subseteq Claimed
  <2>1. PICK changes : changes = <<Edit("evidence", TRUE), Edit("status", "Done")>>
    OBVIOUS
  <2>2. Begin(o, i, changes) /\ ~Claims(changes)
    BY <1>1, <2>1 DEF complete
  <2>3. changes \in Seq([field : Fields, value : Values])
    BY <2>1, PlansShape
  <2>. QED BY <2>2, <2>3, BeginClaims
<1>. QED BY <1>2, NoNewClaim

LEMMA PrepareWip ==
  ASSUME WipInv, NEW o \in Operators, NEW i \in Issues, NEW points \in Points,
         NEW unblocked \in BOOLEAN, prepare(o, i, points, unblocked)
  PROVE  WipInv'
<1>1. ~Claims(PrepareEdits(points))
  <2>1. \A k \in 1 .. 4 : LET e == PrepareEdits(points)[k]
                         IN  e.field = "status" => e.value = "Ready"
    BY DEF PrepareEdits, Edit
  <2>2. DOMAIN PrepareEdits(points) = 1 .. 4
    BY DEF PrepareEdits
  <2>. QED BY <2>1, <2>2 DEF Claims, ActiveStatuses
<1>2. QueueShape' /\ Active' = Active /\ Claimed' \subseteq Claimed
  BY <1>1, PlansShape, BeginClaims DEF prepare
<1>. QED BY <1>2, NoNewClaim

LEMMA HeadAndTail ==
  ASSUME NEW S, NEW s \in Seq(S), s # <<>>
  PROVE  /\ Head(s) \in S /\ Head(s) = s[1] /\ 1 \in DOMAIN s
         /\ Tail(s) \in Seq(S) /\ Claims(Tail(s)) => Claims(s)
<1>1. /\ Head(s) \in S /\ Head(s) = s[1] /\ 1 \in DOMAIN s /\ Tail(s) \in Seq(S)
      /\ \A k \in DOMAIN Tail(s) : k + 1 \in DOMAIN s /\ Tail(s)[k] = s[k + 1]
  OBVIOUS
<1>. QED BY <1>1 DEF Claims

\* An edit puts into delivery only what its command claimed; the claim of the
\* edits that are left is no wider.
LEMMA EditWip == ASSUME WipInv, NEW o \in Operators, edit_field(o) PROVE WipInv'
<1> DEFINE left == job[o].edits
           rest == IF Len(left) = 1 THEN NoJob ELSE [job[o] EXCEPT !.edits = Tail(left)]
<1>1. /\ QueueShape /\ left \in Seq([field : Fields, value : Values]) /\ left # <<>>
      /\ job[o].items \subseteq Issues /\ job' = [job EXCEPT ![o] = rest]
      /\ board' = [i \in Issues |->
                     IF i \in job[o].items
                     THEN [board[i] EXCEPT ![Head(left).field] = Head(left).value]
                     ELSE board[i]]
      /\ \A i, j \in job[o].items : i = j
  BY DEF WipInv, QueueShape, edit_field
<1>2. /\ Head(left) = left[1] /\ 1 \in DOMAIN left
      /\ Tail(left) \in Seq([field : Fields, value : Values])
      /\ Claims(Tail(left)) => Claims(left)
  <2>1. left \in Seq([field : Fields, value : Values]) /\ left # <<>>
    BY <1>1
  <2>. QED BY <2>1, HeadAndTail
<1>3. /\ rest.items \subseteq job[o].items
      /\ rest \in [items : SUBSET Issues, edits : Seq([field : Fields, value : Values])]
      /\ Claims(rest.edits) => Claims(left)
  <2>1. CASE Len(left) = 1
    <3>1. rest.items = {} /\ rest.edits = <<>>
      BY <2>1 DEF NoJob
    <3>2. rest \in [items : SUBSET Issues, edits : Seq([field : Fields, value : Values])]
      BY <2>1 DEF NoJob
    <3>3. ~Claims(<<>>)
      BY DEF Claims
    <3>4. {} \subseteq job[o].items
      OBVIOUS
    <3>. QED BY <3>1, <3>2, <3>3, <3>4, Zenon
  <2>2. CASE Len(left) # 1
    <3>0. job[o] \in [items : SUBSET Issues, edits : Seq([field : Fields, value : Values])]
      BY <1>1 DEF QueueShape
    <3>1. rest.items = job[o].items /\ rest.edits = Tail(left)
      BY <2>2, <3>0
    <3>2. rest \in [items : SUBSET Issues, edits : Seq([field : Fields, value : Values])]
      BY <1>2, <2>2, <3>0
    <3>. QED BY <1>2, <3>1, <3>2
  <2>. QED BY <2>1, <2>2
<1> HIDE DEF rest, left
<1>4. /\ job'[o] = rest /\ \A p \in Operators \ {o} : job'[p] = job[p]
      /\ DOMAIN job = Operators /\ DOMAIN board = Issues
  BY <1>1 DEF QueueShape
<1>5. DOMAIN board' = Issues /\ \A i \in Issues : DOMAIN board'[i] = Fields
  BY <1>1 DEF QueueShape
<1>6. QueueShape'
  <2>1. job' \in [Operators -> [items : SUBSET Issues,
                                edits : Seq([field : Fields, value : Values])]]
    BY <1>1, <1>3 DEF QueueShape
  <2>2. \A p \in Operators : \A i, j \in job'[p].items : i = j
    BY <1>1, <1>3, <1>4 DEF QueueShape
  <2>. QED BY <1>5, <2>1, <2>2 DEF QueueShape
<1>7. Claimed' \subseteq Claimed
  BY <1>3, <1>4 DEF Claimed, left
<1>8. ASSUME NEW i \in Active' PROVE i \in Active \cup Claimed
  <2>1. i \in Issues /\ board'[i].status \in ActiveStatuses
    BY DEF Active, project
  <2>2. CASE i \notin job[o].items
    BY <1>1, <2>1, <2>2 DEF Active, project, ActiveStatuses
  <2>3. CASE i \in job[o].items /\ Head(left).field # "status"
    <3>1. board'[i].status = board[i].status
      <4>1. board'[i] = [board[i] EXCEPT ![Head(left).field] = Head(left).value]
        BY <1>1, <2>1, <2>3
      <4>2. "status" \in DOMAIN board[i]
        BY <1>1, <2>1 DEF QueueShape, Fields
      <4>. QED BY <2>3, <4>1, <4>2
    <3>. QED BY <2>1, <3>1 DEF Active, project, ActiveStatuses
  <2>4. CASE i \in job[o].items /\ Head(left).field = "status"
    <3>1. board'[i].status = Head(left).value
      <4>1. board'[i] = [board[i] EXCEPT !["status"] = Head(left).value]
        BY <1>1, <2>1, <2>4
      <4>2. "status" \in DOMAIN board[i]
        BY <1>1, <2>1 DEF QueueShape, Fields
      <4>. QED BY <4>1, <4>2
    <3>2. Claims(left)
      BY <1>2, <2>1, <2>4, <3>1 DEF Claims
    <3>. QED BY <2>1, <2>4, <3>2 DEF Claimed, left
  <2>. QED BY <2>2, <2>3, <2>4
<1>. QED BY <1>6, <1>7, <1>8, NoNewClaim

LEMMA AbortWip == ASSUME WipInv, NEW o \in Operators, Abort(o) PROVE WipInv'
<1>1. /\ job' = [job EXCEPT ![o] = NoJob] /\ UNCHANGED <<issue, pull, board>>
      /\ QueueShape /\ DOMAIN job = Operators
  BY DEF Abort, WipInv, QueueShape
<1>2. job'[o] = NoJob /\ \A p \in Operators \ {o} : job'[p] = job[p]
  BY <1>1
<1>3. NoJob \in [items : SUBSET Issues, edits : Seq([field : Fields, value : Values])]
  BY DEF NoJob
<1>4. QueueShape'
  <2>1. \A p \in Operators : \A i, j \in job'[p].items : i = j
    BY <1>1, <1>2 DEF QueueShape, NoJob
  <2>. QED BY <1>1, <1>3, <2>1 DEF QueueShape
<1>5. Active' = Active
  BY <1>1 DEF Active, project
<1>6. Claimed' \subseteq Claimed
  BY <1>2 DEF Claimed, NoJob
<1>. QED BY <1>4, <1>5, <1>6, NoNewClaim

\* What people do puts no item into delivery and starts no command.
LEMMA PeopleWip ==
  ASSUME WipInv, NEW i \in Issues, File(i) \/ Link(i) \/ OpenPull(i) \/ Merge(i)
  PROVE  WipInv'
<1>1. UNCHANGED job /\ QueueShape
  BY DEF File, Link, OpenPull, Merge, WipInv
<1>2. Claimed' = Claimed
  BY <1>1 DEF Claimed
<1>3. CASE Link(i)
  <2>1. PICK column \in {"unset", "Backlog", "Blocked"} :
          board' = [board EXCEPT ![i].status = column]
    BY <1>3 DEF Link
  <2>2. /\ board'[i] = [board[i] EXCEPT !.status = column] /\ DOMAIN board' = Issues
        /\ \A j \in Issues \ {i} : board'[j] = board[j]
        /\ DOMAIN board[i] = Fields /\ "status" \in Fields
    BY <1>1, <2>1 DEF QueueShape, Fields
  <2>3. board'[i].status = column /\ DOMAIN board'[i] = Fields
    BY <2>2
  <2>4. QueueShape'
    BY <1>1, <2>2, <2>3 DEF QueueShape
  <2>5. Active' \subseteq Active
    BY <2>2, <2>3 DEF Active, project, ActiveStatuses
  <2>. QED BY <1>2, <2>4, <2>5, NoNewClaim
<1>4. CASE UNCHANGED board
  <2>1. QueueShape' /\ Active' = Active
    BY <1>1, <1>4 DEF QueueShape, Active, project
  <2>. QED BY <1>2, <2>1, NoNewClaim
<1>. QED BY <1>3, <1>4 DEF File, OpenPull, Merge

\* The limit of delivery work that start checks on the board it has read
\* (CanStart), while the edits that rest on such a reading are made later and
\* by any number of operators: n operators can go past it by n - 1 items, and
\* never by more.
THEOREM WipIsBounded == QueueSpec => []WipBounded
<1>1. WipInv /\ [QueueNext]_qvars => WipInv'
  <2> SUFFICES ASSUME WipInv, [QueueNext]_qvars PROVE WipInv'
    OBVIOUS
  <2>1. ASSUME NEW o \in Operators, edit_field(o) \/ Abort(o) PROVE WipInv'
    BY <2>1, EditWip, AbortWip
  <2>2. ASSUME NEW o \in Operators, NEW i \in Issues,
               \/ start(o, i) \/ review(o, i) \/ complete(o, i)
               \/ \E points \in Points, unblocked \in BOOLEAN : prepare(o, i, points, unblocked)
        PROVE  WipInv'
    BY <2>2, StartWip, ReviewWip, CompleteWip, PrepareWip
  <2>3. ASSUME NEW i \in Issues, File(i) \/ Link(i) \/ OpenPull(i) \/ Merge(i) PROVE WipInv'
    BY <2>3, PeopleWip
  <2>4. CASE UNCHANGED qvars
    BY <2>4 DEF WipInv, QueueShape, Active, project, Claimed, Claims, qvars
  <2>. QED BY <2>1, <2>2, <2>3, <2>4 DEF QueueNext
<1>2. WipInv => WipBounded
  <2> SUFFICES ASSUME WipInv PROVE WipBounded
    OBVIOUS
  <2>1. Active \subseteq Issues /\ Claimed \subseteq Issues
    BY DEF Active, project, Claimed
  <2>2. /\ Cardinality(Active) <= Cardinality(Active \cup Claimed)
        /\ Cardinality(Active) \in Nat /\ Cardinality(Active \cup Claimed) \in Nat
    BY <2>1, Counted, FS_Subset
  <2>3. Cardinality(Operators) \in Nat
    BY FS_CardinalityType, QueueConstants
  <2>. QED BY <2>2, <2>3 DEF WipInv, WipBounded, WipLimit
<1>. QED BY WipInitInv, <1>1, <1>2, PTL DEF QueueSpec

\* The board of scripts/project_queue.py, however many issues and operators there
\* are and wherever a command fails between two of its edits: as long as no
\* command begins while another has edits to make, the audit finds nothing but a
\* merge not yet shown or an issue not yet linked, and at most one successor,
\* which can be pulled; and whatever overlaps, delivery work is bounded.
THEOREM BoardIsSound == QueueSpec => []BoardSound
<1>1. QueueInit => AloneInv
  BY QueueInitInv DEF AloneInv, Alone, QueueInit
<1>2. AloneInv /\ [QueueNext]_qvars => AloneInv'
  BY QueueStep
<1>3. QueueSpec => []AloneInv
  BY <1>1, <1>2, PTL DEF QueueSpec
<1>4. AloneInv /\ WipBounded => BoardSound
  BY BoardFollows DEF AloneInv, BoardSound
<1>. QED BY <1>3, <1>4, WipIsBounded, PTL

----------------------------------------------------------------------------
(* A fork of a recipe creates a beginning of its paths, the recipe last, and *)
(* takes them away in the other direction.                                   *)

Wanted == {<<>>, <<"descriptor">>, <<"descriptor", "input">>}

\* Everything a fork creates for its payloads, in the order of its steps.
PathsOf(wanted) == wanted \o <<"temp", "recipe">>

Owners == {"none", "user", "fork", "reused"}

ForkTypes ==
  /\ slot \in [Paths -> Owners] /\ slot["temp"] \in {"none", "fork"}
  /\ payloads \in Wanted
  /\ pc \in {"idle", "write", "link", "unlink", "rollback", "remove"}
  /\ created \in Seq(Paths) /\ userSteps \in Nat

\* A fork has created a beginning of its paths, which are as it made them unless
\* the user changed them, and what is a fork's of its paths it may still remove
\* or has reported.
ForkProgress ==
  pc # "idle" =>
    /\ Len(created) <= Len(payloads) + 2
    /\ \A k \in 1 .. Len(created) :
         /\ created[k] = PathsOf(payloads)[k]
         /\ slot[PathsOf(payloads)[k]] = "fork" \/ PathsOf(payloads)[k] \in touched
    /\ \A k \in 1 .. Len(payloads) + 2 :
         slot[PathsOf(payloads)[k]] = "fork" =>
           k <= Len(created) \/ PathsOf(payloads)[k] \in retained

\* How far each step has come; a removal has found the recorded inode, so that a
\* file of the user's that is there now came after.
ForkPhase ==
  /\ pc = "write" => Len(created) <= Len(payloads)
  /\ pc = "link" => Len(created) = Len(payloads) + 1
  /\ pc = "unlink" => Len(created) = Len(payloads) + 2
  /\ pc = "remove" =>
       /\ created # <<>>
       /\ slot[created[Len(created)]] = "user" => created[Len(created)] \in window

ForkCore == ForkTypes /\ ForkProgress /\ ForkPhase
ForkInv == ForkCore /\ PublishedWhole

\* The paths of a fork are different, the hidden recipe and its link the last two.
LEMMA ForkPaths ==
  ASSUME NEW w \in Wanted
  PROVE  /\ w \in Seq(Inputs) /\ Len(w) \in Nat
         /\ \A k \in 1 .. Len(w) + 2 : PathsOf(w)[k] \in Paths
         /\ \A j, k \in 1 .. Len(w) + 2 : PathsOf(w)[j] = PathsOf(w)[k] => j = k
         /\ \A k \in 1 .. Len(w) : PathsOf(w)[k] = w[k] /\ w[k] \in Inputs
         /\ PathsOf(w)[Len(w) + 1] = "temp" /\ PathsOf(w)[Len(w) + 2] = "recipe"
         /\ \A k \in 1 .. Len(w) + 1 : (w \o <<"temp">>)[k] = PathsOf(w)[k]
         /\ \A p \in Range(w) : \E k \in 1 .. Len(w) : p = PathsOf(w)[k]
<1>1. /\ w \in Seq(Inputs) /\ Len(w) \in Nat /\ DOMAIN w = 1 .. Len(w)
      /\ \A j, k \in 1 .. Len(w) : w[j] = w[k] => j = k
  <2>1. CASE w = <<>>
    BY <2>1
  <2>2. CASE w = <<"descriptor">>
    BY <2>2 DEF Inputs
  <2>3. CASE w = <<"descriptor", "input">>
    BY <2>3 DEF Inputs
  <2>. QED BY <2>1, <2>2, <2>3 DEF Wanted
<1>2. PICK tail \in {<<"temp", "recipe">>} : TRUE
  OBVIOUS
<1>3. tail \in Seq(Paths) /\ Len(tail) = 2 /\ tail[1] = "temp" /\ tail[2] = "recipe"
  <2>1. tail = <<"temp", "recipe">> /\ "temp" \in Paths /\ "recipe" \in Paths
    BY <1>2 DEF Paths
  <2>2. tail \in Seq(Paths)
    BY <2>1
  <2>3. Len(tail) = 2 /\ tail[1] = "temp" /\ tail[2] = "recipe"
    BY <2>1
  <2>. QED BY <2>2, <2>3
<1>4. /\ \A k \in 1 .. Len(w) : PathsOf(w)[k] = w[k] /\ w[k] \in Inputs
      /\ PathsOf(w)[Len(w) + 1] = "temp" /\ PathsOf(w)[Len(w) + 2] = "recipe"
  <2>1. PathsOf(w) = w \o tail
    BY <1>2 DEF PathsOf
  <2>2. \A k \in 1 .. Len(w) : w[k] \in Inputs
    BY <1>1
  <2>3. w \in Seq(Paths)
    BY <1>1 DEF Paths
  <2>4. \A k \in 1 .. Len(w) : (w \o tail)[k] = w[k]
    BY <1>3, <2>3
  <2>5. (w \o tail)[Len(w) + 1] = tail[1] /\ (w \o tail)[Len(w) + 2] = tail[2]
    <3>1. PICK n \in Nat : n = Len(w)
      BY <1>1
    <3>2. (w \o tail)[n + 1] = tail[(n + 1) - n] /\ (w \o tail)[n + 2] = tail[(n + 2) - n]
      <4>1. \A i \in 1 .. n + 2 : (w \o tail)[i] = IF i <= n THEN w[i] ELSE tail[i - n]
        BY <1>3, <2>3, <3>1, ConcatProperties
      <4>2. /\ n + 1 \in 1 .. n + 2 /\ n + 2 \in 1 .. n + 2
            /\ ~(n + 1 <= n) /\ ~(n + 2 <= n)
        BY <3>1
      <4>. QED BY <4>1, <4>2, Zenon
    <3>3. (n + 1) - n = 1 /\ (n + 2) - n = 2
      OBVIOUS
    <3>. QED BY <3>1, <3>2, <3>3
  <2>. QED BY <1>3, <2>1, <2>2, <2>4, <2>5
<1>5. \A k \in 1 .. Len(w) + 1 : (w \o <<"temp">>)[k] = PathsOf(w)[k]
  <2>1. PICK last \in {<<"temp">>} : TRUE
    OBVIOUS
  <2>2. last \in Seq(Paths) /\ Len(last) = 1 /\ last[1] = "temp" /\ w \in Seq(Paths)
    BY <1>1, <2>1 DEF Paths
  <2>. QED BY <1>1, <1>4, <2>1, <2>2
<1>6. \A j, k \in 1 .. Len(w) + 2 : PathsOf(w)[j] = PathsOf(w)[k] => j = k
  BY <1>1, <1>4 DEF Inputs
<1>7. \A k \in 1 .. Len(w) + 2 : PathsOf(w)[k] \in Paths
  BY <1>1, <1>4 DEF Inputs, Paths
<1>8. \A p \in Range(w) : \E k \in 1 .. Len(w) : p = PathsOf(w)[k]
  BY <1>1, <1>4 DEF Range
<1>. QED BY <1>1, <1>4, <1>5, <1>6, <1>7, <1>8

THEOREM ForkInitially == ForkInit => ForkInv
BY DEF ForkInit, ForkInv, ForkCore, ForkTypes, Owners, Wanted, ForkProgress, ForkPhase,
       PublishedWhole, Paths, Inputs

LEMMA PreflightInv == ASSUME ForkInv, Preflight PROVE ForkCore'
<1>1. PICK wanted \in Wanted :
        /\ \A p \in Range(wanted) \cup {"recipe"} : slot[p] = "none"
        /\ payloads' = wanted
  BY DEF Preflight, Wanted
<1>2. /\ slot' = [slot EXCEPT !["temp"] = "none"] /\ pc' = "write" /\ created' = <<>>
      /\ userSteps' \in Nat
  BY DEF Preflight, ForkInv, ForkCore, ForkTypes
<1>3. /\ slot' \in [Paths -> Owners] /\ slot'["temp"] = "none"
      /\ \A p \in Paths \ {"temp"} : slot'[p] = slot[p]
  BY <1>2 DEF ForkInv, ForkCore, ForkTypes, Paths, Owners
<1>4. \A k \in 1 .. Len(wanted) + 2 : slot'[PathsOf(wanted)[k]] = "none"
  <2>1. TAKE k \in 1 .. Len(wanted) + 2
  <2>2. CASE k \in 1 .. Len(wanted)
    <3>1. wanted[k] \in Range(wanted) /\ wanted[k] \in Inputs /\ PathsOf(wanted)[k] = wanted[k]
      BY <2>2, ForkPaths DEF Range
    <3>. QED BY <1>1, <1>3, <3>1 DEF Paths, Inputs
  <2>3. CASE k = Len(wanted) + 1
    BY <1>3, <2>3, ForkPaths
  <2>4. CASE k = Len(wanted) + 2
    BY <1>1, <1>3, <2>4, ForkPaths DEF Paths, Inputs
  <2>. QED BY <2>2, <2>3, <2>4, ForkPaths
<1>5. ForkTypes'
  BY <1>1, <1>2, <1>3 DEF ForkTypes
<1>6. ForkProgress' /\ ForkPhase'
  BY <1>1, <1>2, <1>4, ForkPaths DEF ForkProgress, ForkPhase
<1>. QED BY <1>5, <1>6 DEF ForkCore

\* One more path has been created, in its place.
LEMMA OneMore ==
  ASSUME ForkInv, pc # "idle", UNCHANGED <<payloads, retained, touched>>,
         NEW n \in Nat, Len(created) = n, n + 1 <= Len(payloads) + 2,
         NEW p, p = PathsOf(payloads)[n + 1],
         slot' = [slot EXCEPT ![p] = "fork"], created' = Append(created, p)
  PROVE  /\ slot' \in [Paths -> Owners] /\ slot'["temp"] \in {"none", "fork"}
         /\ created' \in Seq(Paths) /\ Len(created') = n + 1
         /\ ForkProgress'
<1>0. payloads \in Wanted /\ created \in Seq(Paths) /\ slot \in [Paths -> Owners]
      /\ slot["temp"] \in {"none", "fork"} /\ Len(payloads) \in Nat
  BY ForkPaths DEF ForkInv, ForkCore, ForkTypes
<1>1. p \in Paths /\ n + 1 \in 1 .. Len(payloads) + 2
  BY <1>0, ForkPaths
<1>2. /\ slot' \in [Paths -> Owners] /\ slot'[p] = "fork"
      /\ \A q \in Paths : q # p => slot'[q] = slot[q]
  BY <1>0, <1>1 DEF Owners
<1>3. /\ created' \in Seq(Paths) /\ Len(created') = n + 1 /\ created'[n + 1] = p
      /\ \A k \in 1 .. n : created'[k] = created[k]
  BY <1>0, <1>1
<1>4. slot'["temp"] \in {"none", "fork"}
  BY <1>0, <1>2 DEF Paths
<1>5. \A k \in 1 .. Len(payloads) + 2 :
        k # n + 1 => slot'[PathsOf(payloads)[k]] = slot[PathsOf(payloads)[k]]
  BY <1>0, <1>1, <1>2, ForkPaths
<1>6. \A k \in 1 .. n :
        /\ created[k] = PathsOf(payloads)[k]
        /\ slot[PathsOf(payloads)[k]] = "fork" \/ PathsOf(payloads)[k] \in touched
  BY DEF ForkInv, ForkCore, ForkProgress
<1>7. \A k \in 1 .. n + 1 :
        /\ created'[k] = PathsOf(payloads)[k]
        /\ slot'[PathsOf(payloads)[k]] = "fork" \/ PathsOf(payloads)[k] \in touched
  <2>1. \A k \in 1 .. n + 1 : k = n + 1 \/ (k \in 1 .. n /\ k \in 1 .. Len(payloads) + 2)
    BY <1>0
  <2>. QED BY <1>2, <1>3, <1>5, <1>6, <2>1
<1>8. \A k \in 1 .. Len(payloads) + 2 :
        slot'[PathsOf(payloads)[k]] = "fork" => k <= n + 1 \/ PathsOf(payloads)[k] \in retained
  <2>1. \A k \in 1 .. Len(payloads) + 2 :
          slot[PathsOf(payloads)[k]] = "fork" => k <= n \/ PathsOf(payloads)[k] \in retained
    BY DEF ForkInv, ForkCore, ForkProgress
  <2>. QED BY <1>0, <1>5, <2>1
<1>9. ForkProgress'
  BY <1>3, <1>7, <1>8 DEF ForkProgress
<1>. QED BY <1>2, <1>3, <1>4, <1>9

LEMMA WriteNextInv == ASSUME ForkInv, WriteNext PROVE ForkCore'
<1>1. /\ pc = "write" /\ UNCHANGED <<payloads, retained, touched, window, userSteps>>
      /\ payloads \in Wanted /\ Len(payloads) \in Nat /\ userSteps \in Nat
  BY ForkPaths DEF WriteNext, histories, ForkInv, ForkCore, ForkTypes
<1>2. PICK n \in Nat : n = Len(created) /\ n <= Len(payloads) /\ created \in Seq(Paths)
  BY <1>1 DEF ForkInv, ForkCore, ForkPhase, ForkTypes
<1>3. PICK p : p = Writes[n + 1]
  OBVIOUS
<1>4. p = PathsOf(payloads)[n + 1]
  BY <1>1, <1>2, <1>3, ForkPaths DEF Writes
<1>5. CASE pc' = "rollback" /\ UNCHANGED <<slot, created>>
  BY <1>1, <1>5 DEF ForkInv, ForkCore, ForkTypes, ForkProgress, ForkPhase
<1>6. CASE /\ slot' = [slot EXCEPT ![p] = "fork"] /\ created' = Append(created, p)
           /\ pc' = (IF p = "temp" THEN "link" ELSE "write") \/ pc' = "rollback"
  <2>1. /\ slot' \in [Paths -> Owners] /\ slot'["temp"] \in {"none", "fork"}
        /\ created' \in Seq(Paths) /\ Len(created') = n + 1 /\ ForkProgress'
    <3>1. pc # "idle" /\ n + 1 <= Len(payloads) + 2 /\ Len(created) = n
      BY <1>1, <1>2
    <3>. QED BY <1>1, <1>2, <1>4, <1>6, <3>1, OneMore
  <2>2. ForkTypes'
    BY <1>1, <1>6, <2>1 DEF ForkTypes
  <2>3. ForkPhase'
    <3>1. p = "temp" => n = Len(payloads)
      <4>1. ASSUME n # Len(payloads) PROVE p # "temp"
        <5>1. n + 1 \in 1 .. Len(payloads)
          BY <1>1, <1>2, <4>1
        <5>2. p \in Inputs
          BY <1>1, <1>4, <5>1, ForkPaths
        <5>. QED BY <5>2 DEF Inputs
      <4>. QED BY <4>1
    <3>2. p # "temp" => n < Len(payloads)
      BY <1>1, <1>2, <1>4, ForkPaths
    <3>. QED BY <1>1, <1>2, <1>6, <2>1, <3>1, <3>2 DEF ForkPhase
  <2>. QED BY <2>1, <2>2, <2>3 DEF ForkCore
<1>7. \/ pc' = "rollback" /\ UNCHANGED <<slot, created>>
      \/ /\ slot' = [slot EXCEPT ![p] = "fork"] /\ created' = Append(created, p)
         /\ pc' = (IF p = "temp" THEN "link" ELSE "write") \/ pc' = "rollback"
  BY <1>2, <1>3 DEF WriteNext
<1>. QED BY <1>5, <1>6, <1>7

LEMMA PublishInv == ASSUME ForkInv, Publish PROVE ForkCore'
<1>1. /\ pc = "link" /\ UNCHANGED <<payloads, retained, touched, window, userSteps>>
      /\ payloads \in Wanted /\ userSteps \in Nat
  BY DEF Publish, histories, ForkInv, ForkCore, ForkTypes
<1>2. PICK n \in Nat : n = Len(payloads) /\ Len(created) = n + 1
  BY <1>1, ForkPaths DEF ForkInv, ForkCore, ForkPhase
<1>3. CASE pc' = "rollback" /\ UNCHANGED <<slot, created>>
  BY <1>1, <1>3 DEF ForkInv, ForkCore, ForkTypes, ForkProgress, ForkPhase
<1>4. CASE /\ slot' = [slot EXCEPT !["recipe"] = "fork"]
           /\ created' = Append(created, "recipe") /\ pc' = "unlink"
  <2>1. PICK m \in Nat : m = n + 1 /\ m + 1 = n + 2
    BY <1>2
  <2>2. "recipe" = PathsOf(payloads)[m + 1] /\ m + 1 <= Len(payloads) + 2 /\ Len(created) = m
    BY <1>1, <1>2, <2>1, ForkPaths
  <2>3. /\ slot' \in [Paths -> Owners] /\ slot'["temp"] \in {"none", "fork"}
        /\ created' \in Seq(Paths) /\ Len(created') = m + 1 /\ ForkProgress'
    BY <1>1, <1>4, <2>2, OneMore
  <2>4. ForkTypes' /\ ForkPhase'
    BY <1>1, <1>2, <1>4, <2>1, <2>3 DEF ForkTypes, ForkPhase
  <2>. QED BY <2>3, <2>4 DEF ForkCore
<1>. QED BY <1>3, <1>4 DEF Publish

LEMMA UnlinkTempInv == ASSUME ForkInv, UnlinkTemp PROVE ForkCore'
<1>1. /\ pc = "unlink" /\ UNCHANGED <<payloads, created, retained, touched, window, userSteps>>
  BY DEF UnlinkTemp, histories
<1>2. CASE pc' = "rollback" /\ UNCHANGED slot
  BY <1>1, <1>2 DEF ForkInv, ForkCore, ForkTypes, ForkProgress, ForkPhase
<1>3. CASE slot' = [slot EXCEPT !["temp"] = "none"] /\ pc' = "idle"
  <2>1. slot' \in [Paths -> Owners] /\ slot'["temp"] = "none"
    BY <1>3 DEF ForkInv, ForkCore, ForkTypes, Paths, Owners
  <2>. QED BY <1>1, <1>3, <2>1 DEF ForkInv, ForkCore, ForkTypes, ForkProgress, ForkPhase
<1>. QED BY <1>2, <1>3 DEF UnlinkTemp

\* The youngest path leaves the list: it is no file of the fork's any more, or
\* it is reported.
LEMMA OneLess ==
  ASSUME ForkInv, pc \in {"rollback", "remove"}, created # <<>>, pc' = "rollback",
         UNCHANGED <<payloads, touched, userSteps>>, created' = Front(created),
         retained \subseteq retained',
         \/ UNCHANGED slot
         \/ slot' = [slot EXCEPT ![Last(created)] = "none"],
         slot'[Last(created)] # "fork" \/ Last(created) \in retained'
  PROVE  ForkCore'
<1>0. /\ payloads \in Wanted /\ created \in Seq(Paths) /\ slot \in [Paths -> Owners]
      /\ slot["temp"] \in {"none", "fork"} /\ Len(payloads) \in Nat /\ userSteps \in Nat
  BY ForkPaths DEF ForkInv, ForkCore, ForkTypes
<1>1. PICK n \in Nat : Len(created) = n + 1
  BY <1>0
<1>2. PICK p : p = Last(created)
  OBVIOUS
<1>3. p = created[n + 1] /\ p \in Paths
  BY <1>0, <1>1, <1>2 DEF Last
<1>4. /\ created' \in Seq(Paths) /\ Len(created') = n
      /\ \A k \in 1 .. n : created'[k] = created[k]
  BY <1>0, <1>1 DEF Front
<1>5. /\ n + 1 <= Len(payloads) + 2
      /\ \A k \in 1 .. n + 1 :
           /\ created[k] = PathsOf(payloads)[k]
           /\ slot[PathsOf(payloads)[k]] = "fork" \/ PathsOf(payloads)[k] \in touched
      /\ \A k \in 1 .. Len(payloads) + 2 :
           slot[PathsOf(payloads)[k]] = "fork" => k <= n + 1 \/ PathsOf(payloads)[k] \in retained
  BY <1>1 DEF ForkInv, ForkCore, ForkProgress
<1>6. p = PathsOf(payloads)[n + 1]
  BY <1>3, <1>5
<1>7. /\ slot' \in [Paths -> Owners] /\ slot'["temp"] \in {"none", "fork"}
      /\ \A q \in Paths : q # p => slot'[q] = slot[q]
  <2>1. UNCHANGED slot \/ slot' = [slot EXCEPT ![p] = "none"]
    BY <1>2
  <2>. QED BY <1>0, <1>3, <2>1 DEF Owners, Paths
<1>8. \A k \in 1 .. Len(payloads) + 2 : k # n + 1 =>
        slot'[PathsOf(payloads)[k]] = slot[PathsOf(payloads)[k]]
  <2>1. n + 1 \in 1 .. Len(payloads) + 2
    BY <1>0, <1>5
  <2>. QED BY <1>0, <1>6, <1>7, <2>1, ForkPaths
<1>9. \A k \in 1 .. n :
        /\ created'[k] = PathsOf(payloads)[k]
        /\ slot'[PathsOf(payloads)[k]] = "fork" \/ PathsOf(payloads)[k] \in touched
  <2>1. \A k \in 1 .. n : k \in 1 .. n + 1 /\ k # n + 1 /\ k \in 1 .. Len(payloads) + 2
    BY <1>0, <1>5
  <2>. QED BY <1>4, <1>5, <1>8, <2>1
<1>10. \A k \in 1 .. Len(payloads) + 2 :
         slot'[PathsOf(payloads)[k]] = "fork" => k <= n \/ PathsOf(payloads)[k] \in retained'
  <2>1. ASSUME NEW k \in 1 .. Len(payloads) + 2, slot'[PathsOf(payloads)[k]] = "fork"
        PROVE  k <= n \/ PathsOf(payloads)[k] \in retained'
    <3>1. CASE k = n + 1
      BY <1>2, <1>6, <2>1, <3>1
    <3>2. CASE k # n + 1
      BY <1>0, <1>5, <1>8, <2>1, <3>2
    <3>. QED BY <3>1, <3>2
  <2>. QED BY <2>1
<1>11. ForkProgress'
  <2>1. n <= Len(payloads) + 2
    BY <1>0, <1>5
  <2>. QED BY <1>4, <1>9, <1>10, <2>1 DEF ForkProgress
<1>12. ForkTypes' /\ ForkPhase'
  BY <1>0, <1>4, <1>7 DEF ForkTypes, ForkPhase
<1>. QED BY <1>11, <1>12 DEF ForkCore

LEMMA RollbackNextInv == ASSUME ForkInv, RollbackNext PROVE ForkCore'
<1>1. pc = "rollback" /\ created # <<>> /\ UNCHANGED <<slot, payloads, touched, userSteps>>
  BY DEF RollbackNext
<1>2. CASE slot[Last(created)] \in {"fork", "reused"} /\ pc' = "remove" /\ UNCHANGED <<created, retained>>
  <2>1. slot[created[Len(created)]] # "user"
    BY <1>2 DEF Last
  <2>. QED BY <1>1, <1>2, <2>1 DEF ForkInv, ForkCore, ForkTypes, ForkProgress, ForkPhase
<1>3. CASE /\ created' = Front(created) /\ pc' = pc
           /\ \/ slot[Last(created)] = "none" /\ UNCHANGED retained
              \/ retained' = retained \cup {Last(created)}
  BY <1>1, <1>3, OneLess
<1>. QED BY <1>2, <1>3 DEF RollbackNext

LEMMA RemoveNextInv == ASSUME ForkInv, RemoveNext PROVE ForkCore'
<1>1. /\ pc = "remove" /\ pc' = "rollback" /\ created' = Front(created)
      /\ UNCHANGED <<payloads, touched, userSteps>>
  BY DEF RemoveNext, histories
<1>2. created # <<>> /\ created \in Seq(Paths) /\ slot \in [Paths -> Owners]
  BY <1>1 DEF ForkInv, ForkCore, ForkTypes, ForkPhase
<1>3. Last(created) \in Paths
  BY <1>2 DEF Last
<1>4. CASE slot' = [slot EXCEPT ![Last(created)] = "none"] /\ UNCHANGED retained
  <2>1. slot'[Last(created)] = "none"
    BY <1>2, <1>3, <1>4
  <2>. QED BY <1>1, <1>2, <1>4, <2>1, OneLess
<1>5. CASE retained' = retained \cup {Last(created)} /\ UNCHANGED slot
  BY <1>1, <1>2, <1>5, OneLess
<1>. QED BY <1>4, <1>5 DEF RemoveNext

\* The steps that end a fork change none of its files.
LEMMA EndsInv == ASSUME ForkInv, RollbackEnds \/ Crash PROVE ForkCore'
BY DEF RollbackEnds, Crash, histories, ForkInv, ForkCore, ForkTypes, ForkProgress, ForkPhase

LEMMA UserInv == ASSUME ForkInv, User PROVE ForkCore'
<1>1. PICK p \in Inputs \cup {"recipe"}, kept \in {"user", "none", "reused"} :
        /\ slot' = [slot EXCEPT ![p] = kept]
        /\ touched' = touched \cup {p} /\ window' = window \cup {p}
  BY DEF User
<1>2. /\ UNCHANGED <<pc, payloads, created, retained>> /\ payloads \in Wanted
      /\ created \in Seq(Paths) /\ userSteps' \in Nat
  BY DEF User, ForkInv, ForkCore, ForkTypes
<1>3. /\ slot' \in [Paths -> Owners] /\ slot'["temp"] = slot["temp"] /\ slot'[p] = kept /\ p \in Paths
      /\ \A q \in Paths : q # p => slot'[q] = slot[q]
  BY <1>1 DEF ForkInv, ForkCore, ForkTypes, Paths, Inputs, Owners
<1>4. ForkTypes'
  BY <1>2, <1>3 DEF ForkInv, ForkCore, ForkTypes
<1>5. Len(payloads) \in Nat /\ \A k \in 1 .. Len(payloads) + 2 : PathsOf(payloads)[k] \in Paths
  BY <1>2, ForkPaths
<1>6. ForkProgress'
  <2>. SUFFICES ASSUME pc # "idle" PROVE ForkProgress'
    BY <1>2 DEF ForkProgress
  <2>1. /\ Len(created) <= Len(payloads) + 2
        /\ \A k \in 1 .. Len(created) :
             /\ created[k] = PathsOf(payloads)[k]
             /\ slot[PathsOf(payloads)[k]] = "fork" \/ PathsOf(payloads)[k] \in touched
        /\ \A k \in 1 .. Len(payloads) + 2 :
             slot[PathsOf(payloads)[k]] = "fork" =>
               k <= Len(created) \/ PathsOf(payloads)[k] \in retained
    BY DEF ForkInv, ForkCore, ForkProgress
  <2>2. \A k \in 1 .. Len(created) : k \in 1 .. Len(payloads) + 2
    BY <1>2, <1>5, <2>1
  <2>3. \A k \in 1 .. Len(created) :
          slot'[PathsOf(payloads)[k]] = "fork" \/ PathsOf(payloads)[k] \in touched'
    BY <1>1, <1>3, <1>5, <2>1, <2>2
  <2>4. \A k \in 1 .. Len(payloads) + 2 :
          slot'[PathsOf(payloads)[k]] = "fork" => slot[PathsOf(payloads)[k]] = "fork"
    BY <1>3, <1>5
  <2>. QED BY <1>2, <2>1, <2>3, <2>4 DEF ForkProgress
<1>7. ForkPhase'
  <2>1. ASSUME pc = "remove", slot'[created[Len(created)]] = "user"
        PROVE  created[Len(created)] \in window'
    <3>1. created # <<>> /\ created[Len(created)] \in Paths
      BY <1>2, <2>1 DEF ForkInv, ForkCore, ForkPhase
    <3>2. slot[created[Len(created)]] = "user" => created[Len(created)] \in window
      BY <2>1 DEF ForkInv, ForkCore, ForkPhase
    <3>. QED BY <1>1, <1>3, <2>1, <3>1, <3>2
  <2>. QED BY <1>2, <2>1 DEF ForkInv, ForkCore, ForkPhase
<1>. QED BY <1>4, <1>6, <1>7 DEF ForkCore

\* The recipe is the last path of a fork: while it is the fork's and has not been
\* reported, none of the other paths has been taken away.
LEMMA RecipeLast ==
  ASSUME NEW w \in Wanted, NEW made, NEW at, NEW changed, NEW reported,
         Len(made) <= Len(w) + 2,
         \A k \in 1 .. Len(made) : at[PathsOf(w)[k]] = "fork" \/ PathsOf(w)[k] \in changed,
         \A k \in 1 .. Len(w) + 2 :
           at[PathsOf(w)[k]] = "fork" => k <= Len(made) \/ PathsOf(w)[k] \in reported,
         at["recipe"] = "fork", "recipe" \notin reported, Len(made) \in Nat
  PROVE  \A p \in Range(w) : at[p] = "fork" \/ p \in changed
<1>1. Len(w) \in Nat /\ PathsOf(w)[Len(w) + 2] = "recipe"
  BY ForkPaths
<1>2. Len(w) + 2 <= Len(made)
  BY <1>1
<1>3. TAKE p \in Range(w)
<1>4. PICK k \in 1 .. Len(w) : p = PathsOf(w)[k]
  BY ForkPaths
<1>5. k \in 1 .. Len(made)
  BY <1>1, <1>2
<1>. QED BY <1>4, <1>5

THEOREM ForkInductive == ForkInv /\ [ForkNext]_fvars => ForkInv'
<1> SUFFICES ASSUME ForkInv, [ForkNext]_fvars PROVE ForkInv'
  OBVIOUS
<1>1. ForkCore'
  <2>1. CASE ForkNext
    BY <2>1, PreflightInv, WriteNextInv, PublishInv, UnlinkTempInv, RollbackNextInv,
       RemoveNextInv, EndsInv, UserInv DEF ForkNext
  <2>2. CASE UNCHANGED fvars
    BY <2>2 DEF fvars, histories, ForkInv, ForkCore, ForkTypes, ForkProgress, ForkPhase
  <2>. QED BY <2>1, <2>2
<1>2. CASE pc' # "idle"
  <2>1. payloads' \in Wanted /\ created' \in Seq(Paths)
    BY <1>1 DEF ForkCore, ForkTypes
  <2>2. /\ Len(created') <= Len(payloads') + 2
        /\ \A k \in 1 .. Len(created') :
             slot'[PathsOf(payloads')[k]] = "fork" \/ PathsOf(payloads')[k] \in touched'
        /\ \A k \in 1 .. Len(payloads') + 2 :
             slot'[PathsOf(payloads')[k]] = "fork" =>
               k <= Len(created') \/ PathsOf(payloads')[k] \in retained'
    BY <1>1, <1>2 DEF ForkCore, ForkProgress
  <2>3. Len(created') \in Nat
    BY <2>1
  <2>. HIDE DEF PathsOf
  <2>4. PublishedWhole'
    BY <2>1, <2>2, <2>3, RecipeLast DEF PublishedWhole
  <2>. QED BY <1>1, <2>4 DEF ForkInv
\* Between two forks only the user changes files, and the changes are counted.
<1>3. CASE pc' = "idle"
  <2>1. /\ UNCHANGED <<payloads, retained>> /\ touched \subseteq touched'
        /\ \A p \in Paths : p = "temp" \/ slot'[p] = slot[p] \/ (slot'[p] # "fork" /\ p \in touched')
    <3>1. CASE UnlinkTemp
      BY <1>3, <3>1 DEF UnlinkTemp, histories, ForkInv, ForkCore, ForkTypes
    <3>2. CASE RollbackEnds \/ Crash \/ UNCHANGED fvars
      BY <3>2 DEF RollbackEnds, Crash, fvars, histories
    <3>3. CASE User
      <4>1. PICK p \in Inputs \cup {"recipe"}, kept \in {"user", "none", "reused"} :
              slot' = [slot EXCEPT ![p] = kept] /\ touched' = touched \cup {p}
        BY <3>3 DEF User
      <4>. QED BY <3>3, <4>1 DEF User, ForkInv, ForkCore, ForkTypes
    <3>4. ~(Preflight \/ WriteNext \/ Publish \/ RollbackNext \/ RemoveNext)
      BY <1>3 DEF Preflight, WriteNext, Publish, RollbackNext, RemoveNext
    <3>. QED BY <3>1, <3>2, <3>3, <3>4 DEF ForkNext
  <2>2. \A p \in Range(payloads) : p \in Paths /\ p # "temp"
    BY ForkPaths DEF ForkInv, ForkCore, ForkTypes, Paths, Inputs
  <2>3. PublishedWhole'
    BY <2>1, <2>2 DEF ForkInv, PublishedWhole, Paths
  <2>. QED BY <1>1, <2>3 DEF ForkInv
<1>. QED BY <1>2, <1>3

\* The files of the user: a fork writes only where there is nothing, and its
\* cleanup removes one only when it came after the check.
LEMMA UserKept == ASSUME ForkInv, ForkNext PROVE OthersKept
<1>. SUFFICES ASSUME NEW p \in Paths, slot[p] = "user", slot'[p] # "user"
              PROVE  userSteps' # userSteps \/ p \in window
  BY DEF OthersKept
<1>1. slot \in [Paths -> Owners] /\ p # "temp"
  BY DEF ForkInv, ForkCore, ForkTypes
<1>2. CASE WriteNext
  <2>1. PICK q : UNCHANGED slot \/ (slot[q] = "none" /\ slot' = [slot EXCEPT ![q] = "fork"])
    BY <1>2 DEF WriteNext
  <2>. QED BY <1>1, <2>1
<1>3. CASE RemoveNext
  <2>1. slot' = [slot EXCEPT ![Last(created)] = "none"] /\ pc = "remove"
    BY <1>3 DEF RemoveNext
  <2>2. p = Last(created)
    BY <1>1, <2>1
  <2>. QED BY <2>1, <2>2 DEF ForkInv, ForkCore, ForkPhase, Last
<1>4. CASE User
  BY <1>4 DEF User, ForkInv, ForkCore, ForkTypes
<1>5. CASE Preflight \/ Publish \/ UnlinkTemp
  BY <1>1, <1>5 DEF Preflight, Publish, UnlinkTemp
<1>6. CASE RollbackNext \/ RollbackEnds \/ Crash
  BY <1>6 DEF RollbackNext, RollbackEnds, Crash
<1>. QED BY <1>2, <1>3, <1>4, <1>5, <1>6 DEF ForkNext

\* A cleanup that ends has taken away, or reports, all that the fork made.
LEMMA NothingLeft ==
  ASSUME ForkInv, ForkNext, answer' # answer, answer' \in {"failed", "manual"},
         NEW p \in Range(payloads) \cup {"temp", "recipe"}, slot'[p] = "fork"
  PROVE  answer' = "manual" /\ p \in retained'
<1>1. RollbackEnds
  BY DEF ForkNext, Preflight, WriteNext, Publish, UnlinkTemp, RollbackNext, RemoveNext, Crash, User
<1>2. /\ pc = "rollback" /\ created = <<>> /\ UNCHANGED <<slot, retained>>
      /\ answer' = IF retained = {} THEN "failed" ELSE "manual"
  BY <1>1 DEF RollbackEnds
<1>3. payloads \in Wanted /\ Len(created) = 0
  BY <1>2 DEF ForkInv, ForkCore, ForkTypes
<1>4. PICK k \in 1 .. Len(payloads) + 2 : p = PathsOf(payloads)[k]
  BY <1>3, ForkPaths
<1>5. p \in retained
  BY <1>2, <1>3, <1>4 DEF ForkInv, ForkCore, ForkProgress
<1>. QED BY <1>2, <1>5

\* Project.fork of raveil/project.py: for any number of forks and of changes by
\* the user, wherever a fork stops and whatever its removals answer, a recipe
\* that was published has its input files unless the user changed them or the
\* cleanup reported the recipe, a file of the user's is removed only when it was
\* put there between the identity check and the removal, and a cleanup that
\* ends has left nothing of its own that it does not report.
THEOREM ForksSound == ForkSpec => ForkSound
<1>1. ForkInv /\ [ForkNext]_fvars =>
        [/\ PublishedWhole'
         /\ OthersKept
         /\ answer' # answer /\ answer' \in {"failed", "manual"} =>
               \A p \in Range(payloads) \cup {"temp", "recipe"} :
                  slot'[p] = "fork" => answer' = "manual" /\ p \in retained']_fvars
  <2> SUFFICES ASSUME ForkInv, ForkNext
               PROVE  /\ PublishedWhole'
                      /\ OthersKept
                      /\ answer' # answer /\ answer' \in {"failed", "manual"} =>
                            \A p \in Range(payloads) \cup {"temp", "recipe"} :
                               slot'[p] = "fork" => answer' = "manual" /\ p \in retained'
    OBVIOUS
  <2>1. PublishedWhole'
    BY ForkInductive DEF ForkInv
  <2>. QED BY <2>1, UserKept, NothingLeft
<1>2. ForkInv /\ [ForkNext]_fvars => ForkInv'
  BY ForkInductive
<1>. QED BY <1>1, <1>2, ForkInitially, PTL DEF ForkSpec, ForkSound

----------------------------------------------------------------------------
(* What the session holds belongs to its graph, and a result satisfies the   *)
(* directory's own validation from the moment it exists.                     *)

\* A proposal that proposes something proposes another variant than the first.
ProposalSound ==
  proposal # None =>
    /\ variants_value # <<>>
    /\ ~proposal.abstained => proposal.variant # variants_value[1].id

\* A candidate is measured only after the baseline was, and was right.
RunSound ==
  run.at # "none" =>
    /\ proposal # None /\ ~proposal.abstained
    /\ Structural(graph, variants_value, proposal) /\ Matches(run.base)

\* A result names a variant only with the oracle's output, and another one than
\* the baseline only when it was faster.
Selected(r) ==
  LET o == r.observations IN
  /\ r.selected # "none" => o[1].checksum = "expected" /\ o[1].reference = "expected"
  /\ r.selected \notin {"none", "baseline-ijk"} =>
       /\ o[2].id = r.selected /\ o[2].checksum = "expected"
       /\ o[2].latency < o[1].latency

ResultSound(r) == _validate(r.program, r) /\ Selected(r)

HeldSound ==
  /\ execution_result # None => ResultSound(execution_result) /\ execution_result.program = graph
  /\ command_result # None => command_result = command_program

SavedSound ==
  /\ DOMAIN saved = ResultPaths
  /\ \A f \in ResultPaths : saved[f] # None => ResultSound(saved[f])

ShownSound == shown # None => shown.accepted = shown.own

SessionInv == ProposalSound /\ RunSound /\ HeldSound /\ SavedSound /\ ShownSound

\* The slate begins with the baseline.
LEMMA BaselineFirst == ASSUME NEW p PROVE compile(p)[1].id = "baseline-ijk"
<1>1. PICK a, b, c, d, e :
        /\ a = Variant(p, "baseline-ijk", "ijk", 0, "materialized", TRUE)
        /\ b = Variant(p, "loop-ikj", "ikj", 0, "materialized", FALSE)
        /\ c = Variant(p, "tile32", "tiled", 32, "materialized", FALSE)
        /\ d = Variant(p, "loop-ikj-fused", "ikj", 0, "fused", FALSE)
        /\ e = Variant(p, "tile32-fused", "tiled", 32, "fused", FALSE)
  OBVIOUS
<1>2. PICK tail \in {<<>>, <<d, e>>} : compile(p) = <<a, b, c>> \o tail
  BY <1>1 DEF compile
<1>3. PICK head : head = <<a, b, c>> /\ compile(p) = head \o tail
  BY <1>2
<1>4. /\ head \in Seq({a, b, c, d, e}) /\ tail \in Seq({a, b, c, d, e})
      /\ Len(head) = 3 /\ head[1] = a
  <2>1. PICK S : S = {a, b, c, d, e}
    OBVIOUS
  <2>2. a \in S /\ b \in S /\ c \in S /\ d \in S /\ e \in S
    BY <2>1
  <2>3. head \in Seq(S)
    BY <1>3, <2>2
  <2>4. tail \in Seq(S)
    <3>1. CASE tail = <<>>
      BY <3>1
    <3>2. CASE tail = <<d, e>>
      BY <2>2, <3>2
    <3>. QED BY <1>2, <3>1, <3>2
  <2>5. Len(head) = 3 /\ head[1] = a
    BY <1>3
  <2>. QED BY <2>1, <2>3, <2>4, <2>5
<1>5. Len(tail) \in Nat
  BY <1>4
<1>6. 1 \in 1 .. Len(head) + Len(tail) /\ 1 <= Len(head)
  BY <1>4, <1>5
<1>7. (head \o tail)[1] = head[1]
  BY <1>4, <1>6, ConcatProperties
<1>8. a.id = "baseline-ijk"
  BY <1>1 DEF Variant
<1>. QED BY <1>3, <1>4, <1>7, <1>8

LEMMA NamesOfOne == ASSUME NEW o PROVE [k \in DOMAIN <<o>> |-> <<o>>[k].id] = <<o.id>>
OBVIOUS

LEMMA NamesOfTwo ==
  ASSUME NEW o, NEW q PROVE [k \in DOMAIN <<o, q>> |-> <<o, q>>[k].id] = <<o.id, q.id>>
OBVIOUS

\* A proposal differs from the first variant unless the predictor abstains.
LEMMA Proposes ==
  ASSUME NEW p, NEW vs, ~propose(p, vs).abstained
  PROVE  propose(p, vs).variant # vs[1].id
<1> DEFINE best == CHOOSE v \in Range(vs) : \A w \in Range(vs) : _cost(p, v) <= _cost(p, w)
<1> DEFINE gain == IF _cost(p, best) < 10000 THEN 10000 - _cost(p, best) ELSE 0
<1> DEFINE abstain == best.id = vs[1].id \/ gain < Threshold
<1> DEFINE ids == {v.id : v \in Range(vs)}
<1>1. propose(p, vs) = [variant |-> IF abstain THEN "none" ELSE best.id, abstained |-> abstain,
                        ranking |-> ids, program |-> p, slate |-> vs]
  BY DEF propose
<1>2. best.id = vs[1].id => abstain
  OBVIOUS
<1> HIDE DEF best, gain, abstain, ids
<1>3. propose(p, vs).abstained = abstain
      /\ propose(p, vs).variant = IF abstain THEN "none" ELSE best.id
  BY <1>1
<1>. QED BY <1>2, <1>3

\* The two shapes of a result, whatever the measurements were.
LEMMA OneObservation ==
  ASSUME Structural(graph, variants_value, proposal), NEW x, NEW selected, NEW outcome,
         \/ outcome = "failed-closed" /\ selected = "none"
         \/ /\ outcome = "abstained" /\ selected = variants_value[1].id
            /\ proposal.abstained /\ Matches(x)
  PROVE  ResultSound(Result(selected, outcome, <<Observation(variants_value[1].id, x)>>))
<1>1. PICK o : o = Observation(variants_value[1].id, x)
  OBVIOUS
<1>2. PICK r : r = Result(selected, outcome, <<o>>)
  OBVIOUS
<1>3. /\ r.program = graph /\ r.variants = variants_value /\ r.proposal = proposal
      /\ r.observations = <<o>> /\ r.selected = selected /\ r.outcome = outcome
  BY <1>2 DEF Result
<1>4. /\ o.id = variants_value[1].id /\ o.valid = x.valid /\ o.checksum = x.checksum
      /\ o.reference = x.reference
  BY <1>1 DEF Observation
<1>5. variants_value = compile(graph) /\ variants_value[1].id = "baseline-ijk"
  BY BaselineFirst DEF Structural
<1>6. [k \in DOMAIN r.observations |-> r.observations[k].id] = <<r.variants[1].id>>
  BY <1>3, <1>4, NamesOfOne
<1>7. Matches(x) => Sound(o) /\ o.checksum = "expected" /\ o.reference = "expected"
  BY <1>4 DEF Matches, _valid, Sound
<1>8. _validate(r.program, r)
  <2>1. r.proposal.abstained \/ r.outcome = "failed-closed"
    BY <1>3
  <2>2. r.outcome # "failed-closed" => Sound(r.observations[1])
    BY <1>3, <1>7
  <2>3. ASSUME NEW k \in DOMAIN <<r.variants[1].id>>, <<r.variants[1].id>>[k] = r.selected
        PROVE  Sound(r.observations[k])
    <3>1. k = 1
      OBVIOUS
    <3>2. r.selected = "baseline-ijk"
      BY <1>3, <1>5, <2>3, <3>1
    <3>. QED BY <1>3, <1>7, <3>1, <3>2
  <2>4. \/ r.outcome = "failed-closed" /\ r.selected = "none"
        \/ r.outcome = "abstained" /\ r.proposal.abstained /\ r.selected = r.variants[1].id
    BY <1>3
  <2>5. Structural(r.program, r.variants, r.proposal) /\ r.variants = compile(r.program)
    BY <1>3, <1>5
  <2>6. r.outcome # "committed-proposal"
    BY <1>3
  <2>. QED BY <1>6, <2>1, <2>2, <2>3, <2>4, <2>5, <2>6 DEF _validate
<1>9. Selected(r)
  BY <1>3, <1>5, <1>7 DEF Selected
<1>. QED BY <1>1, <1>2, <1>8, <1>9 DEF ResultSound

LEMMA TwoObservations ==
  ASSUME Structural(graph, variants_value, proposal), ~proposal.abstained,
         proposal.variant # variants_value[1].id, NEW b, NEW x, Matches(b),
         NEW selected, NEW outcome,
         \/ outcome = "rolled-back" /\ selected = variants_value[1].id
         \/ /\ outcome = "committed-proposal" /\ selected = proposal.variant
            /\ Matches(x) /\ b.latency # NoTime /\ x.latency # NoTime /\ x.latency < b.latency
  PROVE  ResultSound(Result(selected, outcome, <<Observation(variants_value[1].id, b),
                                                 Observation(proposal.variant, x)>>))
<1>1. PICK o, q : o = Observation(variants_value[1].id, b) /\ q = Observation(proposal.variant, x)
  OBVIOUS
<1>2. PICK r : r = Result(selected, outcome, <<o, q>>)
  OBVIOUS
<1>3. /\ r.program = graph /\ r.variants = variants_value /\ r.proposal = proposal
      /\ r.observations = <<o, q>> /\ r.selected = selected /\ r.outcome = outcome
  BY <1>2 DEF Result
<1>4. /\ o.id = variants_value[1].id /\ o.valid = b.valid /\ o.checksum = b.checksum
      /\ o.reference = b.reference /\ o.latency = b.latency
      /\ q.id = proposal.variant /\ q.valid = x.valid /\ q.checksum = x.checksum
      /\ q.reference = x.reference /\ q.latency = x.latency
  BY <1>1 DEF Observation
<1>5. variants_value = compile(graph) /\ variants_value[1].id = "baseline-ijk"
  BY BaselineFirst DEF Structural
<1>6. [k \in DOMAIN r.observations |-> r.observations[k].id] =
        <<r.variants[1].id, r.proposal.variant>>
  BY <1>3, <1>4, NamesOfTwo
<1>7. Sound(o) /\ o.checksum = "expected" /\ o.reference = "expected"
  BY <1>4 DEF Matches, _valid, Sound
<1>8. Matches(x) => Sound(q) /\ q.checksum = "expected"
  BY <1>4 DEF Matches, _valid, Sound
<1>9. r.observations[1] = o /\ r.observations[2] = q
  BY <1>3
<1>10. _validate(r.program, r)
  <2>1. ~(r.proposal.abstained \/ r.outcome = "failed-closed")
    BY <1>3
  <2>2. Sound(r.observations[1])
    BY <1>7, <1>9
  <2>3. ASSUME NEW k \in DOMAIN <<r.variants[1].id, r.proposal.variant>>,
               <<r.variants[1].id, r.proposal.variant>>[k] = r.selected
        PROVE  Sound(r.observations[k])
    <3>1. k = 1 \/ k = 2
      OBVIOUS
    <3>2. CASE k = 2
      <4>1. r.selected = proposal.variant
        BY <1>3, <2>3, <3>2
      <4>. QED BY <1>3, <1>8, <1>9, <3>2, <4>1
    <3>. QED BY <2>2, <3>1, <3>2
  <2>4. \/ r.outcome = "rolled-back" /\ ~r.proposal.abstained /\ r.selected = r.variants[1].id
        \/ r.outcome = "committed-proposal" /\ ~r.proposal.abstained
           /\ r.selected = r.proposal.variant
    BY <1>3
  <2>5. Structural(r.program, r.variants, r.proposal) /\ r.variants = compile(r.program)
    BY <1>3, <1>5
  <2>6. r.outcome = "committed-proposal" =>
          /\ NoTime \notin {r.observations[1].latency, r.observations[2].latency}
          /\ r.observations[2].latency < r.observations[1].latency
    BY <1>3, <1>4, <1>9
  <2>. QED BY <1>6, <2>1, <2>2, <2>3, <2>4, <2>5, <2>6 DEF _validate
<1>11. Selected(r)
  BY <1>3, <1>4, <1>5, <1>7, <1>8, <1>9 DEF Selected
<1>. QED BY <1>1, <1>2, <1>10, <1>11 DEF ResultSound

THEOREM SessionInitially == SessionInit => SessionInv
BY DEF SessionInit, SessionInv, ProposalSound, RunSound, NoRun, HeldSound, SavedSound, ShownSound

\* A step that keeps everything the invariant speaks of but the last answers.
LEMMA CreateInv == ASSUME SessionInv, NEW p \in Programs, create_graph(p) PROVE SessionInv'
<1>1. run.at = "none" /\ UNCHANGED <<run, saved, shown>>
  BY DEF create_graph, Idle
<1>2. \/ proposal' = None /\ execution_result' = None /\ command_result' = None
      \/ UNCHANGED <<graph, variants_value, proposal, execution_result, command_program, command_result>>
  BY DEF create_graph, Cleared
<1>. QED BY <1>1, <1>2
         DEF SessionInv, ProposalSound, RunSound, HeldSound, SavedSound, ShownSound

LEMMA CompileInv == ASSUME SessionInv, compile_variants PROVE SessionInv'
<1>1. /\ run.at = "none"
      /\ UNCHANGED <<graph, proposal, execution_result, command_program, command_result, run, saved, shown>>
      /\ variants_value # <<>> => UNCHANGED variants_value
  BY DEF compile_variants, Idle
<1>. QED BY <1>1 DEF SessionInv, ProposalSound, RunSound, HeldSound, SavedSound, ShownSound

LEMMA ProposalInv == ASSUME SessionInv, make_proposal PROVE SessionInv'
<1>1. /\ run.at = "none" /\ variants_value # <<>>
      /\ UNCHANGED <<graph, variants_value, execution_result, command_program, command_result, run,
                     saved, shown>>
      /\ proposal' \in {proposal, propose(graph, variants_value)}
  BY DEF make_proposal, Idle
<1>2. ProposalSound'
  BY <1>1, Proposes DEF SessionInv, ProposalSound
<1>. QED BY <1>1, <1>2 DEF SessionInv, RunSound, HeldSound, SavedSound, ShownSound

\* A command of the session that ends with a result.
LEMMA Finished ==
  ASSUME SessionInv, NEW selected, NEW outcome, NEW observations,
         Finish(Result(selected, outcome, observations)),
         ResultSound(Result(selected, outcome, observations)),
         UNCHANGED <<graph, variants_value, proposal, command_program, command_result, saved, shown>>
  PROVE  SessionInv'
<1>1. /\ run'.at = "none" /\ ResultSound(execution_result') /\ execution_result'.program = graph
      /\ execution_result' = Result(selected, outcome, observations)
  BY DEF Finish, NoRun, Result
<1>2. HeldSound'
  BY <1>1 DEF SessionInv, HeldSound
<1>. QED BY <1>1, <1>2 DEF SessionInv, ProposalSound, RunSound, SavedSound, ShownSound

LEMMA ExecuteInv == ASSUME SessionInv, execute PROVE SessionInv'
<1>1. /\ proposal # None /\ Structural(graph, variants_value, proposal)
      /\ UNCHANGED <<graph, variants_value, proposal, command_program, command_result, saved, shown>>
  BY DEF execute
<1>2. PICK x \in Measurements :
        LET seen == <<Observation(variants_value[1].id, x)>> IN
        \/ ~Matches(x) /\ Finish(Result("none", "failed-closed", seen))
        \/ /\ Matches(x) /\ proposal.abstained
           /\ Finish(Result(variants_value[1].id, "abstained", seen))
        \/ /\ Matches(x) /\ ~proposal.abstained
           /\ run' = [at |-> "proposed", base |-> x] /\ UNCHANGED execution_result
  BY DEF execute
<1>3. PICK seen : seen = <<Observation(variants_value[1].id, x)>>
  OBVIOUS
<1>4. CASE Finish(Result("none", "failed-closed", seen))
  BY <1>1, <1>3, <1>4, OneObservation, Finished
<1>5. CASE Matches(x) /\ proposal.abstained /\ Finish(Result(variants_value[1].id, "abstained", seen))
  BY <1>1, <1>3, <1>5, OneObservation, Finished
<1>6. CASE /\ Matches(x) /\ ~proposal.abstained
           /\ run' = [at |-> "proposed", base |-> x] /\ UNCHANGED execution_result
  <2>1. RunSound'
    BY <1>1, <1>6 DEF RunSound
  <2>. QED BY <1>1, <1>6, <2>1 DEF SessionInv, ProposalSound, HeldSound, SavedSound, ShownSound
<1>. QED BY <1>2, <1>3, <1>4, <1>5, <1>6

LEMMA MeasureInv == ASSUME SessionInv, Measure PROVE SessionInv'
<1>1. /\ run.at = "proposed"
      /\ UNCHANGED <<graph, variants_value, proposal, command_program, command_result, saved, shown>>
  BY DEF Measure
<1>2. /\ ~proposal.abstained /\ Structural(graph, variants_value, proposal) /\ Matches(run.base)
      /\ proposal.variant # variants_value[1].id
  BY <1>1 DEF SessionInv, RunSound, ProposalSound
<1>3. PICK x, selected, outcome :
        /\ Finish(Result(selected, outcome, <<Observation(variants_value[1].id, run.base),
                                              Observation(proposal.variant, x)>>))
        /\ \/ outcome = "rolled-back" /\ selected = variants_value[1].id
           \/ /\ outcome = "committed-proposal" /\ selected = proposal.variant
              /\ Matches(x) /\ run.base.latency # NoTime /\ x.latency # NoTime
              /\ x.latency < run.base.latency
  <2>1. PICK x \in Measurements :
          LET seen == <<Observation(variants_value[1].id, run.base),
                        Observation(proposal.variant, x)>>
          IN \/ Finish(Result(variants_value[1].id, "rolled-back", seen))
             \/ /\ Finish(Result(proposal.variant, "committed-proposal", seen))
                /\ Matches(x) /\ run.base.latency # NoTime /\ x.latency # NoTime
                /\ x.latency < run.base.latency
    BY DEF Measure, compare
  <2>. QED BY <2>1, Zenon
<1>4. ResultSound(Result(selected, outcome, <<Observation(variants_value[1].id, run.base),
                                              Observation(proposal.variant, x)>>))
  BY <1>2, <1>3, TwoObservations
<1>. QED BY <1>1, <1>3, <1>4, Finished

LEMMA InterruptedInv == ASSUME SessionInv, Interrupted PROVE SessionInv'
<1>1. run'.at = "none"
      /\ UNCHANGED <<graph, variants_value, proposal, execution_result, command_program, command_result,
                     saved, shown>>
  BY DEF Interrupted, NoRun
<1>. QED BY <1>1 DEF SessionInv, ProposalSound, RunSound, HeldSound, SavedSound, ShownSound

LEMMA SaveInv == ASSUME SessionInv, NEW f \in ResultPaths, result(f) PROVE SessionInv'
<1>1. /\ execution_result # None /\ saved' = [saved EXCEPT ![f] = execution_result]
      /\ UNCHANGED <<graph, variants_value, proposal, execution_result, command_program, command_result,
                     run, shown>>
  BY DEF result
<1>2. SavedSound'
  BY <1>1 DEF SessionInv, SavedSound, HeldSound
<1>. QED BY <1>1, <1>2 DEF SessionInv, ProposalSound, RunSound, HeldSound, ShownSound

LEMMA ResetInv == ASSUME SessionInv, reset PROVE SessionInv'
<1>1. /\ run.at = "none" /\ UNCHANGED <<run, saved, shown>>
      /\ proposal' = None /\ execution_result' = None /\ command_result' = None
  BY DEF reset, Idle, Cleared
<1>. QED BY <1>1 DEF SessionInv, ProposalSound, RunSound, HeldSound, SavedSound, ShownSound

LEMMA CommandInv ==
  ASSUME SessionInv, execute_command_graph \/ \E l \in Lines : compile_command_graph(l)
  PROVE  SessionInv'
<1>1. /\ command_result' = None \/ command_result' = command_program'
      /\ UNCHANGED <<graph, variants_value, proposal, execution_result, run, saved, shown>>
  BY DEF execute_command_graph, compile_command_graph
<1>. QED BY <1>1 DEF SessionInv, ProposalSound, RunSound, HeldSound, SavedSound, ShownSound

\* The directory view refuses a result only with the program of another.
LEMMA MaterializeInv ==
  ASSUME SessionInv, NEW f \in ResultPaths, NEW p \in Programs, materialize(f, p)
  PROVE  SessionInv'
<1>1. /\ saved[f] # None
      /\ shown' = [own |-> saved[f].program = p, accepted |-> _validate(p, saved[f])]
      /\ UNCHANGED <<graph, variants_value, proposal, execution_result, command_program, command_result,
                     run, saved>>
  BY DEF materialize
<1>2. _validate(saved[f].program, saved[f])
  BY <1>1 DEF SessionInv, SavedSound, ResultSound
<1>3. CASE saved[f].program = p
  <2>1. _validate(p, saved[f]) = TRUE /\ (saved[f].program = p) = TRUE
    BY <1>2, <1>3 DEF _validate
  <2>2. shown'.accepted = shown'.own
    BY <1>1, <2>1, Zenon
  <2>. QED BY <1>1, <2>2 DEF SessionInv, ProposalSound, RunSound, HeldSound, SavedSound, ShownSound
<1>4. CASE saved[f].program # p
  <2>1. _validate(p, saved[f]) = FALSE /\ (saved[f].program = p) = FALSE
    BY <1>4 DEF _validate
  <2>2. shown'.accepted = shown'.own
    BY <1>1, <2>1, Zenon
  <2>. QED BY <1>1, <2>2 DEF SessionInv, ProposalSound, RunSound, HeldSound, SavedSound, ShownSound
<1>. QED BY <1>3, <1>4

THEOREM SessionInductive == SessionInv /\ [SessionNext]_svars => SessionInv'
<1> SUFFICES ASSUME SessionInv, [SessionNext]_svars PROVE SessionInv'
  OBVIOUS
<1>1. CASE \E p \in Programs : create_graph(p)
  BY <1>1, CreateInv
<1>2. CASE compile_variants
  BY <1>2, CompileInv
<1>3. CASE make_proposal
  BY <1>3, ProposalInv
<1>4. CASE execute
  BY <1>4, ExecuteInv
<1>5. CASE Measure
  BY <1>5, MeasureInv
<1>6. CASE Interrupted
  BY <1>6, InterruptedInv
<1>7. CASE reset
  BY <1>7, ResetInv
<1>8. CASE execute_command_graph \/ \E l \in Lines : compile_command_graph(l)
  BY <1>8, CommandInv
<1>9. CASE \E f \in ResultPaths : result(f)
  BY <1>9, SaveInv
<1>10. CASE \E f \in ResultPaths : \E p \in Programs : materialize(f, p)
  BY <1>10, MaterializeInv
<1>11. CASE UNCHANGED svars
  BY <1>11 DEF svars, SessionInv, ProposalSound, RunSound, HeldSound, SavedSound, ShownSound
<1>. QED BY <1>1, <1>2, <1>3, <1>4, <1>5, <1>6, <1>7, <1>8, <1>9, <1>10, <1>11 DEF SessionNext

LEMMA SessionInvariant == SessionSpec => []SessionInv
BY SessionInitially, SessionInductive, PTL DEF SessionSpec

\* The interactive workflow of raveil/interactive_shell.py and the directory
\* view of graph_directory.py: for any shapes, any threshold of the predictor
\* and any measurements, a result is about the graph of the session, commits
\* only what the oracle confirmed on both runs, and is accepted later exactly
\* with its own program.
THEOREM SessionIsSound == SessionSpec => []GraphSound
<1>1. SessionInv => GraphSound
  <2> SUFFICES ASSUME SessionInv PROVE GraphSound
    OBVIOUS
  <2>1. execution_result # None =>
          /\ execution_result.program = graph /\ execution_result.proposal.program = graph
          /\ Selected(execution_result)
    BY DEF SessionInv, HeldSound, ResultSound, _validate, Structural
  <2>. QED BY <2>1 DEF SessionInv, HeldSound, ShownSound, Selected, GraphSound
<1>. QED BY <1>1, SessionInvariant, PTL

----------------------------------------------------------------------------
(* A parent run: what its children are, what its directory holds, and who    *)
(* can still write at each step.                                             *)

Children == [ok : BOOLEAN, touched : BOOLEAN, source : Nat, out : Nat, build : Nat]
Steps == {"idle", "freeze", "child", "container", "cleanup", "collect", "assemble", "inventory",
          "sha", "link", "commit", "load"}
Executing == {"child", "container", "cleanup", "collect", "assemble"}
Recording == {"sha", "link", "commit", "load"}
Fresh == step = "idle" /\ told = "nothing"
Recorded == parent.record # "none"

ParentTypes ==
  /\ kind \in Kinds /\ step \in Steps /\ strays \in Nat
  /\ live \in [input : Nat, build : Nat]
  /\ children \in Seq(Children)
  /\ parent \in [input : Nat, build : Nat, sha : BOOLEAN, pending : BOOLEAN,
                 record : {"none", "succeeded", "incomplete"}, files : Seq(Children)]

\* Every child was run as the parent asked for, and only the last one may have
\* failed.
ChildSound(i) ==
  /\ children[i].source = Source(i) /\ children[i].out = 10 * Source(i) + i
  /\ Contained => children[i].build = parent.build
  /\ ~children[i].ok => Unwinds /\ i = Len(children)

ChildrenMade == \A i \in 1 .. Len(children) : ChildSound(i)
Untouched == \A i \in 1 .. Len(children) : ~children[i].touched
AllOk == \A i \in 1 .. Len(children) : children[i].ok
Whole == Len(children) = Count /\ AllOk /\ (kind \in GraphKinds => SameBuild)
Inspected == inspect(status)

\* How far the parent is at each step.
ParentProgress ==
  /\ ChildrenMade /\ (strays = 0 => Untouched)
  /\ Len(children) <= Count
  /\ step \in {"container", "cleanup", "collect"} => Len(children) < Count
  /\ step \in Executing => AllOk
  /\ Fresh \/ step = "freeze" => children = <<>>
  /\ step = "assemble" => Len(children) = Count

\* What the verdict says of the children, from the assembly on.
VerdictSound ==
  /\ Fresh \/ step \in {"freeze"} \cup Executing => status = "none"
  /\ step \in {"inventory"} \cup Recording => status \in {"succeeded", "incomplete"}
  /\ status = "succeeded" => Whole

FilesSound == \A i \in 1 .. Len(parent.files) : parent.files[i].ok \/ i = Len(parent.files)

\* The directory: an inventory of the children that hold still, and a record
\* that can be loaded again unless something strayed.
RecordSound ==
  /\ Recorded => step \in {"commit", "load"} \/ (step = "idle" /\ told # "nothing")
  /\ step \in Recording \/ Recorded =>
       /\ strays = 0 => parent.files = children
       /\ strays = 0 /\ Unwinds => Inspected
       /\ status \in {"succeeded", "incomplete"}
  /\ step \in {"link", "commit", "load"} \/ Recorded => parent.sha
  /\ step \in {"commit", "load"} \/ Recorded => parent.record = status
  /\ FilesSound

\* The containers: none is left where the client is not waited for.
DockerSound ==
  /\ docker \in [client : {"none", "running", "ok", "failed", "killed"},
                 daemon : {"none", "queued", "running", "gone"}, cid : BOOLEAN]
  /\ docker.cid => docker.daemon \in {"running", "gone"}
  /\ docker.client = "ok" => docker.daemon = "gone"
  /\ step \notin {"container", "cleanup"} /\ told # "uncertain" =>
       docker.daemon \in {"none", "gone"}

\* The caller hears at the end, and only of what is published.
AnswerSound ==
  /\ step # "idle" => told = "nothing"
  /\ told = "succeeded" => parent.record = "succeeded"
  /\ told \in {"stopped", "uncertain"} => parent.record = "none"
  /\ step = "load" /\ kind = "array" => committed

ParentInv ==
  ParentTypes /\ ParentProgress /\ VerdictSound /\ RecordSound /\ DockerSound /\ AnswerSound

THEOREM ParentInitially == ParentInit => ParentInv
<1> SUFFICES ASSUME ParentInit PROVE ParentInv
  OBVIOUS
<1>1. ParentTypes
  BY DEF ParentInit, ParentTypes, NoParent, Steps
<1>2. Count \in Nat /\ children = <<>> /\ parent.files = <<>>
  BY ParentConstants DEF ParentInit, NoParent, Count
<1>3. ParentProgress
  BY <1>2 DEF ParentInit, ParentProgress, ChildrenMade, Untouched, AllOk, Executing
<1>4. VerdictSound
  BY DEF ParentInit, VerdictSound, Recording
<1>5. RecordSound
  BY <1>2 DEF ParentInit, RecordSound, Recorded, Recording, FilesSound, NoParent
<1>6. DockerSound /\ AnswerSound
  BY DEF ParentInit, DockerSound, AnswerSound, NoDocker
<1>. QED BY <1>1, <1>3, <1>4, <1>5, <1>6 DEF ParentInv

LEMMA ChildCount == Count \in Nat \ {0}
BY ParentConstants DEF Count

\* What is said of the children while they and the sources they were given stay.
LEMMA SameChildren ==
  ASSUME UNCHANGED <<kind, children>>, parent'.input = parent.input, parent'.build = parent.build
  PROVE  /\ Count' = Count /\ (Contained' <=> Contained) /\ (Unwinds' <=> Unwinds)
         /\ (ChildrenMade' <=> ChildrenMade) /\ (Untouched' <=> Untouched) /\ (AllOk' <=> AllOk)
         /\ (SameBuild' <=> SameBuild) /\ (Whole' <=> Whole)
<1>1. Count' = Count /\ (Contained' <=> Contained) /\ (Unwinds' <=> Unwinds)
  BY DEF Count, Contained, Unwinds
<1>2. (Untouched' <=> Untouched) /\ (AllOk' <=> AllOk) /\ (SameBuild' <=> SameBuild)
  BY DEF Untouched, AllOk, SameBuild
<1>3. ChildrenMade' <=> ChildrenMade
  BY DEF ChildrenMade, ChildSound, Contained, Unwinds, Source
<1>4. Whole' <=> Whole
  BY <1>1, <1>2 DEF Whole
<1>. QED BY <1>1, <1>2, <1>3, <1>4

LEMMA SameInspection ==
  ASSUME UNCHANGED <<kind, children, status>>, parent'.input = parent.input,
         parent'.build = parent.build
  PROVE  Inspected' <=> Inspected
BY DEF Inspected, inspect, inspect_dag, inspect_batch, inspect_grid, inspect_flow, inspect_array,
       load_fold, load_composition, load_tiling, Prefix, Complete, ChildProof, Count, Contained,
       SameBuild, Source

\* A step that leaves the children and the directory alone: the rest is to show.
LEMMA Elsewhere ==
  ASSUME ParentInv, UNCHANGED <<live, parent, kind, children, strays>>, step' \in Steps,
         step' \in {"container", "cleanup", "collect"} => Len(children) < Count,
         step' \in Executing => AllOk,
         Fresh' \/ step' = "freeze" => children = <<>>,
         step' = "assemble" => Len(children) = Count,
         VerdictSound', DockerSound', AnswerSound',
         Recorded => step' \in {"commit", "load"} \/ (step' = "idle" /\ told' # "nothing"),
         step' \in Recording \/ Recorded => UNCHANGED status /\ (step \in Recording \/ Recorded),
         step' \in {"link", "commit", "load"} => parent.sha,
         step' \in {"commit", "load"} => parent.record = status'
  PROVE  ParentInv'
<1>1. /\ Count' = Count /\ (Unwinds' <=> Unwinds) /\ (ChildrenMade' <=> ChildrenMade)
      /\ (Untouched' <=> Untouched) /\ (AllOk' <=> AllOk)
  BY SameChildren
<1>2. ParentTypes'
  BY DEF ParentInv, ParentTypes
<1>3. ParentProgress'
  BY <1>1 DEF ParentInv, ParentProgress
<1>4. UNCHANGED status => (Inspected' <=> Inspected)
  BY SameInspection
<1>5. (Recorded' <=> Recorded) /\ (FilesSound' <=> FilesSound)
  BY DEF Recorded, FilesSound
<1>6. RecordSound'
  BY <1>1, <1>4, <1>5 DEF ParentInv, RecordSound
<1>. QED BY <1>2, <1>3, <1>6 DEF ParentInv

LEMMA EditSourcesInv == ASSUME ParentInv, EditSources PROVE ParentInv'
<1>1. /\ live' \in [input : Nat, build : Nat]
      /\ UNCHANGED <<parent, step, kind, children, status, committed, docker, told, strays>>
  BY DEF EditSources, ParentInv, ParentTypes
<1>2. ParentTypes'
  BY <1>1 DEF ParentInv, ParentTypes
<1>3. /\ Count' = Count /\ (Unwinds' <=> Unwinds) /\ (ChildrenMade' <=> ChildrenMade)
      /\ (Untouched' <=> Untouched) /\ (AllOk' <=> AllOk) /\ (Whole' <=> Whole)
      /\ (Inspected' <=> Inspected)
  BY <1>1, SameChildren, SameInspection
<1>4. (Recorded' <=> Recorded) /\ (FilesSound' <=> FilesSound) /\ (Fresh' <=> Fresh)
  BY <1>1 DEF Recorded, FilesSound, Fresh
<1>. QED BY <1>1, <1>2, <1>3, <1>4
         DEF ParentInv, ParentProgress, VerdictSound, RecordSound, DockerSound, AnswerSound

\* Something strays into a child: nothing is promised of the directory from then on.
LEMMA StrayInv == ASSUME ParentInv, Stray PROVE ParentInv'
<1>1. /\ strays' = strays + 1
      /\ UNCHANGED <<live, parent, step, kind, status, committed, docker, told>>
  BY DEF Stray
<1>2. PICK i \in DOMAIN children : children' = [children EXCEPT ![i].touched = TRUE]
  BY DEF Stray
<1>3. children \in Seq(Children) /\ strays \in Nat /\ i \in 1 .. Len(children)
  BY <1>2 DEF ParentInv, ParentTypes
<1>4. [children[i] EXCEPT !.touched = TRUE] \in Children
  <2>1. \A c \in Children : [c EXCEPT !.touched = TRUE] \in Children
    BY DEF Children
  <2>2. children[i] \in Children
    BY <1>3
  <2>. QED BY <2>1, <2>2
<1>5. /\ children' \in Seq(Children) /\ Len(children') = Len(children)
      /\ \A k \in 1 .. Len(children) :
           /\ children'[k].ok = children[k].ok /\ children'[k].source = children[k].source
           /\ children'[k].out = children[k].out /\ children'[k].build = children[k].build
  <2>1. children' = [children EXCEPT ![i] = [children[i] EXCEPT !.touched = TRUE]]
    BY <1>2
  <2>2. children' \in Seq(Children) /\ Len(children') = Len(children)
    BY <1>3, <1>4, <2>1
  <2>3. /\ [children[i] EXCEPT !.touched = TRUE].ok = children[i].ok
        /\ [children[i] EXCEPT !.touched = TRUE].source = children[i].source
        /\ [children[i] EXCEPT !.touched = TRUE].out = children[i].out
        /\ [children[i] EXCEPT !.touched = TRUE].build = children[i].build
    BY <1>3 DEF Children
  <2>4. \A k \in 1 .. Len(children) :
          children'[k] = IF k = i THEN [children[i] EXCEPT !.touched = TRUE] ELSE children[k]
    BY <1>3, <2>1
  <2>. QED BY <2>2, <2>3, <2>4
<1>6. Count' = Count /\ (Unwinds' <=> Unwinds) /\ (Contained' <=> Contained)
  BY <1>1 DEF Count, Unwinds, Contained
<1>7. AllOk => AllOk'
  BY <1>5 DEF AllOk
<1>8. ChildrenMade'
  <2>1. ASSUME NEW k \in 1 .. Len(children) PROVE ChildSound(k)'
    <3>1. ChildSound(k) /\ Len(children) \in Nat
      BY <1>3 DEF ParentInv, ParentProgress, ChildrenMade
    <3>2. Source(k)' = Source(k)
      BY <1>1, <1>5, <3>1 DEF Source
    <3>. QED BY <1>1, <1>5, <1>6, <3>1, <3>2 DEF ChildSound
  <2>. QED BY <1>5, <2>1 DEF ChildrenMade
<1>9. Whole => Whole'
  <2>1. SameBuild => SameBuild'
    <3>1. DOMAIN children' = 1 .. Len(children) /\ DOMAIN children = 1 .. Len(children)
          /\ Len(children) \in Nat
      BY <1>3, <1>5
    <3>. QED BY <1>5, <3>1 DEF SameBuild
  <2>. QED BY <1>1, <1>5, <1>6, <1>7, <2>1 DEF Whole
<1>10. children # <<>> /\ strays' \in Nat /\ strays' # 0
  BY <1>1, <1>3
<1>11. ParentTypes'
  BY <1>1, <1>5, <1>10 DEF ParentInv, ParentTypes
<1>12. ParentProgress'
  BY <1>1, <1>5, <1>6, <1>7, <1>8, <1>10 DEF ParentInv, ParentProgress, Fresh
<1>13. VerdictSound'
  BY <1>1, <1>9 DEF ParentInv, VerdictSound, Fresh
<1>14. RecordSound'
  BY <1>1, <1>10 DEF ParentInv, RecordSound, Recorded, FilesSound
<1>. QED BY <1>1, <1>11, <1>12, <1>13, <1>14 DEF ParentInv, DockerSound, AnswerSound

LEMMA RequestStopInv == ASSUME ParentInv, RequestStop PROVE ParentInv'
<1>1. UNCHANGED <<live, parent, step, kind, children, status, committed, docker, told, strays>>
  BY DEF RequestStop
<1>2. Whole' <=> Whole
  BY <1>1, SameChildren
<1>3. VerdictSound' /\ DockerSound' /\ AnswerSound'
  BY <1>1, <1>2 DEF ParentInv, VerdictSound, DockerSound, AnswerSound, Fresh
<1>. QED BY <1>1, <1>3, Elsewhere
         DEF ParentInv, ParentTypes, ParentProgress, RecordSound, Fresh

LEMMA AdmitInv == ASSUME ParentInv, Admit PROVE ParentInv'
<1>1. /\ Fresh /\ step' = "freeze"
      /\ parent' = [NoParent EXCEPT !.input = live.input, !.build = live.build]
      /\ UNCHANGED <<live, kind, children, status, committed, docker, told, strays>>
  BY DEF Admit, Fresh
<1>2. children = <<>> /\ status = "none" /\ ~Recorded
  BY <1>1 DEF ParentInv, ParentProgress, VerdictSound, RecordSound, Fresh
<1>3. /\ parent' \in [input : Nat, build : Nat, sha : BOOLEAN, pending : BOOLEAN,
                      record : {"none", "succeeded", "incomplete"}, files : Seq(Children)]
      /\ parent'.record = "none" /\ parent'.files = <<>>
  <2>1. parent' = [input |-> live.input, build |-> live.build, sha |-> FALSE, pending |-> FALSE,
                   record |-> "none", files |-> <<>>]
    BY <1>1 DEF NoParent
  <2>2. live.input \in Nat /\ live.build \in Nat
    BY DEF ParentInv, ParentTypes
  <2>. QED BY <2>1, <2>2
<1>4. ParentTypes'
  BY <1>1, <1>3 DEF ParentInv, ParentTypes, Steps
<1>5. Count' = Count /\ Count \in Nat
  BY <1>1, ChildCount DEF Count
<1>6. ParentProgress'
  BY <1>1, <1>2, <1>5
     DEF ParentProgress, ChildrenMade, Untouched, AllOk, Executing
<1>7. VerdictSound'
  BY <1>1, <1>2 DEF VerdictSound, Recording
<1>8. RecordSound'
  BY <1>1, <1>3 DEF RecordSound, Recorded, Recording, FilesSound
<1>9. DockerSound' /\ AnswerSound'
  BY <1>1, <1>3 DEF ParentInv, DockerSound, AnswerSound, Fresh
<1>. QED BY <1>4, <1>6, <1>7, <1>8, <1>9 DEF ParentInv

LEMMA FreezeInv == ASSUME ParentInv, FreezeFold \/ FreezeBuild \/ FreezePlan PROVE ParentInv'
<1>1. /\ step = "freeze" /\ UNCHANGED <<live, parent, kind, children, docker, committed, strays>>
      /\ \/ step' = "inventory" /\ status' = "incomplete" /\ UNCHANGED told
         \/ step' = "idle" /\ told' = "error" /\ UNCHANGED status
         \/ step' = "child" /\ UNCHANGED <<status, told>>
  BY DEF FreezeFold, FreezeBuild, FreezePlan
<1>2. children = <<>> /\ status = "none" /\ ~Recorded /\ told = "nothing" /\ AllOk
  <2>1. children = <<>> /\ status = "none" /\ ~Recorded /\ told = "nothing"
    BY <1>1 DEF ParentInv, ParentProgress, VerdictSound, RecordSound, AnswerSound
  <2>. QED BY <2>1 DEF AllOk
<1>3. VerdictSound' /\ DockerSound' /\ AnswerSound'
  BY <1>1, <1>2
     DEF ParentInv, VerdictSound, DockerSound, AnswerSound, Fresh, Executing, Recording, Recorded
<1>. QED BY <1>1, <1>2, <1>3, Elsewhere DEF Steps, Executing, Recording, Fresh

\* The ways a step of the execution ends early.
LEMMA StopHereInv ==
  ASSUME ParentInv, step \in Executing, StopHere, step \notin {"container", "cleanup"} \/ 
           docker'.daemon \in {"none", "gone"},
         UNCHANGED <<live, parent, kind, children, committed, strays>>,
         docker' \in [client : {"none", "running", "ok", "failed", "killed"},
                      daemon : {"none", "queued", "running", "gone"}, cid : BOOLEAN],
         docker'.cid => docker'.daemon \in {"running", "gone"},
         docker'.client = "ok" => docker'.daemon = "gone",
         step \notin {"container", "cleanup"} => UNCHANGED docker
  PROVE  ParentInv'
<1>1. \/ step' = "inventory" /\ status' = "incomplete" /\ UNCHANGED told
      \/ step' = "idle" /\ told' \in {"stopped", "interrupted"} /\ UNCHANGED status
  BY DEF StopHere
<1>2. status = "none" /\ ~Recorded /\ told = "nothing"
  BY DEF ParentInv, VerdictSound, RecordSound, AnswerSound, Executing
<1>3. docker'.daemon \in {"none", "gone"}
  BY <1>2 DEF ParentInv, DockerSound
<1>4. VerdictSound' /\ DockerSound' /\ AnswerSound'
  BY <1>1, <1>2, <1>3
     DEF VerdictSound, DockerSound, AnswerSound, Fresh, Executing, Recording, Recorded
<1>. QED BY <1>1, <1>2, <1>4, Elsewhere DEF Steps, Executing, Recording, Fresh

LEMMA ChildBeginsInv == ASSUME ParentInv, ChildBegins PROVE ParentInv'
<1>1. step = "child" /\ UNCHANGED <<live, parent, kind, children, committed, strays>>
  BY DEF ChildBegins
<1>2. status = "none" /\ ~Recorded /\ told = "nothing" /\ AllOk /\ docker.daemon \in {"none", "gone"}
  BY <1>1 DEF ParentInv, ParentProgress, VerdictSound, RecordSound, AnswerSound, DockerSound, Executing
<1>3. Len(children) \in Nat /\ Len(children) <= Count /\ Count \in Nat
  BY ChildCount DEF ParentInv, ParentTypes, ParentProgress
<1>4. \/ Len(children) = Count /\ step' = "assemble" /\ UNCHANGED <<docker, told, status>>
      \/ StopHere /\ UNCHANGED docker
      \/ /\ Len(children) # Count /\ UNCHANGED <<told, status>>
         /\ \/ step' = "container"
               /\ docker' = [client |-> "running", daemon |-> "queued", cid |-> FALSE]
            \/ step' = "collect" /\ UNCHANGED docker
  BY DEF ChildBegins
<1>5. CASE StopHere /\ UNCHANGED docker
  BY <1>1, <1>2, <1>5, StopHereInv DEF ParentInv, DockerSound, Executing
<1>6. CASE /\ UNCHANGED <<told, status>>
           /\ \/ Len(children) = Count /\ step' = "assemble" /\ UNCHANGED docker
              \/ /\ Len(children) # Count /\ step' = "container"
                 /\ docker' = [client |-> "running", daemon |-> "queued", cid |-> FALSE]
              \/ Len(children) # Count /\ step' = "collect" /\ UNCHANGED docker
  <2>1. VerdictSound'
    BY <1>2, <1>6 DEF VerdictSound, Fresh, Executing, Recording
  <2>2. DockerSound'
    <3>1. CASE UNCHANGED docker /\ step' \in {"assemble", "collect"}
      BY <1>1, <1>2, <1>6, <3>1 DEF ParentInv, DockerSound
    <3>2. CASE docker' = [client |-> "running", daemon |-> "queued", cid |-> FALSE]
               /\ step' = "container"
      BY <1>6, <3>2 DEF DockerSound
    <3>. QED BY <1>6, <3>1, <3>2
  <2>3. AnswerSound'
    BY <1>1, <1>2, <1>6 DEF AnswerSound, Recorded
  <2>. QED BY <1>1, <1>2, <1>3, <1>6, <2>1, <2>2, <2>3, Elsewhere DEF Steps, Executing, Recording, Fresh
<1>. QED BY <1>4, <1>5, <1>6

LEMMA DaemonInv == ASSUME ParentInv, Daemon PROVE ParentInv'
<1>1. UNCHANGED <<live, parent, step, kind, children, status, committed, told, strays>>
  BY DEF Daemon
<1>2. Whole' <=> Whole
  BY <1>1, SameChildren
<1>3. VerdictSound' /\ AnswerSound'
  BY <1>1, <1>2 DEF ParentInv, VerdictSound, AnswerSound, Fresh
<1>4. \/ docker.daemon = "queued" /\ docker' = [docker EXCEPT !.daemon = "running"]
      \/ docker.daemon = "running" /\ docker' = [docker EXCEPT !.daemon = "gone"]
      \/ docker.daemon \in {"running", "gone"} /\ docker' = [docker EXCEPT !.cid = TRUE]
  BY DEF Daemon
<1>5. DockerSound'
  BY <1>1, <1>4 DEF ParentInv, DockerSound
<1>. QED BY <1>1, <1>3, <1>5, Elsewhere
         DEF ParentInv, ParentTypes, ParentProgress, RecordSound, Fresh

LEMMA ClientEndsInv == ASSUME ParentInv, ClientEnds PROVE ParentInv'
<1>1. /\ step = "container" /\ step' = "cleanup"
      /\ UNCHANGED <<live, parent, kind, children, status, committed, told, strays>>
  BY DEF ClientEnds
<1>2. status = "none" /\ ~Recorded /\ told = "nothing" /\ AllOk /\ Len(children) < Count
  BY <1>1 DEF ParentInv, ParentProgress, VerdictSound, RecordSound, AnswerSound, Executing
<1>3. PICK how \in {"ok", "failed", "killed"} :
        /\ how = "ok" => docker.daemon = "gone"
        /\ docker' = [docker EXCEPT !.client = how]
  BY DEF ClientEnds
<1>4. DockerSound'
  BY <1>1, <1>3 DEF ParentInv, DockerSound
<1>5. VerdictSound' /\ AnswerSound'
  BY <1>1, <1>2 DEF VerdictSound, AnswerSound, Fresh, Executing, Recording, Recorded
<1>. QED BY <1>1, <1>2, <1>4, <1>5, Elsewhere DEF Steps, Executing, Recording, Fresh

\* The cleanup goes on only when no container is left.
LEMMA CleanupInv == ASSUME ParentInv, Cleanup PROVE ParentInv'
<1>1. step = "cleanup" /\ UNCHANGED <<live, parent, kind, children, committed, strays>>
  BY DEF Cleanup
<1>2. status = "none" /\ ~Recorded /\ told = "nothing" /\ AllOk /\ Len(children) < Count
  BY <1>1 DEF ParentInv, ParentProgress, VerdictSound, RecordSound, AnswerSound, Executing
<1>3. PICK rmFails \in BOOLEAN, removed \in BOOLEAN :
        /\ removed <=> ~rmFails /\ docker.daemon = "running"
        /\ docker' = [docker EXCEPT !.daemon = IF removed THEN "gone" ELSE @]
        /\ \/ (rmFails \/ ~Acknowledged(removed)) /\ told' = "uncertain" /\ step' = "idle" /\ UNCHANGED status
           \/ ~rmFails /\ Acknowledged(removed) /\ StopHere
           \/ ~rmFails /\ Acknowledged(removed) /\ step' = "collect" /\ UNCHANGED <<told, status>>
  BY DEF Cleanup
<1>4. docker \in [client : {"none", "running", "ok", "failed", "killed"},
                 daemon : {"none", "queued", "running", "gone"}, cid : BOOLEAN]
      /\ (docker.cid => docker.daemon \in {"running", "gone"})
      /\ (docker.client = "ok" => docker.daemon = "gone")
  BY DEF ParentInv, DockerSound
<1>5. /\ docker' \in [client : {"none", "running", "ok", "failed", "killed"},
                      daemon : {"none", "queued", "running", "gone"}, cid : BOOLEAN]
      /\ docker'.cid => docker'.daemon \in {"running", "gone"}
      /\ docker'.client = "ok" => docker'.daemon = "gone"
  <2>1. CASE removed
    <3>1. docker' = [docker EXCEPT !.daemon = "gone"]
      BY <1>3, <2>1
    <3>. QED BY <1>4, <3>1
  <2>2. CASE ~removed
    <3>1. docker' = docker
      BY <1>3, <1>4, <2>2
    <3>. QED BY <1>4, <3>1
  <2>. QED BY <2>1, <2>2
<1>6. ~rmFails /\ Acknowledged(removed) => docker'.daemon = "gone"
  <2>1. CASE removed
    BY <1>3, <1>4, <2>1
  <2>2. CASE ~removed
    BY <1>3, <1>4, <2>2 DEF Acknowledged
  <2>. QED BY <2>1, <2>2
<1>7. CASE told' = "uncertain" /\ step' = "idle" /\ UNCHANGED status
  <2>1. VerdictSound' /\ DockerSound' /\ AnswerSound'
    BY <1>1, <1>2, <1>5, <1>7
       DEF VerdictSound, DockerSound, AnswerSound, Fresh, Executing, Recording, Recorded
  <2>. QED BY <1>1, <1>2, <1>7, <2>1, Elsewhere DEF Steps, Executing, Recording, Fresh
<1>8. CASE docker'.daemon = "gone" /\ StopHere
  BY <1>1, <1>5, <1>8, StopHereInv DEF Executing
<1>9. CASE docker'.daemon = "gone" /\ step' = "collect" /\ UNCHANGED <<told, status>>
  <2>1. VerdictSound' /\ DockerSound' /\ AnswerSound'
    BY <1>1, <1>2, <1>5, <1>9
       DEF VerdictSound, DockerSound, AnswerSound, Fresh, Executing, Recording, Recorded
  <2>. QED BY <1>1, <1>2, <1>9, <2>1, Elsewhere DEF Steps, Executing, Recording, Fresh
<1>. QED BY <1>3, <1>6, <1>7, <1>8, <1>9

\* A child is collected: it ran on the source of its position.
LEMMA ChildAppended ==
  ASSUME ParentInv, step = "collect", UNCHANGED <<kind, parent>>, NEW child \in Children,
         children' = Append(children, child),
         child.source = Source(Len(children) + 1),
         child.out = 10 * Source(Len(children) + 1) + (Len(children) + 1),
         Contained => child.build = parent.build, ~child.touched, child.ok \/ Unwinds
  PROVE  /\ children' \in Seq(Children) /\ Len(children') = Len(children) + 1
         /\ Len(children') <= Count /\ ChildrenMade' /\ (strays = 0 => Untouched')
         /\ (child.ok => AllOk') /\ children' # <<>>
         /\ \A i \in 1 .. Len(children') : children'[i].ok \/ i = Len(children')
<1>1. children \in Seq(Children) /\ Count \in Nat /\ Len(children) < Count /\ AllOk /\ ChildrenMade
      /\ (strays = 0 => Untouched)
  BY ChildCount DEF ParentInv, ParentTypes, ParentProgress, Executing
<1>2. PICK n \in Nat : n = Len(children)
  BY <1>1
<1>3. /\ children' \in Seq(Children) /\ Len(children') = n + 1 /\ children'[n + 1] = child
      /\ \A i \in 1 .. n : children'[i] = children[i]
  BY <1>1, <1>2
<1>4. \A i \in 1 .. n + 1 : Source(i)' = Source(i)
  <2>1. ASSUME NEW i \in 1 .. n + 1 PROVE Source(i)' = Source(i)
    <3>1. CASE i = 1
      BY <3>1 DEF Source
    <3>2. CASE i > 1
      <4>1. i - 1 \in 1 .. n
        BY <1>2, <3>2
      <4>. QED BY <1>3, <4>1 DEF Source
    <3>. QED BY <1>2, <3>1, <3>2
  <2>. QED BY <2>1
<1>5. (Contained' <=> Contained) /\ (Unwinds' <=> Unwinds)
  BY DEF Contained, Unwinds
<1>6. ASSUME NEW i \in 1 .. n + 1 PROVE ChildSound(i)'
  <2>1. Source(i)' = Source(i)
    BY <1>4
  <2>2. CASE i \in 1 .. n
    <3>1. ChildSound(i) /\ children[i].ok /\ children'[i] = children[i]
      BY <1>1, <1>2, <1>3, <2>2 DEF ChildrenMade, AllOk
    <3>. QED BY <1>5, <2>1, <3>1 DEF ChildSound
  <2>3. CASE i = n + 1
    BY <1>2, <1>3, <1>5, <2>1, <2>3 DEF ChildSound
  <2>. QED BY <1>2, <2>2, <2>3
<1>7. ChildrenMade'
  BY <1>3, <1>6 DEF ChildrenMade
<1>8. strays = 0 => Untouched'
  BY <1>1, <1>2, <1>3 DEF Untouched
<1>9. child.ok => AllOk'
  BY <1>1, <1>2, <1>3 DEF AllOk
<1>10. \A i \in 1 .. n + 1 : children'[i].ok \/ i = n + 1
  BY <1>1, <1>2, <1>3 DEF AllOk
<1>. QED BY <1>1, <1>2, <1>3, <1>7, <1>8, <1>9, <1>10

LEMMA SourceIsNumber ==
  ASSUME ParentInv, NEW i \in 1 .. Len(children) + 1 PROVE Source(i) \in Nat
<1>1. children \in Seq(Children) /\ Len(children) \in Nat
  BY DEF ParentInv, ParentTypes
<1>2. CASE i = 1
  BY <1>2 DEF Source, ParentInv, ParentTypes
<1>3. CASE i > 1
  <2>1. i - 1 \in 1 .. Len(children)
    BY <1>1, <1>3
  <2>2. children[i - 1] \in Children
    BY <1>1, <2>1
  <2>3. children[i - 1].out \in Nat /\ parent.input \in Nat
    BY <2>2 DEF Children, ParentInv, ParentTypes
  <2>. QED BY <2>3 DEF Source
<1>. QED BY <1>1, <1>2, <1>3

LEMMA CollectInv == ASSUME ParentInv, Collect PROVE ParentInv'
<1>1. step = "collect" /\ UNCHANGED <<live, parent, kind, committed, docker, told, strays>>
  BY DEF Collect
<1>2. /\ status = "none" /\ ~Recorded /\ told = "nothing" /\ AllOk /\ Len(children) < Count
      /\ children \in Seq(Children) /\ Count \in Nat
  BY <1>1, ChildCount
     DEF ParentInv, ParentTypes, ParentProgress, VerdictSound, RecordSound, AnswerSound, Executing
<1>3. PICK n \in Nat : n = Len(children)
  BY <1>2
<1>4. PICK ok, build, child :
        /\ ok \in BOOLEAN /\ build \in {parent.build, live.build}
        /\ child = [ok |-> ok, touched |-> FALSE, source |-> Source(n + 1),
                    out |-> 10 * Source(n + 1) + (n + 1), build |-> build]
        /\ Contained => build = parent.build
        /\ children' = IF ok \/ Unwinds THEN Append(children, child) ELSE children
        /\ status' = IF ok THEN status ELSE "incomplete"
        /\ step' = IF ok THEN "child" ELSE "inventory"
  BY <1>3 DEF Collect
<1>5. child \in Children
  <2>1. Source(n + 1) \in Nat
    BY <1>3, SourceIsNumber
  <2>2. build \in Nat
    BY <1>4 DEF ParentInv, ParentTypes
  <2>. QED BY <1>3, <1>4, <2>1, <2>2 DEF Children
<1>6. /\ child.source = Source(Len(children) + 1) /\ child.ok = ok /\ ~child.touched
      /\ child.out = 10 * Source(Len(children) + 1) + (Len(children) + 1)
      /\ Contained => child.build = parent.build
  BY <1>3, <1>4
<1>7. Count' = Count
  BY <1>1 DEF Count
<1>8. /\ children' \in Seq(Children) /\ Len(children') <= Count /\ ChildrenMade'
      /\ (strays = 0 => Untouched') /\ (ok => AllOk')
  <2>1. CASE ok \/ Unwinds
    BY <1>1, <1>4, <1>5, <1>6, <2>1, ChildAppended
  <2>2. CASE ~(ok \/ Unwinds)
    <3>1. UNCHANGED children
      BY <1>4, <2>2
    <3>2. (ChildrenMade' <=> ChildrenMade) /\ (Untouched' <=> Untouched)
      BY <1>1, <3>1, SameChildren
    <3>. QED BY <1>2, <2>2, <3>1, <3>2 DEF ParentInv, ParentProgress
  <2>. QED BY <2>1, <2>2
<1>9. ParentTypes'
  BY <1>1, <1>4, <1>8 DEF ParentInv, ParentTypes, Steps
<1>10. ParentProgress'
  BY <1>1, <1>4, <1>7, <1>8 DEF ParentProgress, Executing, Fresh
<1>11. VerdictSound'
  BY <1>2, <1>4 DEF VerdictSound, Fresh, Executing, Recording
<1>12. RecordSound'
  BY <1>1, <1>2, <1>4 DEF ParentInv, RecordSound, Recorded, Recording, FilesSound
<1>13. DockerSound' /\ AnswerSound'
  BY <1>1, <1>2, <1>4 DEF ParentInv, DockerSound, AnswerSound, Recorded
<1>. QED BY <1>9, <1>10, <1>11, <1>12, <1>13 DEF ParentInv

LEMMA AssembleInv == ASSUME ParentInv, AssembleGraphs \/ AssembleFolds PROVE ParentInv'
<1>1. step = "assemble" /\ UNCHANGED <<live, parent, kind, children, docker, committed, strays>>
  BY DEF AssembleGraphs, AssembleFolds
<1>2. status = "none" /\ ~Recorded /\ told = "nothing" /\ AllOk /\ Len(children) = Count
  BY <1>1 DEF ParentInv, ParentProgress, VerdictSound, RecordSound, AnswerSound, Executing
<1>3. \/ StopHere
      \/ /\ step' = "inventory" /\ UNCHANGED told
         /\ status' \in {"succeeded", "incomplete"}
         /\ status' = "succeeded" => (kind \in GraphKinds => SameBuild)
  BY DEF AssembleGraphs, AssembleFolds
<1>4. CASE StopHere
  BY <1>1, <1>4, StopHereInv DEF ParentInv, DockerSound, Executing
<1>5. CASE /\ step' = "inventory" /\ UNCHANGED told
           /\ status' \in {"succeeded", "incomplete"}
           /\ status' = "succeeded" => (kind \in GraphKinds => SameBuild)
  <2>1. Whole' <=> Whole
    BY <1>1, SameChildren
  <2>2. VerdictSound'
    BY <1>2, <1>5, <2>1 DEF VerdictSound, Whole, Fresh, Executing
  <2>3. DockerSound' /\ AnswerSound'
    BY <1>1, <1>2, <1>5 DEF ParentInv, DockerSound, AnswerSound, Recorded
  <2>. QED BY <1>1, <1>2, <1>5, <2>2, <2>3, Elsewhere DEF Steps, Executing, Recording, Fresh
<1>. QED BY <1>3, <1>4, <1>5

\* A step of the recording: the directory gains a file, the children stay.
LEMMA RecordingStep ==
  ASSUME ParentInv, UNCHANGED <<live, kind, children, status, docker, told, strays>>,
         step \notin Executing, told = "nothing",
         step' \in Recording, status \in {"succeeded", "incomplete"},
         parent' \in [input : Nat, build : Nat, sha : BOOLEAN, pending : BOOLEAN,
                      record : {"none", "succeeded", "incomplete"}, files : Seq(Children)],
         parent'.input = parent.input, parent'.build = parent.build,
         strays = 0 => parent'.files = children, strays = 0 /\ Unwinds => Inspected,
         step' \in {"link", "commit", "load"} => parent'.sha,
         parent'.record = IF step' \in {"commit", "load"} THEN status ELSE "none",
         FilesSound', step' = "load" /\ kind = "array" => committed'
  PROVE  ParentInv'
<1>1. /\ Count' = Count /\ (Unwinds' <=> Unwinds) /\ (ChildrenMade' <=> ChildrenMade)
      /\ (Untouched' <=> Untouched) /\ (AllOk' <=> AllOk) /\ (Whole' <=> Whole)
      /\ (Inspected' <=> Inspected)
  BY SameChildren, SameInspection
<1>2. ParentTypes'
  BY DEF ParentInv, ParentTypes, Steps, Recording
<1>3. ParentProgress'
  BY <1>1 DEF ParentInv, ParentProgress, Executing, Recording, Fresh
<1>4. VerdictSound'
  BY <1>1 DEF ParentInv, VerdictSound, Executing, Recording, Fresh
<1>5. RecordSound'
  BY <1>1 DEF RecordSound, Recorded, Recording
<1>6. DockerSound'
  BY DEF ParentInv, DockerSound, Executing, Recording
<1>7. AnswerSound'
  BY DEF AnswerSound
<1>. QED BY <1>2, <1>3, <1>4, <1>5, <1>6, <1>7 DEF ParentInv

\* A command that ends at a step of the recording without writing.
LEMMA EndsHere ==
  ASSUME ParentInv, UNCHANGED <<live, parent, kind, children, status, docker, strays>>,
         step \in {"freeze", "inventory"} \cup Recording, step' = "idle", told' # "nothing",
         told' = "succeeded" => parent.record = "succeeded",
         told' \in {"stopped", "uncertain"} => parent.record = "none"
  PROVE  ParentInv'
<1>1. Whole' <=> Whole
  BY SameChildren
<1>2. VerdictSound'
  BY <1>1 DEF ParentInv, VerdictSound, Fresh, Executing, Recording
<1>3. DockerSound'
  BY DEF ParentInv, DockerSound, AnswerSound, Recording
<1>4. AnswerSound'
  BY DEF AnswerSound
<1>5. Recorded => step \in Recording \/ Recorded
  OBVIOUS
<1>. QED BY <1>2, <1>3, <1>4, <1>5, Elsewhere DEF Steps, Executing, Recording, Fresh

\* The record is written over an inventory of what the children are.
LEMMA WritePendingInv == ASSUME ParentInv, WritePending PROVE ParentInv'
<1>1. step = "inventory" /\ UNCHANGED <<live, kind, children, status, docker, strays>>
  BY DEF WritePending
<1>2. /\ \/ step' = "idle" /\ told' = "error" /\ UNCHANGED parent
         \/ /\ step' = "sha" /\ UNCHANGED told /\ (Unwinds => Inspected)
            /\ parent' = [parent EXCEPT !.pending = TRUE, !.files = children]
  BY DEF WritePending, Inspected
<1>3. /\ ~Recorded /\ told = "nothing" /\ status \in {"succeeded", "incomplete"} /\ ChildrenMade
      /\ children \in Seq(Children)
  BY <1>1 DEF ParentInv, ParentTypes, ParentProgress, VerdictSound, RecordSound, AnswerSound
<1>4. CASE step' = "idle" /\ told' = "error" /\ UNCHANGED parent
  BY <1>1, <1>4, EndsHere
<1>5. CASE /\ step' = "sha" /\ UNCHANGED told /\ (Unwinds => Inspected)
           /\ parent' = [parent EXCEPT !.pending = TRUE, !.files = children]
  <2>1. parent \in [input : Nat, build : Nat, sha : BOOLEAN, pending : BOOLEAN,
                    record : {"none", "succeeded", "incomplete"}, files : Seq(Children)]
    BY DEF ParentInv, ParentTypes
  <2>2. /\ parent' \in [input : Nat, build : Nat, sha : BOOLEAN, pending : BOOLEAN,
                        record : {"none", "succeeded", "incomplete"}, files : Seq(Children)]
        /\ parent'.input = parent.input /\ parent'.build = parent.build
        /\ parent'.files = children /\ parent'.record = parent.record
    <3>1. parent' = [input |-> parent.input, build |-> parent.build, sha |-> parent.sha,
                     pending |-> TRUE, record |-> parent.record, files |-> children]
      BY <1>5, <2>1
    <3>. QED BY <1>3, <2>1, <3>1
  <2>3. FilesSound'
    BY <1>3, <2>2 DEF FilesSound, ChildrenMade, ChildSound
  <2>4. parent'.record = "none"
    BY <1>3, <2>2 DEF Recorded
  <2>. QED BY <1>1, <1>3, <1>5, <2>2, <2>3, <2>4, RecordingStep DEF Executing, Recording
<1>. QED BY <1>2, <1>4, <1>5

\* What holds of the directory while the record is on its way.
LEMMA OnItsWay ==
  ASSUME ParentInv, step \in Recording
  PROVE  /\ status \in {"succeeded", "incomplete"} /\ told = "nothing" /\ step \notin Executing
         /\ parent \in [input : Nat, build : Nat, sha : BOOLEAN, pending : BOOLEAN,
                        record : {"none", "succeeded", "incomplete"}, files : Seq(Children)]
         /\ (strays = 0 => parent.files = children) /\ (strays = 0 /\ Unwinds => Inspected)
         /\ (step # "sha" => parent.sha)
         /\ parent.record = (IF step \in {"commit", "load"} THEN status ELSE "none")
         /\ FilesSound
BY DEF ParentInv, ParentTypes, RecordSound, AnswerSound, Recorded, Recording, Executing

LEMMA WriteShaInv == ASSUME ParentInv, WriteSha PROVE ParentInv'
<1>1. /\ step = "sha" /\ step' = "link" /\ parent' = [parent EXCEPT !.sha = TRUE]
      /\ UNCHANGED <<live, kind, children, status, docker, told, strays>>
  BY DEF WriteSha
<1>2. step \in Recording /\ step' \in Recording
  BY <1>1 DEF Recording
<1>3. /\ parent' \in [input : Nat, build : Nat, sha : BOOLEAN, pending : BOOLEAN,
                      record : {"none", "succeeded", "incomplete"}, files : Seq(Children)]
      /\ parent'.input = parent.input /\ parent'.build = parent.build /\ parent'.sha
      /\ parent'.files = parent.files /\ parent'.record = parent.record
  BY <1>1, <1>2, OnItsWay
<1>4. FilesSound'
  BY <1>2, <1>3, OnItsWay DEF FilesSound
<1>. QED BY <1>1, <1>2, <1>3, <1>4, OnItsWay, RecordingStep

LEMMA PublishRecordInv == ASSUME ParentInv, PublishRecord PROVE ParentInv'
<1>1. /\ step = "link" /\ UNCHANGED <<live, kind, children, status, committed, docker, strays>>
      /\ \/ told' \in {"stopped", "incomplete"} /\ step' = "idle" /\ UNCHANGED parent
         \/ parent' = [parent EXCEPT !.record = status] /\ step' = "commit" /\ UNCHANGED told
  BY DEF PublishRecord
<1>2. step \in Recording /\ parent.record = "none"
  BY <1>1, OnItsWay DEF Recording
<1>3. CASE told' \in {"stopped", "incomplete"} /\ step' = "idle" /\ UNCHANGED parent
  BY <1>1, <1>2, <1>3, EndsHere
<1>4. CASE parent' = [parent EXCEPT !.record = status] /\ step' = "commit" /\ UNCHANGED told
  <2>1. /\ parent' \in [input : Nat, build : Nat, sha : BOOLEAN, pending : BOOLEAN,
                        record : {"none", "succeeded", "incomplete"}, files : Seq(Children)]
        /\ parent'.input = parent.input /\ parent'.build = parent.build /\ parent'.sha
        /\ parent'.files = parent.files /\ parent'.record = status
    BY <1>1, <1>2, <1>4, OnItsWay
  <2>2. FilesSound'
    BY <1>2, <2>1, OnItsWay DEF FilesSound
  <2>. QED BY <1>1, <1>2, <1>4, <2>1, <2>2, OnItsWay, RecordingStep DEF Recording
<1>. QED BY <1>1, <1>3, <1>4

LEMMA CommitInv == ASSUME ParentInv, Commit PROVE ParentInv'
<1>1. /\ step = "commit" /\ step' = "load" /\ parent' = [parent EXCEPT !.pending = FALSE]
      /\ (kind = "array" => committed')
      /\ UNCHANGED <<live, kind, children, status, docker, told, strays>>
  BY DEF Commit
<1>2. step \in Recording /\ step' \in Recording
  BY <1>1 DEF Recording
<1>3. /\ parent' \in [input : Nat, build : Nat, sha : BOOLEAN, pending : BOOLEAN,
                      record : {"none", "succeeded", "incomplete"}, files : Seq(Children)]
      /\ parent'.input = parent.input /\ parent'.build = parent.build /\ parent'.sha
      /\ parent'.files = parent.files /\ parent'.record = parent.record
  BY <1>1, <1>2, OnItsWay
<1>4. FilesSound'
  BY <1>2, <1>3, OnItsWay DEF FilesSound
<1>. QED BY <1>1, <1>2, <1>3, <1>4, OnItsWay, RecordingStep

\* An array that reaches its answer has committed and ignores a late stop.
LEMMA AnswerInv == ASSUME ParentInv, Answer PROVE ParentInv'
<1>1. /\ step = "load" /\ step' = "idle" /\ step \in Recording
      /\ UNCHANGED <<live, parent, kind, children, status, docker, strays>>
  BY DEF Answer, Recording
<1>2. ~(kind = "array" /\ Stopping)
  BY <1>1 DEF ParentInv, AnswerSound, Stopping
<1>3. told' \in {parent.record, "error"}
  BY <1>2 DEF Answer
<1>4. parent.record \in {"succeeded", "incomplete"}
  BY <1>1, OnItsWay
<1>. QED BY <1>1, <1>3, <1>4, EndsHere

LEMMA InterruptInv == ASSUME ParentInv, Interrupt PROVE ParentInv'
<1>1. /\ step \notin {"idle", "container", "cleanup"} /\ kind # "array"
      /\ UNCHANGED <<live, parent, kind, children, committed, docker, strays>>
      /\ \/ step = "commit" /\ step' = "load" /\ UNCHANGED <<told, status>>
         \/ step \in {"child", "collect", "assemble"} /\ status' = "incomplete"
            /\ step' = "inventory" /\ UNCHANGED told
         \/ step # "commit" /\ told' = "interrupted" /\ step' = "idle" /\ UNCHANGED status
  BY DEF Interrupt
<1>2. step \in Steps
  BY DEF ParentInv, ParentTypes
<1>3. CASE step = "commit" /\ step' = "load" /\ UNCHANGED <<told, status>>
  <2>1. step \in Recording /\ step' \in Recording
    BY <1>3 DEF Recording
  <2>2. FilesSound' /\ parent.record = status /\ parent.sha
    BY <1>1, <1>3, <2>1, OnItsWay DEF FilesSound
  <2>. QED BY <1>1, <1>3, <2>1, <2>2, OnItsWay, RecordingStep
<1>4. CASE /\ step \in {"child", "collect", "assemble"} /\ status' = "incomplete"
           /\ step' = "inventory" /\ UNCHANGED told
  <2>1. ~Recorded /\ told = "nothing"
    BY <1>4 DEF ParentInv, RecordSound, AnswerSound
  <2>2. VerdictSound'
    BY <1>4 DEF VerdictSound, Fresh, Executing
  <2>3. DockerSound' /\ AnswerSound'
    BY <1>1, <1>4, <2>1 DEF ParentInv, DockerSound, AnswerSound, Recorded
  <2>. QED BY <1>1, <1>4, <2>1, <2>2, <2>3, Elsewhere DEF Steps, Executing, Recording, Fresh
<1>5. CASE told' = "interrupted" /\ step' = "idle" /\ UNCHANGED status
  <2>1. CASE step \in {"freeze", "inventory"} \cup Recording
    BY <1>1, <1>5, <2>1, EndsHere
  <2>2. CASE step \in {"child", "collect", "assemble"}
    <3>1. ~Recorded /\ status = "none"
      BY <2>2 DEF ParentInv, RecordSound, VerdictSound, Executing
    <3>2. VerdictSound' /\ DockerSound' /\ AnswerSound'
      BY <1>1, <1>5, <2>2, <3>1
         DEF ParentInv, VerdictSound, DockerSound, AnswerSound, Fresh, Executing, Recording, Recorded
    <3>. QED BY <1>1, <1>5, <3>1, <3>2, Elsewhere DEF Steps, Executing, Recording, Fresh
  <2>. QED BY <1>1, <1>2, <2>1, <2>2 DEF Steps, Recording
<1>. QED BY <1>1, <1>3, <1>4, <1>5

LEMMA ParentInductive == ParentInv /\ [ParentNext]_pvars => ParentInv'
<1> SUFFICES ASSUME ParentInv, [ParentNext]_pvars PROVE ParentInv'
  OBVIOUS
<1>1. CASE EditSources \/ Stray \/ RequestStop
  BY <1>1, EditSourcesInv, StrayInv, RequestStopInv
<1>2. CASE Admit \/ FreezeFold \/ FreezeBuild \/ FreezePlan
  BY <1>2, AdmitInv, FreezeInv
<1>3. CASE ChildBegins \/ Daemon \/ ClientEnds \/ Cleanup \/ Collect
  BY <1>3, ChildBeginsInv, DaemonInv, ClientEndsInv, CleanupInv, CollectInv
<1>4. CASE AssembleGraphs \/ AssembleFolds
  BY <1>4, AssembleInv
<1>5. CASE WritePending \/ WriteSha \/ PublishRecord \/ Commit \/ Answer \/ Interrupt
  BY <1>5, WritePendingInv, WriteShaInv, PublishRecordInv, CommitInv, AnswerInv, InterruptInv
<1>6. CASE UNCHANGED pvars
  <2>1. /\ UNCHANGED <<live, parent, step, kind, children, status, committed, docker, told, strays>>
    BY <1>6 DEF pvars
  <2>2. Whole' <=> Whole
    BY <2>1, SameChildren
  <2>3. VerdictSound' /\ DockerSound' /\ AnswerSound'
    BY <2>1, <2>2 DEF ParentInv, VerdictSound, DockerSound, AnswerSound, Fresh
  <2>. QED BY <2>1, <2>3, Elsewhere DEF ParentInv, ParentTypes, ParentProgress, RecordSound, Fresh
<1>. QED BY <1>1, <1>2, <1>3, <1>4, <1>5, <1>6 DEF ParentNext

\* Loading a success has verified every child.
LEMMA LoadedChildren ==
  ASSUME ParentInv, inspect("succeeded"), Len(children) = Count
  PROVE  \A i \in 1 .. Count : ChildProof(i)
<1>1. DOMAIN children = 1 .. Count
  BY DEF ParentInv, ParentTypes
<1>2. CASE kind = "fold"
  <2>1. ChildProof(1) /\ Count = 1
    BY <1>2 DEF inspect, load_fold, Count
  <2>. QED BY <2>1
<1>3. CASE kind \in GraphKinds
  <2>1. \A i \in DOMAIN children : ChildProof(i)
    BY <1>3 DEF inspect, load_composition, load_tiling, GraphKinds
  <2>. QED BY <1>1, <2>1
<1>4. CASE Unwinds
  <2>1. Prefix
    BY <1>4 DEF inspect, inspect_dag, inspect_batch, inspect_grid, inspect_flow, inspect_array, Unwinds
  <2>. QED BY <1>1, <2>1 DEF Prefix
<1>. QED BY <1>2, <1>3, <1>4 DEF ParentInv, ParentTypes, Kinds, GraphKinds, Unwinds

LEMMA LoadsWhole == ParentInv => SuccessWhole
<1> SUFFICES ASSUME ParentInv, Loads, parent.record = "succeeded"
             PROVE  /\ Len(children) = Count
                    /\ \A i \in 1 .. Count : /\ children[i].ok /\ ~children[i].touched
                                             /\ children[i].source = Source(i)
                    /\ SameBuild
                    /\ Contained => children[1].build = parent.build
  BY DEF SuccessWhole
<1>1. status = "succeeded" /\ Whole
  BY DEF ParentInv, RecordSound, VerdictSound, Recorded
<1>2. Len(children) = Count /\ Count \in Nat \ {0} /\ DOMAIN children = 1 .. Count
  BY <1>1, ChildCount DEF Whole, ParentInv, ParentTypes
<1>3. \A i \in 1 .. Count : ChildProof(i) /\ children[i].ok
  BY <1>1, <1>2, LoadedChildren DEF Loads, Whole, AllOk
<1>4. Contained => \A i \in 1 .. Count : children[i].build = parent.build
  BY <1>3 DEF ChildProof
<1>5. SameBuild
  <2>1. CASE kind \in GraphKinds
    BY <1>1, <2>1 DEF Whole
  <2>2. CASE Contained
    BY <1>2, <1>4, <2>2 DEF SameBuild
  <2>. QED BY <2>1, <2>2 DEF Contained
<1>. QED BY <1>2, <1>3, <1>4, <1>5 DEF ChildProof

\* What was published over children that hold still passes its own inspection.
LEMMA InspectionHolds == ASSUME ParentInv, Recorded, strays = 0 PROVE inspect(parent.record)
<1>1. /\ parent.record = status /\ status \in {"succeeded", "incomplete"} /\ ChildrenMade
      /\ Untouched /\ (Unwinds => Inspected) /\ (status = "succeeded" => Whole)
      /\ Len(children) \in Nat /\ DOMAIN children = 1 .. Len(children)
  BY DEF ParentInv, ParentTypes, ParentProgress, VerdictSound, RecordSound
<1>2. \A i \in 1 .. Len(children) : ChildProof(i)
  BY <1>1 DEF ChildrenMade, ChildSound, Untouched, ChildProof
<1>3. parent.record = "succeeded" => Complete
  BY <1>1 DEF Whole, AllOk, Complete
<1>4. CASE Unwinds
  BY <1>1, <1>4 DEF Inspected
<1>5. CASE kind = "fold"
  <2>1. parent.record = "succeeded" => ChildProof(1)
    <3>1. Count = 1
      BY <1>5 DEF Count
    <3>. QED BY <1>1, <1>2, <3>1 DEF Whole
  <2>. QED BY <1>3, <1>5, <2>1 DEF inspect, load_fold
<1>6. load_composition(parent.record) \/ kind \notin GraphKinds
  BY <1>1, <1>2, <1>3 DEF load_composition, Whole
<1>7. CASE kind = "composition"
  BY <1>6, <1>7 DEF inspect, GraphKinds
<1>8. CASE kind = "tiling"
  <2>1. \A i \in DOMAIN children : children[i].out = 10 * parent.input + i
    BY <1>1, <1>8 DEF ChildrenMade, ChildSound, Source
  <2>2. load_tiling(parent.record)
    BY <1>6, <1>8, <2>1 DEF load_tiling, GraphKinds
  <2>. QED BY <1>8, <2>2 DEF inspect
<1>. QED BY <1>4, <1>5, <1>7, <1>8 DEF ParentInv, ParentTypes, Kinds, Unwinds

\* Every parent run (project_fold, project_dag, project_dag_batch, project_mf01_grid,
\* project_mf01_flow, project_array, project_composition, project_tiling): a success
\* that loads covers every child, intact, on its source and of one build; what is
\* published over children that hold still loads, with no container left, and the
\* caller hears of nothing else.
THEOREM ParentIsSound == ParentSpec => []ParentSound
<1>1. ParentInit => ParentInv
  BY ParentInitially
<1>2. ParentInv /\ [ParentNext]_pvars => ParentInv'
  BY ParentInductive
<1>3. ParentInv => ParentSound
  <2> SUFFICES ASSUME ParentInv PROVE ParentSound
    OBVIOUS
  <2>1. SuccessWhole
    BY LoadsWhole
  <2>2. PublishedLoads
    <3>1. Recorded /\ strays = 0 => Loads
      BY InspectionHolds DEF Loads, Recorded, ParentInv, RecordSound
    <3>2. Recorded => \A i \in DOMAIN parent.files : parent.files[i].ok \/ i = Len(parent.files)
      BY DEF ParentInv, ParentTypes, RecordSound, FilesSound
    <3>. QED BY <3>1, <3>2 DEF PublishedLoads, Recorded
  <2>3. SealedQuietly
    BY DEF SealedQuietly, ParentInv, RecordSound, DockerSound, AnswerSound, Recorded
  <2>4. ToldTruth
    BY DEF ToldTruth, ParentInv, AnswerSound
  <2>. QED BY <2>1, <2>2, <2>3, <2>4 DEF ParentSound
<1>. QED BY <1>1, <1>2, <1>3, PTL DEF ParentSpec

----------------------------------------------------------------------------
(* Project runs: what is sealed is exact, what is read of it agrees with the *)
(* seal, and a report that still holds is a run that compiles.               *)

FileContents == {c \in Seq(Nat) : Len(c) <= 1}
Snapshots == [Files -> FileContents]
RunDirectories == [Artifacts -> Seq(Nat)]
FullRecords ==
  [status : {"succeeded", "failed"}, recipe : FileContents, inputs : Snapshots,
   outputs : Seq(Nat), artifacts : RunDirectories]
SavedRuns ==
  [kind : {"graph-device", "command", "gemm"}, record : FullRecords \cup {NoRecord, HalfRecord},
   seal : FullRecords \cup {NoRecord}, touched : BOOLEAN, dir : RunDirectories]
RunTasks ==
  [cmd : {"run"}, name : Names, failed : {"no", "snapshot", "compile", "execute"},
   pc : {"snapshot", "compile", "execute", "capture", "record", "seal"}, recipe : FileContents,
   names : SUBSET Files, todo : SUBSET Files, manifest : Snapshots,
   status : {"failed", "succeeded"}, outputs : Seq(Nat), artifacts : RunDirectories \cup {Absent}]
SeenByGarden == [graph : Seq(Nat), descriptor : Seq(Nat), receipt : Seq(Nat)]
ReadTasks ==
  [cmd : {"garden", "output", "preview", "export"}, pc : {"opened", "captured"}, run : Nat,
   rec : FullRecords, seen : {<<>>} \cup RunDirectories \cup SeenByGarden]

RunTypes ==
  /\ recipes \in [Names -> FileContents \ {Absent}] /\ inputs \in [Files -> FileContents]
  /\ runs \in Seq(SavedRuns)
  /\ task \in {NoTask} \cup RunTasks \cup ReadTasks
  /\ fileEdits \in Nat

\* A success has the output of its recipe on its inputs, unless the directory
\* of a command run was edited meanwhile.
OutcomeExact(of, edited, r) ==
  r.status = "succeeded" /\ ~ (of = "command" /\ edited) =>
    /\ Compiles(of, r.inputs) /\ r.outputs = Oracle(of, r.recipe, r.inputs)

ReceiptOf(r) == r.inputs["descriptor"] \o r.inputs["data"] \o r.outputs

\* A receipt is the one that was written or was overwritten whole.
ReceiptKept(of, r, receipt) ==
  of = "graph-device" /\ r.status = "succeeded" => receipt \in {<<9>>, ReceiptOf(r)}

SealsExact ==
  \A i \in DOMAIN runs : runs[i].seal # NoRecord =>
    /\ runs[i].seal.recipe # Absent
    /\ OutcomeExact(runs[i].kind, runs[i].touched, runs[i].seal)
    /\ ReceiptKept(runs[i].kind, runs[i].seal, runs[i].seal.artifacts["receipt"])

\* The run in progress is the last one; its directory holds its snapshot.
RunningExact ==
  task.cmd = "run" =>
    /\ runs # <<>> /\ Current.kind = Kind[task.name] /\ Current.seal = NoRecord
    /\ task.recipe # Absent
    /\ ~ Current.touched => \A f \in Files : Current.dir[f] = task.manifest[f]
    /\ task.pc \in {"snapshot", "compile", "execute"} => task.status = "failed"
    /\ task.pc = "execute" /\ ~ (Current.kind = "command" /\ Current.touched) =>
         /\ Compiles(Current.kind, task.manifest)
         /\ Current.kind = "command" => Current.dir["stage"] = task.manifest["text"]
    /\ OutcomeExact(Current.kind, Current.touched, RunRecord)
    /\ task.pc = "capture" => ReceiptKept(Current.kind, RunRecord, Current.dir["receipt"])
    /\ task.pc \in {"record", "seal"} =>
         /\ task.artifacts \in RunDirectories
         /\ ReceiptKept(Current.kind, RunRecord, task.artifacts["receipt"])

\* What garden captured agrees with the record it loaded.
CapturedExact(seen, r) ==
  /\ seen.graph = seen.descriptor /\ seen.descriptor = r.inputs["descriptor"]
  /\ seen.receipt = ReceiptOf(r)

ReaderExact ==
  task.cmd \in {"garden", "output", "preview", "export"} =>
    /\ task.run \in DOMAIN runs /\ runs[task.run].seal = task.rec
    /\ task.cmd \in {"garden", "output"} =>
         runs[task.run].kind = "graph-device" /\ task.rec.status = "succeeded"
    /\ task.cmd = "garden" /\ task.pc = "captured" => CapturedExact(task.seen, task.rec)

\* What was shown or exported is of a sealed run.
ViewsSealed ==
  /\ displayed # NoView => /\ displayed.of \in DOMAIN runs
                           /\ runs[displayed.of].seal # NoRecord
  /\ bundle # NoView => bundle.of \in DOMAIN runs /\ runs[bundle.of].seal # NoRecord

ReportCurrent ==
  report.ok => /\ report.of \in Names /\ report.at \in Nat /\ report.at <= fileEdits
               /\ report.at = fileEdits => Compiles(Kind[report.of], inputs)

\* Nothing was edited since the report that passed the recipe in progress.
RunningReported ==
  task.cmd = "run" /\ report.ok /\ report.of = task.name /\ report.at = fileEdits =>
    /\ task.names = Present
    /\ task.pc = "snapshot" => /\ task.todo \subseteq Present
                               /\ \A f \in Files \ task.todo : task.manifest[f] = inputs[f]
    /\ task.pc = "compile" => Kind[task.name] = "gemm" \/ task.manifest = inputs

RunsInv ==
  /\ RunTypes /\ SealsExact /\ RunningExact /\ ReaderExact /\ ViewsSealed
  /\ ReportCurrent /\ RunningReported
  /\ ViewsExact /\ ExportsReviewed /\ ChecksHold

\* No seal is touched, and a run that is new has none.
SealsKept ==
  /\ runs' \in Seq(SavedRuns) /\ Len(runs) <= Len(runs')
  /\ \A i \in 1 .. Len(runs) :
       /\ runs'[i].kind = runs[i].kind /\ runs'[i].seal = runs[i].seal
       /\ runs[i].touched => runs'[i].touched
  /\ \A i \in 1 .. Len(runs') : i > Len(runs) => runs'[i].seal = NoRecord

LEMMA TaskKinds ==
  ASSUME RunTypes
  PROVE  /\ task.cmd = "run" => task \in RunTasks
         /\ task.cmd \in {"garden", "output", "preview", "export"} => task \in ReadTasks
         /\ task # NoTask => task.cmd \in {"run", "garden", "output", "preview", "export"}
BY DEF RunTypes, NoTask, RunTasks, ReadTasks

LEMMA SealsExactKept == ASSUME RunTypes, SealsExact, SealsKept PROVE SealsExact'
<1>1. ASSUME NEW i \in DOMAIN runs', runs'[i].seal # NoRecord
      PROVE  /\ runs'[i].seal.recipe # Absent
             /\ OutcomeExact(runs'[i].kind, runs'[i].touched, runs'[i].seal)
             /\ ReceiptKept(runs'[i].kind, runs'[i].seal, runs'[i].seal.artifacts["receipt"])
  <2>1. i \in 1 .. Len(runs') /\ DOMAIN runs = 1 .. Len(runs)
    BY DEF SealsKept, RunTypes
  <2>2. i \in 1 .. Len(runs)
    BY <1>1, <2>1 DEF SealsKept, RunTypes
  <2>3. runs'[i].kind = runs[i].kind /\ runs'[i].seal = runs[i].seal
        /\ (runs[i].touched => runs'[i].touched)
    BY <2>2 DEF SealsKept
  <2>4. /\ runs[i].seal.recipe # Absent
        /\ OutcomeExact(runs[i].kind, runs[i].touched, runs[i].seal)
        /\ ReceiptKept(runs[i].kind, runs[i].seal, runs[i].seal.artifacts["receipt"])
    BY <1>1, <2>1, <2>2, <2>3 DEF SealsExact
  <2>. QED BY <2>3, <2>4 DEF OutcomeExact
<1>. QED BY <1>1 DEF SealsExact

LEMMA ViewsKept ==
  ASSUME RunTypes, ViewsSealed, ViewsExact, ExportsReviewed, SealsKept, UNCHANGED <<displayed, bundle>>
  PROVE  ViewsSealed' /\ ViewsExact' /\ ExportsReviewed'
<1>1. /\ DOMAIN runs = 1 .. Len(runs) /\ DOMAIN runs \subseteq DOMAIN runs'
      /\ \A i \in DOMAIN runs : runs'[i].seal = runs[i].seal
  BY DEF SealsKept, RunTypes
<1>. QED BY <1>1 DEF ViewsSealed, ViewsExact, ExportsReviewed

\* The run in progress goes one step on, or a run begins.
LEMMA RunGoesOn ==
  ASSUME RunsInv, SealsKept, task' \in RunTasks, RunningExact', RunningReported', ChecksHold',
         UNCHANGED <<recipes, inputs, reviewed, bundle, report, displayed, fileEdits>>
  PROVE  RunsInv'
<1>1. RunTypes' /\ ReaderExact'
  BY DEF RunsInv, RunTypes, SealsKept, ReaderExact, RunTasks
<1>2. SealsExact' /\ ViewsSealed' /\ ViewsExact' /\ ExportsReviewed'
  BY SealsExactKept, ViewsKept DEF RunsInv
<1>3. ReportCurrent'
  BY DEF RunsInv, ReportCurrent
<1>. QED BY <1>1, <1>2, <1>3 DEF RunsInv

\* A command ends; what it saved and showed stays.
LEMMA TaskEnds ==
  ASSUME RunsInv, SealsKept, task' = NoTask,
         UNCHANGED <<recipes, inputs, bundle, report, displayed, fileEdits>>
  PROVE  RunsInv'
<1>1. RunTypes' /\ ReaderExact' /\ RunningExact' /\ RunningReported' /\ ChecksHold'
  BY DEF RunsInv, RunTypes, SealsKept, ReaderExact, RunningExact, RunningReported, ChecksHold, NoTask
<1>2. SealsExact' /\ ViewsSealed' /\ ViewsExact' /\ ExportsReviewed'
  BY SealsExactKept, ViewsKept DEF RunsInv
<1>3. ReportCurrent'
  BY DEF RunsInv, ReportCurrent
<1>. QED BY <1>1, <1>2, <1>3 DEF RunsInv

LEMMA NothingSealed == ASSUME RunTypes, UNCHANGED runs PROVE SealsKept
BY DEF RunTypes, SealsKept

\* A reader goes on: no run moves.
LEMMA ReaderGoesOn ==
  ASSUME RunsInv, task' \in ReadTasks, ReaderExact',
         UNCHANGED <<recipes, inputs, runs, reviewed, bundle, report, displayed, fileEdits>>
  PROVE  RunsInv'
<1>1. RunTypes' /\ RunningExact' /\ RunningReported' /\ ChecksHold'
  BY DEF RunsInv, RunTypes, RunningExact, RunningReported, ChecksHold, ReadTasks
<1>2. SealsExact' /\ ViewsSealed' /\ ViewsExact' /\ ExportsReviewed'
  BY NothingSealed, SealsExactKept, ViewsKept DEF RunsInv
<1>3. ReportCurrent'
  BY DEF RunsInv, ReportCurrent
<1>. QED BY <1>1, <1>2, <1>3 DEF RunsInv

LEMMA RunsInitially == RunsInit => RunsInv
<1> SUFFICES ASSUME RunsInit PROVE RunsInv
  OBVIOUS
<1>1. <<>> \in FileContents /\ <<1>> \in FileContents \ {Absent}
  BY DEF FileContents, Absent
<1>2. RunTypes
  BY <1>1 DEF RunsInit, RunTypes
<1>3. SealsExact /\ RunningExact /\ ReaderExact /\ RunningReported /\ ChecksHold
  BY DEF RunsInit, SealsExact, RunningExact, ReaderExact, RunningReported, ChecksHold, NoTask
<1>4. ViewsSealed /\ ReportCurrent /\ ViewsExact /\ ExportsReviewed
  BY DEF RunsInit, ViewsSealed, ReportCurrent, ViewsExact, ExportsReviewed
<1>. QED BY <1>2, <1>3, <1>4 DEF RunsInv

----------------------------------------------------------------------------
\* Nothing that a run reads again is edited under a report that still holds.
LEMMA EditFilesInv == ASSUME RunsInv, EditFiles PROVE RunsInv'
<1>1. /\ RunTypes /\ ReportCurrent /\ fileEdits' = fileEdits + 1
      /\ UNCHANGED <<runs, task, reviewed, bundle, report, displayed>>
  BY DEF RunsInv, EditFiles
<1>2. Absent \in FileContents /\ <<0>> \in FileContents \ {Absent}
  BY DEF FileContents, Absent
<1>3. <<2>> \in FileContents \ {Absent}
  BY DEF FileContents, Absent
<1>4. RunTypes'
  BY <1>1, <1>2, <1>3 DEF RunTypes, EditFiles, Bad
<1>5. report.ok => report.at \in Nat /\ report.at <= fileEdits
  BY <1>1 DEF ReportCurrent
<1>6. ReportCurrent' /\ RunningReported' /\ ChecksHold'
  BY <1>1, <1>5 DEF RunTypes, ReportCurrent, RunningReported, ChecksHold
<1>7. SealsExact' /\ RunningExact' /\ ReaderExact'
  BY <1>1 DEF RunsInv, SealsExact, RunningExact, ReaderExact, Current, RunRecord
<1>8. ViewsSealed' /\ ViewsExact' /\ ExportsReviewed'
  BY <1>1 DEF RunsInv, ViewsSealed, ViewsExact, ExportsReviewed
<1>. QED BY <1>4, <1>6, <1>7, <1>8 DEF RunsInv

\* A stray edit of a saved run marks it; a command run in progress promises
\* no more, and the bytes a record or a seal names stay named.
LEMMA TamperInv == ASSUME RunsInv, Tamper PROVE RunsInv'
<1>1. /\ RunTypes /\ RunningExact /\ ReaderExact /\ ChecksHold
      /\ UNCHANGED <<recipes, inputs, task, reviewed, bundle, report, displayed, fileEdits>>
  BY DEF RunsInv, Tamper
<1>2. PICK i \in DOMAIN runs :
        \/ \E a \in Artifacts : runs' = [runs EXCEPT ![i].dir[a] = <<9>>, ![i].touched = TRUE]
        \/ /\ runs[i].record.status = "failed"
           /\ runs' = [runs EXCEPT ![i].record.status = "succeeded"]
  BY DEF Tamper
<1>3. i \in 1 .. Len(runs) /\ runs[i] \in SavedRuns /\ DOMAIN runs = 1 .. Len(runs)
  BY <1>1 DEF RunTypes
<1>4. PICK r \in SavedRuns :
        /\ runs' = [runs EXCEPT ![i] = r]
        /\ r.kind = runs[i].kind /\ r.seal = runs[i].seal
        /\ \/ /\ r.touched
              /\ r.dir["receipt"] \in {runs[i].dir["receipt"], <<9>>}
           \/ r.touched = runs[i].touched /\ r.dir = runs[i].dir
  <2>1. ASSUME NEW a \in Artifacts, runs' = [runs EXCEPT ![i].dir[a] = << 9 >>, ![i].touched = TRUE]
        PROVE  \E r \in SavedRuns :
                 /\ runs' = [runs EXCEPT ![i] = r]
                 /\ r.kind = runs[i].kind /\ r.seal = runs[i].seal
                 /\ r.touched /\ r.dir["receipt"] \in {runs[i].dir["receipt"], <<9>>}
    <3>1. PICK k, p, q, t, d : /\ runs[i] = [kind |-> k, record |-> p, seal |-> q, touched |-> t, dir |-> d]
                               /\ d \in RunDirectories
      BY <1>3 DEF SavedRuns
    <3>9. runs' = [runs EXCEPT ![i] = [[runs[i] EXCEPT !.dir = [runs[i].dir EXCEPT ![a] = <<9>>]] EXCEPT !.touched = TRUE]]
      BY <1>3, <2>1
    <3>2. PICK e : e = [d EXCEPT ![a] = <<9>>]
      OBVIOUS
    <3>3. e \in RunDirectories /\ e["receipt"] \in {d["receipt"], <<9>>}
      BY <3>1, <3>2 DEF RunDirectories, Artifacts
    <3>4. PICK r : r = [[runs[i] EXCEPT !.dir = e] EXCEPT !.touched = TRUE]
      OBVIOUS
    <3>5. [runs[i] EXCEPT !.dir = e] \in SavedRuns
      BY <1>3, <3>1, <3>3 DEF SavedRuns
    <3>6. r \in SavedRuns /\ r.kind = runs[i].kind /\ r.seal = runs[i].seal /\ r.touched /\ r.dir = e
      BY <1>3, <3>4, <3>5 DEF SavedRuns
    <3>7. runs[i].dir = d
      BY <3>1
    <3>8. runs' = [runs EXCEPT ![i] = r]
      BY <3>9, <3>2, <3>4, <3>7
    <3>. QED BY <3>3, <3>6, <3>7, <3>8
  <2>2. ASSUME runs[i].record.status = "failed", runs' = [runs EXCEPT ![i].record.status = "succeeded"]
        PROVE  \E r \in SavedRuns :
                 /\ runs' = [runs EXCEPT ![i] = r]
                 /\ r.kind = runs[i].kind /\ r.seal = runs[i].seal
                 /\ r.touched = runs[i].touched /\ r.dir = runs[i].dir
    <3>1. PICK k, p, q, t, d : runs[i] = [kind |-> k, record |-> p, seal |-> q, touched |-> t, dir |-> d]
      BY <1>3 DEF SavedRuns
    <3>2. p \in FullRecords
      BY <1>3, <2>2, <3>1 DEF SavedRuns, NoRecord, HalfRecord
    <3>9. runs' = [runs EXCEPT ![i] = [runs[i] EXCEPT !.record = [runs[i].record EXCEPT !.status = "succeeded"]]]
      BY <1>3, <2>2
    <3>3. PICK e : e = [p EXCEPT !.status = "succeeded"]
      OBVIOUS
    <3>4. e \in FullRecords
      BY <3>2, <3>3 DEF FullRecords
    <3>5. PICK r : r = [runs[i] EXCEPT !.record = e]
      OBVIOUS
    <3>6. /\ r \in SavedRuns /\ r.kind = runs[i].kind /\ r.seal = runs[i].seal
          /\ r.touched = runs[i].touched /\ r.dir = runs[i].dir
      BY <1>3, <3>4, <3>5 DEF SavedRuns
    <3>7. runs' = [runs EXCEPT ![i] = r]
      BY <3>9, <3>1, <3>3, <3>5
    <3>. QED BY <3>6, <3>7
  <2>. QED BY <1>2, <2>1, <2>2
<1>5. /\ runs' \in Seq(SavedRuns) /\ Len(runs') = Len(runs) /\ runs'[i] = r
      /\ \A j \in 1 .. Len(runs) : j # i => runs'[j] = runs[j]
  BY <1>1, <1>3, <1>4 DEF RunTypes
<1>6. SealsKept
  BY <1>1, <1>3, <1>4, <1>5 DEF SealsKept, RunTypes
<1>7. /\ Current'.kind = Current.kind /\ Current'.seal = Current.seal
      /\ (Current.touched => Current'.touched)
      /\ \/ /\ Current'.touched
            /\ Current'.dir["receipt"] \in {Current.dir["receipt"], <<9>>}
         \/ Current'.touched = Current.touched /\ Current'.dir = Current.dir
  <2>1. Len(runs) \in 1 .. Len(runs)
    BY <1>1, <1>3 DEF RunTypes
  <2>2. CASE i = Len(runs)
    BY <1>4, <1>5, <2>2 DEF Current
  <2>3. CASE i # Len(runs)
    BY <1>5, <2>1, <2>3 DEF Current
  <2>. QED BY <2>2, <2>3
<1>8. RunningExact'
  <2> SUFFICES ASSUME task.cmd = "run" PROVE RunningExact'
    BY <1>1 DEF RunningExact
  <2>1. RunRecord' = RunRecord
    BY <1>1 DEF RunRecord
  <2>2. runs' # <<>>
    BY <1>3, <1>5
  <2>3. OutcomeExact(Current'.kind, Current'.touched, RunRecord)
    BY <1>1, <1>7 DEF RunningExact, OutcomeExact
  <2>4. task.pc = "capture" => ReceiptKept(Current'.kind, RunRecord, Current'.dir["receipt"])
    BY <1>1, <1>7 DEF RunningExact, ReceiptKept
  <2>. QED BY <1>1, <1>7, <2>1, <2>2, <2>3, <2>4 DEF RunningExact
<1>9. RunTypes' /\ ReaderExact' /\ ChecksHold'
  BY <1>1, <1>5, <1>6, <1>7 DEF RunTypes, ReaderExact, ChecksHold, SealsKept
<1>10. SealsExact' /\ ViewsSealed' /\ ViewsExact' /\ ExportsReviewed'
  BY <1>1, <1>6, SealsExactKept, ViewsKept DEF RunsInv
<1>11. ReportCurrent' /\ RunningReported'
  BY <1>1 DEF RunsInv, ReportCurrent, RunningReported, Present
<1>. QED BY <1>8, <1>9, <1>10, <1>11 DEF RunsInv

LEMMA ReportInv ==
  ASSUME RunsInv, NEW n \in Names, NEW b \in Backends, Report(n, b)
  PROVE  RunsInv'
<1>1. /\ RunTypes /\ task.cmd = "none"
      /\ UNCHANGED <<recipes, inputs, runs, task, reviewed, bundle, displayed, fileEdits>>
      /\ report' = [ok |-> check(n, b), of |-> n, at |-> fileEdits]
  BY DEF RunsInv, Report, NoTask
<1>2. ReportCurrent'
  <2>1. check(n, b) => Compiles(Kind[n], inputs)
    BY DEF check
  <2>. QED BY <1>1, <2>1 DEF ReportCurrent, RunTypes
<1>3. RunTypes' /\ RunningExact' /\ ReaderExact' /\ RunningReported' /\ ChecksHold'
  BY <1>1 DEF RunTypes, RunningExact, ReaderExact, RunningReported, ChecksHold
<1>4. SealsExact' /\ ViewsSealed' /\ ViewsExact' /\ ExportsReviewed'
  BY <1>1, NothingSealed, SealsExactKept, ViewsKept DEF RunsInv
<1>. QED BY <1>2, <1>3, <1>4 DEF RunsInv

----------------------------------------------------------------------------
LEMMA NeedsOf ==
  /\ Needs("graph-device") = {"descriptor", "data"} /\ Needs("command") = {"text"}
  /\ Needs("gemm") = {}
BY DEF Needs

LEMMA FirstIsOne == ASSUME NEW S \in SUBSET Files, S # {} PROVE FirstOf(S) \in S
<1>1. \E f \in S : \A g \in S : Order[f] <= Order[g]
  <2>1. CASE "data" \in S
    BY <2>1 DEF Files, Order
  <2>2. CASE "data" \notin S /\ "descriptor" \in S
    BY <2>2 DEF Files, Order
  <2>3. CASE S = {"text"}
    BY <2>3 DEF Order
  <2>. QED BY <2>1, <2>2, <2>3 DEF Files
<1>. QED BY <1>1 DEF FirstOf

LEMMA SealsKeptByLast ==
  ASSUME RunTypes, runs # <<>>, runs' \in Seq(SavedRuns), Len(runs') = Len(runs),
         \A j \in 1 .. Len(runs) : j # Len(runs) => runs'[j] = runs[j]
  PROVE  /\ runs' # <<>>
         /\ /\ Current'.kind = Current.kind /\ Current'.seal = Current.seal
            /\ Current.touched => Current'.touched
            => SealsKept
<1>1. runs' # <<>> /\ Len(runs) \in Nat
  BY DEF RunTypes
<1>2. Current = runs[Len(runs)] /\ Current' = runs'[Len(runs)]
  BY DEF Current
<1>3. ASSUME Current'.kind = Current.kind, Current'.seal = Current.seal,
             Current.touched => Current'.touched, NEW i \in 1 .. Len(runs)
      PROVE  /\ runs'[i].kind = runs[i].kind /\ runs'[i].seal = runs[i].seal
             /\ runs[i].touched => runs'[i].touched
  <2>1. CASE i = Len(runs)
    BY <1>2, <1>3, <2>1
  <2>2. CASE i # Len(runs)
    BY <2>2
  <2>. QED BY <2>1, <2>2
<1>. QED BY <1>1, <1>3 DEF SealsKept

\* The run in progress is replaced by another state of itself.
LEMMA CurrentChanges ==
  ASSUME RunTypes, runs # <<>>, NEW x \in SavedRuns, runs' = [runs EXCEPT ![Len(runs)] = x]
  PROVE  /\ runs' \in Seq(SavedRuns) /\ Len(runs') = Len(runs) /\ runs' # <<>> /\ Current' = x
         /\ \A j \in 1 .. Len(runs) : j # Len(runs) => runs'[j] = runs[j]
         /\ x.kind = Current.kind /\ x.seal = Current.seal /\ (Current.touched => x.touched) => SealsKept
<1>1. Len(runs) \in 1 .. Len(runs) /\ Len(runs) \in Nat
  BY DEF RunTypes
<1>2. /\ runs' \in Seq(SavedRuns) /\ Len(runs') = Len(runs) /\ runs'[Len(runs)] = x
      /\ \A j \in 1 .. Len(runs) : j # Len(runs) => runs'[j] = runs[j]
  BY <1>1 DEF RunTypes
<1>3. Current' = x
  BY <1>2, Zenon DEF Current
<1>. QED BY <1>2, <1>3, SealsKeptByLast, Zenon

LEMMA CurrentTyped ==
  ASSUME RunTypes, runs # <<>> PROVE Current \in SavedRuns /\ Len(runs) \in 1 .. Len(runs)
BY DEF RunTypes, Current

\* Only the directory of the run in progress changes.
LEMMA DirectoryChanges ==
  ASSUME RunTypes, runs # <<>>, NEW d \in RunDirectories,
         runs' = [runs EXCEPT ![Len(runs)] = [Current EXCEPT !.dir = d]]
  PROVE  /\ SealsKept /\ runs' # <<>> /\ Current'.dir = d /\ Current'.kind = Current.kind
         /\ Current'.seal = Current.seal /\ Current'.touched = Current.touched
<1>1. PICK x : x = [Current EXCEPT !.dir = d]
  OBVIOUS
<1>2. x \in SavedRuns /\ x.dir = d /\ x.kind = Current.kind /\ x.seal = Current.seal
      /\ x.touched = Current.touched
  BY <1>1, CurrentTyped DEF SavedRuns
<1>3. runs' = [runs EXCEPT ![Len(runs)] = x]
  BY <1>1
<1>. QED BY <1>2, <1>3, CurrentChanges

LEMMA StartRunInv ==
  ASSUME RunsInv, NEW n \in Names, NEW b \in Backends, StartRun(n, b)
  PROVE  RunsInv'
<1>1. /\ RunTypes
      /\ UNCHANGED <<recipes, inputs, reviewed, bundle, report, displayed, fileEdits>>
  BY DEF RunsInv, StartRun
<1>2. PICK d : d = [[a \in Artifacts |-> Absent] EXCEPT !["recipe"] = recipes[n]]
  OBVIOUS
<1>3. recipes[n] \in FileContents /\ recipes[n] # Absent /\ recipes[n] \in Seq(Nat) /\ Absent \in Seq(Nat)
      /\ Absent \in FileContents
  BY <1>1 DEF RunTypes, FileContents, Absent
<1>4. d \in RunDirectories /\ \A f \in Files : d[f] = Absent
  BY <1>2, <1>3 DEF RunDirectories, Artifacts, Files
<1>5. PICK x : x = [kind |-> Kind[n], record |-> NoRecord, seal |-> NoRecord, touched |-> FALSE, dir |-> d]
  OBVIOUS
<1>6. Kind[n] \in {"graph-device", "command", "gemm"}
  BY DEF Names, Kind
<1>7. x \in SavedRuns
  BY <1>4, <1>5, <1>6 DEF SavedRuns
<1>8. runs' = Append(runs, x)
  BY <1>2, <1>5 DEF StartRun
<1>9. /\ runs' \in Seq(SavedRuns) /\ Len(runs') = Len(runs) + 1 /\ runs'[Len(runs) + 1] = x
      /\ \A i \in 1 .. Len(runs) : runs'[i] = runs[i]
  BY <1>1, <1>7, <1>8 DEF RunTypes
<1>10. Current' = x /\ runs' # <<>>
  BY <1>1, <1>9 DEF Current, RunTypes
<1>11. SealsKept
  BY <1>1, <1>5, <1>9 DEF SealsKept, RunTypes
<1>12. PICK stage \in {"snapshot", "compile"} :
         /\ stage = "compile" => Kind[n] = "gemm"
         /\ task' = [cmd |-> "run", name |-> n, failed |-> "no", pc |-> stage, recipe |-> recipes[n],
                     names |-> Present, todo |-> Present, manifest |-> NoContents,
                     status |-> "failed", outputs |-> Absent, artifacts |-> Absent]
  BY DEF StartRun
<1>13. NoContents \in Snapshots /\ Present \in SUBSET Files
       /\ \A f \in Files : NoContents[f] = Absent /\ (f \notin Present => inputs[f] = Absent)
  BY <1>3 DEF NoContents, Snapshots, Present
<1>14. task' \in RunTasks
  BY <1>3, <1>12, <1>13 DEF RunTasks
<1>15. RunningExact'
  <2>1. Current'.kind = Kind[n] /\ Current'.seal = NoRecord /\ Current'.dir = d
    BY <1>5, <1>10
  <2>2. RunRecord'.status = "failed"
    BY <1>12 DEF RunRecord
  <2>3. OutcomeExact(Current'.kind, Current'.touched, RunRecord')
    BY <2>2 DEF OutcomeExact
  <2>4. \A f \in Files : d[f] = task'.manifest[f]
    BY <1>4, <1>12, <1>13
  <2>. QED BY <1>3, <1>10, <1>12, <2>1, <2>3, <2>4 DEF RunningExact
<1>16. RunningReported' /\ ChecksHold'
  BY <1>1, <1>12, <1>13 DEF RunningReported, ChecksHold, Present
<1>. QED BY <1>1, <1>11, <1>14, <1>15, <1>16, RunGoesOn

\* An error ends the execution; the record keeps its status.
LEMMA FailInv ==
  ASSUME RunsInv, task \in RunTasks, task.pc \in {"snapshot", "compile", "execute"}, Fail,
         task.pc # "execute" =>
           ~ (report.ok /\ report.of = task.name /\ report.at = fileEdits /\ ~ Current.touched),
         UNCHANGED <<recipes, inputs, reviewed, bundle, report, displayed, fileEdits>>
  PROVE  RunsInv'
<1>1. RunTypes /\ RunningExact /\ RunningReported /\ UNCHANGED runs
  BY DEF RunsInv, Fail
<1>2. task \in [cmd : {"run"}, name : Names, failed : {"no", "snapshot", "compile", "execute"},
                pc : {"snapshot", "compile", "execute", "capture", "record", "seal"},
                recipe : FileContents, names : SUBSET Files, todo : SUBSET Files,
                manifest : Snapshots, status : {"failed", "succeeded"}, outputs : Seq(Nat),
                artifacts : RunDirectories \cup {Absent}]
  BY DEF RunTasks
<1>3. /\ task' \in RunTasks /\ task'.cmd = "run" /\ task'.pc = "capture" /\ task'.failed = task.pc
      /\ task'.name = task.name /\ task'.recipe = task.recipe /\ task'.names = task.names
      /\ task'.manifest = task.manifest /\ task'.status = task.status
      /\ task'.outputs = task.outputs /\ task'.artifacts = task.artifacts
  BY <1>2 DEF Fail, RunTasks
<1>4. RunRecord' = RunRecord /\ RunRecord.status = "failed" /\ Current' = Current /\ task.cmd = "run"
  BY <1>1, <1>2, <1>3 DEF RunRecord, Current, RunningExact
<1>5. OutcomeExact(Current.kind, Current.touched, RunRecord)
      /\ ReceiptKept(Current.kind, RunRecord, Current.dir["receipt"])
  BY <1>4 DEF OutcomeExact, ReceiptKept
<1>6. RunningExact'
  BY <1>1, <1>3, <1>4, <1>5 DEF RunningExact
<1>7. RunningReported' /\ ChecksHold'
  BY <1>1, <1>3, <1>4 DEF RunningReported, ChecksHold, Present
<1>. QED BY <1>1, <1>3, <1>6, <1>7, NothingSealed, RunGoesOn

LEMMA SnapshotInv == ASSUME RunsInv, Snapshot PROVE RunsInv'
<1>1. /\ RunTypes /\ RunningExact /\ RunningReported /\ ChecksHold /\ ReportCurrent
      /\ task.cmd = "run" /\ task.pc = "snapshot"
      /\ UNCHANGED <<recipes, inputs, reviewed, bundle, report, displayed, fileEdits>>
  BY DEF RunsInv, Snapshot, Running
<1>2. task \in RunTasks /\ runs # <<>> /\ Current \in SavedRuns
  BY <1>1, TaskKinds, CurrentTyped DEF RunningExact
<1>3. task \in [cmd : {"run"}, name : Names, failed : {"no", "snapshot", "compile", "execute"},
                pc : {"snapshot", "compile", "execute", "capture", "record", "seal"},
                recipe : FileContents, names : SUBSET Files, todo : SUBSET Files,
                manifest : Snapshots, status : {"failed", "succeeded"}, outputs : Seq(Nat),
                artifacts : RunDirectories \cup {Absent}]
  BY <1>2 DEF RunTasks
<1>4. CASE Fail
  <2>1. \/ task.todo = {} /\ task.names # Present
        \/ \E f \in task.todo : inputs[f] = Absent
        \/ ~ (report.ok /\ report.of = task.name /\ report.at = fileEdits)
    <3>1. SUFFICES ASSUME task.todo # {} \/ task.names = Present PROVE \E f \in task.todo : inputs[f] = Absent
      OBVIOUS
    <3>2. CASE task.todo = {} /\ task.names = Present
      <4>1. task' = [task EXCEPT !.pc = "compile"]
        BY <3>2 DEF Snapshot
      <4>2. task'.pc = "compile"
        BY <1>3, <4>1
      <4>3. task'.pc = "capture"
        BY <1>3, <1>4 DEF Fail
      <4>. QED BY <4>2, <4>3
    <3>3. CASE task.todo # {}
      <4>1. FirstOf(task.todo) \in task.todo
        BY <1>3, <3>3, FirstIsOne
      <4>2. CASE inputs[FirstOf(task.todo)] # Absent
        <5>1. \E d : task' = [task EXCEPT !.manifest[FirstOf(task.todo)] = inputs[FirstOf(task.todo)], !.todo = d]
          BY <3>3, <4>2 DEF Snapshot
        <5>2. task'.pc = "snapshot"
          BY <1>1, <1>3, <5>1
        <5>3. task'.pc = "capture"
          BY <1>3, <1>4 DEF Fail
        <5>. QED BY <5>2, <5>3
      <4>. QED BY <4>1, <4>2
    <3>. QED BY <3>1, <3>2, <3>3
  <2>2. ~ (report.ok /\ report.of = task.name /\ report.at = fileEdits)
    BY <1>1, <2>1 DEF RunningReported, Present
  <2>. QED BY <1>1, <1>2, <1>4, <2>2, FailInv
<1>5. CASE task.todo = {} /\ task.names = Present /\ task' = [task EXCEPT !.pc = "compile"] /\ UNCHANGED runs
  <2>1. /\ task' \in RunTasks /\ task'.cmd = "run" /\ task'.pc = "compile" /\ task'.failed = task.failed
        /\ task'.name = task.name /\ task'.recipe = task.recipe /\ task'.names = task.names
        /\ task'.manifest = task.manifest /\ task'.status = task.status
        /\ task'.outputs = task.outputs /\ task'.artifacts = task.artifacts
    BY <1>3, <1>5 DEF RunTasks
  <2>2. RunRecord' = RunRecord /\ Current' = Current
    BY <1>5, <2>1 DEF RunRecord, Current
  <2>3. RunningExact'
    BY <1>1, <1>5, <2>1, <2>2 DEF RunningExact
  <2>4. ChecksHold'
    BY <1>1, <2>1, <2>2 DEF ChecksHold
  <2>5. RunningReported'
    <3>1. task.manifest \in [Files -> FileContents] /\ inputs \in [Files -> FileContents]
      BY <1>1, <1>3 DEF RunTypes, Snapshots
    <3>2. (\A f \in Files : task.manifest[f] = inputs[f]) => task.manifest = inputs
      BY <3>1
    <3>. QED BY <1>1, <1>5, <2>1, <3>2 DEF RunningReported, Present
  <2>. QED BY <1>1, <1>5, <2>1, <2>3, <2>4, <2>5, NothingSealed, RunGoesOn
<1>6. ASSUME NEW f \in task.todo,
             runs' = [runs EXCEPT ![Len(runs)].dir[f] = inputs[f]],
             task' = [task EXCEPT !.manifest[f] = inputs[f], !.todo = @ \ {f}]
      PROVE  RunsInv'
  <2>1. f \in Files /\ inputs[f] \in FileContents /\ inputs[f] \in Seq(Nat)
    BY <1>1, <1>3 DEF RunTypes, FileContents
  <2>2. PICK d : d = [Current.dir EXCEPT ![f] = inputs[f]]
    OBVIOUS
  <2>3. d \in RunDirectories /\ d[f] = inputs[f] /\ \A g \in Files : g # f => d[g] = Current.dir[g]
    BY <1>2, <2>1, <2>2 DEF SavedRuns, RunDirectories, Artifacts
  <2>4. runs' = [runs EXCEPT ![Len(runs)] = [Current EXCEPT !.dir = d]]
    <3>1. runs' = [runs EXCEPT ![Len(runs)] =
                     [runs[Len(runs)] EXCEPT !.dir = [runs[Len(runs)].dir EXCEPT ![f] = inputs[f]]]]
      BY <1>1, <1>2, <1>6, CurrentTyped
    <3>. QED BY <2>2, <3>1 DEF Current
  <2>5. PICK m : m = [task.manifest EXCEPT ![f] = inputs[f]]
    OBVIOUS
  <2>6. m \in Snapshots /\ m[f] = inputs[f] /\ \A g \in Files : g # f => m[g] = task.manifest[g]
    BY <1>3, <2>1, <2>5 DEF Snapshots
  <2>7. /\ task' \in RunTasks /\ task'.cmd = "run" /\ task'.pc = "snapshot" /\ task'.failed = task.failed
        /\ task'.name = task.name /\ task'.recipe = task.recipe /\ task'.names = task.names
        /\ task'.manifest = m /\ task'.status = task.status /\ task'.todo = task.todo \ {f}
        /\ task'.outputs = task.outputs /\ task'.artifacts = task.artifacts
    <3>1. task' = [task EXCEPT !.manifest = m, !.todo = task.todo \ {f}]
      BY <1>3, <1>6, <2>5
    <3>. QED BY <1>1, <1>3, <2>6, <3>1 DEF RunTasks
  <2>8. /\ SealsKept /\ runs' # <<>> /\ Current'.dir = d /\ Current'.kind = Current.kind
        /\ Current'.seal = Current.seal /\ Current'.touched = Current.touched
    BY <1>1, <1>2, <2>3, <2>4, DirectoryChanges
  <2>9. RunRecord'.status = "failed"
    BY <1>1, <2>7 DEF RunRecord, RunningExact
  <2>10. OutcomeExact(Current'.kind, Current'.touched, RunRecord')
    BY <2>9 DEF OutcomeExact
  <2>11. RunningExact'
    BY <1>1, <2>3, <2>6, <2>7, <2>8, <2>10 DEF RunningExact
  <2>12. RunningReported'
    BY <1>1, <2>6, <2>7 DEF RunningReported, Present
  <2>13. ChecksHold'
    BY <1>1, <2>7, <2>8 DEF ChecksHold
  <2>. QED BY <1>1, <2>7, <2>8, <2>11, <2>12, <2>13, RunGoesOn
<1>7. \/ Fail
      \/ task.todo = {} /\ task.names = Present /\ task' = [task EXCEPT !.pc = "compile"] /\ UNCHANGED runs
      \/ \E f \in task.todo : /\ runs' = [runs EXCEPT ![Len(runs)].dir[f] = inputs[f]]
                              /\ task' = [task EXCEPT !.manifest[f] = inputs[f], !.todo = @ \ {f}]
  BY <1>3, FirstIsOne DEF Snapshot
<1>. QED BY <1>4, <1>5, <1>6, <1>7

\* Compilation reads the snapshot, which is the manifest unless it was edited.
LEMMA RunCompileInv == ASSUME RunsInv, Compile PROVE RunsInv'
<1>1. /\ RunTypes /\ RunningExact /\ RunningReported /\ ChecksHold /\ ReportCurrent
      /\ task.cmd = "run" /\ task.pc = "compile"
      /\ UNCHANGED <<recipes, inputs, reviewed, bundle, report, displayed, fileEdits>>
  BY DEF RunsInv, Compile, Running
<1>2. task \in RunTasks /\ runs # <<>> /\ Current \in SavedRuns
  BY <1>1, TaskKinds, CurrentTyped DEF RunningExact
<1>3. task \in [cmd : {"run"}, name : Names, failed : {"no", "snapshot", "compile", "execute"},
                pc : {"snapshot", "compile", "execute", "capture", "record", "seal"},
                recipe : FileContents, names : SUBSET Files, todo : SUBSET Files,
                manifest : Snapshots, status : {"failed", "succeeded"}, outputs : Seq(Nat),
                artifacts : RunDirectories \cup {Absent}]
  BY <1>2 DEF RunTasks
<1>4. PICK stored : stored = [f \in Files |-> Current.dir[f]]
  OBVIOUS
<1>5. PICK d : d = [Current.dir EXCEPT
                      !["graph"] = IF Current.kind = "graph-device" THEN stored["descriptor"] ELSE <<1>>,
                      !["stage"] = IF Current.kind = "command" THEN stored["text"] ELSE <<1>>]
  OBVIOUS
<1>6. PICK compiled : compiled <=> /\ Compiles(Current.kind, stored)
                                   /\ Current.kind = "graph-device" =>
                                        \A f \in Needs(Current.kind) : stored[f] = task.manifest[f]
  OBVIOUS
<1>7. \/ /\ compiled /\ runs' = [runs EXCEPT ![Len(runs)].dir = d]
         /\ task' = [task EXCEPT !.pc = "execute"]
      \/ ~ compiled /\ Fail
  <2>1. \/ /\ compiled
           /\ runs' = [runs EXCEPT ![Len(runs)].dir =
                [@ EXCEPT !["graph"] = IF Current.kind = "graph-device" THEN stored["descriptor"] ELSE <<1>>,
                          !["stage"] = IF Current.kind = "command" THEN stored["text"] ELSE <<1>>]]
           /\ task' = [task EXCEPT !.pc = "execute"]
        \/ ~ compiled /\ Fail
    BY <1>4, <1>6, Zenon DEF Compile, Saved, Current
  <2>. QED BY <1>5, <2>1 DEF Current
<1>8. Current.kind = Kind[task.name] /\ (~ Current.touched => \A f \in Files : stored[f] = task.manifest[f])
      /\ Current.kind \in {"graph-device", "command", "gemm"}
  BY <1>1, <1>2, <1>4 DEF RunningExact, SavedRuns
<1>9. CASE ~ compiled /\ Fail
  <2>1. ASSUME report.ok, report.of = task.name, report.at = fileEdits, ~ Current.touched
        PROVE  FALSE
    <3>1. Current.kind = "gemm" \/ task.manifest = inputs
      BY <1>1, <1>8, <2>1 DEF RunningReported
    <3>2. Compiles(Current.kind, inputs)
      BY <1>1, <1>8, <2>1 DEF ReportCurrent
    <3>3. \A f \in Needs(Current.kind) : f \in Files /\ stored[f] = task.manifest[f]
      BY <1>8, <2>1, NeedsOf DEF Files
    <3>4. Compiles(Current.kind, stored)
      BY <3>1, <3>2, <3>3, NeedsOf DEF Compiles
    <3>. QED BY <1>6, <1>9, <3>3, <3>4
  <2>. QED BY <1>1, <1>2, <1>9, <2>1, FailInv
<1>10. CASE /\ compiled /\ runs' = [runs EXCEPT ![Len(runs)].dir = d]
            /\ task' = [task EXCEPT !.pc = "execute"]
  <2>1. stored["descriptor"] \in Seq(Nat) /\ stored["text"] \in Seq(Nat) /\ <<1>> \in Seq(Nat)
    BY <1>2, <1>4 DEF SavedRuns, RunDirectories, Artifacts, Files
  <2>2. /\ d \in RunDirectories /\ \A f \in Files : d[f] = Current.dir[f]
        /\ Current.kind = "command" => d["stage"] = stored["text"]
    BY <1>2, <1>5, <2>1 DEF SavedRuns, RunDirectories, Artifacts, Files
  <2>3. runs' = [runs EXCEPT ![Len(runs)] = [Current EXCEPT !.dir = d]]
    BY <1>1, <1>2, <1>10, CurrentTyped DEF Current
  <2>4. /\ SealsKept /\ runs' # <<>> /\ Current'.dir = d /\ Current'.kind = Current.kind
        /\ Current'.seal = Current.seal /\ Current'.touched = Current.touched
    BY <1>1, <1>2, <2>2, <2>3, DirectoryChanges
  <2>5. /\ task' \in RunTasks /\ task'.cmd = "run" /\ task'.pc = "execute" /\ task'.failed = task.failed
        /\ task'.name = task.name /\ task'.recipe = task.recipe /\ task'.names = task.names
        /\ task'.manifest = task.manifest /\ task'.status = task.status
        /\ task'.outputs = task.outputs /\ task'.artifacts = task.artifacts
    BY <1>3, <1>10 DEF RunTasks
  <2>6. RunRecord'.status = "failed"
    BY <1>1, <2>5 DEF RunRecord, RunningExact
  <2>7. OutcomeExact(Current'.kind, Current'.touched, RunRecord')
    BY <2>6 DEF OutcomeExact
  <2>8. ASSUME ~ (Current.kind = "command" /\ Current.touched)
        PROVE  /\ Compiles(Current.kind, task.manifest)
               /\ Current.kind = "command" => d["stage"] = task.manifest["text"]
    <3>1. \A f \in Needs(Current.kind) : stored[f] = task.manifest[f]
      BY <1>6, <1>8, <1>10, <2>8, NeedsOf DEF Files
    <3>2. Compiles(Current.kind, task.manifest)
      BY <1>6, <1>10, <3>1 DEF Compiles
    <3>. QED BY <2>2, <3>1, <3>2, NeedsOf
  <2>9. RunningExact'
    BY <1>1, <2>2, <2>4, <2>5, <2>7, <2>8 DEF RunningExact
  <2>10. RunningReported'
    BY <1>1, <2>5 DEF RunningReported, Present
  <2>11. ChecksHold'
    BY <1>1, <2>4, <2>5 DEF ChecksHold
  <2>. QED BY <1>1, <2>4, <2>5, <2>9, <2>10, <2>11, RunGoesOn
<1>. QED BY <1>7, <1>9, <1>10

LEMMA OracleTyped ==
  ASSUME NEW of, NEW r \in FileContents, NEW c \in [Files -> Seq(Nat)]
  PROVE  Oracle(of, r, c) \in Seq(Nat) /\ (r # Absent => Len(Oracle(of, r, c)) >= 1)
<1>1. r \in Seq(Nat) /\ Len(r) \in Nat /\ (r # Absent => Len(r) >= 1)
  BY DEF FileContents, Absent
<1>2. c["descriptor"] \in Seq(Nat) /\ c["data"] \in Seq(Nat) /\ c["text"] \in Seq(Nat) /\ <<>> \in Seq(Nat)
  BY DEF Files
<1>3. c["descriptor"] \o c["data"] \in Seq(Nat)
  BY <1>2, ConcatProperties
<1>4. PICK t : t = IF of = "graph-device" THEN c["descriptor"] \o c["data"]
                   ELSE IF of = "command" THEN c["text"] ELSE <<>>
  OBVIOUS
<1>5. t \in Seq(Nat)
  BY <1>2, <1>3, <1>4
<1>6. Oracle(of, r, c) = r \o t
  BY <1>4 DEF Oracle
<1>7. r \o t \in Seq(Nat) /\ Len(r \o t) = Len(r) + Len(t)
  BY <1>1, <1>5, ConcatProperties
<1>8. Len(t) \in Nat
  BY <1>5
<1>. QED BY <1>1, <1>6, <1>7, <1>8

LEMMA RunExecuteInv == ASSUME RunsInv, Execute PROVE RunsInv'
<1>1. /\ RunTypes /\ RunningExact /\ RunningReported /\ ChecksHold
      /\ task.cmd = "run" /\ task.pc = "execute"
      /\ UNCHANGED <<recipes, inputs, reviewed, bundle, report, displayed, fileEdits>>
  BY DEF RunsInv, Execute, Running
<1>2. task \in RunTasks /\ runs # <<>> /\ Current \in SavedRuns
  BY <1>1, TaskKinds, CurrentTyped DEF RunningExact
<1>3. task \in [cmd : {"run"}, name : Names, failed : {"no", "snapshot", "compile", "execute"},
                pc : {"snapshot", "compile", "execute", "capture", "record", "seal"},
                recipe : FileContents, names : SUBSET Files, todo : SUBSET Files,
                manifest : Snapshots, status : {"failed", "succeeded"}, outputs : Seq(Nat),
                artifacts : RunDirectories \cup {Absent}]
  BY <1>2 DEF RunTasks
<1>4. PICK seen : seen = IF Current.kind = "command"
                         THEN [task.manifest EXCEPT !["text"] = Current.dir["stage"]]
                         ELSE task.manifest
  OBVIOUS
<1>5. PICK out : out = Oracle(Current.kind, task.recipe, seen)
  OBVIOUS
<1>6. PICK receipt : receipt = IF Current.kind = "graph-device"
                               THEN task.manifest["descriptor"] \o task.manifest["data"] \o out
                               ELSE Absent
  OBVIOUS
<1>7. PICK d : d = [Current.dir EXCEPT !["receipt"] = receipt, !["output"] = out]
  OBVIOUS
<1>8. \/ Fail
      \/ /\ runs' = [runs EXCEPT ![Len(runs)].dir = d]
         /\ task' = [task EXCEPT !.pc = "capture", !.status = "succeeded", !.outputs = out]
  <2>1. \/ Fail
        \/ /\ runs' = [runs EXCEPT ![Len(runs)].dir = [@ EXCEPT !["receipt"] = receipt, !["output"] = out]]
           /\ task' = [task EXCEPT !.pc = "capture", !.status = "succeeded", !.outputs = out]
    BY <1>4, <1>5, <1>6, Zenon DEF Execute
  <2>. QED BY <1>7, <2>1 DEF Current
<1>9. CASE Fail
  BY <1>1, <1>2, <1>9, FailInv
<1>10. CASE /\ runs' = [runs EXCEPT ![Len(runs)].dir = d]
            /\ task' = [task EXCEPT !.pc = "capture", !.status = "succeeded", !.outputs = out]
  <2>1. task.manifest \in [Files -> Seq(Nat)] /\ Current.dir["stage"] \in Seq(Nat)
        /\ task.manifest \in [Files -> FileContents]
    BY <1>2, <1>3 DEF Snapshots, FileContents, SavedRuns, RunDirectories, Artifacts
  <2>2. seen \in [Files -> Seq(Nat)]
    BY <1>4, <2>1
  <2>3. out \in Seq(Nat)
    BY <1>3, <1>5, <2>2, OracleTyped
  <2>4. receipt \in Seq(Nat)
    BY <1>6, <2>1, <2>3 DEF Files, Absent
  <2>5. d \in RunDirectories /\ d["receipt"] = receipt /\ \A f \in Files : d[f] = Current.dir[f]
    BY <1>2, <1>7, <2>3, <2>4 DEF SavedRuns, RunDirectories, Artifacts, Files
  <2>6. runs' = [runs EXCEPT ![Len(runs)] = [Current EXCEPT !.dir = d]]
    BY <1>1, <1>2, <1>10, CurrentTyped DEF Current
  <2>7. /\ SealsKept /\ runs' # <<>> /\ Current'.dir = d /\ Current'.kind = Current.kind
        /\ Current'.seal = Current.seal /\ Current'.touched = Current.touched
    BY <1>1, <1>2, <2>5, <2>6, DirectoryChanges
  <2>8. /\ task' \in RunTasks /\ task'.cmd = "run" /\ task'.pc = "capture" /\ task'.failed = task.failed
        /\ task'.name = task.name /\ task'.recipe = task.recipe /\ task'.names = task.names
        /\ task'.manifest = task.manifest /\ task'.status = "succeeded" /\ task'.outputs = out
        /\ task'.artifacts = task.artifacts
    BY <1>3, <1>10, <2>3 DEF RunTasks
  <2>9. /\ RunRecord'.status = "succeeded" /\ RunRecord'.recipe = task.recipe
        /\ RunRecord'.inputs = task.manifest /\ RunRecord'.outputs = out
    BY <2>8 DEF RunRecord
  <2>10. ASSUME ~ (Current.kind = "command" /\ Current.touched)
         PROVE  Compiles(Current.kind, task.manifest) /\ seen = task.manifest
    <3>1. /\ Compiles(Current.kind, task.manifest)
          /\ Current.kind = "command" => Current.dir["stage"] = task.manifest["text"]
      BY <1>1, <2>10 DEF RunningExact
    <3>2. [task.manifest EXCEPT !["text"] = task.manifest["text"]] = task.manifest
      BY <2>1
    <3>. QED BY <1>4, <3>1, <3>2
  <2>11. OutcomeExact(Current'.kind, Current'.touched, RunRecord')
    BY <1>5, <2>7, <2>9, <2>10 DEF OutcomeExact
  <2>12. ReceiptKept(Current'.kind, RunRecord', Current'.dir["receipt"])
    BY <1>6, <2>5, <2>7, <2>9 DEF ReceiptKept, ReceiptOf
  <2>13. RunningExact'
    BY <1>1, <2>5, <2>7, <2>8, <2>11, <2>12 DEF RunningExact
  <2>14. RunningReported'
    BY <1>1, <2>8 DEF RunningReported, Present
  <2>15. ChecksHold'
    BY <1>1, <2>7, <2>8 DEF ChecksHold
  <2>. QED BY <1>1, <2>7, <2>8, <2>13, <2>14, <2>15, RunGoesOn
<1>. QED BY <1>8, <1>9, <1>10

LEMMA CaptureInv == ASSUME RunsInv, Capture PROVE RunsInv'
<1>1. /\ RunTypes /\ RunningExact /\ RunningReported /\ ChecksHold
      /\ task.cmd = "run" /\ task.pc = "capture" /\ task' = [task EXCEPT !.pc = "record", !.artifacts = Current.dir]
      /\ UNCHANGED <<recipes, inputs, runs, reviewed, bundle, report, displayed, fileEdits>>
  BY DEF RunsInv, Capture, Running
<1>2. task \in RunTasks /\ runs # <<>> /\ Current.dir \in RunDirectories
  BY <1>1, TaskKinds, CurrentTyped DEF RunningExact, SavedRuns
<1>3. /\ task' \in RunTasks /\ task'.cmd = "run" /\ task'.pc = "record" /\ task'.failed = task.failed
      /\ task'.name = task.name /\ task'.recipe = task.recipe /\ task'.names = task.names
      /\ task'.manifest = task.manifest /\ task'.status = task.status
      /\ task'.outputs = task.outputs /\ task'.artifacts = Current.dir
  BY <1>1, <1>2 DEF RunTasks
<1>4. /\ RunRecord'.status = RunRecord.status /\ RunRecord'.recipe = RunRecord.recipe
      /\ RunRecord'.inputs = RunRecord.inputs /\ RunRecord'.outputs = RunRecord.outputs
      /\ Current' = Current
  BY <1>1, <1>3 DEF RunRecord, Current
<1>5. OutcomeExact(Current'.kind, Current'.touched, RunRecord')
      /\ ReceiptKept(Current'.kind, RunRecord', task'.artifacts["receipt"])
  BY <1>1, <1>3, <1>4 DEF RunningExact, OutcomeExact, ReceiptKept, ReceiptOf
<1>6. RunningExact'
  BY <1>1, <1>2, <1>3, <1>4, <1>5 DEF RunningExact
<1>7. RunningReported' /\ ChecksHold'
  BY <1>1, <1>3, <1>4 DEF RunningReported, ChecksHold, Present
<1>. QED BY <1>1, <1>3, <1>6, <1>7, NothingSealed, RunGoesOn

LEMMA RecordTyped ==
  ASSUME task \in RunTasks, task.artifacts \in RunDirectories PROVE RunRecord \in FullRecords
BY DEF RunTasks, RunRecord, FullRecords

LEMMA WriteRecordInv == ASSUME RunsInv, WriteRecord PROVE RunsInv'
<1>1. /\ RunTypes /\ RunningExact /\ RunningReported /\ ChecksHold
      /\ task.cmd = "run" /\ task.pc = "record" /\ task' = [task EXCEPT !.pc = "seal"]
      /\ runs' = [runs EXCEPT ![Len(runs)].record = RunRecord]
      /\ UNCHANGED <<recipes, inputs, reviewed, bundle, report, displayed, fileEdits>>
  BY DEF RunsInv, WriteRecord, Running
<1>2. task \in RunTasks /\ runs # <<>> /\ Current \in SavedRuns /\ RunRecord \in FullRecords
  BY <1>1, TaskKinds, CurrentTyped, RecordTyped DEF RunningExact
<1>3. /\ task' \in RunTasks /\ task'.cmd = "run" /\ task'.pc = "seal" /\ task'.failed = task.failed
      /\ task'.name = task.name /\ task'.recipe = task.recipe /\ task'.names = task.names
      /\ task'.manifest = task.manifest /\ task'.status = task.status
      /\ task'.outputs = task.outputs /\ task'.artifacts = task.artifacts
  BY <1>1, <1>2 DEF RunTasks
<1>4. PICK x : x = [Current EXCEPT !.record = RunRecord]
  OBVIOUS
<1>5. /\ x \in SavedRuns /\ x.kind = Current.kind /\ x.seal = Current.seal
      /\ x.touched = Current.touched /\ x.dir = Current.dir
  BY <1>2, <1>4 DEF SavedRuns
<1>6. runs' = [runs EXCEPT ![Len(runs)] = x]
  BY <1>1, <1>4 DEF Current
<1>7. runs' # <<>> /\ Current' = x /\ SealsKept
  BY <1>1, <1>2, <1>5, <1>6, CurrentChanges
<1>8. RunRecord' = RunRecord
  BY <1>3 DEF RunRecord
<1>9. RunningExact'
  BY <1>1, <1>3, <1>5, <1>7, <1>8 DEF RunningExact
<1>10. RunningReported' /\ ChecksHold'
  BY <1>1, <1>3, <1>5, <1>7 DEF RunningReported, ChecksHold, Present
<1>. QED BY <1>1, <1>3, <1>7, <1>9, <1>10, RunGoesOn

\* The seal is of the record that the run wrote, whatever is in the file.
LEMMA SealInv == ASSUME RunsInv, Seal PROVE RunsInv'
<1>1. /\ RunTypes /\ RunningExact /\ SealsExact /\ ViewsSealed /\ ViewsExact /\ ExportsReviewed
      /\ ReportCurrent
      /\ task.cmd = "run" /\ task.pc = "seal" /\ task' = NoTask
      /\ runs' = [runs EXCEPT ![Len(runs)].seal = RunRecord]
      /\ UNCHANGED <<recipes, inputs, reviewed, bundle, report, displayed, fileEdits>>
  BY DEF RunsInv, Seal, Running
<1>2. task \in RunTasks /\ runs # <<>> /\ Current \in SavedRuns /\ RunRecord \in FullRecords
      /\ Len(runs) \in 1 .. Len(runs) /\ DOMAIN runs = 1 .. Len(runs)
  BY <1>1, TaskKinds, CurrentTyped, RecordTyped DEF RunningExact, RunTypes
<1>3. PICK x : x = [Current EXCEPT !.seal = RunRecord]
  OBVIOUS
<1>4. /\ x \in SavedRuns /\ x.kind = Current.kind /\ x.seal = RunRecord
      /\ x.touched = Current.touched
  BY <1>2, <1>3 DEF SavedRuns
<1>5. runs' = [runs EXCEPT ![Len(runs)] = x]
  BY <1>1, <1>3 DEF Current
<1>6. /\ runs' \in Seq(SavedRuns) /\ Len(runs') = Len(runs) /\ Current' = x
      /\ \A j \in 1 .. Len(runs) : j # Len(runs) => runs'[j] = runs[j]
  BY <1>1, <1>2, <1>4, <1>5, CurrentChanges
<1>7. DOMAIN runs' = DOMAIN runs /\ runs'[Len(runs)] = x /\ runs[Len(runs)].seal = NoRecord
  BY <1>1, <1>2, <1>6 DEF Current, RunningExact
<1>8. SealsExact'
  <2>1. /\ x.seal.recipe # Absent /\ OutcomeExact(x.kind, x.touched, x.seal)
        /\ ReceiptKept(x.kind, x.seal, x.seal.artifacts["receipt"])
    <3>1. RunRecord.recipe = task.recipe /\ RunRecord.artifacts = task.artifacts
      BY DEF RunRecord
    <3>2. /\ task.recipe # Absent /\ OutcomeExact(Current.kind, Current.touched, RunRecord)
          /\ ReceiptKept(Current.kind, RunRecord, task.artifacts["receipt"])
      BY <1>1 DEF RunningExact
    <3>. QED BY <1>4, <3>1, <3>2
  <2>2. ASSUME NEW i \in DOMAIN runs', runs'[i].seal # NoRecord
        PROVE  /\ runs'[i].seal.recipe # Absent
               /\ OutcomeExact(runs'[i].kind, runs'[i].touched, runs'[i].seal)
               /\ ReceiptKept(runs'[i].kind, runs'[i].seal, runs'[i].seal.artifacts["receipt"])
    <3>1. CASE i = Len(runs)
      BY <1>7, <2>1, <3>1
    <3>2. CASE i # Len(runs)
      <4>1. i \in DOMAIN runs /\ runs'[i] = runs[i]
        BY <1>2, <1>6, <1>7, <2>2, <3>2
      <4>. QED BY <1>1, <2>2, <4>1 DEF SealsExact
    <3>. QED BY <3>1, <3>2
  <2>. QED BY <2>2 DEF SealsExact
<1>9. ViewsSealed' /\ ViewsExact' /\ ExportsReviewed'
  <2>1. ASSUME NEW i \in DOMAIN runs, runs[i].seal # NoRecord
        PROVE  i \in DOMAIN runs' /\ runs'[i] = runs[i]
    BY <1>2, <1>6, <1>7, <2>1
  <2>. QED BY <1>1, <2>1 DEF ViewsSealed, ViewsExact, ExportsReviewed
<1>10. RunTypes' /\ RunningExact' /\ ReaderExact' /\ RunningReported' /\ ChecksHold'
  BY <1>1, <1>6 DEF RunTypes, RunningExact, ReaderExact, RunningReported, ChecksHold, NoTask
<1>11. ReportCurrent'
  BY <1>1 DEF ReportCurrent
<1>. QED BY <1>8, <1>9, <1>10, <1>11 DEF RunsInv

LEMMA InterruptCommandInv == ASSUME RunsInv, InterruptCommand PROVE RunsInv'
<1>1. /\ RunTypes /\ RunningExact /\ task' = NoTask
      /\ UNCHANGED <<recipes, inputs, bundle, report, displayed, fileEdits>>
  BY DEF RunsInv, InterruptCommand
<1>2. CASE UNCHANGED runs
  BY <1>1, <1>2, NothingSealed, TaskEnds
<1>3. CASE Running("record") /\ runs' = [runs EXCEPT ![Len(runs)].record = HalfRecord]
  <2>1. runs # <<>> /\ Current \in SavedRuns
    BY <1>1, <1>3, CurrentTyped DEF RunningExact, Running
  <2>2. PICK x : x = [Current EXCEPT !.record = HalfRecord]
    OBVIOUS
  <2>3. x \in SavedRuns /\ x.kind = Current.kind /\ x.seal = Current.seal /\ x.touched = Current.touched
    BY <2>1, <2>2 DEF SavedRuns
  <2>4. runs' = [runs EXCEPT ![Len(runs)] = x]
    BY <1>3, <2>2 DEF Current
  <2>5. SealsKept
    BY <1>1, <2>1, <2>3, <2>4, CurrentChanges
  <2>. QED BY <1>1, <2>5, TaskEnds
<1>. QED BY <1>2, <1>3 DEF InterruptCommand

----------------------------------------------------------------------------
LEMMA LoadedTyped ==
  ASSUME RunTypes, NEW i \in DOMAIN runs, load_run(i)
  PROVE  runs[i].record \in FullRecords /\ runs[i].seal = runs[i].record
<1>1. runs[i] \in SavedRuns
  BY DEF RunTypes
<1>. QED BY <1>1 DEF load_run, SavedRuns, NoRecord, HalfRecord

LEMMA OpenInv ==
  ASSUME RunsInv, NEW i \in DOMAIN runs, NEW reader \in {"garden", "output", "preview", "export"},
         Open(reader, i)
  PROVE  RunsInv'
<1>1. /\ RunTypes /\ load_run(i)
      /\ reader \in {"garden", "output"} => runs[i].record.status = "succeeded" /\ runs[i].kind = "graph-device"
      /\ task' = [cmd |-> reader, pc |-> "opened", run |-> i, rec |-> runs[i].record, seen |-> <<>>]
      /\ UNCHANGED <<recipes, inputs, runs, reviewed, bundle, report, displayed, fileEdits>>
  BY DEF RunsInv, Open
<1>2. runs[i].record \in FullRecords /\ runs[i].seal = runs[i].record /\ i \in Nat
  BY <1>1, LoadedTyped DEF RunTypes
<1>3. task' \in ReadTasks
  BY <1>1, <1>2 DEF ReadTasks
<1>4. ReaderExact'
  BY <1>1, <1>2 DEF ReaderExact
<1>. QED BY <1>1, <1>3, <1>4, ReaderGoesOn

\* The parts of a receipt; an overwritten one has no output.
LEMMA ReceiptParts ==
  ASSUME NEW p \in Seq(Nat), NEW q \in Seq(Nat), NEW o \in Seq(Nat), Len(p) = 1, Len(o) >= 1
  PROVE  SubSeq(p \o q \o o, 1, 1) = p /\ SubSeq(<<9>>, 3, Len(<<9>>)) # o
<1>1. p \o q \in Seq(Nat) /\ Len(p \o q) = 1 + Len(q) /\ (p \o q)[1] = p[1] /\ Len(q) \in Nat
  <2>1. p \o q \in Seq(Nat) /\ Len(p \o q) = Len(p) + Len(q)
    BY ConcatProperties
  <2>2. 1 \in 1 .. Len(p)
    OBVIOUS
  <2>3. (p \o q)[1] = p[1]
    BY <2>2, ConcatProperties
  <2>. QED BY <2>1, <2>3
<1>2. PICK t \in Seq(Nat) : t = p \o q
  BY <1>1
<1>3. PICK w \in Seq(Nat) : w = t \o o /\ Len(w) = Len(t) + Len(o) /\ w[1] = t[1]
  <2>1. t \o o \in Seq(Nat) /\ Len(t \o o) = Len(t) + Len(o)
    BY ConcatProperties
  <2>2. 1 \in 1 .. Len(t)
    BY <1>1, <1>2
  <2>3. (t \o o)[1] = t[1]
    BY <2>2, ConcatProperties
  <2>. QED BY <2>1, <2>3
<1>4. SubSeq(w, 1, 1) = p
  <2>1. SubSeq(w, 1, 1) \in Seq(Nat) /\ Len(SubSeq(w, 1, 1)) = 1 /\ SubSeq(w, 1, 1)[1] = w[1]
    BY <1>1, <1>2, <1>3
  <2>2. SubSeq(w, 1, 1)[1] = p[1]
    BY <1>1, <1>2, <1>3, <2>1
  <2>. QED BY <2>1, <2>2, SeqEqual
<1>5. Len(SubSeq(<<9>>, 3, Len(<<9>>))) = 0
  OBVIOUS
<1>. QED BY <1>2, <1>3, <1>4, <1>5

\* What a reader's record is worth.
LEMMA LoadedExact ==
  ASSUME RunsInv, task.cmd \in {"garden", "output", "preview", "export"}
  PROVE  /\ task \in ReadTasks /\ task.rec \in FullRecords /\ task.run \in DOMAIN runs
         /\ runs[task.run].seal = task.rec /\ task.rec # NoRecord
         /\ task.cmd \in {"garden", "output"} =>
              /\ task.rec.outputs = Oracle("graph-device", task.rec.recipe, task.rec.inputs)
              /\ Len(task.rec.outputs) >= 1 /\ Len(task.rec.inputs["descriptor"]) = 1
              /\ task.rec.artifacts["receipt"] \in {<<9>>, ReceiptOf(task.rec)}
<1>1. task \in ReadTasks /\ task.rec \in FullRecords /\ task.run \in DOMAIN runs
      /\ runs[task.run].seal = task.rec
  BY TaskKinds DEF RunsInv, ReaderExact, ReadTasks
<1>2. task.rec # NoRecord
  BY <1>1 DEF FullRecords, NoRecord
<1>3. ASSUME task.cmd \in {"garden", "output"}
      PROVE  /\ task.rec.outputs = Oracle("graph-device", task.rec.recipe, task.rec.inputs)
             /\ Len(task.rec.outputs) >= 1 /\ Len(task.rec.inputs["descriptor"]) = 1
             /\ task.rec.artifacts["receipt"] \in {<<9>>, ReceiptOf(task.rec)}
  <2>1. runs[task.run].kind = "graph-device" /\ task.rec.status = "succeeded"
    BY <1>3 DEF RunsInv, ReaderExact
  <2>2. /\ task.rec.recipe # Absent /\ OutcomeExact("graph-device", runs[task.run].touched, task.rec)
        /\ ReceiptKept("graph-device", task.rec, task.rec.artifacts["receipt"])
    BY <1>1, <1>2, <2>1 DEF RunsInv, SealsExact
  <2>3. /\ Compiles("graph-device", task.rec.inputs)
        /\ task.rec.outputs = Oracle("graph-device", task.rec.recipe, task.rec.inputs)
        /\ task.rec.artifacts["receipt"] \in {<<9>>, ReceiptOf(task.rec)}
    BY <2>1, <2>2 DEF OutcomeExact, ReceiptKept
  <2>4. task.rec.inputs["descriptor"] \in FileContents /\ task.rec.inputs["descriptor"] # Absent
    BY <1>1, <2>3, NeedsOf DEF FullRecords, Snapshots, Files, Compiles, Valid
  <2>5. Len(task.rec.inputs["descriptor"]) = 1
    <3>1. ASSUME NEW c \in FileContents, c # Absent PROVE Len(c) = 1
      <4>1. c \in Seq(Nat) /\ Len(c) <= 1 /\ c # <<>>
        BY <3>1 DEF FileContents, Absent
      <4>2. Len(c) \in Nat /\ Len(c) # 0
        BY <4>1
      <4>3. \A k \in Nat : k <= 1 /\ k # 0 => k = 1
        OBVIOUS
      <4>. QED BY <4>1, <4>2, <4>3, Zenon
    <3>. QED BY <2>4, <3>1
  <2>6. task.rec.inputs \in [Files -> Seq(Nat)] /\ task.rec.recipe \in FileContents
    BY <1>1 DEF FullRecords, Snapshots, FileContents
  <2>7. Len(task.rec.outputs) >= 1
    BY <2>2, <2>3, <2>6, OracleTyped
  <2>. QED BY <2>3, <2>5, <2>7
<1>. QED BY <1>1, <1>2, <1>3

LEMMA GardenCaptureInv == ASSUME RunsInv, GardenCapture PROVE RunsInv'
<1>1. /\ RunTypes /\ ReaderExact /\ task.cmd = "garden" /\ task.pc = "opened"
      /\ UNCHANGED <<recipes, inputs, runs, reviewed, bundle, report, displayed, fileEdits>>
  BY DEF RunsInv, GardenCapture, Reading
<1>2. /\ task \in ReadTasks /\ task.rec \in FullRecords /\ task.run \in DOMAIN runs
      /\ task.rec.artifacts["receipt"] \in {<<9>>, ReceiptOf(task.rec)}
      /\ Len(task.rec.outputs) >= 1 /\ Len(task.rec.inputs["descriptor"]) = 1
  BY <1>1, LoadedExact
<1>3. PICK stored \in RunDirectories : stored = runs[task.run].dir
  <2>1. runs[task.run] \in SavedRuns
    BY <1>1, <1>2 DEF RunTypes
  <2>. QED BY <2>1 DEF SavedRuns
<1>4. CASE task' = NoTask
  BY <1>1, <1>4, NothingSealed, TaskEnds
<1>5. CASE /\ \A a \in {"graph", "receipt", "descriptor"} : stored[a] = task.rec.artifacts[a]
           /\ SubSeq(stored["receipt"], 3, Len(stored["receipt"])) = task.rec.outputs
           /\ SubSeq(stored["receipt"], 1, 1) = task.rec.artifacts["descriptor"]
           /\ stored["graph"] = stored["descriptor"]
           /\ task' = [task EXCEPT !.pc = "captured",
                         !.seen = [graph |-> stored["graph"], descriptor |-> stored["descriptor"],
                                   receipt |-> stored["receipt"]]]
  <2>1. PICK seen \in SeenByGarden :
          /\ seen = [graph |-> stored["graph"], descriptor |-> stored["descriptor"],
                     receipt |-> stored["receipt"]]
          /\ seen.graph = stored["graph"] /\ seen.descriptor = stored["descriptor"]
          /\ seen.receipt = stored["receipt"]
    <3>1. /\ stored["graph"] \in Seq(Nat) /\ stored["descriptor"] \in Seq(Nat)
          /\ stored["receipt"] \in Seq(Nat)
      BY <1>3 DEF RunDirectories, Artifacts, Files
    <3>2. [graph |-> stored["graph"], descriptor |-> stored["descriptor"],
           receipt |-> stored["receipt"]] \in SeenByGarden
      BY <3>1 DEF SeenByGarden
    <3>. QED BY <3>2
  <2>2. /\ task' \in ReadTasks /\ task'.cmd = "garden" /\ task'.pc = "captured"
        /\ task'.run = task.run /\ task'.rec = task.rec /\ task'.seen = seen
    BY <1>1, <1>2, <1>5, <2>1 DEF ReadTasks
  <2>3. /\ task.rec.inputs["descriptor"] \in Seq(Nat) /\ task.rec.inputs["data"] \in Seq(Nat)
        /\ task.rec.outputs \in Seq(Nat)
    BY <1>2 DEF FullRecords, Snapshots, FileContents, Files
  <2>4. /\ SubSeq(ReceiptOf(task.rec), 1, 1) = task.rec.inputs["descriptor"]
        /\ SubSeq(<<9>>, 3, Len(<<9>>)) # task.rec.outputs
    BY <1>2, <2>3, ReceiptParts DEF ReceiptOf
  <2>5. stored["receipt"] = ReceiptOf(task.rec)
    BY <1>2, <1>5, <2>4
  <2>6. CapturedExact(seen, task.rec)
    BY <1>5, <2>1, <2>4, <2>5 DEF CapturedExact
  <2>7. ReaderExact'
    BY <1>1, <2>2, <2>6 DEF ReaderExact
  <2>. QED BY <1>1, <2>2, <2>7, ReaderGoesOn
<1>6. \/ task' = NoTask
      \/ /\ \A a \in {"graph", "receipt", "descriptor"} : stored[a] = task.rec.artifacts[a]
         /\ SubSeq(stored["receipt"], 3, Len(stored["receipt"])) \in
              {task.rec.outputs} \cap {task.rec.artifacts["output"]}
         /\ SubSeq(stored["receipt"], 1, 1) = task.rec.artifacts["descriptor"]
         /\ stored["graph"] = stored["descriptor"]
         /\ task' = [task EXCEPT !.pc = "captured",
                       !.seen = [graph |-> stored["graph"], descriptor |-> stored["descriptor"],
                                 receipt |-> stored["receipt"]]]
  BY <1>3, Zenon DEF GardenCapture, Close
<1>. QED BY <1>4, <1>5, <1>6

\* A reader ends with something to show or to export.
LEMMA ReaderEnds ==
  ASSUME RunsInv, task' = NoTask, ViewsSealed', ViewsExact', ExportsReviewed',
         UNCHANGED <<recipes, inputs, runs, report, fileEdits>>
  PROVE  RunsInv'
<1>1. RunTypes' /\ ReaderExact' /\ RunningExact' /\ RunningReported' /\ ChecksHold'
  BY DEF RunsInv, RunTypes, ReaderExact, RunningExact, RunningReported, ChecksHold, NoTask
<1>2. SealsExact'
  BY NothingSealed, SealsExactKept DEF RunsInv
<1>3. ReportCurrent'
  BY DEF RunsInv, ReportCurrent
<1>. QED BY <1>1, <1>2, <1>3 DEF RunsInv

LEMMA ShowInv == ASSUME RunsInv, GardenShow \/ Output PROVE RunsInv'
<1>1. /\ RunTypes /\ ReaderExact /\ ViewsSealed /\ ViewsExact /\ ExportsReviewed
      /\ task.cmd \in {"garden", "output"}
      /\ UNCHANGED <<recipes, inputs, runs, reviewed, bundle, report, fileEdits>> /\ task' = NoTask
  BY DEF RunsInv, GardenShow, Output, Reading, Close
<1>2. /\ task.rec \in FullRecords /\ task.run \in DOMAIN runs /\ runs[task.run].seal = task.rec
      /\ task.rec # NoRecord
      /\ task.rec.outputs = Oracle("graph-device", task.rec.recipe, task.rec.inputs)
  BY <1>1, LoadedExact
<1>3. CASE UNCHANGED displayed
  BY <1>1, <1>3, NothingSealed, TaskEnds
<1>4. CASE /\ task.cmd = "garden" /\ task.pc = "captured"
           /\ displayed' = [of |-> task.run, view |-> "garden", seen |-> task.seen]
  <2>1. CapturedExact(task.seen, task.rec)
    BY <1>1, <1>4 DEF ReaderExact
  <2>2. ViewsExact'
    BY <1>1, <1>2, <1>4, <2>1 DEF ViewsExact, CapturedExact, ReceiptOf
  <2>3. ViewsSealed' /\ ExportsReviewed'
    BY <1>1, <1>2, <1>4 DEF ViewsSealed, ExportsReviewed
  <2>. QED BY <1>1, <2>2, <2>3, ReaderEnds
<1>5. CASE displayed' = [of |-> task.run, view |-> "output", seen |-> task.rec.outputs]
  <2>1. ViewsExact'
    BY <1>1, <1>2, <1>5 DEF ViewsExact
  <2>2. ViewsSealed' /\ ExportsReviewed'
    BY <1>1, <1>2, <1>5 DEF ViewsSealed, ExportsReviewed
  <2>. QED BY <1>1, <2>1, <2>2, ReaderEnds
<1>. QED BY <1>3, <1>4, <1>5 DEF GardenShow, Output, Reading

LEMMA CaptureMembersInv == ASSUME RunsInv, CaptureMembers PROVE RunsInv'
<1>1. /\ RunTypes /\ ReaderExact /\ task.cmd \in {"preview", "export"}
      /\ task' = [task EXCEPT !.pc = "captured", !.seen = runs[task.run].dir]
      /\ UNCHANGED <<recipes, inputs, runs, reviewed, bundle, report, displayed, fileEdits>>
  BY DEF RunsInv, CaptureMembers
<1>2. task \in ReadTasks /\ task.run \in DOMAIN runs
  BY <1>1, LoadedExact
<1>3. PICK stored \in RunDirectories : stored = runs[task.run].dir
  <2>1. runs[task.run] \in SavedRuns
    BY <1>1, <1>2 DEF RunTypes
  <2>. QED BY <2>1 DEF SavedRuns
<1>4. task' \in ReadTasks /\ task'.cmd = task.cmd /\ task'.run = task.run /\ task'.rec = task.rec
  BY <1>1, <1>2, <1>3 DEF ReadTasks
<1>5. ReaderExact'
  BY <1>1, <1>4 DEF ReaderExact
<1>. QED BY <1>1, <1>4, <1>5, ReaderGoesOn

\* What is exported was captured while the run was what its seal names.
LEMMA CaptureDoneInv == ASSUME RunsInv, CaptureDone PROVE RunsInv'
<1>1. /\ RunTypes /\ ViewsSealed /\ ViewsExact /\ ExportsReviewed
      /\ task.cmd \in {"preview", "export"} /\ task' = NoTask
      /\ UNCHANGED <<recipes, inputs, runs, report, displayed, fileEdits>>
  BY DEF RunsInv, CaptureDone, Close
<1>2. task.run \in DOMAIN runs /\ runs[task.run].seal = task.rec /\ task.rec # NoRecord
  BY <1>1, LoadedExact
<1>3. \/ UNCHANGED bundle
      \/ /\ load_run(task.run) /\ runs[task.run].record = task.rec /\ runs[task.run].dir = task.seen
         /\ reviewed = [of |-> task.run, record |-> task.rec, files |-> task.seen]
         /\ bundle' = [of |-> task.run, preview |-> reviewed, output |-> task.seen["output"]]
  BY DEF CaptureDone
<1>4. CASE UNCHANGED bundle
  BY <1>1, <1>4, NothingSealed, TaskEnds
<1>5. CASE /\ load_run(task.run) /\ runs[task.run].record = task.rec /\ runs[task.run].dir = task.seen
           /\ reviewed = [of |-> task.run, record |-> task.rec, files |-> task.seen]
           /\ bundle' = [of |-> task.run, preview |-> reviewed, output |-> task.seen["output"]]
  <2>1. task.rec.artifacts = task.seen
    BY <1>5 DEF load_run
  <2>2. bundle'.output = bundle'.preview.files["output"] /\ bundle'.of = task.run
        /\ bundle'.output = task.rec.artifacts["output"]
    BY <1>5, <2>1
  <2>3. ExportsReviewed'
    BY <1>1, <1>2, <2>2 DEF ExportsReviewed
  <2>4. ViewsSealed' /\ ViewsExact'
    BY <1>1, <1>2, <2>2 DEF ViewsSealed, ViewsExact
  <2>. QED BY <1>1, <2>3, <2>4, ReaderEnds
<1>. QED BY <1>3, <1>4, <1>5

LEMMA RunsInductive == RunsInv /\ [RunsNext]_runvars => RunsInv'
<1> SUFFICES ASSUME RunsInv, [RunsNext]_runvars PROVE RunsInv'
  OBVIOUS
<1>1. CASE EditFiles \/ Tamper
  BY <1>1, EditFilesInv, TamperInv
<1>2. ASSUME NEW n \in Names, NEW b \in Backends, StartRun(n, b) \/ Report(n, b) PROVE RunsInv'
  BY <1>2, StartRunInv, ReportInv
<1>3. CASE Snapshot \/ Compile \/ Execute \/ Capture
  BY <1>3, SnapshotInv, RunCompileInv, RunExecuteInv, CaptureInv
<1>4. CASE WriteRecord \/ Seal \/ InterruptCommand
  BY <1>4, WriteRecordInv, SealInv, InterruptCommandInv
<1>5. ASSUME NEW i \in DOMAIN runs, NEW reader \in {"garden", "output", "preview", "export"},
             Open(reader, i)
      PROVE  RunsInv'
  BY <1>5, OpenInv
<1>6. CASE GardenCapture \/ GardenShow \/ Output
  BY <1>6, GardenCaptureInv, ShowInv
<1>7. CASE CaptureMembers \/ CaptureDone
  BY <1>7, CaptureMembersInv, CaptureDoneInv
<1>8. CASE UNCHANGED runvars
  <2>1. /\ UNCHANGED <<recipes, inputs, runs, task, bundle, report, displayed, fileEdits>>
    BY <1>8 DEF runvars
  <2>2. RunTypes' /\ SealsExact' /\ RunningExact' /\ ReaderExact'
    BY <2>1 DEF RunsInv, RunTypes, SealsExact, RunningExact, ReaderExact, Current, RunRecord
  <2>3. ViewsSealed' /\ ReportCurrent' /\ RunningReported' /\ ViewsExact' /\ ExportsReviewed' /\ ChecksHold'
    BY <2>1 DEF RunsInv, ViewsSealed, ReportCurrent, RunningReported, ViewsExact, ExportsReviewed, ChecksHold,
                Current, Present
  <2>. QED BY <2>2, <2>3 DEF RunsInv
<1>. QED BY <1>1, <1>2, <1>3, <1>4, <1>5, <1>6, <1>7, <1>8 DEF RunsNext

\* A run that loads has a seal, and a seal is exact.
LEMMA LoadsFollow == RunsInv => LoadsExact
<1> SUFFICES ASSUME RunsInv, NEW i \in DOMAIN runs, load_run(i), runs[i].record.status = "succeeded",
                    ~ (runs[i].kind = "command" /\ runs[i].touched)
             PROVE  /\ Compiles(runs[i].kind, runs[i].record.inputs)
                    /\ runs[i].record.outputs =
                         Oracle(runs[i].kind, runs[i].record.recipe, runs[i].record.inputs)
  BY DEF LoadsExact
<1>1. runs[i].record \in FullRecords /\ runs[i].seal = runs[i].record
  BY LoadedTyped DEF RunsInv
<1>2. runs[i].seal # NoRecord
  BY <1>1 DEF FullRecords, NoRecord
<1>. QED BY <1>1, <1>2 DEF RunsInv, SealsExact, OutcomeExact

\* project.py: a saved run that loads as a success has the output of its recipe
\* on the inputs it recorded; garden and output show, and an export holds, what
\* the run sealed and the user reviewed; and what the prerequisite report of
\* project_preflight.py passed is snapshotted and compiled, whatever is edited,
\* overwritten or interrupted between two steps of the commands.
THEOREM ProjectIsSound == RunsSpec => []ProjectSound
<1>1. RunsInv => ProjectSound
  BY LoadsFollow DEF RunsInv, ProjectSound
<1>. QED BY <1>1, RunsInitially, RunsInductive, PTL DEF RunsSpec
=============================================================================
