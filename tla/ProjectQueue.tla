---------------------------- MODULE ProjectQueue ----------------------------
(***************************************************************************)
(* scripts/project_queue.py: the commands that move work items through a   *)
(* GitHub Project.  A command reads the issue, the whole board and all     *)
(* issues, checks them, and then edits one field after the other; the      *)
(* edits are not transactional, any of them may fail, and nothing locks    *)
(* the board between the read and the last edit.                           *)
(*                                                                         *)
(* The text fields that a command writes together are one field, "meta"    *)
(* (Parent T-ID, Owner Role, Depends On, Sprint, Story Points, Demo        *)
(* Command, Evidence Class); the three evidence fields of complete are     *)
(* "evidence".                                                             *)
(***************************************************************************)
EXTENDS Naturals, Sequences, FiniteSets

CONSTANTS
  Operators,   \* who runs commands
  Issues,      \* the work-item issues
  Packets,     \* those whose title and body make a complete packet
  Points       \* the story points that may be given

\* The issues and the operators are finitely many, and no work is given zero
\* story points.
ASSUME QueueConstants ==
  IsFiniteSet(Issues) /\ IsFiniteSet(Operators) /\ 0 \notin Points

VARIABLES
  issue,       \* the state of each issue, "none" before it is filed
  pull,        \* the state of its pull request
  board,       \* the Project item of each issue
  job,         \* the edits each operator's command has still to make
  overlapped   \* history: a command began while another had edits to make

qvars == <<issue, pull, board, job, overlapped>>

Statuses == {"absent", "unset", "Backlog", "Blocked", "Ready", "In Progress",
             "Review", "Done"}
ActiveStatuses == {"In Progress", "Review"}
NoItem == [status |-> "absent", priority |-> "", meta |-> FALSE, initial |-> 0,
           evidence |-> FALSE]
NoJob == [items |-> {}, edits |-> <<>>]

QueueInit ==
  /\ issue = [i \in Issues |-> "none"]
  /\ pull = [i \in Issues |-> "none"]
  /\ board = [i \in Issues |-> NoItem]
  /\ job = [o \in Operators |-> NoJob]
  /\ overlapped = FALSE

----------------------------------------------------------------------------
(* Checks.                                                                 *)

\* The whole inventory; a read that is cut short ends the command.
project == {i \in Issues : board[i].status # "absent"}

Active == {i \in project : board[i].status \in ActiveStatuses}
Ready == {i \in project : board[i].status = "Ready"}

WipLimit == 2

\* The errors of the board, each with the issue it is about.
audit_state ==
  {<<"missing from Project", i>> : i \in {j \in Issues \ project : issue[j] = "OPEN"}}
  \cup {<<"delivery WIP exceeds two", i>> :
          i \in IF Cardinality(Active) > WipLimit THEN Active ELSE {}}
  \cup {<<"active but not open", i>> : i \in {j \in Active : issue[j] # "OPEN"}}
  \cup {<<"Done but open", i>> :
          i \in {j \in project : board[j].status = "Done" /\ issue[j] # "CLOSED"}}
  \cup {<<"closed but not Done", i>> :
          i \in {j \in project : board[j].status # "Done" /\ issue[j] = "CLOSED"}}
  \cup {<<"incomplete fields", i>> :
          i \in {j \in project : board[j].status \in ActiveStatuses \cup {"Done"}
                                 /\ ~board[j].meta}}
  \cup {<<"incomplete packet", i>> : i \in Active \ Packets}
  \cup {<<"not Priority P0", i>> : i \in {j \in Active : board[j].priority # "P0"}}

validate_issue_packet(i) == issue[i] = "OPEN" /\ i \in Packets
validate_closed_issue_packet(i) == issue[i] = "CLOSED" /\ i \in Packets

\* The successors an operator may pull.
pullable_ready_items ==
  {i \in Ready : /\ validate_issue_packet(i)
                 /\ board[i].priority = "P1"
                 /\ board[i].initial # 0
                 /\ board[i].meta}

----------------------------------------------------------------------------
(* Commands: the checks, and the edits in the order in which they are made. *)

Edit(field, value) == [field |-> field, value |-> value]

Begin(o, i, edits) ==
  /\ job[o].edits = <<>>
  /\ job' = [job EXCEPT ![o] = [items |-> {i}, edits |-> edits]]
  /\ overlapped' = (overlapped \/ \E p \in Operators \ {o} : job[p] # NoJob)
  /\ UNCHANGED <<issue, pull, board>>

\* Mutant: the items in delivery are not counted; the audit alone does it.
Mutant_CanStart(i) ==
  /\ validate_issue_packet(i)
  /\ board[i].status \in {"Ready", "In Progress"}
  /\ audit_state = {}

CanStart(i) ==
  /\ validate_issue_packet(i)
  /\ board[i].status \in {"Ready", "In Progress"}
  /\ audit_state = {}
  /\ board[i].status # "In Progress" => Cardinality(Active) < WipLimit

start(o, i) ==
  /\ CanStart(i)
  /\ Begin(o, i, <<Edit("priority", "P0"), Edit("meta", TRUE),
                   Edit("status", "In Progress")>>)

\* Mutant: the status is written before the fields it stands for.
Mutant_PrepareEdits(points) ==
  <<Edit("status", "Ready"), Edit("priority", "P1"), Edit("initial", points),
    Edit("meta", TRUE)>>

PrepareEdits(points) ==
  <<Edit("priority", "P1"), Edit("initial", points), Edit("meta", TRUE),
    Edit("status", "Ready")>>

\* Blocked work needs a reason to be prepared again.
prepare(o, i, points, unblocked) ==
  /\ validate_issue_packet(i)
  /\ board[i].status \in {"unset", "Backlog", "Blocked", "Ready"}
  /\ board[i].status = "Blocked" => unblocked
  /\ Ready \subseteq {i}
  /\ audit_state = {}
  /\ board[i].initial \in {0, points}
  /\ Begin(o, i, PrepareEdits(points))

\* Run from the branch of the issue, which must be an active one.
review(o, i) ==
  /\ validate_issue_packet(i)
  /\ pull[i] = "OPEN"
  /\ board[i].status \in ActiveStatuses
  /\ audit_state = {}
  /\ Begin(o, i, <<Edit("status", "Review")>>)

\* Only the errors that the merge of this very issue explains are forgiven.
CanComplete(i) ==
  /\ validate_closed_issue_packet(i)
  /\ pull[i] = "MERGED"
  /\ board[i].status = "Review"
  /\ audit_state \subseteq {<<"active but not open", i>>, <<"closed but not Done", i>>}

complete(o, i) ==
  /\ CanComplete(i)
  /\ Begin(o, i, <<Edit("evidence", TRUE), Edit("status", "Done")>>)

edit_field(o) ==
  /\ job[o].edits # <<>>
  /\ LET edit == Head(job[o].edits) IN
       board' = [i \in Issues |->
                   IF i \in job[o].items THEN [board[i] EXCEPT ![edit.field] = edit.value]
                                         ELSE board[i]]
  /\ job' = [job EXCEPT ![o] = IF Len(job[o].edits) = 1
                               THEN NoJob ELSE [job[o] EXCEPT !.edits = Tail(job[o].edits)]]
  /\ UNCHANGED <<issue, pull, overlapped>>

\* gh fails or the command is killed: the edits made so far stay.
Abort(o) ==
  /\ job[o].edits # <<>>
  /\ job' = [job EXCEPT ![o] = NoJob]
  /\ UNCHANGED <<issue, pull, board, overlapped>>

----------------------------------------------------------------------------
(* What people do on GitHub.                                               *)

File(i) ==
  /\ issue[i] = "none"
  /\ issue' = [issue EXCEPT ![i] = "OPEN"]
  /\ UNCHANGED <<pull, board, job, overlapped>>

Link(i) ==
  /\ issue[i] = "OPEN" /\ i \notin project
  /\ \E status \in {"unset", "Backlog", "Blocked"} :
       board' = [board EXCEPT ![i].status = status]
  /\ UNCHANGED <<issue, pull, job, overlapped>>

OpenPull(i) ==
  /\ issue[i] = "OPEN" /\ pull[i] = "none" /\ i \in Active
  /\ pull' = [pull EXCEPT ![i] = "OPEN"]
  /\ UNCHANGED <<issue, board, job, overlapped>>

\* A pull request that says "Closes" is merged once it is in review.
Merge(i) ==
  /\ pull[i] = "OPEN" /\ board[i].status = "Review"
  /\ pull' = [pull EXCEPT ![i] = "MERGED"]
  /\ issue' = [issue EXCEPT ![i] = "CLOSED"]
  /\ UNCHANGED <<board, job, overlapped>>

QueueNext ==
  \/ \E o \in Operators :
       \/ edit_field(o) \/ Abort(o)
       \/ \E i \in Issues :
            \/ start(o, i) \/ review(o, i) \/ complete(o, i)
            \/ \E points \in Points, unblocked \in BOOLEAN :
                 prepare(o, i, points, unblocked)
  \/ \E i \in Issues : File(i) \/ Link(i) \/ OpenPull(i) \/ Merge(i)

QueueSpec == QueueInit /\ [][QueueNext]_qvars

----------------------------------------------------------------------------
(* Properties.                                                             *)

\* The issues whose merge the board does not show yet, or that are not linked.
Pending == {i \in Issues : \/ issue[i] = "CLOSED" /\ board[i].status = "Review"
                           \/ issue[i] = "OPEN" /\ i \notin project}

\* The limit of delivery work that start checks on the board it has read, for
\* operators whose edits follow later: nothing locks the board, so that two who
\* start at once may both count the same items, but each goes past the limit by
\* its own item at most.
WipBounded == Cardinality(Active) < WipLimit + Cardinality(Operators)

\* Wherever commands were interrupted, as long as no two were under way at once:
\* the audit that guards the next command finds nothing but a merge that is not
\* yet on the board or an issue not yet linked, a Ready item is one to pull or one
\* whose start was interrupted, and there is never more than one successor.
\* However many commands overlapped, the delivery work is bounded.
BoardSound ==
  /\ ~overlapped =>
       /\ \A error \in audit_state : error[2] \in Pending
       /\ Ready \subseteq pullable_ready_items \cup {i \in Ready : board[i].priority = "P0"}
       /\ Cardinality(Ready) <= 1
  /\ WipBounded

\* A merged item in Review can be completed, now or after a failed attempt,
\* once every open issue is linked. Not so of the code: the closed issue of a
\* second merged item is an audit error of the first, and the other way round.
MergedCompletes ==
  \A i \in {j \in Packets : \A k \in Issues : issue[k] = "OPEN" => k \in project} :
    (pull[i] = "MERGED" /\ board[i].status = "Review") => CanComplete(i)
============================================================================
