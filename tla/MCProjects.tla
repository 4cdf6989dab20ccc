----------------------------- MODULE MCProjects -----------------------------
(***************************************************************************)
(* The work queue, the project workflow and the interactive graph session, *)
(* one part at a time: `part` says which of them runs, the others stay as  *)
(* they are at first.                                                      *)
(*                                                                         *)
(* queue: three issues with a complete packet and one without, and an      *)
(*   operator who may stop halfway.                                        *)
(* operators: two operators at once, one issue in progress and three that  *)
(*   are filed and linked; nobody opens a pull request.                    *)
(* runs: one run of any recipe with an edit before or during it and a      *)
(*   stray change of what it saved, then previews, exports and displays.   *)
(* fork: forks of every kind of recipe, failing at any system call, with   *)
(*   the user creating, replacing and deleting destinations meanwhile.     *)
(* parents: every kind of parent with up to three children, two edits of   *)
(*   its sources.                                                          *)
(* session: shapes on both sides of the predictor's thresholds and one out *)
(*   of range.                                                             *)
(***************************************************************************)
EXTENDS ProjectQueue, ProjectFork, GraphSession, ProjectParents, ProjectRuns

CONSTANT Parts

VARIABLE part

----------------------------------------------------------------------------
\* The dimensions a graph of the session may be asked for.
SessionShapes == {<<32, 32, 32>>, <<8, 8, 8>>, <<0, 1, 1>>}

----------------------------------------------------------------------------
\* A board with one issue in progress and the others filed and linked, which
\* QueueInit reaches by one operator's commands.
BusyInit ==
  /\ issue = [i \in Issues |-> IF i \in Packets THEN "OPEN" ELSE "none"]
  /\ pull = [i \in Issues |-> "none"]
  /\ board = [i \in Issues |->
       CASE i = "i1" -> [status |-> "In Progress", priority |-> "P0", meta |-> TRUE,
                         initial |-> 1, evidence |-> FALSE]
         [] i \in Packets \ {"i1"} -> [NoItem EXCEPT !.status = "Backlog"]
         [] OTHER -> NoItem]
  /\ job = [o \in Operators |-> NoJob]
  /\ overlapped = FALSE

\* One operator has the board to himself, and "i4" is never filed.
OneOperator == job'["b"] = NoJob /\ issue'["i4"] = "none"

\* Work goes into delivery and stays there.
NothingFinished == UNCHANGED <<issue, pull>>

----------------------------------------------------------------------------
\* A part that is not selected stays in one of its initial states.
ProjectsInit ==
  /\ part \in Parts
  /\ IF part = "parents" THEN TRUE ELSE kind = "fold"
  /\ IF part = "operators" THEN BusyInit ELSE QueueInit
  /\ RunsInit /\ ForkInit /\ ParentInit /\ SessionInit

ProjectsNext ==
  /\ UNCHANGED part
  /\ \/ part = "queue" /\ QueueNext /\ OneOperator
        /\ UNCHANGED <<runvars, fvars, pvars, svars>>
     \/ part = "operators" /\ QueueNext /\ NothingFinished
        /\ UNCHANGED <<runvars, fvars, pvars, svars>>
     \/ part = "runs" /\ RunsNext /\ UNCHANGED <<qvars, fvars, pvars, svars>>
     \/ part = "fork" /\ ForkNext /\ UNCHANGED <<qvars, runvars, pvars, svars>>
     \/ part = "parents" /\ ParentNext /\ UNCHANGED <<qvars, runvars, fvars, svars>>
     \/ part = "session" /\ SessionNext /\ UNCHANGED <<qvars, runvars, fvars, pvars>>

ProjectsSpec == ProjectsInit /\ [][ProjectsNext]_<<part, qvars, runvars, fvars, pvars, svars>>
=============================================================================
