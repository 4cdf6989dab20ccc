----------------------------- MODULE ProjectFork -----------------------------
(* Project.fork of raveil/project.py: the copies of a recipe's input files   *)
(* are created exclusively, the rewritten recipe under a hidden name, and a  *)
(* hard link publishes it last. An error removes what this call created, in  *)
(* reverse order and only where the inode is still its own; the check and    *)
(* the removal are two system calls. The user's own tools may create,        *)
(* replace or delete a destination at any time, but not the hidden name.     *)
EXTENDS Naturals, Sequences, SequencesExt

CONSTANTS MaxForks, MaxUser

VARIABLES
    slot,      \* path -> who created the file there: none, user, fork, or
               \* reused: the user's, with the inode number of a fork's file
    pc,        \* step of the fork in progress
    payloads,  \* the input files this fork copies
    created,   \* the paths this call created, oldest first
    retained,  \* the paths its cleanup had to leave
    answer,    \* of the last fork
    touched,   \* history: the paths the user changed since the fork began
    window,    \* history: those changed since its last identity check
    forks, userSteps

histories == <<touched, window>>
fvars == <<slot, pc, payloads, created, retained, answer, histories, forks, userSteps>>

Inputs == {"descriptor", "input"}
Paths == Inputs \cup {"temp", "recipe"}

ForkInit ==
    /\ slot = [p \in Paths |-> "none"]
    /\ pc = "idle" /\ payloads = <<>> /\ created = <<>> /\ retained = {}
    /\ touched = {} /\ window = {}
    /\ answer = "none" /\ forks = 0 /\ userSteps = 0

(* A graph recipe copies its descriptor and, in its snapshot form, its input *)
(* file; the other kinds copy nothing. Every destination must be free.       *)
Preflight ==
    /\ pc = "idle" /\ forks < MaxForks
    /\ \E wanted \in {<<>>, <<"descriptor">>, <<"descriptor", "input">>} :
          /\ \A p \in Range(wanted) \cup {"recipe"} : slot[p] = "none"
          /\ payloads' = wanted
    /\ pc' = "write" /\ created' = <<>> /\ retained' = {}
    /\ touched' = {} /\ window' = {}
    /\ answer' = "none" /\ forks' = forks + 1
    /\ slot' = [slot EXCEPT !["temp"] = "none"]   \* a fresh hidden name
    /\ UNCHANGED userSteps

(* write_new creates exclusively; the file counts as created before its      *)
(* bytes are written, so a failing write leaves it to the cleanup. The fstat *)
(* between the two, of a descriptor just opened, is taken to succeed.        *)
Writes == payloads \o <<"temp">>

WriteNext ==
    /\ pc = "write"
    /\ LET p == Writes[Len(created) + 1] IN
       \/ /\ slot[p] = "none"
          /\ slot' = [slot EXCEPT ![p] = "fork"]
          /\ created' = Append(created, p)
          /\ \/ pc' = IF p = "temp" THEN "link" ELSE "write"
             \/ pc' = "rollback"
       \/ pc' = "rollback" /\ UNCHANGED <<slot, created>>
    /\ UNCHANGED <<payloads, retained, answer, histories, forks, userSteps>>

(* os.link never replaces: it fails when the recipe name was taken since, or *)
(* with an error of its own.                                                 *)
Publish ==
    /\ pc = "link"
    /\ \/ /\ slot["recipe"] = "none"
          /\ slot' = [slot EXCEPT !["recipe"] = "fork"]
          /\ created' = Append(created, "recipe")
          /\ pc' = "unlink"
       \/ pc' = "rollback" /\ UNCHANGED <<slot, created>>
    /\ UNCHANGED <<payloads, retained, answer, histories, forks, userSteps>>

UnlinkTemp ==
    /\ pc = "unlink"
    /\ \/ /\ slot' = [slot EXCEPT !["temp"] = "none"]
          /\ pc' = "idle" /\ answer' = "forked"
       \/ pc' = "rollback" /\ UNCHANGED <<slot, answer>>
    /\ UNCHANGED <<payloads, created, retained, histories, forks, userSteps>>

(* The cleanup without the comparison of inodes.                             *)
Mutant_RollbackNext ==
    /\ pc = "rollback" /\ created # <<>>
    /\ IF slot[Last(created)] = "none"
         THEN created' = Front(created) /\ UNCHANGED <<pc, window>>
         ELSE pc' = "remove" /\ window' = {} /\ UNCHANGED created
    /\ UNCHANGED <<slot, payloads, retained, answer, touched, forks, userSteps>>

(* One path of the cleanup: lstat finds the recorded inode, or no file, or   *)
(* another file; that, and every other error of lstat, is reported.          *)
RollbackNext ==
    /\ pc = "rollback" /\ created # <<>>
    /\ \/ /\ slot[Last(created)] \in {"fork", "reused"}
          /\ pc' = "remove" /\ window' = {} /\ UNCHANGED <<created, retained>>
       \/ /\ slot[Last(created)] = "none"
          /\ created' = Front(created) /\ UNCHANGED <<pc, retained, window>>
       \/ /\ retained' = retained \cup {Last(created)}
          /\ created' = Front(created) /\ UNCHANGED <<pc, window>>
    /\ UNCHANGED <<slot, payloads, answer, touched, forks, userSteps>>

(* unlink goes by name: it removes whatever is there by now, or fails, which *)
(* is reported unless the file has gone.                                     *)
RemoveNext ==
    /\ pc = "remove"
    /\ \/ slot' = [slot EXCEPT ![Last(created)] = "none"] /\ UNCHANGED retained
       \/ retained' = retained \cup {Last(created)} /\ UNCHANGED slot
    /\ pc' = "rollback" /\ created' = Front(created)
    /\ UNCHANGED <<payloads, answer, histories, forks, userSteps>>

RollbackEnds ==
    /\ pc = "rollback" /\ created = <<>>
    /\ pc' = "idle" /\ answer' = IF retained = {} THEN "failed" ELSE "manual"
    /\ UNCHANGED <<slot, payloads, created, retained, histories, forks, userSteps>>

Crash ==
    /\ pc # "idle"
    /\ pc' = "idle" /\ answer' = "crashed"
    /\ UNCHANGED <<slot, payloads, created, retained, histories, forks, userSteps>>

(* The user's editor creates a file, replaces one by rename or deletes one.  *)
(* A file created where the fork's was deleted may get its inode number; the *)
(* recipe's belongs to the hidden name as well.                              *)
User ==
    /\ userSteps < MaxUser /\ userSteps' = userSteps + 1
    /\ \E p \in Inputs \cup {"recipe"} :
          /\ \/ slot[p] # "user" /\ slot' = [slot EXCEPT ![p] = "user"]
             \/ slot[p] # "none" /\ slot' = [slot EXCEPT ![p] = "none"]
             \/ /\ slot[p] = "none" /\ p \in Range(created) \ {"recipe"}
                /\ slot' = [slot EXCEPT ![p] = "reused"]
          /\ touched' = touched \cup {p} /\ window' = window \cup {p}
    /\ UNCHANGED <<pc, payloads, created, retained, answer, forks>>

ForkNext ==
    \/ Preflight \/ WriteNext \/ Publish \/ UnlinkTemp
    \/ RollbackNext \/ RemoveNext \/ RollbackEnds \/ Crash \/ User

ForkSpec == ForkInit /\ [][ForkNext]_fvars

-----------------------------------------------------------------------------
(* A recipe a fork published has the files it names, as the fork made them:  *)
(* "preventing a caught failure from exposing an admitted incomplete recipe" *)
(* (ADR-0098). Two things excuse it: the user's own change of a file, and a  *)
(* cleanup that has reported the recipe it could not remove.                 *)
PublishedWhole ==
    slot["recipe"] = "fork" =>
        \/ "recipe" \in retained
        \/ \A p \in Range(payloads) : slot[p] = "fork" \/ p \in touched

(* A file of the user's goes by the user's own hand, or because it was put   *)
(* there between the identity check and the removal: the check protects      *)
(* every earlier one that does not carry the recorded inode number.          *)
OthersKept ==
    \A p \in Paths : slot[p] = "user" /\ slot'[p] # "user" =>
        userSteps' # userSteps \/ p \in window

(* What a fork publishes is complete, it touches only what it created, and   *)
(* one that failed left nothing that it made but what it reports.            *)
ForkSound ==
    [][/\ PublishedWhole'
       /\ OthersKept
       /\ answer' # answer /\ answer' \in {"failed", "manual"} =>
             \A p \in Range(payloads) \cup {"temp", "recipe"} :
                slot'[p] = "fork" => answer' = "manual" /\ p \in retained']_fvars
=============================================================================
