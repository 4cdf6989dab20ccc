------------------------- MODULE EvidencePromotion -------------------------
(***************************************************************************)
(* raveil/t0044_evidence_promotion.py: two sealed runs are verified file   *)
(* by file, copied to a remote, checked there by download, and declared    *)
(* complete by a marker in each remote run and a local receipt.  Source    *)
(* files may be edited and the promoter may stop at any moment; promoters  *)
(* may also overlap.                                                       *)
(*                                                                         *)
(* A file is [sealed, stamp]: whether its bytes are the ones the seal      *)
(* names, and the inode times that change with every write.                *)
(***************************************************************************)
EXTENDS Naturals, Sequences

CONSTANTS
  Promoters,   \* invocations of promote
  FilesPerRun, \* files below each run directory, the seal included
  MaxEdits     \* bound: writes to the source files

\* Each run directory holds at least its seal.
ASSUME PromotionConstants ==
  /\ FilesPerRun \in Nat \ {0}
  /\ MaxEdits \in Nat
  /\ "nobody" \notin Promoters /\ "torn" \notin Promoters

VARIABLES
  source,      \* the local evidence
  remote,      \* the remote copy: "none", "sealed" or "torn" for each file
  marker,      \* completion-marker.json of each remote run: who wrote it
  receipt,     \* the local receipt: who wrote it
  proc,        \* each promoter: its step, file, and initial snapshot
  edits        \* writes so far

pvars == <<source, remote, marker, receipt, proc, edits>>

Runs == {"failed", "recovery"}
Nobody == "nobody"
Torn == "torn"

\* The files in the order in which verify_evidence and rclone visit them.
Order == [k \in 1..(2 * FilesPerRun) |->
            IF k <= FilesPerRun THEN "failed" ELSE "recovery"]
FilesOf(run) == {k \in DOMAIN Order : Order[k] = run}

Step(op, files) == [op |-> op, files |-> files]

\* Mutant: a successful copy is trusted.
Mutant_PerRun(run) ==
  << Step("preflight", FilesOf(run)), Step("copy", FilesOf(run)),
     Step("verify", DOMAIN Order) >>

\* One pass of the transfer loop.
PerRun(run) ==
  << Step("preflight", FilesOf(run)), Step("copy", FilesOf(run)),
     Step("verify", DOMAIN Order), Step("check", FilesOf(run)),
     Step("verify", DOMAIN Order) >>

Publish(run) == << Step("mark", FilesOf(run)), Step("readback", FilesOf(run)) >>

promote_evidence ==
  << Step("revision", {}), Step("initial", DOMAIN Order), Step("config", {}) >>
  \o PerRun("failed") \o PerRun("recovery")
  \o << Step("verify", DOMAIN Order) >> \o Publish("failed") \o Publish("recovery")
  \o << Step("receipt", DOMAIN Order) >>

Ended == Len(promote_evidence) + 1
NoSnapshot == [k \in DOMAIN Order |-> 0]

PromotionInit ==
  /\ source = [k \in DOMAIN Order |-> [sealed |-> TRUE, stamp |-> 0]]
  /\ remote = [k \in DOMAIN Order |-> "none"]
  /\ marker = [r \in Runs |-> Nobody]
  /\ receipt = Nobody
  /\ proc = [p \in Promoters |-> [at |-> 1, done |-> {}, initial |-> NoSnapshot]]
  /\ edits = 0

----------------------------------------------------------------------------
At(p, ops) == proc[p].at < Ended /\ promote_evidence[proc[p].at].op \in ops
Todo(p) == promote_evidence[proc[p].at].files \ proc[p].done
RunOf(p) == Order[CHOOSE k \in promote_evidence[proc[p].at].files : TRUE]

\* The first file that the current step has not visited.
NextFile(p, k) == k \in Todo(p) /\ \A j \in Todo(p) : k <= j

Advance(p) == proc' = [proc EXCEPT ![p].at = @ + 1, ![p].done = {}]
Visited(p, k) ==
  IF Todo(p) = {k} THEN [proc[p] EXCEPT !.at = @ + 1, !.done = {}]
                   ELSE [proc[p] EXCEPT !.done = @ \cup {k}]
Visit(p, k) == proc' = [proc EXCEPT ![p] = Visited(p, k)]

\* A check that fails, an error of rclone or the end of the process.
Fail(p) ==
  /\ proc[p].at < Ended
  /\ proc' = [proc EXCEPT ![p] = [at |-> Ended, done |-> {}, initial |-> NoSnapshot]]
  /\ UNCHANGED <<source, remote, marker, receipt, edits>>

\* The verifier is committed and the tracked worktree clean.
_verifier_revision(p) ==
  /\ At(p, {"revision"}) /\ Advance(p)
  /\ UNCHANGED <<source, remote, marker, receipt, edits>>

\* rclone answers and has a private configuration outside the repository.
_discover_external_config(p) ==
  /\ At(p, {"config"}) /\ Advance(p)
  /\ UNCHANGED <<source, remote, marker, receipt, edits>>

\* A file is hashed between two equal stats and compared with the seal.
_regular_file_snapshot(k) == source[k].sealed

verify_evidence(p) ==
  /\ At(p, {"initial"})
  /\ \E k \in Todo(p) :
       /\ NextFile(p, k) /\ _regular_file_snapshot(k)
       /\ proc' = [proc EXCEPT ![p] = [Visited(p, k) EXCEPT !.initial[k] = source[k].stamp]]
  /\ UNCHANGED <<source, remote, marker, receipt, edits>>

\* Every later verification must yield the snapshot of the first.
_same_snapshot(p) ==
  /\ At(p, {"verify"})
  /\ \E k \in Todo(p) :
       /\ NextFile(p, k) /\ _regular_file_snapshot(k)
       /\ source[k].stamp = proc[p].initial[k]
       /\ Visit(p, k)
  /\ UNCHANGED <<source, remote, marker, receipt, edits>>

preflight(p) ==
  /\ At(p, {"preflight"}) /\ marker[RunOf(p)] = Nobody
  /\ Advance(p)
  /\ UNCHANGED <<source, remote, marker, receipt, edits>>

\* rclone copy --immutable: a file that is there stays, by its size and time;
\* a transfer may store other bytes than it was given.
copy(p) ==
  /\ At(p, {"copy"})
  /\ \E k \in Todo(p) :
       /\ NextFile(p, k)
       /\ remote' \in IF remote[k] # "none" THEN {remote}
                      ELSE {[remote EXCEPT ![k] = Torn],
                            [remote EXCEPT ![k] = IF source[k].sealed THEN "sealed" ELSE Torn]}
       /\ Visit(p, k)
  /\ UNCHANGED <<source, marker, receipt, edits>>

\* rclone check --download: source and remote bytes are the same.
check(p) ==
  /\ At(p, {"check"})
  /\ \E k \in Todo(p) :
       /\ NextFile(p, k)
       /\ remote[k] # "none"
       /\ remote[k] = "sealed" => source[k].sealed
       /\ remote[k] = Torn => ~source[k].sealed
       /\ Visit(p, k)
  /\ UNCHANGED <<source, remote, marker, receipt, edits>>

\* Another promoter's marker has another time, so --immutable refuses it.
_marker(p) ==
  /\ At(p, {"mark"}) /\ marker[RunOf(p)] = Nobody
  /\ marker' \in {[marker EXCEPT ![RunOf(p)] = p], [marker EXCEPT ![RunOf(p)] = Torn]}
  /\ Advance(p)
  /\ UNCHANGED <<source, remote, receipt, edits>>

readback(p) ==
  /\ At(p, {"readback"}) /\ marker[RunOf(p)] = p
  /\ Advance(p)
  /\ UNCHANGED <<source, remote, marker, receipt, edits>>

\* The commands of the receipt are those of every earlier step, in order.
validate_receipt(p) == proc[p].at = Len(promote_evidence)

\* The receipt is created exclusively; the write may be cut short.
write_receipt(p) ==
  /\ validate_receipt(p) /\ receipt = Nobody
  /\ receipt' \in {p, Torn}
  /\ Advance(p)
  /\ UNCHANGED <<source, remote, marker, edits>>

EditSource(k) ==
  /\ edits < MaxEdits
  /\ edits' = edits + 1
  /\ source' = [source EXCEPT ![k] = [sealed |-> ~@.sealed, stamp |-> @.stamp + 1]]
  /\ UNCHANGED <<remote, marker, receipt, proc>>

PromotionNext ==
  \/ \E p \in Promoters : \/ _verifier_revision(p) \/ _discover_external_config(p)
                          \/ verify_evidence(p) \/ _same_snapshot(p) \/ preflight(p)
                          \/ copy(p) \/ check(p) \/ _marker(p) \/ readback(p)
                          \/ write_receipt(p) \/ Fail(p)
  \/ \E k \in DOMAIN Order : EditSource(k)

PromotionSpec == PromotionInit /\ [][PromotionNext]_pvars

----------------------------------------------------------------------------
\* Any marker on the remote means that every remote file of both runs holds the
\* sealed bytes, and a whole receipt that its promoter wrote both markers: no
\* edit, torn transfer, crash or overlapping promoter leads to a false claim.
PromotionSound ==
  /\ (\E r \in Runs : marker[r] # Nobody) => \A k \in DOMAIN Order : remote[k] = "sealed"
  /\ receipt \in Promoters => \A r \in Runs : marker[r] = receipt
============================================================================
