--------------------------- MODULE EvidenceProofs ---------------------------
(***************************************************************************)
(* For any number of promoters, files and edits: a completion marker on    *)
(* the remote means that every remote file holds the sealed bytes, and a   *)
(* whole receipt that its promoter wrote both markers. For any matrix of   *)
(* variants: a collector derives only from complete logs that it recorded, *)
(* and a sealed report is of exactly the bytes that its seal names. For a  *)
(* static region of any size, whatever descriptor and words it is given:   *)
(* the output that becomes valid is the oracle's.                          *)
(***************************************************************************)
EXTENDS EvidencePromotion, CampaignRun, PhysicalEvidence, ControlledRun, StaticRegion,
        FiniteSetTheorems, SequenceTheorems, TLAPS

Files == DOMAIN Order

\* The steps of promote_evidence by number.
LEMMA Steps ==
  /\ Len(promote_evidence) = 19
  /\ promote_evidence[1] = Step("revision", {})
  /\ promote_evidence[2] = Step("initial", Files)
  /\ promote_evidence[3] = Step("config", {})
  /\ promote_evidence[4] = Step("preflight", FilesOf("failed"))
  /\ promote_evidence[5] = Step("copy", FilesOf("failed"))
  /\ promote_evidence[6] = Step("verify", Files)
  /\ promote_evidence[7] = Step("check", FilesOf("failed"))
  /\ promote_evidence[8] = Step("verify", Files)
  /\ promote_evidence[9] = Step("preflight", FilesOf("recovery"))
  /\ promote_evidence[10] = Step("copy", FilesOf("recovery"))
  /\ promote_evidence[11] = Step("verify", Files)
  /\ promote_evidence[12] = Step("check", FilesOf("recovery"))
  /\ promote_evidence[13] = Step("verify", Files)
  /\ promote_evidence[14] = Step("verify", Files)
  /\ promote_evidence[15] = Step("mark", FilesOf("failed"))
  /\ promote_evidence[16] = Step("readback", FilesOf("failed"))
  /\ promote_evidence[17] = Step("mark", FilesOf("recovery"))
  /\ promote_evidence[18] = Step("readback", FilesOf("recovery"))
  /\ promote_evidence[19] = Step("receipt", Files)
BY DEF promote_evidence, PerRun, Publish, Files

LEMMA FilesFacts ==
  /\ Files = 1 .. 2 * FilesPerRun
  /\ \A k \in Files : Order[k] \in Runs
  /\ FilesOf("failed") # {} /\ FilesOf("recovery") # {}
  /\ \A run \in Runs : FilesOf(run) = {k \in Files : Order[k] = run}
<1>1. FilesPerRun \in Nat \ {0}
  BY PromotionConstants
<1>2. Files = 1 .. 2 * FilesPerRun
  BY DEF Files, Order
<1>3. 1 \in Files /\ 2 * FilesPerRun \in Files
  BY <1>1, <1>2
<1>4. Order[1] = "failed" /\ Order[2 * FilesPerRun] = "recovery"
  BY <1>1, <1>3 DEF Files, Order
<1>. QED BY <1>2, <1>3, <1>4 DEF Files, FilesOf, Order, Runs

\* A promoter has passed a file of a step when the step has visited it.
Passed(p, step, k) == proc[p].at > step \/ (proc[p].at = step /\ k \in proc[p].done)
Live(p) == proc[p].at < 20

\* The step that downloads and compares a file.
CheckStep(k) == IF Order[k] = "failed" THEN 7 ELSE 12

PromotionTypes ==
  /\ source \in [Files -> [sealed : BOOLEAN, stamp : Nat]]
  /\ remote \in [Files -> {"none", "sealed", Torn}]
  /\ marker \in [Runs -> Promoters \cup {Nobody, Torn}]
  /\ receipt \in Promoters \cup {Nobody, Torn}
  /\ proc \in [Promoters -> [at : 1 .. 20, done : SUBSET Files, initial : [Files -> Nat]]]

\* A file that still has the stamp of the first verification is still sealed.
SnapshotOK(p) ==
  \A k \in Files : Passed(p, 2, k) =>
    /\ proc[p].initial[k] <= source[k].stamp
    /\ proc[p].initial[k] = source[k].stamp => source[k].sealed

\* What was compared is sealed, unless the source had changed by then: the next
\* verification finds that out.
Compared(p) ==
  \A k \in Files : Passed(p, CheckStep(k), k) =>
    remote[k] = "sealed" \/ proc[p].initial[k] < source[k].stamp

Confirmed(p) == \A k \in Files : Passed(p, CheckStep(k) + 1, k) => remote[k] = "sealed"

\* What a promoter has read back it wrote.
ReadBack(p) ==
  /\ proc[p].at > 16 => marker["failed"] = p
  /\ proc[p].at > 18 => marker["recovery"] = p

PromoterOK(p) == Live(p) => SnapshotOK(p) /\ Compared(p) /\ Confirmed(p) /\ ReadBack(p)

PromotionInv == PromotionTypes /\ PromotionSound /\ \A p \in Promoters : PromoterOK(p)

----------------------------------------------------------------------------

\* Which step an operation can be.
LEMMA StepOf ==
  ASSUME PromotionTypes, NEW p \in Promoters
  PROVE  /\ At(p, {"revision"}) => proc[p].at = 1
         /\ At(p, {"initial"}) => proc[p].at = 2
         /\ At(p, {"config"}) => proc[p].at = 3
         /\ At(p, {"preflight"}) => proc[p].at \in {4, 9}
         /\ At(p, {"copy"}) => proc[p].at \in {5, 10}
         /\ At(p, {"verify"}) => proc[p].at \in {6, 8, 11, 13, 14}
         /\ At(p, {"check"}) => proc[p].at \in {7, 12}
         /\ At(p, {"mark"}) => proc[p].at \in {15, 17}
         /\ At(p, {"readback"}) => proc[p].at \in {16, 18}
<1>1. proc[p].at \in 1 .. 20
  BY DEF PromotionTypes
<1>2. Ended = 20
  BY Steps DEF Ended
<1>. QED BY <1>1, <1>2, Steps DEF At, Step

LEMMA PromotionInitial == PromotionInit => PromotionInv
<1>. SUFFICES ASSUME PromotionInit PROVE PromotionInv
  OBVIOUS
<1>1. PromotionTypes
  BY DEF PromotionInit, PromotionTypes, Files, NoSnapshot
<1>2. PromotionSound
  BY PromotionConstants DEF PromotionInit, PromotionSound, Nobody
<1>3. ASSUME NEW p \in Promoters PROVE PromoterOK(p)
  <2>1. proc[p].at = 1
    BY DEF PromotionInit
  <2>2. \A step \in {2, 7, 8, 12, 13}, k \in Files : ~Passed(p, step, k)
    BY <2>1 DEF Passed
  <2>3. \A k \in Files : CheckStep(k) \in {7, 12} /\ CheckStep(k) + 1 \in {8, 13}
    BY DEF CheckStep
  <2>. QED BY <2>1, <2>2, <2>3 DEF PromoterOK, SnapshotOK, Compared, Confirmed, ReadBack
<1>. QED BY <1>1, <1>2, <1>3 DEF PromotionInv

\* The files only ever move on: a stamp grows with every write, a remote file
\* that holds the sealed bytes is never replaced, nor is a marker.
FilesMoveOn ==
  /\ \A k \in Files : /\ source'[k].stamp \in Nat /\ source[k].stamp <= source'[k].stamp
                      /\ source'[k].stamp = source[k].stamp => source'[k].sealed = source[k].sealed
                      /\ remote[k] = "sealed" => remote'[k] = "sealed"
  /\ \A r \in Runs : marker[r] # Nobody => marker'[r] = marker[r]

LEMMA OthersKeepPromotion ==
  ASSUME PromotionInv, NEW q \in Promoters, proc'[q] = proc[q], FilesMoveOn
  PROVE  PromoterOK(q)'
<1>. SUFFICES ASSUME Live(q) PROVE (SnapshotOK(q) /\ Compared(q) /\ Confirmed(q) /\ ReadBack(q))'
  BY DEF PromoterOK, Live
<1>0. SnapshotOK(q) /\ Compared(q) /\ Confirmed(q) /\ ReadBack(q) /\ PromotionTypes
  BY DEF PromotionInv, PromoterOK
<1>1. \A k \in Files : source[k].stamp \in Nat /\ source'[k].stamp \in Nat /\ proc[q].initial[k] \in Nat
  BY <1>0 DEF PromotionTypes, FilesMoveOn
<1>2. SnapshotOK(q)'
  BY <1>0, <1>1 DEF SnapshotOK, Passed, FilesMoveOn, Files
<1>3. Compared(q)'
  BY <1>0, <1>1 DEF Compared, Passed, FilesMoveOn, CheckStep, Files
<1>4. Confirmed(q)'
  BY <1>0 DEF Confirmed, Passed, FilesMoveOn, CheckStep, Files
<1>5. ReadBack(q)'
  BY <1>0, PromotionConstants DEF ReadBack, FilesMoveOn, Runs, Nobody
<1>. QED BY <1>2, <1>3, <1>4, <1>5

\* A step of p itself: it passes the first verification with the stamp it
\* reads, a comparison when the bytes agree, and the verification behind it
\* only when the stamp is still the first one.
LEMMA OwnKeeps ==
  ASSUME PromotionInv, NEW p \in Promoters, Live(p), FilesMoveOn, source' = source, ReadBack(p)',
         proc'[p].at \in Nat,
         \A k \in Files :
           /\ proc'[p].initial[k] \in Nat
           /\ Passed(p, 2, k) => proc'[p].initial[k] = proc[p].initial[k]
           /\ Passed(p, 2, k)' => \/ Passed(p, 2, k)
                                  \/ proc'[p].initial[k] = source[k].stamp /\ source[k].sealed
           /\ Passed(p, CheckStep(k), k)' => \/ Passed(p, CheckStep(k), k) \/ remote[k] = "sealed"
                                             \/ proc'[p].initial[k] # source[k].stamp
           /\ Passed(p, CheckStep(k) + 1, k)' =>
                \/ Passed(p, CheckStep(k) + 1, k)
                \/ Passed(p, CheckStep(k), k) /\ proc[p].initial[k] = source[k].stamp
  PROVE  PromoterOK(p)'
<1>0. SnapshotOK(p) /\ Compared(p) /\ Confirmed(p) /\ PromotionTypes
  BY DEF PromotionInv, PromoterOK
<1>1. \A k \in Files : source[k].stamp \in Nat /\ proc[p].initial[k] \in Nat /\ proc[p].at \in Nat
  <2>1. \A k \in Files : source[k].stamp \in Nat
    BY <1>0 DEF PromotionTypes
  <2>2. proc[p].at \in Nat /\ \A k \in Files : proc[p].initial[k] \in Nat
    BY <1>0, SMTT(40), ZenonT(40) DEF PromotionTypes
  <2>. QED BY <2>1, <2>2
<1>2. \A k \in Files : CheckStep(k) \in {7, 12} /\ CheckStep(k)' = CheckStep(k)
  BY DEF CheckStep
<1>3. \A k \in Files : /\ Passed(p, CheckStep(k), k) => Passed(p, 2, k)
                       /\ Passed(p, CheckStep(k), k)' => Passed(p, 2, k)'
  BY <1>1, <1>2 DEF Passed
<1>4. SnapshotOK(p)'
  BY <1>0, <1>1 DEF SnapshotOK, Files
<1>5. Compared(p)'
  <2>. SUFFICES ASSUME NEW k \in Files, Passed(p, CheckStep(k), k)'
                PROVE  remote'[k] = "sealed" \/ proc'[p].initial[k] < source[k].stamp
    BY <1>2 DEF Compared, Files
  <2>1. proc'[p].initial[k] <= source[k].stamp
    BY <1>3, <1>4 DEF SnapshotOK, Files
  <2>2. CASE Passed(p, CheckStep(k), k)
    BY <1>0, <1>3, <2>2 DEF Compared, FilesMoveOn
  <2>3. CASE ~Passed(p, CheckStep(k), k)
    BY <1>1, <2>1, <2>3 DEF FilesMoveOn
  <2>. QED BY <2>2, <2>3
<1>6. Confirmed(p)'
  <2>. SUFFICES ASSUME NEW k \in Files, Passed(p, CheckStep(k) + 1, k)' PROVE remote'[k] = "sealed"
    BY <1>2 DEF Confirmed, Files
  <2>1. CASE Passed(p, CheckStep(k) + 1, k)
    BY <1>0, <2>1 DEF Confirmed, FilesMoveOn
  <2>2. CASE Passed(p, CheckStep(k), k) /\ proc[p].initial[k] = source[k].stamp
    BY <1>0, <1>1, <2>2 DEF Compared, FilesMoveOn
  <2>. QED BY <2>1, <2>2
<1>. QED BY <1>4, <1>5, <1>6 DEF PromoterOK

ProcRecord == [at : 1 .. 20, done : SUBSET Files, initial : [Files -> Nat]]

LEMMA NextRecord ==
  ASSUME NEW r \in ProcRecord, r.at < 20
  PROVE  LET next == [r EXCEPT !.at = @ + 1, !.done = {}]
         IN  /\ next \in ProcRecord
             /\ next.at = r.at + 1 /\ next.done = {} /\ next.initial = r.initial
<1>1. r.at + 1 \in 1 .. 20 /\ {} \in SUBSET Files
  BY DEF ProcRecord
<1>. QED BY <1>1 DEF ProcRecord

LEMMA DoneRecord ==
  ASSUME NEW r \in ProcRecord, NEW k \in Files
  PROVE  LET next == [r EXCEPT !.done = @ \cup {k}]
         IN  /\ next \in ProcRecord
             /\ next.at = r.at /\ next.done = r.done \cup {k} /\ next.initial = r.initial
<1>1. r.done \cup {k} \in SUBSET Files
  BY DEF ProcRecord
<1>. QED BY <1>1 DEF ProcRecord

\* Moving on to the next step passes no file of the steps that matter.
LEMMA AdvanceKeeps ==
  ASSUME PromotionInv, NEW p \in Promoters, Live(p), FilesMoveOn, source' = source,
         proc[p].at \notin {2, 7, 8, 12, 13}, Advance(p), ReadBack(p)'
  PROVE  /\ PromoterOK(p)' /\ proc' \in [Promoters -> ProcRecord]
         /\ \A q \in Promoters : q # p => proc'[q] = proc[q]
<1>0. PromotionTypes /\ proc[p] \in ProcRecord
  BY DEF PromotionInv, PromotionTypes, ProcRecord
<1>1. proc' = [proc EXCEPT ![p] = [proc[p] EXCEPT !.at = @ + 1, !.done = {}]]
  BY <1>0 DEF Advance, PromotionTypes
<1>2. /\ proc'[p].at = proc[p].at + 1 /\ proc'[p].done = {} /\ proc'[p].initial = proc[p].initial
      /\ proc'[p] \in ProcRecord
      /\ \A q \in Promoters : q # p => proc'[q] = proc[q]
  <2>1. p \in DOMAIN proc
    BY <1>0 DEF PromotionTypes
  <2>. QED BY <1>0, <1>1, <2>1, NextRecord DEF Live, PromotionTypes
<1>3. proc' \in [Promoters -> ProcRecord]
  BY <1>0, <1>1, <1>2 DEF PromotionTypes, ProcRecord
<1>4. \A k \in Files, step \in {2, 7, 8, 12, 13} : Passed(p, step, k)' => Passed(p, step, k)
  <2>1. proc[p].at \in Nat
    BY <1>0 DEF ProcRecord
  <2>. QED BY <1>2, <2>1 DEF Passed
<1>5. \A k \in Files : CheckStep(k) \in {7, 12} /\ CheckStep(k) + 1 \in {8, 13}
  BY DEF CheckStep
<1>6. PromoterOK(p)'
  <2>1. \A k \in Files : proc'[p].initial[k] \in Nat
    BY <1>2 DEF ProcRecord
  <2>2. proc'[p].at \in Nat
    BY <1>2 DEF ProcRecord
  <2>3. \A k \in Files : /\ Passed(p, CheckStep(k), k)' => Passed(p, CheckStep(k), k)
                         /\ Passed(p, CheckStep(k) + 1, k)' => Passed(p, CheckStep(k) + 1, k)
    BY <1>4, <1>5
  <2>. QED BY <1>2, <1>4, <2>1, <2>2, <2>3, OwnKeeps
<1>. QED BY <1>2, <1>3, <1>6

\* Visiting a file passes that file of the current step and no other.
LEMMA VisitPasses ==
  ASSUME PromotionTypes, NEW p \in Promoters, Live(p), NEW k \in Todo(p), k \in Files,
         proc'[p].at = Visited(p, k).at, proc'[p].done = Visited(p, k).done
  PROVE  /\ proc'[p].at \in {proc[p].at, proc[p].at + 1}
         /\ proc'[p].done \subseteq Files
         /\ \A m \in Files, step \in Nat : Passed(p, step, m)' =>
              \/ Passed(p, step, m)
              \/ step = proc[p].at /\ (m = k \/ m \notin promote_evidence[proc[p].at].files)
<1>0. proc[p].at \in Nat /\ proc[p].done \subseteq Files /\ proc[p] \in ProcRecord
  BY DEF PromotionTypes, ProcRecord
<1>1. CASE Todo(p) = {k}
  <2>1. proc'[p].at = proc[p].at + 1 /\ proc'[p].done = {}
    BY <1>0, <1>1 DEF Visited, ProcRecord
  <2>2. \A m \in promote_evidence[proc[p].at].files : m = k \/ m \in proc[p].done
    BY <1>1 DEF Todo
  <2>. QED BY <1>0, <2>1, <2>2 DEF Passed
<1>2. CASE Todo(p) # {k}
  <2>1. proc'[p].at = proc[p].at /\ proc'[p].done = proc[p].done \cup {k}
    BY <1>0, <1>2 DEF Visited, ProcRecord
  <2>. QED BY <1>0, <2>1 DEF Passed
<1>. QED BY <1>1, <1>2

LEMMA VisitedRecord ==
  ASSUME PromotionTypes, NEW p \in Promoters, Live(p), NEW k \in Files
  PROVE  Visited(p, k) \in ProcRecord /\ Visited(p, k).initial = proc[p].initial
<1>. proc[p] \in ProcRecord
  BY DEF PromotionTypes, ProcRecord
<1>. QED BY NextRecord, DoneRecord DEF Visited, Live

\* The files of the steps that visit them one by one.
LEMMA VisitedFiles ==
  ASSUME PromotionTypes, NEW p \in Promoters
  PROVE  /\ proc[p].at \in {2, 6, 8, 11, 13, 14} => promote_evidence[proc[p].at].files = Files
         /\ proc[p].at \in {5, 7} => promote_evidence[proc[p].at].files = FilesOf("failed")
         /\ proc[p].at \in {10, 12} => promote_evidence[proc[p].at].files = FilesOf("recovery")
         /\ proc[p].at \in {2, 5, 6, 7, 8, 10, 11, 12, 13, 14} => Todo(p) \subseteq Files
<1>1. /\ proc[p].at \in {2, 6, 8, 11, 13, 14} => promote_evidence[proc[p].at].files = Files
      /\ proc[p].at \in {5, 7} => promote_evidence[proc[p].at].files = FilesOf("failed")
      /\ proc[p].at \in {10, 12} => promote_evidence[proc[p].at].files = FilesOf("recovery")
  BY Steps DEF Step
<1>. QED BY <1>1 DEF Todo, FilesOf, Files

\* A visit behind the first verification.
LEMMA VisitKeeps ==
  ASSUME PromotionInv, NEW p \in Promoters, FilesMoveOn, source' = source,
         proc[p].at \in {5, 6, 7, 8, 10, 11, 12, 13, 14}, NEW k \in Todo(p), Visit(p, k),
         proc[p].at \in {7, 12} => remote[k] = "sealed" \/ proc[p].initial[k] # source[k].stamp,
         proc[p].at \in {8, 13} => proc[p].initial[k] = source[k].stamp
  PROVE  /\ PromoterOK(p)' /\ proc' \in [Promoters -> ProcRecord]
         /\ \A q \in Promoters : q # p => proc'[q] = proc[q]
<1>0. PromotionTypes /\ Live(p) /\ proc[p].at \in Nat
  BY DEF PromotionInv, PromotionTypes, Live
<1>1. k \in Files
  BY <1>0, VisitedFiles
<1>2. proc' = [proc EXCEPT ![p] = Visited(p, k)] /\ Visited(p, k) \in ProcRecord
      /\ Visited(p, k).initial = proc[p].initial
  BY <1>0, <1>1, VisitedRecord DEF Visit
<1>3. /\ proc'[p] = Visited(p, k) /\ proc'[p].initial = proc[p].initial
      /\ \A q \in Promoters : q # p => proc'[q] = proc[q]
      /\ proc' \in [Promoters -> ProcRecord]
  BY <1>0, <1>2 DEF PromotionTypes, ProcRecord
<1>4. /\ proc'[p].at \in {proc[p].at, proc[p].at + 1}
      /\ \A m \in Files, step \in Nat : Passed(p, step, m)' =>
           \/ Passed(p, step, m)
           \/ step = proc[p].at /\ (m = k \/ m \notin promote_evidence[proc[p].at].files)
  BY <1>0, <1>1, <1>3, VisitPasses
<1>5. \A m \in Files : /\ CheckStep(m) \in {7, 12} /\ CheckStep(m) + 1 \in {8, 13}
                       /\ CheckStep(m) = 7 => m \in FilesOf("failed")
                       /\ CheckStep(m) = 12 => m \in FilesOf("recovery")
  BY FilesFacts DEF CheckStep, Runs
<1>6. \A m \in Files : Passed(p, CheckStep(m), m)' =>
        Passed(p, CheckStep(m), m) \/ remote[m] = "sealed" \/ proc[p].initial[m] # source[m].stamp
  <2>. SUFFICES ASSUME NEW m \in Files, Passed(p, CheckStep(m), m)', ~Passed(p, CheckStep(m), m)
                PROVE  remote[m] = "sealed" \/ proc[p].initial[m] # source[m].stamp
    OBVIOUS
  <2>1. CheckStep(m) = proc[p].at /\ (m = k \/ m \notin promote_evidence[proc[p].at].files)
    BY <1>4, <1>5
  <2>2. m = k
    BY <1>0, <1>5, <2>1, VisitedFiles
  <2>. QED BY <1>5, <2>1, <2>2
<1>7. \A m \in Files : Passed(p, CheckStep(m) + 1, m)' =>
        \/ Passed(p, CheckStep(m) + 1, m)
        \/ Passed(p, CheckStep(m), m) /\ proc[p].initial[m] = source[m].stamp
  <2>. SUFFICES ASSUME NEW m \in Files, Passed(p, CheckStep(m) + 1, m)',
                       ~Passed(p, CheckStep(m) + 1, m)
                PROVE  Passed(p, CheckStep(m), m) /\ proc[p].initial[m] = source[m].stamp
    OBVIOUS
  <2>1. CheckStep(m) + 1 = proc[p].at /\ (m = k \/ m \notin promote_evidence[proc[p].at].files)
    BY <1>4, <1>5
  <2>2. m = k
    BY <1>0, <1>5, <2>1, VisitedFiles
  <2>. QED BY <1>5, <2>1, <2>2 DEF Passed
<1>8. \A m \in Files : Passed(p, 2, m)
  BY <1>0 DEF Passed
<1>9. /\ ReadBack(p)' /\ proc'[p].at \in Nat
      /\ \A m \in Files : proc'[p].initial[m] \in Nat
  BY <1>0, <1>3, <1>4 DEF ReadBack, PromotionTypes
<1>10. PromoterOK(p)'
  BY <1>0, <1>3, <1>6, <1>7, <1>8, <1>9, OwnKeeps
<1>. QED BY <1>3, <1>10

\* The first verification: the stamp is remembered of a file found sealed.
LEMMA FirstKeeps ==
  ASSUME PromotionInv, NEW p \in Promoters, verify_evidence(p)
  PROVE  /\ PromoterOK(p)' /\ proc' \in [Promoters -> ProcRecord]
         /\ \A q \in Promoters : q # p => proc'[q] = proc[q]
<1>0. PromotionTypes /\ proc[p].at = 2 /\ Live(p) /\ source' = source
  BY StepOf DEF PromotionInv, verify_evidence, Live
<1>1. PICK k \in Todo(p) :
        /\ source[k].sealed
        /\ proc' = [proc EXCEPT ![p] = [Visited(p, k) EXCEPT !.initial[k] = source[k].stamp]]
  BY DEF verify_evidence, _regular_file_snapshot
<1>2. k \in Files
  BY <1>0, VisitedFiles
<1>3. PICK v : v = Visited(p, k) /\ v \in ProcRecord /\ v.initial = proc[p].initial
  BY <1>0, <1>2, VisitedRecord
<1>4. source[k].stamp \in Nat
  BY <1>0, <1>2 DEF PromotionTypes
<1>5. PICK w : w = [v EXCEPT !.initial[k] = source[k].stamp]
  OBVIOUS
<1>6. /\ w \in ProcRecord /\ w.at = v.at /\ w.done = v.done
      /\ w.initial = [v.initial EXCEPT ![k] = source[k].stamp]
  <2>1. [v.initial EXCEPT ![k] = source[k].stamp] \in [Files -> Nat]
    BY <1>3, <1>4 DEF ProcRecord
  <2>. QED BY <1>3, <1>5, <2>1 DEF ProcRecord
<1>7. /\ proc'[p] = w /\ proc' \in [Promoters -> ProcRecord]
      /\ \A q \in Promoters : q # p => proc'[q] = proc[q]
  BY <1>0, <1>1, <1>3, <1>5, <1>6 DEF PromotionTypes, ProcRecord
<1>8. /\ proc'[p].at \in {2, 3}
      /\ \A m \in Files, step \in Nat : Passed(p, step, m)' =>
           Passed(p, step, m) \/ (step = 2 /\ m = k)
  <2>1. proc'[p].at = Visited(p, k).at /\ proc'[p].done = Visited(p, k).done
    BY <1>3, <1>6, <1>7
  <2>. QED BY <1>0, <1>2, <2>1, VisitPasses, VisitedFiles
<1>9. /\ \A m \in Files : m # k => w.initial[m] = proc[p].initial[m]
      /\ w.initial[k] = source[k].stamp
      /\ \A m \in Files : w.initial[m] \in Nat
  BY <1>0, <1>2, <1>3, <1>6 DEF PromotionTypes, ProcRecord
<1>10. ~Passed(p, 2, k)
  BY <1>0 DEF Passed, Todo
<1>11. FilesMoveOn /\ ReadBack(p)' /\ proc'[p].at \in Nat
  BY <1>0, <1>8 DEF verify_evidence, FilesMoveOn, ReadBack, PromotionTypes
<1>12. \A m \in Files : CheckStep(m) \in Nat \ {2} /\ CheckStep(m) + 1 \in Nat \ {2}
  BY DEF CheckStep
<1>13. \A m \in Files : /\ Passed(p, CheckStep(m), m)' => Passed(p, CheckStep(m), m)
                        /\ Passed(p, CheckStep(m) + 1, m)' => Passed(p, CheckStep(m) + 1, m)
  BY <1>8, <1>12
<1>14. \A m \in Files : /\ Passed(p, 2, m) => proc'[p].initial[m] = proc[p].initial[m]
                        /\ Passed(p, 2, m)' =>
                             Passed(p, 2, m) \/ (proc'[p].initial[m] = source[m].stamp /\ source[m].sealed)
  BY <1>1, <1>7, <1>8, <1>9, <1>10
<1>15. PromoterOK(p)'
  BY <1>0, <1>7, <1>9, <1>11, <1>13, <1>14, OwnKeeps
<1>. QED BY <1>7, <1>15

\* The run whose marker a step is about.
LEMMA RunOfStep ==
  ASSUME PromotionTypes, NEW p \in Promoters, proc[p].at \in {15, 16, 17, 18}
  PROVE  RunOf(p) = IF proc[p].at \in {15, 16} THEN "failed" ELSE "recovery"
<1>1. promote_evidence[proc[p].at].files =
        FilesOf(IF proc[p].at \in {15, 16} THEN "failed" ELSE "recovery")
  BY Steps DEF Step
<1>2. \A run \in Runs : FilesOf(run) # {} /\ \A k \in FilesOf(run) : Order[k] = run
  BY FilesFacts DEF Runs
<1>. QED BY <1>1, <1>2 DEF RunOf, Runs

\* Every file has been compared and found unchanged behind the comparison.
LEMMA MarkedIsSealed ==
  ASSUME PromotionInv, NEW p \in Promoters, proc[p].at \in {15, 17}
  PROVE  \A k \in Files : remote[k] = "sealed"
<1>1. Confirmed(p)
  BY DEF PromotionInv, PromoterOK, Live
<1>2. \A k \in Files : Passed(p, CheckStep(k) + 1, k)
  BY DEF Passed, CheckStep
<1>. QED BY <1>1, <1>2 DEF Confirmed

\* A promoter's step that touches neither markers nor receipt.
LEMMA StepKeeps ==
  ASSUME PromotionInv, NEW p \in Promoters, source' = source, marker' = marker, receipt' = receipt,
         remote' \in [Files -> {"none", "sealed", Torn}], FilesMoveOn, PromoterOK(p)',
         proc' \in [Promoters -> ProcRecord],
         \A q \in Promoters : q # p => proc'[q] = proc[q]
  PROVE  PromotionInv'
<1>1. PromotionTypes'
  BY DEF PromotionInv, PromotionTypes, ProcRecord, Files, Order, Runs
<1>2. PromotionSound'
  BY DEF PromotionInv, PromotionSound, FilesMoveOn, Files
<1>3. \A q \in Promoters : PromoterOK(q)'
  BY OthersKeepPromotion
<1>. QED BY <1>1, <1>2, <1>3 DEF PromotionInv

LEMMA PromotionStep == PromotionInv /\ [PromotionNext]_pvars => PromotionInv'
<1>. SUFFICES ASSUME PromotionInv, [PromotionNext]_pvars PROVE PromotionInv'
  OBVIOUS
<1>0. PromotionTypes /\ PromotionSound
  BY DEF PromotionInv
<1>1. ASSUME source' = source, remote' = remote, marker' = marker PROVE FilesMoveOn
  BY <1>0, <1>1 DEF FilesMoveOn, PromotionTypes
<1>2. ASSUME source' = source, remote' = remote, marker' = marker
      PROVE  remote' \in [Files -> {"none", "sealed", Torn}]
  BY <1>0, <1>2 DEF PromotionTypes
<1>a. CASE UNCHANGED pvars
  <2>1. \A q \in Promoters : PromoterOK(q)'
    BY <1>a, <1>1, OthersKeepPromotion DEF pvars
  <2>. QED BY <1>0, <1>a, <2>1 DEF pvars, PromotionInv, PromotionTypes, PromotionSound, Files, Order, Runs
<1>b. ASSUME NEW p \in Promoters, _verifier_revision(p) \/ _discover_external_config(p) \/ preflight(p)
      PROVE  PromotionInv'
  <2>1. /\ Advance(p) /\ proc[p].at \in {1, 3, 4, 9}
        /\ UNCHANGED <<source, remote, marker, receipt, edits>>
    BY <1>0, <1>b, StepOf DEF _verifier_revision, _discover_external_config, preflight
  <2>2. proc'[p].at = proc[p].at + 1
    <3>1. proc[p] \in ProcRecord /\ proc[p].at < 20
      BY <1>0, <2>1 DEF PromotionTypes, ProcRecord
    <3>. QED BY <1>0, <2>1, <3>1 DEF Advance, PromotionTypes
  <2>3. Live(p) /\ ReadBack(p)'
    BY <2>1, <2>2 DEF Live, ReadBack
  <2>. QED BY <1>1, <1>2, <2>1, <2>3, AdvanceKeeps, StepKeeps
<1>c. ASSUME NEW p \in Promoters, verify_evidence(p) PROVE PromotionInv'
  BY <1>1, <1>2, <1>c, FirstKeeps, StepKeeps DEF verify_evidence
<1>d. ASSUME NEW p \in Promoters, _same_snapshot(p) PROVE PromotionInv'
  <2>1. PICK k \in Todo(p) : source[k].stamp = proc[p].initial[k] /\ Visit(p, k)
    BY <1>d DEF _same_snapshot
  <2>2. /\ proc[p].at \in {6, 8, 11, 13, 14}
        /\ UNCHANGED <<source, remote, marker, receipt, edits>>
    BY <1>0, <1>d, StepOf DEF _same_snapshot
  <2>3. /\ PromoterOK(p)' /\ proc' \in [Promoters -> ProcRecord]
        /\ \A q \in Promoters : q # p => proc'[q] = proc[q]
    BY <1>1, <2>1, <2>2, VisitKeeps
  <2>. QED BY <1>1, <1>2, <2>2, <2>3, StepKeeps
<1>e. ASSUME NEW p \in Promoters, copy(p) PROVE PromotionInv'
  <2>1. PICK k \in Todo(p) :
          /\ remote' \in IF remote[k] # "none" THEN {remote}
                         ELSE {[remote EXCEPT ![k] = Torn],
                               [remote EXCEPT ![k] = IF source[k].sealed THEN "sealed" ELSE Torn]}
          /\ Visit(p, k)
    BY <1>e DEF copy
  <2>2. proc[p].at \in {5, 10} /\ UNCHANGED <<source, marker, receipt, edits>>
    BY <1>0, <1>e, StepOf DEF copy
  <2>3. k \in Files
    BY <1>0, <2>2, VisitedFiles
  <2>4. /\ remote' \in [Files -> {"none", "sealed", Torn}]
        /\ \A m \in Files : remote[m] # "none" => remote'[m] = remote[m]
    <3>1. remote \in [Files -> {"none", "sealed", Torn}]
      BY <1>0 DEF PromotionTypes
    <3>. QED BY <2>1, <2>3, <3>1
  <2>5. FilesMoveOn
    BY <1>0, <2>2, <2>4 DEF FilesMoveOn, PromotionTypes
  <2>6. /\ PromoterOK(p)' /\ proc' \in [Promoters -> ProcRecord]
        /\ \A q \in Promoters : q # p => proc'[q] = proc[q]
    BY <2>1, <2>2, <2>5, VisitKeeps
  <2>. QED BY <2>2, <2>4, <2>5, <2>6, StepKeeps
<1>f. ASSUME NEW p \in Promoters, check(p) PROVE PromotionInv'
  <2>1. PICK k \in Todo(p) :
          /\ remote[k] # "none" /\ (remote[k] = Torn => ~source[k].sealed)
          /\ Visit(p, k)
    BY <1>f DEF check
  <2>2. /\ proc[p].at \in {7, 12}
        /\ UNCHANGED <<source, remote, marker, receipt, edits>>
    BY <1>0, <1>f, StepOf DEF check
  <2>3. k \in Files
    BY <1>0, <2>2, VisitedFiles
  <2>4. remote[k] = "sealed" \/ proc[p].initial[k] # source[k].stamp
    <3>1. remote[k] \in {"sealed", Torn}
      BY <1>0, <2>1, <2>3 DEF PromotionTypes
    <3>2. Live(p) /\ Passed(p, 2, k)
      BY <2>2 DEF Live, Passed
    <3>3. proc[p].initial[k] = source[k].stamp => source[k].sealed
      BY <2>3, <3>2 DEF PromotionInv, PromoterOK, SnapshotOK
    <3>. QED BY <2>1, <3>1, <3>3
  <2>5. /\ PromoterOK(p)' /\ proc' \in [Promoters -> ProcRecord]
        /\ \A q \in Promoters : q # p => proc'[q] = proc[q]
    BY <1>1, <2>1, <2>2, <2>4, VisitKeeps
  <2>. QED BY <1>1, <1>2, <2>2, <2>5, StepKeeps
<1>g. ASSUME NEW p \in Promoters, _marker(p) PROVE PromotionInv'
  <2>1. /\ proc[p].at \in {15, 17} /\ Advance(p) /\ marker[RunOf(p)] = Nobody
        /\ marker' \in {[marker EXCEPT ![RunOf(p)] = p], [marker EXCEPT ![RunOf(p)] = Torn]}
        /\ source' = source /\ remote' = remote /\ receipt' = receipt
    BY <1>0, <1>g, StepOf DEF _marker
  <2>2. RunOf(p) = (IF proc[p].at = 15 THEN "failed" ELSE "recovery") /\ RunOf(p) \in Runs
    BY <1>0, <2>1, RunOfStep DEF Runs
  <2>3. PICK run \in Runs : run = RunOf(p) /\ run = (IF proc[p].at = 15 THEN "failed" ELSE "recovery")
    BY <2>2
  <2>4. /\ marker' \in [Runs -> Promoters \cup {Nobody, Torn}]
        /\ \A r \in Runs : r # run => marker'[r] = marker[r]
    BY <1>0, <2>1, <2>3 DEF PromotionTypes
  <2>5. FilesMoveOn
    BY <1>0, <2>1, <2>3, <2>4 DEF FilesMoveOn, PromotionTypes
  <2>6. \A k \in Files : remote[k] = "sealed"
    BY <2>1, MarkedIsSealed
  <2>7. proc'[p].at = proc[p].at + 1 /\ Live(p)
    <3>1. proc[p] \in ProcRecord /\ proc[p].at < 20
      BY <1>0, <2>1 DEF PromotionTypes, ProcRecord
    <3>. QED BY <1>0, <2>1, <3>1 DEF Advance, PromotionTypes, Live
  <2>8. ReadBack(p)'
    <3>1. ReadBack(p)
      BY <2>7 DEF PromotionInv, PromoterOK
    <3>2. proc[p].at = 17 => run = "recovery"
      BY <2>3
    <3>. QED BY <2>1, <2>4, <2>7, <3>1, <3>2 DEF ReadBack, Runs
  <2>9. /\ PromoterOK(p)' /\ proc' \in [Promoters -> ProcRecord]
        /\ \A q \in Promoters : q # p => proc'[q] = proc[q]
    BY <2>1, <2>5, <2>7, <2>8, AdvanceKeeps
  <2>10. \A q \in Promoters : PromoterOK(q)'
    BY <2>5, <2>9, OthersKeepPromotion
  <2>11. PromotionTypes'
    BY <1>0, <2>1, <2>4, <2>9 DEF PromotionTypes, ProcRecord, Files, Order, Runs
  <2>12. PromotionSound'
    <3>1. receipt \notin Promoters
      BY <1>0, <2>1, <2>3, PromotionConstants DEF PromotionSound, Nobody
    <3>. QED BY <2>1, <2>6, <3>1 DEF PromotionSound, Files
  <2>. QED BY <2>10, <2>11, <2>12 DEF PromotionInv
<1>h. ASSUME NEW p \in Promoters, readback(p) PROVE PromotionInv'
  <2>1. /\ proc[p].at \in {16, 18} /\ Advance(p) /\ marker[RunOf(p)] = p
        /\ UNCHANGED <<source, remote, marker, receipt, edits>>
    BY <1>0, <1>h, StepOf DEF readback
  <2>2. RunOf(p) = IF proc[p].at = 16 THEN "failed" ELSE "recovery"
    BY <1>0, <2>1, RunOfStep
  <2>3. proc'[p].at = proc[p].at + 1 /\ Live(p)
    <3>1. proc[p] \in ProcRecord /\ proc[p].at < 20
      BY <1>0, <2>1 DEF PromotionTypes, ProcRecord
    <3>. QED BY <1>0, <2>1, <3>1 DEF Advance, PromotionTypes, Live
  <2>4. ReadBack(p)'
    <3>1. ReadBack(p)
      BY <2>3 DEF PromotionInv, PromoterOK
    <3>. QED BY <2>1, <2>2, <2>3, <3>1 DEF ReadBack
  <2>. QED BY <1>1, <1>2, <2>1, <2>3, <2>4, AdvanceKeeps, StepKeeps
<1>i. ASSUME NEW p \in Promoters, write_receipt(p) PROVE PromotionInv'
  <2>1. /\ proc[p].at = 19 /\ Advance(p) /\ receipt' \in {p, Torn}
        /\ source' = source /\ remote' = remote /\ marker' = marker
    BY <1>i, Steps DEF write_receipt, validate_receipt
  <2>2. proc[p] \in ProcRecord /\ proc[p].at < 20
    BY <1>0, <2>1 DEF PromotionTypes, ProcRecord
  <2>3. /\ proc'[p].at = 20 /\ proc'[p] \in ProcRecord
        /\ \A q \in Promoters : q # p => proc'[q] = proc[q]
        /\ proc' = [proc EXCEPT ![p] = proc'[p]]
    <3>1. proc' = [proc EXCEPT ![p] = [proc[p] EXCEPT !.at = @ + 1, !.done = {}]]
      BY <1>0, <2>1 DEF Advance, PromotionTypes
    <3>2. p \in DOMAIN proc
      BY <1>0 DEF PromotionTypes
    <3>3. proc'[p] = [proc[p] EXCEPT !.at = @ + 1, !.done = {}]
      BY <3>1, <3>2
    <3>4. proc'[p].at = 20 /\ proc'[p] \in ProcRecord
      <4>1. PICK r \in ProcRecord : r = proc[p]
        BY <2>2
      <4>2. [r EXCEPT !.at = @ + 1, !.done = {}].at = r.at + 1
        BY <4>1 DEF ProcRecord
      <4>3. [r EXCEPT !.at = @ + 1, !.done = {}] \in ProcRecord
        BY <2>2, <4>1, NextRecord
      <4>4. proc'[p] = [r EXCEPT !.at = @ + 1, !.done = {}]
        BY <3>3, <4>1
      <4>5. r.at = 19
        BY <2>1, <4>1
      <4>. QED BY <4>2, <4>3, <4>4, <4>5
    <3>. QED BY <1>0, <3>1, <3>2, <3>3, <3>4 DEF PromotionTypes
  <2>4. proc' \in [Promoters -> ProcRecord]
    BY <1>0, <2>3 DEF PromotionTypes, ProcRecord
  <2>5. \A q \in Promoters : PromoterOK(q)'
    BY <1>1, <2>1, <2>3, OthersKeepPromotion DEF PromoterOK, Live
  <2>6. PromotionTypes'
    BY <1>0, <2>1, <2>4 DEF PromotionTypes, ProcRecord, Files, Order, Runs
  <2>7. PromotionSound'
    <3>1. \A r \in Runs : marker[r] = p
      BY <2>1 DEF PromotionInv, PromoterOK, Live, ReadBack, Runs
    <3>2. receipt' \in Promoters => receipt' = p
      BY <2>1, PromotionConstants DEF Torn
    <3>. QED BY <1>0, <2>1, <3>1, <3>2 DEF PromotionSound
  <2>. QED BY <2>5, <2>6, <2>7 DEF PromotionInv
<1>j. ASSUME NEW p \in Promoters, Fail(p) PROVE PromotionInv'
  <2>1. /\ proc' = [proc EXCEPT ![p] = [at |-> Ended, done |-> {}, initial |-> NoSnapshot]]
        /\ UNCHANGED <<source, remote, marker, receipt, edits>>
    BY <1>j DEF Fail
  <2>2. Ended = 20 /\ NoSnapshot \in [Files -> Nat]
    BY Steps DEF Ended, NoSnapshot, Files
  <2>3. /\ proc'[p].at = 20 /\ proc' \in [Promoters -> ProcRecord]
        /\ \A q \in Promoters : q # p => proc'[q] = proc[q]
    BY <1>0, <2>1, <2>2 DEF PromotionTypes, ProcRecord
  <2>4. PromoterOK(p)'
    BY <2>3 DEF PromoterOK, Live
  <2>. QED BY <1>1, <1>2, <2>1, <2>3, <2>4, StepKeeps
<1>k. ASSUME NEW k \in Files, EditSource(k) PROVE PromotionInv'
  <2>1. /\ source' = [source EXCEPT ![k] = [sealed |-> ~@.sealed, stamp |-> @.stamp + 1]]
        /\ UNCHANGED <<remote, marker, receipt, proc>>
    BY <1>k DEF EditSource
  <2>2. source[k].sealed \in BOOLEAN /\ source[k].stamp \in Nat
    BY <1>0 DEF PromotionTypes
  <2>3. /\ source'[k].stamp = source[k].stamp + 1
        /\ \A m \in Files : m # k => source'[m] = source[m]
        /\ source' \in [Files -> [sealed : BOOLEAN, stamp : Nat]]
    BY <1>0, <2>1, <2>2 DEF PromotionTypes
  <2>4. FilesMoveOn
    <3>1. \A m \in Files : source[m].stamp \in Nat
      BY <1>0 DEF PromotionTypes
    <3>. QED BY <2>1, <2>2, <2>3, <3>1 DEF FilesMoveOn
  <2>5. \A q \in Promoters : PromoterOK(q)'
    BY <2>1, <2>4, OthersKeepPromotion
  <2>6. PromotionTypes' /\ PromotionSound'
    BY <1>0, <2>1, <2>3 DEF PromotionTypes, PromotionSound, Files, Order, Runs
  <2>. QED BY <2>5, <2>6 DEF PromotionInv
<1>. QED
  BY <1>a, <1>b, <1>c, <1>d, <1>e, <1>f, <1>g, <1>h, <1>i, <1>j, <1>k DEF PromotionNext, Files

\* No edit, torn transfer, crash or overlapping promoter leads promote_evidence
\* to a false claim, for any promoters, files and edits
\* (t0044_evidence_promotion.py).
THEOREM PromotionsSound == PromotionSpec => []PromotionSound
<1>1. PromotionInv => PromotionSound
  BY DEF PromotionInv
<1>. QED BY PromotionInitial, PromotionStep, <1>1, PTL DEF PromotionSpec

----------------------------------------------------------------------------
(***************************************************************************)
(* The campaigns, for any matrix of variants.  What is recorded of a run   *)
(* is good up to the command it is at, and stays good: a complete log has  *)
(* no more lines to come, and a command writes only the log of the variant *)
(* that is next.  A failure is always the last thing recorded.             *)
(***************************************************************************)
Stages == {"new", "run", "wait", "wait-failed", "derive", "seal", "failing", "ended"}

\* Command k of a run is recorded as one that succeeded, with its whole log.
Recorded(r, k) ==
  commands[r][k] = [exit |-> 0, lines |-> Full] /\ log[r][k].file = Full

CampaignTypes ==
  /\ collector \in [RunDirs -> [stage : Stages, variant : Index]]
  /\ log \in [RunDirs -> [Index -> [file : 0 .. Full, sent : 0 .. Full]]]
  /\ commands \in [RunDirs -> Seq([exit : {0, 124}, lines : 0 .. Full])]
  /\ DOMAIN derived = RunDirs /\ DOMAIN seal = RunDirs /\ DOMAIN failed = RunDirs

\* What the directory holds of the commands, at every stage of the collector.
CommandsSound(r) ==
  LET stage == collector[r].stage
      made == Len(commands[r])
  IN /\ made <= Last
     /\ \A k \in 1 .. made - 1 : Recorded(r, k)
     /\ stage = "new" => made = 0 /\ collector[r].variant = 1
     /\ stage \in {"run", "wait", "wait-failed"} => made = collector[r].variant - 1
     /\ stage \in {"derive", "seal"} => made = Last
     /\ stage \in {"run", "wait", "wait-failed", "derive", "seal"} =>
          \A k \in 1 .. made : Recorded(r, k)

\* Nothing is derived before the collector is done, and a report is of
\* complete logs.
ReportSound(r) ==
  /\ collector[r].stage \in {"new", "run", "wait", "wait-failed", "derive"} => derived[r] = None
  /\ derived[r].kind = "report" => derived[r].bytes = Complete /\ Bytes(r) = Complete

\* Nothing is sealed before the collector has ended, and a sealed report is of
\* the bytes of its seal.
SealSound(r) ==
  seal[r] # None =>
    /\ collector[r].stage = "ended"
    /\ seal[r].report.kind = "report" =>
         /\ Bytes(r) = Complete
         /\ seal[r].bytes = Complete /\ seal[r].report.bytes = Complete

CampaignInv ==
  CampaignTypes /\ \A r \in RunDirs : CommandsSound(r) /\ ReportSound(r) /\ SealSound(r)

\* A report and a seal are told apart from their absence.
LEMMA CampaignInitial == CampaignInit => CampaignInv
<1>. SUFFICES ASSUME CampaignInit PROVE CampaignInv
  OBVIOUS
<1>1. 1 \in Index /\ Last \in Nat
  BY CampaignConstants DEF Index, Last
<1>2. CampaignTypes
  BY <1>1 DEF CampaignInit, CampaignTypes, Stages, Full
<1>3. ASSUME NEW r \in RunDirs PROVE CommandsSound(r) /\ ReportSound(r) /\ SealSound(r)
  <2>1. collector[r] = [stage |-> "new", variant |-> 1] /\ commands[r] = <<>>
        /\ derived[r] = None /\ seal[r] = None
    BY DEF CampaignInit
  <2>. QED BY <1>1, <2>1 DEF CommandsSound, ReportSound, SealSound, None
<1>. QED BY <1>2, <1>3 DEF CampaignInv

\* Whatever a step leaves alone of a run stays sound.
LEMMA OthersSound ==
  ASSUME NEW r, CommandsSound(r), ReportSound(r), SealSound(r),
         collector'[r] = collector[r], log'[r] = log[r], commands'[r] = commands[r],
         derived'[r] = derived[r], seal'[r] = seal[r]
  PROVE  CommandsSound(r)' /\ ReportSound(r)' /\ SealSound(r)'
BY DEF CommandsSound, ReportSound, SealSound, Recorded, Bytes, Complete, Index, Last

\* How a step that moves the collector of one run changes the table.
LEMMA StageMoves ==
  ASSUME CampaignTypes, NEW r \in RunDirs, NEW stage \in Stages, Stage(r, stage)
  PROVE  /\ collector' \in [RunDirs -> [stage : Stages, variant : Index]]
         /\ collector'[r] = [stage |-> stage, variant |-> collector[r].variant]
         /\ \A q \in RunDirs : q # r => collector'[q] = collector[q]
BY DEF CampaignTypes, Stage

\* A record appended to the commands of one run.
LEMMA CommandAppended ==
  ASSUME CampaignTypes, NEW r \in RunDirs, NEW command \in [exit : {0, 124}, lines : 0 .. Full],
         commands' = [commands EXCEPT ![r] = Append(@, command)]
  PROVE  /\ commands' \in [RunDirs -> Seq([exit : {0, 124}, lines : 0 .. Full])]
         /\ Len(commands'[r]) = Len(commands[r]) + 1
         /\ \A k \in 1 .. Len(commands[r]) : commands'[r][k] = commands[r][k]
         /\ commands'[r][Len(commands[r]) + 1] = command
         /\ \A q \in RunDirs : q # r => commands'[q] = commands[q]
<1>1. commands[r] \in Seq([exit : {0, 124}, lines : 0 .. Full])
  BY DEF CampaignTypes
<1>2. commands'[r] = Append(commands[r], command)
  BY DEF CampaignTypes
<1>3. \A q \in RunDirs : q # r => commands'[q] = commands[q]
  BY DEF CampaignTypes
<1>4. Append(commands[r], command) \in Seq([exit : {0, 124}, lines : 0 .. Full])
  BY <1>1
<1>5. commands' \in [RunDirs -> Seq([exit : {0, 124}, lines : 0 .. Full])]
  BY <1>4 DEF CampaignTypes
<1>6. /\ Len(commands'[r]) = Len(commands[r]) + 1
      /\ \A k \in 1 .. Len(commands[r]) : commands'[r][k] = commands[r][k]
      /\ commands'[r][Len(commands[r]) + 1] = command
  BY <1>1, <1>2
<1>. QED BY <1>3, <1>5, <1>6

\* The same as StageMoves, as a change of the whole record.
LEMMA StageRecord ==
  ASSUME CampaignTypes, NEW r \in RunDirs, NEW stage, Stage(r, stage)
  PROVE  collector' = [collector EXCEPT ![r] = [stage |-> stage, variant |-> collector[r].variant]]
<1>1. collector[r] \in [stage : Stages, variant : Index]
  BY DEF CampaignTypes
<1>2. [collector[r] EXCEPT !.stage = stage] = [stage |-> stage, variant |-> collector[r].variant]
  BY <1>1
<1>. QED BY <1>2 DEF Stage

\* A step of one run leaves the directory of the other alone.
LEMMA OneRun ==
  ASSUME CampaignInv, NEW r \in RunDirs, CampaignTypes',
         CommandsSound(r)', ReportSound(r)', SealSound(r)',
         \A q \in RunDirs : q # r =>
            /\ collector'[q] = collector[q] /\ log'[q] = log[q] /\ commands'[q] = commands[q]
            /\ derived'[q] = derived[q] /\ seal'[q] = seal[q]
  PROVE  CampaignInv'
<1>1. ASSUME NEW q \in RunDirs, q # r PROVE CommandsSound(q)' /\ ReportSound(q)' /\ SealSound(q)'
  BY <1>1, OthersSound DEF CampaignInv
<1>. QED BY <1>1 DEF CampaignInv

\* The collector makes the directory, or ends a command with a failure that it
\* does not record.
LEMMA StageInv ==
  ASSUME CampaignInv, NEW r \in RunDirs, NEW stage \in {"run", "failing", "ended"},
         Stage(r, stage), stage = "run" => collector[r].stage = "new",
         stage # "run" => collector[r].stage \notin {"new", "ended"},
         UNCHANGED <<log, commands, derived, seal>>, DOMAIN failed' = RunDirs
  PROVE  CampaignInv'
<1>1. /\ collector' \in [RunDirs -> [stage : Stages, variant : Index]]
      /\ collector'[r] = [stage |-> stage, variant |-> collector[r].variant]
      /\ \A q \in RunDirs : q # r => collector'[q] = collector[q]
  BY StageMoves DEF CampaignInv, Stages
<1>2. CommandsSound(r) /\ ReportSound(r) /\ SealSound(r)
  BY DEF CampaignInv
<1>3. CampaignTypes'
  BY <1>1 DEF CampaignInv, CampaignTypes
<1>4. CommandsSound(r)'
  BY <1>1, <1>2 DEF CommandsSound, Recorded, Last
<1>5. ReportSound(r)'
  BY <1>1, <1>2 DEF ReportSound, Bytes, Complete, Index
<1>6. seal[r] = None
  BY <1>2 DEF SealSound
<1>7. SealSound(r)'
  BY <1>6 DEF SealSound, None
<1>. QED BY <1>1, <1>3, <1>4, <1>5, <1>7, OneRun

\* A command is recorded, and the collector goes on, derives or fails.
LEMMA RecordInv ==
  ASSUME CampaignInv, NEW r \in RunDirs, NEW command \in [exit : {0, 124}, lines : 0 .. Full],
         NEW next \in [stage : Stages, variant : Index],
         collector[r].stage \in {"run", "wait", "wait-failed"},
         commands' = [commands EXCEPT ![r] = Append(@, command)],
         collector' = [collector EXCEPT ![r] = next],
         log' \in [RunDirs -> [Index -> [file : 0 .. Full, sent : 0 .. Full]]],
         \A q \in RunDirs : q # r => log'[q] = log[q],
         \A k \in Index : k # collector[r].variant => log'[r][k] = log[r][k],
         \/ next.stage = "failing"
         \/ /\ command = [exit |-> 0, lines |-> Full]
            /\ log'[r][collector[r].variant].file = Full
            /\ \/ next.stage = "derive" /\ collector[r].variant = Last
               \/ next.stage = "run" /\ next.variant = collector[r].variant + 1,
         UNCHANGED <<derived, seal, failed>>
  PROVE  CampaignInv'
<1>1. PICK n \in {Len(commands[r])} : TRUE
  OBVIOUS
<1>2. CommandsSound(r) /\ ReportSound(r) /\ SealSound(r) /\ CampaignTypes
  BY DEF CampaignInv
<1>3. n = collector[r].variant - 1 /\ collector[r].variant \in 1 .. Last /\ Last \in Nat
      /\ Index = 1 .. Last
  BY <1>1, <1>2, CampaignConstants, SMTT(40), ZenonT(40) DEF CommandsSound, CampaignTypes, Index, Last
<1>4. \A k \in 1 .. n : Recorded(r, k)
  BY <1>1, <1>2 DEF CommandsSound
<1>5. /\ commands' \in [RunDirs -> Seq([exit : {0, 124}, lines : 0 .. Full])]
      /\ Len(commands'[r]) = n + 1
      /\ \A k \in 1 .. n : commands'[r][k] = commands[r][k]
      /\ commands'[r][n + 1] = command
      /\ \A q \in RunDirs : q # r => commands'[q] = commands[q]
  <2>1. /\ commands' \in [RunDirs -> Seq([exit : {0, 124}, lines : 0 .. Full])]
        /\ Len(commands'[r]) = Len(commands[r]) + 1
        /\ \A k \in 1 .. Len(commands[r]) : commands'[r][k] = commands[r][k]
        /\ commands'[r][Len(commands[r]) + 1] = command
        /\ \A q \in RunDirs : q # r => commands'[q] = commands[q]
    BY <1>2, CommandAppended
  <2>. QED BY <1>1, <2>1
<1>6. \A k \in 1 .. n :
        commands'[r][k] = [exit |-> 0, lines |-> Full] /\ log'[r][k].file = Full
  <2>1. TAKE k \in 1 .. n
  <2>2. k \in Index /\ k # collector[r].variant
    <3>1. PICK v \in 1 .. Last : v = collector[r].variant
      BY <1>3, Zenon
    <3>2. Last \in Nat /\ n = v - 1
      BY <1>3, <3>1, Zenon
    <3>3. k \in 1 .. Last /\ k # v
      BY <3>1, <3>2
    <3>. QED BY <1>3, <3>1, <3>3, Zenon
  <2>3. log'[r][k] = log[r][k] /\ commands'[r][k] = commands[r][k] /\ Recorded(r, k)
    BY <1>4, <1>5, <2>2
  <2>. QED BY <2>3 DEF Recorded
<1>7. collector'[r] = next /\ \A q \in RunDirs : q # r => collector'[q] = collector[q]
  BY <1>2 DEF CampaignTypes
<1>8. CampaignTypes'
  <2>1. collector' \in [RunDirs -> [stage : Stages, variant : Index]]
    BY <1>2 DEF CampaignTypes
  <2>. QED BY <1>2, <1>5, <2>1 DEF CampaignTypes
<1>9. CommandsSound(r)'
  <2>1. n + 1 <= Last
    BY <1>3
  <2>2. next.stage # "failing" =>
          commands'[r][n + 1] = [exit |-> 0, lines |-> Full] /\ log'[r][n + 1].file = Full
    <3>1. collector[r].variant = n + 1
      BY <1>3
    <3>2. next.stage # "failing" =>
            command = [exit |-> 0, lines |-> Full] /\ log'[r][collector[r].variant].file = Full
      OBVIOUS
    <3>. QED BY <1>5, <3>1, <3>2
  <2>3. /\ Len(commands'[r]) = n + 1 /\ collector'[r].stage = next.stage
        /\ collector'[r].variant = next.variant
    BY <1>5, <1>7
  <2>4. next.stage \in {"failing", "derive", "run"}
        /\ (next.stage = "derive" => n + 1 = Last)
        /\ (next.stage = "run" => n + 1 = next.variant - 1)
    BY <1>3, SMTT(40), ZenonT(40)
  <2>. QED BY <1>3, <1>6, <2>1, <2>2, <2>3, <2>4, SMTT(30) DEF CommandsSound, Recorded, Full, Last
<1>10. derived[r] = None /\ seal[r] = None
  BY <1>2 DEF ReportSound, SealSound
<1>11. ReportSound(r)' /\ SealSound(r)'
  BY <1>10 DEF ReportSound, SealSound, None
<1>. QED BY <1>5, <1>7, <1>8, <1>9, <1>11, OneRun

LEMMA CollectInv == ASSUME CampaignInv, collect \/ collect_campaign PROVE CampaignInv'
BY StageInv DEF collect, collect_campaign, RunDirs, CampaignInv, CampaignTypes

LEMMA RunCommandInv == ASSUME CampaignInv, NEW r \in RunDirs, run_command(r) PROVE CampaignInv'
<1>0. PICK exit \in {0, 124}, sent \in 0 .. Full, file \in 0 .. Full :
        Returned(r, exit, sent, file)
  BY DEF run_command
<1>1. /\ log' = [log EXCEPT ![r][collector[r].variant] = [file |-> file, sent |-> sent]]
      /\ experiment = "campaign" /\ exit # 0 =>
           /\ commands' = [commands EXCEPT ![r] = Append(@, [exit |-> exit, lines |-> file])]
           /\ Stage(r, "failing")
      /\ ~(experiment = "campaign" /\ exit # 0) =>
           Stage(r, IF exit = 0 THEN "wait" ELSE "wait-failed") /\ UNCHANGED commands
  BY <1>0 DEF Returned
<1>2. collector[r].stage = "run" /\ UNCHANGED <<derived, seal, failed>>
  BY DEF run_command
<1>3. CommandsSound(r) /\ ReportSound(r) /\ SealSound(r) /\ CampaignTypes
  BY DEF CampaignInv
<1>4. PICK v \in Index : v = collector[r].variant
  BY <1>3 DEF CampaignTypes
<1>5. /\ log' \in [RunDirs -> [Index -> [file : 0 .. Full, sent : 0 .. Full]]]
      /\ \A q \in RunDirs : q # r => log'[q] = log[q]
      /\ \A k \in Index : k # v => log'[r][k] = log[r][k]
  BY <1>1, <1>3, <1>4 DEF CampaignTypes
<1>6. CASE experiment = "campaign" /\ exit # 0
  <2>1. [exit |-> exit, lines |-> file] \in [exit : {0, 124}, lines : 0 .. Full]
    OBVIOUS
  <2>2. PICK next \in {[stage |-> "failing", variant |-> v]} : TRUE
    OBVIOUS
  <2>3. collector' = [collector EXCEPT ![r] = next]
    BY <1>1, <1>3, <1>4, <1>6, <2>2, StageRecord
  <2>4. next \in [stage : Stages, variant : Index] /\ next.stage = "failing"
    BY <2>2 DEF Stages
  <2>5. commands' = [commands EXCEPT ![r] = Append(@, [exit |-> exit, lines |-> file])]
    BY <1>1, <1>6
  <2>6. PICK command \in {[exit |-> exit, lines |-> file]} : TRUE
    OBVIOUS
  <2>7. command \in [exit : {0, 124}, lines : 0 .. Full]
        /\ commands' = [commands EXCEPT ![r] = Append(@, command)]
    BY <2>1, <2>5, <2>6
  <2>8. /\ collector[r].stage \in {"run", "wait", "wait-failed"}
        /\ \A k \in Index : k # collector[r].variant => log'[r][k] = log[r][k]
    BY <1>2, <1>4, <1>5
  <2>. QED BY <1>2, <1>5, <2>3, <2>4, <2>7, <2>8, RecordInv, SMTT(40), ZenonT(40)
<1>7. CASE ~(experiment = "campaign" /\ exit # 0)
  <2>1. PICK stage \in {"wait", "wait-failed"} : Stage(r, stage) /\ UNCHANGED commands
    <3>1. CASE exit = 0
      BY <1>1, <1>7, <3>1
    <3>2. CASE exit # 0
      BY <1>1, <1>7, <3>2
    <3>. QED BY <3>1, <3>2
  <2>2. /\ collector' \in [RunDirs -> [stage : Stages, variant : Index]]
        /\ collector'[r] = [stage |-> stage, variant |-> v]
        /\ \A q \in RunDirs : q # r => collector'[q] = collector[q]
    <3>1. stage \in Stages
      BY DEF Stages
    <3>. QED BY <1>3, <1>4, <2>1, <3>1, StageMoves
  <2>3. CampaignTypes'
    BY <1>2, <1>3, <1>5, <2>1, <2>2 DEF CampaignTypes
  <2>4. v \in 1 .. Last /\ Last \in Nat /\ Index = 1 .. Last
    BY CampaignConstants DEF Index, Last
  <2>5. Len(commands[r]) = v - 1 /\ \A k \in 1 .. v - 1 : Recorded(r, k)
    BY <1>2, <1>3, <1>4 DEF CommandsSound
  <2>6. \A k \in 1 .. v - 1 : Recorded(r, k)'
    BY <1>5, <2>1, <2>4, <2>5 DEF Recorded, Full
  <2>7. CommandsSound(r)'
    BY <2>1, <2>2, <2>4, <2>5, <2>6 DEF CommandsSound, Last
  <2>8. derived[r] = None /\ seal[r] = None
    BY <1>2, <1>3 DEF ReportSound, SealSound
  <2>9. ReportSound(r)' /\ SealSound(r)'
    BY <1>2, <2>8 DEF ReportSound, SealSound, None
  <2>. QED BY <1>2, <1>5, <2>1, <2>2, <2>3, <2>7, <2>9, OneRun
<1>. QED BY <1>6, <1>7

\* The size of every output file is a number of lines, on disk and sent by the command.
LEMMA FilesType ==
  ASSUME CampaignTypes
  PROVE  /\ log \in [RunDirs -> [Index -> [file : 0 .. Full, sent : 0 .. Full]]]
         /\ \A r \in RunDirs : \A v \in Index : log[r][v].file \in 0 .. Full
<1>1. log \in [RunDirs -> [Index -> [file : 0 .. Full, sent : 0 .. Full]]]
  BY Zenon DEF CampaignTypes
<1>. QED BY <1>1

LEMMA CommandDrainedInv == ASSUME CampaignInv, NEW r \in RunDirs, command_drained(r) PROVE CampaignInv'
<1>1. collector[r].stage \in {"wait", "wait-failed"} /\ UNCHANGED <<log, derived, seal, failed>>
  BY DEF command_drained
<1>2. CampaignTypes
  BY DEF CampaignInv
<1>3. PICK v \in Index : v = collector[r].variant
  BY <1>2 DEF CampaignTypes
<1>4. log[r][v].file = Full
  BY <1>3 DEF command_drained, Drained
<1>5. Last \in Nat \ {0} /\ Index = 1 .. Last
  BY CampaignConstants DEF Index, Last
<1>6. PICK exit \in {0, 124} : exit = IF collector[r].stage = "wait" THEN 0 ELSE 124
  OBVIOUS
<1>7. commands' = [commands EXCEPT ![r] = Append(@, [exit |-> exit, lines |-> Full])]
  BY <1>3, <1>4, <1>6 DEF command_drained
<1>8. PICK next \in {IF collector[r].stage = "wait-failed" THEN [stage |-> "failing", variant |-> v]
                     ELSE IF v = Last THEN [stage |-> "derive", variant |-> v]
                     ELSE [stage |-> "run", variant |-> v + 1]} : TRUE
  OBVIOUS
<1>9. collector' = [collector EXCEPT ![r] = next]
  <2>. QED BY <1>3, <1>8 DEF command_drained
<1>10. next \in [stage : Stages, variant : Index]
  BY <1>5, <1>8 DEF Stages
<1>11. [exit |-> exit, lines |-> Full] \in [exit : {0, 124}, lines : 0 .. Full]
  BY DEF Full
<1>12. \/ next.stage = "failing"
       \/ /\ exit = 0
          /\ \/ next.stage = "derive" /\ v = Last
             \/ next.stage = "run" /\ next.variant = v + 1
  BY <1>1, <1>6, <1>8
<1>13. log' \in [RunDirs -> [Index -> [file : 0 .. Full, sent : 0 .. Full]]]
       /\ log'[r][v].file = Full
  <2>1. log' = log
    BY <1>1
  <2>. QED BY <1>2, <1>4, <2>1, FilesType, Zenon
<1>14. PICK command \in {[exit |-> exit, lines |-> Full]} : TRUE
  OBVIOUS
<1>15. /\ command \in [exit : {0, 124}, lines : 0 .. Full]
       /\ commands' = [commands EXCEPT ![r] = Append(@, command)]
       /\ exit = 0 => command = [exit |-> 0, lines |-> Full]
  BY <1>7, <1>11, <1>14
<1>16. log' = log /\ collector[r].stage \in {"run", "wait", "wait-failed"}
       /\ UNCHANGED <<derived, seal, failed>>
  BY <1>1
<1>17. \/ next.stage = "failing"
       \/ /\ command = [exit |-> 0, lines |-> Full] /\ log'[r][collector[r].variant].file = Full
          /\ \/ next.stage = "derive" /\ collector[r].variant = Last
             \/ next.stage = "run" /\ next.variant = collector[r].variant + 1
  BY <1>3, <1>12, <1>13, <1>15, Zenon
<1>18. /\ \A q \in RunDirs : q # r => log'[q] = log[q]
       /\ \A k \in Index : k # collector[r].variant => log'[r][k] = log[r][k]
  BY <1>16, Zenon
<1>. QED BY <1>9, <1>10, <1>13, <1>15, <1>16, <1>17, <1>18, RecordInv, SMTT(40), ZenonT(40)

LEMMA DrainTimeoutInv == ASSUME CampaignInv, NEW r \in RunDirs, drain_timeout(r) PROVE CampaignInv'
<1>1. collector[r].stage \in {"wait", "wait-failed"} /\ Stage(r, "failing")
      /\ UNCHANGED <<log, derived, seal, failed>>
  BY DEF drain_timeout
<1>2. CampaignTypes
  BY DEF CampaignInv
<1>3. CASE experiment = "commissioning"
  <2>1. UNCHANGED commands
    BY <1>3 DEF drain_timeout
  <2>. QED BY <1>1, <1>2, <2>1, StageInv DEF CampaignTypes
<1>4. CASE experiment # "commissioning"
  <2>1. PICK v \in Index : v = collector[r].variant
    BY <1>2 DEF CampaignTypes
  <2>2. [exit |-> 0, lines |-> log[r][v].file] \in [exit : {0, 124}, lines : 0 .. Full]
    BY <1>2 DEF CampaignTypes
  <2>3. commands' = [commands EXCEPT ![r] = Append(@, [exit |-> 0, lines |-> log[r][v].file])]
    BY <1>4, <2>1 DEF drain_timeout
  <2>4. PICK next \in {[stage |-> "failing", variant |-> v]} : TRUE
    OBVIOUS
  <2>5. collector' = [collector EXCEPT ![r] = next]
    BY <1>1, <1>2, <2>1, <2>4, StageRecord
  <2>6. next \in [stage : Stages, variant : Index] /\ next.stage = "failing"
    BY <2>4 DEF Stages
  <2>7. log' \in [RunDirs -> [Index -> [file : 0 .. Full, sent : 0 .. Full]]]
    <3>1. log' = log
      BY <1>1
    <3>. QED BY <1>2, <3>1, FilesType, Zenon
  <2>. QED BY <1>1, <2>2, <2>3, <2>5, <2>6, <2>7, RecordInv, SMTT(40), ZenonT(40)
<1>. QED BY <1>3, <1>4

\* The commands stay sound when the collector has no more to run.
LEMMA CommandsKept ==
  ASSUME NEW r, CommandsSound(r), log'[r] = log[r], commands'[r] = commands[r],
         \/ collector'[r].stage \in {"failing", "ended"}
         \/ collector[r].stage = "derive" /\ collector'[r].stage = "seal"
  PROVE  CommandsSound(r)'
<1>1. \A k : Recorded(r, k) =>
        commands'[r][k] = [exit |-> 0, lines |-> Full] /\ log'[r][k].file = Full
  BY DEF Recorded
<1>2. CASE collector'[r].stage \in {"failing", "ended"}
  BY <1>1, <1>2 DEF CommandsSound, Recorded, Full, Last
<1>3. CASE collector[r].stage = "derive" /\ collector'[r].stage = "seal"
  BY <1>1, <1>3 DEF CommandsSound, Recorded, Full, Last
<1>. QED BY <1>2, <1>3

\* What derive leaves: a report only of complete logs.
LEMMA DeriveSound ==
  ASSUME NEW r, ReportSound(r), derive(r).kind = "report"
  PROVE  derive(r).bytes = Complete /\ Bytes(r) = Complete
<1>1. CASE load_manifest /\ derived[r] = None /\ parse_sessions(r)
  <2>1. derive(r) = [kind |-> "report", bytes |-> Bytes(r)]
    BY <1>1 DEF derive, Report
  <2>. QED BY <1>1, <2>1 DEF parse_sessions
<1>2. CASE ~(load_manifest /\ derived[r] = None /\ parse_sessions(r))
  <2>1. derive(r) \in {[kind |-> "directory"], derived[r]}
    BY <1>2 DEF derive
  <2>2. derive(r) = derived[r]
    <3>1. [kind |-> "directory"].kind # "report"
      OBVIOUS
    <3>. QED BY <2>1, <3>1
  <2>. QED BY <2>2 DEF ReportSound
<1>. QED BY <1>1, <1>2

\* The directory is derived when the collector reaches it, or by hand later.
LEMMA DerivedInv ==
  ASSUME CampaignInv, NEW r \in RunDirs, derived' = [derived EXCEPT ![r] = derive(r)],
         \/ collector[r].stage = "ended" /\ UNCHANGED collector
         \/ \E stage \in {"seal", "failing"} : collector[r].stage = "derive" /\ Stage(r, stage)
                                                /\ (stage = "seal" => Derived(r)),
         UNCHANGED <<log, commands, seal, failed>>
  PROVE  CampaignInv'
<1>1. CommandsSound(r) /\ ReportSound(r) /\ SealSound(r) /\ CampaignTypes
  BY DEF CampaignInv
<1>2. derived'[r] = derive(r) /\ DOMAIN derived' = RunDirs
      /\ \A q \in RunDirs : q # r => derived'[q] = derived[q]
  BY <1>1 DEF CampaignTypes
<1>3. Bytes(r)' = Bytes(r) /\ Complete' = Complete
  BY DEF Bytes, Complete, Index
<1>4. derived'[r].kind = "report" => derived'[r].bytes = Complete' /\ Bytes(r)' = Complete'
  BY <1>1, <1>2, <1>3, DeriveSound
<1>5. CASE collector[r].stage = "ended" /\ UNCHANGED collector
  <2>1. CampaignTypes' /\ CommandsSound(r)'
    BY <1>1, <1>2, <1>5 DEF CampaignTypes, CommandsSound, Recorded, Last, Index
  <2>2. ReportSound(r)'
    BY <1>4, <1>5 DEF ReportSound
  <2>3. SealSound(r)'
    BY <1>1, <1>3, <1>5 DEF SealSound
  <2>. QED BY <1>2, <1>5, <2>1, <2>2, <2>3, OneRun
<1>6. CASE \E stage \in {"seal", "failing"} : collector[r].stage = "derive" /\ Stage(r, stage)
                                               /\ (stage = "seal" => Derived(r))
  <2>1. PICK stage \in {"seal", "failing"} : collector[r].stage = "derive" /\ Stage(r, stage)
    BY <1>6
  <2>2. /\ collector' \in [RunDirs -> [stage : Stages, variant : Index]]
        /\ collector'[r] = [stage |-> stage, variant |-> collector[r].variant]
        /\ \A q \in RunDirs : q # r => collector'[q] = collector[q]
    <3>1. stage \in Stages
      BY DEF Stages
    <3>. QED BY <1>1, <2>1, <3>1, StageMoves
  <2>3. CampaignTypes' /\ CommandsSound(r)'
    <3>1. CampaignTypes'
      BY <1>1, <1>2, <2>2 DEF CampaignTypes
    <3>2. collector'[r].stage = stage
      BY <2>2
    <3>. QED BY <1>1, <2>1, <3>1, <3>2, CommandsKept
  <2>4. ReportSound(r)'
    BY <1>4, <2>2 DEF ReportSound
  <2>5. SealSound(r)'
    BY <1>1, <2>1 DEF SealSound, None
  <2>. QED BY <1>2, <2>2, <2>3, <2>4, <2>5, OneRun
<1>. QED BY <1>5, <1>6

LEMMA CollectDeriveInv == ASSUME CampaignInv, NEW r \in RunDirs, collect_derive(r) PROVE CampaignInv'
<1>1. collector[r].stage = "derive" /\ derived' = [derived EXCEPT ![r] = derive(r)]
      /\ UNCHANGED <<log, commands, seal, failed>>
  BY DEF collect_derive
<1>2. PICK stage \in {"seal", "failing"} : Stage(r, stage) /\ (stage = "seal" => Derived(r))
  BY DEF collect_derive
<1>. QED BY <1>1, <1>2, DerivedInv

LEMMA MainDeriveInv == ASSUME CampaignInv, NEW r \in RunDirs, main_derive(r) PROVE CampaignInv'
BY DerivedInv DEF main_derive

\* The seal takes the bytes as they are and the report that is there.
LEMMA SealedInv ==
  ASSUME CampaignInv, NEW r \in RunDirs, CanSeal(r), seal_raw(r),
         \/ collector[r].stage = "ended" /\ UNCHANGED collector
         \/ collector[r].stage = "seal" /\ Stage(r, "ended"),
         UNCHANGED <<log, commands, derived, failed>>
  PROVE  CampaignInv'
<1>1. CommandsSound(r) /\ ReportSound(r) /\ SealSound(r) /\ CampaignTypes
  BY DEF CampaignInv
<1>2. PICK made \in {[kind |-> "seal", bytes |-> Bytes(r), report |-> derived[r]]} : TRUE
  OBVIOUS
<1>3. seal' = [seal EXCEPT ![r] = made]
  BY <1>2 DEF seal_raw
<1>4. seal'[r] = made /\ DOMAIN seal' = RunDirs
      /\ \A q \in RunDirs : q # r => seal'[q] = seal[q]
  BY <1>1, <1>3 DEF CampaignTypes
<1>5. Bytes(r)' = Bytes(r) /\ Complete' = Complete
  BY DEF Bytes, Complete, Index
<1>6. /\ collector' \in [RunDirs -> [stage : Stages, variant : Index]]
      /\ collector'[r] = [stage |-> "ended", variant |-> collector[r].variant]
      /\ \A q \in RunDirs : q # r => collector'[q] = collector[q]
  <2>1. CASE collector[r].stage = "ended" /\ UNCHANGED collector
    BY <1>1, <2>1 DEF CampaignTypes
  <2>2. CASE collector[r].stage = "seal" /\ Stage(r, "ended")
    BY <1>1, <2>2, StageMoves DEF Stages
  <2>. QED BY <2>1, <2>2
<1>7. CampaignTypes'
  BY <1>1, <1>4, <1>6 DEF CampaignTypes
<1>8. CommandsSound(r)'
  <2>1. collector'[r].stage = "ended"
    BY <1>6
  <2>. QED BY <1>1, <2>1, CommandsKept
<1>9. ReportSound(r)'
  BY <1>1, <1>5, <1>6 DEF ReportSound
<1>10. made.bytes = Bytes(r) /\ made.report = derived[r]
  BY <1>2
<1>11. SealSound(r)'
  BY <1>1, <1>4, <1>5, <1>6, <1>10 DEF SealSound, ReportSound
<1>. QED BY <1>4, <1>6, <1>7, <1>8, <1>9, <1>11, OneRun

LEMMA SealInv ==
  ASSUME CampaignInv, NEW r \in RunDirs, collect_seal(r) \/ main_seal(r) PROVE CampaignInv'
BY SealedInv DEF collect_seal, main_seal

LEMMA SealFailedInv == ASSUME CampaignInv, NEW r \in RunDirs, _seal_failed_raw(r) PROVE CampaignInv'
<1>1. DOMAIN failed' = RunDirs
  BY DEF _seal_failed_raw, CampaignInv, CampaignTypes
<1>. QED BY <1>1, StageInv DEF _seal_failed_raw

LEMMA CrashInv == ASSUME CampaignInv, NEW r \in RunDirs, Crash(r) PROVE CampaignInv'
<1>1. CommandsSound(r) /\ ReportSound(r) /\ SealSound(r) /\ CampaignTypes
  BY DEF CampaignInv
<1>2. /\ collector[r].stage \notin {"new", "ended"} /\ Stage(r, "ended")
      /\ UNCHANGED <<log, commands, seal, failed>>
  BY DEF Crash
<1>3. CASE derived' = derived
  BY <1>2, <1>3, StageInv, <1>1 DEF CampaignTypes
<1>4. CASE derived' # derived
  <2>1. PICK torn \in {[kind |-> "torn"]} : derived' = [derived EXCEPT ![r] = torn]
    <3>1. derived' \in {derived, [derived EXCEPT ![r] = [kind |-> "torn"]]}
      BY <1>4 DEF Crash
    <3>. QED BY <1>4, <3>1
  <2>2. derived'[r] = torn /\ DOMAIN derived' = RunDirs /\ torn.kind = "torn"
        /\ \A q \in RunDirs : q # r => derived'[q] = derived[q]
    BY <1>1, <2>1 DEF CampaignTypes
  <2>3. /\ collector' \in [RunDirs -> [stage : Stages, variant : Index]]
        /\ collector'[r] = [stage |-> "ended", variant |-> collector[r].variant]
        /\ \A q \in RunDirs : q # r => collector'[q] = collector[q]
    BY <1>1, <1>2, StageMoves DEF Stages
  <2>4. CampaignTypes' /\ CommandsSound(r)'
    <3>1. CampaignTypes'
      BY <1>1, <1>2, <2>2, <2>3 DEF CampaignTypes
    <3>2. collector'[r].stage = "ended"
      BY <2>3
    <3>. QED BY <1>1, <1>2, <3>1, <3>2, CommandsKept
  <2>5. ReportSound(r)'
    BY <2>2, <2>3 DEF ReportSound
  <2>6. SealSound(r)'
    BY <1>1, <1>2 DEF SealSound, None
  <2>. QED BY <1>2, <2>2, <2>3, <2>4, <2>5, <2>6, OneRun
<1>. QED BY <1>3, <1>4

\* Only the commands that succeeded are imported, with logs that are complete.
LEMMA RecoveryInv == ASSUME CampaignInv, collect_recovery PROVE CampaignInv'
<1>1. CampaignTypes /\ CommandsSound("first") /\ ReportSound("recovery") /\ SealSound("recovery")
  BY DEF CampaignInv, RunDirs
<1>2. Last \in Nat \ {0} /\ Index = 1 .. Last /\ {"first", "recovery"} \subseteq RunDirs
  BY CampaignConstants DEF Index, Last, RunDirs
<1>3. PICK old \in {commands["first"]} : old \in Seq([exit : {0, 124}, lines : 0 .. Full])
  BY <1>1, <1>2 DEF CampaignTypes
<1>4. Len(old) = Last /\ \A k \in 1 .. Last - 1 : Recorded("first", k)
  BY <1>1, <1>3 DEF CommandsSound, collect_recovery, _verify_failed_evidence
<1>5. PICK imported \in {SubSeq(old, 1, Last - 1)} : TRUE
  OBVIOUS
<1>6. /\ imported \in Seq([exit : {0, 124}, lines : 0 .. Full])
      /\ Len(imported) = Last - 1
      /\ \A k \in 1 .. Last - 1 : imported[k] = old[k]
  BY <1>2, <1>3, <1>4, <1>5
<1>7. PICK logs \in {[v \in Index |-> IF v = Last THEN [file |-> 0, sent |-> 0]
                        ELSE [file |-> Bytes("first")[v], sent |-> Bytes("first")[v]]]} : TRUE
  OBVIOUS
<1>8. /\ log' = [log EXCEPT !["recovery"] = logs]
      /\ commands' = [commands EXCEPT !["recovery"] = imported]
      /\ collector' = [collector EXCEPT !["recovery"] = [stage |-> "run", variant |-> Last]]
      /\ collector["recovery"].stage = "new"
      /\ UNCHANGED <<derived, seal, failed>>
  BY <1>3, <1>5, <1>7 DEF collect_recovery
<1>9. \A v \in Index : log["first"][v].file \in 0 .. Full
  BY <1>1, <1>2, FilesType
<1>10. /\ logs \in [Index -> [file : 0 .. Full, sent : 0 .. Full]]
       /\ \A k \in 1 .. Last - 1 : logs[k].file = log["first"][k].file
  <2>1. \A v \in Index : Bytes("first")[v] = log["first"][v].file
    BY DEF Bytes
  <2>2. \A v \in Index : logs[v] \in [file : 0 .. Full, sent : 0 .. Full]
                         /\ (v # Last => logs[v].file = log["first"][v].file)
    <3>1. TAKE v \in Index
    <3>2. CASE v = Last
      <4>1. logs[v] = [file |-> 0, sent |-> 0]
        BY <1>7, <3>2
      <4>. QED BY <3>2, <4>1 DEF Full
    <3>3. CASE v # Last
      <4>1. logs[v] = [file |-> log["first"][v].file, sent |-> log["first"][v].file]
        BY <1>7, <2>1, <3>3
      <4>. QED BY <1>9, <4>1
    <3>. QED BY <3>2, <3>3
  <2>3. logs \in [Index -> [file : 0 .. Full, sent : 0 .. Full]]
    BY <1>7, <2>2
  <2>. QED BY <1>2, <2>2, <2>3
<1>11. /\ log'["recovery"] = logs /\ commands'["recovery"] = imported
       /\ collector'["recovery"] = [stage |-> "run", variant |-> Last]
       /\ \A q \in RunDirs : q # "recovery" =>
            log'[q] = log[q] /\ commands'[q] = commands[q] /\ collector'[q] = collector[q]
  BY <1>1, <1>2, <1>8 DEF CampaignTypes
<1>12. CampaignTypes'
  <2>1. log' \in [RunDirs -> [Index -> [file : 0 .. Full, sent : 0 .. Full]]]
    BY <1>1, <1>2, <1>8, <1>10 DEF CampaignTypes
  <2>2. commands' \in [RunDirs -> Seq([exit : {0, 124}, lines : 0 .. Full])]
    BY <1>1, <1>2, <1>6, <1>8 DEF CampaignTypes
  <2>3. collector' \in [RunDirs -> [stage : Stages, variant : Index]]
    BY <1>1, <1>2, <1>8 DEF CampaignTypes, Stages
  <2>. QED BY <1>1, <1>8, <2>1, <2>2, <2>3 DEF CampaignTypes
<1>13. CommandsSound("recovery")'
  <2>1. \A k \in 1 .. Last - 1 :
           /\ commands'["recovery"][k] = [exit |-> 0, lines |-> Full]
           /\ log'["recovery"][k].file = Full
    <3>1. TAKE k \in 1 .. Last - 1
    <3>2. old[k] = [exit |-> 0, lines |-> Full] /\ log["first"][k].file = Full
      <4>1. Recorded("first", k) /\ old = commands["first"]
        BY <1>3, <1>4
      <4>. QED BY <4>1 DEF Recorded
    <3>. QED BY <1>6, <1>10, <1>11, <3>2
  <2>2. Len(commands'["recovery"]) = Last - 1
        /\ collector'["recovery"].stage = "run" /\ collector'["recovery"].variant = Last
    BY <1>6, <1>11
  <2>. QED BY <1>2, <2>1, <2>2 DEF CommandsSound, Recorded, Full, Last
<1>14. derived["recovery"] = None /\ seal["recovery"] = None
  BY <1>1, <1>8 DEF ReportSound, SealSound
<1>15. ReportSound("recovery")' /\ SealSound("recovery")'
  BY <1>8, <1>14 DEF ReportSound, SealSound, None
<1>. QED BY <1>2, <1>8, <1>11, <1>12, <1>13, <1>15, OneRun

\* Output that is still forwarded never reaches a log that is complete.
LEMMA DrainInv ==
  ASSUME CampaignInv, NEW r \in RunDirs, NEW v \in Index, Drain(r, v) PROVE CampaignInv'
<1>1. CommandsSound(r) /\ ReportSound(r) /\ SealSound(r) /\ CampaignTypes
  BY DEF CampaignInv
<1>2. PICK row \in {log[r]} : row \in [Index -> [file : 0 .. Full, sent : 0 .. Full]]
  BY <1>1 DEF CampaignTypes
<1>3. PICK entry \in {[file |-> row[v].file + 1, sent |-> row[v].sent]} : TRUE
  OBVIOUS
<1>4. row[v].file < row[v].sent /\ UNCHANGED <<collector, commands, derived, seal, failed>>
  BY <1>2 DEF Drain
<1>5. row[v].file < Full /\ entry \in [file : 0 .. Full, sent : 0 .. Full]
  BY <1>2, <1>3, <1>4 DEF Full
<1>6. log' = [log EXCEPT ![r] = [row EXCEPT ![v] = entry]]
  <2>1. row[v] \in [file : 0 .. Full, sent : 0 .. Full]
    BY <1>2
  <2>2. [row[v] EXCEPT !.file = row[v].file + 1] = entry
    BY <1>3, <2>1
  <2>3. log' = [log EXCEPT ![r][v].file = log[r][v].file + 1]
    BY DEF Drain
  <2>. QED BY <1>2, <2>2, <2>3
<1>7. /\ log' \in [RunDirs -> [Index -> [file : 0 .. Full, sent : 0 .. Full]]]
      /\ \A q \in RunDirs : q # r => log'[q] = log[q]
      /\ \A k \in Index : k # v => log'[r][k] = log[r][k]
  BY <1>1, <1>2, <1>5, <1>6 DEF CampaignTypes
<1>8. CampaignTypes'
  BY <1>1, <1>4, <1>7 DEF CampaignTypes
<1>9. Bytes(r) # Complete
  <2>1. Bytes(r)[v] # Full
    BY <1>2, <1>5 DEF Bytes
  <2>. QED BY <2>1 DEF Complete
<1>10. \A k \in Index : Recorded(r, k) =>
         commands'[r][k] = [exit |-> 0, lines |-> Full] /\ log'[r][k].file = Full
  BY <1>2, <1>4, <1>5, <1>7, SMTT(40), ZenonT(40) DEF Recorded
<1>11. CommandsSound(r)'
  <2>1. Last \in Nat /\ Index = 1 .. Last /\ Len(commands[r]) \in Nat
    BY <1>1, CampaignConstants DEF Index, Last, CampaignTypes
  <2>2. Len(commands[r]) <= Last
    BY <1>1 DEF CommandsSound
  <2>3. \A k \in 1 .. Len(commands[r]) : k \in Index
    BY <2>1, <2>2
  <2>. QED BY <1>1, <1>4, <1>10, <2>1, <2>3, SMTT(40), ZenonT(40) DEF CommandsSound, Recorded, Full, Last
<1>12. derived[r].kind # "report" /\ (seal[r] # None => seal[r].report.kind # "report")
  BY <1>1, <1>9 DEF ReportSound, SealSound
<1>13. ReportSound(r)' /\ SealSound(r)'
  BY <1>1, <1>4, <1>12 DEF ReportSound, SealSound, None
<1>. QED BY <1>4, <1>7, <1>8, <1>11, <1>13, OneRun

LEMMA CampaignStep == CampaignInv /\ [CampaignNext]_cvars => CampaignInv'
<1>. SUFFICES ASSUME CampaignInv, [CampaignNext]_cvars PROVE CampaignInv'
  OBVIOUS
<1>1. ASSUME UNCHANGED <<collector, log, commands, derived, seal, failed>> PROVE CampaignInv'
  <2>1. CampaignTypes'
    BY <1>1 DEF CampaignInv, CampaignTypes
  <2>2. ASSUME NEW r \in RunDirs PROVE CommandsSound(r)' /\ ReportSound(r)' /\ SealSound(r)'
    BY <1>1, OthersSound DEF CampaignInv
  <2>. QED BY <2>1, <2>2 DEF CampaignInv
<1>2. CASE UNCHANGED cvars \/ Pin \/ EditManifest
  BY <1>1, <1>2 DEF cvars, Pin, EditManifest
<1>3. CASE collect \/ collect_campaign \/ collect_recovery
  BY <1>3, CollectInv, RecoveryInv
<1>4. ASSUME NEW r \in RunDirs,
             \/ run_command(r) \/ command_drained(r) \/ drain_timeout(r) \/ collect_derive(r)
             \/ collect_seal(r) \/ _seal_failed_raw(r) \/ main_derive(r) \/ main_seal(r)
             \/ Crash(r) \/ \E v \in Index : Drain(r, v)
      PROVE  CampaignInv'
  BY <1>4, RunCommandInv, CommandDrainedInv, DrainTimeoutInv, CollectDeriveInv, SealInv,
     SealFailedInv, MainDeriveInv, CrashInv, DrainInv
<1>. QED BY <1>2, <1>3, <1>4 DEF CampaignNext

\* A campaign's evidence, whatever its matrix: the collector derives only from
\* complete logs that it recorded, and a sealed report is of the bytes the seal
\* names, in every order of failing commands, late output, crashes, derivations
\* by hand and a recovery (t0044_campaign.py, t0044_campaign_recovery.py).
THEOREM CampaignsSound == CampaignSpec => []EvidenceSound
<1>1. CampaignInv => EvidenceSound
  <2>. SUFFICES ASSUME CampaignInv, NEW r \in RunDirs
       PROVE  /\ collector[r].stage \in {"derive", "seal"} =>
                   /\ commands[r] = [v \in Index |-> [exit |-> 0, lines |-> Full]]
                   /\ Bytes(r) = Complete
              /\ (seal[r] # None /\ seal[r].report.kind = "report") =>
                   /\ seal[r].bytes = Bytes(r) /\ seal[r].report.bytes = Bytes(r)
                   /\ Bytes(r) = Complete
    BY DEF EvidenceSound
  <2>1. CommandsSound(r) /\ SealSound(r) /\ CampaignTypes
    BY DEF CampaignInv
  <2>2. ASSUME collector[r].stage \in {"derive", "seal"}
        PROVE  /\ commands[r] = [v \in Index |-> [exit |-> 0, lines |-> Full]]
               /\ Bytes(r) = Complete
    <3>1. Len(commands[r]) = Last /\ \A k \in 1 .. Last : Recorded(r, k)
      BY <2>1, <2>2 DEF CommandsSound
    <3>2. Index = 1 .. Last /\ Last \in Nat
      BY CampaignConstants DEF Index, Last
    <3>3. commands[r] \in Seq([exit : {0, 124}, lines : 0 .. Full])
      BY <2>1 DEF CampaignTypes
    <3>4. commands[r] = [v \in Index |-> [exit |-> 0, lines |-> Full]]
      BY <3>1, <3>2, <3>3 DEF Recorded
    <3>5. Bytes(r) = Complete
      BY <3>1, <3>2 DEF Recorded, Bytes, Complete
    <3>. QED BY <3>4, <3>5
  <2>. QED BY <2>1, <2>2 DEF SealSound
<1>. QED BY CampaignInitial, CampaignStep, <1>1, PTL DEF CampaignSpec

----------------------------------------------------------------------------
(* The physical screening.                                                 *)

\* What the files of the laboratory can hold.
ManifestNames == DOMAIN Manifests \cup {"none", Run009Manifest}
Rtls == RtlVersions \cup {TornTree, 1, Run009Actual}
RunnerStages == {"new", "verify", "copy", "run", "ran", "seal", "derive", "done", "refused", "stopped", "incident"}
Runners == [stage : RunnerStages, variant : Designs, manifest : ManifestNames, copy : Rtls]
Clocks == {Manifests[m].clock : m \in DOMAIN Manifests \cup {Run009Manifest}}
AreaValues == (UNION {Areas[v] : v \in Designs}) \cup {1}
ReportData ==
  [variant : Designs, rtl : Rtls, clock : Clocks, area : AreaValues, met : BOOLEAN,
   complete : BOOLEAN, clean : BOOLEAN]
ReportSets == [kind : {"reports"}, exit : {0, 1}, data : ReportData]
MetadataSets ==
  [run : {NoFile} \cup [kind : {"run"}, variant : Designs, manifest : ManifestNames,
                        rtl : Rtls, exit : {0}],
   failure : {NoFile} \cup [kind : {"failure"}, variant : Designs, manifest : ManifestNames,
                            rtl : Rtls, exit : {0, 1}]]

PhysicalTypes ==
  /\ tree \in [Designs -> Rtls]
  /\ runner \in [Attempts -> Runners]
  /\ raw \in [Attempts -> {NoFile} \cup ReportSets]
  /\ metadata \in [Attempts -> MetadataSets]
  /\ DOMAIN rawSeal = Attempts /\ DOMAIN failedSeal = Attempts
  /\ DOMAIN result = Attempts /\ DOMAIN matrix = DOMAIN Manifests

\* The stages of a runner whose container has ended.
ContainerEnded == {"ran", "seal", "derive", "done", "stopped", "incident"}

\* The reports of an attempt other than the incident come from a container that
\* ran on a verified copy; what is sealed is complete and holds no failure record.
AttemptSound(r) ==
  /\ runner[r].stage # "new" => runner[r].manifest \in DOMAIN Manifests
  /\ runner[r].stage = "run" => runner[r].copy = Manifests[runner[r].manifest].rtl
  /\ (raw[r] # NoFile) <=> runner[r].stage \in ContainerEnded
  /\ raw[r] # NoFile => raw[r].data.rtl = Manifests[runner[r].manifest].rtl
  /\ metadata[r].run # NoFile => raw[r] # NoFile /\ (raw[r].exit = 0 \/ r \in metadataByHand)
  /\ rawSeal[r] # NoFile =>
       /\ raw[r] # NoFile
       /\ rawSeal[r].files.data.data.complete
       /\ rawSeal[r].files.metadata.run # NoFile /\ rawSeal[r].files.metadata.failure = NoFile
  /\ result[r] # NoFile => raw[r] # NoFile /\ result[r].attempt = r /\ ResultSound(result[r])

\* No result can be derived from the incident, whoever writes its metadata.
IncidentSound ==
  /\ runner[Run009].stage \in {"incident", "stopped"}
  /\ raw[Run009] # NoFile /\ ~raw[Run009].data.clean
  /\ result[Run009] = NoFile

\* A matrix is made of results as they are.
MatrixSound ==
  \A m \in DOMAIN Manifests : matrix[m] # NoFile =>
    \E g, k \in Attempts :
      /\ matrix[m].graph = result[g] /\ matrix[m].rocket = result[k]
      /\ PartitionComplete(m, "static-graph", result[g])
      /\ PartitionComplete(m, "rocket-in-order", result[k])

PhysicalInv ==
  /\ PhysicalTypes /\ IncidentSound /\ MatrixSound
  /\ \A r \in Attempts \ {Run009} : AttemptSound(r)

THEOREM PhysicalInitially == PhysicalInit => PhysicalInv
<1> SUFFICES ASSUME PhysicalInit PROVE PhysicalInv
  OBVIOUS
<1> USE DEF PhysicalInit
<1>1. /\ Runner("incident", "static-graph", Run009Manifest, TornTree) \in Runners
      /\ Runner("new", "static-graph", "none", TornTree) \in Runners
  BY DEF Runner, Runners, RunnerStages, Designs, ManifestNames, Rtls
<1>2. [kind |-> "reports", exit |-> 0, data |-> Run009Reports] \in ReportSets
  <2>1. Manifests[Run009Manifest].clock \in Clocks
    BY DEF Clocks
  <2>2. Run009Reports \in ReportData
    <3>1. 1 \in AreaValues
      BY DEF AreaValues
    <3>2. Run009Actual \in Rtls /\ "static-graph" \in Designs
      BY DEF Rtls, Designs
    <3> HIDE DEF PhysicalInit
    <3> QED
      BY <2>1, <3>1, <3>2 DEF ReportData, Run009Reports
  <2> QED
    BY <2>2 DEF ReportSets
<1>3. PhysicalTypes
  <2>1. tree \in [Designs -> Rtls]
    BY DEF Rtls
  <2>2. runner \in [Attempts -> Runners]
    BY <1>1
  <2>3. raw \in [Attempts -> {NoFile} \cup ReportSets]
    BY <1>2
  <2>4. metadata \in [Attempts -> MetadataSets]
    BY DEF MetadataSets
  <2> QED
    BY <2>1, <2>2, <2>3, <2>4 DEF PhysicalTypes
<1>4. IncidentSound
  <2>1. raw[Run009] = [kind |-> "reports", exit |-> 0, data |-> Run009Reports]
    BY PhysicalConstants
  <2>2. ~Run009Reports.clean
    BY DEF Run009Reports
  <2>3. raw[Run009] # NoFile
    BY <2>1 DEF NoFile
  <2>. QED BY <2>1, <2>2, <2>3, PhysicalConstants DEF IncidentSound, Runner
<1>5. MatrixSound
  BY DEF MatrixSound
<1>6. ASSUME NEW r \in Attempts \ {Run009} PROVE AttemptSound(r)
  BY DEF AttemptSound, Runner, ContainerEnded
<1> QED
  BY <1>3, <1>4, <1>5, <1>6 DEF PhysicalInv

\* What an attempt has is sound whatever happens to the others.
LEMMA AttemptElsewhere ==
  ASSUME NEW q \in Attempts, AttemptSound(q),
         runner'[q] = runner[q], raw'[q] = raw[q], metadata'[q] = metadata[q],
         rawSeal'[q] = rawSeal[q], result'[q] = result[q], metadataByHand \subseteq metadataByHand'
  PROVE  AttemptSound(q)'
<1>1. result[q] # NoFile => ResultSound(result[q])'
  BY DEF AttemptSound, ResultSound
<1>. QED BY <1>1 DEF AttemptSound

LEMMA MatrixElsewhere ==
  ASSUME MatrixSound, UNCHANGED matrix, \A q \in Attempts : result[q] # NoFile => result'[q] = result[q]
  PROVE  MatrixSound'
BY DEF MatrixSound, PartitionComplete

\* A change of one field of a runner.
LEMMA RunnerStage ==
  ASSUME NEW r \in Attempts, NEW stage \in RunnerStages, runner \in [Attempts -> Runners],
         SetStage(r, stage)
  PROVE  /\ runner' \in [Attempts -> Runners]
         /\ runner'[r].stage = stage /\ runner'[r].manifest = runner[r].manifest
         /\ runner'[r].variant = runner[r].variant /\ runner'[r].copy = runner[r].copy
         /\ \A q \in Attempts \ {r} : runner'[q] = runner[q]
BY DEF SetStage, Runners

\* The runner of an attempt goes on, or is not concerned.
RunnerMoves(r) ==
  /\ runner' \in [Attempts -> Runners] /\ runner'[r].manifest = runner[r].manifest
  /\ runner'[r].stage \in ContainerEnded
  /\ r = Run009 => runner'[r].stage \in {"incident", "stopped"}
  /\ \A q \in Attempts \ {r} : runner'[q] = runner[q]

\* A step that leaves an attempt's reports and result alone.
LEMMA AttemptHere ==
  ASSUME PhysicalInv, NEW r \in Attempts, RunnerMoves(r), raw[r] # NoFile, r # Run009,
         raw'[r] = raw[r], result'[r] = result[r], metadataByHand \subseteq metadataByHand',
         metadata'[r].run # NoFile => raw[r].exit = 0 \/ r \in metadataByHand',
         \/ rawSeal'[r] = rawSeal[r]
         \/ /\ rawSeal'[r].files.data.data.complete
            /\ rawSeal'[r].files.metadata.run # NoFile
            /\ rawSeal'[r].files.metadata.failure = NoFile
  PROVE  AttemptSound(r)'
<1>1. AttemptSound(r) /\ runner[r].stage \in ContainerEnded
  BY DEF PhysicalInv, AttemptSound
<1>2. result[r] # NoFile => ResultSound(result[r])'
  BY <1>1 DEF AttemptSound, ResultSound, RunnerMoves
<1>. QED BY <1>1, <1>2 DEF AttemptSound, RunnerMoves, ContainerEnded

LEMMA StepManifest ==
  ASSUME PhysicalInv, NEW r \in Attempts, verify_manifest(r)
  PROVE  PhysicalInv'
<1> USE DEF PhysicalInv, verify_manifest
<1>0. r # Run009
  BY DEF IncidentSound
<1>1. PICK v \in Designs, m \in DOMAIN Manifests :
        runner' = [runner EXCEPT ![r] = Runner("verify", v, m, TornTree)]
  OBVIOUS
<1>2. Runner("verify", v, m, TornTree) \in Runners
  BY DEF Runner, Runners, RunnerStages, ManifestNames, Rtls
<1>3. PhysicalTypes'
  BY <1>1, <1>2 DEF PhysicalTypes, files
<1>4. IncidentSound'
  BY <1>0, <1>1, PhysicalConstants DEF files, IncidentSound, PhysicalTypes
<1>5. MatrixSound'
  BY MatrixElsewhere DEF files
<1>6. ASSUME NEW q \in Attempts \ {Run009} PROVE AttemptSound(q)'
  <2>1. CASE q = r
    BY <2>1, <1>1 DEF AttemptSound, PhysicalTypes, Runner, ContainerEnded, files
  <2>2. CASE q # r
    BY <2>2, <1>1, AttemptElsewhere DEF files, PhysicalTypes
  <2> QED
    BY <2>1, <2>2
<1> QED
  BY <1>3, <1>4, <1>5, <1>6

LEMMA StepInputs ==
  ASSUME PhysicalInv, NEW r \in Attempts, verify_inputs(r)
  PROVE  PhysicalInv'
<1> USE DEF PhysicalInv, verify_inputs
<1>0. r # Run009
  BY DEF IncidentSound
<1>1. PICK stage \in {"copy", "refused"} : SetStage(r, stage)
  OBVIOUS
<1>2. /\ runner' \in [Attempts -> Runners]
      /\ runner'[r].stage = stage /\ runner'[r].manifest = runner[r].manifest
      /\ \A q \in Attempts \ {r} : runner'[q] = runner[q]
  BY <1>1, RunnerStage DEF PhysicalTypes, RunnerStages
<1>3. PhysicalTypes'
  BY <1>2 DEF PhysicalTypes, files
<1>4. IncidentSound'
  BY <1>0, <1>2, PhysicalConstants DEF files, IncidentSound
<1>5. MatrixSound'
  BY MatrixElsewhere DEF files
<1>6. ASSUME NEW q \in Attempts \ {Run009} PROVE AttemptSound(q)'
  <2>1. CASE q = r
    BY <2>1, <1>2 DEF AttemptSound, ContainerEnded, files
  <2>2. CASE q # r
    BY <2>2, <1>2, AttemptElsewhere DEF files
  <2> QED
    BY <2>1, <2>2
<1> QED
  BY <1>3, <1>4, <1>5, <1>6

LEMMA StepCopy ==
  ASSUME PhysicalInv, NEW r \in Attempts, copy_rtl(r)
  PROVE  PhysicalInv'
<1> USE DEF PhysicalInv, copy_rtl
<1>0. r # Run009
  BY DEF IncidentSound
<1>1. PICK rtl \in {tree[runner[r].variant], TornTree} :
        LET p == runner[r] stage == IF verify_snapshot(p.manifest, rtl) THEN "run" ELSE "refused" IN
        runner' = [runner EXCEPT ![r] = Runner(stage, p.variant, p.manifest, rtl)]
  OBVIOUS
<1>2. rtl \in Rtls
  BY DEF PhysicalTypes, Runners, Rtls
<1>3. /\ runner'[r].stage \in {"run", "refused"} /\ runner'[r].manifest = runner[r].manifest
      /\ runner'[r].stage = "run" => runner'[r].copy = Manifests[runner[r].manifest].rtl
      /\ \A q \in Attempts \ {r} : runner'[q] = runner[q]
      /\ runner' \in [Attempts -> Runners]
  BY <1>1, <1>2 DEF Runner, verify_snapshot, _verify_variant_inputs, PhysicalTypes, Runners, RunnerStages
<1>4. PhysicalTypes'
  BY <1>3 DEF PhysicalTypes, files
<1>5. IncidentSound'
  BY <1>0, <1>3, PhysicalConstants DEF files, IncidentSound
<1>6. MatrixSound'
  BY MatrixElsewhere DEF files
<1>7. ASSUME NEW q \in Attempts \ {Run009} PROVE AttemptSound(q)'
  <2>1. CASE q = r
    BY <2>1, <1>3 DEF AttemptSound, ContainerEnded, files
  <2>2. CASE q # r
    BY <2>2, <1>3, AttemptElsewhere DEF files
  <2> QED
    BY <2>1, <2>2
<1> QED
  BY <1>4, <1>5, <1>6, <1>7

LEMMA StepContainer ==
  ASSUME PhysicalInv, NEW r \in Attempts, run_container(r)
  PROVE  PhysicalInv'
<1> USE DEF PhysicalInv
<1>0. r # Run009 /\ runner[r].stage = "run" /\ SetStage(r, "ran")
  BY DEF IncidentSound, run_container
<1>1. PICK exit \in {0, 1}, area \in Areas[runner[r].variant], met \in BOOLEAN,
           complete \in BOOLEAN, clean \in BOOLEAN :
        raw' = [raw EXCEPT ![r] = [kind |-> "reports", exit |-> exit,
                 data |-> [variant |-> runner[r].variant, rtl |-> runner[r].copy,
                           clock |-> Manifests[runner[r].manifest].clock,
                           area |-> area, met |-> met, complete |-> complete, clean |-> clean]]]
  BY DEF run_container
<1>2. UNCHANGED <<tree, exports, metadata, rawSeal, failedSeal, result, matrix, metadataByHand>>
  BY DEF run_container
<1>3. /\ runner' \in [Attempts -> Runners]
      /\ runner'[r].stage = "ran" /\ runner'[r].manifest = runner[r].manifest
      /\ \A q \in Attempts \ {r} : runner'[q] = runner[q]
  BY <1>0, RunnerStage DEF PhysicalTypes, RunnerStages
<1>4. [variant |-> runner[r].variant, rtl |-> runner[r].copy,
       clock |-> Manifests[runner[r].manifest].clock, area |-> area, met |-> met,
       complete |-> complete, clean |-> clean] \in ReportData
  <2>1. runner[r].variant \in Designs /\ runner[r].copy \in Rtls
    BY DEF PhysicalTypes, Runners
  <2>2. runner[r].manifest \in DOMAIN Manifests
    BY <1>0 DEF AttemptSound
  <2>3. Manifests[runner[r].manifest].clock \in Clocks
    BY <2>2 DEF Clocks
  <2>4. area \in AreaValues
    BY <2>1 DEF AreaValues
  <2> QED
    BY <2>1, <2>3, <2>4 DEF ReportData
<1>5. raw' \in [Attempts -> {NoFile} \cup ReportSets] /\ raw'[r] \in ReportSets
  BY <1>1, <1>4 DEF PhysicalTypes, ReportSets
<1>6. PhysicalTypes'
  BY <1>2, <1>3, <1>5 DEF PhysicalTypes
<1>7. IncidentSound'
  BY <1>0, <1>1, <1>2, <1>3, PhysicalConstants DEF IncidentSound, PhysicalTypes
<1>8. MatrixSound'
  BY <1>2, MatrixElsewhere
<1>9. ASSUME NEW q \in Attempts \ {Run009} PROVE AttemptSound(q)'
  <2>1. CASE q = r
    <3>1. raw[r] = NoFile
      BY <1>0 DEF AttemptSound, ContainerEnded
    <3>2. metadata[r].run = NoFile /\ result[r] = NoFile /\ rawSeal[r] = NoFile
      BY <1>0, <3>1 DEF AttemptSound
    <3>3. raw'[r].data.rtl = Manifests[runner[r].manifest].rtl /\ raw'[r] # NoFile
      BY <1>0, <1>1, <1>5 DEF AttemptSound, PhysicalTypes, ReportSets, NoFile
    <3> QED
      BY <2>1, <1>0, <1>2, <1>3, <3>2, <3>3 DEF AttemptSound, ContainerEnded
  <2>2. CASE q # r
    BY <2>2, <1>1, <1>2, <1>3, AttemptElsewhere DEF PhysicalTypes
  <2> QED
    BY <2>1, <2>2
<1> QED
  BY <1>6, <1>7, <1>8, <1>9

\* The subcommands, whoever calls them.
LEMMA CommandMetadata ==
  ASSUME PhysicalInv, NEW r \in Attempts, raw[r] # NoFile, RunnerMoves(r), UNCHANGED tree,
         NEW m \in ManifestNames, NEW v \in Designs, NEW rtl \in Rtls,
         write_run_metadata(r, m, v, rtl), metadataByHand \subseteq metadataByHand',
         r # Run009 => raw[r].exit = 0 \/ r \in metadataByHand'
  PROVE  PhysicalInv'
<1> USE DEF PhysicalInv
<1>1. metadata' = [metadata EXCEPT ![r].run =
        [kind |-> "run", variant |-> v, manifest |-> m, rtl |-> rtl, exit |-> 0]]
  BY DEF write_run_metadata
<1>2. UNCHANGED <<raw, rawSeal, failedSeal, result, matrix>>
  BY DEF write_run_metadata
<1>3. metadata' \in [Attempts -> MetadataSets]
  BY <1>1 DEF PhysicalTypes, MetadataSets
<1>4. PhysicalTypes'
  BY <1>2, <1>3 DEF PhysicalTypes, RunnerMoves
<1>5. IncidentSound'
  BY <1>2, PhysicalConstants DEF IncidentSound, RunnerMoves
<1>6. MatrixSound'
  BY <1>2, MatrixElsewhere
<1>7. ASSUME NEW q \in Attempts \ {Run009} PROVE AttemptSound(q)'
  <2>1. CASE q = r
    BY <2>1, <1>2, AttemptHere
  <2>2. CASE q # r
    BY <2>2, <1>1, <1>2, AttemptElsewhere DEF PhysicalTypes, RunnerMoves
  <2> QED
    BY <2>1, <2>2
<1> QED
  BY <1>4, <1>5, <1>6, <1>7

LEMMA CommandSeal ==
  ASSUME PhysicalInv, NEW r \in Attempts, raw[r] # NoFile, RunnerMoves(r), UNCHANGED tree,
         NEW m \in ManifestNames, NEW v \in Designs,
         physical_seal_raw(r, m, v), UNCHANGED metadataByHand
  PROVE  PhysicalInv'
<1> USE DEF PhysicalInv
<1>1. UNCHANGED <<raw, metadata, failedSeal, result, matrix>>
  BY DEF physical_seal_raw
<1>2. /\ rawSeal' = [rawSeal EXCEPT ![r] =
                      [kind |-> "seal", manifest |-> m, variant |-> v, files |-> RawFiles(r)]]
      /\ raw[r].data.complete /\ metadata[r].run # NoFile /\ metadata[r].failure = NoFile
  BY DEF physical_seal_raw
<1>3. DOMAIN rawSeal' = Attempts /\ \A q \in Attempts \ {r} : rawSeal'[q] = rawSeal[q]
  BY <1>2 DEF PhysicalTypes
<1>4. PhysicalTypes'
  BY <1>1, <1>3 DEF PhysicalTypes, RunnerMoves
<1>5. IncidentSound'
  BY <1>1, PhysicalConstants DEF IncidentSound, RunnerMoves
<1>6. MatrixSound'
  BY <1>1, MatrixElsewhere
<1>7. ASSUME NEW q \in Attempts \ {Run009} PROVE AttemptSound(q)'
  <2>1. CASE q = r
    <3>1. rawSeal'[r].files = [data |-> raw[r], metadata |-> metadata[r]]
      BY <1>2 DEF PhysicalTypes, RawFiles
    <3>2. metadata[r].run # NoFile => raw[r].exit = 0 \/ r \in metadataByHand
      BY <2>1 DEF AttemptSound
    <3> QED
      BY <2>1, <1>1, <1>2, <3>1, <3>2, AttemptHere
  <2>2. CASE q # r
    BY <2>2, <1>1, <1>3, AttemptElsewhere DEF RunnerMoves
  <2> QED
    BY <2>1, <2>2
<1> QED
  BY <1>4, <1>5, <1>6, <1>7

LEMMA CommandFailure ==
  ASSUME PhysicalInv, NEW r \in Attempts, raw[r] # NoFile, RunnerMoves(r), UNCHANGED tree,
         NEW m \in ManifestNames, NEW v \in Designs, NEW rtl \in Rtls, NEW exit \in {0, 1},
         record_failure(r, m, v, rtl, exit), UNCHANGED metadataByHand
  PROVE  PhysicalInv'
<1> USE DEF PhysicalInv
<1>1. metadata' = [metadata EXCEPT ![r].failure =
        [kind |-> "failure", variant |-> v, manifest |-> m, rtl |-> rtl, exit |-> exit]]
  BY DEF record_failure
<1>2. UNCHANGED <<raw, rawSeal, result, matrix>> /\ DOMAIN failedSeal' = Attempts
  BY DEF record_failure, PhysicalTypes
<1>3. metadata' \in [Attempts -> MetadataSets] /\ metadata'[r].run = metadata[r].run
  BY <1>1 DEF PhysicalTypes, MetadataSets
<1>4. PhysicalTypes'
  BY <1>2, <1>3 DEF PhysicalTypes, RunnerMoves
<1>5. IncidentSound'
  BY <1>2, PhysicalConstants DEF IncidentSound, RunnerMoves
<1>6. MatrixSound'
  BY <1>2, MatrixElsewhere
<1>7. ASSUME NEW q \in Attempts \ {Run009} PROVE AttemptSound(q)'
  <2>1. CASE q = r
    <3>1. metadata[r].run # NoFile => raw[r].exit = 0 \/ r \in metadataByHand
      BY <2>1 DEF AttemptSound
    <3> QED
      BY <2>1, <1>2, <1>3, <3>1, AttemptHere
  <2>2. CASE q # r
    BY <2>2, <1>1, <1>2, AttemptElsewhere DEF PhysicalTypes, RunnerMoves
  <2> QED
    BY <2>1, <2>2
<1> QED
  BY <1>4, <1>5, <1>6, <1>7

LEMMA CommandDerive ==
  ASSUME PhysicalInv, NEW r \in Attempts, raw[r] # NoFile, RunnerMoves(r), UNCHANGED tree,
         NEW m \in ManifestNames, NEW v \in Designs, NEW rtl \in Rtls,
         derive_one(r, m, v, rtl), UNCHANGED metadataByHand
  PROVE  PhysicalInv'
<1> USE DEF PhysicalInv
<1> DEFINE d == raw[r].data
<1>1. /\ result[r] = NoFile /\ rtl = Manifests[m].rtl
      /\ rawSeal[r] # NoFile /\ rawSeal[r].files = RawFiles(r)
      /\ d.clean /\ d.variant = v /\ d.clock = Manifests[m].clock
  BY DEF derive_one, _load_verified_seal, _verify_variant_inputs
<1>2. result' = [result EXCEPT ![r] = [kind |-> "result", attempt |-> r, manifest |-> m,
        variant |-> v, rtl |-> rtl, clock |-> Manifests[m].clock, area |-> d.area, met |-> d.met,
        files |-> rawSeal[r].files]]
  BY DEF derive_one
<1>3. UNCHANGED <<raw, metadata, rawSeal, failedSeal, matrix>>
  BY DEF derive_one
<1>4. r # Run009
  BY <1>1 DEF IncidentSound
<1>5. DOMAIN result' = Attempts /\ \A q \in Attempts \ {r} : result'[q] = result[q]
  BY <1>2 DEF PhysicalTypes
<1>6. PhysicalTypes'
  BY <1>3, <1>5 DEF PhysicalTypes, RunnerMoves
<1>7. IncidentSound'
  BY <1>3, <1>4, <1>5, PhysicalConstants DEF IncidentSound, RunnerMoves
<1>8. MatrixSound'
  BY <1>1, <1>3, <1>5, MatrixElsewhere
<1>9. AttemptSound(r) /\ runner[r].stage \in ContainerEnded
  BY <1>4 DEF AttemptSound
<1>10. /\ result'[r].attempt = r /\ result'[r].manifest = m /\ result'[r].variant = v
       /\ result'[r].rtl = rtl /\ result'[r].area = d.area /\ result'[r].met = d.met
       /\ result'[r].files = [data |-> raw[r], metadata |-> metadata[r]]
  BY <1>1, <1>2 DEF PhysicalTypes, RawFiles
<1>11. /\ d.complete /\ metadata[r].run # NoFile /\ metadata[r].failure = NoFile
       /\ d.rtl = Manifests[runner[r].manifest].rtl
       /\ raw[r].exit = 0 \/ r \in metadataByHand
  BY <1>1, <1>9 DEF AttemptSound, RawFiles
<1>12. metadata[r].run.exit = 0
  BY <1>11 DEF PhysicalTypes, MetadataSets
<1>13. ResultSound(result[r])'
  BY <1>1, <1>10, <1>11, <1>12 DEF ResultSound, RunnerMoves
<1>14. ASSUME NEW q \in Attempts \ {Run009} PROVE AttemptSound(q)'
  <2>1. CASE q = r
    BY <2>1, <1>3, <1>9, <1>10, <1>13 DEF AttemptSound, RunnerMoves, ContainerEnded
  <2>2. CASE q # r
    BY <2>2, <1>3, <1>5, AttemptElsewhere DEF RunnerMoves
  <2> QED
    BY <2>1, <2>2
<1> QED
  BY <1>6, <1>7, <1>8, <1>14

\* The runner calls them with its own manifest, variant and copy.
LEMMA StepRunner ==
  ASSUME PhysicalInv, NEW r \in Attempts,
         RunnerMetadata(r) \/ RunnerFailure(r) \/ RunnerSeal(r) \/ RunnerDerive(r)
  PROVE  PhysicalInv'
<1>0. /\ r # Run009 /\ runner[r].stage \in {"ran", "seal", "derive"}
      /\ UNCHANGED <<tree, metadataByHand>>
  BY DEF PhysicalInv, IncidentSound, RunnerMetadata, RunnerFailure, RunnerSeal, RunnerDerive
<1>1. AttemptSound(r) /\ runner[r] \in Runners
  BY <1>0 DEF PhysicalInv, PhysicalTypes
<1>2. /\ raw[r] # NoFile /\ runner[r].manifest \in ManifestNames /\ runner[r].variant \in Designs
      /\ runner[r].copy \in Rtls
  BY <1>0, <1>1 DEF AttemptSound, Runners, ContainerEnded
<1>3. raw[r].exit \in {0, 1}
  BY <1>2 DEF PhysicalInv, PhysicalTypes, ReportSets
<1>4. ASSUME NEW stage \in {"seal", "derive", "done"}, SetStage(r, stage) PROVE RunnerMoves(r)
  BY <1>0, <1>4, RunnerStage DEF PhysicalInv, PhysicalTypes, RunnerMoves, RunnerStages, ContainerEnded
<1>5. CASE RunnerMetadata(r)
  BY <1>0, <1>2, <1>4, <1>5, CommandMetadata DEF RunnerMetadata
<1>6. CASE RunnerFailure(r)
  BY <1>0, <1>2, <1>3, <1>4, <1>6, CommandFailure DEF RunnerFailure
<1>7. CASE RunnerSeal(r)
  BY <1>0, <1>2, <1>4, <1>7, CommandSeal DEF RunnerSeal
<1>8. CASE RunnerDerive(r)
  BY <1>0, <1>2, <1>4, <1>8, CommandDerive DEF RunnerDerive
<1>. QED BY <1>5, <1>6, <1>7, <1>8

LEMMA StepByHand ==
  ASSUME PhysicalInv, NEW r \in Attempts, ByHand(r)
  PROVE  PhysicalInv'
<1>1. PICK m \in DOMAIN Manifests, v \in Designs :
        \/ write_run_metadata(r, m, v, tree[v]) /\ metadataByHand' = metadataByHand \cup {r}
        \/ /\ \/ physical_seal_raw(r, m, v)
              \/ record_failure(r, m, v, tree[v], 1)
              \/ derive_one(r, m, v, tree[v])
           /\ UNCHANGED metadataByHand
  BY DEF ByHand
<1>2. raw[r] # NoFile /\ UNCHANGED <<tree, runner>>
  BY DEF ByHand
<1>3. m \in ManifestNames /\ tree[v] \in Rtls
  BY DEF ManifestNames, PhysicalInv, PhysicalTypes
<1>4. RunnerMoves(r)
  BY <1>2 DEF PhysicalInv, PhysicalTypes, AttemptSound, IncidentSound, RunnerMoves, ContainerEnded
<1>5. CASE write_run_metadata(r, m, v, tree[v]) /\ metadataByHand' = metadataByHand \cup {r}
  BY <1>2, <1>3, <1>4, <1>5, CommandMetadata
<1>6. CASE physical_seal_raw(r, m, v) /\ UNCHANGED metadataByHand
  BY <1>2, <1>3, <1>4, <1>6, CommandSeal
<1>7. CASE record_failure(r, m, v, tree[v], 1) /\ UNCHANGED metadataByHand
  BY <1>2, <1>3, <1>4, <1>7, CommandFailure
<1>8. CASE derive_one(r, m, v, tree[v]) /\ UNCHANGED metadataByHand
  BY <1>2, <1>3, <1>4, <1>8, CommandDerive
<1>. QED BY <1>1, <1>5, <1>6, <1>7, <1>8

LEMMA StepIncident ==
  ASSUME PhysicalInv, record_retrospective_host_failure
  PROVE  PhysicalInv'
<1> USE DEF PhysicalInv
<1> DEFINE r == Run009
<1>0. SetStage(r, "stopped") /\ r \in Attempts
  BY PhysicalConstants DEF record_retrospective_host_failure
<1>1. metadata' = [metadata EXCEPT ![r].failure =
        [kind |-> "failure", variant |-> "static-graph", manifest |-> Run009Manifest,
         rtl |-> Run009Actual, exit |-> 0]]
  BY DEF record_retrospective_host_failure
<1>2. UNCHANGED <<tree, exports, raw, rawSeal, result, matrix, metadataByHand>>
  BY DEF record_retrospective_host_failure
<1>3. DOMAIN failedSeal' = Attempts
  BY DEF record_retrospective_host_failure, PhysicalTypes
<1>4. /\ runner' \in [Attempts -> Runners] /\ runner'[r].stage = "stopped"
      /\ \A q \in Attempts \ {r} : runner'[q] = runner[q]
  BY <1>0, RunnerStage DEF PhysicalTypes, RunnerStages
<1>5. metadata' \in [Attempts -> MetadataSets]
  BY <1>0, <1>1 DEF PhysicalTypes, MetadataSets, Rtls, ManifestNames, Designs
<1>6. PhysicalTypes'
  BY <1>2, <1>3, <1>4, <1>5 DEF PhysicalTypes
<1>7. IncidentSound'
  BY <1>2, <1>4 DEF IncidentSound
<1>8. MatrixSound'
  BY <1>2, MatrixElsewhere
<1>9. ASSUME NEW q \in Attempts \ {Run009} PROVE AttemptSound(q)'
  BY <1>1, <1>2, <1>4, AttemptElsewhere DEF PhysicalTypes
<1> QED
  BY <1>6, <1>7, <1>8, <1>9

LEMMA StepMatrix ==
  ASSUME PhysicalInv, NEW m \in DOMAIN Manifests, derive_matrix(m)
  PROVE  PhysicalInv'
<1> USE DEF PhysicalInv
<1>1. PICK g \in Attempts, k \in Attempts :
       /\ PartitionComplete(m, "static-graph", result[g])
       /\ PartitionComplete(m, "rocket-in-order", result[k])
       /\ matrix' = [matrix EXCEPT ![m] = [kind |-> "matrix",
            outcome |-> MatrixOutcome(result[g], result[k]), graph |-> result[g], rocket |-> result[k]]]
  BY DEF derive_matrix
<1>2. UNCHANGED <<tree, exports, runner, raw, metadata, rawSeal, failedSeal, result, metadataByHand>>
  BY DEF derive_matrix
<1>3. matrix'[m].graph = result[g] /\ matrix'[m].rocket = result[k]
  BY <1>1 DEF PhysicalTypes
<1>4. MatrixSound'
  <2> SUFFICES ASSUME NEW n \in DOMAIN Manifests, matrix'[n] # NoFile
               PROVE  \E a, b \in Attempts :
                        /\ matrix'[n].graph = result[a] /\ matrix'[n].rocket = result[b]
                        /\ PartitionComplete(n, "static-graph", result[a])
                        /\ PartitionComplete(n, "rocket-in-order", result[b])
    BY <1>2 DEF MatrixSound, PartitionComplete
  <2>1. CASE n = m
    BY <2>1, <1>1, <1>3
  <2>2. CASE n # m
    BY <2>2, <1>1 DEF MatrixSound, PhysicalTypes
  <2> QED
    BY <2>1, <2>2
<1>5. PhysicalTypes'
  BY <1>1, <1>2 DEF PhysicalTypes
<1>6. IncidentSound'
  BY <1>2 DEF IncidentSound
<1>7. ASSUME NEW q \in Attempts \ {Run009} PROVE AttemptSound(q)'
  BY <1>2, AttemptElsewhere
<1> QED
  BY <1>4, <1>5, <1>6, <1>7

LEMMA StepStop ==
  ASSUME PhysicalInv, NEW r \in Attempts, Stop(r)
  PROVE  PhysicalInv'
<1> USE DEF PhysicalInv
<1>0. r # Run009 /\ runner[r].stage \in {"ran", "seal", "derive"}
  BY DEF IncidentSound, Stop
<1>1. runner' = [runner EXCEPT ![r] =
        Runner("stopped", runner[r].variant, runner[r].manifest, TornTree)]
  BY DEF Stop
<1>2. UNCHANGED <<tree, exports, raw, metadata, rawSeal, failedSeal, result, matrix, metadataByHand>>
  BY DEF Stop, files
<1>3. /\ runner' \in [Attempts -> Runners]
      /\ runner'[r].stage = "stopped" /\ runner'[r].manifest = runner[r].manifest
      /\ \A q \in Attempts \ {r} : runner'[q] = runner[q]
  BY <1>1 DEF PhysicalTypes, Runners, Runner, RunnerStages, Rtls
<1>4. PhysicalTypes'
  BY <1>2, <1>3 DEF PhysicalTypes
<1>5. IncidentSound'
  BY <1>0, <1>2, <1>3, PhysicalConstants DEF IncidentSound
<1>6. MatrixSound'
  BY <1>2, MatrixElsewhere
<1>7. ASSUME NEW q \in Attempts \ {Run009} PROVE AttemptSound(q)'
  <2>1. CASE q = r
    <3>1. AttemptSound(r) /\ raw[r] # NoFile
      BY <1>0 DEF AttemptSound, ContainerEnded
    <3>2. RunnerMoves(r)
      BY <1>0, <1>3 DEF RunnerMoves, ContainerEnded
    <3>. QED BY <2>1, <1>0, <1>2, <3>1, <3>2, AttemptHere DEF AttemptSound
  <2>2. CASE q # r
    BY <2>2, <1>2, <1>3, AttemptElsewhere
  <2> QED
    BY <2>1, <2>2
<1> QED
  BY <1>4, <1>5, <1>6, <1>7

LEMMA StepExport ==
  ASSUME PhysicalInv, NEW v \in Designs, Export(v)
  PROVE  PhysicalInv'
<1> USE DEF PhysicalInv
<1>1. UNCHANGED <<runner, raw, metadata, rawSeal, failedSeal, result, matrix, metadataByHand>>
  BY DEF Export, files
<1>2. tree' \in [Designs -> Rtls]
  BY DEF Export, PhysicalTypes, Rtls
<1>3. PhysicalTypes'
  BY <1>1, <1>2 DEF PhysicalTypes
<1>4. IncidentSound'
  BY <1>1 DEF IncidentSound
<1>5. MatrixSound'
  BY <1>1, MatrixElsewhere
<1>6. ASSUME NEW q \in Attempts \ {Run009} PROVE AttemptSound(q)'
  BY <1>1, AttemptElsewhere
<1> QED
  BY <1>3, <1>4, <1>5, <1>6

LEMMA StepEdit ==
  ASSUME PhysicalInv, NEW r \in Attempts, EditRaw(r)
  PROVE  PhysicalInv'
<1> USE DEF PhysicalInv
<1>1. UNCHANGED <<tree, exports, runner, metadata, rawSeal, failedSeal, result, matrix, metadataByHand>>
  BY DEF EditRaw
<1>2. raw' = [raw EXCEPT ![r].data.met = ~@] /\ rawSeal[r] # NoFile
  BY DEF EditRaw
<1>3. raw[r] # NoFile /\ raw[r] \in ReportSets
  BY <1>2 DEF AttemptSound, IncidentSound, PhysicalTypes
<1>4. /\ raw'[r] \in ReportSets /\ raw'[r].exit = raw[r].exit
      /\ raw'[r].data.rtl = raw[r].data.rtl /\ raw'[r].data.clean = raw[r].data.clean
  BY <1>2, <1>3 DEF PhysicalTypes, ReportSets, ReportData
<1>5. raw' \in [Attempts -> {NoFile} \cup ReportSets] /\ \A q \in Attempts \ {r} : raw'[q] = raw[q]
  BY <1>2, <1>4 DEF PhysicalTypes
<1>6. PhysicalTypes'
  BY <1>1, <1>5 DEF PhysicalTypes
<1>7. IncidentSound'
  BY <1>1, <1>4, <1>5, PhysicalConstants DEF IncidentSound, ReportSets, NoFile
<1>8. MatrixSound'
  BY <1>1, MatrixElsewhere
<1>9. ASSUME NEW q \in Attempts \ {Run009} PROVE AttemptSound(q)'
  <2>1. CASE q = r
    <3>1. result[r] # NoFile => ResultSound(result[r])'
      BY <2>1, <1>1 DEF AttemptSound, ResultSound
    <3>. QED BY <2>1, <1>1, <1>3, <1>4, <3>1 DEF AttemptSound, ReportSets, NoFile
  <2>2. CASE q # r
    BY <2>2, <1>1, <1>5, AttemptElsewhere
  <2> QED
    BY <2>1, <2>2
<1> QED
  BY <1>6, <1>7, <1>8, <1>9

THEOREM PhysicalSteps == PhysicalInv /\ [PhysicalNext]_hvars => PhysicalInv'
<1> SUFFICES ASSUME PhysicalInv, [PhysicalNext]_hvars PROVE PhysicalInv'
  OBVIOUS
<1>1. CASE UNCHANGED hvars
  <2>1. UNCHANGED <<tree, runner, raw, metadata, rawSeal, failedSeal, result, matrix, metadataByHand>>
    BY <1>1 DEF hvars, files
  <2>2. PhysicalTypes' /\ IncidentSound' /\ MatrixSound'
    BY <2>1, MatrixElsewhere DEF PhysicalInv, PhysicalTypes, IncidentSound
  <2>3. ASSUME NEW q \in Attempts \ {Run009} PROVE AttemptSound(q)'
    BY <2>1, AttemptElsewhere DEF PhysicalInv
  <2> QED
    BY <2>2, <2>3 DEF PhysicalInv
<1>2. CASE PhysicalNext
  BY <1>2, StepManifest, StepInputs, StepCopy, StepContainer, StepRunner, StepByHand,
     StepIncident, StepMatrix, StepStop, StepExport, StepEdit
  DEF PhysicalNext
<1> QED
  BY <1>1, <1>2

\* What the screening decides rests on two results of one manifest: complete
\* seals without a failure record, of containers that ran on the RTL and at the
\* clock that the manifest names, and that succeeded unless someone wrote their
\* metadata by hand; the recorded incident is never among them. It holds for any
\* use of the subcommands beside the runner (t0044_physical.py).
THEOREM ScreeningIsSound == PhysicalSpec => []ScreeningSound
<1>1. PhysicalInv => ScreeningSound
  <2> SUFFICES ASSUME PhysicalInv PROVE ScreeningSound
    OBVIOUS
  <2>1. \A r \in Attempts : result[r] # NoFile => ResultSound(result[r])
    BY DEF PhysicalInv, AttemptSound, IncidentSound
  <2>2. ASSUME NEW m \in DOMAIN Manifests, matrix[m] # NoFile
        PROVE  /\ ResultSound(matrix[m].graph) /\ ResultSound(matrix[m].rocket)
               /\ matrix[m].graph.manifest = m /\ matrix[m].rocket.manifest = m
               /\ matrix[m].graph.variant # matrix[m].rocket.variant
    BY <2>1, <2>2 DEF PhysicalInv, MatrixSound, PartitionComplete
  <2>. QED BY <2>1, <2>2 DEF PhysicalInv, IncidentSound, ScreeningSound
<1> QED
  BY <1>1, PhysicalInitially, PhysicalSteps, PTL DEF PhysicalSpec

----------------------------------------------------------------------------
(* The controlled runs.                                                    *)

\* What the observer of a simulation counts, and what the log says of it.
Counts == [own : Nat, other : Nat]
Windows == {NoRecord} \cup [kind : {"window"}, accepted : Counts, completed : Nat]
SeedNumbers == Seeds \cup {1, 3}
Simulations ==
  [on : BOOLEAN, mode : {"cpu", "pair", "pilot"}, seed : SeedNumbers, phase : PHASES,
   pending : BOOLEAN, accepted : Counts, completed : Nat, before : BOOLEAN, after : BOOLEAN,
   exact : BOOLEAN, window : Windows]
FactSets ==
  [seed : SeedNumbers, exact : BOOLEAN, before : BOOLEAN, after : BOOLEAN, window : Windows]
LogLines == [sim : FactSets, drained : BOOLEAN]
RunRecords ==
  [implementation : IMPLEMENTATIONS, contract : Nat, input : SeedNumbers, oracle : SeedNumbers,
   observed : SeedNumbers \cup {0}, invocation : SeedNumbers, pending : {0}, unaccounted : {0},
   traffic_conserved : {TRUE}, resource_contract_verified : {TRUE},
   resource_equality_verified : {FALSE}, comparison_eligible : {FALSE},
   reasons : {{"peers-not-yet-verified"}}, truth : FactSets]

ControlledTypes ==
  /\ contract \in Nat
  /\ sim \in [IMPLEMENTATIONS -> Simulations]
  /\ windows \in [IMPLEMENTATIONS -> Seq(LogLines)]
  /\ wrapper \in [IMPLEMENTATIONS -> Seq(RunRecords)]

\* A record says of its simulation what the verifier has found in its log.
RecordSound(i, r) ==
  /\ r.implementation = i /\ WindowExact(i, r.truth)
  /\ r.input = r.truth.seed /\ r.truth.exact

ControlledInv ==
  /\ ControlledTypes
  /\ \A i \in IMPLEMENTATIONS : \A k \in 1 .. Len(wrapper[i]) : RecordSound(i, wrapper[i][k])
  /\ AggregateSound

THEOREM ControlledInitially == RunInit => ControlledInv
<1> SUFFICES ASSUME RunInit PROVE ControlledInv
  OBVIOUS
<1>1. IdleSim \in Simulations
  BY DEF IdleSim, Simulations, SeedNumbers, Counts, Windows, Zero, PHASES
<1>2. ControlledTypes
  BY <1>1 DEF RunInit, ControlledTypes
<1>3. \A i \in IMPLEMENTATIONS : Len(wrapper[i]) = 0
  BY DEF RunInit
<1>4. AggregateSound
  BY DEF RunInit, AggregateSound
<1> QED
  BY <1>2, <1>3, <1>4 DEF ControlledInv

LEMMA AcceptType ==
  ASSUME NEW i \in IMPLEMENTATIONS, sim \in [IMPLEMENTATIONS -> Simulations], Accept(i)
  PROVE  sim' \in [IMPLEMENTATIONS -> Simulations]
<1> DEFINE s == sim[i]
<1> DEFINE c == [own |-> s.accepted.own + 1, other |-> s.accepted.other]
<1>1. c \in Counts /\ [s.accepted EXCEPT !.own = @ + 1] = c
  BY DEF Simulations, Counts
<1>2. sim' = [sim EXCEPT ![i] = [s EXCEPT !.pending = TRUE, !.accepted = c]]
  <2>1. sim' = [sim EXCEPT ![i].pending = TRUE, ![i].accepted.own = @ + 1]
    BY DEF Accept
  <2>2. [s EXCEPT !.pending = TRUE].accepted = s.accepted
    BY DEF Simulations
  <2> QED
    BY <1>1, <2>1, <2>2, Zenon
<1>3. [s EXCEPT !.pending = TRUE, !.accepted = c] \in Simulations
  <2>1. \A t \in Simulations : [t EXCEPT !.pending = TRUE] \in Simulations
    BY DEF Simulations
  <2>2. \A t \in Simulations : [t EXCEPT !.accepted = c] \in Simulations
    BY <1>1 DEF Simulations
  <2> QED
    BY <2>1, <2>2, Zenon
<1> QED
  BY <1>2, <1>3

LEMMA ForeignType ==
  ASSUME NEW i \in IMPLEMENTATIONS, sim \in [IMPLEMENTATIONS -> Simulations], ForeignAccept(i)
  PROVE  sim' \in [IMPLEMENTATIONS -> Simulations]
<1> DEFINE s == sim[i]
<1> DEFINE c == [own |-> s.accepted.own, other |-> s.accepted.other + 1]
<1>1. c \in Counts /\ [s.accepted EXCEPT !.other = @ + 1] = c
  BY DEF Simulations, Counts
<1>2. sim' = [sim EXCEPT ![i] = [s EXCEPT !.pending = TRUE, !.accepted = c]]
  <2>1. sim' = [sim EXCEPT ![i].pending = TRUE, ![i].accepted.other = @ + 1]
    BY DEF ForeignAccept
  <2>2. [s EXCEPT !.pending = TRUE].accepted = s.accepted
    BY DEF Simulations
  <2> QED
    BY <1>1, <2>1, <2>2, Zenon
<1>3. [s EXCEPT !.pending = TRUE, !.accepted = c] \in Simulations
  <2>1. \A t \in Simulations : [t EXCEPT !.pending = TRUE] \in Simulations
    BY DEF Simulations
  <2>2. \A t \in Simulations : [t EXCEPT !.accepted = c] \in Simulations
    BY <1>1 DEF Simulations
  <2> QED
    BY <2>1, <2>2, Zenon
<1> QED
  BY <1>2, <1>3

LEMMA NextPhaseType ==
  ASSUME NEW i \in IMPLEMENTATIONS, sim \in [IMPLEMENTATIONS -> Simulations], NextPhase(i)
  PROVE  sim' \in [IMPLEMENTATIONS -> Simulations]
<1> DEFINE s == sim[i]
<1>1. PICK b \in BOOLEAN, a \in BOOLEAN, w \in Windows, p \in PHASES :
        sim' = [sim EXCEPT ![i] = [s EXCEPT !.phase = p, !.accepted = Zero, !.completed = 0,
                                            !.before = b, !.after = a, !.window = w]]
  <2>1. s \in Simulations /\ s.phase < 5
    BY DEF NextPhase
  <2>2. (IF s.phase + 1 = Execution THEN ~s.pending ELSE s.before) \in BOOLEAN
        /\ (IF s.phase = Execution THEN ~s.pending ELSE s.after) \in BOOLEAN
    <3>1. s.before \in BOOLEAN /\ s.after \in BOOLEAN /\ (~s.pending) \in BOOLEAN
      BY <2>1 DEF Simulations
    <3> QED
      BY <3>1, Zenon
  <2>3. s.phase + 1 \in PHASES
    BY <2>1 DEF Simulations, PHASES
  <2>4. (IF s.phase = Execution
         THEN [kind |-> "window", accepted |-> s.accepted, completed |-> s.completed]
         ELSE s.window) \in Windows
    BY <2>1 DEF Simulations, Windows
  <2>5. sim' = [sim EXCEPT ![i] =
          [s EXCEPT !.phase = s.phase + 1, !.accepted = Zero, !.completed = 0,
                    !.before = IF s.phase + 1 = Execution THEN ~s.pending ELSE s.before,
                    !.after = IF s.phase = Execution THEN ~s.pending ELSE s.after,
                    !.window = IF s.phase = Execution
                               THEN [kind |-> "window", accepted |-> s.accepted,
                                     completed |-> s.completed]
                               ELSE s.window]]
    BY ZenonT(60) DEF NextPhase
  <2> QED
    BY <2>2, <2>3, <2>4, <2>5, ZenonT(60)
<1>2. Zero \in Counts
  BY DEF Zero, Counts
<1>3. \A t \in Simulations : [t EXCEPT !.phase = p] \in Simulations
  BY DEF Simulations
<1>4. \A t \in Simulations : [t EXCEPT !.accepted = Zero] \in Simulations
  BY <1>2 DEF Simulations
<1>5. \A t \in Simulations : [t EXCEPT !.completed = 0] \in Simulations
  BY DEF Simulations
<1>6. \A t \in Simulations : [t EXCEPT !.before = b] \in Simulations
  BY DEF Simulations
<1>7. \A t \in Simulations : [t EXCEPT !.after = a] \in Simulations
  BY DEF Simulations
<1>8. \A t \in Simulations : [t EXCEPT !.window = w] \in Simulations
  BY DEF Simulations
<1>9. [s EXCEPT !.phase = p, !.accepted = Zero, !.completed = 0,
                !.before = b, !.after = a, !.window = w] \in Simulations
  BY <1>3, <1>4, <1>5, <1>6, <1>7, <1>8, Zenon
<1> QED
  BY <1>1, <1>9

LEMMA StartType ==
  ASSUME sim \in [IMPLEMENTATIONS -> Simulations],
         SecondInvocation \/ \E i \in IMPLEMENTATIONS : Start(i) \/ Respond(i)
  PROVE  sim' \in [IMPLEMENTATIONS -> Simulations]
<1>0. IdleSim \in Simulations
  BY DEF IdleSim, Simulations, SeedNumbers, Counts, Windows, Zero, PHASES
<1>4. ASSUME NEW i \in IMPLEMENTATIONS, NEW seed \in SeedNumbers, NEW exact \in BOOLEAN,
             NEW mode \in {"cpu", "pair", "pilot"},
             sim' = [sim EXCEPT ![i] = [IdleSim EXCEPT !.on = TRUE, !.seed = seed, !.exact = exact,
                                                       !.mode = mode]]
      PROVE  sim' \in [IMPLEMENTATIONS -> Simulations]
  <2>1. \A t \in Simulations : [t EXCEPT !.on = TRUE] \in Simulations
    BY DEF Simulations
  <2>2. \A t \in Simulations : [t EXCEPT !.seed = seed] \in Simulations
    BY DEF Simulations
  <2>3. \A t \in Simulations : [t EXCEPT !.exact = exact] \in Simulations
    BY DEF Simulations
  <2>4. \A t \in Simulations : [t EXCEPT !.mode = mode] \in Simulations
    BY DEF Simulations
  <2>5. [IdleSim EXCEPT !.on = TRUE, !.seed = seed, !.exact = exact, !.mode = mode] \in Simulations
    BY <1>0, <2>1, <2>2, <2>3, <2>4, Zenon
  <2> QED
    BY <1>4, <2>5
<1>1. ASSUME NEW i \in IMPLEMENTATIONS, Start(i) PROVE sim' \in [IMPLEMENTATIONS -> Simulations]
  <2>1. PICK seed \in Seeds, exact \in BOOLEAN, mode \in {"cpu", "pair", "pilot"} :
          sim' = [sim EXCEPT ![i] = [IdleSim EXCEPT !.on = TRUE, !.seed = seed, !.exact = exact,
                                                    !.mode = mode]]
    BY <1>1, Zenon DEF Start
  <2>2. seed \in SeedNumbers
    BY DEF SeedNumbers
  <2> QED
    BY <1>4, <2>1, <2>2
<1>2. ASSUME NEW i \in IMPLEMENTATIONS, Respond(i) PROVE sim' \in [IMPLEMENTATIONS -> Simulations]
  BY <1>2 DEF Respond, Simulations
<1>3. CASE SecondInvocation
  <2>1. "static-graph" \in IMPLEMENTATIONS /\ 3 \in SeedNumbers
    BY DEF IMPLEMENTATIONS, SeedNumbers
  <2>2. PICK exact \in BOOLEAN :
          sim' = [sim EXCEPT !["static-graph"] = [IdleSim EXCEPT !.on = TRUE, !.seed = 3,
                                                                 !.exact = exact, !.mode = "pair"]]
    BY <1>3 DEF SecondInvocation
  <2> QED
    BY <1>4, <2>1, <2>2
<1> QED
  BY <1>1, <1>2, <1>3

\* A step that leaves the logs and the records alone.
LEMMA SimulationSteps ==
  ASSUME ControlledInv, sim' \in [IMPLEMENTATIONS -> Simulations],
         UNCHANGED <<contract, windows, wrapper, aggregate>>
  PROVE  ControlledInv'
BY DEF ControlledInv, ControlledTypes, AggregateSound

LEMMA FactsType ==
  ASSUME NEW s \in Simulations
  PROVE  Facts(s) \in FactSets
BY DEF Facts, FactSets, Simulations

LEMMA FinishStep ==
  ASSUME ControlledInv, NEW i \in IMPLEMENTATIONS, Finish(i)
  PROVE  ControlledInv'
<1>1. sim[i] \in Simulations /\ IdleSim \in Simulations
  BY DEF ControlledInv, ControlledTypes, IdleSim, Simulations, SeedNumbers, Counts, Windows, Zero,
     PHASES
<1>2. sim' \in [IMPLEMENTATIONS -> Simulations]
  <2>1. [IdleSim EXCEPT !.mode = sim[i].mode] \in Simulations
    BY <1>1 DEF Simulations
  <2> QED
    BY <2>1 DEF Finish, ControlledInv, ControlledTypes
<1>3. windows' \in [IMPLEMENTATIONS -> Seq(LogLines)]
  <2>1. [sim |-> Facts(sim[i]), drained |-> ~sim[i].pending] \in LogLines
    <3>1. (~sim[i].pending) \in BOOLEAN
      BY <1>1 DEF Simulations
    <3> QED
      BY <1>1, <3>1, FactsType DEF LogLines
  <2>2. Append(windows[i], [sim |-> Facts(sim[i]), drained |-> ~sim[i].pending]) \in Seq(LogLines)
    BY <2>1, AppendProperties DEF ControlledInv, ControlledTypes
  <2>3. windows' = [windows EXCEPT ![i] =
          Append(windows[i], [sim |-> Facts(sim[i]), drained |-> ~sim[i].pending])]
    BY DEF Finish
  <2> QED
    BY <2>2, <2>3 DEF ControlledInv, ControlledTypes
<1>4. UNCHANGED <<contract, wrapper, aggregate>>
  BY DEF Finish
<1> QED
  BY <1>2, <1>3, <1>4 DEF ControlledInv, ControlledTypes, AggregateSound

\* What a verifier accepts it records truly.
LEMMA AcceptedRecord ==
  ASSUME NEW i \in IMPLEMENTATIONS, NEW w \in LogLines, contract \in Nat, Accepted(i, w)
  PROVE  Record(i, w.sim) \in RunRecords /\ RecordSound(i, Record(i, w.sim))
<1>1. w.sim \in FactSets /\ w.sim.seed \in SeedNumbers /\ w.sim.exact \in BOOLEAN
  BY DEF LogLines, FactSets
<1>2. Record(i, w.sim) \in RunRecords
  BY <1>1 DEF Record, RunRecords
<1>3. w.sim.seed # 0
  BY <1>1, ControlledConstants DEF SeedNumbers
<1>4. w.sim.exact
  BY <1>1, <1>3 DEF Accepted, validate_controlled_observation, Record
<1> QED
  BY <1>2, <1>4 DEF RecordSound, Accepted, Record

\* A verifier that adds records, if any, to one wrapper log and empties a log.
LEMMA VerifierSteps ==
  ASSUME ControlledInv, NEW i \in IMPLEMENTATIONS, NEW added \in Seq(RunRecords),
         \A k \in 1 .. Len(added) : RecordSound(i, added[k]),
         wrapper' = [wrapper EXCEPT ![i] = @ \o added],
         windows' = [windows EXCEPT ![i] = <<>>],
         UNCHANGED <<contract, sim, aggregate>>
  PROVE  ControlledInv'
<1>1. wrapper[i] \in Seq(RunRecords) /\ wrapper[i] \o added \in Seq(RunRecords)
  BY ConcatProperties DEF ControlledInv, ControlledTypes
<1>2. ControlledTypes'
  BY <1>1 DEF ControlledInv, ControlledTypes
<1>3. ASSUME NEW j \in IMPLEMENTATIONS, NEW k \in 1 .. Len(wrapper'[j])
      PROVE  RecordSound(j, wrapper'[j][k])
  <2>1. CASE j # i
    BY <2>1 DEF ControlledInv, ControlledTypes
  <2>2. CASE j = i
    <3>1. wrapper'[i] = wrapper[i] \o added
      BY DEF ControlledInv, ControlledTypes
    <3>2. CASE k <= Len(wrapper[i])
      <4>1. wrapper'[i][k] = wrapper[i][k] /\ k \in 1 .. Len(wrapper[i])
        BY <1>1, <2>2, <3>1, <3>2, ConcatProperties
      <4> QED
        BY <2>2, <4>1 DEF ControlledInv
    <3>3. CASE k > Len(wrapper[i])
      <4>1. wrapper'[i][k] = added[k - Len(wrapper[i])]
            /\ k - Len(wrapper[i]) \in 1 .. Len(added)
        BY <1>1, <2>2, <3>1, <3>3, ConcatProperties, LenProperties
      <4> QED
        BY <2>2, <4>1
    <3> QED
      BY <1>1, <3>2, <3>3, LenProperties
  <2> QED
    BY <2>1, <2>2
<1> QED
  BY <1>2, <1>3 DEF ControlledInv, AggregateSound

\* A verifier that refuses a log.
LEMMA RefusedLog ==
  ASSUME ControlledInv, NEW i \in IMPLEMENTATIONS, wrapper' = wrapper,
         windows' = [windows EXCEPT ![i] = <<>>], UNCHANGED <<contract, sim, aggregate>>
  PROVE  ControlledInv'
BY DEF ControlledInv, ControlledTypes, AggregateSound

LEMMA CpuLogStep ==
  ASSUME ControlledInv, NEW i \in IMPLEMENTATIONS, verify_cpu_log(i)
  PROVE  ControlledInv'
<1> DEFINE w == windows[i][1]
<1>1. w \in LogLines /\ contract \in Nat
  <2>1. windows[i] \in Seq(LogLines) /\ contract \in Nat
    BY DEF ControlledInv, ControlledTypes
  <2>2. Len(windows[i]) = 1
    BY DEF verify_cpu_log
  <2> QED
    BY <2>1, <2>2
<1>2. windows' = [windows EXCEPT ![i] = <<>>] /\ UNCHANGED <<contract, sim, aggregate>>
  BY DEF verify_cpu_log
<1>3. CASE Accepted(i, w) /\ w.drained
  <2>1. Record(i, w.sim) \in RunRecords /\ RecordSound(i, Record(i, w.sim))
    BY <1>1, <1>3, AcceptedRecord
  <2>2. wrapper' = [wrapper EXCEPT ![i] = Append(@, Record(i, w.sim))]
    BY <1>3 DEF verify_cpu_log
  <2>3. Append(wrapper[i], Record(i, w.sim)) = wrapper[i] \o <<Record(i, w.sim)>>
    BY <2>1 DEF ControlledInv, ControlledTypes
  <2>4. wrapper' = [wrapper EXCEPT ![i] = @ \o <<Record(i, w.sim)>>]
    BY <2>2, <2>3
  <2>5. <<Record(i, w.sim)>> \in Seq(RunRecords) /\ Len(<<Record(i, w.sim)>>) = 1
        /\ <<Record(i, w.sim)>>[1] = Record(i, w.sim)
    BY <2>1
  <2>6. \A k \in 1 .. Len(<<Record(i, w.sim)>>) : RecordSound(i, <<Record(i, w.sim)>>[k])
    BY <2>1, <2>5
  <2> QED
    BY <1>2, <2>4, <2>5, <2>6, VerifierSteps
<1>4. CASE ~(Accepted(i, w) /\ w.drained)
  <2>1. wrapper' = wrapper
    BY <1>4 DEF verify_cpu_log
  <2> QED
    BY <1>2, <2>1, RefusedLog
<1> QED
  BY <1>3, <1>4

LEMMA PilotLogStep ==
  ASSUME ControlledInv, verify_static_graph_pilot_log
  PROVE  ControlledInv'
<1> DEFINE i == "static-graph"
<1> DEFINE w == windows[i][1]
<1>1. w \in LogLines /\ contract \in Nat /\ i \in IMPLEMENTATIONS
  BY DEF verify_static_graph_pilot_log, ControlledInv, ControlledTypes, IMPLEMENTATIONS
<1>2. windows' = [windows EXCEPT ![i] = <<>>] /\ UNCHANGED <<contract, sim, aggregate>>
  BY DEF verify_static_graph_pilot_log
<1>3. CASE Accepted(i, w)
  <2>1. Record(i, w.sim) \in RunRecords /\ RecordSound(i, Record(i, w.sim))
    BY <1>1, <1>3, AcceptedRecord
  <2>2. wrapper' = [wrapper EXCEPT ![i] = Append(@, Record(i, w.sim))]
    BY <1>3 DEF verify_static_graph_pilot_log
  <2>3. Append(wrapper[i], Record(i, w.sim)) = wrapper[i] \o <<Record(i, w.sim)>>
    BY <1>1, <2>1 DEF ControlledInv, ControlledTypes
  <2>4. wrapper' = [wrapper EXCEPT ![i] = @ \o <<Record(i, w.sim)>>]
    BY <2>2, <2>3
  <2>5. <<Record(i, w.sim)>> \in Seq(RunRecords) /\ Len(<<Record(i, w.sim)>>) = 1
        /\ <<Record(i, w.sim)>>[1] = Record(i, w.sim)
    BY <2>1
  <2>6. \A k \in 1 .. Len(<<Record(i, w.sim)>>) : RecordSound(i, <<Record(i, w.sim)>>[k])
    BY <2>1, <2>5
  <2> QED
    BY <1>1, <1>2, <2>4, <2>5, <2>6, VerifierSteps
<1>4. CASE ~Accepted(i, w)
  <2>1. wrapper' = wrapper
    BY <1>4 DEF verify_static_graph_pilot_log
  <2> QED
    BY <1>1, <1>2, <2>1, RefusedLog
<1> QED
  BY <1>3, <1>4

LEMMA GraphLogStep ==
  ASSUME ControlledInv, verify_static_graph_log
  PROVE  ControlledInv'
<1> DEFINE i == "static-graph"
<1> DEFINE v == windows[i][1]
<1> DEFINE w == windows[i][2]
<1>1. v \in LogLines /\ w \in LogLines /\ contract \in Nat /\ i \in IMPLEMENTATIONS
  BY DEF verify_static_graph_log, ControlledInv, ControlledTypes, IMPLEMENTATIONS
<1>2. windows' = [windows EXCEPT ![i] = <<>>] /\ UNCHANGED <<contract, sim, aggregate>>
  BY DEF verify_static_graph_log
<1>3. CASE Accepted(i, v) /\ Accepted(i, w)
  <2> DEFINE added == <<Record(i, v.sim), Record(i, w.sim)>>
  <2>1. /\ Record(i, v.sim) \in RunRecords /\ RecordSound(i, Record(i, v.sim))
        /\ Record(i, w.sim) \in RunRecords /\ RecordSound(i, Record(i, w.sim))
    BY <1>1, <1>3, AcceptedRecord
  <2>2. wrapper' = [wrapper EXCEPT ![i] = @ \o added]
    BY <1>3 DEF verify_static_graph_log
  <2>3. added \in Seq(RunRecords) /\ Len(added) = 2
        /\ added[1] = Record(i, v.sim) /\ added[2] = Record(i, w.sim)
    BY <2>1
  <2>4. \A k \in 1 .. Len(added) : RecordSound(i, added[k])
    BY <2>1, <2>3
  <2> QED
    BY <1>1, <1>2, <2>2, <2>3, <2>4, VerifierSteps
<1>4. CASE ~(Accepted(i, v) /\ Accepted(i, w))
  <2>1. wrapper' = wrapper
    BY <1>4 DEF verify_static_graph_log
  <2> QED
    BY <1>1, <1>2, <2>1, RefusedLog
<1> QED
  BY <1>3, <1>4

\* Values that are equal for all records are equal for any two.
LEMMA AllEqual ==
  ASSUME NEW S, IsFiniteSet(S), Cardinality(S) = 1, NEW x \in S, NEW y \in S
  PROVE  x = y
BY FS_Singleton

LEMMA AggregateStep ==
  ASSUME ControlledInv, aggregate_controlled_logs
  PROVE  ControlledInv'
<1> DEFINE chosen(i) == wrapper[i][CHOOSE k \in Selected(i) : TRUE]
<1> DEFINE rs == {chosen(i) : i \in IMPLEMENTATIONS}
<1>1. /\ \A i \in IMPLEMENTATIONS : Cardinality(Selected(i)) = 1
      /\ aggregate_controlled_observations(rs)
      /\ aggregate' = [kind |-> "aggregate", contract |-> contract, records |-> rs]
      /\ UNCHANGED <<contract, sim, windows, wrapper>>
  BY DEF aggregate_controlled_logs
<1>2. \A r \in rs : r.implementation \in IMPLEMENTATIONS /\ RecordSound(r.implementation, r)
  <2> SUFFICES ASSUME NEW i \in IMPLEMENTATIONS
               PROVE  chosen(i).implementation = i /\ RecordSound(i, chosen(i))
    OBVIOUS
  <2>1. Selected(i) # {}
    BY <1>1, FS_EmptySet
  <2>2. (CHOOSE k \in Selected(i) : TRUE) \in Selected(i)
    BY <2>1
  <2>3. (CHOOSE k \in Selected(i) : TRUE) \in 1 .. Len(wrapper[i])
    BY <2>2 DEF Selected, ControlledInv, ControlledTypes
  <2>4. RecordSound(i, chosen(i))
    BY <2>3 DEF ControlledInv
  <2> QED
    BY <2>4 DEF RecordSound
<1> DEFINE inputs == {r.input : r \in rs}
<1>3. IsFiniteSet(inputs)
  <2>1. \E a, b, c : inputs = {a, b, c}
    <3>1. {r.input : r \in rs} =
            {chosen("static-graph").input, chosen("rocket-in-order").input, chosen("boom-ooo").input}
      BY DEF IMPLEMENTATIONS
    <3> QED
      BY <3>1
  <2>2. \A a, b, c : IsFiniteSet({a, b, c})
    <3> TAKE a, b, c
    <3>1. IsFiniteSet({a})
      BY FS_Singleton
    <3>2. IsFiniteSet({a} \cup {b})
      BY <3>1, FS_AddElement
    <3>3. IsFiniteSet(({a} \cup {b}) \cup {c})
      BY <3>2, FS_AddElement
    <3>4. {a, b, c} = ({a} \cup {b}) \cup {c}
      OBVIOUS
    <3> QED
      BY <3>3, <3>4
  <2>3. PICK a, b, c : inputs = {a, b, c}
    BY <2>1
  <2>4. IsFiniteSet({a, b, c})
    BY <2>2, Zenon
  <2> HIDE DEF inputs
  <2> QED
    BY <2>3, <2>4
<1> HIDE DEF rs
<1>4. Cardinality({r.input : r \in rs}) = 1
  BY <1>1 DEF aggregate_controlled_observations, Equal
<1>5. \A r, q \in rs : r.input = q.input
  BY <1>3, <1>4, AllEqual
<1>6. /\ \A r \in rs : r.contract = contract
      /\ {r.implementation : r \in rs} = IMPLEMENTATIONS
  BY <1>1 DEF aggregate_controlled_observations, validate_controlled_observation
<1>7. aggregate'.records = rs /\ aggregate'.contract = contract
  BY <1>1
<1>8. \A r \in rs :
        /\ r.truth.exact /\ r.truth.before /\ r.truth.after
        /\ r.truth.window.accepted.other = 0
        /\ r.truth.window.accepted.own = Ops[r.implementation][Execution]
        /\ r.truth.window.completed = r.truth.window.accepted.own
        /\ r.input = r.truth.seed
  <2> TAKE r \in rs
  <2>1. /\ r.truth.exact /\ r.input = r.truth.seed /\ WindowExact(r.implementation, r.truth)
    BY <1>2 DEF RecordSound
  <2>2. /\ r.truth.before /\ r.truth.after
        /\ r.truth.window.completed = Ops[r.implementation][Execution]
        /\ r.truth.window.accepted = [own |-> Ops[r.implementation][Execution], other |-> 0]
    BY <2>1 DEF WindowExact
  <2> QED
    BY <2>1, <2>2
<1>9. AggregateSound'
  <2>1. {r.implementation : r \in aggregate'.records} = IMPLEMENTATIONS
    BY <1>6, <1>7
  <2>2. \A r \in aggregate'.records :
         /\ r.truth.exact /\ r.contract = aggregate'.contract
         /\ r.truth.window.accepted.other = 0
         /\ r.truth.window.accepted.own = Ops[r.implementation][Execution]
         /\ r.truth.window.completed = r.truth.window.accepted.own
         /\ r.truth.before /\ r.truth.after
    BY <1>6, <1>7, <1>8
  <2>3. \A r, q \in aggregate'.records : r.truth.seed = q.truth.seed
    BY <1>5, <1>7, <1>8
  <2> QED
    BY <2>1, <2>2, <2>3 DEF AggregateSound
<1> QED
  BY <1>1, <1>9 DEF ControlledInv, ControlledTypes

LEMMA ContractStep ==
  ASSUME ControlledInv, EditContract
  PROVE  ControlledInv'
BY DEF ControlledInv, ControlledTypes, EditContract, AggregateSound

THEOREM ControlledSteps == ControlledInv /\ [RunNext]_ovars => ControlledInv'
<1> SUFFICES ASSUME ControlledInv, [RunNext]_ovars PROVE ControlledInv'
  OBVIOUS
<1>1. CASE UNCHANGED ovars
  BY <1>1, SimulationSteps DEF ovars, ControlledInv, ControlledTypes
<1>2. ASSUME NEW i \in IMPLEMENTATIONS,
             Start(i) \/ Accept(i) \/ ForeignAccept(i) \/ Respond(i) \/ NextPhase(i)
      PROVE  ControlledInv'
  <2>1. sim \in [IMPLEMENTATIONS -> Simulations]
    BY DEF ControlledInv, ControlledTypes
  <2>2. sim' \in [IMPLEMENTATIONS -> Simulations]
    BY <1>2, <2>1, StartType, AcceptType, ForeignType, NextPhaseType
  <2>3. UNCHANGED <<contract, windows, wrapper, aggregate>>
    BY <1>2 DEF Start, Accept, ForeignAccept, Respond, NextPhase
  <2> QED
    BY <2>2, <2>3, SimulationSteps
<1>3. CASE SecondInvocation
  <2>1. sim' \in [IMPLEMENTATIONS -> Simulations]
    BY <1>3, StartType DEF ControlledInv, ControlledTypes
  <2>2. UNCHANGED <<contract, windows, wrapper, aggregate>>
    BY <1>3 DEF SecondInvocation
  <2> QED
    BY <2>1, <2>2, SimulationSteps
<1>4. CASE RunNext
  BY <1>2, <1>3, <1>4, FinishStep, CpuLogStep, GraphLogStep, PilotLogStep, AggregateStep,
     ContractStep
  DEF RunNext
<1> QED
  BY <1>1, <1>4

\* An aggregate is declared over one accepted run of each implementation, on one
\* input and under one contract, and what its records say really happened
\* (aggregate_controlled_logs and the verifiers of controlled_run.py).
THEOREM AggregatesSound == RunSpec => []AggregateSound
<1>1. ControlledInv => AggregateSound
  BY DEF ControlledInv
<1> QED
  BY <1>1, ControlledInitially, ControlledSteps, PTL DEF RunSpec

----------------------------------------------------------------------------
(* The static region: what a point has accumulated, how far the counts are.  *)

Words == 0 .. WordModulus - 1
Outputs == 0 .. Points - 1
Center(p) == Width * Row(p) + Col(p)

\* The sums of the first two to all five cells of the stencil of a point.
Sum2(p) == input[Center(p)] + input[Center(p) - Width]
Sum3(p) == Sum2(p) + input[Center(p) + Width]
Sum4(p) == Sum3(p) + input[Center(p) - 1]
Sum5(p) == Sum4(p) + input[Center(p) + 1]

RegionTypes ==
  /\ input \in [Cells -> Words] /\ output \in [Outputs -> Int]
  /\ status \in {"new", "refused", "busy", "done", "cancelled"}
  /\ reg \in [Nodes -> Int]
  /\ point \in Outputs /\ cycle \in 1 .. 6 /\ half \in {0, 1} /\ clock \in Nat
  /\ useful \in [loads : Nat, adds : Nat, stores : Nat]
  /\ outputValid = (status = "done")

\* A region that runs has the compiled descriptor and began at its first cycle.
Configured ==
  /\ status = "new" => cycle = 1
  /\ status \notin {"new", "refused"} => /\ desc.edges = ExpectedEdges
                                         /\ desc.schedule = ExpectedSchedule
                                         /\ desc.affine = ExpectedAffine

\* Where a region is in its schedule says how much it has done.
WorkDone(loads, adds, stores, cycles) ==
  useful = [loads |-> loads, adds |-> adds, stores |-> stores] /\ clock = cycles
CountsExact ==
  IF status = "done" THEN WorkDone(5 * Points, 4 * Points, Points, 12 * Points)
  ELSE WorkDone(5 * point + cycle - 1, 4 * point + (IF cycle = 1 THEN 0 ELSE cycle - 2), point,
              12 * point + 2 * (cycle - 1) + half)

\* What the next add or the store takes is the sum so far.
Accumulated ==
  status = "busy" =>
    /\ cycle = 2 => reg["load_center"] = input[Center(point)]
    /\ cycle = 3 => reg["add_0"] = Sum2(point) % WordModulus
    /\ cycle = 4 => reg["add_1"] = Sum3(point) % WordModulus
    /\ cycle = 5 => reg["add_2"] = Sum4(point) % WordModulus
    /\ cycle = 6 => reg["add_3"] = Sum5(point) % WordModulus

\* The points before this one are stored.
StoredExact ==
  \A p \in Outputs : p < point \/ status = "done" => output[p] = static_stencil_oracle(input)[p]

RegionInv == RegionTypes /\ Configured /\ CountsExact /\ Accumulated /\ StoredExact

\* Division and remainder, and the quotient being the only one.
LEMMA Division ==
  ASSUME NEW x \in Int, NEW m \in Nat \ {0}
  PROVE  x % m \in 0 .. m - 1 /\ x = m * (x \div m) + (x % m) /\ x \div m \in Int
OBVIOUS

LEMMA OneQuotient ==
  ASSUME NEW m \in Nat \ {0}, NEW k \in Int, NEW l \in Int, NEW r \in 0 .. m - 1,
         NEW s \in 0 .. m - 1, m * k + r = m * l + s
  PROVE  r = s
OBVIOUS

LEMMA AddRemainder ==
  ASSUME NEW m \in Nat \ {0}, NEW x \in Int, NEW y \in Int
  PROVE  ((x % m) + y) % m = (x + y) % m
<1>. DEFINE r == (x % m) + y
            q == x \div m
            k == r \div m
            l == (x + y) \div m
            s == r % m
            t == (x + y) % m
<1>1. x % m \in Int /\ x = m * q + (x % m) /\ q \in Int /\ r \in Int
  BY Division
<1>2. s \in 0 .. m - 1 /\ r = m * k + s /\ k \in Int
  BY <1>1, Division
<1>3. t \in 0 .. m - 1 /\ x + y = m * l + t /\ l \in Int
  BY Division
<1>4. m * (k + q) = m * k + m * q
  BY <1>1, <1>2
<1>5. m * (k + q) + s = m * l + t
  BY <1>1, <1>2, <1>3, <1>4
<1>. QED
  <2>. HIDE DEF r, q, k, l, s, t
  <2>1. s = t
    BY <1>1, <1>2, <1>3, <1>5, OneQuotient
  <2>. QED BY <2>1 DEF s, t, r

\* Every cell that the stencil of an inner point takes is a cell of the grid.
LEMMA Grid ==
  ASSUME NEW p \in Outputs
  PROVE  /\ Row(p) \in Nat /\ Col(p) \in Nat
         /\ {Center(p), Center(p) - Width, Center(p) + Width, Center(p) - 1, Center(p) + 1}
              \subseteq Cells
<1>. DEFINE n == Width - 2
            rows == Height - 2
            q == p \div n
<1>1. n \in Nat \ {0} /\ rows \in Nat \ {0} /\ Height \in Nat /\ Width \in Nat
  BY RegionConstants
<1>2. p \in Int /\ 0 <= p /\ p < rows * n
  <2>1. Points = rows * n /\ rows * n \in Nat
    BY <1>1 DEF Points
  <2>. QED BY <2>1 DEF Outputs
<1>3. p % n \in 0 .. n - 1 /\ p = n * q + (p % n) /\ q \in Int
  BY <1>1, <1>2, Division
<1>4. q >= 0
  <2>1. SUFFICES ASSUME q <= -1 PROVE FALSE
    BY <1>3
  <2>2. n * (q + 1) <= 0 /\ n * (q + 1) = n * q + n
    <3>. HIDE DEF n, q
    <3>. QED BY <1>1, <1>3, <2>1
  <2>. QED BY <1>1, <1>2, <1>3, <2>2
<1>5. q <= rows - 1
  <2>1. SUFFICES ASSUME rows <= q PROVE FALSE
    BY <1>1, <1>3
  <2>2. n * rows <= n * q
    BY <1>1, <1>3, <2>1
  <2>3. n * rows = rows * n
    BY <1>1
  <2>. QED BY <1>1, <1>2, <1>3, <2>2, <2>3
<1>6. Row(p) = q + 1 /\ Col(p) = (p % n) + 1
  BY DEF Row, Col
<1>. HIDE DEF q
<1>7. Row(p) \in 1 .. Height - 2 /\ Col(p) \in 1 .. Width - 2
  BY <1>1, <1>3, <1>4, <1>5, <1>6
<1>8. Width * 1 <= Width * Row(p) /\ Width * Row(p) <= Width * (Height - 2)
  BY <1>1, <1>7
<1>9. Width * (Height - 2) = Height * Width - 2 * Width /\ Height * Width \in Nat
      /\ Width * Row(p) \in Int
  BY <1>1, <1>7
<1>10. Center(p) \in Int /\ Center(p) >= Width + 1 /\ Center(p) <= Height * Width - Width - 2
  BY <1>1, <1>7, <1>8, <1>9 DEF Center
<1>11. Cells = 0 .. Height * Width - 1
  BY DEF Cells
<1>. QED BY <1>1, <1>7, <1>9, <1>10, <1>11

LEMMA Small == ASSUME NEW m \in Nat \ {0}, NEW x \in 0 .. m - 1 PROVE x % m = x
OBVIOUS

\* The addresses that the compiled descriptor loads from.
LEMMA Addresses ==
  ASSUME desc.affine = ExpectedAffine, point \in Outputs
  PROVE  /\ Address(desc, "load_center") = Center(point)
         /\ Address(desc, "load_north") = Center(point) - Width
         /\ Address(desc, "load_south") = Center(point) + Width
         /\ Address(desc, "load_west") = Center(point) - 1
         /\ Address(desc, "load_east") = Center(point) + 1
<1>1. Width \in Nat /\ Row(point) \in Nat /\ Col(point) \in Nat /\ Height * Width \in Nat \ {0}
  BY RegionConstants, Grid
<1>2. \A x \in Cells : x % (Height * Width) = x
  BY <1>1, Small DEF Cells
<1>3. \A l \in Loads :
        Address(desc, l) =
          (Width * (Row(point) + desc.affine[l][1]) + Col(point) + desc.affine[l][2]) % (Height * Width)
  BY DEF Address
<1>4. /\ desc.affine["load_center"] = <<0, 0>>
      /\ desc.affine["load_north"] = <<-1, 0>> /\ desc.affine["load_south"] = <<1, 0>>
      /\ desc.affine["load_west"] = <<0, -1>> /\ desc.affine["load_east"] = <<0, 1>>
  BY DEF ExpectedAffine, Loads
<1>5. /\ Width * (Row(point) + 0) + Col(point) + 0 = Center(point)
      /\ Width * (Row(point) + -1) + Col(point) + 0 = Center(point) - Width
      /\ Width * (Row(point) + 1) + Col(point) + 0 = Center(point) + Width
      /\ Width * (Row(point) + 0) + Col(point) + -1 = Center(point) - 1
      /\ Width * (Row(point) + 0) + Col(point) + 1 = Center(point) + 1
  BY <1>1 DEF Center
<1>6. {"load_center", "load_north", "load_south", "load_west", "load_east"} = Loads
  BY DEF Loads
<1>. QED BY <1>2, <1>3, <1>4, <1>5, <1>6, Grid

\* The inputs of a node are the nodes that the edges name.
LEMMA Operands ==
  ASSUME NEW e \in ExpectedEdges, NEW r, desc.edges = ExpectedEdges
  PROVE  Operand(desc, r, e[2], e[3]) = r[e[1]]
<1>1. \A f \in ExpectedEdges : f[2] = e[2] /\ f[3] = e[3] => f = e
  BY DEF ExpectedEdges
<1>2. (CHOOSE f \in desc.edges : f[2] = e[2] /\ f[3] = e[3]) = e
  BY <1>1
<1>. QED BY <1>2 DEF Operand

\* How many nodes of a kind a cycle has.
LEMMA OneInCycle ==
  ASSUME NEW d, NEW i, NEW a, NEW ops, d.schedule[i] = <<a>>
  PROVE  InCycle(d, i, ops) = IF a \in ops THEN 1 ELSE 0
<1>1. {j \in DOMAIN d.schedule[i] : d.schedule[i][j] \in ops} = IF a \in ops THEN {1} ELSE {}
  OBVIOUS
<1>. QED BY <1>1, FS_Singleton, FS_EmptySet DEF InCycle

LEMMA TwoInCycle ==
  ASSUME NEW d, NEW i, NEW a, NEW b, NEW ops, d.schedule[i] = <<a, b>>, ~ (a \in ops /\ b \in ops)
  PROVE  InCycle(d, i, ops) = IF a \in ops \/ b \in ops THEN 1 ELSE 0
<1>1. {j \in DOMAIN d.schedule[i] : d.schedule[i][j] \in ops} =
        IF a \in ops THEN {1} ELSE IF b \in ops THEN {2} ELSE {}
  OBVIOUS
<1>. QED BY <1>1, FS_Singleton, FS_EmptySet DEF InCycle

Sums(r) ==
  /\ cycle = 1 => r["load_center"] = input[Center(point)]
  /\ cycle = 2 => r["add_0"] = Sum2(point) % WordModulus
  /\ cycle = 3 => r["add_1"] = Sum3(point) % WordModulus
  /\ cycle = 4 => r["add_2"] = Sum4(point) % WordModulus
  /\ cycle = 5 => r["add_3"] = Sum5(point) % WordModulus
  /\ cycle = 6 => r["store_output"] = Sum5(point) % WordModulus

\* What a node of each kind produces.
LEMMA Performs ==
  ASSUME NEW d, NEW r, NEW n
  PROVE  /\ n \in Loads => Perform(d, r, n) = [r EXCEPT ![n] = input[Address(d, n)]]
         /\ n \in Adds => Perform(d, r, n) =
              [r EXCEPT ![n] = (Operand(d, r, n, 0) + Operand(d, r, n, 1)) % WordModulus]
         /\ n = "store_output" => Perform(d, r, n) = [r EXCEPT ![n] = Operand(d, r, n, 0)]
<1>. DEFINE load == input[Address(d, n)]
            add == (Operand(d, r, n, 0) + Operand(d, r, n, 1)) % WordModulus
            store == Operand(d, r, n, 0)
            v == CASE n \in Loads -> load [] n \in Adds -> add [] OTHER -> store
<1>1. Perform(d, r, n) = [r EXCEPT ![n] = v]
  BY DEF Perform
<1>2. /\ n \in Loads => n \notin Adds
      /\ n = "store_output" => n \notin Loads /\ n \notin Adds
  BY DEF Loads, Adds
<1>. HIDE DEF load, add, store
<1>3. /\ n \in Loads => v = load
      /\ n \in Adds => v = add
      /\ n = "store_output" => v = store
  BY <1>2
<1>. QED BY <1>1, <1>3 DEF load, add, store

LEMMA LoadAndAdd ==
  ASSUME NEW r \in [Nodes -> Int], desc.edges = ExpectedEdges, NEW load \in Loads, NEW add \in Adds,
         NEW sum \in Nodes \ {load, add}, <<sum, add, 0>> \in ExpectedEdges,
         <<load, add, 1>> \in ExpectedEdges, desc.schedule[cycle] = <<load, add>>,
         NEW x \in Int, input[Address(desc, load)] = x
  PROVE  /\ RunCycle(desc, r) \in [Nodes -> Int]
         /\ RunCycle(desc, r)[add] = (r[sum] + x) % WordModulus
<1>. DEFINE first == [r EXCEPT ![load] = x]
<1>1. load \in Nodes /\ add \in Nodes /\ load # add /\ add \notin Loads /\ WordModulus \in Nat \ {0}
  BY RegionConstants DEF Nodes, Loads, Adds
<1>2. Perform(desc, r, load) = first
  BY Performs
<1>3. first \in [Nodes -> Int] /\ first[load] = x /\ first[sum] = r[sum]
  BY <1>1
<1>4. Operand(desc, first, add, 0) = first[sum] /\ Operand(desc, first, add, 1) = first[load]
  <2>1. \A e \in ExpectedEdges : Operand(desc, first, e[2], e[3]) = first[e[1]]
    BY Operands
  <2>. QED BY <2>1
<1>. HIDE DEF first
<1>5. Perform(desc, first, add) = [first EXCEPT ![add] = (r[sum] + x) % WordModulus]
  BY <1>1, <1>3, <1>4, Performs
<1>6. RunCycle(desc, r) = Perform(desc, first, add)
  BY <1>2 DEF RunCycle
<1>7. (r[sum] + x) % WordModulus \in Int
  <2>1. r[sum] + x \in Int
    OBVIOUS
  <2>2. (r[sum] + x) % WordModulus \in 0 .. WordModulus - 1
    BY <1>1, <2>1, Division
  <2>. QED BY <1>1, <2>2
<1>. QED BY <1>1, <1>3, <1>5, <1>6, <1>7

LEMMA SumsTyped ==
  ASSUME RegionTypes
  PROVE  {Sum2(point), Sum3(point), Sum4(point), Sum5(point)} \subseteq Int
<1>. DEFINE c == Center(point)
<1>1. input \in [Cells -> Int]
  BY RegionConstants DEF RegionTypes, Words
<1>2. {input[c], input[c - Width], input[c + Width], input[c - 1], input[c + 1]} \subseteq Int
  BY <1>1, Grid DEF RegionTypes
<1>. QED BY <1>2 DEF Sum5, Sum4, Sum3, Sum2

\* Each cycle adds the next cell to the sum of its point.
LEMMA CycleSums ==
  ASSUME RegionTypes, Configured, Accumulated, status = "busy"
  PROVE  RunCycle(desc, reg) \in [Nodes -> Int] /\ Sums(RunCycle(desc, reg))
<1>. DEFINE c == Center(point)
            m == WordModulus
<1>1. desc.edges = ExpectedEdges /\ desc.schedule = ExpectedSchedule /\ desc.affine = ExpectedAffine
  BY DEF Configured
<1>2. point \in Outputs /\ cycle \in 1 .. 6 /\ reg \in [Nodes -> Int] /\ m \in Nat \ {0}
  BY RegionConstants DEF RegionTypes
<1>3. {input[c], input[c - Width], input[c + Width], input[c - 1], input[c + 1]} \subseteq Int
  <2>1. input \in [Cells -> Int]
    BY <1>2 DEF RegionTypes, Words
  <2>. QED BY <1>2, <2>1, Grid
<1>4. /\ input[Address(desc, "load_center")] = input[c]
      /\ input[Address(desc, "load_north")] = input[c - Width]
      /\ input[Address(desc, "load_south")] = input[c + Width]
      /\ input[Address(desc, "load_west")] = input[c - 1]
      /\ input[Address(desc, "load_east")] = input[c + 1]
  BY <1>1, <1>2, Addresses
<1>5. /\ Sum2(point) = input[c] + input[c - Width]
      /\ Sum3(point) = Sum2(point) + input[c + Width]
      /\ Sum4(point) = Sum3(point) + input[c - 1]
      /\ Sum5(point) = Sum4(point) + input[c + 1]
      /\ {Sum2(point), Sum3(point), Sum4(point), Sum5(point)} \subseteq Int
  BY <1>3 DEF Sum2, Sum3, Sum4, Sum5
<1>6. /\ desc.schedule[1] = <<"load_center">> /\ desc.schedule[2] = <<"load_north", "add_0">>
      /\ desc.schedule[3] = <<"load_south", "add_1">> /\ desc.schedule[4] = <<"load_west", "add_2">>
      /\ desc.schedule[5] = <<"load_east", "add_3">> /\ desc.schedule[6] = <<"store_output">>
  BY <1>1 DEF ExpectedSchedule
<1>. HIDE DEF c, m
<1>7. CASE cycle = 1
  <2>1. RunCycle(desc, reg) = [reg EXCEPT !["load_center"] = input[c]]
    <3>1. desc.schedule[cycle] = <<"load_center">> /\ "load_center" \in Loads
      BY <1>6, <1>7 DEF Loads
    <3>2. RunCycle(desc, reg) = Perform(desc, reg, "load_center")
      BY <3>1 DEF RunCycle
    <3>. QED BY <1>4, <3>1, <3>2, Performs
  <2>2. "load_center" \in Nodes /\ input[c] \in Int
    BY <1>3 DEF Nodes, Loads
  <2>. QED BY <1>2, <1>7, <2>1, <2>2 DEF Sums, c
<1>8. CASE cycle = 2
  <2>1. "load_center" \in Nodes \ {"load_north", "add_0"} /\ "load_north" \in Loads /\ "add_0" \in Adds
        /\ <<"load_center", "add_0", 0>> \in ExpectedEdges /\ <<"load_north", "add_0", 1>> \in ExpectedEdges
    BY DEF Nodes, Loads, Adds, ExpectedEdges
  <2>2. /\ RunCycle(desc, reg) \in [Nodes -> Int]
        /\ RunCycle(desc, reg)["add_0"] = (reg["load_center"] + input[c - Width]) % WordModulus
    BY <1>1, <1>2, <1>3, <1>4, <1>6, <1>8, <2>1, LoadAndAdd
  <2>3. reg["load_center"] = input[c]
    BY <1>8 DEF Accumulated, c
  <2>. QED BY <1>5, <1>8, <2>2, <2>3 DEF Sums
<1>9. CASE cycle = 3
  <2>1. "add_0" \in Nodes \ {"load_south", "add_1"} /\ "load_south" \in Loads /\ "add_1" \in Adds
        /\ <<"add_0", "add_1", 0>> \in ExpectedEdges /\ <<"load_south", "add_1", 1>> \in ExpectedEdges
    BY DEF Nodes, Loads, Adds, ExpectedEdges
  <2>2. /\ RunCycle(desc, reg) \in [Nodes -> Int]
        /\ RunCycle(desc, reg)["add_1"] = (reg["add_0"] + input[c + Width]) % WordModulus
    BY <1>1, <1>2, <1>3, <1>4, <1>6, <1>9, <2>1, LoadAndAdd
  <2>3. reg["add_0"] = Sum2(point) % WordModulus
    BY <1>9 DEF Accumulated
  <2>4. ((Sum2(point) % m) + input[c + Width]) % m = (Sum2(point) + input[c + Width]) % m
    BY <1>2, <1>3, <1>5, AddRemainder
  <2>. QED BY <1>5, <1>9, <2>2, <2>3, <2>4 DEF Sums, m
<1>10. CASE cycle = 4
  <2>1. "add_1" \in Nodes \ {"load_west", "add_2"} /\ "load_west" \in Loads /\ "add_2" \in Adds
        /\ <<"add_1", "add_2", 0>> \in ExpectedEdges /\ <<"load_west", "add_2", 1>> \in ExpectedEdges
    BY DEF Nodes, Loads, Adds, ExpectedEdges
  <2>2. /\ RunCycle(desc, reg) \in [Nodes -> Int]
        /\ RunCycle(desc, reg)["add_2"] = (reg["add_1"] + input[c - 1]) % WordModulus
    BY <1>1, <1>2, <1>3, <1>4, <1>6, <1>10, <2>1, LoadAndAdd
  <2>3. reg["add_1"] = Sum3(point) % WordModulus
    BY <1>10 DEF Accumulated
  <2>4. ((Sum3(point) % m) + input[c - 1]) % m = (Sum3(point) + input[c - 1]) % m
    BY <1>2, <1>3, <1>5, AddRemainder
  <2>. QED BY <1>5, <1>10, <2>2, <2>3, <2>4 DEF Sums, m
<1>11. CASE cycle = 5
  <2>1. "add_2" \in Nodes \ {"load_east", "add_3"} /\ "load_east" \in Loads /\ "add_3" \in Adds
        /\ <<"add_2", "add_3", 0>> \in ExpectedEdges /\ <<"load_east", "add_3", 1>> \in ExpectedEdges
    BY DEF Nodes, Loads, Adds, ExpectedEdges
  <2>2. /\ RunCycle(desc, reg) \in [Nodes -> Int]
        /\ RunCycle(desc, reg)["add_3"] = (reg["add_2"] + input[c + 1]) % WordModulus
    BY <1>1, <1>2, <1>3, <1>4, <1>6, <1>11, <2>1, LoadAndAdd
  <2>3. reg["add_2"] = Sum4(point) % WordModulus
    BY <1>11 DEF Accumulated
  <2>4. ((Sum4(point) % m) + input[c + 1]) % m = (Sum4(point) + input[c + 1]) % m
    BY <1>2, <1>3, <1>5, AddRemainder
  <2>. QED BY <1>5, <1>11, <2>2, <2>3, <2>4 DEF Sums, m
<1>12. CASE cycle = 6
  <2>1. <<"add_3", "store_output", 0>> \in ExpectedEdges
    BY DEF ExpectedEdges
  <2>2. Operand(desc, reg, "store_output", 0) = reg["add_3"]
    <3>1. \A e \in ExpectedEdges : Operand(desc, reg, e[2], e[3]) = reg[e[1]]
      BY <1>1, Operands
    <3>. QED BY <2>1, <3>1
  <2>3. RunCycle(desc, reg) = [reg EXCEPT !["store_output"] = reg["add_3"]]
    <3>1. desc.schedule[cycle] = <<"store_output">>
      BY <1>6, <1>12
    <3>2. RunCycle(desc, reg) = Perform(desc, reg, "store_output")
      BY <3>1 DEF RunCycle
    <3>. QED BY <2>2, <3>2, Performs
  <2>4. "store_output" \in Nodes /\ "add_3" \in Nodes
    BY DEF Nodes, Adds
  <2>5. reg["add_3"] = Sum5(point) % WordModulus
    BY <1>12 DEF Accumulated
  <2>. QED BY <1>2, <1>12, <2>3, <2>4, <2>5 DEF Sums
<1>. QED BY <1>2, <1>7, <1>8, <1>9, <1>10, <1>11, <1>12

\* The cycles of the compiled schedule have a load each, then an add, at the end the store.
LEMMA CycleCounts ==
  ASSUME desc.schedule = ExpectedSchedule, cycle \in 1 .. 6
  PROVE  /\ Len(desc.schedule) = 6
         /\ InCycle(desc, cycle, Loads) = IF cycle = 6 THEN 0 ELSE 1
         /\ InCycle(desc, cycle, Adds) = IF cycle \in {1, 6} THEN 0 ELSE 1
         /\ InCycle(desc, cycle, {"store_output"}) = IF cycle = 6 THEN 1 ELSE 0
<1>1. /\ desc.schedule[1] = <<"load_center">> /\ desc.schedule[2] = <<"load_north", "add_0">>
      /\ desc.schedule[3] = <<"load_south", "add_1">> /\ desc.schedule[4] = <<"load_west", "add_2">>
      /\ desc.schedule[5] = <<"load_east", "add_3">> /\ desc.schedule[6] = <<"store_output">>
      /\ Len(desc.schedule) = 6
  BY DEF ExpectedSchedule
<1>2. CASE cycle \in {1, 6}
  <2>1. \A ops : InCycle(desc, 1, ops) = IF "load_center" \in ops THEN 1 ELSE 0
    BY <1>1, OneInCycle
  <2>2. \A ops : InCycle(desc, 6, ops) = IF "store_output" \in ops THEN 1 ELSE 0
    BY <1>1, OneInCycle
  <2>3. /\ "load_center" \in Loads /\ "load_center" \notin Adds \cup {"store_output"}
        /\ "store_output" \notin Loads \cup Adds
    BY DEF Loads, Adds
  <2>. QED BY <1>1, <1>2, <2>1, <2>2, <2>3
<1>3. ASSUME NEW load \in Loads, NEW add \in Adds, desc.schedule[cycle] = <<load, add>>
      PROVE  /\ InCycle(desc, cycle, Loads) = 1 /\ InCycle(desc, cycle, Adds) = 1
             /\ InCycle(desc, cycle, {"store_output"}) = 0
  <2>1. /\ load \notin Adds \cup {"store_output"} /\ add \notin Loads \cup {"store_output"}
    BY DEF Loads, Adds
  <2>2. \A ops : ~ (load \in ops /\ add \in ops) =>
          InCycle(desc, cycle, ops) = IF load \in ops \/ add \in ops THEN 1 ELSE 0
    BY <1>3, TwoInCycle
  <2>. QED BY <2>1, <2>2
<1>4. CASE cycle \in 2 .. 5
  <2>1. PICK load \in Loads, add \in Adds : desc.schedule[cycle] = <<load, add>>
    <3>1. {"load_north", "load_south", "load_west", "load_east"} \subseteq Loads
          /\ {"add_0", "add_1", "add_2", "add_3"} \subseteq Adds
      BY DEF Loads, Adds
    <3>. QED BY <1>1, <1>4, <3>1
  <2>. QED BY <1>1, <1>3, <1>4, <2>1
<1>. QED BY <1>2, <1>4

LEMMA RegionInitially == RegionInit => RegionInv
<1>. SUFFICES ASSUME RegionInit PROVE RegionInv
  OBVIOUS
<1>1. Points \in Nat \ {0}
  <2>1. Height - 2 \in Nat \ {0} /\ Width - 2 \in Nat \ {0}
    BY RegionConstants
  <2>2. \A m, n \in Nat \ {0} : m * n \in Nat \ {0}
    OBVIOUS
  <2>. QED BY <2>1, <2>2 DEF Points
<1>2. RegionTypes
  <2>1. input \in [Cells -> Words]
    BY RegionConstants DEF RegionInit, Words
  <2>2. output \in [Outputs -> Int] /\ reg \in [Nodes -> Int]
    BY DEF RegionInit, Outputs
  <2>3. point \in Outputs
    BY <1>1 DEF RegionInit, Outputs
  <2>4. useful \in [loads : Nat, adds : Nat, stores : Nat]
    BY DEF RegionInit
  <2>5. /\ status = "new" /\ outputValid = FALSE /\ cycle \in 1 .. 6 /\ half \in {0, 1}
        /\ clock \in Nat
    BY DEF RegionInit
  <2>. QED BY <2>1, <2>2, <2>3, <2>4, <2>5 DEF RegionTypes
<1>3. CountsExact
  BY DEF RegionInit, CountsExact, WorkDone
<1>4. Configured /\ Accumulated
  BY DEF RegionInit, Configured, Accumulated
<1>5. StoredExact
  BY <1>1 DEF RegionInit, StoredExact, Outputs
<1>. QED BY <1>2, <1>3, <1>4, <1>5 DEF RegionInv

LEMMA ConfigurationInv == ASSUME RegionInv, configuration_id PROVE RegionInv'
<1>1. RegionTypes'
  BY DEF RegionInv, configuration_id, RegionTypes, Outputs
<1>2. Configured'
  BY DEF configuration_id, Configured, validate_static_stencil_descriptor
<1>3. CountsExact'
  BY DEF RegionInv, configuration_id, CountsExact, WorkDone
<1>4. Accumulated'
  BY DEF RegionInv, Configured, configuration_id, Accumulated
<1>5. StoredExact'
  BY DEF RegionInv, configuration_id, StoredExact, static_stencil_oracle, Outputs
<1>. QED BY <1>1, <1>2, <1>3, <1>4, <1>5 DEF RegionInv

LEMMA RequestInv == ASSUME RegionInv, Request PROVE RegionInv'
<1>1. RegionTypes'
  BY DEF RegionInv, Request, RegionTypes, Outputs
<1>2. Configured'
  BY DEF RegionInv, Request, Configured
<1>3. CountsExact'
  BY DEF RegionInv, RegionTypes, Request, CountsExact, WorkDone, Outputs
<1>4. Accumulated'
  BY DEF RegionInv, Request, Accumulated, Sum5, Sum4, Sum3, Sum2, Center, Row, Col
<1>5. StoredExact'
  BY DEF RegionInv, Request, StoredExact, static_stencil_oracle, Outputs
<1>. QED BY <1>1, <1>2, <1>3, <1>4, <1>5 DEF RegionInv

LEMMA CancelInv == ASSUME RegionInv, Cancel PROVE RegionInv'
<1>1. RegionTypes'
  BY DEF RegionInv, Cancel, RegionTypes, Outputs
<1>2. Configured'
  BY DEF RegionInv, Cancel, Configured
<1>3. CountsExact'
  BY DEF RegionInv, RegionTypes, Cancel, CountsExact, WorkDone, Outputs
<1>4. Accumulated'
  BY DEF RegionInv, Cancel, Accumulated
<1>5. StoredExact'
  BY DEF RegionInv, Cancel, StoredExact, static_stencil_oracle, Outputs
<1>. QED BY <1>1, <1>2, <1>3, <1>4, <1>5 DEF RegionInv

\* The sum of all five cells is what the oracle has for the point.
LEMMA OracleIsSum ==
  ASSUME NEW p \in Outputs PROVE static_stencil_oracle(input)[p] = Sum5(p) % WordModulus
BY DEF static_stencil_oracle, Sum5, Sum4, Sum3, Sum2, Center, Outputs

LEMMA ResponseInv == ASSUME RegionInv, Response PROVE RegionInv'
<1>. DEFINE r == RunCycle(desc, reg)
            final == cycle = 6
            loads == IF cycle = 6 THEN 0 ELSE 1
            adds == IF cycle \in {1, 6} THEN 0 ELSE 1
            stores == IF cycle = 6 THEN 1 ELSE 0
<1>1. /\ RegionTypes /\ Configured /\ CountsExact /\ Accumulated /\ StoredExact
      /\ status = "busy" /\ half = 1
  BY DEF RegionInv, Response
<1>2. /\ input \in [Cells -> Words] /\ output \in [Outputs -> Int] /\ point \in Outputs
      /\ cycle \in 1 .. 6 /\ reg \in [Nodes -> Int] /\ clock \in Nat
      /\ useful \in [loads : Nat, adds : Nat, stores : Nat]
      /\ outputValid = FALSE
  BY <1>1 DEF RegionTypes
<1>3. desc.edges = ExpectedEdges /\ desc.schedule = ExpectedSchedule /\ desc.affine = ExpectedAffine
  BY <1>1 DEF Configured
<1>4. r \in [Nodes -> Int] /\ Sums(r)
  BY <1>1, CycleSums
<1>5. /\ Len(desc.schedule) = 6 /\ InCycle(desc, cycle, Loads) = loads
      /\ InCycle(desc, cycle, Adds) = adds /\ InCycle(desc, cycle, {"store_output"}) = stores
  BY <1>2, <1>3, CycleCounts
<1>. HIDE DEF r, loads, adds, stores
<1>6. /\ half' = 0 /\ clock' = clock + 1 /\ reg' = r
      /\ output' = IF stores > 0 THEN [output EXCEPT ![point] = r["store_output"]] ELSE output
      /\ useful' = [loads |-> useful.loads + loads, adds |-> useful.adds + adds,
                    stores |-> useful.stores + stores]
      /\ cycle' = IF final THEN 1 ELSE cycle + 1
      /\ IF final /\ point = Points - 1
         THEN status' = "done" /\ outputValid' = TRUE /\ UNCHANGED point
         ELSE point' = (IF final THEN point + 1 ELSE point) /\ UNCHANGED <<status, outputValid>>
      /\ UNCHANGED <<desc, input>>
  BY <1>5 DEF Response, r
<1>7. /\ loads = IF final THEN 0 ELSE 1
      /\ adds = IF cycle = 1 \/ final THEN 0 ELSE 1
      /\ stores = IF final THEN 1 ELSE 0
  BY DEF loads, adds, stores
<1>8. output' = IF final THEN [output EXCEPT ![point] = Sum5(point) % WordModulus] ELSE output
  <2>1. CASE final
    <3>1. r["store_output"] = Sum5(point) % WordModulus
      BY <1>4, <2>1 DEF Sums
    <3>. QED BY <1>6, <1>7, <2>1, <3>1
  <2>2. CASE ~ final
    BY <1>6, <1>7, <2>2
  <2>. QED BY <2>1, <2>2
<1>9. Sum5(point) % WordModulus \in Int
  <2>1. WordModulus \in Nat \ {0} /\ Sum5(point) \in Int
    BY <1>1, RegionConstants, SumsTyped
  <2>. QED BY <2>1, Division
<1>10. Points \in Nat /\ point \in Nat /\ point <= Points - 1
  <2>1. Height - 2 \in Nat /\ Width - 2 \in Nat
    BY RegionConstants
  <2>2. Points \in Nat
    BY <2>1 DEF Points
  <2>. QED BY <1>2, <2>2 DEF Outputs
<1>11. status' = (IF final /\ point = Points - 1 THEN "done" ELSE "busy")
       /\ outputValid' = (status' = "done")
       /\ point' = (IF final /\ point < Points - 1 THEN point + 1 ELSE point)
  <2>1. CASE final /\ point = Points - 1
    <3>1. status' = "done" /\ outputValid' = TRUE /\ point' = point
      BY <1>6, <2>1
    <3>2. ~ (point < Points - 1)
      BY <1>10, <2>1
    <3>. QED BY <2>1, <3>1, <3>2, Zenon
  <2>2. CASE ~ (final /\ point = Points - 1)
    <3>1. /\ status' = status /\ outputValid' = outputValid
          /\ point' = (IF final THEN point + 1 ELSE point)
      BY <1>6, <2>2
    <3>2. (final /\ point < Points - 1) <=> final
      BY <1>10, <2>2
    <3>3. "busy" # "done"
      OBVIOUS
    <3>. QED BY <1>1, <1>2, <2>2, <3>1, <3>2, <3>3, Zenon
  <2>. QED BY <2>1, <2>2
<1>12. RegionTypes'
  <2>1. point' \in Outputs
    BY <1>2, <1>10, <1>11 DEF Outputs
  <2>2. output' \in [Outputs -> Int]
    BY <1>2, <1>8, <1>9
  <2>3. useful' \in [loads : Nat, adds : Nat, stores : Nat]
    BY <1>2, <1>6, <1>7
  <2>4. cycle' \in 1 .. 6 /\ clock' \in Nat /\ half' \in {0, 1} /\ reg' \in [Nodes -> Int]
    BY <1>2, <1>4, <1>6
  <2>5. status' \in {"busy", "done"} /\ input' \in [Cells -> Words]
    BY <1>2, <1>6, <1>11
  <2>. QED BY <1>11, <2>1, <2>2, <2>3, <2>4, <2>5 DEF RegionTypes, Outputs, Words
<1>13. Configured'
  BY <1>3, <1>6, <1>11 DEF Configured
<1>14. CountsExact'
  <2>1. WorkDone(5 * point + cycle - 1, 4 * point + (IF cycle = 1 THEN 0 ELSE cycle - 2), point,
               12 * point + 2 * (cycle - 1) + 1)
    BY <1>1 DEF CountsExact
  <2>2. /\ useful.loads = 5 * point + cycle - 1
        /\ useful.adds = 4 * point + (IF cycle = 1 THEN 0 ELSE cycle - 2)
        /\ useful.stores = point /\ clock = 12 * point + 2 * (cycle - 1) + 1
    BY <2>1 DEF WorkDone
  <2>3. CASE ~ final
    BY <1>2, <1>6, <1>7, <1>10, <1>11, <2>2, <2>3 DEF CountsExact, WorkDone
  <2>4. CASE final /\ point < Points - 1
    BY <1>2, <1>6, <1>7, <1>10, <1>11, <2>2, <2>4 DEF CountsExact, WorkDone
  <2>5. CASE final /\ point = Points - 1
    BY <1>2, <1>6, <1>7, <1>10, <1>11, <2>2, <2>5 DEF CountsExact, WorkDone, Points
  <2>. QED BY <1>10, <2>3, <2>4, <2>5
<1>15. Accumulated'
  <2>1. CASE final
    BY <1>6, <2>1 DEF Accumulated
  <2>2. CASE ~ final
    <3>1. point' = point /\ input' = input /\ cycle' = cycle + 1 /\ reg' = r
      BY <1>6, <1>11, <2>2
    <3>2. /\ Center(point)' = Center(point) /\ Sum2(point)' = Sum2(point)
          /\ Sum3(point)' = Sum3(point) /\ Sum4(point)' = Sum4(point)
          /\ Sum5(point)' = Sum5(point)
      BY <3>1 DEF Center, Row, Col, Sum5, Sum4, Sum3, Sum2
    <3>. QED BY <1>2, <1>4, <2>2, <3>1, <3>2 DEF Accumulated, Sums
  <2>. QED BY <2>1, <2>2
<1>16. StoredExact'
  <2>1. SUFFICES ASSUME NEW p \in Outputs, p < point' \/ status' = "done"
                 PROVE output'[p] = static_stencil_oracle(input)[p]
    BY <1>6 DEF StoredExact, Outputs, static_stencil_oracle
  <2>2. CASE p < point
    BY <1>1, <1>2, <1>8, <1>10, <2>2 DEF StoredExact
  <2>3. CASE ~ (p < point)
    <3>1. final /\ p = point
      BY <1>10, <1>11, <2>1, <2>3 DEF Outputs
    <3>. QED BY <1>2, <1>8, <3>1, OracleIsSum
  <2>. QED BY <2>2, <2>3
<1>. QED BY <1>12, <1>13, <1>14, <1>15, <1>16 DEF RegionInv

LEMMA RegionInductive == RegionInv /\ [RegionNext]_rvars => RegionInv'
<1>. SUFFICES ASSUME RegionInv, [RegionNext]_rvars PROVE RegionInv'
  OBVIOUS
<1>1. CASE RegionNext
  BY <1>1, ConfigurationInv, RequestInv, ResponseInv, CancelInv DEF RegionNext
<1>2. CASE UNCHANGED rvars
  BY <1>2 DEF rvars, RegionInv, RegionTypes, Configured, CountsExact, WorkDone, Accumulated, StoredExact,
     static_stencil_oracle, Outputs, Sum5, Sum4, Sum3, Sum2, Center, Row, Col
<1>. QED BY <1>1, <1>2

\* static_region.py, StaticStencilRegion.scala: for a grid of any size, any words
\* and any descriptor that is given, the descriptor that passes the validator
\* makes a run whose valid output is the oracle's, and the counts of loads, adds,
\* stores and cycles are those that simulation_adapter.py states, for a completed
\* run and for one that was cancelled after 17 cycles.
THEOREM RegionsExact == RegionSpec => []RegionExact
<1>1. RegionInv => RegionExact
  <2>. SUFFICES ASSUME RegionInv PROVE RegionExact
    OBVIOUS
  <2>1. /\ RegionTypes /\ CountsExact /\ StoredExact
    BY DEF RegionInv
  <2>2. ASSUME status = "done"
        PROVE  /\ validate_simulation_observation(Observation)
               /\ clock = static_graph_functional_observation.execution_cycles
    <3>1. /\ useful = [loads |-> 5 * Points, adds |-> 4 * Points, stores |-> Points]
          /\ clock = 12 * Points /\ outputValid
      BY <2>1, <2>2 DEF RegionTypes, CountsExact, WorkDone
    <3>2. output = static_stencil_oracle(input)
      <4>1. output \in [Outputs -> Int] /\ \A p \in Outputs : output[p] = static_stencil_oracle(input)[p]
        BY <2>1, <2>2 DEF RegionTypes, StoredExact
      <4>2. DOMAIN static_stencil_oracle(input) = Outputs
            /\ static_stencil_oracle(input) = [p \in Outputs |-> static_stencil_oracle(input)[p]]
        BY DEF static_stencil_oracle, Outputs
      <4>. HIDE DEF Outputs
      <4>. QED BY <4>1, <4>2
    <3>3. /\ Observation.status = "completed" /\ Observation.semantic_valid = TRUE
          /\ Observation.output_private = TRUE /\ Observation.output_words_validated = Points
          /\ Observation.useful = [loads |-> 5 * Points, adds |-> 4 * Points, stores |-> Points]
      BY <2>1, <2>2, <3>1, <3>2 DEF Observation, RegionTypes
    <3>4. 5 * Points \in Int /\ 4 * Points \in Int /\ Points \in Int
      BY RegionConstants DEF Points
    <3>. QED BY <3>1, <3>3, <3>4
         DEF validate_simulation_observation, static_graph_functional_observation
  <2>3. ASSUME status = "cancelled"
        PROVE  /\ validate_simulation_observation(Observation)
               /\ clock = static_graph_cancelled_observation.execution_cycles =>
                    \A op \in DOMAIN useful : useful[op] = static_graph_cancelled_observation[op]
    <3>1. /\ WorkDone(5 * point + cycle - 1, 4 * point + (IF cycle = 1 THEN 0 ELSE cycle - 2), point,
                    12 * point + 2 * (cycle - 1) + half)
          /\ outputValid = FALSE /\ point \in Outputs /\ cycle \in 1 .. 6 /\ half \in {0, 1}
      BY <2>1, <2>3 DEF RegionTypes, CountsExact
    <3>2. Points \in Int /\ point \in Int /\ 0 <= point /\ point + 1 <= Points
      BY <3>1, RegionConstants DEF Points, Outputs
    <3>3. /\ Observation.status = "cancelled" /\ Observation.semantic_valid = FALSE
          /\ Observation.output_private = FALSE /\ Observation.output_words_validated = 0
          /\ Observation.useful = useful
      BY <2>3, <3>1 DEF Observation
    <3>4. /\ useful = [loads |-> 5 * point + cycle - 1,
                       adds |-> 4 * point + (IF cycle = 1 THEN 0 ELSE cycle - 2), stores |-> point]
          /\ clock = 12 * point + 2 * (cycle - 1) + half
      BY <3>1 DEF WorkDone
    <3>5. useful.loads <= 5 * Points /\ useful.adds <= 4 * Points /\ useful.stores <= Points
      BY <3>1, <3>2, <3>4
    <3>6. validate_simulation_observation(Observation)
      BY <3>3, <3>5 DEF validate_simulation_observation, static_graph_functional_observation
    <3>7. ASSUME clock = 17 PROVE useful = [loads |-> 7, adds |-> 5, stores |-> 1]
      <4>1. point = 1 /\ cycle = 3
        BY <3>1, <3>2, <3>4, <3>7
      <4>. QED BY <3>4, <4>1
    <3>. QED BY <3>6, <3>7 DEF static_graph_cancelled_observation
  <2>. QED BY <2>2, <2>3 DEF RegionExact
<1>. QED BY <1>1, RegionInitially, RegionInductive, PTL DEF RegionSpec
=============================================================================
