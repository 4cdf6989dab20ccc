---------------------------- MODULE CampaignRun ----------------------------
(***************************************************************************)
(* The run directories of the T-0044 experiments: collect runs one         *)
(* simulator command per variant, derive parses the logs into a report,    *)
(* seal binds both; a campaign that fails is sealed as failed and may be   *)
(* recovered in a second run that imports the primary logs.  Sources:      *)
(* raveil/t0044_repeated.py and t0044_fixture.py (commissioning),          *)
(* t0044_campaign.py, t0044_campaign_recovery.py.                          *)
(*                                                                         *)
(* A log is [file, sent]: the lines in the file and the lines the          *)
(* simulator wrote.  Docker forwards the difference later, even after the  *)
(* command has returned.  A complete log has Full lines and ends with the  *)
(* terminal marker.                                                        *)
(***************************************************************************)
EXTENDS Naturals, Sequences

CONSTANT Variants      \* the matrix, in the order of collection; the last is diagnostic

ASSUME CampaignConstants ==
  Len(Variants) \in Nat \ {0} /\ DOMAIN Variants = 1 .. Len(Variants)

VARIABLES
  experiment,  \* "commissioning" or "campaign"
  frozen,      \* whether the tracked manifest is the frozen one
  collector,   \* the collector of each run: its stage and variant
  log,         \* the raw log of each variant
  commands,    \* commands.jsonl: exit status and hashed lines
  derived,     \* derived/: none, an empty directory, a torn report, or a report
  seal,        \* raw-seal.json
  failed,      \* failed-raw-seal.json
  pinned       \* the failed seal that the recovery manifest names

cvars == <<experiment, frozen, collector, log, commands, derived, seal, failed, pinned>>

RunDirs == {"first", "recovery"}
Full == 2
Index == DOMAIN Variants
Last == Len(Variants)
None == [kind |-> "none"]
Bytes(r) == [v \in Index |-> log[r][v].file]
Report(bytes) == [kind |-> "report", bytes |-> bytes]
Complete == [v \in Index |-> Full]

CampaignInit ==
  /\ experiment \in {"commissioning", "campaign"}
  /\ frozen = TRUE
  /\ collector = [r \in RunDirs |-> [stage |-> "new", variant |-> 1]]
  /\ log = [r \in RunDirs |-> [v \in Index |-> [file |-> 0, sent |-> 0]]]
  /\ commands = [r \in RunDirs |-> <<>>]
  /\ derived = [r \in RunDirs |-> None]
  /\ seal = [r \in RunDirs |-> None]
  /\ failed = [r \in RunDirs |-> None]
  /\ pinned = None

----------------------------------------------------------------------------
\* Every section of the manifest is compared with the values fixed before data.
load_manifest == frozen

Stage(r, stage) == collector' = [collector EXCEPT ![r].stage = stage]

\* The run directory must not exist and the worktree must be clean.
collect ==
  /\ experiment = "commissioning"
  /\ collector["first"].stage = "new" /\ load_manifest
  /\ Stage("first", "run")
  /\ UNCHANGED <<experiment, frozen, log, commands, derived, seal, failed, pinned>>

\* A campaign also checks its ancestry, the sources changed since and the disk.
collect_campaign ==
  /\ experiment = "campaign"
  /\ collector["first"].stage = "new" /\ load_manifest
  /\ Stage("first", "run")
  /\ UNCHANGED <<experiment, frozen, log, commands, derived, seal, failed, pinned>>

\* The simulator returns with this exit status; its last lines may still be on
\* their way.  A campaign records a failure at once.
Returned(r, exit, sent, file) ==
  /\ log' = [log EXCEPT ![r][collector[r].variant] = [file |-> file, sent |-> sent]]
  /\ IF experiment = "campaign" /\ exit # 0
     THEN /\ commands' = [commands EXCEPT ![r] = Append(@, [exit |-> exit, lines |-> file])]
          /\ Stage(r, "failing")
     ELSE Stage(r, IF exit = 0 THEN "wait" ELSE "wait-failed") /\ UNCHANGED commands

run_command(r) ==
  /\ collector[r].stage = "run"
  /\ \E exit \in {0, 124}, sent \in 0..Full, file \in 0..Full :
       /\ file <= sent /\ (exit = 0 => sent = Full)
       /\ Returned(r, exit, sent, file)
  /\ UNCHANGED <<experiment, frozen, derived, seal, failed, pinned>>

\* Mutant: the log is hashed when the command returns.
Mutant_Drained(r) == TRUE

\* All required markers are in the file, the terminal one included.
Drained(r) == log[r][collector[r].variant].file = Full

\* The command is recorded with the hash of its log; then the next variant.
command_drained(r) ==
  LET v == collector[r].variant IN
  /\ collector[r].stage \in {"wait", "wait-failed"} /\ Drained(r)
  /\ commands' = [commands EXCEPT ![r] =
       Append(@, [exit |-> IF collector[r].stage = "wait" THEN 0 ELSE 124, lines |-> log[r][v].file])]
  /\ collector' = [collector EXCEPT ![r] =
       IF collector[r].stage = "wait-failed" THEN [stage |-> "failing", variant |-> v]
       ELSE IF v = Last THEN [stage |-> "derive", variant |-> v]
       ELSE [stage |-> "run", variant |-> v + 1]]
  /\ UNCHANGED <<experiment, frozen, log, derived, seal, failed, pinned>>

\* The markers did not arrive in time, or the log is too large.
drain_timeout(r) ==
  /\ collector[r].stage \in {"wait", "wait-failed"}
  /\ commands' = IF experiment = "commissioning" THEN commands
                 ELSE [commands EXCEPT ![r] =
                         Append(@, [exit |-> 0, lines |-> log[r][collector[r].variant].file])]
  /\ Stage(r, "failing")
  /\ UNCHANGED <<experiment, frozen, log, derived, seal, failed, pinned>>

\* Parsing accepts complete logs only; see SessionLog.  The directory is made
\* before the logs are read, by the recovery only after.
parse_sessions(r) == Bytes(r) = Complete

derive(r) ==
  IF load_manifest /\ derived[r] = None /\ parse_sessions(r) THEN Report(Bytes(r))
  ELSE IF load_manifest /\ derived[r] = None /\ r = "first" THEN [kind |-> "directory"]
  ELSE derived[r]

Derived(r) == derived[r] = None /\ derive(r).kind = "report"

collect_derive(r) ==
  /\ collector[r].stage = "derive"
  /\ derived' = [derived EXCEPT ![r] = derive(r)]
  /\ Stage(r, IF Derived(r) THEN "seal" ELSE "failing")
  /\ UNCHANGED <<experiment, frozen, log, commands, seal, failed, pinned>>

\* Any report file will do, and a second seal is refused.
CanSeal(r) == derived[r].kind \in {"report", "torn"} /\ seal[r] = None

seal_raw(r) ==
  seal' = [seal EXCEPT ![r] = [kind |-> "seal", bytes |-> Bytes(r), report |-> derived[r]]]

collect_seal(r) ==
  /\ collector[r].stage = "seal" /\ CanSeal(r)
  /\ seal_raw(r) /\ Stage(r, "ended")
  /\ UNCHANGED <<experiment, frozen, log, commands, derived, failed, pinned>>

\* Only campaigns seal what they leave behind when they fail.
_seal_failed_raw(r) ==
  /\ collector[r].stage = "failing"
  /\ failed' = IF experiment = "campaign" /\ seal[r] = None
               THEN [failed EXCEPT ![r] = [kind |-> "failed", bytes |-> Bytes(r)]] ELSE failed
  /\ Stage(r, "ended")
  /\ UNCHANGED <<experiment, frozen, log, commands, derived, seal, pinned>>

\* The collector is killed; a report it was writing is torn.
Crash(r) ==
  /\ collector[r].stage \notin {"new", "ended"}
  /\ derived' \in IF collector[r].stage = "derive" /\ Derived(r)
                  THEN {derived, [derived EXCEPT ![r] = [kind |-> "torn"]]} ELSE {derived}
  /\ Stage(r, "ended")
  /\ UNCHANGED <<experiment, frozen, log, commands, seal, failed, pinned>>

\* The derive and seal subcommands, on a run whose collector has ended.
main_derive(r) ==
  /\ collector[r].stage = "ended"
  /\ derived' = [derived EXCEPT ![r] = derive(r)]
  /\ UNCHANGED <<experiment, frozen, collector, log, commands, seal, failed, pinned>>

main_seal(r) ==
  /\ collector[r].stage = "ended" /\ CanSeal(r)
  /\ seal_raw(r)
  /\ UNCHANGED <<experiment, frozen, collector, log, commands, derived, failed, pinned>>

----------------------------------------------------------------------------
(* Recovery.                                                               *)

\* The failed files are as sealed, and only the diagnostic command failed.
_verify_failed_evidence ==
  /\ failed["first"] = pinned
  /\ Bytes("first") = pinned.bytes
  /\ Len(commands["first"]) = Last
  /\ \A v \in Index : commands["first"][v].exit = IF v = Last THEN 124 ELSE 0

\* The recovery manifest names the failed seal and every primary log.
load_recovery_manifest == load_manifest /\ pinned # None

collect_recovery ==
  /\ collector["recovery"].stage = "new"
  /\ load_recovery_manifest /\ _verify_failed_evidence
  /\ log' = [log EXCEPT !["recovery"] =
               [v \in Index |-> IF v = Last THEN [file |-> 0, sent |-> 0]
                                ELSE [file |-> Bytes("first")[v], sent |-> Bytes("first")[v]]]]
  /\ commands' = [commands EXCEPT !["recovery"] = SubSeq(commands["first"], 1, Last - 1)]
  /\ collector' = [collector EXCEPT !["recovery"] = [stage |-> "run", variant |-> Last]]
  /\ UNCHANGED <<experiment, frozen, derived, seal, failed, pinned>>

\* The recovery manifest is written and committed by hand.
Pin ==
  /\ pinned = None /\ failed["first"] # None
  /\ pinned' = failed["first"]
  /\ UNCHANGED <<experiment, frozen, collector, log, commands, derived, seal, failed>>

Drain(r, v) ==
  /\ log[r][v].file < log[r][v].sent
  /\ log' = [log EXCEPT ![r][v].file = @ + 1]
  /\ UNCHANGED <<experiment, frozen, collector, commands, derived, seal, failed, pinned>>

EditManifest ==
  /\ frozen' = ~frozen
  /\ UNCHANGED <<experiment, collector, log, commands, derived, seal, failed, pinned>>

CampaignNext ==
  \/ collect \/ collect_campaign \/ collect_recovery \/ Pin \/ EditManifest
  \/ \E r \in RunDirs : \/ run_command(r) \/ command_drained(r) \/ drain_timeout(r)
                     \/ collect_derive(r) \/ collect_seal(r) \/ _seal_failed_raw(r)
                     \/ main_derive(r) \/ main_seal(r) \/ Crash(r)
                     \/ \E v \in Index : Drain(r, v)

CampaignSpec == CampaignInit /\ [][CampaignNext]_cvars

----------------------------------------------------------------------------
(* Properties.                                                             *)

\* A collector derives only when every command is recorded with the hash of its
\* complete log, imported ones included; and a sealed report was derived from exactly the
\* bytes that the seal names, that are complete and still there.
EvidenceSound ==
  \A r \in RunDirs :
    /\ collector[r].stage \in {"derive", "seal"} =>
         commands[r] = [v \in Index |-> [exit |-> 0, lines |-> Full]] /\ Bytes(r) = Complete
    /\ (seal[r] # None /\ seal[r].report.kind = "report") =>
         seal[r].bytes = Bytes(r) /\ seal[r].report.bytes = Bytes(r) /\ Bytes(r) = Complete

\* A run sealed as failed is not also sealed as evidence. Not so of the code:
\* derive and seal work on a failed run as well.
OneVerdict == \A r \in RunDirs : failed[r] = None \/ seal[r] = None

\* What a failed seal names stays what is in the directory, so that a recovery
\* can verify it. Not so of the code: the log of a failed command is hashed
\* without waiting for the output that Docker still forwards.
FailedSealStable == \A r \in RunDirs : failed[r] # None => failed[r].bytes = Bytes(r)
============================================================================
