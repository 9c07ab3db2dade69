-------------------------------- MODULE Repair -------------------------------
(***************************************************************************)
(* src/lxperun/repair.py with the systemd part of doctor.py: one call of   *)
(* `lxperun repair` on a machine whose units fail and recover on their     *)
(* own, also while the call waits for the user's answer.                   *)
(*                                                                         *)
(* Of a diagnosis the model keeps the failed units it lists, the other     *)
(* issues, and whether it says that systemctl could not be queried.        *)
(* clean() is one step: what it may do is module Clean's subject; so is a  *)
(* diagnosis, which may also end in a traceback (module Doctor).           *)
(***************************************************************************)
EXTENDS Naturals, FiniteSets

CONSTANTS Unit,    \* systemd units
          Trouble, \* the other issues a diagnosis may list
          Serious  \* those of them with severity error or critical

ASSUME RepairAssumption == IsFiniteSet(Unit) /\ Serious \subseteq Trouble

VARIABLES
  failedNow, troubleNow,       \* the machine: units in failed state, other trouble
  hasSystemctl, root,          \* which("systemctl"); effective uid is 0
  dryRun, yes,                 \* the flags: not --apply; --yes
  pc,
  before, after,               \* the two diagnoses
  reset, claimed,              \* RepairAction: state and missing; its unit count
  confirmationRequired, advice,
  asked, consented, issued,    \* history: prompt shown, answered y, command run
  cleared, cleaned, steady,    \* units the command cleared; clean() changed the
                               \* disk; no unit changed since the first diagnosis
  refused                      \* systemctl refused the first diagnosis, with code 1

machine == <<failedNow, troubleNow, hasSystemctl, root>>
flags   == <<dryRun, yes>>
result  == <<reset, claimed, confirmationRequired, advice>>
history == <<asked, consented, issued, cleared, cleaned, steady, refused>>
vars == <<machine, flags, pc, before, after, result, history>>

NoDiagnosis == [units |-> {}, others |-> {}, blind |-> FALSE]
Diagnosis == [units : SUBSET Unit, others : SUBSET Trouble, blind : BOOLEAN]
ResetState == {"none", "unavailable", "done", "planned", "skipped", "failed"}
Missing == {"none", "systemctl", "confirmation", "root"}
Outcome == [state : ResetState, missing : Missing]
Advices == {"apply", "confirm", "root", "remaining", "sensitive", "manual", "nothing"}
Answer == {"absent", "listed", "refused", "failed"}
Resting == {"returned", "raised"}
Phase == Resting \cup {"diagnose", "clean", "reset", "ask", "root", "command", "recheck"}

Init ==
  /\ failedNow \in SUBSET Unit /\ troubleNow \in SUBSET Trouble
  /\ hasSystemctl \in BOOLEAN /\ root \in BOOLEAN
  /\ dryRun \in BOOLEAN /\ yes \in BOOLEAN
  /\ pc = "diagnose"
  /\ before = NoDiagnosis /\ after = NoDiagnosis
  /\ reset = [state |-> "none", missing |-> "none"] /\ claimed = 0
  /\ confirmationRequired = FALSE /\ advice = {}
  /\ asked = FALSE /\ consented = FALSE /\ issued = FALSE
  /\ cleared = {} /\ cleaned = FALSE /\ steady = TRUE
  /\ refused = FALSE
------------------------------------------------------------------------------
(* The machine changes by itself. *)

Fail(u) == /\ u \notin failedNow /\ failedNow' = failedNow \cup {u}
           /\ steady' = (steady /\ pc = "diagnose")
           /\ UNCHANGED <<troubleNow, hasSystemctl, root, flags, pc, before, after,
                          result, asked, consented, issued, cleared, cleaned,
                          refused>>

Recover(u) == /\ u \in failedNow /\ failedNow' = failedNow \ {u}
              /\ steady' = (steady /\ pc = "diagnose")
              /\ UNCHANGED <<troubleNow, hasSystemctl, root, flags, pc, before, after,
                             result, asked, consented, issued, cleared, cleaned,
                             refused>>

TroubleChanges == /\ troubleNow' \in SUBSET Trouble /\ troubleNow' # troubleNow
                  /\ UNCHANGED <<failedNow, hasSystemctl, root, flags, pc, before,
                                 after, result, history>>
------------------------------------------------------------------------------
(* diagnose(): without systemctl there is no unit check.  systemctl lists    *)
(* the failed units; or refuses with code 1 and nothing on stdout (it cannot *)
(* reach the bus), which is read as a list with no unit in it; or fails in   *)
(* another way, which leaves one "info" issue.                               *)

Queried == IF hasSystemctl THEN Answer \ {"absent"} ELSE {"absent"}

Diagnose(answer) ==
  [units |-> IF answer = "listed" THEN failedNow ELSE {},
   others |-> troubleNow,
   blind |-> answer = "failed"]

FirstDiagnosis ==
  /\ pc = "diagnose"
  /\ \/ pc' = "raised" /\ UNCHANGED <<before, refused>>
     \/ \E answer \in Queried : /\ pc' = "clean"
                                /\ before' = Diagnose(answer)
                                /\ refused' = (answer = "refused")
  /\ UNCHANGED <<machine, flags, after, result, asked, consented, issued, cleared,
                 cleaned, steady>>

\* clean(older_than_days, dry_run): only an apply can change the disk, and a
\* traceback in it ends repair.
RunClean ==
  /\ pc = "clean" /\ pc' \in {"reset", "raised"}
  /\ cleaned' \in {FALSE, ~dryRun}
  /\ UNCHANGED <<machine, flags, before, after, result, asked, consented, issued,
                 cleared, steady, refused>>

\* _failed_units_from_issues and the sensitive half of _classify_issues.
FailedUnitsOne == IF before.units = {} THEN {} ELSE {CHOOSE u \in before.units : TRUE}  \* faulty
FailedUnits == before.units

\* _reset_failed_units returns an action; repair() goes on to the re-check.
Conclude(state, missing, count) ==
  /\ reset' = [state |-> state, missing |-> missing]
  /\ claimed' = count
  /\ pc' = "recheck"
  /\ UNCHANGED <<confirmationRequired, advice>>

DryUnlessYes == dryRun /\ ~yes    \* a faulty variant: --yes counts as --apply
StopsHere == dryRun
AskNever  == FALSE                \* a faulty variant: no confirmation
AskAlways == TRUE                 \* a faulty variant: --yes is ignored
NeedsAnswer == ~yes

BeginReset ==
  /\ pc = "reset"
  /\ \/ ~hasSystemctl /\ Conclude("unavailable", "systemctl", 0)
     \/ hasSystemctl /\ FailedUnits = {} /\ Conclude("done", "none", 0)
     \/ /\ hasSystemctl /\ FailedUnits # {} /\ StopsHere
        /\ Conclude("planned", "none", Cardinality(FailedUnits))
     \/ /\ hasSystemctl /\ FailedUnits # {} /\ ~StopsHere
        /\ pc' = IF NeedsAnswer THEN "ask" ELSE "root"
        /\ UNCHANGED result
  /\ UNCHANGED <<machine, flags, before, after, history>>

\* input() answers y or yes, or anything else, or ends: EOFError and
\* KeyboardInterrupt are not caught.
AcceptsAny(answer) == answer # "end"      \* a faulty variant: Enter means yes
Accepts(answer) == answer = "y"

Ask ==
  /\ pc = "ask" /\ asked' = TRUE
  /\ \E answer \in {"y", "n", "end"} :
       /\ consented' = (answer = "y")
       /\ \/ answer = "end" /\ pc' = "raised" /\ UNCHANGED result
          \/ Accepts(answer) /\ pc' = "root" /\ UNCHANGED result
          \/ answer # "end" /\ ~Accepts(answer) /\ Conclude("skipped", "confirmation", 0)
  /\ UNCHANGED <<machine, flags, before, after, issued, cleared, cleaned, steady,
                 refused>>

CheckRoot ==
  /\ pc = "root"
  /\ \/ ~root /\ Conclude("skipped", "root", 0)
     \/ root /\ pc' = "command" /\ UNCHANGED result
  /\ UNCHANGED <<machine, flags, before, after, history>>

ExitStateRaw(code) == IF code = "zero" THEN "done" ELSE code   \* a faulty variant
ExitState(code) == IF code = "zero" THEN "done" ELSE "failed"

\* `systemctl reset-failed` names no unit: it clears every failed unit there is.
\* A non-zero code covers the time-out, after which it may still have worked.
ResetFailed ==
  /\ pc = "command" /\ issued' = TRUE
  /\ \E code \in {"zero", "nonzero"}, works \in BOOLEAN :
       /\ code = "zero" => works
       /\ cleared' = IF works THEN failedNow ELSE {}
       /\ failedNow' = IF works THEN {} ELSE failedNow
       /\ Conclude(ExitState(code), "none",
                   IF code = "zero" THEN Cardinality(FailedUnits) ELSE 0)
  /\ UNCHANGED <<troubleNow, hasSystemctl, root, flags, before, after, asked,
                 consented, cleaned, steady, refused>>

\* issues_after, confirmation_required, _recommendations and the report.
Advice(again) ==
  {a \in Advices :
     \/ a = "apply" /\ dryRun
     \/ a = "confirm" /\ FailedUnits # {} /\ ~dryRun /\ ~yes
     \/ a = "root" /\ reset.state = "skipped"
     \/ a = "remaining" /\ ~dryRun /\ (again.units # {} \/ again.others # {} \/ again.blind)
     \/ a = "sensitive" /\ FailedUnits # {}
     \/ a = "manual" /\ before.others \cap Serious # {}
     \/ a = "nothing" /\ before = NoDiagnosis}

LookAgainNever(d) == d = IF dryRun THEN NoDiagnosis ELSE before   \* faulty: no second look
LookAgain(d) == IF dryRun THEN d = NoDiagnosis
                ELSE \E answer \in Queried : d = Diagnose(answer)

Recheck ==
  /\ pc = "recheck"
  /\ \/ ~dryRun /\ pc' = "raised" /\ UNCHANGED <<after, confirmationRequired, advice>>
     \/ /\ pc' = "returned"
        /\ after' \in Diagnosis
        /\ LookAgain(after')
        /\ confirmationRequired' = (FailedUnits # {} /\ ~dryRun /\ ~yes)
        /\ advice' = Advice(after')
  /\ UNCHANGED <<machine, flags, before, reset, claimed, history>>
------------------------------------------------------------------------------
Others == TroubleChanges \/ \E u \in Unit : Fail(u) \/ Recover(u)
Program == \/ FirstDiagnosis \/ RunClean \/ BeginReset \/ CheckRoot
           \/ ResetFailed \/ Recheck
Next == Program \/ Ask \/ Others

\* The program runs; the user may leave the prompt unanswered for ever.
Spec == Init /\ [][Next]_vars /\ WF_vars(Program)
------------------------------------------------------------------------------
MachineOK ==
  /\ failedNow \in SUBSET Unit /\ troubleNow \in SUBSET Trouble
  /\ hasSystemctl \in BOOLEAN /\ root \in BOOLEAN
CallOK ==
  /\ dryRun \in BOOLEAN /\ yes \in BOOLEAN /\ pc \in Phase
  /\ before \in Diagnosis /\ after \in Diagnosis
ResultOK ==
  /\ reset \in Outcome /\ claimed \in Nat
  /\ confirmationRequired \in BOOLEAN /\ advice \in SUBSET Advices
HistoryOK ==
  /\ asked \in BOOLEAN /\ consented \in BOOLEAN /\ issued \in BOOLEAN
  /\ cleared \in SUBSET Unit /\ cleaned \in BOOLEAN /\ steady \in BOOLEAN
  /\ refused \in BOOLEAN

TypeOK == MachineOK /\ CallOK /\ ResultOK /\ HistoryOK

\* The sensitive command runs only in an apply, as root, for units a diagnosis
\* listed, and with --yes or a "y" at the prompt; and nothing is cleared
\* without it.
ConsentBeforeReset ==
  /\ issued => /\ ~dryRun /\ root /\ before.units # {}
               /\ yes \/ (asked /\ consented)
  /\ cleared # {} => issued

\* A dry run neither asks nor changes the machine, and claims nothing done to
\* units it listed.
DryRunHarmless ==
  dryRun => /\ ~asked /\ ~issued /\ ~cleaned /\ cleared = {}
            /\ reset.state = "done" => before.units = {}

\* When no unit changes state between the first diagnosis and the report, a
\* reset reported as done cleared exactly the units the diagnosis listed, the
\* count in its message is theirs, and the re-check finds none of them.
SteadyResetExact ==
  pc = "returned" /\ steady /\ issued /\ reset.state = "done" =>
    /\ cleared = before.units
    /\ claimed = Cardinality(cleared)
    /\ after.units = {}

\* A reset reported as done, with a command or without one, leaves no failed
\* unit behind, and the re-check of the same report lists none; unless units
\* changed meanwhile, or the first diagnosis has no list of them: it says so
\* itself (blind), or systemctl refused with code 1, which the code
\* takes for an empty list (see SilenceMeansAnswered of module Doctor).
DoneMeansNoneFailed ==
  pc = "returned" /\ ~dryRun /\ steady /\ ~before.blind /\ ~refused
    /\ reset.state = "done" => after.units = {} /\ failedNow = {}

\* A skipped reset touched nothing and gives the reason that stopped it.
SkippedExplained ==
  pc = "returned" /\ reset.state = "skipped" =>
    /\ cleared = {} /\ ~issued /\ before.units # {}
    /\ reset.missing = "confirmation" <=> asked /\ ~consented
    /\ reset.missing = "root" <=> ~(asked /\ ~consented)
    /\ reset.missing = "root" => ~root

\* repair() and _reset_failed_units decide separately whether confirmation was
\* needed: the report says so exactly when the user was asked.
ReportedAsAsked == pc = "returned" => (confirmationRequired <=> asked)

\* Only the prompt can hold a repair up, before it is asked and after it is
\* answered alike; and with --yes or in a dry run nothing does: each command it
\* runs has a time-out.
RepairEnds ==
  /\ pc # "ask" ~> pc \in Resting \cup {"ask"}
  /\ yes \/ dryRun => <>(pc \in Resting)

\* README.md:130: repair "re-checks the system to show what changed".  So a
\* failure it cleared shows in the diagnosis before or in the one after.
EveryClearedFailureShown ==
  pc = "returned" => cleared \subseteq before.units \cup after.units
==============================================================================
