---------------------------- MODULE RepairProofs -----------------------------
(***************************************************************************)
(* Proofs about module Repair, for any number of units and other issues.   *)
(***************************************************************************)
EXTENDS Repair, FiniteSetTheorems, TLAPS

LEMMA CountIsNat ==
  ASSUME CallOK
  PROVE  Cardinality(FailedUnits) \in Nat
<1>1. before.units \subseteq Unit
  BY DEF CallOK, Diagnosis
<1>2. IsFiniteSet(before.units)
  BY <1>1, RepairAssumption, FS_Subset
<1> QED
  BY <1>2, FS_CardinalityType DEF FailedUnits

LEMMA ConcludeResultOK ==
  ASSUME ResultOK, NEW s \in ResetState, NEW m \in Missing, NEW n \in Nat, Conclude(s, m, n)
  PROVE  ResultOK' /\ pc' = "recheck"
<1>1. [state |-> s, missing |-> m] \in Outcome
  BY DEF Outcome
<1> QED
  BY <1>1 DEF Conclude, ResultOK

LEMMA DiagnosisOfMachine ==
  ASSUME MachineOK, NEW answer \in Queried
  PROVE  /\ Diagnose(answer) \in Diagnosis
         /\ Diagnose(answer).units # {} => hasSystemctl /\ Diagnose(answer).units = failedNow
<1>1. answer = "listed" => hasSystemctl
  BY DEF Queried, Answer
<1>2. (answer = "failed") \in BOOLEAN
  OBVIOUS
<1> QED
  BY <1>1, <1>2 DEF Diagnose, Diagnosis, MachineOK

LEMMA InitTypeOK == Init => TypeOK
<1> SUFFICES ASSUME Init PROVE TypeOK
  OBVIOUS
<1>1. NoDiagnosis \in Diagnosis
  BY DEF NoDiagnosis, Diagnosis
<1>2. MachineOK /\ CallOK
  BY <1>1 DEF Init, MachineOK, CallOK, Phase, Resting
<1>3. [state |-> "none", missing |-> "none"] \in Outcome
  BY DEF Outcome, ResetState, Missing
<1>4. ResultOK /\ HistoryOK
  BY <1>3 DEF Init, ResultOK, HistoryOK
<1> QED
  BY <1>2, <1>4 DEF TypeOK

LEMMA StepTypeOK == TypeOK /\ [Next]_vars => TypeOK'
<1> SUFFICES ASSUME MachineOK, CallOK, ResultOK, HistoryOK, [Next]_vars
             PROVE  MachineOK' /\ CallOK' /\ ResultOK' /\ HistoryOK'
  BY DEF TypeOK
<1>1. /\ {"unavailable", "done", "planned", "skipped", "failed"} \subseteq ResetState
      /\ {"none", "systemctl", "confirmation", "root"} \subseteq Missing
      /\ 0 \in Nat
  BY DEF ResetState, Missing
<1>2. CASE FirstDiagnosis
  <2>1. before' \in Diagnosis /\ refused' \in BOOLEAN /\ pc' \in {"clean", "raised"}
    <3>1. CASE pc' = "raised" /\ UNCHANGED <<before, refused>>
      BY <3>1 DEF CallOK, HistoryOK
    <3>2. ASSUME NEW answer \in Queried, pc' = "clean", before' = Diagnose(answer),
                 refused' = (answer = "refused")
          PROVE  before' \in Diagnosis /\ refused' \in BOOLEAN /\ pc' \in {"clean", "raised"}
      BY <3>2, DiagnosisOfMachine
    <3> QED
      BY <1>2, <3>1, <3>2 DEF FirstDiagnosis
  <2>2. MachineOK' /\ ResultOK'
    BY <1>2 DEF FirstDiagnosis, machine, result, MachineOK, ResultOK
  <2>3. CallOK'
    BY <1>2, <2>1 DEF FirstDiagnosis, flags, CallOK, Phase, Resting
  <2>4. HistoryOK'
    BY <1>2, <2>1 DEF FirstDiagnosis, HistoryOK
  <2> QED
    BY <2>2, <2>3, <2>4
<1>3. CASE RunClean
  <2>1. cleaned' \in BOOLEAN /\ pc' \in Phase
    BY <1>3 DEF RunClean, Phase, Resting
  <2>2. MachineOK' /\ ResultOK'
    BY <1>3 DEF RunClean, machine, result, MachineOK, ResultOK
  <2>3. CallOK' /\ HistoryOK'
    BY <1>3, <2>1 DEF RunClean, flags, CallOK, HistoryOK
  <2> QED
    BY <2>2, <2>3
<1>4. CASE BeginReset
  <2>1. ResultOK' /\ pc' \in Phase
    <3>1. CASE Conclude("unavailable", "systemctl", 0)
      BY <1>1, <3>1, ConcludeResultOK DEF Phase
    <3>2. CASE Conclude("done", "none", 0)
      BY <1>1, <3>2, ConcludeResultOK DEF Phase
    <3>3. CASE Conclude("planned", "none", Cardinality(FailedUnits))
      BY <1>1, <3>3, ConcludeResultOK, CountIsNat DEF Phase
    <3>4. CASE pc' = (IF NeedsAnswer THEN "ask" ELSE "root") /\ UNCHANGED result
      BY <3>4 DEF result, ResultOK, Phase
    <3> QED
      BY <1>4, <3>1, <3>2, <3>3, <3>4 DEF BeginReset
  <2> QED
    BY <1>4, <2>1 DEF BeginReset, machine, flags, history, MachineOK, CallOK, HistoryOK
<1>5. CASE Ask
  <2>1. ResultOK' /\ pc' \in Phase
    <3>1. CASE Conclude("skipped", "confirmation", 0)
      BY <1>1, <3>1, ConcludeResultOK DEF Phase
    <3>2. CASE pc' \in {"raised", "root"} /\ UNCHANGED result
      BY <3>2 DEF result, ResultOK, Phase, Resting
    <3> QED
      BY <1>5, <3>1, <3>2 DEF Ask
  <2>2. consented' \in BOOLEAN /\ asked' \in BOOLEAN
    BY <1>5 DEF Ask
  <2> QED
    BY <1>5, <2>1, <2>2 DEF Ask, machine, flags, MachineOK, CallOK, HistoryOK
<1>6. CASE CheckRoot
  <2>1. ResultOK' /\ pc' \in Phase
    <3>1. CASE Conclude("skipped", "root", 0)
      BY <1>1, <3>1, ConcludeResultOK DEF Phase
    <3>2. CASE pc' = "command" /\ UNCHANGED result
      BY <3>2 DEF result, ResultOK, Phase
    <3> QED
      BY <1>6, <3>1, <3>2 DEF CheckRoot
  <2> QED
    BY <1>6, <2>1 DEF CheckRoot, machine, flags, history, MachineOK, CallOK, HistoryOK
<1>7. CASE ResetFailed
  <2>1. PICK code \in {"zero", "nonzero"}, works \in BOOLEAN :
          /\ cleared' = IF works THEN failedNow ELSE {}
          /\ failedNow' = IF works THEN {} ELSE failedNow
          /\ Conclude(ExitState(code), "none",
                      IF code = "zero" THEN Cardinality(FailedUnits) ELSE 0)
    BY <1>7 DEF ResetFailed
  <2>2. ExitState(code) \in ResetState
    BY DEF ExitState, ResetState
  <2>3. (IF code = "zero" THEN Cardinality(FailedUnits) ELSE 0) \in Nat
    BY CountIsNat
  <2>4. ResultOK' /\ pc' = "recheck"
    BY <1>1, <2>1, <2>2, <2>3, ConcludeResultOK
  <2>5. MachineOK' /\ cleared' \in SUBSET Unit
    BY <1>7, <2>1 DEF ResetFailed, MachineOK
  <2> QED
    BY <1>7, <2>4, <2>5 DEF ResetFailed, flags, CallOK, HistoryOK, Phase
<1>8. CASE Recheck
  <2>1. confirmationRequired' \in BOOLEAN /\ advice' \in SUBSET Advices
    BY <1>8 DEF Recheck, Advice, ResultOK
  <2> QED
    BY <1>8, <2>1 DEF Recheck, machine, flags, history, MachineOK, CallOK, ResultOK,
                      HistoryOK, Phase, Resting
<1>9. CASE TroubleChanges
  BY <1>9 DEF TroubleChanges, flags, result, history, MachineOK, CallOK, ResultOK, HistoryOK
<1>10. ASSUME NEW u \in Unit, Fail(u) \/ Recover(u)
       PROVE  MachineOK' /\ CallOK' /\ ResultOK' /\ HistoryOK'
  <2>1. UNCHANGED <<troubleNow, hasSystemctl, root, flags, pc, before, after, result, asked,
                    consented, issued, cleared, cleaned, refused>>
    BY <1>10 DEF Fail, Recover
  <2>2. failedNow' \in SUBSET Unit /\ steady' \in BOOLEAN
    BY <1>10 DEF Fail, Recover, MachineOK, HistoryOK
  <2> QED
    BY <2>1, <2>2 DEF flags, result, MachineOK, CallOK, ResultOK, HistoryOK
<1>11. CASE UNCHANGED vars
  BY <1>11 DEF vars, machine, flags, result, history, MachineOK, CallOK, ResultOK, HistoryOK
<1> QED
  BY <1>2, <1>3, <1>4, <1>5, <1>6, <1>7, <1>8, <1>9, <1>10, <1>11 DEF Next, Program, Others

\* Every variable keeps its type, whatever the machine does meanwhile.
THEOREM TypeCorrect == Spec => []TypeOK
<1> QED
  BY InitTypeOK, StepTypeOK, PTL DEF Spec
------------------------------------------------------------------------------
(***************************************************************************)
(* Consent.  What each place of the program has already established: the   *)
(* early returns of _reset_failed_units, in their order.                   *)
(***************************************************************************)
PlaceInv ==
  /\ before.units # {} => hasSystemctl
  /\ pc \in {"diagnose", "clean", "reset", "ask"} => ~asked
  /\ asked => before.units # {} /\ ~dryRun /\ ~yes
  /\ pc = "ask" => before.units # {} /\ ~dryRun /\ ~yes
  /\ pc \in {"root", "command"} => /\ before.units # {} /\ ~dryRun
                                   /\ yes \/ (asked /\ consented)
  /\ pc = "command" => root
  /\ pc \in Phase \ {"recheck", "returned", "raised"} => ~issued /\ cleared = {}
  /\ pc = "recheck" /\ before.units # {} /\ ~dryRun /\ ~yes => asked
ConsentInv == PlaceInv /\ ConsentBeforeReset /\ ReportedAsAsked

LEMMA ConsentStep == TypeOK /\ ConsentInv /\ [Next]_vars => ConsentInv'
<1> SUFFICES ASSUME TypeOK, PlaceInv, ConsentBeforeReset, ReportedAsAsked, [Next]_vars
             PROVE  PlaceInv' /\ ConsentBeforeReset' /\ ReportedAsAsked'
  BY DEF ConsentInv
<1> USE DEF PlaceInv, ConsentBeforeReset, ReportedAsAsked, Phase, Resting
<1>1. CASE FirstDiagnosis
  <2>1. before'.units # {} => hasSystemctl
    BY <1>1, DiagnosisOfMachine DEF FirstDiagnosis, TypeOK
  <2> QED
    BY <1>1, <2>1 DEF FirstDiagnosis, machine, flags, result
<1>2. CASE RunClean
  BY <1>2 DEF RunClean, machine, flags, result
<1>3. CASE BeginReset
  BY <1>3 DEF BeginReset, Conclude, FailedUnits, StopsHere, NeedsAnswer, machine, flags, history
<1>4. CASE Ask
  BY <1>4 DEF Ask, Accepts, Conclude, machine, flags
<1>5. CASE CheckRoot
  BY <1>5 DEF CheckRoot, Conclude, machine, flags, history
<1>6. CASE ResetFailed
  BY <1>6 DEF ResetFailed, Conclude, flags
<1>7. CASE Recheck
  BY <1>7 DEF Recheck, FailedUnits, machine, flags, history
<1>8. CASE TroubleChanges
  BY <1>8 DEF TroubleChanges, flags, result, history
<1>9. ASSUME NEW u \in Unit, Fail(u) \/ Recover(u)
      PROVE  PlaceInv' /\ ConsentBeforeReset' /\ ReportedAsAsked'
  BY <1>9 DEF Fail, Recover, flags, result
<1>10. CASE UNCHANGED vars
  BY <1>10 DEF vars, machine, flags, result, history
<1> QED
  BY <1>1, <1>2, <1>3, <1>4, <1>5, <1>6, <1>7, <1>8, <1>9, <1>10 DEF Next, Program, Others

LEMMA ConsentHolds == Spec => []ConsentInv
<1>1. Init => ConsentInv
  BY DEF Init, ConsentInv, PlaceInv, ConsentBeforeReset, ReportedAsAsked, NoDiagnosis
<1> QED
  BY <1>1, ConsentStep, TypeCorrect, PTL DEF Spec

\* README.md:134: the sensitive fix waits for an answer or --yes; and it is for
\* root, in an apply, after a diagnosis that listed a failed unit.
THEOREM Consent == Spec => []ConsentBeforeReset
<1>1. ConsentInv => ConsentBeforeReset
  BY DEF ConsentInv
<1> QED
  BY <1>1, ConsentHolds, PTL

\* confirmation_required (repair.py:92) is computed apart from the prompt
\* (repair.py:154): the two agree in every report.
THEOREM AskedAsReported == Spec => []ReportedAsAsked
<1>1. ConsentInv => ReportedAsAsked
  BY DEF ConsentInv
<1> QED
  BY <1>1, ConsentHolds, PTL
------------------------------------------------------------------------------
(***************************************************************************)
(* A machine that holds still: the diagnosis stays true until the reset,   *)
(* and the reset leaves nothing for the re-check to find.                  *)
(***************************************************************************)
ExactReset == /\ cleared = before.units /\ failedNow = {}
              /\ claimed = Cardinality(before.units)

SteadyInv ==
  /\ steady /\ ~issued /\ pc \notin {"diagnose", "raised"} /\ before.units # {} =>
       before.units = failedNow
  /\ steady /\ issued /\ reset.state = "done" => ExactReset
  /\ steady /\ issued /\ reset.state = "done" /\ pc = "returned" => after.units = {}

LEMMA SteadyStep == TypeOK /\ ConsentInv /\ SteadyInv /\ [Next]_vars => SteadyInv'
<1> SUFFICES ASSUME TypeOK, ConsentInv, SteadyInv, [Next]_vars PROVE SteadyInv'
  OBVIOUS
<1> USE DEF SteadyInv, ExactReset
<1>1. CASE FirstDiagnosis
  <2>1. pc' = "clean" /\ before'.units # {} => before'.units = failedNow
    BY <1>1, DiagnosisOfMachine DEF FirstDiagnosis, TypeOK
  <2>2. ~issued /\ UNCHANGED <<failedNow, issued>> /\ pc' \in {"clean", "raised"}
    BY <1>1 DEF FirstDiagnosis, machine, ConsentInv, PlaceInv, Phase
  <2> QED
    BY <2>1, <2>2
<1>2. CASE RunClean
  BY <1>2 DEF RunClean, machine, result, ConsentInv, PlaceInv, Phase
<1>3. CASE BeginReset \/ Ask \/ CheckRoot
  <2>1. ~issued /\ pc \notin {"diagnose", "raised"} /\ UNCHANGED <<failedNow, before, issued, steady>>
    BY <1>3 DEF BeginReset, Ask, CheckRoot, machine, history, ConsentInv, PlaceInv, Phase
  <2> QED
    BY <2>1
<1>4. CASE ResetFailed
  <2>1. /\ ~issued /\ before.units # {} /\ pc = "command"
        /\ issued' /\ UNCHANGED <<before, steady>>
    BY <1>4 DEF ResetFailed, ConsentInv, PlaceInv, Phase
  <2>2. PICK code \in {"zero", "nonzero"}, works \in BOOLEAN :
          /\ code = "zero" => works
          /\ cleared' = IF works THEN failedNow ELSE {}
          /\ failedNow' = IF works THEN {} ELSE failedNow
          /\ Conclude(ExitState(code), "none",
                      IF code = "zero" THEN Cardinality(FailedUnits) ELSE 0)
    BY <1>4 DEF ResetFailed
  <2>3. pc' = "recheck" /\ reset' = [state |-> ExitState(code), missing |-> "none"]
        /\ claimed' = IF code = "zero" THEN Cardinality(FailedUnits) ELSE 0
    BY <2>2 DEF Conclude
  <2>4. CASE code = "zero"
    BY <2>1, <2>2, <2>3, <2>4 DEF FailedUnits
  <2>5. CASE code = "nonzero"
    BY <2>1, <2>3, <2>5 DEF ExitState
  <2> QED
    BY <2>4, <2>5
<1>5. CASE Recheck
  <2>1. /\ UNCHANGED <<failedNow, before, reset, claimed, issued, cleared, steady>>
        /\ pc = "recheck" /\ pc' \in {"raised", "returned"}
    BY <1>5 DEF Recheck, machine, history
  <2>2. steady /\ issued /\ reset.state = "done" /\ pc' = "returned" => after'.units = {}
    <3>1. CASE dryRun
      BY <1>5, <3>1 DEF Recheck, LookAgain, NoDiagnosis
    <3>2. CASE ~dryRun
      BY <1>5, <3>2, DiagnosisOfMachine DEF Recheck, LookAgain, TypeOK
    <3> QED
      BY <3>1, <3>2
  <2> QED
    BY <2>1, <2>2
<1>6. CASE TroubleChanges
  BY <1>6 DEF TroubleChanges, result, history
<1>7. ASSUME NEW u \in Unit, Fail(u) \/ Recover(u) PROVE SteadyInv'
  <2>1. UNCHANGED <<pc, before, after, reset, claimed, issued, cleared>>
        /\ steady' = (steady /\ pc = "diagnose")
    BY <1>7 DEF Fail, Recover, result
  <2>2. pc = "diagnose" => ~issued
    BY DEF ConsentInv, PlaceInv, Phase
  <2> QED
    BY <2>1, <2>2
<1>8. CASE UNCHANGED vars
  BY <1>8 DEF vars, machine, result, history
<1> QED
  BY <1>1, <1>2, <1>3, <1>4, <1>5, <1>6, <1>7, <1>8 DEF Next, Program, Others

\* repair.py:193 "Cleared failed state for N unit(s)." is exact, and the
\* re-check clean of units, when no unit changes state during the call.
THEOREM SteadyReset == Spec => []SteadyResetExact
<1>1. Init => SteadyInv
  BY DEF Init, SteadyInv, NoDiagnosis
<1>2. SteadyInv => SteadyResetExact
  BY DEF SteadyInv, ExactReset, SteadyResetExact
<1> QED
  BY <1>1, <1>2, SteadyStep, ConsentHolds, TypeCorrect, PTL DEF Spec
------------------------------------------------------------------------------
(***************************************************************************)
(* The report and the machine.  There is no outcome before the early       *)
(* return or the command that gives it, and it says which of them did; a   *)
(* diagnosis that was answered stays true while no unit changes; a dry run *)
(* leaves the disk alone.                                                  *)
(***************************************************************************)
Explained == /\ ~issued /\ before.units # {}
             /\ reset.missing = "confirmation" <=> asked /\ ~consented
             /\ reset.missing = "root" <=> ~(asked /\ ~consented)
             /\ reset.missing = "root" => ~root

OutcomeInv ==
  /\ pc \in Phase \ {"recheck", "returned", "raised"} => reset.state = "none"
  /\ reset.state = "done" => hasSystemctl /\ (issued \/ before.units = {})
  /\ reset.state = "skipped" => Explained
  /\ dryRun => ~cleaned
AnsweredInv ==
  /\ steady /\ ~issued /\ pc \notin {"diagnose", "raised"} /\ hasSystemctl /\ ~before.blind /\ ~refused =>
       before.units = failedNow
  /\ steady /\ pc = "returned" /\ ~dryRun /\ failedNow = {} => after.units = {}

LEMMA DiagnosisAnswered ==
  ASSUME NEW answer \in Queried
  PROVE  /\ hasSystemctl /\ ~Diagnose(answer).blind /\ answer # "refused" =>
              Diagnose(answer).units = failedNow
         /\ failedNow = {} => Diagnose(answer).units = {}
BY DEF Diagnose, Queried, Answer

LEMMA OutcomeStep == TypeOK /\ ConsentInv /\ OutcomeInv /\ [Next]_vars => OutcomeInv'
<1> SUFFICES ASSUME TypeOK, PlaceInv, OutcomeInv, [Next]_vars PROVE OutcomeInv'
  BY DEF ConsentInv
<1> USE DEF OutcomeInv, Explained, Phase, Resting
<1>1. CASE FirstDiagnosis
  BY <1>1 DEF FirstDiagnosis, machine, flags, result, PlaceInv
<1>2. CASE RunClean
  BY <1>2 DEF RunClean, machine, flags, result, TypeOK, CallOK
<1>3. CASE BeginReset
  BY <1>3 DEF BeginReset, Conclude, FailedUnits, machine, flags, history, result, PlaceInv
<1>4. CASE Ask
  <2>1. CASE Conclude("skipped", "confirmation", 0)
    BY <1>4, <2>1 DEF Ask, Accepts, Conclude, machine, flags, PlaceInv
  <2>2. CASE UNCHANGED result
    BY <1>4, <2>2 DEF Ask, Conclude, result, machine, flags, PlaceInv
  <2> QED
    BY <1>4, <2>1, <2>2 DEF Ask
<1>5. CASE CheckRoot
  BY <1>5 DEF CheckRoot, Conclude, machine, flags, history, result, PlaceInv
<1>6. CASE ResetFailed
  <2>1. PICK code \in {"zero", "nonzero"} : reset' = [state |-> ExitState(code), missing |-> "none"]
    BY <1>6 DEF ResetFailed, Conclude
  <2>2. ExitState(code) \in {"done", "failed"}
    BY DEF ExitState
  <2>3. pc' = "recheck" /\ issued'
    BY <1>6 DEF ResetFailed, Conclude
  <2>4. hasSystemctl /\ pc = "command"
    BY <1>6 DEF ResetFailed, PlaceInv
  <2> QED
    BY <1>6, <2>1, <2>2, <2>3, <2>4 DEF ResetFailed, flags
<1>7. CASE Recheck
  BY <1>7 DEF Recheck, machine, flags, history
<1>8. CASE TroubleChanges
  BY <1>8 DEF TroubleChanges, flags, result, history
<1>9. ASSUME NEW u \in Unit, Fail(u) \/ Recover(u) PROVE OutcomeInv'
  BY <1>9 DEF Fail, Recover, flags, result
<1>10. CASE UNCHANGED vars
  BY <1>10 DEF vars, machine, flags, result, history
<1> QED
  BY <1>1, <1>2, <1>3, <1>4, <1>5, <1>6, <1>7, <1>8, <1>9, <1>10 DEF Next, Program, Others

LEMMA AnsweredStep == ConsentInv /\ AnsweredInv /\ [Next]_vars => AnsweredInv'
<1> SUFFICES ASSUME PlaceInv, AnsweredInv, [Next]_vars PROVE AnsweredInv'
  BY DEF ConsentInv
<1> USE DEF AnsweredInv
<1>1. CASE FirstDiagnosis
  <2>1. pc' = "clean" /\ hasSystemctl /\ ~before'.blind /\ ~refused' => before'.units = failedNow
    BY <1>1, DiagnosisAnswered DEF FirstDiagnosis
  <2>2. pc' \in {"clean", "raised"} /\ UNCHANGED <<failedNow, hasSystemctl>>
    BY <1>1 DEF FirstDiagnosis, machine
  <2> QED
    BY <2>1, <2>2
<1>2. CASE RunClean
  BY <1>2 DEF RunClean, machine, flags
<1>3. CASE BeginReset \/ Ask \/ CheckRoot
  <2>1. /\ pc' # "returned" /\ pc # "diagnose"
        /\ pc # "raised" /\ UNCHANGED <<failedNow, hasSystemctl, before, issued, steady, refused>>
    BY <1>3 DEF BeginReset, Ask, CheckRoot, Conclude, machine, history
  <2> QED
    BY <2>1
<1>4. CASE ResetFailed
  BY <1>4 DEF ResetFailed, Conclude
<1>5. CASE Recheck
  <2>1. /\ UNCHANGED <<failedNow, hasSystemctl, before, issued, steady, refused, dryRun>>
        /\ pc = "recheck"
    BY <1>5 DEF Recheck, machine, flags, history
  <2>2. pc' = "returned" /\ ~dryRun /\ failedNow = {} => after'.units = {}
    BY <1>5, DiagnosisAnswered DEF Recheck, LookAgain
  <2> QED
    BY <2>1, <2>2
<1>6. CASE TroubleChanges
  BY <1>6 DEF TroubleChanges, flags, history
<1>7. ASSUME NEW u \in Unit, Fail(u) \/ Recover(u) PROVE AnsweredInv'
  <2>1. /\ UNCHANGED <<pc, before, issued, refused, hasSystemctl>>
        /\ steady' = (steady /\ pc = "diagnose")
    BY <1>7 DEF Fail, Recover
  <2> QED
    BY <2>1
<1>8. CASE UNCHANGED vars
  BY <1>8 DEF vars, machine, flags, history
<1> QED
  BY <1>1, <1>2, <1>3, <1>4, <1>5, <1>6, <1>7, <1>8 DEF Next, Program, Others

LEMMA ReportHolds == Spec => [](ConsentInv /\ OutcomeInv /\ AnsweredInv /\ SteadyInv)
<1>1. Init => OutcomeInv /\ AnsweredInv /\ SteadyInv
  BY DEF Init, OutcomeInv, AnsweredInv, SteadyInv, NoDiagnosis
<1> QED
  BY <1>1, OutcomeStep, AnsweredStep, SteadyStep, ConsentHolds, TypeCorrect, PTL DEF Spec

\* A dry run of repair, which still calls clean() and reaches the reset
\* (repair.py:144), neither asks nor changes anything.
THEOREM DryRunIsHarmless == Spec => []DryRunHarmless
<1>1. ConsentInv /\ OutcomeInv => DryRunHarmless
  BY DEF ConsentInv, PlaceInv, ConsentBeforeReset, OutcomeInv, DryRunHarmless
<1> QED
  BY <1>1, ReportHolds, PTL

\* The reason given for a reset that was skipped (repair.py:158 and 169) is the
\* one that stopped it, and nothing was touched.
THEOREM SkippedIsExplained == Spec => []SkippedExplained
<1>1. ConsentInv /\ OutcomeInv => SkippedExplained
  BY DEF ConsentInv, ConsentBeforeReset, OutcomeInv, Explained, SkippedExplained
<1> QED
  BY <1>1, ReportHolds, PTL

\* "done", with or without a command, leaves no failed unit behind, and none in
\* the re-check, when no unit changed and the first diagnosis had its list of
\* failed units: systemctl neither failed nor refused with code 1.
THEOREM DoneIsClean == Spec => []DoneMeansNoneFailed
<1>1. OutcomeInv /\ AnsweredInv /\ SteadyInv => DoneMeansNoneFailed
  BY DEF OutcomeInv, AnsweredInv, SteadyInv, ExactReset, DoneMeansNoneFailed
<1> QED
  BY <1>1, ReportHolds, PTL
==============================================================================
