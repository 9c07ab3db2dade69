----------------------------- MODULE CleanProofs -----------------------------
(***************************************************************************)
(* Proofs about module Clean, for every set of files, sizes and machines,  *)
(* every threshold, and every bound of the clock and of the environment.   *)
(***************************************************************************)
EXTENDS Clean, DataLemmas, TLAPS

(***************************************************************************)
(* Types, one part of TypeOK at a time.                                    *)
(***************************************************************************)
LEMMA InitTypeOK == Init => TypeOK
<1> SUFFICES ASSUME Init PROVE TypeOK
  OBVIOUS
<1>1. fs \in [File -> Entry]
  <2>1. {0} \subseteq 0..MaxNow
    BY CleanAssumption
  <2>2. [kind : {"file", "other"}, mtime : {0}, size : Size] \cup {NoFile} \subseteq Entry
    BY <2>1 DEF Entry, NoFile
  <2> QED
    BY <2>2 DEF Init
<1>2. tools \in SUBSET Tool
  BY CleanAssumption DEF Init, Tool
<1>3. DiskOK
  BY <1>1, <1>2 DEF Init, DiskOK
<1>4. LocalsOK
  BY DEF Init, LocalsOK, Phase, Resting
<1>5. ReportOK
  BY DEF Init, ReportOK, State, Part
<1>6. HistoryOK
  BY DEF Init, HistoryOK, NoPlan, Plan
<1> QED
  BY <1>3, <1>4, <1>5, <1>6 DEF TypeOK

\* What can be said of an entry of the directory.
LEMMA EntryFacts ==
  ASSUME DiskOK, NEW f \in File
  PROVE  fs[f] \in Entry /\ fs[f].size \in Nat /\ fs[f].mtime \in Nat
<1>1. fs[f] \in Entry
  BY DEF DiskOK
<1>2. CASE fs[f] = NoFile
  BY <1>1, <1>2 DEF NoFile
<1>3. CASE fs[f] \in [kind : {"file", "other"}, mtime : 0..MaxNow, size : Size]
  <2>1. fs[f].mtime \in 0..MaxNow /\ fs[f].size \in Size
    BY <1>3
  <2>2. 0..MaxNow \subseteq Nat /\ Size \subseteq Nat
    BY CleanAssumption
  <2> QED
    BY <1>1, <2>1, <2>2
<1> QED
  BY <1>1, <1>2, <1>3 DEF Entry

\* The two ways a CleanAction is recorded keep the report's type.
LEMMA ConcludeReportOK ==
  ASSUME ReportOK, NEW s \in State, NEW b \in Nat, Conclude(s, b)
  PROVE  ReportOK'
<1>1. report' \in [Part -> State]
  BY DEF Conclude, ReportOK
<1>2. total' \in Nat /\ advice' = advice
  BY DEF Conclude, ReportOK
<1> QED
  BY <1>1, <1>2 DEF ReportOK

LEMMA RecordReportOK ==
  ASSUME ReportOK, NEW part, NEW s \in State, NEW next, Report(part, s, next)
  PROVE  ReportOK'
<1>1. report' \in [Part -> State]
  BY DEF Report, ReportOK
<1>2. UNCHANGED <<total, advice>>
  BY DEF Report
<1> QED
  BY <1>1, <1>2 DEF ReportOK

LEMMA RunReportOK ==
  ASSUME ReportOK, NEW part, NEW tool, NEW next, Run(part, tool, next)
  PROVE  ReportOK'
<1>1. PICK code \in {"zero", "nonzero"} : Report(part, ExitState(code), next)
  BY DEF Run
<1>2. ExitState(code) \in State
  BY DEF ExitState, State
<1> QED
  BY <1>1, <1>2, RecordReportOK

LEMMA StepTypeOK == TypeOK /\ [Next]_vars => TypeOK'
<1> SUFFICES ASSUME DiskOK, LocalsOK, ReportOK, HistoryOK, [Next]_vars
             PROVE  DiskOK' /\ LocalsOK' /\ ReportOK' /\ HistoryOK'
  BY DEF TypeOK
<1>1. CASE Call
  <2>1. DiskOK'
    BY <1>1 DEF Call, envVars, DiskOK
  <2>2. LocalsOK'
    BY <1>1 DEF Call, fileVars, LocalsOK, Phase, Resting
  <2>3. ReportOK'
    BY <1>1 DEF Call, reportVars, LocalsOK, ReportOK, Part, State
  <2>4. HistoryOK'
    BY <1>1 DEF Call, histVars, HistoryOK
  <2> QED
    BY <2>1, <2>2, <2>3, <2>4
<1>2. CASE CheckDir
  <2>1. DiskOK'
    BY <1>2 DEF CheckDir, Conclude, envVars, DiskOK
  <2>2. LocalsOK'
    BY <1>2 DEF CheckDir, Conclude, fileVars, LocalsOK, Phase, Resting
  <2>3. ReportOK'
    <3>1. {"unavailable", "done", "planned", "skipped", "failed"} \subseteq State /\ 0 \in Nat
      BY DEF State
    <3>2. CASE Conclude("unavailable", 0)
      BY <3>1, <3>2, ConcludeReportOK
    <3>3. CASE UNCHANGED reportVars
      BY <3>3 DEF reportVars, ReportOK
    <3> QED
      BY <1>2, <3>2, <3>3 DEF CheckDir
  <2>4. HistoryOK'
    BY <1>2 DEF CheckDir, Conclude, histVars, HistoryOK
  <2> QED
    BY <2>1, <2>2, <2>3, <2>4
<1>3. CASE ListDir
  <2>1. DiskOK'
    BY <1>3 DEF ListDir, envVars, DiskOK
  <2>2. LocalsOK'
    <3>1. cutoff' \in Int
      <4>1. now \in Int /\ OlderThan \in Int
        BY CleanAssumption DEF DiskOK
      <4> QED
        BY <1>3, <4>1 DEF ListDir, LocalsOK
    <3> QED
      BY <1>3, <3>1 DEF ListDir, LocalsOK, Phase, Resting
  <2>3. ReportOK'
    BY <1>3 DEF ListDir, reportVars, LocalsOK, ReportOK, Part, State
  <2>4. HistoryOK'
    BY <1>3 DEF ListDir, histVars, HistoryOK
  <2> QED
    BY <2>1, <2>2, <2>3, <2>4
<1>4. CASE EndScan
  <2>1. DiskOK'
    BY <1>4 DEF EndScan, Conclude, envVars, DiskOK
  <2>2. LocalsOK'
    BY <1>4 DEF EndScan, Conclude, fileVars, LocalsOK, Phase, Resting
  <2>3. ReportOK'
    <3>1. {"unavailable", "done", "planned", "skipped", "failed"} \subseteq State /\ 0 \in Nat
      BY DEF State
    <3>2. CASE Conclude("done", 0)
      BY <3>1, <3>2, ConcludeReportOK
    <3>3. CASE UNCHANGED reportVars
      BY <3>3 DEF reportVars, ReportOK
    <3> QED
      BY <1>4, <3>2, <3>3 DEF EndScan
  <2>4. HistoryOK'
    BY <1>4 DEF EndScan, Conclude, histVars, HistoryOK
  <2> QED
    BY <2>1, <2>2, <2>3, <2>4
<1>5. CASE Decide
  <2>1. DiskOK'
    BY <1>5 DEF Decide, Conclude, MayDelete, Victims, envVars, DiskOK
  <2>2. LocalsOK'
    BY <1>5 DEF Decide, Conclude, MayDelete, Victims, fileVars, LocalsOK, Phase, Resting
  <2>3. ReportOK'
    <3>1. {"unavailable", "done", "planned", "skipped", "failed"} \subseteq State /\ 0 \in Nat
      BY DEF State
    <3>2. CASE Conclude("planned", reclaimed)
      BY <3>1, <3>2, ConcludeReportOK DEF LocalsOK
    <3>3. CASE Conclude("skipped", 0)
      BY <3>1, <3>3, ConcludeReportOK
    <3>4. CASE UNCHANGED reportVars
      BY <3>4 DEF reportVars, ReportOK
    <3> QED
      BY <1>5, <3>2, <3>3, <3>4 DEF Decide
  <2>4. HistoryOK'
    BY <1>5 DEF Decide, Conclude, MayDelete, Victims, histVars, HistoryOK
  <2> QED
    BY <2>1, <2>2, <2>3, <2>4
<1>6. CASE EndDelete
  <2>1. DiskOK'
    BY <1>6 DEF EndDelete, Conclude, Verdict, envVars, DiskOK
  <2>2. LocalsOK'
    BY <1>6 DEF EndDelete, Conclude, Verdict, fileVars, LocalsOK, Phase, Resting
  <2>3. ReportOK'
    <3>1. Conclude(Verdict, deletedBytes)
      BY <1>6 DEF EndDelete
    <3>2. Verdict \in State /\ deletedBytes \in Nat
      BY DEF Verdict, State, LocalsOK
    <3> QED
      BY <3>1, <3>2, ConcludeReportOK
  <2>4. HistoryOK'
    BY <1>6 DEF EndDelete, Conclude, Verdict, histVars, HistoryOK
  <2> QED
    BY <2>1, <2>2, <2>3, <2>4
<1>7. CASE CleanFlatpak
  <2>1. DiskOK'
    BY <1>7 DEF CleanFlatpak, Report, Run, ExitState, envVars, DiskOK
  <2>2. LocalsOK'
    BY <1>7 DEF CleanFlatpak, Report, Run, ExitState, fileVars, LocalsOK, Phase, Resting
  <2>3. ReportOK'
    <3>1. {"unavailable", "done", "planned", "skipped", "failed"} \subseteq State /\ 0 \in Nat
      BY DEF State
    <3>2. CASE Report("flatpak", "unavailable", "package")
      BY <3>1, <3>2, RecordReportOK
    <3>3. CASE Report("flatpak", "planned", "package")
      BY <3>1, <3>3, RecordReportOK
    <3>4. CASE Run("flatpak", "flatpak", "package")
      BY <3>4, RunReportOK
    <3> QED
      BY <1>7, <3>2, <3>3, <3>4 DEF CleanFlatpak
  <2>4. HistoryOK'
    BY <1>7 DEF CleanFlatpak, Report, Run, ExitState, histVars, HistoryOK, DiskOK, Tool
  <2> QED
    BY <2>1, <2>2, <2>3, <2>4
<1>8. CASE CleanPackageCache
  <2>1. DiskOK'
    BY <1>8 DEF CleanPackageCache, FirstManager, Report, Run, ExitState, envVars, DiskOK
  <2>2. LocalsOK'
    BY <1>8 DEF CleanPackageCache, FirstManager, Report, Run, ExitState, fileVars, LocalsOK, Phase, Resting
  <2>3. ReportOK'
    <3>1. {"unavailable", "done", "planned", "skipped", "failed"} \subseteq State /\ 0 \in Nat
      BY DEF State
    <3>2. CASE Report("package-cache", "unavailable", "return")
      BY <3>1, <3>2, RecordReportOK
    <3>3. CASE Report("package-cache", "planned", "return")
      BY <3>1, <3>3, RecordReportOK
    <3>4. CASE Report("package-cache", "skipped", "return")
      BY <3>1, <3>4, RecordReportOK
    <3>5. ASSUME NEW tool \in tools, Run("package-cache", tool, "return") PROVE ReportOK'
      BY <3>5, RunReportOK
    <3> QED
      BY <1>8, <3>2, <3>3, <3>4, <3>5 DEF CleanPackageCache
  <2>4. HistoryOK'
    BY <1>8 DEF CleanPackageCache, FirstManager, Report, Run, ExitState, histVars, HistoryOK, DiskOK, Tool
  <2> QED
    BY <2>1, <2>2, <2>3, <2>4
<1>9. CASE Return
  <2>1. DiskOK'
    BY <1>9 DEF Return, envVars, DiskOK
  <2>2. LocalsOK'
    BY <1>9 DEF Return, fileVars, LocalsOK, Phase, Resting
  <2>3. ReportOK'
    BY <1>9 DEF Return, reportVars, LocalsOK, ReportOK, Part, State
  <2>4. HistoryOK'
    BY <1>9 DEF Return, histVars, HistoryOK, ReportOK, LocalsOK, NoPlan, Plan
  <2> QED
    BY <2>1, <2>2, <2>3, <2>4
<1>10. ASSUME NEW f \in File, Scan(f)
      PROVE  DiskOK' /\ LocalsOK' /\ ReportOK' /\ HistoryOK'
  <2>1. DiskOK'
    BY <1>10 DEF Scan, envVars, DiskOK
  <2>2. LocalsOK'
    BY <1>10 DEF Scan, fileVars, LocalsOK, Phase, Resting
  <2>3. ReportOK'
    BY <1>10 DEF Scan, reportVars, LocalsOK, ReportOK, Part, State
  <2>4. HistoryOK'
    BY <1>10 DEF Scan, histVars, HistoryOK
  <2> QED
    BY <2>1, <2>2, <2>3, <2>4
<1>11. ASSUME NEW f \in File, Measure(f)
      PROVE  DiskOK' /\ LocalsOK' /\ ReportOK' /\ HistoryOK'
  <2>1. DiskOK'
    BY <1>11 DEF Measure, Passed, envVars, DiskOK
  <2>2. LocalsOK'
    BY <1>11 DEF Measure, Passed, fileVars, LocalsOK, Phase, Resting
  <2>3. ReportOK'
    BY <1>11 DEF Measure, Passed, reportVars, LocalsOK, ReportOK, Part, State
  <2>4. HistoryOK'
    BY <1>11 DEF Measure, Passed, histVars, HistoryOK
  <2> QED
    BY <2>1, <2>2, <2>3, <2>4
<1>12. ASSUME NEW f \in File, SizeOf(f)
      PROVE  DiskOK' /\ LocalsOK' /\ ReportOK' /\ HistoryOK'
  <2>1. DiskOK'
    BY <1>12 DEF SizeOf, envVars, DiskOK
  <2>2. LocalsOK'
    BY <1>12, EntryFacts DEF SizeOf, fileVars, LocalsOK, Phase, Resting
  <2>3. ReportOK'
    BY <1>12 DEF SizeOf, reportVars, LocalsOK, ReportOK, Part, State
  <2>4. HistoryOK'
    BY <1>12 DEF SizeOf, histVars, HistoryOK
  <2> QED
    BY <2>1, <2>2, <2>3, <2>4
<1>13. ASSUME NEW f \in File, StatVictim(f)
      PROVE  DiskOK' /\ LocalsOK' /\ ReportOK' /\ HistoryOK'
  <2>1. DiskOK'
    BY <1>13 DEF StatVictim, envVars, DiskOK
  <2>2. LocalsOK'
    BY <1>13, EntryFacts DEF StatVictim, fileVars, LocalsOK, Phase, Resting
  <2>3. ReportOK'
    BY <1>13 DEF StatVictim, reportVars, LocalsOK, ReportOK, Part, State
  <2>4. HistoryOK'
    BY <1>13 DEF StatVictim, histVars, HistoryOK
  <2> QED
    BY <2>1, <2>2, <2>3, <2>4
<1>14. ASSUME NEW f \in File, Unlink(f)
      PROVE  DiskOK' /\ LocalsOK' /\ ReportOK' /\ HistoryOK'
  <2>1. DiskOK'
    BY <1>14, EntryFacts DEF Unlink, Count, UnlinkWorks, envVars, DiskOK, Entry
  <2>2. LocalsOK'
    BY <1>14 DEF Unlink, Count, UnlinkWorks, fileVars, LocalsOK, Phase, Resting
  <2>3. ReportOK'
    BY <1>14 DEF Unlink, Count, UnlinkWorks, reportVars, LocalsOK, ReportOK, Part, State
  <2>4. HistoryOK'
    BY <1>14, EntryFacts DEF Unlink, Count, UnlinkWorks, histVars, HistoryOK
  <2> QED
    BY <2>1, <2>2, <2>3, <2>4
<1>15. ASSUME NEW f \in File, Arrive(f) \/ Vanish(f)
       PROVE  DiskOK' /\ LocalsOK' /\ ReportOK' /\ HistoryOK'
  <2>1. PICK file \in Entry : Disturb(f, file)
    <3>1. CASE Vanish(f)
      BY <3>1 DEF Vanish, Entry
    <3>2. CASE Arrive(f)
      <4>1. PICK s \in Size : Disturb(f, [kind |-> "file", mtime |-> now, size |-> s])
        BY <3>2 DEF Arrive
      <4>2. [kind |-> "file", mtime |-> now, size |-> s] \in Entry
        BY DEF Entry, DiskOK
      <4> QED
        BY <4>1, <4>2
    <3> QED
      BY <1>15, <3>1, <3>2
  <2>2. DiskOK'
    BY <2>1 DEF Disturb, DiskOK
  <2>3. LocalsOK' /\ ReportOK'
    BY <2>1 DEF Disturb, fileVars, reportVars, LocalsOK, ReportOK
  <2>4. HistoryOK'
    <3>1. plan' \in Plan
      <4>1. plan' = NoPlan
        BY <2>1 DEF Disturb
      <4>2. NoPlan \in Plan
        BY DEF NoPlan, Plan
      <4> QED
        BY <4>1, <4>2
    <3>2. changes' \in Nat
      BY <2>1 DEF Disturb, HistoryOK
    <3>3. quiet' = FALSE /\ UNCHANGED <<calls, unlinked, freed, ran>>
      BY <2>1 DEF Disturb
    <3> QED
      BY <3>1, <3>2, <3>3 DEF HistoryOK
  <2> QED
    BY <2>2, <2>3, <2>4
<1>16. CASE Tick
  <2>1. DiskOK'
    BY <1>16, CleanAssumption DEF Tick, DiskOK
  <2>2. LocalsOK' /\ ReportOK' /\ HistoryOK'
    BY <1>16 DEF Tick, fileVars, reportVars, histVars, LocalsOK, ReportOK, HistoryOK
  <2> QED
    BY <2>1, <2>2
<1>17. CASE UNCHANGED vars
  BY <1>17 DEF vars, envVars, fileVars, reportVars, histVars, DiskOK, LocalsOK, ReportOK, HistoryOK
<1> QED
  BY <1>1, <1>2, <1>3, <1>4, <1>5, <1>6, <1>7, <1>8, <1>9, <1>10, <1>11, <1>12,
     <1>13, <1>14, <1>15, <1>16, <1>17 DEF Next, CleanStep, Others

\* Every variable keeps its type, whatever the environment does.
THEOREM TypeCorrect == Spec => []TypeOK
<1>1. Init => TypeOK
  BY InitTypeOK
<1>2. TypeOK /\ [Next]_vars => TypeOK'
  BY StepTypeOK
<1> QED
  BY <1>1, <1>2, PTL DEF Spec
------------------------------------------------------------------------------
(***************************************************************************)
(* Only an apply by root acts: what has to hold besides, while the loop is *)
(* running, is that the two early returns before it were passed.           *)
(***************************************************************************)
ArmedInv == OnlyArmedCallsAct /\ (pc \in {"delete", "unlink"} => MayDelete)

LEMMA ArmedStep == TypeOK /\ ArmedInv /\ [Next]_vars => ArmedInv'
<1> SUFFICES ASSUME TypeOK, ArmedInv, [Next]_vars PROVE ArmedInv'
  OBVIOUS
<1> USE DEF ArmedInv, OnlyArmedCallsAct, MayDelete
<1>1. CASE Call
  BY <1>1 DEF Call, envVars
<1>2. CASE CheckDir
  BY <1>2 DEF CheckDir, Conclude, envVars, histVars
<1>3. CASE ListDir
  BY <1>3 DEF ListDir, envVars, histVars
<1>4. CASE EndScan
  BY <1>4 DEF EndScan, Conclude, envVars, histVars
<1>5. CASE Decide
  BY <1>5 DEF Decide, Conclude, envVars, histVars
<1>6. CASE EndDelete
  BY <1>6 DEF EndDelete, Conclude, envVars, histVars
<1>7. CASE CleanFlatpak
  <2>1. UNCHANGED <<dryRun, root, unlinked, freed>> /\ pc' = "package"
    BY <1>7 DEF CleanFlatpak, Report, Run, envVars
  <2>2. ran' = ran \/ (~dryRun /\ ran' = ran \cup {"flatpak"})
    BY <1>7 DEF CleanFlatpak, Run
  <2> QED
    BY <2>1, <2>2 DEF Manager
<1>8. CASE CleanPackageCache
  <2>1. UNCHANGED <<dryRun, root, unlinked, freed>> /\ pc' = "return"
    BY <1>8 DEF CleanPackageCache, Report, Run, envVars
  <2>2. ran' = ran \/ (~dryRun /\ root)
    BY <1>8 DEF CleanPackageCache, Run
  <2> QED
    BY <2>1, <2>2
<1>9. CASE Return
  BY <1>9 DEF Return, envVars
<1>10. ASSUME NEW f \in File, Scan(f) \/ Measure(f) \/ SizeOf(f) \/ StatVictim(f)
       PROVE  ArmedInv'
  BY <1>10 DEF Scan, Measure, SizeOf, StatVictim, envVars, histVars
<1>11. ASSUME NEW f \in File, Unlink(f) PROVE ArmedInv'
  BY <1>11 DEF Unlink
<1>12. ASSUME NEW f \in File, Arrive(f) \/ Vanish(f) PROVE ArmedInv'
  BY <1>12 DEF Arrive, Vanish, Disturb
<1>13. CASE Tick
  BY <1>13 DEF Tick, histVars
<1>14. CASE UNCHANGED vars
  BY <1>14 DEF vars, envVars, histVars
<1> QED
  BY <1>1, <1>2, <1>3, <1>4, <1>5, <1>6, <1>7, <1>8, <1>9, <1>10, <1>11, <1>12,
     <1>13, <1>14 DEF Next, CleanStep, Others

\* `lxperun clean` without --apply, or without root, deletes no coredump, and a
\* dry run starts no program: README.md:125 "it dry-runs by default".
THEOREM OnlyArmed == Spec => []OnlyArmedCallsAct
<1>1. Init => ArmedInv
  BY DEF Init, ArmedInv, OnlyArmedCallsAct
<1>2. ArmedInv => OnlyArmedCallsAct
  BY DEF ArmedInv
<1> QED
  BY <1>1, <1>2, ArmedStep, TypeCorrect, PTL DEF Spec
------------------------------------------------------------------------------
(***************************************************************************)
(* What the loops of _clean_coredumps may rely on while nobody else        *)
(* touches the directory: the candidates not removed yet are aged files,   *)
(* and those still to be visited are among them.                           *)
(***************************************************************************)
Visiting == {"measure", "size", "delete", "unlink"}

PhaseInv ==
  /\ pc \in {"list", "scan"} => dir # "absent"
  /\ pc \in {"exists", "list"} => candidates = {}
  /\ pc \in {"exists", "list", "scan", "measure", "size"} => unlinked = {}
  /\ pc \in Visiting => todo \subseteq candidates \ unlinked
CutoffInv == pc \in Visiting \cup {"scan"} => cutoff + OlderThan <= now
AgedInv == quiet /\ pc \in Visiting \cup {"scan"} => \A f \in candidates \ unlinked : Aged(f)
SelectionInv == PhaseInv /\ CutoffInv /\ AgedInv /\ QuietNeverRaises

LEMMA PhaseStep == TypeOK /\ PhaseInv /\ [Next]_vars => PhaseInv'
<1> SUFFICES ASSUME TypeOK, PhaseInv, [Next]_vars PROVE PhaseInv'
  OBVIOUS
<1> USE DEF PhaseInv, Visiting
<1>1. CASE Call
  BY <1>1 DEF Call
<1>2. CASE CheckDir
  BY <1>2 DEF CheckDir, DirExists, Conclude, envVars, fileVars, histVars
<1>3. CASE ListDir
  BY <1>3 DEF ListDir, Lists, envVars, histVars
<1>4. CASE EndScan
  BY <1>4 DEF EndScan, Conclude, histVars
<1>5. CASE Decide
  BY <1>5 DEF Decide, Victims, Conclude, histVars
<1>6. CASE EndDelete
  BY <1>6 DEF EndDelete, Conclude, fileVars, histVars
<1>7. CASE CleanFlatpak
  BY <1>7 DEF CleanFlatpak, Report, Run
<1>8. CASE CleanPackageCache
  BY <1>8 DEF CleanPackageCache, Report, Run
<1>9. CASE Return
  BY <1>9 DEF Return
<1>10. ASSUME NEW f \in File, Scan(f) \/ Measure(f) \/ SizeOf(f) \/ StatVictim(f)
       PROVE  PhaseInv'
  BY <1>10 DEF Scan, Measure, Passed, SizeOf, StatVictim, envVars, histVars
<1>11. ASSUME NEW f \in File, Unlink(f) PROVE PhaseInv'
  BY <1>11 DEF Unlink, UnlinkWorks
<1>12. ASSUME NEW f \in File, Arrive(f) \/ Vanish(f) PROVE PhaseInv'
  BY <1>12 DEF Arrive, Vanish, Disturb, fileVars
<1>13. CASE Tick
  BY <1>13 DEF Tick, fileVars, histVars
<1>14. CASE UNCHANGED vars
  BY <1>14 DEF vars, envVars, fileVars, histVars
<1> QED
  BY <1>1, <1>2, <1>3, <1>4, <1>5, <1>6, <1>7, <1>8, <1>9, <1>10, <1>11, <1>12,
     <1>13, <1>14 DEF Next, CleanStep, Others

LEMMA CutoffStep == TypeOK /\ CutoffInv /\ [Next]_vars => CutoffInv'
<1> SUFFICES ASSUME TypeOK, CutoffInv, [Next]_vars PROVE CutoffInv'
  OBVIOUS
<1>1. now \in Int /\ OlderThan \in Int /\ cutoff \in Int
  BY CleanAssumption DEF TypeOK, DiskOK, LocalsOK
<1> USE DEF CutoffInv, Visiting
<1>2. CASE ListDir
  BY <1>1, <1>2 DEF ListDir, envVars
<1>3. CASE Tick
  BY <1>1, <1>3 DEF Tick, fileVars
<1>4. ASSUME NEW f \in File, Arrive(f) \/ Vanish(f) PROVE CutoffInv'
  BY <1>4 DEF Arrive, Vanish, Disturb, fileVars
<1>5. ASSUME NEW f \in File,
             Scan(f) \/ Measure(f) \/ SizeOf(f) \/ StatVictim(f) \/ Unlink(f)
      PROVE  CutoffInv'
  BY <1>5 DEF Scan, Measure, SizeOf, StatVictim, Unlink, envVars
<1>6. CASE Call \/ CheckDir \/ EndScan \/ Decide \/ EndDelete
  BY <1>6 DEF Call, CheckDir, EndScan, Decide, EndDelete, Conclude, envVars, fileVars
<1>7. CASE CleanFlatpak \/ CleanPackageCache \/ Return
  BY <1>7 DEF CleanFlatpak, CleanPackageCache, Return, Report, Run
<1>8. CASE UNCHANGED vars
  BY <1>8 DEF vars, envVars, fileVars
<1> QED
  BY <1>2, <1>3, <1>4, <1>5, <1>6, <1>7, <1>8 DEF Next, CleanStep, Others

LEMMA AgedStep == TypeOK /\ PhaseInv /\ AgedInv /\ [Next]_vars => AgedInv'
<1> SUFFICES ASSUME TypeOK, PhaseInv, AgedInv, [Next]_vars PROVE AgedInv'
  OBVIOUS
<1> USE DEF AgedInv, Visiting, Aged
<1>1. CASE ListDir
  BY <1>1 DEF ListDir, PhaseInv
<1>2. ASSUME NEW f \in File, Scan(f) PROVE AgedInv'
  <2>1. UNCHANGED <<fs, cutoff, unlinked, quiet>> /\ pc = "scan" /\ pc' \in {"scan", "raised"}
    BY <1>2 DEF Scan, envVars, histVars
  <2>2. candidates' = candidates \/ (candidates' = candidates \cup {f} /\ Aged(f))
    BY <1>2 DEF Scan, Condemned
  <2> QED
    BY <2>1, <2>2
<1>3. ASSUME NEW f \in File, Unlink(f) PROVE AgedInv'
  <2>1. UNCHANGED <<cutoff, candidates, quiet>> /\ pc = "unlink"
    BY <1>3 DEF Unlink
  <2>2. CASE UnlinkWorks(f)
    <3>1. unlinked' = unlinked \cup {f}
      BY <1>3, <2>2 DEF Unlink
    <3>2. \A g \in File \ {f} : fs'[g] = fs[g]
      BY <1>3, <2>2 DEF Unlink, TypeOK, DiskOK
    <3> QED
      BY <2>1, <3>1, <3>2 DEF TypeOK, LocalsOK
  <2>3. CASE ~UnlinkWorks(f)
    BY <1>3, <2>1, <2>3 DEF Unlink
  <2> QED
    BY <2>2, <2>3
<1>4. ASSUME NEW f \in File, Measure(f) \/ SizeOf(f) \/ StatVictim(f) PROVE AgedInv'
  BY <1>4 DEF Measure, SizeOf, StatVictim, envVars, histVars
<1>5. ASSUME NEW f \in File, Arrive(f) \/ Vanish(f) PROVE AgedInv'
  BY <1>5 DEF Arrive, Vanish, Disturb
<1>6. CASE Tick
  BY <1>6 DEF Tick, fileVars, histVars
<1>7. CASE Call \/ CheckDir \/ EndScan \/ Decide \/ EndDelete
  BY <1>7 DEF Call, CheckDir, EndScan, Decide, EndDelete, Conclude, envVars, fileVars, histVars
<1>8. CASE CleanFlatpak \/ CleanPackageCache \/ Return
  BY <1>8 DEF CleanFlatpak, CleanPackageCache, Return, Report, Run
<1>9. CASE UNCHANGED vars
  BY <1>9 DEF vars, envVars, fileVars, histVars
<1> QED
  BY <1>1, <1>2, <1>3, <1>4, <1>5, <1>6, <1>7, <1>8, <1>9 DEF Next, CleanStep, Others

LEMMA RaiseStep ==
  TypeOK /\ PhaseInv /\ AgedInv /\ QuietNeverRaises /\ [Next]_vars => QuietNeverRaises'
<1> SUFFICES ASSUME TypeOK, PhaseInv, AgedInv, QuietNeverRaises, [Next]_vars
             PROVE  QuietNeverRaises'
  OBVIOUS
<1> USE DEF QuietNeverRaises
<1>1. CASE ListDir
  <2>1. dir # "open" => dir \in {"closed", "listable"} /\ ~root
    BY <1>1 DEF ListDir, PhaseInv, TypeOK, DiskOK
  <2> QED
    BY <1>1, <2>1 DEF ListDir, Lists, envVars
<1>2. ASSUME NEW f \in File, SizeOf(f) PROVE QuietNeverRaises'
  <2>1. quiet => Present(f)
    BY <1>2 DEF SizeOf, Next1, PhaseInv, AgedInv, Visiting, Aged, Present
  <2> QED
    BY <1>2, <2>1 DEF SizeOf, envVars, histVars
<1>3. ASSUME NEW f \in File, Scan(f) \/ Measure(f) \/ StatVictim(f) \/ Unlink(f)
      PROVE  QuietNeverRaises'
  <2>1. CASE Scan(f)
    <3>1. dir # "open" => dir \in {"closed", "listable"} /\ ~root
      BY <2>1 DEF Scan, PhaseInv, TypeOK, DiskOK
    <3> QED
      BY <2>1, <3>1 DEF Scan, envVars
  <2>2. CASE Measure(f) \/ StatVictim(f) \/ Unlink(f)
    BY <2>2 DEF Measure, StatVictim, Unlink
  <2> QED
    BY <1>3, <2>1, <2>2
<1>4. ASSUME NEW f \in File, Arrive(f) \/ Vanish(f) PROVE QuietNeverRaises'
  BY <1>4 DEF Arrive, Vanish, Disturb
<1>5. CASE Tick
  BY <1>5 DEF Tick, histVars
<1>6. CASE Call \/ CheckDir \/ EndScan \/ Decide \/ EndDelete
  BY <1>6 DEF Call, CheckDir, EndScan, Decide, EndDelete, Conclude
<1>7. CASE CleanFlatpak \/ CleanPackageCache \/ Return
  BY <1>7 DEF CleanFlatpak, CleanPackageCache, Return, Report, Run
<1>8. CASE UNCHANGED vars
  BY <1>8 DEF vars, envVars, histVars
<1> QED
  BY <1>1, <1>2, <1>3, <1>4, <1>5, <1>6, <1>7, <1>8 DEF Next, CleanStep, Others

LEMMA Selection == Spec => [](TypeOK /\ SelectionInv)
<1>1. Init => SelectionInv
  BY DEF Init, SelectionInv, PhaseInv, CutoffInv, AgedInv, QuietNeverRaises, Visiting
<1>2. TypeOK /\ SelectionInv /\ [Next]_vars => SelectionInv'
  BY PhaseStep, CutoffStep, AgedStep, RaiseStep DEF SelectionInv
<1> QED
  BY <1>1, <1>2, TypeCorrect, PTL DEF Spec

\* A call nobody disturbs ends in a traceback only where an ordinary user may
\* not list the directory (iterdir() at clean.py:95, the sum at line 112).
THEOREM NeverRaises == Spec => []QuietNeverRaises
<1>1. SelectionInv => QuietNeverRaises
  BY DEF SelectionInv
<1> QED
  BY <1>1, Selection, PTL

\* cli.py:110 "remove only coredumps older than this many days": true of every
\* file an undisturbed call removes, on the day it removes it.
THEOREM RemovesOnlyAged == Spec => QuietRemovesOnlyAged
<1>1. TypeOK /\ SelectionInv /\ [Next]_vars =>
        [\A f \in unlinked' \ unlinked :
           quiet => fs[f].kind = "file" /\ fs[f].mtime + OlderThan <= now]_vars
  <2> SUFFICES ASSUME TypeOK, SelectionInv, [Next]_vars, ~UNCHANGED vars,
                      NEW g \in unlinked' \ unlinked, quiet
               PROVE  fs[g].kind = "file" /\ fs[g].mtime + OlderThan <= now
    OBVIOUS
  <2>1. PICK f \in File : Unlink(f)
    <3>1. CASE Call
      BY <3>1 DEF Call
    <3>2. CASE CheckDir \/ ListDir \/ EndScan \/ Decide \/ EndDelete
      BY <3>2 DEF CheckDir, ListDir, EndScan, Decide, EndDelete, histVars
    <3>3. CASE CleanFlatpak \/ CleanPackageCache \/ Return
      BY <3>3 DEF CleanFlatpak, CleanPackageCache, Return, Report, Run
    <3>4. ASSUME NEW f \in File, Scan(f) \/ Measure(f) \/ SizeOf(f) \/ StatVictim(f)
          PROVE  FALSE
      BY <3>4 DEF Scan, Measure, SizeOf, StatVictim, histVars
    <3>5. ASSUME NEW f \in File, Arrive(f) \/ Vanish(f) PROVE FALSE
      BY <3>5 DEF Arrive, Vanish, Disturb
    <3>6. CASE Tick
      BY <3>6 DEF Tick, histVars
    <3> QED
      BY <3>1, <3>2, <3>3, <3>4, <3>5, <3>6 DEF Next, CleanStep, Others
  <2>2. g = f /\ f \in todo /\ pc = "unlink"
    BY <2>1 DEF Unlink, Next1
  <2>3. Aged(g)
    BY <2>2 DEF SelectionInv, PhaseInv, AgedInv, Visiting
  <2>4. cutoff + OlderThan <= now
    BY <2>2 DEF SelectionInv, CutoffInv, Visiting
  <2>5. fs[g].mtime \in Nat /\ cutoff \in Int /\ now \in Int /\ OlderThan \in Int
    BY <2>2, EntryFacts, CleanAssumption DEF TypeOK, DiskOK, LocalsOK
  <2> QED
    BY <2>3, <2>4, <2>5 DEF Aged
<1> QED
  BY <1>1, Selection, PTL DEF Spec, QuietRemovesOnlyAged
------------------------------------------------------------------------------
(***************************************************************************)
(* The verdict.  While nobody interferes the scan leaves no aged file out  *)
(* (FoundInv), a candidate the loop has passed is gone or was refused      *)
(* (RefusedInv), and the counter is zero only if nothing went (CountInv);  *)
(* so what is concluded is true, and the rest of the call leaves it so.    *)
(***************************************************************************)
FoundInv ==
  quiet =>
    /\ pc = "scan" => \A f \in File : Aged(f) => f \in candidates \cup todo
    /\ pc \in Visiting => candidates # {} /\ \A f \in File : Aged(f) => f \in candidates \ unlinked
RefusedInv == quiet /\ pc \in {"delete", "unlink"} => candidates \ (todo \cup unlinked) \subseteq stuck
CountInv ==
  /\ pc \in {"exists", "list", "scan", "measure", "size"} => removed = 0
  /\ pc \in {"delete", "unlink"} /\ removed = 0 => unlinked = {}
Concluded == {"flatpak", "package", "return"}
JudgedInv ==
  pc \in Concluded /\ quiet =>
    /\ report["coredumps"] = "done" => \A f \in File \ stuck : ~Aged(f)
    /\ report["coredumps"] = "failed" => candidates # {} /\ candidates \subseteq stuck
    /\ report["coredumps"] \in {"skipped", "planned"} =>
         candidates # {} /\ \A f \in candidates : Aged(f)

LEMMA FoundStep == TypeOK /\ PhaseInv /\ FoundInv /\ [Next]_vars => FoundInv'
<1> SUFFICES ASSUME TypeOK, PhaseInv, FoundInv, [Next]_vars PROVE FoundInv'
  OBVIOUS
<1> USE DEF FoundInv, Visiting, Aged
<1>1. CASE ListDir
  BY <1>1 DEF ListDir, Present, envVars
<1>2. ASSUME NEW f \in File, Scan(f) PROVE FoundInv'
  <2>1. UNCHANGED <<fs, cutoff, quiet>> /\ pc = "scan"
    BY <1>2 DEF Scan, envVars, histVars
  <2>2. CASE pc' = "raised"
    BY <2>1, <2>2
  <2>3. CASE pc' # "raised"
    <3>1. /\ UNCHANGED pc /\ todo' = todo \ {f}
          /\ candidates \subseteq candidates' /\ (Aged(f) => f \in candidates')
      BY <1>2, <2>3 DEF Scan, Condemned
    <3> QED
      BY <2>1, <3>1
  <2> QED
    BY <2>2, <2>3
<1>3. CASE EndScan
  BY <1>3 DEF EndScan, Conclude, PhaseInv, envVars, histVars
<1>4. ASSUME NEW f \in File, Measure(f) \/ SizeOf(f) \/ StatVictim(f) PROVE FoundInv'
  BY <1>4 DEF Measure, SizeOf, StatVictim, envVars, histVars
<1>5. ASSUME NEW f \in File, Unlink(f) PROVE FoundInv'
  <2>1. UNCHANGED <<cutoff, candidates, quiet>> /\ pc = "unlink" /\ pc' = "delete"
    BY <1>5 DEF Unlink
  <2>2. CASE UnlinkWorks(f)
    <3>1. unlinked' = unlinked \cup {f} /\ fs' = [fs EXCEPT ![f] = NoFile]
      BY <1>5, <2>2 DEF Unlink
    <3>2. \A g \in File : (g # f /\ fs'[g] = fs[g]) \/ fs'[g].kind = "none"
      BY <3>1 DEF TypeOK, DiskOK, NoFile
    <3> QED
      BY <2>1, <3>1, <3>2
  <2>3. CASE ~UnlinkWorks(f)
    BY <1>5, <2>1, <2>3 DEF Unlink
  <2> QED
    BY <2>2, <2>3
<1>6. ASSUME NEW f \in File, Arrive(f) \/ Vanish(f) PROVE FoundInv'
  BY <1>6 DEF Arrive, Vanish, Disturb
<1>7. CASE Tick
  BY <1>7 DEF Tick, fileVars, histVars
<1>8. CASE Call \/ CheckDir \/ Decide \/ EndDelete
  BY <1>8 DEF Call, CheckDir, Decide, EndDelete, Conclude, envVars, fileVars, histVars
<1>9. CASE CleanFlatpak \/ CleanPackageCache \/ Return
  BY <1>9 DEF CleanFlatpak, CleanPackageCache, Return, Report, Run
<1>10. CASE UNCHANGED vars
  BY <1>10 DEF vars, envVars, fileVars, histVars
<1> QED
  BY <1>1, <1>2, <1>3, <1>4, <1>5, <1>6, <1>7, <1>8, <1>9, <1>10 DEF Next, CleanStep, Others

LEMMA RefusedStep == TypeOK /\ PhaseInv /\ AgedInv /\ RefusedInv /\ [Next]_vars => RefusedInv'
<1> SUFFICES ASSUME TypeOK, PhaseInv, AgedInv, RefusedInv, [Next]_vars PROVE RefusedInv'
  OBVIOUS
<1> USE DEF RefusedInv
<1>1. CASE Decide
  BY <1>1 DEF Decide, Victims, Conclude
<1>2. ASSUME NEW f \in File, StatVictim(f) PROVE RefusedInv'
  <2>1. UNCHANGED <<stuck, candidates, unlinked, quiet>> /\ pc = "delete"
    BY <1>2 DEF StatVictim, envVars, histVars
  <2>2. CASE Present(f)
    BY <1>2, <2>1, <2>2 DEF StatVictim
  <2>3. CASE ~Present(f)
    <3>1. ~quiet
      BY <1>2, <2>1, <2>3 DEF StatVictim, Next1, PhaseInv, AgedInv, Visiting, Aged, Present
    <3> QED
      BY <2>1, <3>1
  <2> QED
    BY <2>2, <2>3
<1>3. ASSUME NEW f \in File, Unlink(f) PROVE RefusedInv'
  <2>1. UNCHANGED <<stuck, candidates, quiet>> /\ pc = "unlink" /\ todo' = todo \ {f}
    BY <1>3 DEF Unlink
  <2>2. quiet => fs[f].kind = "file"
    BY <1>3, <2>1 DEF Unlink, Next1, PhaseInv, AgedInv, Visiting, Aged
  <2>3. unlinked \subseteq unlinked' /\ (quiet => f \in unlinked' \cup stuck)
    BY <1>3, <2>2 DEF Unlink, UnlinkWorks
  <2> QED
    BY <2>1, <2>3
<1>4. ASSUME NEW f \in File, Arrive(f) \/ Vanish(f) PROVE RefusedInv'
  BY <1>4 DEF Arrive, Vanish, Disturb
<1>5. CASE Tick
  BY <1>5 DEF Tick, fileVars, histVars
<1>6. ASSUME NEW f \in File, Scan(f) \/ Measure(f) \/ SizeOf(f) PROVE RefusedInv'
  BY <1>6 DEF Scan, Measure, SizeOf
<1>7. CASE Call \/ CheckDir \/ ListDir \/ EndScan \/ EndDelete
  BY <1>7 DEF Call, CheckDir, ListDir, EndScan, EndDelete, Conclude
<1>8. CASE CleanFlatpak \/ CleanPackageCache \/ Return
  BY <1>8 DEF CleanFlatpak, CleanPackageCache, Return, Report, Run
<1>9. CASE UNCHANGED vars
  BY <1>9 DEF vars, envVars, fileVars, histVars
<1> QED
  BY <1>1, <1>2, <1>3, <1>4, <1>5, <1>6, <1>7, <1>8, <1>9 DEF Next, CleanStep, Others

LEMMA CountStep == TypeOK /\ PhaseInv /\ CountInv /\ [Next]_vars => CountInv'
<1> SUFFICES ASSUME TypeOK, PhaseInv, CountInv, [Next]_vars PROVE CountInv'
  OBVIOUS
<1> USE DEF CountInv
<1>1. CASE Decide
  BY <1>1 DEF Decide, Conclude, PhaseInv, histVars
<1>2. ASSUME NEW f \in File, Unlink(f) PROVE CountInv'
  <2>1. removed \in Nat /\ pc = "unlink" /\ pc' = "delete" /\ removed' = Count(f)
    BY <1>2 DEF Unlink, TypeOK, LocalsOK
  <2>2. CASE UnlinkWorks(f)
    BY <2>1, <2>2 DEF Count
  <2>3. CASE ~UnlinkWorks(f)
    <3>1. unlinked' = unlinked /\ removed' = removed
      BY <1>2, <2>1, <2>3 DEF Unlink, Count
    <3> QED
      BY <2>1, <3>1
  <2> QED
    BY <2>2, <2>3
<1>3. ASSUME NEW f \in File, Scan(f) \/ Measure(f) \/ SizeOf(f) \/ StatVictim(f) PROVE CountInv'
  BY <1>3 DEF Scan, Measure, SizeOf, StatVictim, histVars
<1>4. ASSUME NEW f \in File, Arrive(f) \/ Vanish(f) PROVE CountInv'
  BY <1>4 DEF Arrive, Vanish, Disturb, fileVars
<1>5. CASE Tick
  BY <1>5 DEF Tick, fileVars, histVars
<1>6. CASE Call \/ CheckDir \/ ListDir \/ EndScan \/ EndDelete
  BY <1>6 DEF Call, CheckDir, ListDir, EndScan, EndDelete, Conclude, fileVars, histVars
<1>7. CASE CleanFlatpak \/ CleanPackageCache \/ Return
  BY <1>7 DEF CleanFlatpak, CleanPackageCache, Return, Report, Run
<1>8. CASE UNCHANGED vars
  BY <1>8 DEF vars, fileVars, histVars
<1> QED
  BY <1>1, <1>2, <1>3, <1>4, <1>5, <1>6, <1>7, <1>8 DEF Next, CleanStep, Others

\* What is recorded about the other two parts leaves the verdict as it is.
LEMMA OtherParts ==
  ASSUME TypeOK, CleanFlatpak \/ CleanPackageCache
  PROVE  /\ UNCHANGED <<fs, stuck, cutoff, candidates, quiet>>
         /\ report'["coredumps"] = report["coredumps"]
         /\ pc \in Concluded
<1>1. ASSUME NEW part \in {"flatpak", "package-cache"}, NEW s, NEW next, Report(part, s, next)
      PROVE  /\ UNCHANGED <<fs, stuck, cutoff, candidates, quiet>>
             /\ report'["coredumps"] = report["coredumps"]
  BY <1>1 DEF Report, envVars, fileVars, TypeOK, ReportOK, Part
<1>2. ASSUME NEW part \in {"flatpak", "package-cache"}, NEW tool, NEW next, Run(part, tool, next)
      PROVE  \E s : Report(part, s, next)
  BY <1>2 DEF Run
<1>3. CASE CleanFlatpak
  <2>1. \E s : Report("flatpak", s, "package")
    BY <1>2, <1>3 DEF CleanFlatpak
  <2> QED
    BY <1>1, <1>3, <2>1 DEF CleanFlatpak, Concluded
<1>4. CASE CleanPackageCache
  <2>1. \E s : Report("package-cache", s, "return")
    BY <1>2, <1>4 DEF CleanPackageCache
  <2> QED
    BY <1>1, <1>4, <2>1 DEF CleanPackageCache, Concluded
<1> QED
  BY <1>3, <1>4

LEMMA Concluding ==
  ASSUME TypeOK, NEW state, NEW bytes, Conclude(state, bytes)
  PROVE  report'["coredumps"] = state
BY DEF Conclude, TypeOK, ReportOK, Part

LEMMA JudgedStep ==
  TypeOK /\ PhaseInv /\ AgedInv /\ FoundInv /\ RefusedInv /\ CountInv /\ JudgedInv /\ [Next]_vars
    => JudgedInv'
<1> SUFFICES ASSUME TypeOK, PhaseInv, AgedInv, FoundInv, RefusedInv, CountInv, JudgedInv,
                    [Next]_vars
             PROVE  JudgedInv'
  OBVIOUS
<1> USE DEF JudgedInv, Concluded, Aged
<1>1. CASE CheckDir
  BY <1>1, Concluding DEF CheckDir
<1>2. CASE EndScan
  <2>1. UNCHANGED <<fs, cutoff, candidates, stuck, quiet>> /\ pc = "scan" /\ todo = {}
    BY <1>2 DEF EndScan, envVars, histVars
  <2>2. CASE candidates = {}
    BY <1>2, <2>1, <2>2, Concluding DEF EndScan, FoundInv
  <2>3. CASE candidates # {}
    BY <1>2, <2>3 DEF EndScan
  <2> QED
    BY <2>2, <2>3
<1>3. CASE Decide
  <2>1. UNCHANGED <<fs, cutoff, candidates, stuck, quiet>> /\ pc = "measure" /\ unlinked = {}
    BY <1>3 DEF Decide, envVars, histVars, PhaseInv
  <2>2. \/ report'["coredumps"] \in {"planned", "skipped"}
        \/ pc' = "delete"
    BY <1>3, Concluding DEF Decide
  <2> QED
    BY <2>1, <2>2 DEF AgedInv, FoundInv, Visiting
<1>4. CASE EndDelete
  <2>1. UNCHANGED <<fs, cutoff, candidates, unlinked, stuck, quiet>> /\ pc = "delete" /\ todo = {}
    BY <1>4 DEF EndDelete, envVars, fileVars, histVars
  <2>2. report'["coredumps"] = Verdict
    BY <1>4, Concluding DEF EndDelete
  <2>3. quiet => candidates # {} /\ candidates \ unlinked \subseteq stuck
    BY <2>1 DEF FoundInv, RefusedInv, Visiting
  <2>4. CASE removed > 0
    <3>1. quiet => \A f \in File : Aged(f) => f \in candidates \ unlinked
      BY <2>1 DEF FoundInv, Visiting
    <3> QED
      BY <2>1, <2>2, <2>3, <2>4, <3>1 DEF Verdict
  <2>5. CASE ~(removed > 0)
    <3>1. removed = 0
      BY <2>5 DEF TypeOK, LocalsOK
    <3> QED
      BY <2>1, <2>2, <2>3, <2>5, <3>1 DEF Verdict, CountInv
  <2> QED
    BY <2>4, <2>5
<1>5. CASE CleanFlatpak \/ CleanPackageCache
  BY <1>5, OtherParts
<1>6. ASSUME NEW f \in File, Scan(f) \/ Measure(f) \/ SizeOf(f) \/ StatVictim(f) \/ Unlink(f)
      PROVE  JudgedInv'
  BY <1>6 DEF Scan, Measure, SizeOf, StatVictim, Unlink
<1>7. ASSUME NEW f \in File, Arrive(f) \/ Vanish(f) PROVE JudgedInv'
  BY <1>7 DEF Arrive, Vanish, Disturb
<1>8. CASE Tick
  BY <1>8 DEF Tick, fileVars, reportVars, histVars
<1>9. CASE Call \/ ListDir \/ Return
  BY <1>9 DEF Call, ListDir, Return
<1>10. CASE UNCHANGED vars
  BY <1>10 DEF vars, envVars, fileVars, reportVars, histVars
<1> QED
  BY <1>1, <1>2, <1>3, <1>4, <1>5, <1>6, <1>7, <1>8, <1>9, <1>10 DEF Next, CleanStep, Others

\* The verdict of clean.py:142 on an undisturbed call: "done" leaves no aged
\* file that could have gone, "failed" means that every candidate was refused,
\* and a plan or a skip leaves all candidates in place.
THEOREM VerdictIsSound == Spec => []VerdictSound
<1>1. Init => FoundInv /\ RefusedInv /\ CountInv /\ JudgedInv
  BY DEF Init, FoundInv, RefusedInv, CountInv, JudgedInv, Visiting, Concluded
<1>2. /\ TypeOK /\ SelectionInv /\ FoundInv /\ RefusedInv /\ CountInv /\ JudgedInv /\ [Next]_vars
      => FoundInv' /\ RefusedInv' /\ CountInv' /\ JudgedInv'
  BY FoundStep, RefusedStep, CountStep, JudgedStep DEF SelectionInv
<1>3. JudgedInv => VerdictSound
  BY DEF JudgedInv, VerdictSound, Concluded
<1> QED
  BY <1>1, <1>2, <1>3, Selection, PTL DEF Spec
------------------------------------------------------------------------------
(***************************************************************************)
(* The cleaner implements the abstract clean-up Sweep.                     *)
(***************************************************************************)
Stock == {f \in File : Present(f)}

LEMMA StepKeepsPromise ==
  TypeOK /\ ArmedInv /\ SelectionInv /\ [Next]_vars => [Promise!Next]_(Promise!vars)
<1> SUFFICES ASSUME TypeOK, ArmedInv, SelectionInv, [Next]_vars
             PROVE  Promise!Next \/ UNCHANGED Promise!vars
  OBVIOUS
<1> USE DEF Promise!vars, MayDelete
<1>1. CASE Call
  <2>1. Promise!Begin
    BY <1>1 DEF Call, Promise!Begin, envVars, Present, Resting, TypeOK, LocalsOK, DiskOK
  <2> QED
    BY <2>1 DEF Promise!Next
<1>2. CASE CheckDir \/ EndScan \/ Decide \/ EndDelete
  <2>1. UNCHANGED <<fs, candidates, unlinked, dryRun, root>> /\ pc \notin Resting /\ pc' \notin Resting
    BY <1>2 DEF CheckDir, EndScan, Decide, EndDelete, Conclude, envVars, fileVars, histVars, Resting
  <2> QED
    BY <2>1 DEF Present
<1>3. CASE CleanFlatpak \/ CleanPackageCache
  <2>1. UNCHANGED <<fs, candidates, unlinked, dryRun, root>> /\ pc \notin Resting /\ pc' \notin Resting
    BY <1>3 DEF CleanFlatpak, CleanPackageCache, Report, Run, envVars, fileVars, Resting
  <2> QED
    BY <2>1 DEF Present
<1>4. CASE ListDir \/ Return
  <2>1. UNCHANGED <<fs, candidates, unlinked, dryRun, root>> /\ pc \notin Resting
    BY <1>4 DEF ListDir, Return, envVars, fileVars, histVars, Resting
  <2>2. CASE pc' \in Resting
    BY <2>1, <2>2 DEF Promise!Next, Promise!End, Present
  <2>3. CASE pc' \notin Resting
    BY <2>1, <2>3 DEF Present
  <2> QED
    BY <2>2, <2>3
<1>5. ASSUME NEW f \in File, Scan(f) PROVE Promise!Next \/ UNCHANGED Promise!vars
  <2>1. UNCHANGED <<fs, unlinked, dryRun, root>> /\ pc \notin Resting /\ unlinked = {}
    BY <1>5 DEF Scan, envVars, histVars, Resting, SelectionInv, PhaseInv
  <2>2. CASE candidates' = candidates
    <3>1. CASE pc' = pc
      BY <2>1, <2>2, <3>1 DEF Present
    <3>2. CASE pc' = "raised"
      BY <2>1, <2>2, <3>2 DEF Promise!Next, Promise!End, Present, Resting
    <3> QED
      BY <1>5, <3>1, <3>2 DEF Scan
  <2>3. CASE candidates' # candidates
    <3>1. candidates' = candidates \cup {f} /\ Present(f) /\ pc' = pc
      BY <1>5, <2>3 DEF Scan, Condemned, Aged, Present
    <3>2. Promise!Condemn(f)
      BY <2>1, <3>1 DEF Promise!Condemn, Present
    <3> QED
      BY <3>2 DEF Promise!Next
  <2> QED
    BY <2>2, <2>3
<1>6. ASSUME NEW f \in File, Measure(f) \/ SizeOf(f) \/ StatVictim(f)
      PROVE  Promise!Next \/ UNCHANGED Promise!vars
  <2>1. UNCHANGED <<fs, candidates, unlinked, dryRun, root>> /\ pc \notin Resting
    BY <1>6 DEF Measure, SizeOf, StatVictim, envVars, histVars, Resting
  <2>2. CASE pc' \in Resting
    BY <2>1, <2>2 DEF Promise!Next, Promise!End, Present
  <2>3. CASE pc' \notin Resting
    BY <2>1, <2>3 DEF Present
  <2> QED
    BY <2>2, <2>3
<1>7. ASSUME NEW f \in File, Unlink(f) PROVE Promise!Next \/ UNCHANGED Promise!vars
  <2>1. UNCHANGED <<candidates, dryRun, root>> /\ pc \notin Resting /\ pc' \notin Resting
    BY <1>7 DEF Unlink, Resting
  <2>2. f \in candidates \ unlinked /\ MayDelete
    BY <1>7 DEF Unlink, Next1, SelectionInv, PhaseInv, Visiting, ArmedInv
  <2>3. CASE UnlinkWorks(f)
    <3>1. unlinked' = unlinked \cup {f} /\ Present(f)
      BY <1>7, <2>3 DEF Unlink, UnlinkWorks, Present
    <3>2. fs' = [fs EXCEPT ![f] = NoFile]
      BY <1>7, <2>3 DEF Unlink
    <3>3. Stock' = Stock \ {f}
      BY <3>2 DEF Stock, Present, NoFile, TypeOK, DiskOK
    <3>4. Promise!Remove(f)
      BY <2>1, <2>2, <3>1, <3>3 DEF Promise!Remove, Stock
    <3> QED
      BY <3>4 DEF Promise!Next
  <2>4. CASE ~UnlinkWorks(f)
    BY <1>7, <2>1, <2>4 DEF Unlink, Present
  <2> QED
    BY <2>3, <2>4
<1>8. ASSUME NEW f \in File, Arrive(f) \/ Vanish(f)
      PROVE  Promise!Next \/ UNCHANGED Promise!vars
  <2>1. UNCHANGED <<candidates, unlinked, dryRun, root, pc>>
    BY <1>8 DEF Arrive, Vanish, Disturb, fileVars
  <2>2. Promise!Others
    BY <2>1 DEF Promise!Others
  <2> QED
    BY <2>2 DEF Promise!Next
<1>9. CASE Tick \/ UNCHANGED vars
  <2>1. UNCHANGED <<fs, candidates, unlinked, dryRun, root, pc>>
    BY <1>9 DEF Tick, vars, envVars, fileVars, histVars
  <2> QED
    BY <2>1 DEF Present
<1> QED
  BY <1>1, <1>2, <1>3, <1>4, <1>5, <1>6, <1>7, <1>8, <1>9 DEF Next, CleanStep, Others

\* Every behaviour of the cleaner is one the abstract clean-up allows: nothing
\* is removed that the scan did not select, nothing is selected once removing
\* has begun, no name goes twice, and nothing goes unless root applied.
THEOREM Refinement == Spec => KeepsPromise
<1>1. Init => Promise!Init
  BY DEF Init, Promise!Init, MayDelete, Present, Resting
<1>2. Init => ArmedInv
  BY DEF Init, ArmedInv, OnlyArmedCallsAct
<1> QED
  BY <1>1, <1>2, StepKeepsPromise, ArmedStep, TypeCorrect, Selection, PTL
     DEF Spec, KeepsPromise, Promise!Spec

\* What the abstract clean-up is worth to the owner of the files, shown of Sweep
\* alone, whose steps know nothing of the code: whoever keeps the promise has
\* taken only what he condemned, and has taken anything only when armed.
OwnersView == unlinked \subseteq candidates /\ (unlinked # {} => MayDelete)

THEOREM PromiseIsSafe == KeepsPromise => []OwnersView
<1>1. Promise!Init => OwnersView
  BY DEF Promise!Init, OwnersView
<1>2. OwnersView /\ [Promise!Next]_(Promise!vars) => OwnersView'
  <2> SUFFICES ASSUME OwnersView, [Promise!Next]_(Promise!vars) PROVE OwnersView'
    OBVIOUS
  <2> USE DEF OwnersView
  <2>1. CASE Promise!Begin
    BY <2>1 DEF Promise!Begin
  <2>2. ASSUME NEW f \in File, Promise!Condemn(f) PROVE OwnersView'
    BY <2>2 DEF Promise!Condemn
  <2>3. ASSUME NEW f \in File, Promise!Remove(f) PROVE OwnersView'
    BY <2>3 DEF Promise!Remove
  <2>4. CASE Promise!End \/ Promise!Others \/ UNCHANGED Promise!vars
    BY <2>4 DEF Promise!End, Promise!Others, Promise!vars
  <2> QED
    BY <2>1, <2>2, <2>3, <2>4 DEF Promise!Next
<1> QED
  BY <1>1, <1>2, PTL DEF KeepsPromise, Promise!Spec

\* Hence the cleaner: however the directory changes under it, clean.py:136
\* unlinks only files its own scan selected, in a call that may delete.
COROLLARY CleanerIsSafe == Spec => []OwnersView
  BY Refinement, PromiseIsSafe, PTL
------------------------------------------------------------------------------
(***************************************************************************)
(* Bytes.  The sum of the community modules takes the files in an order    *)
(* that CHOOSE fixes; what is needed of it is that one file more adds its  *)
(* size and that only the sizes count.  The weights of all subsets of a    *)
(* finite set exist and are unique, by induction on the number of files.   *)
(***************************************************************************)
\* What the files of a set weigh together, and the file the sum takes first.
Bytes(g, S) == MapThenSumSet(LAMBDA f : g[f].size, S)
First(s) == CHOOSE x \in s : TRUE
Weighs(g, u, D) ==
  \A s \in D : u[s] = IF s = {} THEN 0 ELSE g[First(s)].size + u[s \ {First(s)}]
Weighed(g, S) == \A x \in S : g[x].size \in Nat

LEMMA FirstIn ==
  ASSUME NEW S, IsFiniteSet(S), S # {}
  PROVE  /\ First(S) \in S /\ IsFiniteSet(S \ {First(S)})
         /\ Cardinality(S) \in Nat \ {0}
         /\ Cardinality(S \ {First(S)}) = Cardinality(S) - 1
<1>1. First(S) \in S
  BY DEF First
<1>2. Cardinality(S) \in Nat /\ Cardinality(S) # 0
  BY FS_CardinalityType, FS_EmptySet
<1> QED
  BY <1>1, <1>2, FS_RemoveElement

\* The weights of all subsets of a finite set exist.
LEMMA WeightsExist ==
  ASSUME NEW S, IsFiniteSet(S), NEW g, Weighed(g, S)
  PROVE  \E u \in [SUBSET S -> Nat] : Weighs(g, u, SUBSET S)
<1> DEFINE Small(n) == {T \in SUBSET S : Cardinality(T) <= n}
           Q == {n \in Nat : \E u \in [Small(n) -> Nat] : Weighs(g, u, Small(n))}
<1>1. \A T \in SUBSET S : IsFiniteSet(T) /\ Cardinality(T) \in Nat
                          /\ Cardinality(T) <= Cardinality(S)
  BY FS_Subset, FS_CardinalityType
<1>2. 0 \in Q
  <2>1. PICK u : u = [T \in Small(0) |-> 0]
    OBVIOUS
  <2>2. \A T \in Small(0) : T = {}
    BY <1>1, FS_EmptySet
  <2>3. u \in [Small(0) -> Nat] /\ Weighs(g, u, Small(0))
    BY <2>1, <2>2 DEF Weighs
  <2> QED
    BY <2>3
<1>3. ASSUME NEW n \in Nat, n \in Q PROVE n + 1 \in Q
  <2>1. PICK u \in [Small(n) -> Nat] : Weighs(g, u, Small(n))
    BY <1>3
  <2>2. PICK v : v = [T \in Small(n + 1) |-> IF T \in Small(n) THEN u[T]
                                             ELSE g[First(T)].size + u[T \ {First(T)}]]
    OBVIOUS
  <2>3. ASSUME NEW T \in Small(n + 1)
        PROVE  /\ T # {} => First(T) \in T /\ T \ {First(T)} \in Small(n)
               /\ T = {} => T \in Small(n)
    <3>1. CASE T = {}
      <4>1. Cardinality(T) = 0
        BY <3>1, FS_EmptySet
      <4> QED
        BY <3>1, <4>1
    <3>2. CASE T # {}
      <4>1. Cardinality(T) \in Nat /\ Cardinality(T) <= n + 1 /\ IsFiniteSet(T)
        BY <1>1
      <4>2. First(T) \in T /\ Cardinality(T \ {First(T)}) = Cardinality(T) - 1
        BY <3>2, <4>1, FirstIn
      <4>3. Cardinality(T \ {First(T)}) <= n
        BY <4>1, <4>2
      <4> QED
        BY <3>2, <4>2, <4>3
    <3> QED
      BY <3>1, <3>2
  <2>4. \A T \in Small(n) : T \in Small(n + 1)
    BY <1>1
  <2>5. ASSUME NEW T \in Small(n + 1)
        PROVE  v[T] \in Nat /\ v[T] = IF T = {} THEN 0
                                      ELSE g[First(T)].size + v[T \ {First(T)}]
    <3>1. CASE T = {}
      BY <2>1, <2>2, <2>3, <3>1 DEF Weighs
    <3>2. CASE T # {}
      <4>1. /\ First(T) \in S /\ T \ {First(T)} \in Small(n)
            /\ u[T \ {First(T)}] \in Nat /\ v[T \ {First(T)}] = u[T \ {First(T)}]
        BY <2>2, <2>3, <2>4, <3>2
      <4>2. g[First(T)].size \in Nat
        BY <4>1 DEF Weighed
      <4>3. v[T] = g[First(T)].size + u[T \ {First(T)}]
        BY <2>1, <2>2, <3>2 DEF Weighs
      <4> QED
        BY <3>2, <4>1, <4>2, <4>3
    <3> QED
      BY <3>1, <3>2
  <2>6. v \in [Small(n + 1) -> Nat] /\ Weighs(g, v, Small(n + 1))
    BY <2>2, <2>5 DEF Weighs
  <2>7. n + 1 \in Nat
    OBVIOUS
  <2> HIDE DEF Small
  <2> QED
    BY <2>6, <2>7
<1>4. Cardinality(S) \in Nat /\ \A n \in 0..(Cardinality(S) - 1) : n \in Nat
  BY FS_CardinalityType
<1> HIDE DEF Q
<1>5. Cardinality(S) \in Q
  <2>1. \A n \in 0..(Cardinality(S) - 1) : n \in Q => n + 1 \in Q
    BY <1>3, <1>4
  <2>2. \A n \in 0..Cardinality(S) : n \in Q
    BY <1>2, <1>4, <2>1, UpTo, Zenon
  <2> QED
    BY <1>4, <2>2
<1>6. Small(Cardinality(S)) = SUBSET S
  BY <1>1
<1> QED
  BY <1>5, <1>6 DEF Q

\* They are unique, whatever larger set they are computed for.
LEMMA WeightsUnique ==
  ASSUME NEW S, IsFiniteSet(S), NEW T \in SUBSET S, NEW g, NEW u, NEW v,
         Weighs(g, u, SUBSET S), Weighs(g, v, SUBSET T)
  PROVE  u[T] = v[T]
<1> DEFINE Q == {n \in Nat : \A s \in SUBSET T : Cardinality(s) = n => u[s] = v[s]}
<1>1. \A s \in SUBSET T : s \in SUBSET S /\ IsFiniteSet(s) /\ Cardinality(s) \in Nat
                          /\ Cardinality(s) <= Cardinality(T)
  BY FS_Subset, FS_CardinalityType
<1>2. 0 \in Q
  <2>1. ASSUME NEW s \in SUBSET T, Cardinality(s) = 0 PROVE u[s] = v[s]
    <3>1. s = {}
      BY <1>1, <2>1, FS_EmptySet
    <3> QED
      BY <1>1, <3>1 DEF Weighs
  <2> QED
    BY <2>1
<1>3. ASSUME NEW n \in Nat, n \in Q PROVE n + 1 \in Q
  <2>1. ASSUME NEW s \in SUBSET T, Cardinality(s) = n + 1 PROVE u[s] = v[s]
    <3>1. s # {}
      BY <2>1, FS_EmptySet
    <3>2. Cardinality(s \ {First(s)}) = n
      BY <1>1, <2>1, <3>1, FirstIn
    <3>3. s \ {First(s)} \in SUBSET T
      OBVIOUS
    <3>4. u[s \ {First(s)}] = v[s \ {First(s)}]
      BY <1>3, <3>2, <3>3
    <3> QED
      BY <1>1, <3>1, <3>4 DEF Weighs
  <2> QED
    BY <2>1
<1>4. Cardinality(T) \in Nat /\ \A n \in 0..(Cardinality(T) - 1) : n \in Nat
  BY <1>1
<1> HIDE DEF Q
<1>5. Cardinality(T) \in Q
  <2>1. \A n \in 0..(Cardinality(T) - 1) : n \in Q => n + 1 \in Q
    BY <1>3, <1>4
  <2>2. \A n \in 0..Cardinality(T) : n \in Q
    BY <1>2, <1>4, <2>1, UpTo, Zenon
  <2> QED
    BY <1>4, <2>2
<1> QED
  BY <1>5 DEF Q

\* The sum of the community modules computes them.
LEMMA BytesWeigh ==
  ASSUME NEW S, IsFiniteSet(S), NEW g, Weighed(g, S)
  PROVE  \E u \in [SUBSET S -> Nat] : Weighs(g, u, SUBSET S) /\ Bytes(g, S) = u[S]
<1> DEFINE Body(w) == [s \in SUBSET S |-> IF s = {} THEN 0
                                          ELSE g[First(s)].size + w[s \ {First(s)}]]
           iter == CHOOSE w : w = Body(w)
<1>1. PICK u \in [SUBSET S -> Nat] : Weighs(g, u, SUBSET S)
  BY WeightsExist
<1>2. u = Body(u)
  BY <1>1 DEF Weighs
<1>3. iter = Body(iter)
  BY <1>2
<1>4. Bytes(g, S) = iter[S]
  BY DEF Bytes, MapThenSumSet, MapThenFoldSet, First
<1> HIDE DEF iter
<1>5. Weighs(g, iter, SUBSET S)
  BY <1>3 DEF Weighs
<1>6. iter[S] = u[S]
  BY <1>1, <1>5, WeightsUnique
<1> QED
  BY <1>1, <1>4, <1>6

\* How the sum goes: the file it takes first, then the rest.
LEMMA BytesUnfold ==
  ASSUME NEW S, IsFiniteSet(S), NEW g, Weighed(g, S)
  PROVE  /\ Bytes(g, S) \in Nat
         /\ S = {} => Bytes(g, S) = 0
         /\ S # {} => Bytes(g, S) = g[First(S)].size + Bytes(g, S \ {First(S)})
<1>1. PICK u \in [SUBSET S -> Nat] : Weighs(g, u, SUBSET S) /\ Bytes(g, S) = u[S]
  BY BytesWeigh
<1>2. CASE S = {}
  <2>1. u[S] = 0
    BY <1>1, <1>2 DEF Weighs
  <2> QED
    BY <1>1, <1>2, <2>1
<1>3. CASE S # {}
  <2>1. PICK T : T = S \ {First(S)}
    OBVIOUS
  <2>2. T \in SUBSET S /\ IsFiniteSet(T) /\ Weighed(g, T)
    BY <1>3, <2>1, FirstIn DEF Weighed
  <2>3. PICK v \in [SUBSET T -> Nat] : Weighs(g, v, SUBSET T) /\ Bytes(g, T) = v[T]
    BY <2>2, BytesWeigh
  <2>4. u[T] = v[T]
    BY <1>1, <2>2, <2>3, WeightsUnique
  <2>5. u[S] = g[First(S)].size + u[T]
    BY <1>1, <1>3, <2>1 DEF Weighs
  <2> QED
    BY <1>1, <1>3, <2>1, <2>3, <2>4, <2>5
<1> QED
  BY <1>2, <1>3

\* One file more, and the same files with the same sizes.
LEMMA BytesMore ==
  ASSUME NEW S, IsFiniteSet(S), NEW y, y \notin S, NEW g, Weighed(g, S \cup {y})
  PROVE  Bytes(g, S \cup {y}) = Bytes(g, S) + g[y].size
<1> DEFINE Q == {n \in Nat : \A T \in SUBSET (S \cup {y}) : \A z \in (S \cup {y}) \ T :
                   Cardinality(T) = n => Bytes(g, T \cup {z}) = Bytes(g, T) + g[z].size}
<1>1. ASSUME NEW T \in SUBSET (S \cup {y})
      PROVE  IsFiniteSet(T) /\ Cardinality(T) \in Nat /\ Weighed(g, T) /\ Bytes(g, T) \in Nat
  <2>1. IsFiniteSet(S \cup {y})
    BY FS_AddElement
  <2>2. IsFiniteSet(T) /\ Weighed(g, T)
    BY <2>1, FS_Subset DEF Weighed
  <2> QED
    BY <2>2, FS_CardinalityType, BytesUnfold
<1>2. ASSUME NEW T \in SUBSET (S \cup {y}), NEW z \in (S \cup {y}) \ T,
             \A R \in SUBSET (S \cup {y}) : \A x \in (S \cup {y}) \ R :
               Cardinality(R) + 1 = Cardinality(T) => Bytes(g, R \cup {x}) = Bytes(g, R) + g[x].size
      PROVE  Bytes(g, T \cup {z}) = Bytes(g, T) + g[z].size
  <2>1. PICK p : p = First(T \cup {z})
    OBVIOUS
  <2>2. /\ p \in T \cup {z}
        /\ Bytes(g, T \cup {z}) = g[p].size + Bytes(g, (T \cup {z}) \ {p})
    <3>1. T \cup {z} \in SUBSET (S \cup {y}) /\ T \cup {z} # {}
      OBVIOUS
    <3>2. IsFiniteSet(T \cup {z}) /\ Weighed(g, T \cup {z})
      BY <1>1, <3>1
    <3> QED
      BY <2>1, <3>1, <3>2, FirstIn, BytesUnfold
  <2>3. g[p].size \in Nat /\ g[z].size \in Nat
    BY <2>2 DEF Weighed
  <2>4. CASE p = z
    <3>1. (T \cup {z}) \ {p} = T
      BY <2>4
    <3>2. PICK b \in Nat : b = Bytes(g, T)
      BY <1>1
    <3>3. Bytes(g, T \cup {z}) = g[z].size + b
      BY <2>2, <2>4, <3>1, <3>2
    <3> QED
      BY <2>3, <3>2, <3>3
  <2>5. CASE p # z
    <3>1. PICK R : R = T \ {p}
      OBVIOUS
    <3>2. /\ R \in SUBSET (S \cup {y}) /\ z \in (S \cup {y}) \ R /\ p \in (S \cup {y}) \ R
          /\ (T \cup {z}) \ {p} = R \cup {z} /\ R \cup {p} = T /\ p \in T
      BY <2>2, <2>5, <3>1
    <3>3. Cardinality(R) + 1 = Cardinality(T)
      <4>1. Cardinality(R) = Cardinality(T) - 1
        BY <1>1, <3>1, <3>2, FS_RemoveElement
      <4> QED
        BY <1>1, <4>1
    <3>4. Bytes(g, R \cup {z}) = Bytes(g, R) + g[z].size /\ Bytes(g, T) = Bytes(g, R) + g[p].size
      BY <1>2, <3>2, <3>3
    <3>5. PICK b \in Nat : b = Bytes(g, R)
      BY <1>1, <3>2
    <3>6. Bytes(g, T \cup {z}) = g[p].size + (b + g[z].size) /\ Bytes(g, T) = b + g[p].size
      BY <2>2, <3>2, <3>4, <3>5
    <3> QED
      BY <2>3, <3>6
  <2> QED
    BY <2>4, <2>5
<1>3. 0 \in Q
  <2>1. ASSUME NEW T \in SUBSET (S \cup {y}), NEW z \in (S \cup {y}) \ T, Cardinality(T) = 0
        PROVE  Bytes(g, T \cup {z}) = Bytes(g, T) + g[z].size
    <3>1. \A R \in SUBSET (S \cup {y}) : Cardinality(R) + 1 # 0
      BY <1>1
    <3> QED
      BY <1>2, <2>1, <3>1
  <2> QED
    BY <2>1
<1>4. ASSUME NEW n \in Nat, n \in Q PROVE n + 1 \in Q
  <2>1. ASSUME NEW T \in SUBSET (S \cup {y}), NEW z \in (S \cup {y}) \ T, Cardinality(T) = n + 1
        PROVE  Bytes(g, T \cup {z}) = Bytes(g, T) + g[z].size
    <3>1. \A R \in SUBSET (S \cup {y}) : Cardinality(R) + 1 = Cardinality(T) => Cardinality(R) = n
      BY <1>1, <2>1
    <3> QED
      BY <1>2, <1>4, <3>1
  <2> QED
    BY <2>1
<1>5. Cardinality(S) \in Nat /\ \A n \in 0..(Cardinality(S) - 1) : n \in Nat
  BY FS_CardinalityType
<1> HIDE DEF Q
<1>6. Cardinality(S) \in Q
  <2>1. \A n \in 0..(Cardinality(S) - 1) : n \in Q => n + 1 \in Q
    BY <1>4, <1>5
  <2>2. \A n \in 0..Cardinality(S) : n \in Q
    BY <1>3, <1>5, <2>1, UpTo, Zenon
  <2> QED
    BY <1>5, <2>2
<1> QED
  BY <1>6 DEF Q

LEMMA BytesAgree ==
  ASSUME NEW S, IsFiniteSet(S), NEW g, NEW h, Weighed(g, S), \A x \in S : h[x].size = g[x].size
  PROVE  Bytes(h, S) = Bytes(g, S)
<1>1. Weighed(h, S)
  BY DEF Weighed
<1>2. PICK u \in [SUBSET S -> Nat] : Weighs(g, u, SUBSET S) /\ Bytes(g, S) = u[S]
  BY BytesWeigh
<1>3. PICK v \in [SUBSET S -> Nat] : Weighs(h, v, SUBSET S) /\ Bytes(h, S) = v[S]
  BY <1>1, BytesWeigh
<1>4. Weighs(g, v, SUBSET S)
  <2>1. ASSUME NEW T \in SUBSET S, T # {} PROVE h[First(T)].size = g[First(T)].size
    BY <2>1 DEF First
  <2> QED
    BY <1>3, <2>1 DEF Weighs
<1> QED
  BY <1>2, <1>3, <1>4, WeightsUnique

------------------------------------------------------------------------------
(***************************************************************************)
(* The counters of _clean_coredumps against the disk.  In the loop         *)
(* deleted_bytes is what was freed and the sizes of the files passed and   *)
(* refused, and between stat() and unlink() that of the file at hand       *)
(* (CounterInv); the call concludes with these figures (SettledInv).  The  *)
(* sum measured before is that of the files passed (MeasuredInv), so a dry *)
(* run announces the aged files and their bytes; and while nobody          *)
(* interferes what is left of the plan is what is aged, and what was       *)
(* announced is what was freed and what is left (PlanInv).                 *)
(***************************************************************************)
Early == {"exists", "list", "scan", "measure", "size"}
Visited == candidates \ (todo \cup unlinked)
CounterInv ==
  /\ pc \in Early => removed = 0 /\ deletedBytes = 0 /\ freed = 0 /\ total = 0
  /\ pc \in {"delete", "unlink"} => total = 0 /\ unlinked \subseteq candidates
  /\ pc \in {"delete", "unlink"} => removed = Cardinality(unlinked)
  /\ quiet /\ pc = "delete" => deletedBytes = freed + Bytes(fs, Visited)
  /\ quiet /\ pc = "unlink" =>
       \A f \in File : Next1(f) => deletedBytes = freed + Bytes(fs, Visited) + fs[f].size
SettledInv ==
  quiet /\ pc \in Concluded /\ MayDelete =>
    /\ removed = Cardinality(unlinked) /\ total = deletedBytes
    /\ deletedBytes = freed + Bytes(fs, candidates \ unlinked)
    /\ unlinked \subseteq candidates /\ candidates \ unlinked \subseteq stuck
MeasuredInv ==
  /\ pc \in {"exists", "list", "scan"} => reclaimed = 0
  /\ quiet /\ pc \in {"measure", "size"} => reclaimed = Bytes(fs, candidates \ todo)
  /\ quiet /\ pc \in Concluded /\ dryRun => total = Bytes(fs, candidates)
  /\ quiet /\ pc \in Concluded /\ dir # "absent" => candidates \ unlinked = {f \in File : Aged(f)}
Due(cut) == {f \in File : fs[f].kind = "file" /\ fs[f].mtime <= cut}
PlanInv ==
  plan.valid =>
    /\ quiet /\ dir = "open"
    /\ pc \in Resting => unlinked = {} /\ freed = 0
    /\ plan.files \ unlinked = Due(plan.cutoff)
    /\ unlinked \subseteq plan.files => plan.bytes = freed + Bytes(fs, plan.files \ unlinked)
    /\ plan.cutoff = cutoff /\ pc \in Visiting \cup Concluded => candidates = plan.files

\* The sums over files of the directory.
LEMMA DirectoryWeighs ==
  ASSUME DiskOK, NEW S \in SUBSET File
  PROVE  IsFiniteSet(S) /\ Weighed(fs, S) /\ Bytes(fs, S) \in Nat
<1>1. IsFiniteSet(S)
  BY CleanAssumption, FS_Subset
<1>2. Weighed(fs, S)
  BY EntryFacts DEF Weighed
<1> QED
  BY <1>1, <1>2, BytesUnfold

LEMMA OneMore ==
  ASSUME DiskOK, NEW S \in SUBSET File, NEW f \in File \ S
  PROVE  /\ Bytes(fs, S) \in Nat /\ fs[f].size \in Nat
         /\ Bytes(fs, S \cup {f}) = Bytes(fs, S) + fs[f].size
<1>1. S \cup {f} \in SUBSET File
  OBVIOUS
<1>2. IsFiniteSet(S) /\ Bytes(fs, S) \in Nat /\ Weighed(fs, S \cup {f})
  BY <1>1, DirectoryWeighs
<1> QED
  BY <1>2, BytesMore, EntryFacts

LEMMA OthersStay ==
  ASSUME DiskOK, NEW S \in SUBSET File, NEW f \in File \ S,
         fs' = [fs EXCEPT ![f] = NoFile]
  PROVE  Bytes(fs', S) = Bytes(fs, S)
<1>1. \A g \in S : fs'[g].size = fs[g].size
  BY DEF DiskOK
<1> QED
  BY <1>1, DirectoryWeighs, BytesAgree

LEMMA NoBytes == ASSUME DiskOK PROVE Bytes(fs, {}) = 0
<1>1. IsFiniteSet({}) /\ Weighed(fs, {})
  BY FS_EmptySet DEF Weighed
<1> QED
  BY <1>1, BytesUnfold

LEMMA CounterStep ==
  TypeOK /\ PhaseInv /\ AgedInv /\ CounterInv /\ [Next]_vars => CounterInv'
<1> SUFFICES ASSUME TypeOK, PhaseInv, AgedInv, CounterInv, [Next]_vars PROVE CounterInv'
  OBVIOUS
<1>0. DiskOK /\ candidates \in SUBSET File /\ unlinked \in SUBSET File /\ todo \in SUBSET File
      /\ removed \in Nat /\ deletedBytes \in Nat /\ freed \in Nat
  BY DEF TypeOK, LocalsOK, HistoryOK
<1>1. CASE Call
  BY <1>1 DEF Call, CounterInv, Early
<1>2. CASE CheckDir \/ ListDir \/ EndScan
  BY <1>2 DEF CheckDir, ListDir, EndScan, Conclude, CounterInv, Early, fileVars, reportVars, histVars
<1>3. ASSUME NEW f \in File, Scan(f) \/ Measure(f) \/ SizeOf(f) PROVE CounterInv'
  BY <1>3 DEF Scan, Measure, SizeOf, CounterInv, Early, fileVars, reportVars, histVars
<1>4. CASE Decide
  <2>1. CASE pc' # "delete"
    BY <1>4, <2>1 DEF Decide, Conclude, CounterInv, Early
  <2>2. CASE pc' = "delete"
    <3>1. /\ pc = "measure" /\ todo' = candidates /\ UNCHANGED <<fs, candidates, removed, deletedBytes>>
          /\ UNCHANGED <<unlinked, freed, total>>
      BY <1>4, <2>2 DEF Decide, Conclude, Victims, envVars, reportVars, histVars
    <3>2. removed = 0 /\ deletedBytes = 0 /\ freed = 0 /\ total = 0 /\ unlinked = {}
      BY <3>1 DEF CounterInv, Early, PhaseInv
    <3>3. Visited' = {} /\ Bytes(fs', Visited') = 0
      BY <1>0, <3>1, NoBytes DEF Visited
    <3>4. Cardinality(unlinked') = 0
      BY <3>1, <3>2, FS_EmptySet
    <3> QED
      BY <2>2, <3>1, <3>2, <3>3, <3>4 DEF CounterInv, Early
  <2> QED
    BY <2>1, <2>2
<1>5. ASSUME NEW f \in File, StatVictim(f) PROVE CounterInv'
  <2>1. /\ pc = "delete" /\ Next1(f) /\ UNCHANGED <<fs, candidates, removed, total, unlinked, freed, quiet>>
    BY <1>5 DEF StatVictim, envVars, reportVars, histVars
  <2>2. quiet => Present(f)
    BY <2>1 DEF Next1, PhaseInv, AgedInv, Visiting, Aged, Present
  <2>3. CASE Present(f)
    <3>1. pc' = "unlink" /\ todo' = todo /\ deletedBytes' = deletedBytes + fs[f].size
      BY <1>5, <2>3 DEF StatVictim
    <3>2. Visited' = Visited
      BY <2>1, <3>1 DEF Visited
    <3>3. ASSUME NEW g \in File, Next1(g)' PROVE g = f
      <4>1. f \in Nat /\ g \in Nat /\ f <= g /\ g <= f
        BY <2>1, <3>1, <3>3, CleanAssumption DEF Next1
      <4> QED
        BY <4>1
    <3>4. Visited \in SUBSET File /\ Bytes(fs, Visited) \in Nat /\ fs[f].size \in Nat
      BY <1>0, DirectoryWeighs, EntryFacts DEF Visited
    <3>5. quiet => deletedBytes' = freed + Bytes(fs, Visited) + fs[f].size
      BY <2>1, <3>1 DEF CounterInv
    <3> QED
      BY <2>1, <3>1, <3>2, <3>3, <3>5 DEF CounterInv, Early
  <2>4. CASE ~Present(f)
    BY <1>5, <2>1, <2>2, <2>4 DEF StatVictim, CounterInv, Early
  <2> QED
    BY <2>3, <2>4
<1>6. ASSUME NEW f \in File, Unlink(f) PROVE CounterInv'
  <2>1. /\ pc = "unlink" /\ pc' = "delete" /\ Next1(f) /\ todo' = todo \ {f} /\ removed' = Count(f)
        /\ UNCHANGED <<candidates, deletedBytes, total, quiet>>
    BY <1>6 DEF Unlink, reportVars
  <2>2. f \in todo /\ f \in candidates \ unlinked
    BY <2>1 DEF Next1, PhaseInv, Visiting
  <2>3. /\ total = 0 /\ unlinked \subseteq candidates /\ removed = Cardinality(unlinked)
        /\ quiet => deletedBytes = freed + Bytes(fs, Visited) + fs[f].size
    BY <2>1 DEF CounterInv
  <2>4. Visited \in SUBSET File /\ f \notin Visited
    BY <1>0, <2>2 DEF Visited
  <2>5. Bytes(fs, Visited) \in Nat /\ fs[f].size \in Nat
    BY <1>0, <2>4, OneMore
  <2>6. CASE UnlinkWorks(f)
    <3>1. /\ fs' = [fs EXCEPT ![f] = NoFile] /\ unlinked' = unlinked \cup {f}
          /\ freed' = freed + fs[f].size /\ removed' = removed + 1
      BY <1>6, <2>1, <2>6 DEF Unlink, Count
    <3>2. Visited' = Visited
      BY <2>1, <2>2, <3>1 DEF Visited
    <3>3. Bytes(fs', Visited) = Bytes(fs, Visited)
      BY <1>0, <2>4, <3>1, OthersStay
    <3>4. Cardinality(unlinked') = Cardinality(unlinked) + 1
      BY <1>0, <2>2, <3>1, CleanAssumption, FS_Subset, FS_AddElement
    <3>5. quiet => deletedBytes' = freed' + Bytes(fs, Visited)
      BY <1>0, <2>1, <2>3, <2>5, <3>1
    <3> QED
      BY <2>1, <2>2, <2>3, <3>1, <3>2, <3>3, <3>4, <3>5 DEF CounterInv, Early
  <2>7. CASE ~UnlinkWorks(f)
    <3>1. UNCHANGED <<fs, unlinked, freed>> /\ removed' = removed
      BY <1>6, <2>1, <2>7 DEF Unlink, Count
    <3>2. Visited' = Visited \cup {f}
      BY <2>1, <2>2, <3>1 DEF Visited
    <3>3. Bytes(fs, Visited \cup {f}) = Bytes(fs, Visited) + fs[f].size
      BY <1>0, <2>4, OneMore
    <3>4. quiet => deletedBytes' = freed' + Bytes(fs, Visited \cup {f})
      BY <1>0, <2>1, <2>3, <2>5, <3>1, <3>3
    <3> QED
      BY <2>1, <2>3, <3>1, <3>2, <3>4 DEF CounterInv, Early
  <2> QED
    BY <2>6, <2>7
<1>7. ASSUME NEW f \in File, Arrive(f) \/ Vanish(f) PROVE CounterInv'
  BY <1>7 DEF Arrive, Vanish, Disturb, CounterInv, fileVars, reportVars
<1>8. CASE Tick \/ UNCHANGED vars
  <2>1. UNCHANGED <<fs, candidates, todo, removed, deletedBytes, total, unlinked, freed, quiet, pc>>
    BY <1>8 DEF Tick, vars, envVars, fileVars, reportVars, histVars
  <2>2. Visited' = Visited /\ \A f \in File : Next1(f)' <=> Next1(f)
    BY <2>1 DEF Visited, Next1
  <2> QED
    BY <2>1, <2>2 DEF CounterInv
<1>9. CASE EndDelete \/ CleanFlatpak \/ CleanPackageCache \/ Return
  <2>1. pc' \in {"flatpak", "package", "return", "returned"}
    BY <1>9 DEF EndDelete, Conclude, CleanFlatpak, CleanPackageCache, Return, Report, Run
  <2> QED
    BY <2>1 DEF CounterInv, Early
<1> QED
  BY <1>1, <1>2, <1>3, <1>4, <1>5, <1>6, <1>7, <1>8, <1>9 DEF Next, CleanStep, Others

LEMMA SettledStep ==
  TypeOK /\ PhaseInv /\ RefusedInv /\ CounterInv /\ SettledInv /\ [Next]_vars => SettledInv'
<1> SUFFICES ASSUME TypeOK, PhaseInv, RefusedInv, CounterInv, SettledInv, [Next]_vars
             PROVE  SettledInv'
  OBVIOUS
<1>0. DiskOK /\ candidates \in SUBSET File /\ unlinked \in SUBSET File
      /\ deletedBytes \in Nat /\ freed \in Nat
  BY DEF TypeOK, LocalsOK, HistoryOK
<1>1. CASE CheckDir \/ EndScan
  <2>1. CASE pc' \notin Concluded
    BY <2>1 DEF SettledInv
  <2>2. CASE pc' \in Concluded
    <3>1. /\ pc \in Early /\ candidates = {} /\ total' = total + 0 /\ unlinked = {}
          /\ UNCHANGED <<fs, stuck, candidates, removed, deletedBytes, unlinked, freed, quiet>>
      BY <1>1, <2>2 DEF CheckDir, EndScan, Conclude, PhaseInv, Early, Concluded,
                        envVars, fileVars, histVars
    <3>2. removed = 0 /\ deletedBytes = 0 /\ freed = 0 /\ total = 0
      BY <3>1 DEF CounterInv
    <3>3. Bytes(fs, {}) = 0 /\ Cardinality({}) = 0 /\ candidates \ unlinked = {}
      BY <1>0, <3>1, NoBytes, FS_EmptySet
    <3> QED
      BY <3>1, <3>2, <3>3 DEF SettledInv
  <2> QED
    BY <2>1, <2>2
<1>2. CASE Decide
  <2>1. pc' = "delete" \/ ~MayDelete'
    BY <1>2 DEF Decide, MayDelete, envVars
  <2> QED
    BY <2>1 DEF SettledInv, Concluded
<1>3. CASE EndDelete
  <2>1. /\ pc = "delete" /\ todo = {} /\ total' = total + deletedBytes
        /\ UNCHANGED <<fs, stuck, root, dryRun, candidates, removed, deletedBytes,
                       unlinked, freed, quiet>>
    BY <1>3 DEF EndDelete, Conclude, envVars, fileVars, histVars
  <2>2. /\ total = 0 /\ unlinked \subseteq candidates /\ removed = Cardinality(unlinked)
        /\ quiet => deletedBytes = freed + Bytes(fs, Visited)
    BY <2>1 DEF CounterInv
  <2>3. Visited = candidates \ unlinked
    BY <2>1 DEF Visited
  <2>4. quiet => candidates \ unlinked \subseteq stuck
    BY <2>1 DEF RefusedInv
  <2>5. total' = deletedBytes
    BY <1>0, <2>1, <2>2
  <2> QED
    BY <2>1, <2>2, <2>3, <2>4, <2>5 DEF SettledInv
<1>4. CASE CleanFlatpak \/ CleanPackageCache
  <2>1. /\ pc \in Concluded
        /\ UNCHANGED <<fs, stuck, root, dryRun, candidates, removed, deletedBytes, total,
                       unlinked, freed, quiet>>
    BY <1>4 DEF CleanFlatpak, CleanPackageCache, Report, Run, Concluded, envVars, fileVars
  <2> QED
    BY <2>1 DEF SettledInv, MayDelete
<1>5. CASE Tick \/ UNCHANGED vars
  <2>1. UNCHANGED <<fs, stuck, root, dryRun, candidates, removed, deletedBytes, total,
                    unlinked, freed, quiet, pc>>
    BY <1>5 DEF Tick, vars, envVars, fileVars, reportVars, histVars
  <2> QED
    BY <2>1 DEF SettledInv, MayDelete
<1>6. ASSUME NEW f \in File, Scan(f) \/ Measure(f) \/ SizeOf(f) \/ StatVictim(f) \/ Unlink(f)
      PROVE  SettledInv'
  <2>1. pc' \notin Concluded
    BY <1>6 DEF Scan, Measure, SizeOf, StatVictim, Unlink, Concluded
  <2> QED
    BY <2>1 DEF SettledInv
<1>7. ASSUME NEW f \in File, Arrive(f) \/ Vanish(f) PROVE SettledInv'
  BY <1>7 DEF Arrive, Vanish, Disturb, SettledInv
<1>8. CASE Call \/ ListDir \/ Return
  <2>1. pc' \notin Concluded
    BY <1>8 DEF Call, ListDir, Return, Concluded
  <2> QED
    BY <2>1 DEF SettledInv
<1> QED
  BY <1>1, <1>2, <1>3, <1>4, <1>5, <1>6, <1>7, <1>8 DEF Next, CleanStep, Others

LEMMA MeasuredStep ==
  TypeOK /\ ArmedInv /\ PhaseInv /\ AgedInv /\ FoundInv /\ CounterInv /\ MeasuredInv /\ [Next]_vars
    => MeasuredInv'
<1> SUFFICES ASSUME TypeOK, ArmedInv, PhaseInv, AgedInv, FoundInv, CounterInv, MeasuredInv,
                    [Next]_vars
             PROVE  MeasuredInv'
  OBVIOUS
<1>0. DiskOK /\ candidates \in SUBSET File /\ unlinked \in SUBSET File /\ todo \in SUBSET File
      /\ reclaimed \in Nat
  BY DEF TypeOK, LocalsOK, HistoryOK
<1>1. CASE CheckDir
  <2>1. CASE pc' = "flatpak"
    <3>1. /\ pc = "exists" /\ dir = "absent" /\ candidates = {} /\ total' = total + 0
          /\ UNCHANGED <<fs, dir, candidates, quiet>>
      BY <1>1, <2>1 DEF CheckDir, DirExists, Conclude, PhaseInv, envVars, fileVars, histVars
    <3>2. total = 0 /\ Bytes(fs, {}) = 0
      BY <1>0, <3>1, NoBytes DEF CounterInv, Early
    <3> QED
      BY <2>1, <3>1, <3>2 DEF MeasuredInv, Concluded
  <2>2. CASE pc' = "list"
    BY <1>1, <2>2 DEF CheckDir, MeasuredInv, Concluded, fileVars
  <2> QED
    BY <1>1, <2>1, <2>2 DEF CheckDir, Conclude
<1>2. CASE EndScan
  <2>1. /\ pc = "scan" /\ todo = {} /\ unlinked = {} /\ reclaimed = 0 /\ total = 0
        /\ UNCHANGED <<fs, dir, cutoff, candidates, reclaimed, unlinked, quiet>>
    BY <1>2 DEF EndScan, PhaseInv, CounterInv, MeasuredInv, Early, envVars, histVars
  <2>2. Bytes(fs, {}) = 0
    BY <1>0, NoBytes
  <2>3. CASE candidates = {}
    <3>1. pc' = "flatpak" /\ total' = total + 0
      BY <1>2, <2>3 DEF EndScan, Conclude
    <3>2. quiet => \A f \in File : ~Aged(f)
      BY <2>1, <2>3 DEF FoundInv
    <3>3. quiet => candidates' \ unlinked' = {f \in File : Aged(f)'}
      BY <2>1, <2>3, <3>2 DEF Aged
    <3> QED
      BY <2>1, <2>2, <2>3, <3>1, <3>3 DEF MeasuredInv, Concluded
  <2>4. CASE candidates # {}
    <3>1. pc' = "measure" /\ todo' = candidates
      BY <1>2, <2>4 DEF EndScan
    <3>2. candidates' \ todo' = {}
      BY <2>1, <3>1
    <3> QED
      BY <2>1, <2>2, <3>1, <3>2 DEF MeasuredInv, Concluded
  <2> QED
    BY <2>3, <2>4
<1>3. ASSUME NEW f \in File, Measure(f) PROVE MeasuredInv'
  <2>1. pc = "measure" /\ UNCHANGED <<fs, candidates, reclaimed, quiet>> /\ Next1(f)
    BY <1>3 DEF Measure, envVars, histVars
  <2>2. quiet => Present(f)
    BY <2>1 DEF Next1, PhaseInv, AgedInv, Visiting, Aged, Present
  <2>3. pc' \in {"measure", "size"} /\ (Present(f) => todo' = todo)
    BY <1>3, <2>1 DEF Measure
  <2> QED
    BY <2>1, <2>2, <2>3 DEF MeasuredInv, Concluded
<1>4. ASSUME NEW f \in File, SizeOf(f) PROVE MeasuredInv'
  <2>1. pc = "size" /\ UNCHANGED <<fs, candidates, quiet>> /\ Next1(f)
    BY <1>4 DEF SizeOf, envVars, histVars
  <2>2. f \in candidates /\ f \in todo /\ todo \subseteq candidates
    BY <2>1 DEF Next1, PhaseInv, Visiting
  <2>3. CASE Present(f)
    <3>1. reclaimed' = reclaimed + fs[f].size /\ todo' = todo \ {f} /\ pc' = "measure"
      BY <1>4, <2>3 DEF SizeOf
    <3>2. candidates' \ todo' = (candidates \ todo) \cup {f}
      BY <2>1, <2>2, <3>1
    <3>3. candidates \ todo \in SUBSET File /\ f \in File \ (candidates \ todo)
      BY <1>0, <2>2
    <3>4. Bytes(fs, (candidates \ todo) \cup {f}) = Bytes(fs, candidates \ todo) + fs[f].size
      BY <1>0, <3>3, OneMore
    <3>5. quiet => reclaimed = Bytes(fs, candidates \ todo)
      BY <2>1 DEF MeasuredInv
    <3> QED
      BY <2>1, <3>1, <3>2, <3>4, <3>5 DEF MeasuredInv, Concluded
  <2>4. CASE ~Present(f)
    BY <1>4, <2>4 DEF SizeOf, MeasuredInv, Concluded
  <2> QED
    BY <2>3, <2>4
<1>5. CASE Decide
  <2>1. /\ pc = "measure" /\ todo = {} /\ unlinked = {} /\ total = 0
        /\ UNCHANGED <<fs, dir, dryRun, cutoff, candidates, unlinked, quiet>>
    BY <1>5 DEF Decide, PhaseInv, CounterInv, Early, envVars, histVars
  <2>2. quiet => reclaimed = Bytes(fs, candidates)
    <3>1. candidates \ todo = candidates
      BY <2>1
    <3> QED
      BY <2>1, <3>1 DEF MeasuredInv
  <2>3. quiet => candidates \ unlinked = {f \in File : Aged(f)}
    BY <1>0, <2>1 DEF AgedInv, FoundInv, Visiting
  <2>4. quiet => candidates' \ unlinked' = {f \in File : Aged(f)'}
    BY <2>1, <2>3 DEF Aged
  <2>5. /\ pc' \in {"flatpak", "delete"}
        /\ pc' = "flatpak" /\ dryRun => total' = total + reclaimed
    BY <1>5 DEF Decide, MayDelete, Conclude
  <2>6. quiet /\ pc' \in Concluded /\ dryRun' => total' = Bytes(fs', candidates')
    <3>1. total + reclaimed = reclaimed
      BY <1>0, <2>1
    <3> QED
      BY <2>1, <2>2, <2>5, <3>1 DEF Concluded
  <2> QED
    BY <2>1, <2>4, <2>5, <2>6 DEF MeasuredInv
<1>6. CASE EndDelete
  <2>1. /\ pc = "delete" /\ pc' = "flatpak" /\ ~dryRun
        /\ UNCHANGED <<fs, dir, dryRun, cutoff, candidates, unlinked, quiet>>
    BY <1>6 DEF EndDelete, Conclude, ArmedInv, MayDelete, envVars, fileVars, histVars
  <2>2. quiet => candidates \ unlinked = {f \in File : Aged(f)}
    BY <1>0, <2>1 DEF AgedInv, FoundInv, Visiting
  <2>3. quiet => candidates' \ unlinked' = {f \in File : Aged(f)'}
    BY <2>1, <2>2 DEF Aged
  <2> QED
    BY <2>1, <2>3 DEF MeasuredInv, Concluded
<1>7. CASE CleanFlatpak \/ CleanPackageCache
  <2>1. /\ pc \in Concluded /\ pc' \in Concluded
        /\ UNCHANGED <<fs, dir, dryRun, cutoff, candidates, total, unlinked, quiet>>
    BY <1>7 DEF CleanFlatpak, CleanPackageCache, Report, Run, Concluded, envVars, fileVars
  <2>2. {f \in File : Aged(f)'} = {f \in File : Aged(f)}
    BY <2>1 DEF Aged
  <2> QED
    BY <2>1, <2>2 DEF MeasuredInv, Concluded
<1>8. CASE Tick \/ UNCHANGED vars
  <2>1. UNCHANGED <<fs, dir, dryRun, cutoff, candidates, todo, reclaimed, total, unlinked, quiet, pc>>
    BY <1>8 DEF Tick, vars, envVars, fileVars, reportVars, histVars
  <2>2. {f \in File : Aged(f)'} = {f \in File : Aged(f)}
    BY <2>1 DEF Aged
  <2> QED
    BY <2>1, <2>2 DEF MeasuredInv
<1>9. ASSUME NEW f \in File, Arrive(f) \/ Vanish(f) PROVE MeasuredInv'
  BY <1>9 DEF Arrive, Vanish, Disturb, MeasuredInv, fileVars
<1>10. ASSUME NEW f \in File, Scan(f) \/ StatVictim(f) \/ Unlink(f) PROVE MeasuredInv'
  BY <1>10 DEF Scan, StatVictim, Unlink, MeasuredInv, Concluded
<1>11. CASE Call \/ ListDir \/ Return
  BY <1>11 DEF Call, ListDir, Return, MeasuredInv, Concluded, Resting
<1> QED
  BY <1>1, <1>2, <1>3, <1>4, <1>5, <1>6, <1>7, <1>8, <1>9, <1>10, <1>11 DEF Next, CleanStep, Others

LEMMA PlanStep ==
  TypeOK /\ ArmedInv /\ PhaseInv /\ AgedInv /\ FoundInv /\ CounterInv /\ MeasuredInv /\ PlanInv
    /\ [Next]_vars => PlanInv'
<1> SUFFICES ASSUME TypeOK, ArmedInv, PhaseInv, AgedInv, FoundInv, CounterInv, MeasuredInv,
                    PlanInv, [Next]_vars, plan'.valid
             PROVE  PlanInv'
  BY DEF PlanInv
<1>0. DiskOK /\ candidates \in SUBSET File /\ unlinked \in SUBSET File /\ todo \in SUBSET File
      /\ freed \in Nat /\ plan \in Plan
  BY DEF TypeOK, LocalsOK, HistoryOK
<1>p. plan' = plan =>
        /\ quiet /\ dir = "open"
        /\ pc \in Resting => unlinked = {} /\ freed = 0
        /\ plan.files \ unlinked = Due(plan.cutoff)
        /\ unlinked \subseteq plan.files => plan.bytes = freed + Bytes(fs, plan.files \ unlinked)
        /\ plan.cutoff = cutoff /\ pc \in Visiting \cup Concluded => candidates = plan.files
  BY DEF PlanInv
\* A step that removes nothing and leaves the plan: what remains is where the call stands.
<1>k. ASSUME UNCHANGED <<fs, dir, unlinked, freed, quiet, plan>>,
             pc' \in Resting => unlinked = {} /\ freed = 0,
             plan.cutoff = cutoff' /\ pc' \in Visiting \cup Concluded => candidates' = plan.files
      PROVE  PlanInv'
  <2>1. Due(plan.cutoff)' = Due(plan.cutoff)
    BY <1>k DEF Due
  <2> QED
    BY <1>p, <1>k, <2>1 DEF PlanInv
<1>1. CASE Call
  <2>1. /\ UNCHANGED <<fs, dir, plan>> /\ quiet' = TRUE /\ unlinked' = {} /\ freed' = 0
        /\ pc \in Resting /\ pc' = "exists"
    BY <1>1 DEF Call, envVars
  <2>2. unlinked = {} /\ freed = 0
    BY <1>p, <2>1
  <2>3. Due(plan.cutoff)' = Due(plan.cutoff)
    BY <2>1 DEF Due
  <2> QED
    BY <1>p, <2>1, <2>2, <2>3 DEF PlanInv, Resting, Visiting, Concluded
<1>2. CASE CheckDir \/ ListDir
  <2>1. UNCHANGED <<fs, dir, unlinked, freed, quiet, plan>> /\ pc \in {"exists", "list"}
    BY <1>2 DEF CheckDir, ListDir, envVars, histVars
  <2>2. unlinked = {} /\ freed = 0
    BY <2>1 DEF PhaseInv, CounterInv, Early
  <2>3. pc' \in {"list", "scan"}
    BY <1>2, <1>p, <2>1 DEF CheckDir, ListDir, Lists, DirExists
  <2> QED
    BY <1>k, <2>1, <2>2, <2>3 DEF Visiting, Concluded
<1>3. CASE EndScan
  <2>1. /\ UNCHANGED <<fs, dir, cutoff, candidates, unlinked, freed, quiet, plan>> /\ pc = "scan"
        /\ todo = {} /\ pc' \in {"flatpak", "measure"}
    BY <1>3 DEF EndScan, Conclude, envVars, histVars
  <2>2. unlinked = {} /\ quiet
    BY <1>p, <2>1 DEF PhaseInv
  <2>3. candidates = {f \in File : Aged(f)}
    BY <1>0, <2>1, <2>2 DEF AgedInv, FoundInv, Visiting
  <2>4. plan.cutoff = cutoff => candidates = Due(plan.cutoff)
    BY <2>3 DEF Due, Aged
  <2>5. plan.files = Due(plan.cutoff)
    BY <1>p, <2>1, <2>2
  <2> QED
    BY <1>k, <2>1, <2>2, <2>4, <2>5 DEF Resting
<1>4. ASSUME NEW f \in File, Scan(f) PROVE PlanInv'
  <2>1. UNCHANGED <<fs, dir, unlinked, freed, quiet, plan>> /\ pc' = "scan"
    BY <1>4, <1>p DEF Scan, envVars, histVars
  <2> QED
    BY <1>k, <2>1 DEF Resting, Visiting, Concluded
<1>5. ASSUME NEW f \in File, Measure(f) \/ SizeOf(f) \/ StatVictim(f) PROVE PlanInv'
  <2>1. /\ UNCHANGED <<fs, dir, cutoff, candidates, unlinked, freed, quiet, plan>>
        /\ pc \in Visiting
    BY <1>5 DEF Measure, SizeOf, StatVictim, envVars, histVars, Visiting
  <2>2. pc' \in Resting => pc = "size"
    BY <1>5 DEF Measure, SizeOf, StatVictim, Resting
  <2>3. pc = "size" => unlinked = {} /\ freed = 0
    BY DEF PhaseInv, CounterInv, Early
  <2> QED
    BY <1>k, <1>p, <2>1, <2>2, <2>3
<1>6. CASE Decide \/ EndDelete
  <2>1. /\ UNCHANGED <<fs, dir, cutoff, candidates, unlinked, freed, quiet, plan>>
        /\ pc \in Visiting /\ pc' \notin Resting
    BY <1>6 DEF Decide, EndDelete, Conclude, envVars, fileVars, histVars, Visiting, Resting
  <2> QED
    BY <1>k, <1>p, <2>1
<1>7. CASE CleanFlatpak \/ CleanPackageCache
  <2>1. /\ UNCHANGED <<fs, dir, cutoff, candidates, unlinked, freed, quiet, plan>>
        /\ pc \in Concluded /\ pc' \notin Resting
    BY <1>7 DEF CleanFlatpak, CleanPackageCache, Report, Run, envVars, fileVars, Concluded, Resting
  <2> QED
    BY <1>k, <1>p, <2>1
<1>8. CASE Tick \/ UNCHANGED vars
  <2>1. UNCHANGED <<fs, dir, cutoff, candidates, unlinked, freed, quiet, plan, pc>>
    BY <1>8 DEF Tick, vars, envVars, fileVars, histVars
  <2> QED
    BY <1>k, <1>p, <2>1
<1>9. CASE Return
  <2>1. /\ pc = "return" /\ pc' = "returned" /\ dryRun /\ quiet /\ dir = "open"
        /\ plan' = [valid |-> TRUE, files |-> candidates, bytes |-> total, cutoff |-> cutoff]
        /\ UNCHANGED <<fs, dir, cutoff, candidates, unlinked, freed, quiet>>
    BY <1>9 DEF Return, NoPlan, envVars, fileVars
  <2>2. unlinked = {} /\ freed = 0
    BY <2>1 DEF ArmedInv, OnlyArmedCallsAct
  <2>3. total = Bytes(fs, candidates) /\ candidates = {f \in File : Aged(f)}
    BY <2>1, <2>2 DEF MeasuredInv, Concluded
  <2>4. candidates = Due(plan.cutoff)'
    BY <2>1, <2>3 DEF Due, Aged
  <2>5. plan'.files \ unlinked' = candidates /\ plan'.bytes = total /\ plan'.files = candidates
    BY <2>1, <2>2
  <2>6. freed' + Bytes(fs', plan'.files \ unlinked') = total
    <3>1. Bytes(fs, candidates) \in Nat
      BY <1>0, DirectoryWeighs
    <3> QED
      BY <2>1, <2>2, <2>3, <2>5, <3>1
  <2> QED
    BY <2>1, <2>2, <2>4, <2>5, <2>6 DEF PlanInv
<1>10. ASSUME NEW f \in File, Unlink(f) PROVE PlanInv'
  <2>1. /\ UNCHANGED <<dir, cutoff, candidates, quiet, plan>> /\ pc = "unlink" /\ pc' = "delete"
        /\ Next1(f)
    BY <1>10 DEF Unlink
  <2>2. CASE ~UnlinkWorks(f)
    <3>1. UNCHANGED <<fs, unlinked, freed>>
      BY <1>10, <2>2 DEF Unlink
    <3> QED
      BY <1>k, <1>p, <2>1, <3>1 DEF Resting, Visiting
  <2>3. CASE UnlinkWorks(f)
    <3>1. /\ fs' = [fs EXCEPT ![f] = NoFile] /\ unlinked' = unlinked \cup {f}
          /\ freed' = freed + fs[f].size
      BY <1>10, <2>3 DEF Unlink
    <3>2. f \notin unlinked
      BY <2>1 DEF Next1, PhaseInv, Visiting
    <3>3. Due(plan.cutoff)' = Due(plan.cutoff) \ {f}
      <4>1. /\ fs'[f].kind = "none"
            /\ \A g \in File \ {f} : fs'[g] = fs[g]
        BY <1>0, <3>1 DEF DiskOK, NoFile
      <4> QED
        BY <2>1, <4>1 DEF Due
    <3>4. plan.files \ unlinked' = (plan.files \ unlinked) \ {f}
      BY <3>1
    <3>5. ASSUME unlinked' \subseteq plan.files
          PROVE  plan.bytes = freed' + Bytes(fs', plan.files \ unlinked')
      <4>1. PICK R : R = plan.files \ unlinked'
        OBVIOUS
      <4>2. /\ R \in SUBSET File /\ f \in File \ R /\ plan.files \ unlinked = R \cup {f}
            /\ unlinked \subseteq plan.files
        BY <1>0, <3>1, <3>2, <3>5, <4>1 DEF Plan
      <4>3. plan.bytes = freed + Bytes(fs, R \cup {f})
        BY <1>p, <2>1, <4>2
      <4>4. /\ Bytes(fs, R) \in Nat /\ fs[f].size \in Nat
            /\ Bytes(fs, R \cup {f}) = Bytes(fs, R) + fs[f].size
        BY <1>0, <4>2, OneMore
      <4>5. Bytes(fs', R) = Bytes(fs, R)
        BY <1>0, <3>1, <4>2, OthersStay
      <4>6. plan.bytes = freed' + Bytes(fs, R)
        BY <1>0, <3>1, <4>3, <4>4
      <4> QED
        BY <4>1, <4>5, <4>6
    <3> QED
      BY <1>p, <2>1, <3>1, <3>3, <3>4, <3>5 DEF PlanInv, Resting, Visiting
  <2> QED
    BY <2>2, <2>3
<1>11. ASSUME NEW f \in File, Arrive(f) \/ Vanish(f) PROVE PlanInv'
  BY <1>11 DEF Arrive, Vanish, Disturb, NoPlan
<1> QED
  BY <1>1, <1>2, <1>3, <1>4, <1>5, <1>6, <1>7, <1>8, <1>9, <1>10, <1>11 DEF Next, CleanStep, Others

AccountInv == CounterInv /\ SettledInv /\ MeasuredInv /\ PlanInv

LEMMA Accounting ==
  Spec => [](TypeOK /\ ArmedInv /\ SelectionInv /\ FoundInv /\ RefusedInv /\ AccountInv)
<1>1. Init => ArmedInv /\ FoundInv /\ RefusedInv /\ AccountInv
  <2>1. Init => ArmedInv /\ FoundInv /\ RefusedInv
    BY DEF Init, ArmedInv, OnlyArmedCallsAct, FoundInv, RefusedInv, Visiting
  <2>2. Init => CounterInv /\ SettledInv /\ MeasuredInv
    BY DEF Init, CounterInv, SettledInv, MeasuredInv, Early, Concluded
  <2>3. Init => PlanInv
    BY DEF Init, PlanInv, NoPlan
  <2> QED
    BY <2>1, <2>2, <2>3 DEF AccountInv
<1>2. /\ TypeOK /\ ArmedInv /\ SelectionInv /\ FoundInv /\ RefusedInv /\ AccountInv /\ [Next]_vars
      => ArmedInv' /\ FoundInv' /\ RefusedInv' /\ AccountInv'
  BY ArmedStep, FoundStep, RefusedStep, CounterStep, SettledStep, MeasuredStep, PlanStep
     DEF SelectionInv, AccountInv
<1> QED
  BY <1>1, <1>2, Selection, PTL DEF Spec

\* Undisturbed, removed_count is the number of files that went, and the bytes
\* counted beyond those freed are exactly those of the files unlink() refused:
\* clean.py:135 adds the size before line 136 tries to remove the file.
THEOREM CountersAreExact == Spec => []QuietAccounting
<1>1. SettledInv => QuietAccounting
  BY DEF SettledInv, QuietAccounting, Concluded, Bytes
<1> QED
  BY <1>1, Accounting, PTL DEF AccountInv

\* What a dry run announced and nobody disturbed is what the next call with the
\* same threshold day selects and, where unlink() refuses nothing, what it
\* removes, counts and reports, file by file and byte by byte.
THEOREM PlansAreHonoured == Spec => []PlanHonoured
<1>1. TypeOK /\ SettledInv /\ PlanInv => PlanHonoured
  <2> SUFFICES ASSUME TypeOK, SettledInv, PlanInv, pc = "return", ~dryRun, plan.valid,
                      plan.cutoff = cutoff
               PROVE  /\ candidates = plan.files
                      /\ MayDelete /\ candidates \cap stuck = {} =>
                           /\ unlinked = plan.files /\ removed = Cardinality(plan.files)
                           /\ total = plan.bytes
    BY DEF PlanHonoured
  <2>1. DiskOK /\ freed \in Nat
    BY DEF TypeOK, HistoryOK
  <2>2. candidates = plan.files /\ quiet
    BY DEF PlanInv, Concluded
  <2>3. ASSUME MayDelete, candidates \cap stuck = {}
        PROVE  unlinked = plan.files /\ removed = Cardinality(plan.files) /\ total = plan.bytes
    <3>1. /\ removed = Cardinality(unlinked) /\ total = deletedBytes
          /\ deletedBytes = freed + Bytes(fs, candidates \ unlinked)
          /\ unlinked \subseteq candidates /\ candidates \ unlinked \subseteq stuck
      BY <2>2, <2>3 DEF SettledInv, Concluded
    <3>2. unlinked = candidates /\ candidates \ unlinked = {}
      BY <2>3, <3>1
    <3>3. plan.bytes = freed + Bytes(fs, plan.files \ unlinked)
      BY <2>2, <3>2 DEF PlanInv
    <3> QED
      BY <2>2, <3>1, <3>2, <3>3
  <2> QED
    BY <2>2, <2>3
<1> QED
  BY <1>1, Accounting, PTL DEF AccountInv
------------------------------------------------------------------------------
(***************************************************************************)
(* Why every call ends, as far as it can be said without fairness: a call  *)
(* that is not over has something to do, each thing it does brings it to a *)
(* later stage or leaves less to do at this one, and nobody else brings it *)
(* back.  A file at hand (pc is "size" or "unlink") counts for half.       *)
(***************************************************************************)
Stage == IF pc = "exists" THEN 8 ELSE IF pc = "list" THEN 7 ELSE IF pc = "scan" THEN 6
         ELSE IF pc \in {"measure", "size"} THEN 5 ELSE IF pc \in {"delete", "unlink"} THEN 4
         ELSE IF pc = "flatpak" THEN 3 ELSE IF pc = "package" THEN 2
         ELSE IF pc = "return" THEN 1 ELSE 0
Left == 2 * Cardinality(todo) - (IF pc \in {"size", "unlink"} THEN 1 ELSE 0)
Closer == Stage' < Stage \/ (Stage' = Stage /\ Left' < Left)

AtHandInv == pc \in {"size", "unlink"} => todo # {}
\* What the code needs at each stage to go on.
Ready ==
  /\ pc \in {"scan", "measure", "delete"} => todo = {} \/ \E f \in File : Next1(f)
  /\ pc \in {"size", "unlink"} => \E f \in File : Next1(f)
  /\ pc = "package" => tools \cap Manager = {} \/ \E tool \in tools : FirstManager(tool)

LEMMA OneLess ==
  ASSUME TypeOK, NEW f \in todo
  PROVE  /\ Cardinality(todo) \in Nat /\ Cardinality(todo \ {f}) = Cardinality(todo) - 1
<1>1. IsFiniteSet(todo)
  BY CleanAssumption, FS_Subset DEF TypeOK, LocalsOK
<1> QED
  BY <1>1, FS_CardinalityType, FS_RemoveElement

LEMMA StepIsCloser == TypeOK /\ CleanStep => Closer
<1> SUFFICES ASSUME TypeOK, CleanStep PROVE Closer
  OBVIOUS
<1>1. CASE CheckDir \/ ListDir \/ EndScan \/ Decide \/ EndDelete
  BY <1>1 DEF CheckDir, ListDir, EndScan, Decide, EndDelete, Conclude, Closer, Stage
<1>2. CASE CleanFlatpak \/ CleanPackageCache \/ Return
  BY <1>2 DEF CleanFlatpak, CleanPackageCache, Return, Report, Run, Closer, Stage
<1>3. ASSUME NEW f \in File, Scan(f) \/ Measure(f) \/ SizeOf(f) \/ StatVictim(f) \/ Unlink(f)
      PROVE  Closer
  <2>1. f \in todo
    BY <1>3 DEF Scan, Measure, SizeOf, StatVictim, Unlink, Next1
  <2>2. PICK n \in Nat : n = Cardinality(todo) /\ Cardinality(todo \ {f}) = n - 1
    BY <2>1, OneLess
  <2>3. CASE Scan(f)
    BY <2>2, <2>3 DEF Scan, Closer, Stage, Left
  <2>4. CASE Measure(f)
    BY <2>2, <2>4 DEF Measure, Passed, Closer, Stage, Left
  <2>5. CASE SizeOf(f)
    BY <2>2, <2>5 DEF SizeOf, Closer, Stage, Left
  <2>6. CASE StatVictim(f)
    <3>1. \/ pc' = "unlink" /\ todo' = todo
          \/ pc' = "delete" /\ todo' = todo \ {f}
      BY <2>6 DEF StatVictim
    <3>2. pc = "delete"
      BY <2>6 DEF StatVictim
    <3>3. Stage' = Stage
      BY <3>1, <3>2 DEF Stage
    <3>4. Left = 2 * n
      BY <2>2, <3>2 DEF Left
    <3>5. CASE pc' = "unlink" /\ todo' = todo
      <4>1. Left' = 2 * n - 1
        BY <2>2, <3>5 DEF Left
      <4> QED
        BY <3>3, <3>4, <4>1 DEF Closer
    <3>6. CASE pc' = "delete" /\ todo' = todo \ {f}
      <4>1. Cardinality(todo') = n - 1
        BY <2>2, <3>6
      <4>2. Left' = 2 * (n - 1)
        BY <3>6, <4>1 DEF Left
      <4> QED
        BY <3>3, <3>4, <4>2 DEF Closer
    <3> QED
      BY <3>1, <3>5, <3>6
  <2>7. CASE Unlink(f)
    BY <2>2, <2>7 DEF Unlink, Closer, Stage, Left
  <2> QED
    BY <1>3, <2>3, <2>4, <2>5, <2>6, <2>7
<1> QED
  BY <1>1, <1>2, <1>3 DEF CleanStep

LEMMA AtHandStep == AtHandInv /\ [Next]_vars => AtHandInv'
<1> SUFFICES ASSUME AtHandInv, [Next]_vars PROVE AtHandInv'
  OBVIOUS
<1> USE DEF AtHandInv
<1>1. CASE Call \/ CheckDir \/ ListDir \/ EndScan \/ Decide \/ EndDelete
  BY <1>1 DEF Call, CheckDir, ListDir, EndScan, Decide, EndDelete, Conclude
<1>2. CASE CleanFlatpak \/ CleanPackageCache \/ Return
  BY <1>2 DEF CleanFlatpak, CleanPackageCache, Return, Report, Run
<1>3. ASSUME NEW f \in File, Scan(f) \/ Measure(f) \/ SizeOf(f) \/ StatVictim(f) \/ Unlink(f)
      PROVE  AtHandInv'
  BY <1>3 DEF Scan, Measure, SizeOf, StatVictim, Unlink, Next1
<1>4. ASSUME NEW f \in File, Arrive(f) \/ Vanish(f) PROVE AtHandInv'
  BY <1>4 DEF Arrive, Vanish, Disturb, fileVars
<1>5. CASE Tick \/ UNCHANGED vars
  BY <1>5 DEF Tick, vars, fileVars
<1> QED
  BY <1>1, <1>2, <1>3, <1>4, <1>5 DEF Next, CleanStep, Others

\* A call that is not over is never without a next step: where a loop has names
\* left one of them comes first (sorted() at clean.py:95), where it has one at
\* hand there is one, and if a package manager is installed one is chosen.
THEOREM NeverStuck == Spec => [](Ready /\ Left \in Nat)
<1>1. TypeOK /\ AtHandInv => Ready /\ Left \in Nat
  <2> SUFFICES ASSUME TypeOK, AtHandInv PROVE Ready /\ Left \in Nat
    OBVIOUS
  <2>1. todo \in SUBSET File /\ todo \in SUBSET Nat /\ tools \in SUBSET Tool
    BY CleanAssumption DEF TypeOK, LocalsOK, DiskOK
  <2>2. todo # {} => \E f \in File : Next1(f)
    BY <2>1, LeastElement DEF Next1
  <2>3. tools \cap Manager # {} => \E tool \in tools : FirstManager(tool)
    BY <2>1 DEF FirstManager, Manager, Tool
  <2>4. Cardinality(todo) \in Nat /\ (todo # {} => Cardinality(todo) # 0)
    <3>1. IsFiniteSet(todo)
      BY <2>1, CleanAssumption, FS_Subset
    <3> QED
      BY <3>1, FS_CardinalityType, FS_EmptySet
  <2>5. Left \in Nat
    BY <2>4 DEF Left, AtHandInv
  <2> QED
    BY <2>2, <2>3, <2>5 DEF Ready, AtHandInv
<1>2. Init => AtHandInv
  BY DEF Init, AtHandInv
<1> QED
  BY <1>1, <1>2, AtHandStep, TypeCorrect, PTL DEF Spec

\* A call takes finitely many steps, whatever the number of files and however
\* the directory changes: each step of the code lowers the pair of Stage and
\* Left, natural numbers, and no step of anybody else touches it.
THEOREM StepsRunOut ==
  Spec => [][(CleanStep => Closer) /\ (Others => UNCHANGED <<Stage, Left>>)]_vars
<1>1. TypeOK /\ [Next]_vars =>
        [(CleanStep => Closer) /\ (Others => UNCHANGED <<Stage, Left>>)]_vars
  <2>1. Others => UNCHANGED <<pc, todo>>
    BY DEF Others, Tick, Arrive, Vanish, Disturb, fileVars
  <2>2. UNCHANGED <<pc, todo>> => UNCHANGED <<Stage, Left>>
    BY DEF Stage, Left
  <2> QED
    BY <2>1, <2>2, StepIsCloser
<1> QED
  BY <1>1, TypeCorrect, PTL DEF Spec
==============================================================================
