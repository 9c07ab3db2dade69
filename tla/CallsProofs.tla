------------------------------ MODULE CallsProofs -----------------------------
(***************************************************************************)
(* Proofs about the report and the diagnosis, and about the program that   *)
(* calls one component or another (module Calls): what is proved of a      *)
(* component alone holds of every call.                                    *)
(***************************************************************************)
EXTENDS Calls, ProcessesProofs, DataLemmas
------------------------------------------------------------------------------
(***************************************************************************)
(* For any number of mounts, units, listeners and devices and any number   *)
(* of changes: the sections show what did not change as it is, and a saved *)
(* report is lost to another only if the two were named in the same second *)
(* or the clock was set back.                                              *)
(*                                                                         *)
(* The argument about the files has two halves.  A file that was written   *)
(* whole is on the disk as long as nobody writes to the same path          *)
(* (KeptInv); and while the clock only runs forward, the path is the       *)
(* second the file was named at (NamedInv), so that two files of one path  *)
(* are files of one second.                                                *)
(***************************************************************************)
Second == 0..MaxSecond
Path == Place \X Second

\* The clock and the seconds passed, the name chosen, the files.
ClockOK == wallClock \in Second /\ second \in Second /\ clockSets \in {0, 1}
FilesOK == /\ savePath \in Path /\ namedAt \in Second
           /\ DOMAIN disk = Path
           /\ \A f \in made : f.path \in Path

\* Until it is set back, the clock tells the seconds passed, and so do the names.
NamedInv == clockSets = 0 =>
              /\ wallClock = second
              /\ reportPc = "write" => savePath[2] = namedAt
              /\ \A f \in made : f.path[2] = f.at

\* What is gone from the disk was written over.
KeptInv == \A f \in made :
             f.whole => disk[f.path] = f.by \/ \E g \in made : g # f /\ g.path = f.path

FileInv == ClockOK /\ FilesOK /\ NamedInv /\ KeptInv

LEMMA FileInit == ReportInit => FileInv
<1>1. 0 \in Second
  BY ReportAssumption DEF ReportAssumption, Second
<1>2. ASSUME ReportInit PROVE ClockOK /\ FilesOK
  BY <1>1, <1>2 DEF ReportInit, ClockOK, FilesOK, Path, Place, Second
<1>3. ASSUME ReportInit PROVE NamedInv /\ KeptInv
  BY <1>3 DEF ReportInit, NamedInv, KeptInv
<1> QED BY <1>2, <1>3 DEF FileInv

\* A path that is written to holds what was written, every other what it held.
LEMMA Writing ==
  ASSUME FilesOK, KeptInv, NEW by, NEW path \in Path, NEW at, Write(by, path, at)
  PROVE  /\ DOMAIN disk' = Path
         /\ \A f \in made' : f \in made \/ (f.path = path /\ f.at = at)
         /\ KeptInv'
<1>1. PICK content \in {by, "cut"} :
        /\ disk' = [disk EXCEPT ![path] = content]
        /\ made' = made \cup {[by |-> by, path |-> path, at |-> at, whole |-> content = by]}
  BY DEF Write
<1>2. PICK new : new = [by |-> by, path |-> path, at |-> at, whole |-> content = by]
  OBVIOUS
<1>3. made' = made \cup {new}
  BY <1>1, <1>2
<1>4. new.by = by /\ new.path = path /\ new.at = at /\ (new.whole <=> content = by)
  BY <1>2
<1>5. DOMAIN disk' = Path
  BY <1>1 DEF FilesOK
<1>6. ASSUME NEW f \in made', f.whole
      PROVE  disk'[f.path] = f.by \/ \E g \in made' : g # f /\ g.path = f.path
  <2>1. CASE f = new
    BY <1>1, <1>4, <1>6, <2>1 DEF FilesOK
  <2>2. CASE f # new /\ f.path = path
    BY <1>3, <1>4, <2>2
  <2>3. CASE f # new /\ f.path # path
    <3>1. f \in made /\ f.path \in Path
      BY <1>3, <2>3 DEF FilesOK
    <3>2. disk'[f.path] = disk[f.path]
      BY <1>1, <2>3, <3>1 DEF FilesOK
    <3> QED BY <1>3, <1>6, <3>1, <3>2 DEF KeptInv
  <2> QED BY <2>1, <2>2, <2>3
<1>7. KeptInv'
  BY <1>6 DEF KeptInv
<1> QED BY <1>3, <1>4, <1>5, <1>7
------------------------------------------------------------------------------
\* The steps that have to do with neither a clock nor a file.

LEMMA Elsewhere ==
  ASSUME FileInv, UNCHANGED clockVars, UNCHANGED fileVars, reportPc' # "write" \/ UNCHANGED reportPc
  PROVE  FileInv'
BY DEF FileInv, ClockOK, FilesOK, NamedInv, KeptInv, clockVars, fileVars

LEMMA SectionsElsewhere ==
  ASSUME NEW s, NEW r, Section(s, r)
  PROVE  UNCHANGED <<clockVars, fileVars, reportPc>>
BY DEF Section

LEMMA ChangesElsewhere ==
  ASSUME NEW thing, NEW m, Alter(thing, m)
  PROVE  UNCHANGED <<clockVars, fileVars, reportPc>>
BY DEF Alter

LEMMA ReadingElsewhere ==
  ASSUME \/ TakeSnapshot \/ TakeSecurity \/ TakeContainers \/ TakeFirewall \/ TakeNetwork
         \/ TakeDoctor \/ ListUnits \/ ListFailed \/ ListMounts \/ StatMount \/ EndMounts
         \/ ListDevices \/ EndDevices \/ TakeCrash \/ TakeLatest
         \/ \E d \in Device : SizeDevice(d)
  PROVE  UNCHANGED <<clockVars, fileVars, reportPc>>
<1>1. CASE TakeSnapshot \/ TakeSecurity \/ TakeContainers \/ TakeFirewall \/ TakeNetwork
  BY <1>1, SectionsElsewhere
     DEF TakeSnapshot, TakeSecurity, TakeContainers, TakeFirewall, TakeNetwork
<1>2. CASE TakeDoctor \/ ListUnits \/ ListFailed \/ ListMounts \/ EndMounts
  BY <1>2, SectionsElsewhere DEF TakeDoctor, ListUnits, ListFailed, ListMounts, EndMounts
<1>3. CASE ListDevices \/ EndDevices \/ TakeCrash \/ TakeLatest
  BY <1>3, SectionsElsewhere DEF ListDevices, EndDevices, TakeCrash, TakeLatest
<1>4. CASE StatMount
  BY <1>4 DEF StatMount
<1>5. CASE \E d \in Device : SizeDevice(d)
  BY <1>5 DEF SizeDevice
<1> QED BY <1>1, <1>2, <1>3, <1>4, <1>5

LEMMA MachineElsewhere ==
  ASSUME \/ SocketToggles \/ DumpArrives
         \/ \E u \in Unit, s \in UnitState : UnitBecomes(u, s)
         \/ \E p \in MountPoint : MountOn(p) \/ Unmount(p)
         \/ \E d \in Device : Unplug(d)
         \/ \E l \in Listener : OpenOrClose(l)
  PROVE  UNCHANGED <<clockVars, fileVars, reportPc>>
<1>1. CASE SocketToggles \/ DumpArrives
  BY <1>1, ChangesElsewhere DEF SocketToggles, DumpArrives
<1>2. CASE \E u \in Unit, s \in UnitState : UnitBecomes(u, s)
  BY <1>2, ChangesElsewhere DEF UnitBecomes
<1>3. CASE \E p \in MountPoint : MountOn(p) \/ Unmount(p)
  BY <1>3, ChangesElsewhere DEF MountOn, Unmount
<1>4. CASE \E d \in Device : Unplug(d)
  BY <1>4, ChangesElsewhere DEF Unplug
<1>5. CASE \E l \in Listener : OpenOrClose(l)
  BY <1>5, ChangesElsewhere DEF OpenOrClose
<1> QED BY <1>1, <1>2, <1>3, <1>4, <1>5
------------------------------------------------------------------------------
LEMMA FileStep == FileInv /\ [ReportNext]_reportVars => FileInv'
<1> SUFFICES ASSUME FileInv, [ReportNext]_reportVars PROVE FileInv'
  OBVIOUS
<1>1. CASE \/ TakeSnapshot \/ TakeSecurity \/ TakeContainers \/ TakeFirewall \/ TakeNetwork
           \/ TakeDoctor \/ ListUnits \/ ListFailed \/ ListMounts \/ StatMount \/ EndMounts
           \/ ListDevices \/ EndDevices \/ TakeCrash \/ TakeLatest
           \/ \E d \in Device : SizeDevice(d)
  BY <1>1, ReadingElsewhere, Elsewhere
<1>2. CASE \/ SocketToggles \/ DumpArrives
           \/ \E u \in Unit, s \in UnitState : UnitBecomes(u, s)
           \/ \E p \in MountPoint : MountOn(p) \/ Unmount(p)
           \/ \E d \in Device : Unplug(d)
           \/ \E l \in Listener : OpenOrClose(l)
  BY <1>2, MachineElsewhere, Elsewhere
<1>3. CASE EndSections
  BY <1>3, Elsewhere DEF EndSections
<1>4. CASE TickSecond
  <2>1. ClockOK' /\ wallClock' = wallClock + 1 /\ second' = second + 1
    BY <1>4, ReportAssumption DEF TickSecond, FileInv, ClockOK, Second, ReportAssumption
  <2>2. UNCHANGED <<reportPc, fileVars, clockSets>>
    BY <1>4 DEF TickSecond
  <2> QED BY <2>1, <2>2 DEF FileInv, FilesOK, NamedInv, KeptInv, fileVars
<1>5. CASE SetBack
  <2>1. ClockOK' /\ clockSets' = 1
    BY <1>5, ReportAssumption DEF SetBack, FileInv, ClockOK, Second, ReportAssumption
  <2>2. UNCHANGED <<reportPc, fileVars>>
    BY <1>5 DEF SetBack
  <2> QED BY <2>1, <2>2 DEF FileInv, FilesOK, NamedInv, KeptInv, fileVars
<1>6. CASE NameFile
  <2>1. PICK d \in Place : savePath' = <<d, wallClock>>
    BY <1>6 DEF NameFile, Stamp
  <2>2. namedAt' = second /\ UNCHANGED <<clockVars, disk, made>>
    BY <1>6 DEF NameFile
  <2>3. savePath' \in Path /\ savePath'[2] = wallClock
    BY <2>1 DEF FileInv, ClockOK, Path
  <2>4. ClockOK' /\ FilesOK' /\ KeptInv'
    BY <2>2, <2>3 DEF FileInv, ClockOK, FilesOK, KeptInv, clockVars
  <2>5. NamedInv'
    BY <2>2, <2>3 DEF FileInv, NamedInv, clockVars
  <2> QED BY <2>4, <2>5 DEF FileInv
<1>7. CASE WriteFile
  <2>1. Write("ours", savePath, namedAt) /\ reportPc = "write" /\ reportPc' # "write"
    BY <1>7 DEF WriteFile
  <2>2. UNCHANGED <<clockVars, savePath, namedAt>>
    BY <1>7 DEF WriteFile
  <2>3. /\ DOMAIN disk' = Path
        /\ \A f \in made' : f \in made \/ (f.path = savePath /\ f.at = namedAt)
        /\ KeptInv'
    BY <2>1, Writing DEF FileInv, FilesOK
  <2>4. ClockOK' /\ FilesOK'
    BY <2>2, <2>3 DEF FileInv, ClockOK, FilesOK, clockVars
  <2>5. NamedInv'
    BY <2>1, <2>2, <2>3 DEF FileInv, NamedInv, clockVars
  <2> QED BY <2>3, <2>4, <2>5 DEF FileInv
<1>8. CASE OtherReport
  <2>1. PICK d \in Place : Write("other", <<d, wallClock>>, second)
    BY <1>8 DEF OtherReport, Stamp
  <2>2. UNCHANGED <<clockVars, reportPc, savePath, namedAt>>
    BY <1>8 DEF OtherReport
  <2>3. PICK path : path = <<d, wallClock>>
    OBVIOUS
  <2>4. path \in Path /\ path[2] = wallClock
    BY <2>3 DEF FileInv, ClockOK, Path
  <2>5. /\ DOMAIN disk' = Path
        /\ \A f \in made' : f \in made \/ (f.path = path /\ f.at = second)
        /\ KeptInv'
    BY <2>1, <2>3, <2>4, Writing DEF FileInv
  <2>6. ClockOK' /\ FilesOK'
    BY <2>2, <2>4, <2>5 DEF FileInv, ClockOK, FilesOK, clockVars
  <2>7. NamedInv'
    BY <2>2, <2>4, <2>5 DEF FileInv, NamedInv, clockVars
  <2> QED BY <2>5, <2>6, <2>7 DEF FileInv
<1>9. CASE UNCHANGED reportVars
  BY <1>9, Elsewhere DEF reportVars, clockVars, fileVars
<1> QED BY <1>1, <1>2, <1>3, <1>4, <1>5, <1>6, <1>7, <1>8, <1>9
        DEF ReportNext, ReportStep, ReportChange

\* A report written whole stays on the disk, unless another was named in the
\* same second or the clock was set back (cli.py:531).
THEOREM ReportsAreKept == ReportSpec => []ReportsKept
<1>1. FileInv => ReportsKept
  <2> SUFFICES ASSUME FileInv, NEW f \in made, f.whole, clockSets = 0, disk[f.path] # f.by
               PROVE  \E g \in made : g # f /\ g.at = f.at
    BY DEF ReportsKept, FileInv, ClockOK
  <2>1. PICK g \in made : g # f /\ g.path = f.path
    BY DEF FileInv, KeptInv
  <2>2. g.path[2] = g.at /\ f.path[2] = f.at
    BY DEF FileInv, NamedInv
  <2> QED BY <2>1, <2>2
<1> QED BY <1>1, FileInit, FileStep, PTL DEF ReportSpec
------------------------------------------------------------------------------
(***************************************************************************)
(* The agenda: what is left of it is a tail of the agenda of the command,  *)
(* whose sections are all different and list the mounts before they are    *)
(* looked at.                                                              *)
(***************************************************************************)
SectionName == {"snapshot", "security", "containers", "firewall", "doctor", "services", "failed",
                "mounts", "statvfs", "devices", "sizes", "crash", "network", "latest"}
Orderly(A) == /\ A \in Seq(SectionName)
              /\ \A i, j \in DOMAIN A : A[i] = A[j] => i = j
              /\ \A i, j \in DOMAIN A : A[i] = "mounts" /\ A[j] = "statvfs" => i < j

LEMMA AgendaOrderly == \A c \in ReportCall : Orderly(Agenda[c])
<1>1. Orderly(Agenda["report"])
  <2> DEFINE A == <<"snapshot", "security", "containers", "firewall", "doctor", "services",
                   "failed", "mounts", "statvfs", "devices", "sizes", "crash", "network">>
  <2>1. Agenda["report"] = A
    BY DEF Agenda
  <2>2. A \in Seq(SectionName) /\ DOMAIN A = 1..13
    BY DEF SectionName
  <2>3. \A i, j \in 1..13 : A[i] = A[j] => i = j
    OBVIOUS
  <2>4. \A i, j \in 1..13 : A[i] = "mounts" /\ A[j] = "statvfs" => i < j
    OBVIOUS
  <2> HIDE DEF A
  <2> QED
    BY <2>1, <2>2, <2>3, <2>4 DEF Orderly
<1>2. Orderly(Agenda["all"])
  <2> DEFINE A == <<"snapshot", "security", "firewall", "containers", "doctor", "network",
                   "services", "failed", "mounts", "statvfs", "devices", "sizes", "crash">>
  <2>1. Agenda["all"] = A
    BY DEF Agenda
  <2>2. A \in Seq(SectionName) /\ DOMAIN A = 1..13
    BY DEF SectionName
  <2>3. \A i, j \in 1..13 : A[i] = A[j] => i = j
    OBVIOUS
  <2>4. \A i, j \in 1..13 : A[i] = "mounts" /\ A[j] = "statvfs" => i < j
    OBVIOUS
  <2> HIDE DEF A
  <2> QED
    BY <2>1, <2>2, <2>3, <2>4 DEF Orderly
<1>3. Orderly(Agenda["services"])
  <2> DEFINE A == <<"services", "failed">>
  <2>1. Agenda["services"] = A
    BY DEF Agenda
  <2>2. A \in Seq(SectionName) /\ DOMAIN A = 1..2
    BY DEF SectionName
  <2>3. \A i, j \in 1..2 : A[i] = A[j] => i = j
    OBVIOUS
  <2>4. \A i, j \in 1..2 : A[i] = "mounts" /\ A[j] = "statvfs" => i < j
    OBVIOUS
  <2> HIDE DEF A
  <2> QED
    BY <2>1, <2>2, <2>3, <2>4 DEF Orderly
<1>4. Orderly(Agenda["storage"])
  <2> DEFINE A == <<"mounts", "statvfs", "devices", "sizes">>
  <2>1. Agenda["storage"] = A
    BY DEF Agenda
  <2>2. A \in Seq(SectionName) /\ DOMAIN A = 1..4
    BY DEF SectionName
  <2>3. \A i, j \in 1..4 : A[i] = A[j] => i = j
    OBVIOUS
  <2>4. \A i, j \in 1..4 : A[i] = "mounts" /\ A[j] = "statvfs" => i < j
    OBVIOUS
  <2> HIDE DEF A
  <2> QED
    BY <2>1, <2>2, <2>3, <2>4 DEF Orderly
<1>5. Orderly(Agenda["crash"])
  <2> DEFINE A == <<"crash", "latest">>
  <2>1. Agenda["crash"] = A
    BY DEF Agenda
  <2>2. A \in Seq(SectionName) /\ DOMAIN A = 1..2
    BY DEF SectionName
  <2>3. \A i, j \in 1..2 : A[i] = A[j] => i = j
    OBVIOUS
  <2>4. \A i, j \in 1..2 : A[i] = "mounts" /\ A[j] = "statvfs" => i < j
    OBVIOUS
  <2> HIDE DEF A
  <2> QED
    BY <2>1, <2>2, <2>3, <2>4 DEF Orderly
<1> QED
  BY <1>1, <1>2, <1>3, <1>4, <1>5 DEF ReportCall

Remaining(A) == {SubSeq(A, k, Len(A)) : k \in 1..(Len(A) + 1)}

LEMMA TailRemains ==
  ASSUME NEW A, Orderly(A), NEW s \in Remaining(A)
  PROVE  /\ Orderly(s)
         /\ s # <<>> => Tail(s) \in Remaining(A)
<1>1. /\ A \in Seq(SectionName) /\ Len(A) \in Nat /\ DOMAIN A = 1..Len(A)
      /\ \A i \in 1..Len(A) : A[i] \in SectionName
  BY LenProperties, ElementOfSeq DEF Orderly
<1>2. PICK k \in 1..(Len(A) + 1) : s = SubSeq(A, k, Len(A))
  BY DEF Remaining
<1>3. k \in Int /\ Len(A) \in Int /\ \A i \in k..Len(A) : A[i] \in SectionName
  BY <1>1
<1>4. /\ s \in Seq(SectionName) /\ Len(s) = IF k <= Len(A) THEN Len(A) - k + 1 ELSE 0
      /\ \A i \in 1..(Len(A) - k + 1) : s[i] = A[k + i - 1]
  BY <1>2, <1>3, SubSeqProperties
<1>5. /\ DOMAIN s = 1..(Len(A) - k + 1)
      /\ \A i \in DOMAIN s : k + i - 1 \in 1..Len(A) /\ s[i] = A[k + i - 1]
  <2>1. DOMAIN s = 1..Len(s)
    BY <1>4, LenProperties
  <2> QED
    BY <1>1, <1>4, <2>1
<1>6. Orderly(s)
  <2>1. ASSUME NEW i \in DOMAIN s, NEW j \in DOMAIN s, s[i] = s[j] PROVE i = j
    <3>1. k + i - 1 = k + j - 1
      BY <1>1, <1>5, <2>1 DEF Orderly
    <3> QED
      BY <1>5, <3>1
  <2>2. ASSUME NEW i \in DOMAIN s, NEW j \in DOMAIN s, s[i] = "mounts", s[j] = "statvfs"
        PROVE  i < j
    <3>1. k + i - 1 < k + j - 1
      BY <1>1, <1>5, <2>2 DEF Orderly
    <3> QED
      BY <1>5, <3>1
  <2> QED
    BY <1>4, <2>1, <2>2 DEF Orderly
<1>7. s # <<>> => Tail(s) \in Remaining(A)
  <2> SUFFICES ASSUME s # <<>> PROVE Tail(s) \in Remaining(A)
    OBVIOUS
  <2>1. ~(Len(A) < k)
    BY <1>2, <1>3, SubSeqEmpty
  <2>2. k \in 1..Len(A) /\ Len(A) \in k..Len(A) /\ k + 1 \in 1..(Len(A) + 1)
    BY <1>1, <2>1
  <2>3. Tail(s) = SubSeq(A, k + 1, Len(A))
    BY <1>1, <1>2, <2>2, HeadTailOfSubSeq
  <2> QED
    BY <2>2, <2>3 DEF Remaining
<1> QED
  BY <1>6, <1>7
------------------------------------------------------------------------------
(***************************************************************************)
(* The types.                                                              *)
(***************************************************************************)
LoopsOK == toStat \in Seq(MountPoint) /\ seenPaths \subseteq MountPoint /\ toSize \subseteq Device
ReadingOK ==
  /\ machine \in Machine /\ reportChanges \in 0..MaxReportChanges
  /\ reportCall \in ReportCall /\ asText \in BOOLEAN
  /\ agenda \in Remaining(Agenda[reportCall])
  /\ LoopsOK /\ report \in ReportData
  /\ reportPc \in {"sections", "name", "write", "end", "raised"}

LEMMA TypesAre == ReadingOK /\ FileInv => ReportTypeOK
  BY DEF ReadingOK, LoopsOK, FileInv, ClockOK, FilesOK, ReportTypeOK, Remaining, Second

LEMMA NoAnswerOK == NoAnswer \in UnitAnswer
<1>1. [u \in {} |-> "absent"] \in [{} -> UnitState]
  OBVIOUS
<1> QED
  BY <1>1 DEF NoAnswer, UnitAnswer

LEMMA AnswersOK ==
  ASSUME machine \in Machine, NEW S \in SUBSET Unit, NEW a \in Answers(S)
  PROVE  a \in UnitAnswer
<1>1. [u \in S |-> machine.units[u]] \in [S -> UnitState]
  BY DEF Machine
<1>2. [u \in S |-> machine.units[u]] \in UNION {[T -> UnitState] : T \in SUBSET Unit}
  BY <1>1
<1>3. [answered |-> TRUE, units |-> [u \in S |-> machine.units[u]]] \in UnitAnswer
  BY <1>2 DEF UnitAnswer
<1> QED
  BY <1>3, NoAnswerOK DEF Answers

LEMMA ReadingInit == ReportInit => ReadingOK
<1> SUFFICES ASSUME ReportInit PROVE ReadingOK
  OBVIOUS
<1>1. agenda \in Remaining(Agenda[reportCall])
  <2>1. agenda = Agenda[reportCall] /\ agenda \in Seq(SectionName)
    BY AgendaOrderly DEF ReportInit, Orderly
  <2>2. agenda = SubSeq(agenda, 1, Len(agenda)) /\ 1 \in 1..(Len(agenda) + 1)
    BY <2>1, SubSeqFull, LenProperties
  <2> QED
    BY <2>1, <2>2 DEF Remaining
<1>2. EmptyReport \in ReportData
  BY NoAnswerOK DEF EmptyReport, NoMapping, ReportData
<1> QED
  BY <1>1, <1>2, ReportAssumption DEF ReportInit, ReadingOK, LoopsOK

LEMMA SectionOK ==
  ASSUME ReadingOK, NEW s, NEW r \in ReportData, Section(s, r), LoopsOK'
  PROVE  ReadingOK'
<1>1. agenda' \in Remaining(Agenda[reportCall])
  BY AgendaOrderly, TailRemains DEF ReadingOK, Section
<1> QED
  BY <1>1 DEF ReadingOK, Section, machineVars, reportInputs

LEMMA AlterOK ==
  ASSUME ReadingOK, NEW thing, NEW m \in Machine, Alter(thing, m)
  PROVE  ReadingOK'
  BY ReportAssumption DEF ReadingOK, LoopsOK, loopVars, Alter, reportInputs

LEMMA ReadingStep == ReadingOK /\ [ReportNext]_reportVars => ReadingOK'
<1> SUFFICES ASSUME ReadingOK, [ReportNext]_reportVars PROVE ReadingOK'
  OBVIOUS
<1>0. machine \in Machine /\ report \in ReportData /\ LoopsOK
  BY DEF ReadingOK
<1>1. CASE Atomic /\ (TakeSnapshot \/ TakeSecurity \/ TakeContainers \/ TakeFirewall \/ TakeNetwork)
  <2>1. LoopsOK'
    BY <1>0, <1>1 DEF Atomic, loopVars, LoopsOK
  <2>2. /\ [report EXCEPT !.snapshot = machine.mounts] \in ReportData
        /\ \A x \in Evidence(machine.listening) :
             [report EXCEPT !.exposed = x, !.socket = machine.socket] \in ReportData
        /\ [report EXCEPT !.containers = machine.socket] \in ReportData
        /\ [report EXCEPT !.network = machine.listening] \in ReportData
    BY <1>0 DEF ReportData, Machine, Evidence
  <2>3. \A backends \in SUBSET Backend : [report EXCEPT !.firewall = MapAll(backends)] \in ReportData
    <3> SUFFICES ASSUME NEW backends \in SUBSET Backend
                 PROVE  [report EXCEPT !.firewall = MapAll(backends)] \in ReportData
      OBVIOUS
    <3>1. machine.listening \in SUBSET Listener
      BY <1>0 DEF Machine
    <3>2. MapAll(backends) \in [available : SUBSET Backend, mapped : SUBSET (Backend \X Listener)]
      BY <3>1 DEF MapAll
    <3> QED
      BY <1>0, <3>2 DEF ReportData
  <2> QED
    BY <1>1, <2>1, <2>2, <2>3, SectionOK
       DEF TakeSnapshot, TakeSecurity, TakeContainers, TakeFirewall, TakeNetwork
<1>2. CASE TakeDoctor \/ ListUnits \/ ListFailed
  <2>1. LoopsOK'
    BY <1>0, <1>2 DEF TakeDoctor, ListUnits, ListFailed, Atomic, loopVars, LoopsOK
  <2>2. FailedNow \in SUBSET Unit /\ {u \in Typed : machine.units[u] # "absent"} \in SUBSET Unit
    BY ReportAssumption DEF FailedNow
  <2>3. \A a \in UnitAnswer : /\ [report EXCEPT !.doctor = a] \in ReportData
                           /\ [report EXCEPT !.services = a] \in ReportData
                           /\ [report EXCEPT !.failed = a] \in ReportData
    BY <1>0 DEF ReportData
  <2>4. CASE TakeDoctor
    BY <1>0, <2>1, <2>2, <2>3, <2>4, AnswersOK, SectionOK DEF TakeDoctor
  <2>5. CASE ListUnits
    BY <1>0, <2>1, <2>2, <2>3, <2>5, AnswersOK, SectionOK DEF ListUnits
  <2>6. CASE ListFailed
    BY <1>0, <2>1, <2>2, <2>3, <2>6, AnswersOK, SectionOK DEF ListFailed
  <2> QED
    BY <1>2, <2>4, <2>5, <2>6
<1>3. CASE ListMounts
  <2>1. LoopsOK'
    BY <1>0, <1>3 DEF ListMounts, LoopsOK, Machine
  <2> QED
    BY <1>0, <1>3, <2>1, SectionOK DEF ListMounts
<1>4. CASE StatMount
  <2>1. Head(toStat) \in MountPoint /\ Tail(toStat) \in Seq(MountPoint)
    BY <1>0, <1>4, HeadTailProperties DEF StatMount, LoopsOK
  <2>2. report' \in ReportData
    <3>1. report.storage \in Seq(MountPoint)
      BY <1>0 DEF ReportData
    <3>2. Append(report.storage, Head(toStat)) \in Seq(MountPoint)
      BY <2>1, <3>1, AppendProperties
    <3>3. [report EXCEPT !.storage = Append(@, Head(toStat))] \in ReportData
      BY <1>0, <3>2 DEF ReportData
    <3> QED
      BY <1>0, <1>4, <3>3 DEF StatMount
  <2> QED
    BY <1>4, <2>1, <2>2 DEF StatMount, ReadingOK, LoopsOK, machineVars, reportInputs
<1>5. CASE EndMounts \/ EndDevices
  <2>1. LoopsOK'
    BY <1>0, <1>5 DEF EndMounts, EndDevices, Atomic, loopVars, LoopsOK
  <2> QED
    BY <1>0, <1>5, <2>1, SectionOK DEF EndMounts, EndDevices
<1>6. CASE ListDevices
  <2>1. LoopsOK' /\ [report EXCEPT !.devices = machine.devices] \in ReportData
    BY <1>0, <1>6 DEF ListDevices, LoopsOK, ReportData, Machine
  <2> QED
    BY <1>6, <2>1, SectionOK DEF ListDevices
<1>7. ASSUME NEW d \in Device, SizeDevice(d) PROVE ReadingOK'
  <2>1. [report EXCEPT !.unsized = @ \cup {d}] \in ReportData
    BY <1>0 DEF ReportData
  <2> QED
    BY <1>0, <1>7, <2>1 DEF SizeDevice, ReadingOK, LoopsOK, machineVars, reportInputs
<1>8. CASE TakeCrash \/ TakeLatest
  <2>1. LoopsOK'
    BY <1>0, <1>8 DEF TakeCrash, TakeLatest, Atomic, loopVars, LoopsOK
  <2>2. /\ \A n \in Nat : [report EXCEPT !.dumps = n] \in ReportData
        /\ \A l \in BOOLEAN : [report EXCEPT !.latest = l] \in ReportData
    BY <1>0 DEF ReportData
  <2>5. machine.dumps \in Nat
    BY <1>0 DEF Machine
  <2>3. CASE TakeCrash
    <3>1. PICK n \in Nat : Section("crash", [report EXCEPT !.dumps = n])
      BY <2>3, <2>5 DEF TakeCrash
    <3> QED
      BY <2>1, <2>2, <3>1, SectionOK
  <2>4. CASE TakeLatest
    BY <2>1, <2>2, <2>4, SectionOK DEF TakeLatest
  <2> QED
    BY <1>8, <2>3, <2>4
<1>9. CASE EndSections \/ NameFile \/ WriteFile \/ OtherReport \/ TickSecond \/ SetBack
  BY <1>9 DEF EndSections, NameFile, WriteFile, OtherReport, TickSecond, SetBack, Saving,
              ReadingOK, LoopsOK, machineVars, reportInputs, loopVars
<1>10. CASE ReportChange
  <2>0. /\ machine.units \in [Unit -> UnitState] /\ machine.mounts \in Seq(MountPoint)
        /\ machine.dumps \in Nat
    BY <1>0 DEF Machine
  <2>1. CASE SocketToggles \/ DumpArrives
    <3>1. [machine EXCEPT !.dumps = @ + 1] \in Machine
      BY <1>0 DEF Machine
    <3>2. [machine EXCEPT !.socket = ~@] \in Machine
      BY <1>0, Zenon DEF Machine
    <3> QED
      BY <2>1, <3>1, <3>2, AlterOK DEF SocketToggles, DumpArrives
  <2>2. ASSUME NEW u \in Unit, NEW st \in UnitState, UnitBecomes(u, st) PROVE ReadingOK'
    <3>1. [machine EXCEPT !.units[u] = st] \in Machine
      BY <1>0 DEF Machine
    <3> QED
      BY <2>2, <3>1, AlterOK DEF UnitBecomes
  <2>3. ASSUME NEW p \in MountPoint, MountOn(p) PROVE ReadingOK'
    <3>1. Append(machine.mounts, p) \in Seq(MountPoint)
      BY <2>0, AppendProperties
    <3>2. [machine EXCEPT !.mounts = Append(@, p)] \in Machine
      BY <1>0, <3>1 DEF Machine
    <3> QED
      BY <2>3, <3>2, AlterOK DEF MountOn
  <2>4. ASSUME NEW p \in MountPoint, Unmount(p) PROVE ReadingOK'
    <3>1. PICK i \in LastMount(p) : Alter(p, [machine EXCEPT !.mounts = RemoveAt(@, i)])
      BY <2>4 DEF Unmount
    <3>2. RemoveAt(machine.mounts, i) \in Seq(MountPoint)
      BY <2>0, <3>1, RemovedAt DEF LastMount
    <3>3. [machine EXCEPT !.mounts = RemoveAt(@, i)] \in Machine
      BY <1>0, <3>2 DEF Machine
    <3> QED
      BY <3>1, <3>3, AlterOK
  <2>5. ASSUME NEW d \in Device, Unplug(d) PROVE ReadingOK'
    <3>1. [machine EXCEPT !.devices = @ \ {d}] \in Machine
      BY <1>0 DEF Machine
    <3> QED
      BY <2>5, <3>1, AlterOK DEF Unplug
  <2>6. ASSUME NEW l \in Listener, OpenOrClose(l) PROVE ReadingOK'
    <3>1. [machine EXCEPT !.listening = IF l \in @ THEN @ \ {l} ELSE @ \cup {l}] \in Machine
      BY <1>0 DEF Machine
    <3> QED
      BY <2>6, <3>1, AlterOK DEF OpenOrClose
  <2> QED
    BY <1>9, <1>10, <2>1, <2>2, <2>3, <2>4, <2>5, <2>6 DEF ReportChange
<1>11. CASE UNCHANGED reportVars
  BY <1>11 DEF reportVars, machineVars, reportInputs, loopVars, ReadingOK, LoopsOK
<1>12. /\ TakeSnapshot \/ TakeSecurity \/ TakeContainers \/ TakeFirewall \/ TakeNetwork => Atomic
  BY DEF TakeSnapshot, TakeSecurity, TakeContainers, TakeFirewall, TakeNetwork
<1> QED
  BY <1>1, <1>2, <1>3, <1>4, <1>5, <1>6, <1>7, <1>8, <1>9, <1>10, <1>11, <1>12
     DEF ReportNext, ReportStep

\* Every variable of a call that reports keeps its type.
THEOREM ReportTypeCorrect == ReportSpec => []ReportTypeOK
  BY ReadingInit, ReadingStep, FileInit, FileStep, TypesAre, PTL DEF ReportSpec
------------------------------------------------------------------------------
(***************************************************************************)
(* What did not change, the sections show as it is.  A step of the machine *)
(* leaves alone what it does not touch (SteadyMachine); a step of the call *)
(* reads a section from the machine of that moment or leaves it as it was  *)
(* (Looked).  The mounts take a loop of several steps, for which MountsInv *)
(* says how far the loop is.                                               *)
(***************************************************************************)
SteadyMachine ==
  /\ touchedThings \subseteq touchedThings'
  /\ \A u \in Unit \ touchedThings' : machine'.units[u] = machine.units[u]
  /\ \A p \in MountPoint \ touchedThings' :
       p \in ToSet(machine'.mounts) <=> p \in ToSet(machine.mounts)
  /\ \A d \in Device \ touchedThings' : d \in machine'.devices <=> d \in machine.devices
  /\ \A l \in Listener \ touchedThings' : l \in machine'.listening <=> l \in machine.listening
  /\ "socket" \notin touchedThings' => machine'.socket = machine.socket

LEMMA AlterSteady ==
  ASSUME ReadingOK, NEW thing, NEW m, Alter(thing, m),
         \A u \in Unit \ {thing} : m.units[u] = machine.units[u],
         \A p \in MountPoint \ {thing} : p \in ToSet(m.mounts) <=> p \in ToSet(machine.mounts),
         \A d \in Device \ {thing} : d \in m.devices <=> d \in machine.devices,
         \A l \in Listener \ {thing} : l \in m.listening <=> l \in machine.listening,
         thing # "socket" => m.socket = machine.socket
  PROVE  SteadyMachine
<1>1. machine' = m /\ touchedThings' = touchedThings \cup {thing}
  BY DEF Alter
<1> QED
  BY <1>1 DEF SteadyMachine

LEMMA ChangeSteady == ReadingOK /\ ReportChange => SteadyMachine
<1> SUFFICES ASSUME ReadingOK, ReportChange PROVE SteadyMachine
  OBVIOUS
<1>0. machine \in Machine /\ machine.mounts \in Seq(MountPoint)
  BY DEF ReadingOK, Machine
<1>1. CASE OtherReport \/ TickSecond \/ SetBack
  BY <1>1 DEF OtherReport, TickSecond, SetBack, machineVars, SteadyMachine
<1>2. CASE SocketToggles
  <2>1. PICK m : m = [machine EXCEPT !.socket = ~@]
    OBVIOUS
  <2>2. /\ m.units = machine.units /\ m.mounts = machine.mounts
        /\ m.devices = machine.devices /\ m.listening = machine.listening
    BY <2>1, <1>0 DEF Machine
  <2> QED
    BY <1>2, <2>1, <2>2, AlterSteady DEF SocketToggles
<1>3. CASE DumpArrives
  <2>1. PICK m : m = [machine EXCEPT !.dumps = @ + 1]
    OBVIOUS
  <2>2. /\ m.units = machine.units /\ m.mounts = machine.mounts /\ m.socket = machine.socket
        /\ m.devices = machine.devices /\ m.listening = machine.listening
    BY <2>1, <1>0 DEF Machine
  <2> QED
    BY <1>3, <2>1, <2>2, AlterSteady DEF DumpArrives
<1>4. ASSUME NEW u \in Unit, NEW s \in UnitState, UnitBecomes(u, s) PROVE SteadyMachine
  <2>1. PICK m : m = [machine EXCEPT !.units[u] = s]
    OBVIOUS
  <2>2. /\ m.mounts = machine.mounts /\ m.socket = machine.socket
        /\ m.devices = machine.devices /\ m.listening = machine.listening
        /\ \A v \in Unit \ {u} : m.units[v] = machine.units[v]
    BY <2>1, <1>0 DEF Machine
  <2> QED
    BY <1>4, <2>1, <2>2, AlterSteady DEF UnitBecomes
<1>5. ASSUME NEW p \in MountPoint, MountOn(p) PROVE SteadyMachine
  <2>1. PICK m : m = [machine EXCEPT !.mounts = Append(@, p)]
    OBVIOUS
  <2>2. /\ m.units = machine.units /\ m.socket = machine.socket
        /\ m.devices = machine.devices /\ m.listening = machine.listening
        /\ m.mounts = Append(machine.mounts, p)
    BY <2>1, <1>0 DEF Machine
  <2>3. \A q \in MountPoint \ {p} : q \in ToSet(m.mounts) <=> q \in ToSet(machine.mounts)
    BY <1>0, <2>2, Appended
  <2> QED
    BY <1>5, <2>1, <2>2, <2>3, AlterSteady DEF MountOn
<1>6. ASSUME NEW p \in MountPoint, Unmount(p) PROVE SteadyMachine
  <2>1. PICK i \in LastMount(p) : Alter(p, [machine EXCEPT !.mounts = RemoveAt(@, i)])
    BY <1>6 DEF Unmount
  <2>2. i \in DOMAIN machine.mounts /\ machine.mounts[i] = p
    BY <2>1 DEF LastMount
  <2>3. PICK m : m = [machine EXCEPT !.mounts = RemoveAt(@, i)]
    OBVIOUS
  <2>4. /\ m.units = machine.units /\ m.socket = machine.socket
        /\ m.devices = machine.devices /\ m.listening = machine.listening
        /\ m.mounts = RemoveAt(machine.mounts, i)
    BY <2>3, <1>0 DEF Machine
  <2>5. \A q \in MountPoint \ {p} : q \in ToSet(m.mounts) <=> q \in ToSet(machine.mounts)
    BY <1>0, <2>2, <2>4, RemovedAt
  <2> QED
    BY <2>1, <2>3, <2>4, <2>5, AlterSteady
<1>7. ASSUME NEW d \in Device, Unplug(d) PROVE SteadyMachine
  <2>1. PICK m : m = [machine EXCEPT !.devices = @ \ {d}]
    OBVIOUS
  <2>2. /\ m.units = machine.units /\ m.mounts = machine.mounts /\ m.socket = machine.socket
        /\ m.devices = machine.devices \ {d} /\ m.listening = machine.listening
    BY <2>1, <1>0 DEF Machine
  <2> QED
    BY <1>7, <2>1, <2>2, AlterSteady DEF Unplug
<1>8. ASSUME NEW l \in Listener, OpenOrClose(l) PROVE SteadyMachine
  <2>1. PICK m : m = [machine EXCEPT !.listening = IF l \in @ THEN @ \ {l} ELSE @ \cup {l}]
    OBVIOUS
  <2>2. /\ m.units = machine.units /\ m.mounts = machine.mounts /\ m.socket = machine.socket
        /\ m.devices = machine.devices
        /\ \A k \in Listener \ {l} : k \in m.listening <=> k \in machine.listening
    BY <2>1, <1>0 DEF Machine
  <2> QED
    BY <1>8, <2>1, <2>2, AlterSteady DEF OpenOrClose
<1> QED
  BY <1>1, <1>2, <1>3, <1>4, <1>5, <1>6, <1>7, <1>8 DEF ReportChange

LEMMA ChangeApart ==
  ReportChange => UNCHANGED <<reportCall, agenda, loopVars, report>>
<1> SUFFICES ASSUME ReportChange PROVE UNCHANGED <<reportCall, agenda, loopVars, report>>
  OBVIOUS
<1>1. ASSUME NEW thing, NEW m, Alter(thing, m)
      PROVE  UNCHANGED <<reportCall, agenda, loopVars, report>>
  BY <1>1 DEF Alter, reportInputs
<1>2. CASE OtherReport \/ TickSecond \/ SetBack
  BY <1>2 DEF OtherReport, TickSecond, SetBack, reportInputs
<1>3. CASE SocketToggles \/ DumpArrives
  BY <1>1, <1>3 DEF SocketToggles, DumpArrives
<1>4. CASE \E u \in Unit, s \in UnitState : UnitBecomes(u, s)
  BY <1>1, <1>4 DEF UnitBecomes
<1>5. CASE \E p \in MountPoint : MountOn(p) \/ Unmount(p)
  BY <1>1, <1>5 DEF MountOn, Unmount
<1>6. CASE \E d \in Device : Unplug(d)
  BY <1>1, <1>6 DEF Unplug
<1>7. CASE \E l \in Listener : OpenOrClose(l)
  BY <1>1, <1>7 DEF OpenOrClose
<1> QED
  BY <1>2, <1>3, <1>4, <1>5, <1>6, <1>7 DEF ReportChange
------------------------------------------------------------------------------
\* A section that is read leaves the others as far as they were.
LEMMA Going ==
  ASSUME ReadingOK, NEW s, NEW r, Section(s, r)
  PROVE  /\ report' = r /\ UNCHANGED machineVars /\ reportCall' = reportCall
         /\ \A t : t # s => (Shown(t)' <=> Shown(t))
         /\ \A t : t # s => (Listing(t)' <=> Listing(t))
         /\ ~Shown(s) /\ Shown(s)'
<1>1. agenda # <<>> /\ Head(agenda) = s /\ agenda' = Tail(agenda) /\ report' = r
      /\ UNCHANGED machineVars /\ reportCall' = reportCall
  BY DEF Section, reportInputs
<1>2. agenda \in Seq(SectionName) /\ \A i, j \in DOMAIN agenda : agenda[i] = agenda[j] => i = j
  BY AgendaOrderly, TailRemains DEF ReadingOK, Orderly
<1>3. /\ Len(agenda) \in Nat /\ Len(agenda) >= 1 /\ DOMAIN agenda = 1..Len(agenda)
      /\ agenda[1] = s
      /\ DOMAIN agenda' = 1..(Len(agenda) - 1)
      /\ \A i \in 1..(Len(agenda) - 1) : agenda'[i] = agenda[i + 1]
  BY <1>1, <1>2
<1>4. ASSUME NEW t, t # s PROVE Shown(t)' <=> Shown(t)
  <2>1. ASSUME Shown(t)' PROVE Shown(t)
    <3> SUFFICES ASSUME NEW i \in 1..Len(agenda) PROVE agenda[i] # t
      BY <1>3 DEF Shown
    <3>1. CASE i = 1
      BY <1>3, <1>4, <3>1
    <3>2. CASE i > 1
      <4>1. i - 1 \in 1..(Len(agenda) - 1) /\ i - 1 + 1 = i
        BY <1>3, <3>2
      <4>2. agenda'[i - 1] # t
        BY <1>3, <2>1, <4>1 DEF Shown
      <4> QED
        BY <1>3, <4>1, <4>2
    <3> QED
      BY <3>1, <3>2
  <2>2. ASSUME Shown(t) PROVE Shown(t)'
    <3> SUFFICES ASSUME NEW i \in 1..(Len(agenda) - 1) PROVE agenda'[i] # t
      BY <1>3 DEF Shown
    <3>1. i + 1 \in 1..Len(agenda)
      BY <1>3
    <3> QED
      BY <1>3, <2>2, <3>1 DEF Shown
  <2> QED
    BY <2>1, <2>2
<1>5. ~Shown(s)
  BY <1>3 DEF Shown
<1>6. Shown(s)'
  <2> SUFFICES ASSUME NEW i \in 1..(Len(agenda) - 1), agenda'[i] = s PROVE FALSE
    BY <1>3 DEF Shown
  <2>1. i + 1 \in 1..Len(agenda) /\ i + 1 # 1 /\ agenda[i + 1] = s
    BY <1>3
  <2> QED
    BY <1>2, <1>3, <2>1
<1>7. ASSUME NEW t, t # s PROVE Listing(t)' <=> Listing(t)
  BY <1>1, <1>4, <1>7 DEF Listing
<1> QED
  BY <1>1, <1>4, <1>5, <1>6, <1>7

LEMMA ListingStays ==
  ASSUME agenda' = agenda, reportCall' = reportCall
  PROVE  \A t : (Shown(t)' <=> Shown(t)) /\ (Listing(t)' <=> Listing(t))
  BY DEF Shown, Listing

\* A section is read from the machine as it is, or kept.
Kept(s) == Listing(s)' => Listing(s)
Looked ==
  /\ \/ report'.exposed \in Evidence(machine.listening)
     \/ Kept("security") /\ report'.exposed = report.exposed
  /\ \/ \E backends \in SUBSET Backend : report'.firewall = MapAll(backends)
     \/ Kept("firewall") /\ report'.firewall = report.firewall
  /\ \/ report'.network = machine.listening
     \/ Kept("network") /\ report'.network = report.network

LEMMA ReadLooks == ReadingOK /\ ReportStep => Looked /\ UNCHANGED machineVars
<1> SUFFICES ASSUME ReadingOK, ReportStep PROVE Looked /\ UNCHANGED machineVars
  OBVIOUS
<1>0. report \in ReportData
  BY DEF ReadingOK
<1>1. ASSUME report' = report, UNCHANGED machineVars, \A t : Kept(t)
      PROVE  Looked /\ UNCHANGED machineVars
  BY <1>1 DEF Looked
<1>2. ASSUME NEW s, NEW r, Section(s, r)
      PROVE  report' = r /\ UNCHANGED machineVars /\ \A t : t # s => Kept(t)
  BY <1>2, Going DEF Kept
<1>3. CASE TakeSecurity
  <2>1. PICK x \in Evidence(machine.listening) :
          Section("security", [report EXCEPT !.exposed = x, !.socket = machine.socket])
    BY <1>3 DEF TakeSecurity
  <2>2. PICK r : r = [report EXCEPT !.exposed = x, !.socket = machine.socket]
    OBVIOUS
  <2>3. r.exposed = x /\ r.firewall = report.firewall /\ r.network = report.network
    BY <1>0, <2>2 DEF ReportData
  <2>4. report' = r /\ UNCHANGED machineVars /\ Kept("firewall") /\ Kept("network")
    BY <1>2, <2>1, <2>2
  <2> QED
    BY <2>1, <2>3, <2>4 DEF Looked
<1>5. CASE TakeFirewall
  <2>1. PICK backends \in SUBSET Backend :
          Section("firewall", [report EXCEPT !.firewall = MapAll(backends)])
    BY <1>5 DEF TakeFirewall
  <2>2. PICK r : r = [report EXCEPT !.firewall = MapAll(backends)]
    OBVIOUS
  <2>3. /\ r.firewall = MapAll(backends)
        /\ r.exposed = report.exposed /\ r.network = report.network
    BY <1>0, <2>2 DEF ReportData
  <2>4. report' = r /\ UNCHANGED machineVars /\ Kept("security") /\ Kept("network")
    BY <1>2, <2>1, <2>2
  <2> QED
    BY <2>1, <2>3, <2>4 DEF Looked
<1>6. CASE TakeNetwork
  <2>1. PICK r : r = [report EXCEPT !.network = machine.listening] /\ Section("network", r)
    BY <1>6 DEF TakeNetwork
  <2>2. /\ r.network = machine.listening
        /\ r.exposed = report.exposed /\ r.firewall = report.firewall
    BY <1>0, <2>1 DEF ReportData
  <2>3. report' = r /\ UNCHANGED machineVars /\ Kept("security") /\ Kept("firewall")
    BY <1>2, <2>1
  <2> QED
    BY <2>2, <2>3 DEF Looked
<1>7. ASSUME NEW s, NEW r, Section(s, r), s \notin {"security", "firewall", "network"},
             r.exposed = report.exposed, r.firewall = report.firewall, r.network = report.network
      PROVE  Looked /\ UNCHANGED machineVars
  <2>1. report' = r /\ UNCHANGED machineVars /\ \A t : t # s => Kept(t)
    BY <1>2, <1>7
  <2>2. Kept("security") /\ Kept("firewall") /\ Kept("network")
    BY <1>7, <2>1
  <2> QED
    BY <1>7, <2>1, <2>2 DEF Looked
<1>4. CASE TakeContainers
  <2>1. PICK r : r = [report EXCEPT !.containers = machine.socket] /\ Section("containers", r)
    BY <1>4 DEF TakeContainers
  <2>2. /\ r.exposed = report.exposed /\ r.firewall = report.firewall
        /\ r.network = report.network
    BY <1>0, <2>1 DEF ReportData
  <2>3. Section("containers", r)
    BY <2>1
  <2> QED
    BY <1>7, <2>2, <2>3
<1>8. CASE TakeDoctor
  <2>1. PICK r, a : r = [report EXCEPT !.doctor = a] /\ Section("doctor", r)
    BY <1>8 DEF TakeDoctor
  <2> QED
    BY <1>0, <1>7, <2>1 DEF ReportData
<1>9. CASE ListUnits
  <2>1. PICK r, a : r = [report EXCEPT !.services = a] /\ Section("services", r)
    BY <1>9 DEF ListUnits
  <2> QED
    BY <1>0, <1>7, <2>1 DEF ReportData
<1>10. CASE ListFailed
  <2>1. PICK r, a : r = [report EXCEPT !.failed = a] /\ Section("failed", r)
    BY <1>10 DEF ListFailed
  <2> QED
    BY <1>0, <1>7, <2>1 DEF ReportData
<1>11. CASE ListMounts \/ EndMounts \/ EndDevices
  BY <1>7, <1>11 DEF ListMounts, EndMounts, EndDevices
<1>12. CASE TakeSnapshot
  <2>1. PICK r : r = [report EXCEPT !.snapshot = machine.mounts] /\ Section("snapshot", r)
    BY <1>12 DEF TakeSnapshot
  <2>2. /\ r.exposed = report.exposed /\ r.firewall = report.firewall
        /\ r.network = report.network
    BY <1>0, <2>1 DEF ReportData
  <2>3. Section("snapshot", r)
    BY <2>1
  <2> QED
    BY <1>7, <2>2, <2>3
<1>13. CASE ListDevices
  <2>1. PICK r : r = [report EXCEPT !.devices = machine.devices] /\ Section("devices", r)
    BY <1>13 DEF ListDevices
  <2>2. /\ r.exposed = report.exposed /\ r.firewall = report.firewall
        /\ r.network = report.network
    BY <1>0, <2>1 DEF ReportData
  <2>3. Section("devices", r)
    BY <2>1
  <2> QED
    BY <1>7, <2>2, <2>3
<1>14. CASE TakeCrash
  <2>1. PICK r, n : r = [report EXCEPT !.dumps = n] /\ Section("crash", r)
    BY <1>14 DEF TakeCrash
  <2> QED
    BY <1>0, <1>7, <2>1 DEF ReportData
<1>15. CASE TakeLatest
  <2>1. PICK r, l : r = [report EXCEPT !.latest = l] /\ Section("latest", r)
    BY <1>15 DEF TakeLatest
  <2> QED
    BY <1>0, <1>7, <2>1 DEF ReportData
<1>16. ASSUME agenda' = agenda, reportCall' = reportCall, UNCHANGED machineVars, NEW r, report' = r,
              r.exposed = report.exposed, r.firewall = report.firewall, r.network = report.network
      PROVE  Looked /\ UNCHANGED machineVars
  BY <1>16, ListingStays DEF Looked, Kept
<1>17. CASE StatMount
  <2>1. PICK r : r = [report EXCEPT !.storage = Append(@, Head(toStat))]
    OBVIOUS
  <2>2. report' = report \/ report' = r
    BY <1>17, <2>1 DEF StatMount
  <2>3. agenda' = agenda /\ reportCall' = reportCall /\ UNCHANGED machineVars
    BY <1>17 DEF StatMount, reportInputs
  <2> QED
    BY <1>0, <1>16, <2>1, <2>2, <2>3 DEF ReportData
<1>18. ASSUME NEW d \in Device, SizeDevice(d) PROVE Looked /\ UNCHANGED machineVars
  <2>1. PICK r : r = [report EXCEPT !.unsized = @ \cup {d}]
    OBVIOUS
  <2>2. report' = report \/ report' = r
    BY <1>18, <2>1 DEF SizeDevice
  <2>3. agenda' = agenda /\ reportCall' = reportCall /\ UNCHANGED machineVars
    BY <1>18 DEF SizeDevice, reportInputs
  <2> QED
    BY <1>0, <1>16, <2>1, <2>2, <2>3 DEF ReportData
<1>19. CASE EndSections \/ NameFile \/ WriteFile
  BY <1>16, <1>19 DEF EndSections, NameFile, WriteFile, reportInputs
<1> QED
  BY <1>3, <1>4, <1>5, <1>6, <1>8, <1>9, <1>10, <1>11, <1>12, <1>13, <1>14, <1>15, <1>17, <1>18, <1>19
     DEF ReportStep
------------------------------------------------------------------------------
(***************************************************************************)
(* The sections that one look fills.                                       *)
(***************************************************************************)
ListenerTold(l) ==
  /\ Listing("network")  => (l \in report.network <=> l \in machine.listening)
  /\ Listing("firewall") => \A b \in Backend :
       <<b, l>> \in report.firewall.mapped <=>
         b \in report.firewall.available /\ l \in machine.listening
  /\ Listing("security") =>
       /\ l \in report.exposed => l \in machine.listening
       /\ l \in machine.listening \ report.exposed => Cardinality(report.exposed) = MaxExposed
LookedInv == \A l \in Listener \ touchedThings : ListenerTold(l)

LEMMA LookedInit == ReportInit => LookedInv
<1> SUFFICES ASSUME ReportInit PROVE LookedInv
  OBVIOUS
<1>3. \A s : ~Listing(s)
  <2> SUFFICES ASSUME NEW s, Listing(s) PROVE FALSE
    OBVIOUS
  <2>1. agenda = Agenda[reportCall]
    BY DEF ReportInit
  <2> QED
    BY <2>1 DEF Listing, Shown, ToSet
<1> QED
  BY <1>3 DEF LookedInv, ListenerTold

\* A step of the machine, and what the sections have shown so far.
LEMMA SteadyLooked ==
  ASSUME LookedInv, SteadyMachine, ReportAssumption,
         UNCHANGED <<reportCall, agenda, report>>
  PROVE  LookedInv'
<1>1. \A t : Listing(t)' <=> Listing(t)
  BY ListingStays
<1>2. \A l \in Listener \ touchedThings' :
        (l \in machine'.listening <=> l \in machine.listening) /\ l \notin touchedThings
  BY DEF SteadyMachine
<1> QED
  BY <1>1, <1>2 DEF LookedInv, ListenerTold

LEMMA ReadLooked ==
  ASSUME LookedInv, Looked, UNCHANGED machineVars
  PROVE  LookedInv'
<1>1. machine' = machine /\ touchedThings' = touchedThings
  BY DEF machineVars
<1> SUFFICES ASSUME NEW l \in Listener \ touchedThings PROVE ListenerTold(l)'
  BY <1>1 DEF LookedInv
<1>2. ListenerTold(l)
  BY DEF LookedInv
<1>3. Listing("network")' => (l \in report'.network <=> l \in machine.listening)
  BY <1>2 DEF Looked, Kept, ListenerTold
<1>4. ASSUME NEW b \in Backend, Listing("firewall")'
      PROVE  <<b, l>> \in report'.firewall.mapped <=>
               b \in report'.firewall.available /\ l \in machine.listening
  <2>1. CASE \E backends \in SUBSET Backend : report'.firewall = MapAll(backends)
    BY <2>1 DEF MapAll
  <2>2. CASE Kept("firewall") /\ report'.firewall = report.firewall
    BY <1>2, <1>4, <2>2 DEF Kept, ListenerTold
  <2> QED
    BY <2>1, <2>2 DEF Looked
<1>5. ASSUME Listing("security")'
      PROVE  /\ l \in report'.exposed => l \in machine.listening
             /\ l \in machine.listening \ report'.exposed =>
                  Cardinality(report'.exposed) = MaxExposed
  <2>1. CASE report'.exposed \in Evidence(machine.listening)
    BY <2>1 DEF Evidence
  <2>2. CASE Kept("security") /\ report'.exposed = report.exposed
    BY <1>2, <1>5, <2>2 DEF Kept, ListenerTold
  <2> QED
    BY <2>1, <2>2 DEF Looked
<1> QED
  BY <1>1, <1>3, <1>4, <1>5 DEF ListenerTold

LEMMA LookedStep == ReadingOK /\ LookedInv /\ [ReportNext]_reportVars => LookedInv'
<1> SUFFICES ASSUME ReadingOK, LookedInv, [ReportNext]_reportVars PROVE LookedInv'
  OBVIOUS
<1>1. CASE ReportStep
  BY <1>1, ReadLooks, ReadLooked
<1>2. CASE ReportChange
  BY <1>2, ChangeSteady, ChangeApart, SteadyLooked, ReportAssumption
<1>3. CASE UNCHANGED reportVars
  <2>1. SteadyMachine /\ UNCHANGED <<reportCall, agenda, report>>
    BY <1>3 DEF reportVars, machineVars, reportInputs, SteadyMachine
  <2> QED
    BY <2>1, SteadyLooked, ReportAssumption
<1> QED
  BY <1>1, <1>2, <1>3 DEF ReportNext
------------------------------------------------------------------------------
(***************************************************************************)
(* The loop over the mounts: every mount point met so far is in the        *)
(* section once, if statvfs() answered, and what did not change is mounted *)
(* exactly if it was met or is still to come.                              *)
(***************************************************************************)
Shows(p) == {i \in DOMAIN report.storage : report.storage[i] = p}
MetOnce == \A p \in MountPoint :
             Cardinality(Shows(p)) = IF p \in seenPaths \ Deaf THEN 1 ELSE 0
MountsMet == \A p \in MountPoint \ touchedThings :
               p \in ToSet(machine.mounts) <=> p \in seenPaths \cup ToSet(toStat)
MountsInv ==
  /\ MetOnce
  /\ ~Shown("mounts") => seenPaths = {} /\ toStat = <<>>
  /\ Listing("mounts") => MountsMet
  /\ Listing("statvfs") => Listing("mounts") /\ toStat = <<>>

\* The sizes: a device that is listed and not unplugged is there to be sized.
SizesInv == /\ \A d \in toSize : d \in machine.devices \/ d \in touchedThings
            /\ report.unsized \subseteq touchedThings

LEMMA SightsFinite == ReadingOK => \A p : IsFiniteSet(Shows(p))
<1> SUFFICES ASSUME ReadingOK, NEW p PROVE IsFiniteSet(Shows(p))
  OBVIOUS
<1>1. report.storage \in Seq(MountPoint)
  BY DEF ReadingOK, ReportData
<1>2. DOMAIN report.storage = 1..Len(report.storage) /\ Len(report.storage) \in Nat
  BY <1>1
<1>3. IsFiniteSet(1..Len(report.storage))
  BY <1>2, FS_Interval
<1> QED
  BY <1>2, <1>3, FS_Subset DEF Shows

LEMMA MountsFirst ==
  ASSUME NEW c \in ReportCall, "statvfs" \in ToSet(Agenda[c])
  PROVE  "mounts" \in ToSet(Agenda[c])
<1>1. CASE c = "report"
  <2> DEFINE A == <<"snapshot", "security", "containers", "firewall", "doctor", "services",
                   "failed", "mounts", "statvfs", "devices", "sizes", "crash", "network">>
  <2>1. Agenda["report"] = A
    BY DEF Agenda
  <2>2. 8 \in DOMAIN A /\ A[8] = "mounts"
    OBVIOUS
  <2> HIDE DEF A
  <2> QED
    BY <1>1, <2>1, <2>2 DEF ToSet
<1>2. CASE c = "all"
  <2> DEFINE A == <<"snapshot", "security", "firewall", "containers", "doctor", "network",
                   "services", "failed", "mounts", "statvfs", "devices", "sizes", "crash">>
  <2>1. Agenda["all"] = A
    BY DEF Agenda
  <2>2. 9 \in DOMAIN A /\ A[9] = "mounts"
    OBVIOUS
  <2> HIDE DEF A
  <2> QED
    BY <1>2, <2>1, <2>2 DEF ToSet
<1>3. CASE c = "storage"
  <2> DEFINE A == <<"mounts", "statvfs", "devices", "sizes">>
  <2>1. Agenda["storage"] = A
    BY DEF Agenda
  <2>2. 1 \in DOMAIN A /\ A[1] = "mounts"
    OBVIOUS
  <2> HIDE DEF A
  <2> QED
    BY <1>3, <2>1, <2>2 DEF ToSet
<1>4. CASE c = "services"
  <2> DEFINE A == <<"services", "failed">>
  <2>1. Agenda["services"] = A
    BY DEF Agenda
  <2>2. DOMAIN A = 1..2 /\ \A i \in 1..2 : A[i] # "statvfs"
    OBVIOUS
  <2> HIDE DEF A
  <2> QED
    BY <1>4, <2>1, <2>2 DEF ToSet
<1>5. CASE c = "crash"
  <2> DEFINE A == <<"crash", "latest">>
  <2>1. Agenda["crash"] = A
    BY DEF Agenda
  <2>2. DOMAIN A = 1..2 /\ \A i \in 1..2 : A[i] # "statvfs"
    OBVIOUS
  <2> HIDE DEF A
  <2> QED
    BY <1>5, <2>1, <2>2 DEF ToSet
<1> QED
  BY <1>1, <1>2, <1>3, <1>4, <1>5 DEF ReportCall

\* When the mounts are looked at, they have been listed.
LEMMA StatvfsLater ==
  ASSUME ReadingOK, agenda # <<>>, Head(agenda) = "statvfs"
  PROVE  Listing("mounts") /\ ~Shown("statvfs")
<1>1. Orderly(agenda) /\ agenda \in Seq(SectionName)
  BY AgendaOrderly, TailRemains DEF ReadingOK, Orderly
<1>2. DOMAIN agenda = 1..Len(agenda) /\ Len(agenda) \in Nat /\ 1 \in DOMAIN agenda
      /\ agenda[1] = "statvfs"
  BY <1>1
<1>3. Shown("mounts") /\ ~Shown("statvfs")
  <2> SUFFICES ASSUME NEW i \in DOMAIN agenda, agenda[i] = "mounts" PROVE FALSE
    BY <1>2 DEF Shown
  <2>1. i < 1
    BY <1>1, <1>2 DEF Orderly
  <2> QED
    BY <1>2, <2>1
<1>4. "statvfs" \in ToSet(Agenda[reportCall])
  <2>1. /\ Agenda[reportCall] \in Seq(SectionName) /\ reportCall \in ReportCall
    BY AgendaOrderly DEF ReadingOK, Orderly
  <2>2. PICK A : A = Agenda[reportCall]
    OBVIOUS
  <2>3. /\ A \in Seq(SectionName) /\ Len(A) \in Nat /\ DOMAIN A = 1..Len(A)
        /\ \A i \in 1..Len(A) : A[i] \in SectionName
    BY <2>1, <2>2, LenProperties, ElementOfSeq
  <2>4. PICK k \in 1..(Len(A) + 1) : agenda = SubSeq(A, k, Len(A))
    BY <2>2 DEF ReadingOK, Remaining
  <2>5. /\ Len(agenda) = IF k <= Len(A) THEN Len(A) - k + 1 ELSE 0
        /\ \A i \in 1..(Len(A) - k + 1) : agenda[i] = A[k + i - 1]
    <3>1. k \in Int /\ Len(A) \in Int /\ \A i \in k..Len(A) : A[i] \in SectionName
      BY <2>3
    <3> QED
      BY <2>4, <3>1, SubSeqProperties
  <2>6. k \in 1..Len(A) /\ A[k] = "statvfs"
    <3>1. k <= Len(A)
      BY <1>2, <2>3, <2>5
    <3>2. 1 \in 1..(Len(A) - k + 1) /\ k + 1 - 1 = k /\ k \in 1..Len(A)
      BY <2>3, <3>1
    <3> QED
      BY <1>2, <2>5, <3>2
  <2> QED
    BY <2>2, <2>3, <2>6 DEF ToSet
<1>5. "mounts" \in ToSet(Agenda[reportCall])
  BY <1>4, MountsFirst DEF ReadingOK
<1> QED
  BY <1>3, <1>5 DEF Listing

LEMMA MountsInit == ReportInit => MountsInv /\ SizesInv
<1> SUFFICES ASSUME ReportInit PROVE MountsInv /\ SizesInv
  OBVIOUS
<1>1. report.storage = <<>> /\ report.unsized = {} /\ toSize = {}
      /\ seenPaths = {} /\ toStat = <<>>
  BY DEF ReportInit, EmptyReport
<1>2. MetOnce
  <2>1. \A p : Shows(p) = {}
    BY <1>1 DEF Shows
  <2> QED
    BY <1>1, <2>1, FS_EmptySet DEF MetOnce
<1>3. \A s : ~Listing(s)
  <2> SUFFICES ASSUME NEW s, Listing(s) PROVE FALSE
    OBVIOUS
  <2>1. agenda = Agenda[reportCall]
    BY DEF ReportInit
  <2> QED
    BY <2>1 DEF Listing, Shown, ToSet
<1> QED
  BY <1>1, <1>2, <1>3 DEF MountsInv, SizesInv

\* A step that leaves the loop and the storage section alone.
LEMMA LoopElsewhere ==
  ASSUME MountsInv, UNCHANGED <<toStat, seenPaths>>, report'.storage = report.storage,
         SteadyMachine,
         \A t \in {"mounts", "statvfs"} : (Shown(t)' <=> Shown(t)) /\ (Listing(t)' <=> Listing(t))
  PROVE  MountsInv'
<1>1. MetOnce'
  <2>1. \A p : Shows(p)' = Shows(p)
    BY DEF Shows
  <2> QED
    BY <2>1 DEF MountsInv, MetOnce
<1>2. ASSUME Listing("mounts") PROVE MountsMet'
  <2>1. \A p \in MountPoint \ touchedThings' :
          /\ p \in ToSet(machine'.mounts) <=> p \in ToSet(machine.mounts)
          /\ p \notin touchedThings
    BY DEF SteadyMachine
  <2> QED
    BY <1>2, <2>1 DEF MountsInv, MountsMet
<1> QED
  BY <1>1, <1>2 DEF MountsInv

LEMMA StatStep == ReadingOK /\ MountsInv /\ StatMount => MountsInv'
<1> SUFFICES ASSUME ReadingOK, MountsInv, StatMount PROVE MountsInv'
  OBVIOUS
<1>1. /\ agenda # <<>> /\ Head(agenda) = "statvfs" /\ toStat # <<>> /\ toStat' = Tail(toStat)
      /\ seenPaths' = seenPaths \cup {Head(toStat)}
      /\ UNCHANGED <<agenda, reportCall, machine, touchedThings>>
      /\ toStat \in Seq(MountPoint) /\ report \in ReportData /\ report.storage \in Seq(MountPoint)
  BY DEF StatMount, reportInputs, machineVars, ReadingOK, LoopsOK, ReportData
<1>2. PICK h \in MountPoint : h = Head(toStat)
  BY <1>1
<1>3. /\ report'.storage = IF h \notin seenPaths /\ h \notin Deaf THEN Append(report.storage, h)
                           ELSE report.storage
  BY <1>1, <1>2 DEF StatMount, NewPath, ReportData
<1>4. MetOnce'
  <2> SUFFICES ASSUME NEW p \in MountPoint
               PROVE  Cardinality(Shows(p)') = IF p \in seenPaths' \ Deaf THEN 1 ELSE 0
    BY DEF MetOnce
  <2>0. Cardinality(Shows(p)) = IF p \in seenPaths \ Deaf THEN 1 ELSE 0
    BY DEF MountsInv, MetOnce
  <2>1. CASE p = h /\ h \notin seenPaths /\ h \notin Deaf
    <3> DEFINE n == Len(report.storage)
    <3>1. /\ DOMAIN report.storage = 1..n /\ n \in Nat
          /\ DOMAIN report'.storage = 1..(n + 1)
          /\ report'.storage[n + 1] = h
          /\ \A i \in 1..n : report'.storage[i] = report.storage[i]
      BY <1>1, <1>3, <2>1
    <3>2. Shows(p)' = Shows(p) \cup {n + 1}
      <4>1. \A i \in 1..(n + 1) : i \in 1..n \/ i = n + 1
        BY <3>1
      <4>2. \A i \in 1..n : i \in 1..(n + 1)
        BY <3>1
      <4>3. n + 1 \in 1..(n + 1)
        BY <3>1
      <4> HIDE DEF n
      <4> QED
        BY <2>1, <3>1, <4>1, <4>2, <4>3 DEF Shows
    <3>3. n + 1 \notin Shows(p)
      BY <3>1 DEF Shows
    <3>4. Cardinality(Shows(p)') = Cardinality(Shows(p)) + 1
      BY <3>2, <3>3, SightsFinite, FS_AddElement
    <3> QED
      BY <1>1, <1>2, <2>0, <2>1, <3>4
  <2>2. CASE p # h /\ h \notin seenPaths /\ h \notin Deaf
    <3> DEFINE n == Len(report.storage)
    <3>1. /\ DOMAIN report.storage = 1..n /\ n \in Nat
          /\ DOMAIN report'.storage = 1..(n + 1)
          /\ report'.storage[n + 1] = h
          /\ \A i \in 1..n : report'.storage[i] = report.storage[i]
      BY <1>1, <1>3, <2>2
    <3>2. Shows(p)' = Shows(p)
      <4>1. \A i \in 1..(n + 1) : i \in 1..n \/ i = n + 1
        BY <3>1
      <4>2. \A i \in 1..n : i \in 1..(n + 1)
        BY <3>1
      <4> HIDE DEF n
      <4> QED
        BY <2>2, <3>1, <4>1, <4>2 DEF Shows
    <3> QED
      BY <1>1, <1>2, <2>0, <2>2, <3>2
  <2>3. CASE h \in seenPaths \/ h \in Deaf
    <3>1. Shows(p)' = Shows(p)
      BY <1>3, <2>3 DEF Shows
    <3> QED
      BY <1>1, <1>2, <2>0, <2>3, <3>1
  <2> QED
    BY <2>1, <2>2, <2>3
<1>5. \A t : (Shown(t)' <=> Shown(t)) /\ (Listing(t)' <=> Listing(t))
  BY <1>1, ListingStays
<1>6. Listing("mounts") /\ ~Shown("statvfs")
  BY <1>1, StatvfsLater
<1>7. Shown("mounts") /\ ~Listing("statvfs")
  BY <1>6 DEF Listing
<1>8. MountsMet'
  <2>1. \A p : p \in ToSet(toStat) <=> p = h \/ p \in ToSet(Tail(toStat))
    BY <1>1, <1>2, HeadOrTail
  <2>2. MountsMet
    BY <1>6 DEF MountsInv
  <2> QED
    BY <1>1, <1>2, <2>1, <2>2 DEF MountsMet
<1> QED
  BY <1>4, <1>5, <1>6, <1>7, <1>8 DEF MountsInv

LEMMA MountsStep == ReadingOK /\ MountsInv /\ [ReportNext]_reportVars => MountsInv'
<1> SUFFICES ASSUME ReadingOK, MountsInv, [ReportNext]_reportVars PROVE MountsInv'
  OBVIOUS
<1>0. report \in ReportData
  BY DEF ReadingOK
<1>1. ASSUME UNCHANGED machineVars PROVE SteadyMachine
  BY <1>1 DEF machineVars, SteadyMachine
<1>2. ASSUME NEW s, NEW r, Section(s, r), s \notin {"mounts", "statvfs"},
             UNCHANGED <<toStat, seenPaths>>, r.storage = report.storage
      PROVE  MountsInv'
  <2>1. /\ report'.storage = report.storage /\ UNCHANGED machineVars
        /\ \A t \in {"mounts", "statvfs"} : (Shown(t)' <=> Shown(t)) /\ (Listing(t)' <=> Listing(t))
    BY <1>2, Going
  <2> QED
    BY <1>1, <1>2, <2>1, LoopElsewhere
<1>3. ASSUME UNCHANGED <<agenda, reportCall>>, UNCHANGED machineVars,
             UNCHANGED <<toStat, seenPaths>>, report'.storage = report.storage
      PROVE  MountsInv'
  BY <1>1, <1>3, ListingStays, LoopElsewhere
<1>4. CASE TakeSnapshot \/ TakeSecurity \/ TakeContainers \/ TakeFirewall \/ TakeNetwork
  <2>1. CASE TakeSnapshot
    <3>1. PICK r : r = [report EXCEPT !.snapshot = machine.mounts] /\ Section("snapshot", r)
      BY <2>1 DEF TakeSnapshot
    <3>2. r.storage = report.storage /\ Section("snapshot", r)
      BY <1>0, <3>1 DEF ReportData
    <3>3. UNCHANGED <<toStat, seenPaths>>
      BY <2>1 DEF TakeSnapshot, Atomic, loopVars
    <3> QED
      BY <1>2, <3>2, <3>3
  <2>2. CASE TakeSecurity
    <3>1. PICK r, x : /\ r = [report EXCEPT !.exposed = x, !.socket = machine.socket]
                      /\ Section("security", r)
      BY <2>2 DEF TakeSecurity
    <3>2. r.storage = report.storage /\ Section("security", r)
      BY <1>0, <3>1 DEF ReportData
    <3>3. UNCHANGED <<toStat, seenPaths>>
      BY <2>2 DEF TakeSecurity, Atomic, loopVars
    <3> QED
      BY <1>2, <3>2, <3>3
  <2>3. CASE TakeContainers
    BY <1>0, <1>2, <2>3 DEF ReportData, Atomic, loopVars, TakeContainers
  <2>4. CASE TakeFirewall
    BY <1>0, <1>2, <2>4 DEF ReportData, Atomic, loopVars, TakeFirewall
  <2>5. CASE TakeNetwork
    BY <1>0, <1>2, <2>5 DEF ReportData, Atomic, loopVars, TakeNetwork
  <2> QED
    BY <1>4, <2>1, <2>2, <2>3, <2>4, <2>5
<1>5. CASE TakeDoctor \/ ListUnits \/ ListFailed \/ TakeCrash \/ TakeLatest \/ EndDevices
  <2>1. CASE TakeDoctor
    BY <1>0, <1>2, <2>1 DEF ReportData, Atomic, loopVars, TakeDoctor
  <2>2. CASE ListUnits
    BY <1>0, <1>2, <2>2 DEF ReportData, Atomic, loopVars, ListUnits
  <2>3. CASE ListFailed
    BY <1>0, <1>2, <2>3 DEF ReportData, Atomic, loopVars, ListFailed
  <2>4. CASE TakeCrash
    BY <1>0, <1>2, <2>4 DEF ReportData, Atomic, loopVars, TakeCrash
  <2>5. CASE TakeLatest
    BY <1>0, <1>2, <2>5 DEF ReportData, Atomic, loopVars, TakeLatest
  <2>6. CASE EndDevices
    BY <1>0, <1>2, <2>6 DEF ReportData, Atomic, loopVars, EndDevices
  <2> QED
    BY <1>5, <2>1, <2>2, <2>3, <2>4, <2>5, <2>6
<1>6. CASE ListDevices
  BY <1>0, <1>2, <1>6 DEF ReportData, ListDevices
<1>7. CASE ListMounts
  <2>1. Section("mounts", report) /\ toStat' = machine.mounts /\ seenPaths' = {}
    BY <1>7 DEF ListMounts
  <2>2. /\ report' = report /\ UNCHANGED machineVars /\ ~Shown("mounts") /\ Shown("mounts")'
        /\ Listing("statvfs")' <=> Listing("statvfs")
    BY <2>1, Going
  <2>3. ~Listing("statvfs") /\ seenPaths = {}
    BY <2>2 DEF MountsInv, Listing
  <2>4. MetOnce'
    <3>1. \A p : Shows(p)' = Shows(p)
      BY <2>2 DEF Shows
    <3> QED
      BY <2>1, <2>3, <3>1 DEF MountsInv, MetOnce
  <2>5. MountsMet'
    BY <2>1, <2>2 DEF MountsMet, machineVars
  <2> QED
    BY <2>2, <2>3, <2>4, <2>5 DEF MountsInv
<1>8. CASE StatMount
  BY <1>8, StatStep
<1>9. CASE EndMounts
  <2>1. Section("statvfs", report) /\ toStat = <<>> /\ UNCHANGED <<toStat, seenPaths>>
        /\ agenda # <<>> /\ Head(agenda) = "statvfs"
    BY <1>9 DEF EndMounts, Atomic, loopVars, Section
  <2>2. /\ report' = report /\ UNCHANGED machineVars
        /\ (Shown("mounts")' <=> Shown("mounts")) /\ (Listing("mounts")' <=> Listing("mounts"))
    BY <2>1, Going
  <2>3. Listing("mounts") /\ Shown("mounts")
    BY <2>1, StatvfsLater DEF Listing
  <2>4. MetOnce'
    <3>1. \A p : Shows(p)' = Shows(p)
      BY <2>2 DEF Shows
    <3> QED
      BY <2>1, <3>1 DEF MountsInv, MetOnce
  <2>5. MountsMet'
    BY <2>1, <2>2, <2>3 DEF MountsInv, MountsMet, machineVars
  <2> QED
    BY <2>1, <2>2, <2>3, <2>4, <2>5 DEF MountsInv
<1>10. ASSUME NEW d \in Device, SizeDevice(d) PROVE MountsInv'
  <2>1. report'.storage = report.storage
    BY <1>0, <1>10 DEF SizeDevice, ReportData
  <2> QED
    BY <1>3, <1>10, <2>1 DEF SizeDevice, reportInputs
<1>11. CASE EndSections \/ NameFile \/ WriteFile
  BY <1>3, <1>11 DEF EndSections, NameFile, WriteFile, reportInputs, loopVars
<1>12. CASE ReportChange
  BY <1>12, ChangeSteady, ChangeApart, ListingStays, LoopElsewhere DEF loopVars
<1>13. CASE UNCHANGED reportVars
  BY <1>3, <1>13 DEF reportVars, reportInputs, loopVars
<1> QED
  BY <1>4, <1>5, <1>6, <1>7, <1>8, <1>9, <1>10, <1>11, <1>12, <1>13 DEF ReportNext, ReportStep

LEMMA SizesStep == ReadingOK /\ SizesInv /\ [ReportNext]_reportVars => SizesInv'
<1> SUFFICES ASSUME ReadingOK, SizesInv, [ReportNext]_reportVars PROVE SizesInv'
  OBVIOUS
<1>0. report \in ReportData /\ toSize \subseteq Device
  BY DEF ReadingOK, LoopsOK
<1>1. ASSUME UNCHANGED machineVars, toSize' = toSize, report'.unsized = report.unsized
      PROVE  SizesInv'
  BY <1>1 DEF SizesInv, machineVars
<1>2. ASSUME NEW s, NEW r, Section(s, r), r.unsized = report.unsized, toSize' = toSize
      PROVE  SizesInv'
  BY <1>1, <1>2 DEF Section
<1>4. CASE TakeSnapshot \/ TakeSecurity \/ TakeContainers \/ TakeFirewall \/ TakeNetwork
  BY <1>0, <1>2, <1>4 DEF ReportData, Atomic, loopVars,
     TakeSnapshot, TakeSecurity, TakeContainers, TakeFirewall, TakeNetwork
<1>5. CASE TakeDoctor \/ ListUnits \/ ListFailed \/ TakeCrash \/ TakeLatest \/ EndDevices
  BY <1>0, <1>2, <1>5 DEF ReportData, Atomic, loopVars,
     TakeDoctor, ListUnits, ListFailed, TakeCrash, TakeLatest, EndDevices
<1>6. CASE ListDevices
  <2>1. report'.unsized = report.unsized /\ toSize' = machine.devices /\ UNCHANGED machineVars
    BY <1>0, <1>6 DEF ReportData, ListDevices, Section
  <2> QED
    BY <2>1 DEF SizesInv, machineVars
<1>7. CASE ListMounts \/ EndMounts
  BY <1>2, <1>7 DEF ListMounts, EndMounts, Atomic, loopVars
<1>8. CASE StatMount
  <2>1. report'.unsized = report.unsized
    BY <1>0, <1>8 DEF StatMount, ReportData
  <2> QED
    BY <1>1, <1>8, <2>1 DEF StatMount
<1>10. ASSUME NEW d \in Device, SizeDevice(d) PROVE SizesInv'
  <2>1. report'.unsized = IF d \in machine.devices THEN report.unsized ELSE report.unsized \cup {d}
    BY <1>0, <1>10 DEF SizeDevice, ReportData
  <2>2. d \in toSize /\ toSize' = toSize \ {d} /\ UNCHANGED machineVars
    BY <1>10 DEF SizeDevice
  <2> QED
    BY <2>1, <2>2 DEF SizesInv, machineVars
<1>11. CASE EndSections \/ NameFile \/ WriteFile
  BY <1>1, <1>11 DEF EndSections, NameFile, WriteFile, loopVars
<1>12. CASE ReportChange
  <2>1. SteadyMachine /\ UNCHANGED <<report, toSize>>
    BY <1>12, ChangeSteady, ChangeApart DEF loopVars
  <2> QED
    BY <1>0, <2>1 DEF SizesInv, SteadyMachine
<1>13. CASE UNCHANGED reportVars
  BY <1>1, <1>13 DEF reportVars, loopVars
<1> QED
  BY <1>4, <1>5, <1>6, <1>7, <1>8, <1>10, <1>11, <1>12, <1>13 DEF ReportNext, ReportStep

\* Sections that are read at different times (report.py:49) agree on whatever
\* did not change meanwhile, for any machine: the storage section with the
\* mount table, which it walks after reading it, and never twice on a mount
\* point; the sections that look for listeners with one another, as far as the
\* backends of the firewall answered and the evidence had room.
THEOREM SectionsAgree == ReportSpec => []SteadySectionsAgree
<1>1. LookedInv /\ MountsInv /\ SizesInv => SteadySectionsAgree
  <2> SUFFICES ASSUME LookedInv, MountsInv, SizesInv PROVE SteadySectionsAgree
    OBVIOUS
  <2>1. \A p \in MountPoint : Rows(p) = IF p \in seenPaths \ Deaf THEN 1 ELSE 0
    BY DEF MountsInv, MetOnce, Shows, Rows
  <2>2. ASSUME NEW p \in Steady(MountPoint), Listing("statvfs")
        PROVE  Rows(p) = 1 <=> p \in ToSet(machine.mounts) \ Deaf
    <3>1. MountsMet /\ toStat = <<>> /\ p \in MountPoint \ touchedThings
      BY <2>2 DEF MountsInv, Steady
    <3>2. ToSet(toStat) = {}
      BY <3>1 DEF ToSet
    <3>3. p \in ToSet(machine.mounts) <=> p \in seenPaths
      BY <3>1, <3>2 DEF MountsMet
    <3> QED
      BY <2>1, <3>1, <3>3
  <2>3. report.unsized \cap Steady(Device) = {}
    BY DEF SizesInv, Steady
  <2>4. \A l \in Steady(Listener) : ListenerTold(l)
    BY DEF LookedInv, Steady
  <2>5. \A p \in MountPoint : Rows(p) <= 1
    BY <2>1
  <2> QED
    BY <2>2, <2>3, <2>4, <2>5 DEF SteadySectionsAgree, ListenerTold
<1> QED
  BY <1>1, ReadingInit, ReadingStep, LookedInit, LookedStep, MountsInit, MountsStep, SizesStep, PTL
     DEF ReportSpec
------------------------------------------------------------------------------
(***************************************************************************)
(* A diagnosis, for any facts, units, log and files.  Its issues are       *)
(* appended to in every step, so what a step adds is all there is to say:  *)
(* ToldIn are the places of the issues about the kernel's log, CodedIn     *)
(* those of the issues about a file.                                       *)
(***************************************************************************)
ToldIn(is) == {n \in DOMAIN is : is[n].source \in Log}
CodedIn(is, f) == {n \in DOMAIN is : is[n].source = "python" /\ is[n].what = f}

FactSource == {"memory", "swap", "disk", "kernel", "network", "systemd"}
FactRecord == [severity : Severity, source : FactSource, what : Subject, bytes : BOOLEAN]

\* Issues that have a title.
TitledIssue == {i \in IssueRecord : i.source \in Log => i.what \in DOMAIN TitleOf}

LEMMA AnyOrder ==
  ASSUME NEW S, IsFiniteSet(S)
  PROVE  SetToSeq(S) \in Seq(S) /\ SetToSeq(S) \in [1..Cardinality(S) -> S]
<1>1. Cardinality(S) \in Nat /\ ExistsBijection(1..Cardinality(S), S)
  BY FS_CardinalityType
<1>2. \E f \in [1..Cardinality(S) -> S] : IsInjective(f)
  BY <1>1 DEF ExistsBijection, Bijection, Injection, IsInjective
<1>3. SetToSeq(S) \in [1..Cardinality(S) -> S]
  BY <1>2 DEF SetToSeq
<1> QED
  BY <1>1, <1>3, SeqDef

LEMMA IssueOK ==
  ASSUME NEW sev \in Severity, NEW src \in Source, NEW what \in Subject
  PROVE  /\ Issue(sev, src, what) \in IssueRecord
         /\ src \in FactSource => Issue(sev, src, what) \in FactRecord
         /\ Issue(sev, src, what).source = src /\ Issue(sev, src, what).what = what
  BY DEF Issue, IssueRecord, FactRecord

LEMMA ExcuseOK ==
  ASSUME NEW src \in Source, NEW what \in Subject, NEW b \in BOOLEAN
  PROVE  /\ Excuse(src, what, b) \in IssueRecord
         /\ src \in FactSource => Excuse(src, what, b) \in FactRecord
         /\ Excuse(src, what, b).source = src /\ Excuse(src, what, b).what = what
<1>1. "info" \in Severity
  BY DEF Severity
<1>2. PICK i : i = Issue("info", src, what)
  OBVIOUS
<1>3. /\ i \in IssueRecord /\ i.source = src /\ i.what = what
      /\ src \in FactSource => i \in FactRecord
  BY <1>1, <1>2, IssueOK
<1>4. Excuse(src, what, b) = [i EXCEPT !.bytes = b]
  BY <1>2 DEF Excuse
<1> QED
  BY <1>3, <1>4 DEF IssueRecord, FactRecord

LEMMA IfOK ==
  ASSUME NEW S, NEW e \in S, NEW c
  PROVE  If(c, e) \in Seq(S)
  BY DEF If

LEMMA Joined ==
  ASSUME NEW S, NEW s \in Seq(S), NEW t \in Seq(S)
  PROVE  s \o t \in Seq(S)
  BY ConcatProperties

LEMMA Wider ==
  ASSUME NEW s \in Seq(FactRecord)
  PROVE  s \in Seq(TitledIssue) /\ \A n \in DOMAIN s : s[n].source \in FactSource
<1>1. FactRecord \subseteq TitledIssue
  BY DEF FactRecord, IssueRecord, TitledIssue, FactSource, Source, Log
<1>2. /\ Len(s) \in Nat /\ DOMAIN s = 1..Len(s) /\ s \in [1..Len(s) -> FactRecord]
  BY LenProperties
<1>3. s \in [1..Len(s) -> TitledIssue]
  BY <1>1, <1>2
<1>4. s \in Seq(TitledIssue)
  BY <1>2, <1>3, SeqDef
<1>5. \A n \in DOMAIN s : s[n] \in FactRecord
  BY <1>2
<1> QED
  BY <1>4, <1>5 DEF FactRecord

LEMMA FactsOK == \A f \in Facts : FactIssues(f) \in Seq(FactRecord)
<1> SUFFICES ASSUME NEW f \in Facts PROVE FactIssues(f) \in Seq(FactRecord)
  OBVIOUS
<1>0. /\ {"warning", "critical"} \subseteq Severity
      /\ {"RAM very high", "RAM high", "disk almost full", "disk high",
          "exhausted", "tainted"} \subseteq Subject
      /\ {"memory", "swap", "disk", "kernel", "network"} \subseteq FactSource
      /\ FactSource \subseteq Source
  BY DEF Severity, Subject, FactSource, Source
<1>1. ASSUME NEW src \in {"memory", "disk"}, NEW p, NEW full \in Subject, NEW high \in Subject
      PROVE  Usage(src, p, full, high) \in Seq(FactRecord)
  <2>1. /\ Issue("critical", src, full) \in FactRecord
        /\ Issue("warning", src, high) \in FactRecord
    BY <1>0, <1>1, IssueOK
  <2>2. /\ If(p >= 95, Issue("critical", src, full)) \in Seq(FactRecord)
        /\ If(p \in 85..94, Issue("warning", src, high)) \in Seq(FactRecord)
    BY <2>1, IfOK
  <2> QED
    BY <2>2, Joined DEF Usage
<1>2. PICK swap : swap = If(f.swapTotal # 0 /\ 10 * f.swapFree < f.swapTotal,
                            Issue("warning", "swap", "exhausted"))
  OBVIOUS
<1>3. PICK taint : taint = If(f.tainted, Issue("warning", "kernel", "tainted"))
  OBVIOUS
<1>4. swap \in Seq(FactRecord) /\ taint \in Seq(FactRecord)
  <2>1. /\ Issue("warning", "swap", "exhausted") \in FactRecord
        /\ Issue("warning", "kernel", "tainted") \in FactRecord
    BY <1>0, IssueOK
  <2> QED
    BY <1>2, <1>3, <2>1, IfOK
<1>5. PICK nics : nics = [i \in DOMAIN Offline(f.nics) |->
                            Issue("warning", "network", Offline(f.nics)[i])]
  OBVIOUS
<1>6. nics \in Seq(FactRecord)
  <2>1. PICK N : N = {n.name : n \in {m \in f.nics : m.name # "lo" /\ m.carrier /\ ~m.ipv4}}
    OBVIOUS
  <2>2. IsFiniteSet(N)
    <3>1. IsFiniteSet({n.name : n \in f.nics})
      BY DoctorAssumption DEF DoctorAssumption
    <3>2. N \in SUBSET {n.name : n \in f.nics}
      BY <2>1
    <3>3. \A T : IsFiniteSet(T) => \A R \in SUBSET T : IsFiniteSet(R)
      BY FS_Subset
    <3> QED
      BY <3>1, <3>2, <3>3, Zenon
  <2>3. N \subseteq Subject
    <3>1. N \subseteq {n.name : n \in f.nics}
      BY <2>1
    <3>2. {n.name : n \in f.nics} \in {{n.name : n \in g.nics} : g \in Facts}
      OBVIOUS
    <3> QED
      BY <3>1, <3>2 DEF Subject
  <2>4. PICK o : o = Offline(f.nics)
    OBVIOUS
  <2>5. o \in [1..Cardinality(N) -> N] /\ Cardinality(N) \in Nat
    BY <2>1, <2>2, <2>4, AnyOrder, FS_CardinalityType DEF Offline
  <2>6. \A i \in 1..Cardinality(N) : Issue("warning", "network", o[i]) \in FactRecord
    BY <1>0, <2>3, <2>5, IssueOK
  <2>7. nics \in [1..Cardinality(N) -> FactRecord]
    BY <1>5, <2>4, <2>5, <2>6
  <2> QED
    BY <2>5, <2>7, SeqDef
<1>8. PICK ramIssues, diskIssues :
         /\ ramIssues = Usage("memory", f.memory, "RAM very high", "RAM high")
         /\ diskIssues = Usage("disk", f.disk, "disk almost full", "disk high")
  OBVIOUS
<1>7. FactIssues(f) = (((ramIssues \o swap) \o diskIssues) \o taint) \o nics
  BY <1>2, <1>3, <1>5, <1>8 DEF FactIssues
<1>9. ramIssues \in Seq(FactRecord) /\ diskIssues \in Seq(FactRecord)
  BY <1>0, <1>1, <1>8
<1> QED
  BY <1>4, <1>6, <1>7, <1>9, Joined
------------------------------------------------------------------------------
\* _unique_lines(): the same lines, each once.
Distinct(s) == \A i, j \in DOMAIN s : s[i] = s[j] => i = j

LEMMA UniqueOK ==
  ASSUME NEW S, NEW lines \in Seq(S)
  PROVE  /\ UniqueLines(lines) \in Seq(S) /\ Distinct(UniqueLines(lines))
         /\ ToSet(UniqueLines(lines)) = ToSet(lines)
<1> DEFINE V == Seq(S)
           Next1(v, n) == IF Contains(v, lines[n]) THEN v ELSE Append(v, lines[n])
           Good(v, n) == v \in V /\ Distinct(v) /\ ToSet(v) = {lines[k] : k \in 1..n}
<1>1. PICK N \in Nat : N = Len(lines) /\ DOMAIN lines = 1..N /\ \A n \in 1..N : lines[n] \in S
  BY LenProperties, ElementOfSeq
<1>2. PICK F : F = [p \in V \X (1..N) |-> Next1(p[1], p[2])]
  OBVIOUS
<1>a. <<>> \in V /\ \A v \in V, e \in S : Append(v, e) \in V
  OBVIOUS
<1>b. F \in [V \X (1..N) -> V] /\ \A v \in V, n \in 1..N : F[<<v, n>>] = Next1(v, n)
  <2> HIDE DEF V
  <2> QED
    BY <1>1, <1>2, <1>a
<1>3. PICK w \in [0..N -> V] : w[0] = <<>> /\ \A n \in 1..N : w[n] = F[<<w[n - 1], n>>]
  <2>1. PICK W : W = V
    OBVIOUS
  <2>2. F \in Steps(W, N) /\ <<>> \in W /\ N \in Nat
    BY <1>a, <1>b, <2>1 DEF Steps
  <2>3. \E w \in [0..N -> W] : w[0] = <<>> /\ \A n \in 1..N : w[n] = F[<<w[n - 1], n>>]
    BY <2>2, Folded
  <2> QED
    BY <2>1, <2>3
<1>4. w = [n \in 0..N |-> IF n = 0 THEN <<>> ELSE IF Contains(w[n - 1], lines[n]) THEN w[n - 1]
                                                  ELSE Append(w[n - 1], lines[n])]
  <2>1. ASSUME NEW n \in 1..N
        PROVE  w[n] = IF Contains(w[n - 1], lines[n]) THEN w[n - 1] ELSE Append(w[n - 1], lines[n])
    <3>1. n - 1 \in 0..N
      OBVIOUS
    <3>2. w[n - 1] \in V
      BY <3>1
    <3>3. w[n] = Next1(w[n - 1], n)
      BY <1>3, <1>b, <3>2
    <3> QED
      BY <3>3
  <2>2. \A n \in 0..N : n = 0 \/ n \in 1..N
    OBVIOUS
  <2> HIDE DEF V
  <2> QED
    BY <1>3, <2>1, <2>2
<1>5. PICK u : /\ u = [n \in 0..N |-> IF n = 0 THEN <<>>
                                      ELSE IF Contains(u[n - 1], lines[n]) THEN u[n - 1]
                                           ELSE Append(u[n - 1], lines[n])]
               /\ UniqueLines(lines) = u[N]
  BY <1>1, <1>4 DEF UniqueLines
<1>6. u[0] = <<>> /\ \A n \in 1..N : u[n] = Next1(u[n - 1], n)
  <2>1. \A n \in 1..N : n \in 0..N /\ n # 0
    OBVIOUS
  <2>2. 0 \in 0..N
    OBVIOUS
  <2> QED
    BY <1>5, <2>1, <2>2
<1> DEFINE Q == {n \in 0..N : Good(u[n], n)}
<1>7. 0 \in Q
  <2>1. Good(u[0], 0)
    BY <1>6, <1>a DEF ToSet, Distinct
  <2> QED
    BY <1>1, <2>1
<1>8. ASSUME NEW n \in 0..(N - 1), n \in Q PROVE n + 1 \in Q
  <2>1. PICK v : v = u[n]
    OBVIOUS
  <2>2. PICK e \in S : e = lines[n + 1]
    BY <1>1
  <2>3. n + 1 \in 1..N /\ n + 1 \in 0..N /\ n + 1 - 1 = n
    BY <1>1
  <2>4. u[n + 1] = IF Contains(v, e) THEN v ELSE Append(v, e)
    BY <1>6, <2>1, <2>2, <2>3
  <2>5. {lines[k] : k \in 1..(n + 1)} = {lines[k] : k \in 1..n} \cup {e}
    <3>1. \A k \in 1..(n + 1) : k \in 1..n \/ k = n + 1
      OBVIOUS
    <3>2. n + 1 \in 1..(n + 1) /\ \A k \in 1..n : k \in 1..(n + 1)
      OBVIOUS
    <3> QED
      BY <2>2, <3>1, <3>2
  <2>6. v \in V /\ Distinct(v) /\ ToSet(v) = {lines[k] : k \in 1..n}
    BY <1>8, <2>1
  <2>7. Contains(v, e) <=> e \in ToSet(v)
    BY <2>6 DEF Contains, ToSet
  <2>8. CASE Contains(v, e)
    <3>1. Good(v, n + 1)
      BY <2>5, <2>6, <2>7, <2>8
    <3> QED
      BY <2>3, <2>4, <2>8, <3>1
  <2>9. CASE ~Contains(v, e)
    <3>1. Append(v, e) \in V /\ ToSet(Append(v, e)) = ToSet(v) \cup {e}
      BY <2>6, Appended, AppendProperties
    <3>2. Distinct(Append(v, e))
      <4>1. /\ Len(v) \in Nat /\ DOMAIN v = 1..Len(v)
            /\ DOMAIN Append(v, e) = 1..(Len(v) + 1)
            /\ Append(v, e)[Len(v) + 1] = e
            /\ \A i \in 1..Len(v) : Append(v, e)[i] = v[i]
        BY <2>6
      <4>2. \A i \in 1..Len(v) : v[i] # e
        BY <2>7, <2>9, <4>1 DEF ToSet
      <4> QED
        BY <2>6, <4>1, <4>2 DEF Distinct
    <3>3. Good(Append(v, e), n + 1)
      BY <2>5, <2>6, <3>1, <3>2
    <3> QED
      BY <2>3, <2>4, <2>9, <3>3
  <2> QED
    BY <2>8, <2>9
<1> HIDE DEF Q, Good
<1>9. N \in Q
  <2>1. \A n \in 0..N : n \in Q
    BY <1>7, <1>8, UpTo, Zenon
  <2> QED
    BY <2>1
<1>10. Good(u[N], N)
  BY <1>9 DEF Q
<1>11. ToSet(lines) = {lines[k] : k \in 1..N}
  BY <1>1 DEF ToSet
<1> QED
  BY <1>5, <1>10, <1>11 DEF Good
------------------------------------------------------------------------------
\* What the log is said to have told, once it is read.
Account(is, j, d) ==
  LET said == IF j.lines # <<>> \/ Unanswered(j.code) THEN j ELSE d IN
  /\ ToldIn(is) = {} <=> (j.lines = <<>> /\ d.lines = <<>> /\ ~Unanswered(said.code))
  /\ \A m, n \in ToldIn(is) : is[m].what = is[n].what => m = n
  /\ ~Unanswered(said.code) => {is[n].what : n \in ToldIn(is)} = Recent(said)

Silent == {"no journal", "no dmesg"}

\* An answer as it is told by an issue of each line, or by an excuse.
TellLog(src, excuse, a) ==
  IF Unanswered(a.code) THEN <<Excuse(src, excuse, a.bytes)>> ELSE LogIssues(src, a.lines)

LEMMA TailOK ==
  ASSUME NEW S, NEW lines \in Seq(S)
  PROVE  /\ Tail30(lines) \in Seq(S)
         /\ ToSet(Tail30(lines)) = {} <=> lines = <<>>
<1> DEFINE from == IF Len(lines) > LogTail THEN Len(lines) - LogTail + 1 ELSE 1
<1>1. /\ Len(lines) \in Nat /\ DOMAIN lines = 1..Len(lines)
      /\ \A j \in 1..Len(lines) : lines[j] \in S
  BY LenProperties, ElementOfSeq
<1>2. LogTail \in Nat \ {0}
  BY DoctorAssumption DEF DoctorAssumption
<1>3. from \in Nat /\ 1 <= from /\ (lines # <<>> => from <= Len(lines)) /\ (lines = <<>> => Len(lines) < from)
  BY <1>1, <1>2
<1> HIDE DEF from
<1>4. /\ SubSeq(lines, from, Len(lines)) \in Seq(S)
      /\ Len(SubSeq(lines, from, Len(lines))) = IF from <= Len(lines) THEN Len(lines) - from + 1 ELSE 0
  <2>1. from \in Int /\ Len(lines) \in Int /\ \A j \in from..Len(lines) : lines[j] \in S
    BY <1>1, <1>3
  <2> QED
    BY <2>1, SubSeqProperties
<1>5. Tail30(lines) = SubSeq(lines, from, Len(lines))
  BY DEF Tail30, from
<1>6. PICK u \in Seq(S) : u = Tail30(lines)
  BY <1>4, <1>5
<1>7. Len(u) = 0 <=> lines = <<>>
  BY <1>1, <1>3, <1>4, <1>5, <1>6
<1>8. DOMAIN u = 1..Len(u) /\ Len(u) \in Nat
  OBVIOUS
<1>9. ToSet(u) = {} <=> Len(u) = 0
  <2>1. Len(u) # 0 => 1 \in DOMAIN u
    BY <1>8
  <2>2. Len(u) = 0 => DOMAIN u = {}
    BY <1>8
  <2> QED
    BY <2>1, <2>2 DEF ToSet
<1> QED
  BY <1>6, <1>7, <1>9

LEMMA AnswerOK ==
  ASSUME NEW a \in Answer
  PROVE  /\ a.lines \in Seq(KernelLine) /\ a.bytes \in BOOLEAN
         /\ Unanswered(a.code) => a.lines = <<>>
<1>1. KernelLog \subseteq Seq(KernelLine)
  BY DoctorAssumption, Zenon DEF DoctorAssumption
<1>2. <<>> \in Seq(KernelLine)
  OBVIOUS
<1>3. PICK e : e = <<>>
  OBVIOUS
<1>4. CASE a \in [code : {"0"}, lines : KernelLog, bytes : {FALSE}]
  <2>1. a.lines \in KernelLog /\ a.bytes = FALSE /\ a.code = "0"
    BY <1>4
  <2> QED
    BY <1>1, <2>1 DEF Unanswered
<1>5. CASE a \in [code : {"1", "other"}, lines : {e}, bytes : {FALSE}]
  <2>1. a.lines = e /\ a.bytes = FALSE
    BY <1>5
  <2> QED
    BY <1>2, <1>3, <2>1, Zenon
<1>6. CASE a \in [code : {"124"}, lines : {e}, bytes : BOOLEAN]
  <2>1. a.lines = e /\ a.bytes \in BOOLEAN
    BY <1>6
  <2> QED
    BY <1>2, <1>3, <2>1, Zenon
<1>7. CASE a = [code |-> "missing", lines |-> e, bytes |-> FALSE]
  <2>1. a.lines = e /\ a.bytes = FALSE
    BY <1>7
  <2> QED
    BY <1>2, <1>3, <2>1, Zenon
<1> QED
  BY <1>3, <1>4, <1>5, <1>6, <1>7, Zenon DEF Answer, Missing

\* The issues t tell all that a said, each line once.
Tells(t, src, a) ==
  /\ t \in Seq(TitledIssue) /\ \A n \in DOMAIN t : t[n].source = src
  /\ t = <<>> <=> (a.lines = <<>> /\ ~Unanswered(a.code))
  /\ \A m, n \in DOMAIN t : t[m].what = t[n].what => m = n
  /\ ~Unanswered(a.code) => {t[n].what : n \in DOMAIN t} = Recent(a)

LEMMA TellLogOK ==
  ASSUME NEW src \in Log, NEW excuse \in Silent, NEW a \in Answer
  PROVE  Tells(TellLog(src, excuse, a), src, a)
<1>0. PICK t : t = TellLog(src, excuse, a)
  OBVIOUS
<1>1. /\ src \in Source /\ excuse \in Subject /\ KernelLine \subseteq Subject
      /\ excuse \in DOMAIN TitleOf /\ KernelLine \subseteq DOMAIN TitleOf
  BY DoctorAssumption DEF DoctorAssumption, Log, Source, Subject, Silent
<1>2. a.lines \in Seq(KernelLine) /\ a.bytes \in BOOLEAN /\ (Unanswered(a.code) => a.lines = <<>>)
  BY AnswerOK
<1>3. CASE Unanswered(a.code)
  <2>1. PICK e : e = Excuse(src, excuse, a.bytes)
    OBVIOUS
  <2>2. e \in IssueRecord /\ e.source = src /\ e.what = excuse
    BY <1>1, <1>2, <2>1, ExcuseOK, Zenon
  <2>3. e \in TitledIssue
    BY <1>1, <2>2, Zenon DEF TitledIssue
  <2>4. t = <<e>>
    BY <1>0, <1>3, <2>1, Zenon DEF TellLog
  <2>5. <<e>> \in Seq(TitledIssue) /\ DOMAIN <<e>> = 1..1 /\ <<e>>[1] = e /\ <<e>> # <<>>
    BY <2>3
  <2>6. \A m, n \in 1..1 : m = n /\ m = 1
    OBVIOUS
  <2> QED
    BY <1>0, <1>3, <2>2, <2>4, <2>5, <2>6 DEF Tells
<1>4. CASE ~Unanswered(a.code)
  <2>1. PICK u : u = UniqueLines(Tail30(a.lines))
    OBVIOUS
  <2>2. /\ u \in Seq(KernelLine) /\ Distinct(u) /\ ToSet(u) = Recent(a)
        /\ ToSet(u) = {} <=> a.lines = <<>>
    BY <1>2, <2>1, TailOK, UniqueOK DEF Recent
  <2>3. t = [i \in DOMAIN u |-> Issue("error", src, u[i])]
    BY <1>0, <1>4, <2>1 DEF TellLog, LogIssues
  <2>5. /\ Len(u) \in Nat /\ DOMAIN u = 1..Len(u)
        /\ \A j \in 1..Len(u) : u[j] \in KernelLine
    BY <2>2, LenProperties, ElementOfSeq
  <2>6. \A i \in DOMAIN u : t[i] = Issue("error", src, u[i]) /\ u[i] \in KernelLine
    BY <2>3, <2>5
  <2>7. "error" \in Severity
    BY DEF Severity
  <2>8. \A i \in DOMAIN u : t[i] \in TitledIssue /\ t[i].source = src /\ t[i].what = u[i]
    <3> SUFFICES ASSUME NEW i \in DOMAIN u
                 PROVE  t[i] \in TitledIssue /\ t[i].source = src /\ t[i].what = u[i]
      OBVIOUS
    <3>1. u[i] \in Subject
      BY <1>1, <2>6
    <3>2. t[i] \in IssueRecord /\ t[i].source = src /\ t[i].what = u[i]
      <4>1. PICK w \in Subject : w = u[i]
        BY <3>1
      <4>2. t[i] = Issue("error", src, w)
        BY <2>6, <4>1
      <4> QED
        BY <1>1, <2>7, <4>1, <4>2, IssueOK
    <3> QED
      BY <1>1, <2>6, <3>2 DEF TitledIssue
  <2>9. t \in [1..Len(u) -> TitledIssue] /\ DOMAIN t = DOMAIN u
    BY <2>3, <2>5, <2>8
  <2>10. t \in Seq(TitledIssue)
    BY <2>5, <2>9, SeqDef
  <2>11. \A m, n \in DOMAIN t : t[m].what = t[n].what => m = n
    BY <2>2, <2>8, <2>9 DEF Distinct
  <2>12. {t[n].what : n \in DOMAIN t} = ToSet(u)
    BY <2>8, <2>9 DEF ToSet
  <2>13. t = <<>> <=> ToSet(u) = {}
    <3>1. t = <<>> <=> Len(t) = 0
      BY <2>10, EmptySeq
    <3>2. DOMAIN t = 1..Len(t) /\ Len(t) \in Nat
      BY <2>10, LenProperties
    <3>3. Len(t) = 0 <=> 1 \notin DOMAIN t
      BY <3>2
    <3>4. ToSet(u) = {} <=> DOMAIN u = {}
      BY DEF ToSet
    <3>5. DOMAIN u = {} <=> 1 \notin DOMAIN u
      BY <2>5
    <3> QED
      BY <2>9, <3>1, <3>3, <3>4, <3>5
  <2> QED
    BY <1>0, <1>4, <2>2, <2>8, <2>9, <2>10, <2>11, <2>12, <2>13 DEF Tells
<1> QED
  BY <1>3, <1>4

\* Issues that are not about the log leave what is told of it.
LEMMA Untold ==
  ASSUME NEW is \in Seq(TitledIssue), NEW t \in Seq(TitledIssue),
         \A n \in DOMAIN t : t[n].source \notin Log
  PROVE  /\ is \o t \in Seq(TitledIssue) /\ ToldIn(is \o t) = ToldIn(is)
         /\ \A n \in ToldIn(is) : (is \o t)[n] = is[n]
  BY Extended DEF ToldIn

\* The first issues about the log are all that is told of it.
LEMMA ToldAs ==
  ASSUME NEW is \in Seq(TitledIssue), NEW t \in Seq(TitledIssue),
         \A n \in DOMAIN t : t[n].source \in Log, ToldIn(is) = {}
  PROVE  /\ is \o t \in Seq(TitledIssue)
         /\ \A n : n \in ToldIn(is \o t) <=> \E k \in DOMAIN t : n = Len(is) + k
         /\ \A k \in DOMAIN t : (is \o t)[Len(is) + k] = t[k]
<1>0. PICK r : r = is \o t
  OBVIOUS
<1>1. /\ r \in Seq(TitledIssue)
      /\ \A n \in DOMAIN is : n \in DOMAIN r /\ r[n] = is[n]
      /\ \A k \in DOMAIN t : Len(is) + k \in DOMAIN r /\ r[Len(is) + k] = t[k]
      /\ \A n \in DOMAIN r : n \in DOMAIN is \/ \E k \in DOMAIN t : n = Len(is) + k
  BY <1>0, Extended
<1>2. \A n \in DOMAIN is : r[n].source \notin Log
  BY <1>1 DEF ToldIn
<1>3. \A n : n \in ToldIn(r) <=> \E k \in DOMAIN t : n = Len(is) + k
  BY <1>1, <1>2 DEF ToldIn
<1> QED
  BY <1>0, <1>1, <1>3

LEMMA AccountOf ==
  ASSUME NEW src \in Log, NEW excuse \in Silent, NEW j \in Answer, NEW d \in Answer,
         NEW a, a = IF j.lines # <<>> \/ Unanswered(j.code) THEN j ELSE d,
         a = d \/ d.lines = <<>>,
         NEW is \in Seq(TitledIssue), ToldIn(is) = {}
  PROVE  /\ is \o TellLog(src, excuse, a) \in Seq(TitledIssue)
         /\ Account(is \o TellLog(src, excuse, a), j, d)
<1>1. a \in Answer
  OBVIOUS
<1>2. PICK t : t = TellLog(src, excuse, a)
  OBVIOUS
<1>3. /\ t \in Seq(TitledIssue) /\ \A n \in DOMAIN t : t[n].source = src
      /\ t = <<>> <=> (a.lines = <<>> /\ ~Unanswered(a.code))
      /\ \A m, n \in DOMAIN t : t[m].what = t[n].what => m = n
      /\ ~Unanswered(a.code) => {t[n].what : n \in DOMAIN t} = Recent(a)
  BY <1>1, <1>2, TellLogOK DEF Tells
<1>4. PICK r : r = is \o t
  OBVIOUS
<1>5. /\ r \in Seq(TitledIssue)
      /\ \A n : n \in ToldIn(r) <=> \E k \in DOMAIN t : n = Len(is) + k
      /\ \A k \in DOMAIN t : r[Len(is) + k] = t[k]
  BY <1>3, <1>4, ToldAs
<1>6. t = <<>> <=> DOMAIN t = {}
  <2>1. DOMAIN t = 1..Len(t) /\ Len(t) \in Nat /\ (t # <<>> => Len(t) # 0)
    BY <1>3
  <2>2. t # <<>> => 1 \in DOMAIN t
    BY <2>1
  <2> QED
    BY <2>2
<1>7. (a.lines = <<>> /\ ~Unanswered(a.code)) <=>
        (j.lines = <<>> /\ d.lines = <<>> /\ ~Unanswered(a.code))
  OBVIOUS
<1>8. ToldIn(r) = {} <=> DOMAIN t = {}
  BY <1>5
<1>9. \A m, n \in ToldIn(r) : r[m].what = r[n].what => m = n
  <2> SUFFICES ASSUME NEW m \in ToldIn(r), NEW n \in ToldIn(r), r[m].what = r[n].what
               PROVE  m = n
    OBVIOUS
  <2>1. PICK k \in DOMAIN t, l \in DOMAIN t : m = Len(is) + k /\ n = Len(is) + l
    BY <1>5
  <2>2. r[m] = t[k] /\ r[n] = t[l]
    BY <1>5, <2>1
  <2>3. t[k].what = t[l].what
    BY <2>2, Zenon
  <2> QED
    BY <1>3, <2>1, <2>3, Zenon
<1>10. {r[n].what : n \in ToldIn(r)} = {t[n].what : n \in DOMAIN t}
  BY <1>5
<1>11. Account(r, j, d)
  BY <1>3, <1>6, <1>7, <1>8, <1>9, <1>10, Zenon DEF Account
<1> QED
  BY <1>2, <1>4, <1>5, <1>11, Zenon
------------------------------------------------------------------------------
\* group_issues(): one issue after the other, each into the group of its key.
Group == [key : Severity \X Title, of : Seq(IssueRecord)]
Ordered(of, s, I) ==
  Len(of) = Cardinality(I) /\ \A i \in I : of[Cardinality({j \in I : j <= i})] = s[i]
With(s, n, key) == {i \in 1..n : Key(s[i]) = key}
Grouped(gs, s, n) ==
  /\ gs \in Seq(Group)
  /\ \A k, l \in DOMAIN gs : gs[k].key = gs[l].key => k = l
  /\ \A k \in DOMAIN gs : Ordered(gs[k].of, s, With(s, n, gs[k].key))
  /\ {Key(s[i]) : i \in 1..n} = {gs[k].key : k \in DOMAIN gs}

LEMMA KeyOK ==
  ASSUME NEW i \in TitledIssue
  PROVE  Key(i) \in Severity \X Title
<1>1. i \in IssueRecord /\ (i.source \in Log => i.what \in DOMAIN TitleOf)
  BY DEF TitledIssue
<1>2. i.severity \in Severity /\ i.what \in Subject
  BY <1>1 DEF IssueRecord
<1>3. IssueTitle(i) \in Title
  BY <1>1, <1>2 DEF IssueTitle, Title
<1> QED
  BY <1>2, <1>3 DEF Key

LEMMA OrderGrows ==
  ASSUME NEW R, NEW s, NEW n \in Nat, NEW I \in SUBSET (1..n), NEW of \in Seq(R),
         NEW e \in R, s[n + 1] = e, Ordered(of, s, I)
  PROVE  Append(of, e) \in Seq(R) /\ Ordered(Append(of, e), s, I \cup {n + 1})
<1> DEFINE J == I \cup {n + 1}
<1>1. IsFiniteSet(I) /\ \A T \in SUBSET I : IsFiniteSet(T) /\ Cardinality(T) <= Cardinality(I)
  <2>1. IsFiniteSet(1..n)
    BY FS_Interval
  <2>2. IsFiniteSet(I)
    BY <2>1, FS_Subset
  <2> QED
    BY <2>2, FS_Subset
<1>2. PICK c \in Nat : c = Cardinality(I)
  BY <1>1, FS_CardinalityType
<1>3. n + 1 \notin I
  OBVIOUS
<1>4. Cardinality(J) = c + 1
  BY <1>1, <1>2, <1>3, FS_AddElement
<1>5. /\ Len(of) = c /\ Append(of, e) \in Seq(R) /\ Len(Append(of, e)) = c + 1
      /\ Append(of, e)[c + 1] = e /\ \A k \in 1..c : Append(of, e)[k] = of[k]
  BY <1>2 DEF Ordered
<1>6. ASSUME NEW i \in I
      PROVE  Append(of, e)[Cardinality({j \in J : j <= i})] = s[i]
  <2>1. PICK L : L = {j \in I : j <= i}
    OBVIOUS
  <2>2. {j \in J : j <= i} = L
    BY <2>1
  <2>3. IsFiniteSet(L) /\ Cardinality(L) <= c /\ Cardinality(L) \in Nat
    <3>1. L \in SUBSET I
      BY <2>1
    <3> QED
      BY <1>1, <1>2, <3>1, FS_CardinalityType
  <2>4. i \in L
    BY <2>1
  <2>5. Cardinality(L) # 0
    BY <2>3, <2>4, FS_EmptySet
  <2>6. Cardinality(L) \in 1..c
    BY <2>3, <2>5
  <2>7. of[Cardinality(L)] = s[i]
    BY <2>1 DEF Ordered
  <2> QED
    BY <1>5, <2>2, <2>6, <2>7
<1>7. {j \in J : j <= n + 1} = J
  <2>1. n + 1 <= n + 1 /\ \A j \in 1..n : j <= n + 1
    OBVIOUS
  <2>2. \A j \in J : j = n + 1 \/ j \in 1..n
    OBVIOUS
  <2>3. \A j \in J : j <= n + 1
    BY <2>1, <2>2
  <2> HIDE DEF J
  <2> QED
    BY <2>3
<1>8. Append(of, e)[Cardinality({j \in J : j <= n + 1})] = s[n + 1]
  BY <1>4, <1>5, <1>7
<1>9. \A i \in J : Append(of, e)[Cardinality({j \in J : j <= i})] = s[i]
  BY <1>6, <1>8
<1> HIDE DEF J
<1>10. Ordered(Append(of, e), s, J)
  BY <1>4, <1>5, <1>9 DEF Ordered
<1> QED
  BY <1>5, <1>10 DEF J

LEMMA GrowOK ==
  ASSUME NEW s \in Seq(TitledIssue), NEW n \in Nat, NEW e \in TitledIssue, s[n + 1] = e,
         NEW gs, Grouped(gs, s, n)
  PROVE  Grouped(Grow(gs, e), s, n + 1)
<1>0. PICK key : key = Key(e)
  OBVIOUS
<1>1. /\ gs \in Seq(Group) /\ \A k, l \in DOMAIN gs : gs[k].key = gs[l].key => k = l
      /\ \A k \in DOMAIN gs : Ordered(gs[k].of, s, With(s, n, gs[k].key))
      /\ {Key(s[i]) : i \in 1..n} = {gs[k].key : k \in DOMAIN gs}
  BY DEF Grouped
<1>2. key \in Severity \X Title /\ e \in IssueRecord
  BY <1>0, KeyOK DEF TitledIssue
<1>3. PICK m \in Nat : m = Len(gs) /\ DOMAIN gs = 1..m
  BY <1>1, LenProperties
<1>4. \A k \in 1..m : gs[k] \in Group
  BY <1>1, <1>3, ElementOfSeq
<1>5. /\ n + 1 \in 1..(n + 1) /\ n + 1 \notin 1..n
      /\ \A i : i \in 1..(n + 1) <=> (i \in 1..n \/ i = n + 1)
  <2>1. \A i \in 1..(n + 1) : i \in 1..n \/ i = n + 1
    OBVIOUS
  <2>2. \A i \in 1..n : i \in 1..(n + 1)
    OBVIOUS
  <2>3. n + 1 \in 1..(n + 1) /\ n + 1 \notin 1..n
    OBVIOUS
  <2> QED
    BY <2>1, <2>2, <2>3
<1>6. /\ With(s, n + 1, key) = With(s, n, key) \cup {n + 1}
      /\ \A other : other # key => With(s, n + 1, other) = With(s, n, other)
      /\ \A other : With(s, n, other) \in SUBSET (1..n)
  BY <1>0, <1>5 DEF With
<1>7. {Key(s[i]) : i \in 1..(n + 1)} = {gs[k].key : k \in DOMAIN gs} \cup {key}
  BY <1>0, <1>1, <1>5
<1>8. CASE \E k \in DOMAIN gs : gs[k].key = key
  <2>1. PICK l \in 1..m : gs[l].key = key
    BY <1>3, <1>8
  <2>2. PICK new : new = [k \in 1..m |-> IF gs[k].key = key
                                          THEN [gs[k] EXCEPT !.of = Append(@, e)] ELSE gs[k]]
    OBVIOUS
  <2>3. Grow(gs, e) = new
    BY <1>0, <1>3, <1>8, <2>2 DEF Grow
  <2>4. \A k \in 1..m : k # l => new[k] = gs[k] /\ gs[k].key # key
    BY <1>1, <1>3, <2>1, <2>2
  <2>5. PICK of \in Seq(IssueRecord) : of = gs[l].of
    BY <1>4 DEF Group
  <2>6. Append(of, e) \in Seq(IssueRecord) /\ Ordered(Append(of, e), s, With(s, n + 1, key))
    <3>1. Ordered(of, s, With(s, n, key))
      BY <1>1, <1>3, <2>1, <2>5
    <3>2. PICK I \in SUBSET (1..n) : I = With(s, n, key)
      BY <1>6
    <3>3. Ordered(of, s, I)
      BY <3>1, <3>2
    <3>4. Append(of, e) \in Seq(IssueRecord) /\ Ordered(Append(of, e), s, I \cup {n + 1})
      BY <1>2, <3>3, OrderGrows
    <3> QED
      BY <1>6, <3>2, <3>4
  <2>7. new[l] \in Group /\ new[l].key = key /\ new[l].of = Append(of, e)
    <3>1. new[l] = [gs[l] EXCEPT !.of = Append(of, e)]
      BY <2>1, <2>2, <2>5
    <3> QED
      BY <1>4, <2>1, <2>6, <3>1 DEF Group
  <2>8. DOMAIN new = 1..m /\ \A k \in 1..m : new[k] \in Group /\ new[k].key = gs[k].key
    BY <1>4, <2>1, <2>2, <2>4, <2>7
  <2>9. new \in Seq(Group)
    <3>1. new \in [1..m -> Group]
      BY <2>2, <2>8
    <3> QED
      BY <3>1, SeqDef
  <2>10. \A k \in 1..m : Ordered(new[k].of, s, With(s, n + 1, new[k].key))
    <3> SUFFICES ASSUME NEW k \in 1..m PROVE Ordered(new[k].of, s, With(s, n + 1, new[k].key))
      OBVIOUS
    <3>1. CASE k = l
      BY <2>6, <2>7, <3>1
    <3>2. CASE k # l
      <4>1. new[k] = gs[k] /\ gs[k].key # key
        BY <2>4, <3>2
      <4>2. With(s, n + 1, gs[k].key) = With(s, n, gs[k].key)
        BY <1>6, <4>1
      <4> QED
        BY <1>1, <1>3, <4>1, <4>2
    <3> QED
      BY <3>1, <3>2
  <2>11. \A i, k \in 1..m : new[i].key = new[k].key => i = k
    BY <1>1, <1>3, <2>8
  <2>12. {Key(s[i]) : i \in 1..(n + 1)} = {new[k].key : k \in 1..m}
    <3>1. {new[k].key : k \in 1..m} = {gs[k].key : k \in 1..m}
      BY <2>8
    <3>2. key \in {gs[k].key : k \in 1..m}
      BY <2>1
    <3> QED
      BY <1>3, <1>7, <3>1, <3>2
  <2>13. DOMAIN new = 1..m
    BY <2>8
  <2>14. Grouped(new, s, n + 1)
    BY <2>9, <2>10, <2>11, <2>12, <2>13, Zenon DEF Grouped
  <2> QED
    BY <2>3, <2>14
<1>9. CASE ~ \E k \in DOMAIN gs : gs[k].key = key
  <2>1. PICK g : g = [key |-> key, of |-> <<e>>]
    OBVIOUS
  <2>2. PICK new : new = Append(gs, g)
    OBVIOUS
  <2>3. Grow(gs, e) = new
    BY <1>0, <1>9, <2>1, <2>2 DEF Grow
  <2>4. g.key = key /\ g.of = <<e>> /\ g \in Group
    <3>1. <<e>> \in Seq(IssueRecord)
      BY <1>2
    <3> QED
      BY <1>2, <2>1, <3>1 DEF Group
  <2>5. /\ new \in Seq(Group) /\ DOMAIN new = 1..(m + 1) /\ new[m + 1] = g
        /\ \A k \in 1..m : new[k] = gs[k]
    BY <1>1, <1>3, <2>2, <2>4
  <2>6. m + 1 \in 1..(m + 1) /\ \A k : k \in 1..(m + 1) <=> (k \in 1..m \/ k = m + 1)
    <3>1. \A k \in 1..(m + 1) : k \in 1..m \/ k = m + 1
      OBVIOUS
    <3>2. \A k \in 1..m : k \in 1..(m + 1)
      OBVIOUS
    <3>3. m + 1 \in 1..(m + 1)
      OBVIOUS
    <3> QED
      BY <3>1, <3>2, <3>3
  <2>7. \A k \in 1..m : gs[k].key # key
    BY <1>3, <1>9
  <2>8. \A i, k \in 1..(m + 1) : new[i].key = new[k].key => i = k
    BY <1>1, <1>3, <2>4, <2>5, <2>6, <2>7
  <2>9. With(s, n + 1, key) = {} \cup {n + 1}
    <3>1. key \notin {Key(s[i]) : i \in 1..n}
      BY <1>1, <1>9
    <3>2. With(s, n, key) = {}
      BY <3>1 DEF With
    <3> QED
      BY <1>6, <3>2
  <2>10. Ordered(<<e>>, s, With(s, n + 1, key))
    <3>0. <<>> \in Seq(IssueRecord)
      OBVIOUS
    <3>1. PICK of \in Seq(IssueRecord) : of = <<>>
      BY <3>0, Zenon
    <3>2. PICK I \in SUBSET (1..n) : I = {}
      OBVIOUS
    <3>3. Ordered(of, s, I)
      BY <3>1, <3>2, FS_EmptySet DEF Ordered
    <3>4. Ordered(Append(of, e), s, I \cup {n + 1})
      BY <1>2, <3>3, OrderGrows
    <3>5. Append(of, e) = <<e>>
      BY <3>1
    <3> QED
      BY <2>9, <3>2, <3>4, <3>5
  <2>11. \A k \in 1..(m + 1) : Ordered(new[k].of, s, With(s, n + 1, new[k].key))
    <3> SUFFICES ASSUME NEW k \in 1..(m + 1)
                 PROVE  Ordered(new[k].of, s, With(s, n + 1, new[k].key))
      OBVIOUS
    <3>1. CASE k = m + 1
      BY <2>4, <2>5, <2>10, <3>1
    <3>2. CASE k \in 1..m
      <4>1. new[k] = gs[k] /\ gs[k].key # key
        BY <2>5, <2>7, <3>2
      <4>2. With(s, n + 1, gs[k].key) = With(s, n, gs[k].key)
        BY <1>6, <4>1
      <4> QED
        BY <1>1, <1>3, <3>2, <4>1, <4>2
    <3> QED
      BY <2>6, <3>1, <3>2
  <2>12. {Key(s[i]) : i \in 1..(n + 1)} = {new[k].key : k \in 1..(m + 1)}
    BY <1>3, <1>7, <2>4, <2>5, <2>6
  <2>13. Grouped(new, s, n + 1)
    BY <2>5, <2>8, <2>11, <2>12, Zenon DEF Grouped
  <2> QED
    BY <2>3, <2>13
<1> QED
  BY <1>8, <1>9

LEMMA GroupIssuesOK ==
  ASSUME NEW s \in Seq(TitledIssue)
  PROVE  Grouped(GroupIssues(s), s, Len(s))
<1>1. PICK N \in Nat : N = Len(s) /\ DOMAIN s = 1..N /\ \A n \in 1..N : s[n] \in TitledIssue
  BY LenProperties, ElementOfSeq
<1>2. PICK V : V = {v \in Seq(Group) : \E n \in 0..N : Grouped(v, s, n)}
  OBVIOUS
<1>3. PICK F : F = [p \in V \X (1..N) |-> IF Grow(p[1], s[p[2]]) \in V
                                          THEN Grow(p[1], s[p[2]]) ELSE p[1]]
  OBVIOUS
<1>4. F \in Steps(V, N)
  BY <1>3 DEF Steps
<1>5. <<>> \in V /\ Grouped(<<>>, s, 0)
  <2>1. PICK v : v = <<>>
    OBVIOUS
  <2>2. v \in Seq(Group) /\ DOMAIN v = {}
    BY <2>1
  <2>3. 1..0 = {} /\ 0 \in 0..N
    BY <1>1
  <2>4. Grouped(v, s, 0)
    BY <2>2, <2>3 DEF Grouped
  <2> QED
    BY <1>2, <2>1, <2>2, <2>3, <2>4
<1>6. PICK w \in [0..N -> V] : w[0] = <<>> /\ \A n \in 1..N : w[n] = F[<<w[n - 1], n>>]
  BY <1>4, <1>5, Folded
<1>7. ASSUME NEW n \in 0..(N - 1), NEW v, Grouped(v, s, n)
      PROVE  Grouped(Grow(v, s[n + 1]), s, n + 1) /\ v \in V /\ Grow(v, s[n + 1]) \in V
  <2>1. n \in Nat /\ n \in 0..N /\ n + 1 \in 1..N /\ n + 1 \in 0..N
    BY <1>1
  <2>2. PICK e \in TitledIssue : s[n + 1] = e
    BY <1>1, <2>1
  <2>3. Grouped(Grow(v, e), s, n + 1)
    BY <1>7, <2>1, <2>2, GrowOK
  <2>4. v \in Seq(Group) /\ Grow(v, e) \in Seq(Group)
    BY <1>7, <2>3 DEF Grouped
  <2> QED
    BY <1>2, <1>7, <2>1, <2>2, <2>3, <2>4
<1> DEFINE Q == {n \in 0..N : Grouped(w[n], s, n)}
<1>8. 0 \in Q
  BY <1>1, <1>5, <1>6
<1>9. ASSUME NEW n \in 0..(N - 1), n \in Q PROVE n + 1 \in Q
  <2>1. n + 1 \in 1..N /\ n + 1 \in 0..N /\ n + 1 - 1 = n
    BY <1>1
  <2>2. PICK v \in V : v = w[n] /\ Grouped(v, s, n)
    BY <1>1, <1>6, <1>9
  <2>3. w[n + 1] = F[<<v, n + 1>>]
    BY <1>6, <2>1, <2>2
  <2>4. F[<<v, n + 1>>] = Grow(v, s[n + 1])
    BY <1>3, <1>7, <2>1, <2>2
  <2> QED
    BY <1>7, <2>1, <2>2, <2>3, <2>4
<1> HIDE DEF Q
<1>10. \A n \in 0..N : n \in Q
  BY <1>8, <1>9, UpTo, Zenon
<1>11. \A n \in 0..N : Grouped(w[n], s, n)
  BY <1>10 DEF Q
<1>12. w = [n \in 0..N |-> IF n = 0 THEN <<>> ELSE Grow(w[n - 1], s[n])]
  <2>1. ASSUME NEW n \in 1..N PROVE w[n] = Grow(w[n - 1], s[n])
    <3>1. PICK m \in 0..(N - 1) : m + 1 = n /\ n - 1 = m /\ m \in 0..N
      <4>1. n - 1 \in 0..(N - 1) /\ n - 1 + 1 = n /\ n - 1 \in 0..N
        BY <1>1
      <4> QED
        BY <4>1
    <3>2. PICK v \in V : v = w[m] /\ Grouped(v, s, m)
      BY <1>6, <1>11, <3>1
    <3>3. Grow(v, s[n]) \in V
      BY <1>7, <3>1, <3>2
    <3>4. F[<<v, n>>] = Grow(v, s[n])
      BY <1>3, <3>3
    <3> QED
      BY <1>6, <3>1, <3>2, <3>4
  <2>2. \A n \in 0..N : n = 0 \/ n \in 1..N
    OBVIOUS
  <2> QED
    BY <1>6, <2>1, <2>2
<1>13. PICK u : /\ u = [n \in 0..N |-> IF n = 0 THEN <<>> ELSE Grow(u[n - 1], s[n])]
                /\ GroupIssues(s) = u[N]
  BY <1>1, <1>12 DEF GroupIssues
<1>14. /\ \A n \in 0..N : u[n] = IF n = 0 THEN <<>> ELSE Grow(u[n - 1], s[n])
       /\ 0 \in 0..N /\ N \in 0..N
  <2>1. 0 \in 0..N /\ N \in 0..N
    OBVIOUS
  <2>2. \A n \in 0..N : u[n] = IF n = 0 THEN <<>> ELSE Grow(u[n - 1], s[n])
    <3>1. PICK W : W = [n \in 0..N |-> IF n = 0 THEN <<>> ELSE Grow(u[n - 1], s[n])]
      OBVIOUS
    <3>2. \A n \in 0..N : W[n] = IF n = 0 THEN <<>> ELSE Grow(u[n - 1], s[n])
      BY <3>1
    <3>3. u = W
      BY <1>13, <3>1
    <3> QED
      BY <3>2, <3>3
  <2> QED
    BY <2>1, <2>2
<1> DEFINE P == {n \in 0..N : Grouped(u[n], s, n)}
<1>15. 0 \in P
  BY <1>5, <1>14
<1>16. ASSUME NEW n \in 0..(N - 1), n \in P PROVE n + 1 \in P
  <2>1. n + 1 \in 0..N /\ n + 1 # 0 /\ n + 1 - 1 = n
    BY <1>1
  <2>2. u[n + 1] = Grow(u[n], s[n + 1])
    BY <1>14, <2>1
  <2>3. PICK v : v = u[n] /\ Grouped(v, s, n)
    BY <1>16
  <2> QED
    BY <1>7, <2>1, <2>2, <2>3
<1> HIDE DEF P
<1>17. \A n \in 0..N : n \in P
  BY <1>15, <1>16, UpTo, Zenon
<1> QED
  BY <1>1, <1>13, <1>14, <1>17 DEF P
------------------------------------------------------------------------------
\* What each step adds to the issues.
FileAnswer(f) == ~Ignored(f) /\ CannotCompile(text[f])
Adds(t) == t \in Seq(TitledIssue) /\ issues' = issues \o t

LEMMA FactsAdd ==
  ASSUME CheckFacts
  PROVE  issues' \in Seq(TitledIssue) /\ \A n \in DOMAIN issues' : issues'[n].source \in FactSource
<1>1. PICK f \in Facts : issues' = FactIssues(f)
  BY DEF CheckFacts
<1>2. issues' \in Seq(FactRecord)
  BY <1>1, FactsOK
<1> QED
  BY <1>2, Wider

LEMMA SystemdAdds ==
  ASSUME issues \in Seq(TitledIssue), CheckSystemd
  PROVE  \E t : Adds(t) /\ \A n \in DOMAIN t : t[n].source \in FactSource
<1>0. /\ "systemd" \in Source /\ "systemd" \in FactSource /\ "error" \in Severity
      /\ "no systemd" \in Subject /\ FailedUnit \subseteq Subject
  BY DEF Source, FactSource, Severity, Subject
<1>1. CASE \E units \in SUBSET FailedUnit :
              issues' = issues \o [i \in DOMAIN SetToSeq(units) |->
                                     Issue("error", "systemd", SetToSeq(units)[i])]
  <2>1. PICK units \in SUBSET FailedUnit :
               issues' = issues \o [i \in DOMAIN SetToSeq(units) |->
                                      Issue("error", "systemd", SetToSeq(units)[i])]
    BY <1>1
  <2>2. PICK o : o = SetToSeq(units)
    OBVIOUS
  <2>3. IsFiniteSet(units)
    <3>1. IsFiniteSet(FailedUnit)
      BY DoctorAssumption DEF DoctorAssumption
    <3> QED
      BY <3>1, FS_Subset
  <2>4. o \in [1..Cardinality(units) -> units] /\ Cardinality(units) \in Nat
    BY <2>2, <2>3, AnyOrder, FS_CardinalityType
  <2>5. PICK t : t = [i \in DOMAIN o |-> Issue("error", "systemd", o[i])]
    OBVIOUS
  <2>6. \A i \in 1..Cardinality(units) : o[i] \in Subject
    BY <1>0, <2>4
  <2>7. \A i \in 1..Cardinality(units) : Issue("error", "systemd", o[i]) \in FactRecord
    BY <1>0, <2>6, IssueOK
  <2>8. t \in [1..Cardinality(units) -> FactRecord]
    BY <2>4, <2>5, <2>7
  <2>9. t \in Seq(FactRecord)
    BY <2>4, <2>8, SeqDef
  <2>10. issues' = issues \o t
    BY <2>1, <2>2, <2>5
  <2> QED
    BY <2>9, <2>10, Wider DEF Adds
<1>2. CASE \E b \in BOOLEAN : issues' = Append(issues, Excuse("systemd", "no systemd", b))
  <2>1. PICK b \in BOOLEAN : issues' = Append(issues, Excuse("systemd", "no systemd", b))
    BY <1>2
  <2>2. PICK e : e = Excuse("systemd", "no systemd", b)
    OBVIOUS
  <2>3. e \in FactRecord
    BY <1>0, <2>2, ExcuseOK
  <2>4. PICK t : t = <<e>>
    OBVIOUS
  <2>5. t \in Seq(FactRecord)
    BY <2>3, <2>4
  <2>6. e \in TitledIssue
    BY <2>3 DEF FactRecord, TitledIssue, IssueRecord, FactSource, Source, Log
  <2>7. issues' = issues \o t
    BY <2>1, <2>2, <2>4, <2>6, AppendIsConcat
  <2> QED
    BY <2>5, <2>7, Wider DEF Adds
<1>3. CASE UNCHANGED issues
  <2>1. issues' = issues \o <<>>
    BY <1>3
  <2>2. <<>> \in Seq(TitledIssue) /\ DOMAIN <<>> = {}
    OBVIOUS
  <2> QED
    BY <2>1, <2>2 DEF Adds
<1> QED
  BY <1>1, <1>2, <1>3 DEF CheckSystemd

LEMMA LogAdds ==
  ASSUME NEW a \in Answer, issues \in Seq(TitledIssue)
  PROVE  /\ CheckJournal(a) => Adds(TellLog("kernel-log", "no journal", a))
         /\ CheckDmesg(a) => Adds(TellLog("dmesg", "no dmesg", a))
         /\ \A n \in DOMAIN TellLog("kernel-log", "no journal", a) :
               TellLog("kernel-log", "no journal", a)[n].source = "kernel-log"
         /\ \A n \in DOMAIN TellLog("dmesg", "no dmesg", a) :
               TellLog("dmesg", "no dmesg", a)[n].source = "dmesg"
<1>1. {"kernel-log", "dmesg"} \subseteq Log /\ {"no journal", "no dmesg"} \subseteq Silent
  BY DEF Log, Silent
<1>2. /\ Tells(TellLog("kernel-log", "no journal", a), "kernel-log", a)
      /\ Tells(TellLog("dmesg", "no dmesg", a), "dmesg", a)
  BY <1>1, TellLogOK
<1>3. CheckJournal(a) => issues' = issues \o TellLog("kernel-log", "no journal", a)
  BY Zenon DEF CheckJournal, TellLog
<1>4. CheckDmesg(a) => issues' = issues \o TellLog("dmesg", "no dmesg", a)
  BY Zenon DEF CheckDmesg, TellLog
<1> QED
  BY <1>2, <1>3, <1>4, Zenon DEF Tells, Adds

LEMMA ReadAdds ==
  ASSUME NEW f \in File, ReadFile(f), issues \in Seq(TitledIssue)
  PROVE  \E t : /\ Adds(t) /\ \A n \in DOMAIN t : t[n].source = "python" /\ t[n].what = f
                /\ Len(t) = IF FileAnswer(f) THEN 1 ELSE 0
<1>1. /\ "error" \in Severity /\ "python" \in Source /\ f \in Subject /\ "python" \notin Log
  BY DEF Severity, Source, Subject, Log
<1>2. PICK e : e = Issue("error", "python", f)
  OBVIOUS
<1>3. e \in IssueRecord /\ e.source = "python" /\ e.what = f
  BY <1>1, <1>2, IssueOK
<1>4. e \in TitledIssue
  BY <1>1, <1>3, Zenon DEF TitledIssue
<1>5. PICK t : t = IF FileAnswer(f) THEN <<e>> ELSE <<>>
  OBVIOUS
<1>6. issues' = issues \o t
  <2>1. CASE ~Ignored(f) /\ text[f] = "crashing" /\ doctorPc' = "raised" /\ issues' = issues
    <3>1. ~FileAnswer(f)
      BY <2>1 DEF FileAnswer, CannotCompile
    <3> QED
      BY <1>5, <2>1, <3>1, ConcatEmptySeq
  <2>2. CASE issues' = issues \o If(~Ignored(f) /\ CannotCompile(text[f]), Issue("error", "python", f))
    BY <1>2, <1>5, <2>2, Zenon DEF If, FileAnswer
  <2> QED
    BY <2>1, <2>2, Zenon DEF ReadFile
<1>7. t \in Seq(TitledIssue) /\ Len(t) = (IF FileAnswer(f) THEN 1 ELSE 0) /\ \A n \in DOMAIN t : t[n] = e
  BY <1>4, <1>5
<1> QED
  BY <1>3, <1>6, <1>7, Zenon DEF Adds
------------------------------------------------------------------------------
(***************************************************************************)
(* Types.  An issue about the log has a title, which GroupIssues needs.    *)
(***************************************************************************)
DoctorTyped == DoctorTypeOK /\ issues \in Seq(TitledIssue)

LEMMA GroupsTyped ==
  ASSUME NEW s \in Seq(TitledIssue)
  PROVE  GroupIssues(s) \in Seq([key : Severity \X Title, of : Seq(IssueRecord)])
  BY GroupIssuesOK DEF Grouped, Group

LEMMA TitledIsRecord == ASSUME NEW s \in Seq(TitledIssue) PROVE s \in Seq(IssueRecord)
<1>1. TitledIssue \subseteq IssueRecord
  BY DEF TitledIssue
<1>2. Len(s) \in Nat /\ s \in [1..Len(s) -> TitledIssue]
  BY LenProperties
<1>3. s \in [1..Len(s) -> IssueRecord]
  BY <1>1, <1>2
<1> QED
  BY <1>2, <1>3, SeqDef

LEMMA DoctorTypeInit == DoctorInit => DoctorTyped
<1> SUFFICES ASSUME DoctorInit PROVE DoctorTyped
  OBVIOUS
<1>1. /\ text \in [File -> Text] /\ edits = 0 /\ edited = {}
      /\ projectRoot \in {"plain", "missing", "hidden"} /\ doctorPc = "facts"
      /\ unread = {} /\ issues = <<>> /\ groups = <<>>
      /\ systemctl = "absent" /\ journal = Missing /\ dmesg = Missing
  BY DEF DoctorInit
<1>2. Missing \in Answer
  BY Zenon DEF Answer
<1>3. \A S : <<>> \in Seq(S)
  OBVIOUS
<1>4. edits \in 0..MaxEdits
  <2>1. MaxEdits \in Nat
    BY DoctorAssumption, Zenon DEF DoctorAssumption
  <2> QED
    BY <1>1, <2>1
<1>5. doctorPc \in {"facts", "systemd", "journal", "dmesg", "list", "files", "print",
                    "done", "raised"}
  BY <1>1
<1>6. unread \in SUBSET File /\ edited \in SUBSET File
  BY <1>1
<1> QED
  BY <1>1, <1>2, <1>3, <1>4, <1>5, <1>6, Zenon DEF DoctorTyped, DoctorTypeOK

LEMMA DoctorTypeStep == DoctorTyped /\ [DoctorNext]_doctorVars => DoctorTyped'
<1> SUFFICES ASSUME DoctorTyped, [DoctorNext]_doctorVars PROVE DoctorTyped'
  OBVIOUS
<1> DEFINE Pcs == {"facts", "systemd", "journal", "dmesg", "list", "files", "print",
                   "done", "raised"}
           Gs == Seq([key : Severity \X Title, of : Seq(IssueRecord)])
<1>0. /\ text \in [File -> Text] /\ edits \in 0..MaxEdits /\ edited \in SUBSET File
      /\ projectRoot \in {"plain", "missing", "hidden"} /\ unread \in SUBSET File
      /\ doctorPc \in Pcs /\ issues \in Seq(TitledIssue) /\ issues \in Seq(IssueRecord)
      /\ groups \in Gs /\ journal \in Answer /\ dmesg \in Answer
      /\ systemctl \in {"absent", "refused", "failed", "listed"}
  BY DEF DoctorTyped, DoctorTypeOK
<1>a. ASSUME /\ text' \in [File -> Text] /\ edits' \in 0..MaxEdits /\ edited' \in SUBSET File
             /\ projectRoot' \in {"plain", "missing", "hidden"} /\ unread' \in SUBSET File
             /\ doctorPc' \in Pcs /\ issues' \in Seq(TitledIssue)
             /\ groups' \in Gs /\ journal' \in Answer /\ dmesg' \in Answer
             /\ systemctl' \in {"absent", "refused", "failed", "listed"}
      PROVE  DoctorTyped'
  <2>1. issues' \in Seq(IssueRecord)
    BY <1>a, TitledIsRecord
  <2> QED
    BY <1>a, <2>1, Zenon DEF DoctorTyped, DoctorTypeOK
<1>b. \A t : Adds(t) => issues' \in Seq(TitledIssue)
  BY <1>0, Joined DEF Adds
<1>1. CASE CheckFacts
  <2>1. issues' \in Seq(TitledIssue)
    BY <1>1, FactsAdd
  <2>2. doctorPc' \in Pcs
    BY <1>1 DEF CheckFacts
  <2>3. UNCHANGED <<text, edits, projectRoot, edited, unread, groups, systemctl, journal, dmesg>>
    BY <1>1, Zenon DEF CheckFacts, project
  <2> QED
    BY <1>0, <1>a, <2>1, <2>2, <2>3
<1>2. CASE CheckSystemd
  <2>1. issues' \in Seq(TitledIssue)
    BY <1>0, <1>2, <1>b, SystemdAdds
  <2>2. doctorPc' \in Pcs
    BY <1>2, Zenon DEF CheckSystemd
  <2>3. UNCHANGED <<text, edits, projectRoot, edited, unread, groups, journal, dmesg>>
    BY <1>2, Zenon DEF CheckSystemd, project
  <2>4. systemctl' \in {"absent", "refused", "failed", "listed"}
    BY <1>2 DEF CheckSystemd
  <2> QED
    BY <1>0, <1>a, <2>1, <2>2, <2>3, <2>4
<1>3. CASE Undecodable
  <2>1. doctorPc' \in Pcs
    BY <1>3 DEF Undecodable
  <2>2. UNCHANGED <<text, edits, projectRoot, edited, unread, issues, groups, systemctl, journal, dmesg>>
    BY <1>3, Zenon DEF Undecodable, project
  <2> QED
    BY <1>0, <1>a, <2>1, <2>2
<1>4. CASE ListFiles
  <2>1. doctorPc' \in Pcs /\ unread' \in SUBSET File /\ edited' \in SUBSET File
    BY <1>4 DEF ListFiles
  <2>2. UNCHANGED <<text, edits, projectRoot, issues, groups, systemctl, journal, dmesg>>
    BY <1>4, Zenon DEF ListFiles
  <2> QED
    BY <1>0, <1>a, <2>1, <2>2
<1>5. ASSUME NEW mode, PrintDoctor(mode) PROVE DoctorTyped'
  <2>1. doctorPc' \in Pcs
    BY <1>5 DEF PrintDoctor
  <2>2. groups' = GroupIssues(issues) \/ groups' = <<>>
    BY <1>5, Zenon DEF PrintDoctor
  <2>3. <<>> \in Gs
    OBVIOUS
  <2>4. GroupIssues(issues) \in Gs
    BY <1>0, GroupsTyped
  <2>5. UNCHANGED <<text, edits, projectRoot, edited, unread, issues, systemctl, journal, dmesg>>
    BY <1>5, Zenon DEF PrintDoctor, project
  <2>6. groups' \in Gs
    BY <2>2, <2>3, <2>4, Zenon
  <2> QED
    BY <1>0, <1>a, <2>1, <2>5, <2>6
<1>6. ASSUME NEW a \in Answer, CheckJournal(a) PROVE DoctorTyped'
  <2>1. issues' \in Seq(TitledIssue)
    BY <1>0, <1>6, <1>b, LogAdds
  <2>2. doctorPc' \in Pcs
    BY <1>6 DEF CheckJournal
  <2>3. UNCHANGED <<text, edits, projectRoot, edited, unread, groups, systemctl, dmesg>> /\ journal' = a
    BY <1>6, Zenon DEF CheckJournal, project
  <2> QED
    BY <1>0, <1>a, <2>1, <2>2, <2>3
<1>7. ASSUME NEW a \in Answer, CheckDmesg(a) PROVE DoctorTyped'
  <2>1. issues' \in Seq(TitledIssue)
    BY <1>0, <1>7, <1>b, LogAdds
  <2>2. doctorPc' \in Pcs
    BY <1>7 DEF CheckDmesg
  <2>3. UNCHANGED <<text, edits, projectRoot, edited, unread, groups, systemctl, journal>> /\ dmesg' = a
    BY <1>7, Zenon DEF CheckDmesg, project
  <2> QED
    BY <1>0, <1>a, <2>1, <2>2, <2>3
<1>8. ASSUME NEW f \in File, ReadFile(f) PROVE DoctorTyped'
  <2>1. issues' \in Seq(TitledIssue)
    BY <1>0, <1>8, <1>b, ReadAdds
  <2>2. doctorPc' \in Pcs
    BY <1>8 DEF ReadFile
  <2>3. UNCHANGED <<text, edits, projectRoot, edited, groups, systemctl, journal, dmesg>>
    BY <1>8, Zenon DEF ReadFile, project
  <2>4. unread' \in SUBSET File
    BY <1>0, <1>8 DEF ReadFile
  <2> QED
    BY <1>0, <1>a, <2>1, <2>2, <2>3, <2>4
<1>9. ASSUME NEW f \in File, NEW new \in Text, Edit(f, new) PROVE DoctorTyped'
  <2>1. edits' \in 0..MaxEdits /\ edited' \in SUBSET File
    <3>1. MaxEdits \in Nat
      BY DoctorAssumption, Zenon DEF DoctorAssumption
    <3>2. edits < MaxEdits /\ edits' = edits + 1 /\ edited' = edited \cup {f}
      BY <1>9, Zenon DEF Edit
    <3>3. edits' \in 0..MaxEdits
      BY <1>0, <3>1, <3>2
    <3> QED
      BY <1>0, <3>2, <3>3
  <2>2. text' \in [File -> Text]
    BY <1>0, <1>9 DEF Edit
  <2>3. UNCHANGED <<projectRoot, doctorPc, unread, issues, groups, systemctl, journal, dmesg>>
    BY <1>9, Zenon DEF Edit
  <2> QED
    BY <1>0, <1>a, <2>1, <2>2, <2>3
<1>10. CASE UNCHANGED doctorVars
  <2>1. UNCHANGED <<text, edits, projectRoot, edited, doctorPc, unread, issues, groups, systemctl, journal, dmesg>>
    BY <1>10, Zenon DEF doctorVars
  <2> QED
    BY <1>0, <1>a, <2>1
<1>11. CASE RglobRaises
  <2>1. doctorPc' \in Pcs
    BY <1>11 DEF RglobRaises
  <2>2. UNCHANGED <<text, edits, projectRoot, edited, unread, issues, groups, systemctl, journal, dmesg>>
    BY <1>11, Zenon DEF RglobRaises, project
  <2> QED
    BY <1>0, <1>a, <2>1, <2>2
<1> QED
  BY <1>1, <1>2, <1>3, <1>4, <1>5, <1>6, <1>7, <1>8, <1>9, <1>10, <1>11, Zenon
     DEF DoctorNext, DoctorStep, DoctorChange

\* A diagnosis keeps its types: issues and groups of any number, each with a
\* title, the answers of the commands, and the stages of the doctor.
THEOREM DoctorTypeCorrect == DoctorSpec => []DoctorTypeOK
<1>1. DoctorTyped => DoctorTypeOK
  BY DEF DoctorTyped
<1> QED
  BY <1>1, DoctorTypeInit, DoctorTypeStep, PTL DEF DoctorSpec
------------------------------------------------------------------------------
(***************************************************************************)
(* The kernel's log.  Until it is asked for nothing is told of it; dmesg   *)
(* is asked if the journal had nothing to say and did not fail.            *)
(***************************************************************************)
LogInv ==
  /\ doctorPc \in {"facts", "systemd", "journal"} =>
       ToldIn(issues) = {} /\ journal = Missing /\ dmesg = Missing
  /\ doctorPc = "dmesg" => /\ ToldIn(issues) = {} /\ dmesg = Missing
                           /\ journal.lines = <<>> /\ ~Unanswered(journal.code)
  /\ LogRead => Account(issues, journal, dmesg)

LEMMA MissingOK == Missing \in Answer /\ Missing.lines = <<>> /\ ~Unanswered(Missing.code)
<1>1. Missing \in Answer
  BY Zenon DEF Answer
<1>2. Missing.lines = <<>> /\ Missing.code = "missing"
  BY DEF Missing
<1> QED
  BY <1>1, <1>2 DEF Unanswered

LEMMA LogInit == DoctorInit => LogInv
<1> SUFFICES ASSUME DoctorInit PROVE LogInv
  OBVIOUS
<1>1. doctorPc = "facts" /\ issues = <<>> /\ journal = Missing /\ dmesg = Missing
  BY Zenon DEF DoctorInit
<1>2. ToldIn(issues) = {}
  <2>1. DOMAIN issues = {}
    BY <1>1
  <2> QED
    BY <2>1 DEF ToldIn
<1>3. doctorPc # "dmesg" /\ ~LogRead
  BY <1>1 DEF LogRead
<1> QED
  BY <1>1, <1>2, <1>3, Zenon DEF LogInv

LEMMA LogStep == DoctorTyped /\ LogInv /\ [DoctorNext]_doctorVars => LogInv'
<1> SUFFICES ASSUME DoctorTyped, LogInv, [DoctorNext]_doctorVars PROVE LogInv'
  OBVIOUS
<1>0. issues \in Seq(TitledIssue) /\ journal \in Answer /\ dmesg \in Answer
  BY DEF DoctorTyped, DoctorTypeOK
<1>a. ASSUME doctorPc' \notin {"facts", "systemd", "journal", "dmesg"},
             LogRead' => LogRead, ToldIn(issues') = ToldIn(issues),
             \A n \in ToldIn(issues) : issues'[n] = issues[n],
             UNCHANGED <<journal, dmesg>>
      PROVE  LogInv'
  <2>1. doctorPc' # "dmesg" /\ doctorPc' \notin {"facts", "systemd", "journal"}
    BY <1>a
  <2>2. journal' = journal /\ dmesg' = dmesg
    BY <1>a
  <2>3. LogRead' => Account(issues, journal, dmesg)
    BY <1>a, Zenon DEF LogInv
  <2>4. {issues'[n].what : n \in ToldIn(issues)} = {issues[n].what : n \in ToldIn(issues)}
    BY <1>a
  <2>5. \A n \in ToldIn(issues) : issues'[n].what = issues[n].what
    BY <1>a
  <2>6. PICK T : T = ToldIn(issues)
    OBVIOUS
  <2>7. ToldIn(issues') = T
    BY <1>a, <2>6
  <2>8. Account(issues, journal, dmesg) => Account(issues', journal, dmesg)
    BY <2>4, <2>5, <2>6, <2>7 DEF Account
  <2>9. LogRead' => Account(issues', journal', dmesg')
    BY <2>2, <2>3, <2>8, Zenon
  <2> QED
    BY <2>1, <2>9, Zenon DEF LogInv
<1>1. CASE CheckFacts
  <2>1. doctorPc = "facts" /\ doctorPc' = "systemd" /\ UNCHANGED <<journal, dmesg>>
    BY <1>1, Zenon DEF CheckFacts
  <2>2. ToldIn(issues') = {}
    <3>1. \A n \in DOMAIN issues' : issues'[n].source \in FactSource
      BY <1>1, FactsAdd
    <3> QED
      BY <3>1 DEF ToldIn, FactSource, Log
  <2>3. journal = Missing /\ dmesg = Missing
    BY <2>1 DEF LogInv
  <2>4. ~LogRead' /\ doctorPc' # "dmesg"
    BY <2>1 DEF LogRead
  <2> QED
    BY <2>1, <2>2, <2>3, <2>4, Zenon DEF LogInv
<1>2. CASE CheckSystemd
  <2>1. doctorPc = "systemd" /\ doctorPc' = "journal" /\ UNCHANGED <<journal, dmesg>>
    BY <1>2, Zenon DEF CheckSystemd
  <2>2. ToldIn(issues) = {} /\ journal = Missing /\ dmesg = Missing
    BY <2>1 DEF LogInv
  <2>3. ToldIn(issues') = {}
    <3>1. PICK t : Adds(t) /\ \A n \in DOMAIN t : t[n].source \in FactSource
      BY <1>0, <1>2, SystemdAdds
    <3>2. \A n \in DOMAIN t : t[n].source \notin Log
      BY <3>1 DEF FactSource, Log
    <3> QED
      BY <1>0, <2>2, <3>1, <3>2, Untold DEF Adds
  <2>4. ~LogRead' /\ doctorPc' # "dmesg"
    BY <2>1 DEF LogRead
  <2> QED
    BY <2>1, <2>2, <2>3, <2>4, Zenon DEF LogInv
<1>3. CASE Undecodable
  <2>1. doctorPc' = "raised" /\ UNCHANGED <<issues, journal, dmesg>>
    BY <1>3, Zenon DEF Undecodable
  <2>2. ~LogRead'
    BY <2>1 DEF LogRead
  <2> QED
    BY <1>a, <2>1, <2>2
<1>4. CASE ListFiles
  <2>1. doctorPc = "list" /\ doctorPc' \in {"print", "files"} /\ UNCHANGED <<issues, journal, dmesg>>
    BY <1>4 DEF ListFiles
  <2>2. LogRead
    BY <2>1 DEF LogRead
  <2> QED
    BY <1>a, <2>1, <2>2
<1>5. ASSUME NEW mode, PrintDoctor(mode) PROVE LogInv'
  <2>1. doctorPc = "print" /\ doctorPc' \in {"done", "raised"} /\ UNCHANGED <<issues, journal, dmesg>>
    BY <1>5 DEF PrintDoctor
  <2>2. LogRead
    BY <2>1 DEF LogRead
  <2> QED
    BY <1>a, <2>1, <2>2
<1>6. ASSUME NEW a \in Answer, CheckJournal(a) PROVE LogInv'
  <2>1. doctorPc = "journal" /\ journal' = a /\ dmesg' = dmesg
        /\ doctorPc' = IF Unanswered(a.code) \/ a.lines # <<>> THEN "list" ELSE "dmesg"
    BY <1>6, Zenon DEF CheckJournal
  <2>2. ToldIn(issues) = {} /\ dmesg = Missing
    BY <2>1 DEF LogInv
  <2>3. PICK t : t = TellLog("kernel-log", "no journal", a)
    OBVIOUS
  <2>4. issues' = issues \o t /\ Tells(t, "kernel-log", a)
    <3>1. "kernel-log" \in Log /\ "no journal" \in Silent
      BY DEF Log, Silent
    <3> QED
      BY <1>0, <1>6, <2>3, <3>1, LogAdds, TellLogOK DEF Adds
  <2>5. CASE Unanswered(a.code) \/ a.lines # <<>>
    <3>1. doctorPc' = "list"
      BY <2>1, <2>5
    <3>2. Account(issues', journal', dmesg')
      <4>1. "kernel-log" \in Log /\ "no journal" \in Silent
        BY DEF Log, Silent
      <4>2. dmesg.lines = <<>>
        BY <2>2, MissingOK
      <4>3. Account(issues \o TellLog("kernel-log", "no journal", a), a, dmesg)
        <5>1. a = IF a.lines # <<>> \/ Unanswered(a.code) THEN a ELSE dmesg
          BY <2>5
        <5> QED
          BY <1>0, <2>2, <4>1, <4>2, <5>1, AccountOf
      <4> QED
        BY <2>1, <2>3, <2>4, <4>3
    <3>3. doctorPc' # "dmesg" /\ doctorPc' \notin {"facts", "systemd", "journal"}
      BY <3>1
    <3> QED
      BY <3>2, <3>3, Zenon DEF LogInv
  <2>6. CASE ~Unanswered(a.code) /\ a.lines = <<>>
    <3>1. doctorPc' = "dmesg" /\ journal'.lines = <<>> /\ ~Unanswered(journal'.code) /\ dmesg' = Missing
      BY <2>1, <2>2, <2>6
    <3>2. t = <<>>
      BY <2>4, <2>6 DEF Tells
    <3>3. issues' = issues
      BY <1>0, <2>4, <3>2, ConcatEmptySeq
    <3>4. ~LogRead' /\ doctorPc' \notin {"facts", "systemd", "journal"}
      BY <3>1 DEF LogRead
    <3> QED
      BY <2>2, <3>1, <3>3, <3>4, Zenon DEF LogInv
  <2> QED
    BY <2>5, <2>6
<1>7. ASSUME NEW a \in Answer, CheckDmesg(a) PROVE LogInv'
  <2>1. doctorPc = "dmesg" /\ doctorPc' = "list" /\ dmesg' = a /\ journal' = journal
    BY <1>7, Zenon DEF CheckDmesg
  <2>2. ToldIn(issues) = {} /\ journal.lines = <<>> /\ ~Unanswered(journal.code)
    BY <2>1 DEF LogInv
  <2>3. issues' = issues \o TellLog("dmesg", "no dmesg", a)
    BY <1>0, <1>7, LogAdds DEF Adds
  <2>4. Account(issues', journal', dmesg')
    <3>1. "dmesg" \in Log /\ "no dmesg" \in Silent
      BY DEF Log, Silent
    <3>2. a = IF journal.lines # <<>> \/ Unanswered(journal.code) THEN journal ELSE a
      BY <2>2
    <3>3. Account(issues \o TellLog("dmesg", "no dmesg", a), journal, a)
      BY <1>0, <2>2, <3>1, <3>2, AccountOf
    <3> QED
      BY <2>1, <2>3, <3>3
  <2>5. doctorPc' # "dmesg" /\ doctorPc' \notin {"facts", "systemd", "journal"}
    BY <2>1
  <2> QED
    BY <2>4, <2>5, Zenon DEF LogInv
<1>8. ASSUME NEW f \in File, ReadFile(f) PROVE LogInv'
  <2>1. /\ doctorPc = "files" /\ doctorPc' \in {"print", "files", "raised"}
        /\ UNCHANGED <<journal, dmesg>>
    BY <1>8 DEF ReadFile
  <2>2. PICK t : Adds(t) /\ \A n \in DOMAIN t : t[n].source = "python"
    BY <1>0, <1>8, ReadAdds
  <2>3. \A n \in DOMAIN t : t[n].source \notin Log
    BY <2>2 DEF Log
  <2>4. ToldIn(issues') = ToldIn(issues) /\ \A n \in ToldIn(issues) : issues'[n] = issues[n]
    BY <1>0, <2>2, <2>3, Untold DEF Adds
  <2>5. LogRead
    BY <2>1 DEF LogRead
  <2> QED
    BY <1>a, <2>1, <2>4, <2>5
<1>9. CASE UNCHANGED <<doctorPc, issues, journal, dmesg>>
  BY <1>9 DEF LogInv, LogRead
<1>10. ASSUME NEW f \in File, NEW new \in Text, Edit(f, new)
       PROVE  UNCHANGED <<doctorPc, issues, journal, dmesg>>
  BY <1>10, Zenon DEF Edit
<1>11. CASE UNCHANGED doctorVars
  BY <1>9, <1>11, Zenon DEF doctorVars
<1>12. CASE RglobRaises
  <2>1. doctorPc' = "raised" /\ UNCHANGED <<issues, journal, dmesg>>
    BY <1>12, Zenon DEF RglobRaises
  <2>2. ~LogRead'
    BY <2>1 DEF LogRead
  <2> QED
    BY <1>a, <2>1, <2>2
<1> QED
  BY <1>1, <1>2, <1>3, <1>4, <1>5, <1>6, <1>7, <1>8, <1>9, <1>10, <1>11, <1>12, Zenon
     DEF DoctorNext, DoctorStep, DoctorChange

\* The codes an answer may have.
LEMMA Codes ==
  ASSUME NEW a \in Answer
  PROVE  /\ Unanswered(a.code) <=> a.code \in {"124", "other"}
         /\ ~Unanswered(a.code) <=> a.code \in {"0", "1", "missing"}
<1>1. a.code \in {"0", "1", "other", "124", "missing"}
  <2>1. CASE a \in [code : {"0"}, lines : KernelLog, bytes : {FALSE}]
    BY <2>1
  <2>2. CASE a \in [code : {"1", "other"}, lines : {<<>>}, bytes : {FALSE}]
    BY <2>2
  <2>3. CASE a \in [code : {"124"}, lines : {<<>>}, bytes : BOOLEAN]
    BY <2>3
  <2>4. CASE a = Missing
    BY <2>4 DEF Missing
  <2> QED
    BY <2>1, <2>2, <2>3, <2>4, Zenon DEF Answer
<1> QED
  BY <1>1 DEF Unanswered

LEMMA LogAccounted == DoctorTyped /\ LogInv => KernelLogAccounted
<1> SUFFICES ASSUME DoctorTyped, LogInv, LogRead PROVE KernelLogAccounted
  BY DEF KernelLogAccounted
<1>1. journal \in Answer /\ dmesg \in Answer
  BY DEF DoctorTyped, DoctorTypeOK
<1>2. PICK said : said = IF journal.lines # <<>> \/ Unanswered(journal.code) THEN journal ELSE dmesg
  OBVIOUS
<1>3. said \in Answer
  BY <1>1, <1>2
<1>4. /\ ToldIn(issues) = {} <=> journal.lines = <<>> /\ dmesg.lines = <<>> /\ ~Unanswered(said.code)
      /\ \A m, n \in ToldIn(issues) : issues[m].what = issues[n].what => m = n
      /\ ~Unanswered(said.code) => {issues[n].what : n \in ToldIn(issues)} = Recent(said)
  <2>1. Account(issues, journal, dmesg)
    BY DEF LogInv
  <2> QED
    BY <1>2, <2>1, Zenon DEF Account
<1>5. ~Unanswered(said.code) <=> said.code \in {"0", "1", "missing"}
  BY <1>3, Codes
<1>6. said = IF journal.lines # <<>> \/ journal.code \in {"124", "other"} THEN journal ELSE dmesg
  <2>1. Unanswered(journal.code) <=> journal.code \in {"124", "other"}
    BY <1>1, Codes
  <2> QED
    BY <1>2, <2>1, Zenon
<1>7. ToldIn(issues) = ToldOfLog
  BY Zenon DEF ToldIn, ToldOfLog
<1> QED
  BY <1>4, <1>5, <1>6, <1>7, Zenon DEF KernelLogAccounted

\* The fallback from journalctl to dmesg loses nothing that the two print and
\* repeats nothing, whatever they answer and however long their logs are; a
\* command that fails is named unless its code is 1.
THEOREM KernelLogKept == DoctorSpec => []KernelLogAccounted
  BY DoctorTypeInit, DoctorTypeStep, LogInit, LogStep, LogAccounted, PTL DEF DoctorSpec
------------------------------------------------------------------------------
(***************************************************************************)
(* The files.  One that is still to be read has no issue yet; what has     *)
(* been read, and not been edited since it was listed, has the issues it   *)
(* is due.                                                                 *)
(***************************************************************************)
CodeDue(f) == IF projectRoot = "plain" /\ f \notin Hidden /\ text[f] \in {"broken", "encoded"}
            THEN 1 ELSE 0
Unlisted == {"facts", "systemd", "journal", "dmesg", "list"}
Listed == {"files", "print", "done"}
CodeInv(f) ==
  /\ doctorPc \in Unlisted => CodedIn(issues, f) = {}
  /\ doctorPc \in Listed /\ f \in unread => CodedIn(issues, f) = {} /\ projectRoot # "missing"
  /\ (doctorPc \in Listed /\ f \notin unread /\ f \notin edited) =>
       Cardinality(CodedIn(issues, f)) = CodeDue(f)
FilesInv ==
  /\ \A f \in File : CodeInv(f)
  /\ doctorPc \in {"print", "done"} => unread = {}

LEMMA Uncoded ==
  ASSUME NEW is \in Seq(TitledIssue), NEW t \in Seq(TitledIssue), NEW f,
         \A n \in DOMAIN t : ~(t[n].source = "python" /\ t[n].what = f)
  PROVE  CodedIn(is \o t, f) = CodedIn(is, f)
<1>0. PICK r : r = is \o t
  OBVIOUS
<1>1. /\ \A n \in DOMAIN is : n \in DOMAIN r /\ r[n] = is[n]
      /\ \A k \in DOMAIN t : r[Len(is) + k] = t[k]
      /\ \A n \in DOMAIN r : n \in DOMAIN is \/ \E k \in DOMAIN t : n = Len(is) + k
  BY <1>0, Extended
<1>2. \A n \in CodedIn(r, f) : n \in CodedIn(is, f)
  BY <1>1 DEF CodedIn
<1>3. \A n \in CodedIn(is, f) : n \in CodedIn(r, f)
  BY <1>1 DEF CodedIn
<1>4. CodedIn(r, f) = CodedIn(is, f)
  BY <1>2, <1>3, Zenon
<1> QED
  BY <1>0, <1>4

LEMMA CodedAs ==
  ASSUME NEW is \in Seq(TitledIssue), NEW t \in Seq(TitledIssue), NEW f,
         \A n \in DOMAIN t : t[n].source = "python" /\ t[n].what = f,
         Len(t) \in {0, 1}, CodedIn(is, f) = {}
  PROVE  Cardinality(CodedIn(is \o t, f)) = Len(t)
<1>0. PICK r : r = is \o t
  OBVIOUS
<1>1. /\ \A n \in DOMAIN is : n \in DOMAIN r /\ r[n] = is[n]
      /\ \A k \in DOMAIN t : Len(is) + k \in DOMAIN r /\ r[Len(is) + k] = t[k]
      /\ \A n \in DOMAIN r : n \in DOMAIN is \/ \E k \in DOMAIN t : n = Len(is) + k
  BY <1>0, Extended
<1>2. DOMAIN t = 1..Len(t)
  OBVIOUS
<1>3. \A n : n \in CodedIn(r, f) <=> \E k \in DOMAIN t : n = Len(is) + k
  BY <1>1 DEF CodedIn
<1>4. CASE Len(t) = 0
  <2>1. DOMAIN t = {}
    BY <1>2, <1>4
  <2>2. CodedIn(r, f) = {}
    BY <1>3, <2>1
  <2> QED
    BY <1>0, <1>4, <2>2, FS_EmptySet
<1>5. CASE Len(t) = 1
  <2>1. DOMAIN t = {1}
    BY <1>2, <1>5
  <2>2. CodedIn(r, f) = {Len(is) + 1}
    BY <1>3, <2>1
  <2>3. Cardinality({Len(is) + 1}) = 1
    BY FS_Singleton
  <2> QED
    BY <1>0, <1>5, <2>2, <2>3
<1> QED
  BY <1>4, <1>5

LEMMA FilesInit == DoctorInit => FilesInv
<1> SUFFICES ASSUME DoctorInit PROVE FilesInv
  OBVIOUS
<1>1. doctorPc = "facts" /\ issues = <<>>
  BY Zenon DEF DoctorInit
<1>2. \A f \in File : CodedIn(issues, f) = {}
  <2>1. DOMAIN issues = {}
    BY <1>1
  <2> QED
    BY <2>1 DEF CodedIn
<1>3. doctorPc \notin Listed /\ doctorPc \notin {"print", "done"}
  BY <1>1 DEF Listed
<1> QED
  BY <1>2, <1>3, Zenon DEF FilesInv, CodeInv

LEMMA FilesStep == DoctorTyped /\ FilesInv /\ [DoctorNext]_doctorVars => FilesInv'
<1> SUFFICES ASSUME DoctorTyped, FilesInv, [DoctorNext]_doctorVars PROVE FilesInv'
  OBVIOUS
<1>0. /\ issues \in Seq(TitledIssue) /\ text \in [File -> Text]
      /\ projectRoot \in {"plain", "missing", "hidden"}
  BY DEF DoctorTyped, DoctorTypeOK
<1>a. ASSUME doctorPc' \in Unlisted, \A f \in File : CodedIn(issues', f) = {}
      PROVE  FilesInv'
  <2>1. doctorPc' \notin Listed /\ doctorPc' \notin {"print", "done"}
    BY <1>a DEF Unlisted, Listed
  <2> QED
    BY <1>a, <2>1, Zenon DEF FilesInv, CodeInv
<1>b. ASSUME doctorPc \in Unlisted, NEW t, Adds(t), \A n \in DOMAIN t : t[n].source # "python"
      PROVE  \A f \in File : CodedIn(issues', f) = {}
  <2>1. \A f \in File : CodedIn(issues \o t, f) = CodedIn(issues, f)
    BY <1>0, <1>b, Uncoded DEF Adds
  <2>2. \A f \in File : CodedIn(issues, f) = {}
    BY <1>b, Zenon DEF FilesInv, CodeInv
  <2> QED
    BY <1>b, <2>1, <2>2, Zenon DEF Adds
<1>1. CASE CheckFacts
  <2>1. doctorPc' \in Unlisted
    BY <1>1 DEF CheckFacts, Unlisted
  <2>2. \A n \in DOMAIN issues' : issues'[n].source # "python"
    BY <1>1, FactsAdd DEF FactSource
  <2>3. \A f \in File : CodedIn(issues', f) = {}
    BY <2>2 DEF CodedIn
  <2> QED
    BY <1>a, <2>1, <2>3
<1>2. CASE CheckSystemd
  <2>1. doctorPc \in Unlisted /\ doctorPc' \in Unlisted
    BY <1>2, Zenon DEF CheckSystemd, Unlisted
  <2>2. PICK t : Adds(t) /\ \A n \in DOMAIN t : t[n].source \in FactSource
    BY <1>0, <1>2, SystemdAdds
  <2>3. \A n \in DOMAIN t : t[n].source # "python"
    BY <2>2 DEF FactSource
  <2> QED
    BY <1>a, <1>b, <2>1, <2>2, <2>3
<1>3. CASE Undecodable
  <2>1. doctorPc' \notin Unlisted /\ doctorPc' \notin Listed /\ doctorPc' \notin {"print", "done"}
    BY <1>3 DEF Undecodable, Unlisted, Listed
  <2> QED
    BY <2>1, Zenon DEF FilesInv, CodeInv
<1>4. CASE ListFiles
  <2>1. /\ doctorPc = "list" /\ doctorPc' = IF unread' = {} THEN "print" ELSE "files"
        /\ unread' = {f \in File : projectRoot # "missing" /\ text[f] # "absent"}
        /\ edited' = {} /\ UNCHANGED <<text, projectRoot, issues>>
    BY <1>4, Zenon DEF ListFiles
  <2>2. doctorPc' \in Listed /\ doctorPc' \notin Unlisted /\ (doctorPc' \in {"print", "done"} => unread' = {})
    BY <2>1 DEF Listed, Unlisted
  <2>3. \A f \in File : CodedIn(issues, f) = {}
    BY <2>1 DEF FilesInv, CodeInv, Unlisted
  <2>4. Cardinality({}) = 0
    BY FS_EmptySet
  <2>5. ASSUME NEW f \in File PROVE CodeInv(f)'
    <3>1. CodedIn(issues', f) = {}
      BY <2>1, <2>3
    <3>2. f \in unread' => projectRoot' # "missing"
      BY <2>1
    <3>3. f \notin unread' => CodeDue(f)' = 0
      BY <2>1 DEF CodeDue
    <3> QED
      BY <2>2, <2>4, <3>1, <3>2, <3>3, Zenon DEF CodeInv
  <2> QED
    BY <2>2, <2>5, Zenon DEF FilesInv
<1>5. ASSUME NEW mode, PrintDoctor(mode) PROVE FilesInv'
  <2>1. /\ doctorPc = "print" /\ doctorPc' \in {"done", "raised"}
        /\ UNCHANGED <<text, projectRoot, unread, edited, issues>>
    BY <1>5 DEF PrintDoctor, project
  <2>2. doctorPc \in Listed /\ doctorPc' \notin Unlisted /\ doctorPc \in {"print", "done"}
    BY <2>1 DEF Listed, Unlisted
  <2>3. \A f \in File : CodeInv(f)'
    <3>1. \A f \in File : CodeDue(f)' = CodeDue(f)
      BY <2>1 DEF CodeDue
    <3> QED
      BY <2>1, <2>2, <3>1, Zenon DEF FilesInv, CodeInv
  <2> QED
    BY <2>1, <2>2, <2>3, Zenon DEF FilesInv
<1>6. ASSUME NEW a \in Answer, CheckJournal(a) PROVE FilesInv'
  <2>1. doctorPc \in Unlisted /\ doctorPc' \in Unlisted
    BY <1>6 DEF CheckJournal, Unlisted
  <2>2. PICK t : t = TellLog("kernel-log", "no journal", a)
    OBVIOUS
  <2>3. Adds(t) /\ \A n \in DOMAIN t : t[n].source = "kernel-log"
    BY <1>0, <1>6, <2>2, LogAdds
  <2>4. \A n \in DOMAIN t : t[n].source # "python"
    BY <2>3
  <2> QED
    BY <1>a, <1>b, <2>1, <2>3, <2>4
<1>7. ASSUME NEW a \in Answer, CheckDmesg(a) PROVE FilesInv'
  <2>1. doctorPc \in Unlisted /\ doctorPc' \in Unlisted
    BY <1>7 DEF CheckDmesg, Unlisted
  <2>2. PICK t : t = TellLog("dmesg", "no dmesg", a)
    OBVIOUS
  <2>3. Adds(t) /\ \A n \in DOMAIN t : t[n].source = "dmesg"
    BY <1>0, <1>7, <2>2, LogAdds
  <2>4. \A n \in DOMAIN t : t[n].source # "python"
    BY <2>3
  <2> QED
    BY <1>a, <1>b, <2>1, <2>3, <2>4
<1>8. ASSUME NEW g \in File, ReadFile(g) PROVE FilesInv'
  <2>a. CASE doctorPc' = "raised"
    <3>1. doctorPc' \notin Unlisted /\ doctorPc' \notin Listed /\ doctorPc' \notin {"print", "done"}
      BY <2>a DEF Unlisted, Listed
    <3> QED
      BY <3>1, Zenon DEF FilesInv, CodeInv
  <2> SUFFICES ASSUME doctorPc' # "raised" PROVE FilesInv'
    BY <2>a
  <2>1. /\ doctorPc = "files" /\ g \in unread /\ unread' = unread \ {g}
        /\ doctorPc' = IF unread' = {} THEN "print" ELSE "files"
        /\ UNCHANGED <<text, projectRoot, edited>>
    BY <1>8, Zenon DEF ReadFile, project
  <2>2. PICK t : /\ Adds(t) /\ \A n \in DOMAIN t : t[n].source = "python" /\ t[n].what = g
                 /\ Len(t) = IF FileAnswer(g) THEN 1 ELSE 0
    BY <1>0, <1>8, ReadAdds
  <2>3. /\ doctorPc \in Listed /\ doctorPc' \in Listed /\ doctorPc' \notin Unlisted
        /\ doctorPc' \in {"print", "done"} => unread' = {}
    BY <2>1 DEF Listed, Unlisted
  <2>4. CodedIn(issues, g) = {} /\ projectRoot # "missing"
    BY <2>1, <2>3, Zenon DEF FilesInv, CodeInv
  <2>5. \A f \in File : CodeDue(f)' = CodeDue(f)
    BY <2>1 DEF CodeDue
  <2>6. ASSUME NEW f \in File PROVE CodeInv(f)'
    <3>1. CASE f = g
      <4>1. Cardinality(CodedIn(issues', g)) = Len(t)
        <5>1. Len(t) \in {0, 1} /\ t \in Seq(TitledIssue) /\ issues' = issues \o t
          BY <2>2 DEF Adds
        <5> QED
          BY <1>0, <2>2, <2>4, <5>1, CodedAs
      <4>2. FileAnswer(g) <=> (projectRoot = "plain" /\ g \notin Hidden
                               /\ text[g] \in {"broken", "encoded"})
        BY <1>0, <2>4 DEF FileAnswer, Ignored, CannotCompile
      <4>3. Len(t) = CodeDue(g)
        BY <2>2, <4>2 DEF CodeDue
      <4>4. g \notin unread'
        BY <2>1
      <4> QED
        BY <2>3, <2>5, <3>1, <4>1, <4>3, <4>4, Zenon DEF CodeInv
    <3>2. CASE f # g
      <4>1. CodedIn(issues', f) = CodedIn(issues, f)
        <5>1. \A n \in DOMAIN t : ~(t[n].source = "python" /\ t[n].what = f)
          BY <2>2, <3>2
        <5> QED
          BY <1>0, <2>2, <5>1, Uncoded DEF Adds
      <4>2. f \in unread' <=> f \in unread
        BY <2>1, <3>2
      <4>3. projectRoot' = projectRoot /\ edited' = edited
        BY <2>1
      <4> QED
        BY <2>3, <2>5, <4>1, <4>2, <4>3, Zenon DEF FilesInv, CodeInv
    <3> QED
      BY <3>1, <3>2
  <2> QED
    BY <2>3, <2>6, Zenon DEF FilesInv
<1>9. ASSUME NEW g \in File, NEW new \in Text, Edit(g, new) PROVE FilesInv'
  <2>1. /\ text' = [text EXCEPT ![g] = new] /\ edited' = edited \cup {g}
        /\ UNCHANGED <<projectRoot, doctorPc, unread, issues>>
    BY <1>9, Zenon DEF Edit
  <2>2. ASSUME NEW f \in File PROVE CodeInv(f)'
    <3>1. f \notin edited' => f \notin edited /\ text'[f] = text[f]
      BY <1>0, <2>1
    <3>2. f \notin edited' => CodeDue(f)' = CodeDue(f)
      BY <2>1, <3>1 DEF CodeDue
    <3>3. doctorPc' = doctorPc /\ unread' = unread /\ issues' = issues /\ projectRoot' = projectRoot
      BY <2>1
    <3> QED
      BY <3>1, <3>2, <3>3, Zenon DEF FilesInv, CodeInv
  <2>3. doctorPc' = doctorPc /\ unread' = unread
    BY <2>1
  <2> QED
    BY <2>2, <2>3, Zenon DEF FilesInv
<1>10. CASE UNCHANGED doctorVars
  <2>1. UNCHANGED <<text, edited, projectRoot, doctorPc, unread, issues>>
    BY <1>10, Zenon DEF doctorVars
  <2> QED
    BY <2>1 DEF FilesInv, CodeInv, CodeDue
<1>11. CASE RglobRaises
  <2>1. doctorPc' \notin Unlisted /\ doctorPc' \notin Listed /\ doctorPc' \notin {"print", "done"}
    BY <1>11 DEF RglobRaises, Unlisted, Listed
  <2> QED
    BY <2>1, Zenon DEF FilesInv, CodeInv
<1> QED
  BY <1>1, <1>2, <1>3, <1>4, <1>5, <1>6, <1>7, <1>8, <1>9, <1>10, <1>11, Zenon
     DEF DoctorNext, DoctorStep, DoctorChange

LEMMA FilesExact == FilesInv => SteadyFilesExact
<1> SUFFICES ASSUME FilesInv, doctorPc \in {"print", "done"}, NEW f \in File \ edited
             PROVE  Cardinality(CodedIn(issues, f)) = CodeDue(f)
  BY Zenon DEF SteadyFilesExact, AboutFile, CodedIn, CodeDue
<1>1. doctorPc \in Listed /\ f \notin unread /\ f \in File /\ f \notin edited
  BY DEF FilesInv, Listed
<1> QED
  BY <1>1, Zenon DEF FilesInv, CodeInv

\* A file nobody edits while the tree is scanned is reported, once, if and
\* only if its text, read as UTF-8, does not compile: in any project and
\* whatever happens to the files around it.
THEOREM SteadyFiles == DoctorSpec => []SteadyFilesExact
  BY DoctorTypeInit, DoctorTypeStep, FilesInit, FilesStep, FilesExact, PTL DEF DoctorSpec
------------------------------------------------------------------------------
(***************************************************************************)
(* The groups are those of the issues that are printed.                    *)
(***************************************************************************)
GroupInv == groups = <<>> \/ (doctorPc = "done" /\ groups = GroupIssues(issues))

LEMMA GroupInit == DoctorInit => GroupInv
  BY Zenon DEF DoctorInit, GroupInv

LEMMA GroupStep == GroupInv /\ [DoctorNext]_doctorVars => GroupInv'
<1> SUFFICES ASSUME GroupInv, [DoctorNext]_doctorVars PROVE GroupInv'
  OBVIOUS
<1>1. ASSUME NEW mode, PrintDoctor(mode) PROVE GroupInv'
  <2>1. issues' = issues /\ groups' = IF mode = "grouped" /\ doctorPc' = "done"
                                        THEN GroupIssues(issues) ELSE <<>>
    BY <1>1, Zenon DEF PrintDoctor
  <2> QED
    BY <2>1, Zenon DEF GroupInv
<1>2. CASE doctorPc # "done" /\ groups' = groups
  BY <1>2, Zenon DEF GroupInv
<1>3. CASE UNCHANGED <<doctorPc, groups, issues>>
  BY <1>3, Zenon DEF GroupInv
<1>4. CheckFacts \/ CheckSystemd \/ Undecodable \/ RglobRaises \/ ListFiles =>
        doctorPc # "done" /\ groups' = groups
  BY DEF CheckFacts, CheckSystemd, Undecodable, RglobRaises, ListFiles
<1>5. \A a \in Answer : CheckJournal(a) \/ CheckDmesg(a) => doctorPc # "done" /\ groups' = groups
  BY DEF CheckJournal, CheckDmesg
<1>6. \A f \in File : ReadFile(f) => doctorPc # "done" /\ groups' = groups
  BY DEF ReadFile
<1>7. \A f \in File, new \in Text : Edit(f, new) => doctorPc # "done" /\ groups' = groups
  BY DEF Edit
<1>8. UNCHANGED doctorVars => UNCHANGED <<doctorPc, groups, issues>>
  BY Zenon DEF doctorVars
<1> QED
  BY <1>1, <1>2, <1>3, <1>4, <1>5, <1>6, <1>7, <1>8, Zenon DEF DoctorNext, DoctorStep, DoctorChange

LEMMA GroupsKeep == DoctorTyped /\ GroupInv => GroupsLossless
<1> SUFFICES ASSUME DoctorTyped, GroupInv, groups # <<>> PROVE GroupsLossless
  BY Zenon DEF GroupsLossless
<1>1. issues \in Seq(TitledIssue) /\ groups = GroupIssues(issues)
  BY Zenon DEF DoctorTyped, GroupInv
<1>2. Grouped(groups, issues, Len(issues)) /\ DOMAIN issues = 1..Len(issues)
  BY <1>1, GroupIssuesOK
<1>3. \A n \in DOMAIN groups :
         InOrder(groups[n].of, {i \in DOMAIN issues : Key(issues[i]) = groups[n].key})
  <2> SUFFICES ASSUME NEW n \in DOMAIN groups
               PROVE  InOrder(groups[n].of, {i \in DOMAIN issues : Key(issues[i]) = groups[n].key})
    OBVIOUS
  <2>1. PICK I : I = With(issues, Len(issues), groups[n].key)
    OBVIOUS
  <2>2. I = {i \in DOMAIN issues : Key(issues[i]) = groups[n].key}
    BY <1>2, <2>1, Zenon DEF With
  <2>3. Ordered(groups[n].of, issues, I)
    BY <1>2, <2>1, Zenon DEF Grouped
  <2> QED
    BY <2>2, <2>3, Zenon DEF Ordered, InOrder
<1>4. {Key(issues[n]) : n \in DOMAIN issues} = {groups[n].key : n \in DOMAIN groups}
  BY <1>2, Zenon DEF Grouped
<1>5. \A m, n \in DOMAIN groups : groups[m].key = groups[n].key => m = n
  BY <1>2, Zenon DEF Grouped
<1> QED
  BY <1>3, <1>4, <1>5, Zenon DEF GroupsLossless

\* What is printed in groups is a partition of the issues, for any issues.
THEOREM GroupsKept == DoctorSpec => []GroupsLossless
  BY DoctorTypeInit, DoctorTypeStep, GroupInit, GroupStep, GroupsKeep, PTL DEF DoctorSpec
------------------------------------------------------------------------------
(***************************************************************************)
(* The program.  A step of a call is a step of one component and leaves    *)
(* the variables of the others alone.                                      *)
(***************************************************************************)
LEMMA CallsStart ==
  CallsInit => /\ ProcessesInit /\ WatchInit /\ TraceInit
               /\ DoctorInit /\ SecurityInit /\ ReportInit
  BY Zenon DEF CallsInit

LEMMA CallsStep ==
  ASSUME [CallsNext]_callVars
  PROVE  /\ [ProcessesNext]_procVars /\ [WatchNext]_watchVars /\ [TraceNext]_traceVars
         /\ [DoctorNext]_doctorVars /\ [SecurityNext]_securityVars /\ [ReportNext]_reportVars
<1>1. CASE UNCHANGED callVars
  BY <1>1, Zenon DEF callVars
<1>2. CASE Handler
  BY <1>2, Zenon DEF Handler, ProcessesNext, WatchNext, TraceNext, DoctorNext, SecurityNext,
                     ReportNext
<1>3. CASE Around
  BY <1>3, Zenon DEF Around, ProcessesNext, WatchNext, TraceNext, DoctorNext, SecurityNext,
                     ReportNext
<1> QED
  BY <1>1, <1>2, <1>3, Zenon DEF CallsNext

LEMMA OneCall == CallsInit => call \in Command
  BY Zenon DEF CallsInit

LEMMA SameCall == call \in Command /\ [CallsNext]_callVars => (call \in Command)'
  BY Zenon DEF CallsNext, Handler, Around, callVars

\* Whichever command is called, every component behaves as it does alone: the
\* calls implement all of the specifications the theorems above are about.
THEOREM EachComponentAlone ==
  CallsSpec => /\ ProcessesInit /\ [][ProcessesNext]_procVars
               /\ WatchSpec /\ TraceSpec /\ DoctorSpec /\ SecuritySpec /\ ReportSpec
  BY CallsStart, CallsStep, PTL
     DEF CallsSpec, WatchSpec, TraceSpec, DoctorSpec, SecuritySpec, ReportSpec

LEMMA ListingAlone ==
  ProcessesInit /\ [][ProcessesNext]_procVars => [](ProcessesTypeOK /\ SteadyProcessesExact)
  BY ProcessesTypeInit, ProcessesTypeStep, ListingInit, ListingStep, ListingExact, PTL

\* The types of all components hold throughout every call of the program.
THEOREM CallsTypeCorrect == CallsSpec => []CallsTypeOK
<1>1. CallsSpec => [](call \in Command)
  BY OneCall, SameCall, PTL DEF CallsSpec
<1>2. (/\ call \in Command /\ ProcessesTypeOK /\ WatchTypeOK /\ TraceTypeOK
       /\ DoctorTypeOK /\ SecurityTypeOK /\ ReportTypeOK) => CallsTypeOK
  BY Zenon DEF CallsTypeOK
<1> QED
  BY <1>1, <1>2, EachComponentAlone, ListingAlone, WatchTypeCorrect, TraceTypeCorrect,
     DoctorTypeCorrect, SecurityTypeCorrect, ReportTypeCorrect, PTL

\* What the runs look for in one component each holds in every call of the
\* program, for any constants: of what is left alone while a command reads it,
\* the command tells the truth, as far as each property says.
THEOREM CallsAreTrue ==
  CallsSpec => [](/\ SteadyProcessesExact /\ RatesExact /\ TraceReadThenRemoved
                  /\ KernelLogAccounted /\ SteadyFilesExact /\ GroupsLossless
                  /\ WalkExact /\ SteadySectionsAgree /\ ReportsKept)
  BY EachComponentAlone, ListingAlone, RatesAreExact, ReadThenRemoved, KernelLogKept,
     SteadyFiles, GroupsKept, WalkIsExact, SectionsAgree, ReportsAreKept, PTL
==============================================================================
