--------------------------- MODULE ProcessesProofs ---------------------------
(***************************************************************************)
(* Proofs about the calls of one command each: the process listing         *)
(* (module Processes), the watch loop (Watch), a traced command (Trace)    *)
(* and the walk of the security checks (Security).                         *)
(***************************************************************************)
EXTENDS Processes, Watch, Trace, Security, SequenceTheorems, FiniteSetTheorems, TLAPS
------------------------------------------------------------------------------
(***************************************************************************)
(* The process listing, for any process numbers, any sizes and any number  *)
(* of changes.                                                             *)
(***************************************************************************)
ReadingStages == {"cmdline", "fd", "links"}

LEMMA RightsAreBoolean ==
  \A p \in Pid : MayRead(p) \in BOOLEAN /\ MayFollow(p) \in BOOLEAN /\ HasProgram(p) \in BOOLEAN
  BY DEF MayRead, MayFollow, HasProgram

LEMMA UnreadOK == \A p \in Pid : Unread(p) \in ProcessInfo
  BY DEF Unread, ProcessInfo

LEMMA SizesOK == ProcMachineOK => \A p \in Pid : proc[p].rss \in Size \cup {None}
<1> SUFFICES ASSUME ProcMachineOK, NEW p \in Pid PROVE proc[p].rss \in Size \cup {None}
  OBVIOUS
<1>1. proc[p] \in Process \cup {Absent}
  BY DEF ProcMachineOK
<1> QED
  BY <1>1 DEF Process, Absent

LEMMA AddOK ==
  ASSUME ProcReportOK, NEW p, NEW info \in ProcessInfo, Add(p, info)
  PROVE  /\ records' \in Seq(ProcessInfo) /\ unreadable' \in Nat
         /\ pending' \in SUBSET Pid /\ draft' \in SUBSET ProcessInfo
         /\ procPc' \in {"print", "status"}
  BY DEF Add, ProcReportOK

LEMMA BecomeOK ==
  ASSUME ProcMachineOK, ProcReportOK, NEW p \in Pid, NEW q \in Process \cup {Absent}, Become(p, q)
  PROVE  ProcMachineOK' /\ ProcReportOK'
<1>1. proc' \in [Pid -> Process \cup {Absent}]
  BY DEF Become, ProcMachineOK
<1>2. procChanges' \in 0..MaxProcChanges
  BY ProcessesAssumption DEF Become, ProcMachineOK
<1> QED
  BY <1>1, <1>2 DEF Become, ProcMachineOK, ProcReportOK

LEMMA ChangeBecomes ==
  ProcessesChange => \E p \in Pid, q \in Process \cup {Absent} : Become(p, q)
<1>1. [kind |-> "zombie", rss |-> None] \in Process
  BY DEF Process
<1> QED
  BY <1>1 DEF ProcessesChange, Start, ExitOf, Reap

LEMMA ProcessesTypeInit == ProcessesInit => ProcessesTypeOK
<1>1. ProcessesInit => ProcMachineOK
  BY ProcessesAssumption DEF ProcessesInit, ProcMachineOK
<1>2. ProcessesInit => ProcReportOK
  BY DEF ProcessesInit, ProcReportOK
<1> QED
  BY <1>1, <1>2 DEF ProcessesTypeOK

LEMMA ProcessesTypeStep == ProcessesTypeOK /\ [ProcessesNext]_procVars => ProcessesTypeOK'
<1> SUFFICES ASSUME ProcMachineOK, ProcReportOK, [ProcessesNext]_procVars
             PROVE  ProcMachineOK' /\ ProcReportOK'
  BY DEF ProcessesTypeOK
<1>0. UNCHANGED <<proc, procChanges, procRoot, hidepid, procJson>> => ProcMachineOK'
  BY DEF ProcMachineOK
<1>1. CASE ListProc
  BY <1>0, <1>1 DEF ListProc, ProcReportOK
<1>2. CASE PrintProcesses
  BY <1>0, <1>2 DEF PrintProcesses, ProcReportOK
<1>3. ASSUME NEW p \in Pid, ReadStatus(p) PROVE ProcMachineOK' /\ ProcReportOK'
  <2>1. CASE Add(p, Unread(p))
    BY <1>0, <1>3, <2>1, AddOK, UnreadOK DEF ReadStatus, ProcReportOK
  <2>2. CASE MayRead(p) /\ ~Add(p, Unread(p))
    <3> DEFINE d == [Unread(p) EXCEPT !.readable = TRUE, !.rss = proc[p].rss]
    <3>1. d \in ProcessInfo
      BY SizesOK DEF Unread, ProcessInfo
    <3>2. draft' = {d} /\ procPc' = "cmdline" /\ UNCHANGED <<pending, records, unreadable, touched>>
      BY <1>3, <2>2 DEF ReadStatus
    <3> HIDE DEF d
    <3> QED
      BY <1>0, <1>3, <3>1, <3>2 DEF ReadStatus, ProcReportOK
  <2> QED
    BY <1>3, <2>1, <2>2 DEF ReadStatus
<1>4. ASSUME NEW p \in Pid, ReadCmdline(p) PROVE ProcMachineOK' /\ ProcReportOK'
  BY <1>0, <1>4, AddOK, UnreadOK DEF ReadCmdline, ProcReportOK
<1>5. ASSUME NEW p \in Pid, FdCount(p) PROVE ProcMachineOK' /\ ProcReportOK'
  <2>1. \A d \in ProcessInfo : [d EXCEPT !.fds = MayFollow(p)] \in ProcessInfo
    BY RightsAreBoolean DEF ProcessInfo
  <2>2. draft' \in SUBSET ProcessInfo
    BY <1>5, <2>1 DEF FdCount, ProcReportOK
  <2> QED
    BY <1>0, <1>5, <2>2 DEF FdCount, ProcReportOK
<1>6. ASSUME NEW p \in Pid, ReadLinks(p) PROVE ProcMachineOK' /\ ProcReportOK'
  <2>1. PICK d \in draft : Add(p, [d EXCEPT !.exe = HasProgram(p)])
    BY <1>6 DEF ReadLinks
  <2>2. [d EXCEPT !.exe = HasProgram(p)] \in ProcessInfo
    BY <2>1, RightsAreBoolean DEF ProcReportOK, ProcessInfo
  <2> QED
    BY <1>0, <1>6, <2>1, <2>2, AddOK DEF ReadLinks, ProcReportOK
<1>7. CASE ProcessesChange
  BY <1>7, ChangeBecomes, BecomeOK
<1>8. CASE UNCHANGED procVars
  BY <1>0, <1>8 DEF procVars, ProcReportOK
<1> QED
  BY <1>1, <1>2, <1>3, <1>4, <1>5, <1>6, <1>7, <1>8 DEF ProcessesNext, ProcessesStep

\* Every variable keeps its type, whatever starts and exits during the walk.
THEOREM ProcessesTypeCorrect == ProcessesSpec => []ProcessesTypeOK
  BY ProcessesTypeInit, ProcessesTypeStep, PTL DEF ProcessesSpec
------------------------------------------------------------------------------
(***************************************************************************)
(* The walk.  The records are sorted and below all that is to come; what   *)
(* is known of a process nothing happens to is either still to be read,    *)
(* drafted as far as the reading has got, or recorded exactly.             *)
(***************************************************************************)
PlaceInv == /\ procPc = "list" => records = <<>>
            /\ Ended => pending = {}
OrderInv == /\ \A i, j \in DOMAIN records : i < j => records[i].pid < records[j].pid
            /\ \A i \in DOMAIN records : \A p \in pending : records[i].pid < p
Missed(r) == {i \in DOMAIN r : ~r[i].readable}
TotalInv == unreadable = Cardinality(Missed(records))
Known(p) == IF proc[p] = Absent
              THEN p \notin pending /\ \A i \in DOMAIN records : records[i].pid # p
              ELSE p \in pending \/ \E i \in DOMAIN records : records[i] = Exact(p)
KnownInv == procPc # "list" => \A p \in Pid \ touched : Known(p)
SoFar(p, d) == /\ d.readable = TRUE /\ d.rss = proc[p].rss /\ d.exe = FALSE
               /\ d.fds = IF procPc = "links" THEN MayFollow(p) ELSE FALSE
Drafted(p) == \E d \in ProcessInfo :
  /\ draft = {d} /\ d.pid = p
  /\ p \notin touched => MayRead(p) /\ SoFar(p, d)
DraftInv == procPc \in ReadingStages => \A p \in Pid : IsNextPid(p) => Drafted(p)
ListingInv == PlaceInv /\ OrderInv /\ TotalInv /\ KnownInv /\ DraftInv

LEMMA SameInfo ==
  ASSUME NEW d \in ProcessInfo, NEW e \in ProcessInfo, d.pid = e.pid, d.rss = e.rss,
         d.readable = e.readable, d.fds = e.fds, d.exe = e.exe
  PROVE  d = e
  BY DEF ProcessInfo

LEMMA ExactFields ==
  ASSUME NEW p \in Pid, ProcMachineOK, MayRead(p)
  PROVE  /\ Exact(p) \in ProcessInfo /\ Exact(p).pid = p /\ Exact(p).readable = TRUE
         /\ Exact(p).rss = proc[p].rss /\ Exact(p).fds = MayFollow(p)
         /\ Exact(p).exe = HasProgram(p)
  BY RightsAreBoolean, SizesOK DEF Exact, ProcessInfo

LEMMA OneNext ==
  ASSUME NEW p \in Pid, NEW q \in Pid, IsNextPid(p), IsNextPid(q)
  PROVE  p = q
  BY ProcessesAssumption DEF IsNextPid

LEMMA RecordAppended ==
  ASSUME NEW r \in Seq(ProcessInfo), NEW info \in ProcessInfo
  PROVE  /\ DOMAIN Append(r, info) = DOMAIN r \cup {Len(r) + 1}
         /\ Len(r) + 1 \notin DOMAIN r /\ DOMAIN r = 1..Len(r) /\ Len(r) \in Nat
         /\ \A i \in DOMAIN r : Append(r, info)[i] = r[i]
         /\ Append(r, info)[Len(r) + 1] = info
  OBVIOUS

LEMMA MissedAppended ==
  ASSUME NEW r \in Seq(ProcessInfo), NEW info \in ProcessInfo
  PROVE  Cardinality(Missed(Append(r, info))) =
           IF info.readable THEN Cardinality(Missed(r)) ELSE Cardinality(Missed(r)) + 1
<1>1. Missed(Append(r, info)) = Missed(r) \cup (IF info.readable THEN {} ELSE {Len(r) + 1})
  BY RecordAppended DEF Missed
<1>2. Missed(r) \in SUBSET (1..Len(r)) /\ Len(r) + 1 \notin Missed(r)
  BY RecordAppended DEF Missed
<1>3. IsFiniteSet(Missed(r))
  <2>1. Len(r) \in Int /\ 1 \in Int
    OBVIOUS
  <2>2. IsFiniteSet(1..Len(r))
    BY <2>1, FS_Interval
  <2> QED
    BY <1>2, <2>2, FS_Subset
<1>4. CASE info.readable
  BY <1>1, <1>4
<1>5. CASE ~info.readable
  BY <1>1, <1>2, <1>3, <1>5, FS_AddElement
<1> QED
  BY <1>4, <1>5

LEMMA AddKeeps ==
  ASSUME ProcReportOK, OrderInv, TotalInv, KnownInv, procPc # "list",
         NEW p \in Pid, IsNextPid(p), NEW info \in ProcessInfo, info.pid = p,
         p \notin touched => info = Exact(p),
         Add(p, info), UNCHANGED <<proc, procRoot, hidepid, touched>>
  PROVE  ListingInv'
<1>1. /\ records' = Append(records, info) /\ records \in Seq(ProcessInfo)
      /\ pending' = pending \ {p} /\ p \in pending
      /\ procPc' \in {"print", "status"} /\ (procPc' = "print" => pending' = {})
  BY DEF Add, ProcReportOK, IsNextPid
<1>2. PlaceInv' /\ DraftInv'
  BY <1>1 DEF PlaceInv, Ended, DraftInv, ReadingStages
<1>3. \A q \in pending' : p < q
  BY <1>1, ProcessesAssumption DEF IsNextPid, ProcReportOK
<1>4. OrderInv'
  <2>1. \A i \in DOMAIN records : records[i].pid < p /\ records[i].pid \in Nat
    <3>1. \A i \in DOMAIN records : records[i] \in ProcessInfo
      BY <1>1
    <3>2. \A i \in DOMAIN records : records[i].pid \in Nat
      BY <3>1, ProcessesAssumption DEF ProcessInfo
    <3> QED
      BY <1>1, <3>2 DEF OrderInv
  <2>2. \A i, j \in DOMAIN records' : i < j => records'[i].pid < records'[j].pid
    BY <1>1, <2>1, RecordAppended DEF OrderInv
  <2>3. \A i \in DOMAIN records' : \A q \in pending' : records'[i].pid < q
    BY <1>1, <1>3, <2>1, RecordAppended DEF OrderInv
  <2> QED
    BY <2>2, <2>3 DEF OrderInv
<1>5. TotalInv'
  BY <1>1, MissedAppended DEF TotalInv, Add, ProcReportOK
<1>6. KnownInv'
  <2> SUFFICES ASSUME NEW q \in Pid \ touched PROVE Known(q)'
    BY DEF KnownInv
  <2>1. Known(q) /\ Exact(q)' = Exact(q)
    BY DEF KnownInv, Exact, MayRead, MayFollow, HasProgram, Unread
  <2>2. CASE q = p
    <3>1. records'[Len(records) + 1] = Exact(q)' /\ Len(records) + 1 \in DOMAIN records'
      BY <1>1, <2>1, <2>2, RecordAppended
    <3>2. proc[q] # Absent
      BY <1>1, <2>1, <2>2 DEF Known
    <3> QED
      BY <3>1, <3>2 DEF Known
  <2>3. CASE q # p
    BY <1>1, <2>1, <2>3, RecordAppended DEF Known
  <2> QED
    BY <2>2, <2>3
<1> QED
  BY <1>2, <1>4, <1>5, <1>6 DEF ListingInv

LEMMA ReadingKeeps ==
  ASSUME ListingInv, procPc # "list", procPc' \in ReadingStages,
         UNCHANGED <<proc, procRoot, hidepid, pending, records, unreadable, touched>>,
         NEW n \in Pid, IsNextPid(n), Drafted(n)'
  PROVE  ListingInv'
<1>1. PlaceInv' /\ OrderInv' /\ TotalInv'
  BY DEF ListingInv, PlaceInv, OrderInv, TotalInv, Ended, ReadingStages
<1>2. \A p \in Pid : (Known(p)' <=> Known(p)) /\ (IsNextPid(p)' <=> IsNextPid(p))
  BY DEF Known, Exact, MayRead, MayFollow, HasProgram, Unread, IsNextPid
<1>3. KnownInv' /\ DraftInv'
  BY <1>2, OneNext DEF ListingInv, KnownInv, DraftInv
<1> QED
  BY <1>1, <1>3 DEF ListingInv

LEMMA BecomeKeeps ==
  ASSUME ListingInv, ProcessesTypeOK, NEW p \in Pid, NEW q, Become(p, q)
  PROVE  ListingInv'
<1>1. /\ UNCHANGED <<procPc, pending, draft, records, unreadable, procRoot, hidepid>>
      /\ touched' = touched \cup {p} /\ touched \subseteq Pid
      /\ \A r \in Pid \ touched' : proc'[r] = proc[r]
  BY DEF Become, ProcessesTypeOK, ProcMachineOK, ProcReportOK
<1>2. PlaceInv' /\ OrderInv' /\ TotalInv'
  BY <1>1 DEF ListingInv, PlaceInv, OrderInv, TotalInv, Ended
<1>3. KnownInv'
  BY <1>1 DEF ListingInv, KnownInv, Known, Exact, MayRead, MayFollow, HasProgram, Unread
<1>4. DraftInv'
  <2> SUFFICES ASSUME procPc \in ReadingStages, NEW r \in Pid, IsNextPid(r) PROVE Drafted(r)'
    BY <1>1 DEF DraftInv, IsNextPid
  <2>1. PICK d \in ProcessInfo : /\ draft = {d} /\ d.pid = r
                                 /\ r \notin touched => MayRead(r) /\ SoFar(r, d)
    BY DEF ListingInv, DraftInv, Drafted
  <2>2. r \notin touched' => /\ r \notin touched /\ (MayRead(r)' <=> MayRead(r))
                             /\ (SoFar(r, d)' <=> SoFar(r, d))
    BY <1>1 DEF MayRead, SoFar, MayFollow
  <2> QED
    BY <1>1, <2>1, <2>2 DEF Drafted
<1> QED
  BY <1>2, <1>3, <1>4 DEF ListingInv

LEMMA ListingStep == ProcessesTypeOK /\ ListingInv /\ [ProcessesNext]_procVars => ListingInv'
<1> SUFFICES ASSUME ProcMachineOK, ProcReportOK, ListingInv, [ProcessesNext]_procVars
             PROVE  ListingInv'
  BY DEF ProcessesTypeOK
<1>0. OrderInv /\ TotalInv /\ KnownInv
  BY DEF ListingInv
<1>1. CASE ListProc
  <2>1. /\ records = <<>> /\ records' = <<>> /\ touched' = {}
        /\ pending' = {p \in Pid : proc[p] # Absent}
        /\ UNCHANGED <<proc, unreadable>>
        /\ procPc' \in {"print", "status"} /\ (procPc' = "print" => pending' = {})
    BY <1>1 DEF ListProc, ListingInv, PlaceInv
  <2>2. PlaceInv' /\ OrderInv' /\ TotalInv' /\ DraftInv'
    BY <1>0, <2>1 DEF PlaceInv, Ended, OrderInv, TotalInv, DraftInv, ReadingStages
  <2>3. KnownInv'
    BY <2>1 DEF KnownInv, Known
  <2> QED
    BY <2>2, <2>3 DEF ListingInv
<1>2. CASE PrintProcesses
  <2>1. /\ procPc = "print" /\ procPc' \in {"done", "raised"}
        /\ UNCHANGED <<proc, procRoot, hidepid, pending, records, unreadable, touched>>
    BY <1>2 DEF PrintProcesses
  <2>2. PlaceInv' /\ OrderInv' /\ TotalInv' /\ DraftInv'
    BY <2>1 DEF ListingInv, PlaceInv, Ended, OrderInv, TotalInv, DraftInv, ReadingStages
  <2>3. KnownInv'
    BY <1>0, <2>1 DEF KnownInv, Known, Exact, MayRead, MayFollow, HasProgram, Unread
  <2> QED
    BY <2>2, <2>3 DEF ListingInv
<1>3. ASSUME NEW p \in Pid, ReadStatus(p) PROVE ListingInv'
  <2>1. CASE ~MayRead(p) /\ Add(p, Unread(p))
    <3>1. Unread(p) \in ProcessInfo /\ Unread(p).pid = p /\ Unread(p) = Exact(p)
      BY <2>1, UnreadOK DEF Unread, Exact
    <3>2. IsNextPid(p) /\ procPc # "list" /\ UNCHANGED <<proc, procRoot, hidepid, touched>>
      BY <1>3 DEF ReadStatus
    <3> QED
      BY <1>0, <2>1, <3>1, <3>2, AddKeeps
  <2>2. CASE MayRead(p) /\ procPc' = "cmdline"
    <3>1. PICK d : d = [Unread(p) EXCEPT !.readable = TRUE, !.rss = proc[p].rss]
      OBVIOUS
    <3>2. /\ draft' = {d} /\ IsNextPid(p) /\ procPc # "list"
          /\ UNCHANGED <<proc, procRoot, hidepid, pending, records, unreadable, touched>>
      BY <1>3, <2>2, <3>1 DEF ReadStatus
    <3>3. /\ d \in ProcessInfo /\ d.pid = p /\ d.readable = TRUE /\ d.rss = proc[p].rss
          /\ d.fds = FALSE /\ d.exe = FALSE
      <4>1. proc[p].rss \in Size \cup {None}
        BY SizesOK
      <4> QED
        BY <3>1, <4>1 DEF Unread, ProcessInfo
    <3>4. MayRead(p)' /\ SoFar(p, d)'
      BY <2>2, <3>2, <3>3 DEF MayRead, SoFar
    <3>5. Drafted(p)'
      BY <3>2, <3>3, <3>4 DEF Drafted
    <3> QED
      BY <2>2, <3>2, <3>5, ReadingKeeps DEF ReadingStages
  <2> QED
    BY <1>3, <2>1, <2>2 DEF ReadStatus
<1>4. ASSUME NEW p \in Pid, ReadCmdline(p) PROVE ListingInv'
  <2>1. PICK d \in ProcessInfo : /\ draft = {d} /\ d.pid = p /\ IsNextPid(p) /\ procPc = "cmdline"
                                 /\ p \notin touched => MayRead(p) /\ SoFar(p, d)
    BY <1>4 DEF ReadCmdline, ListingInv, DraftInv, ReadingStages, Drafted
  <2>2. CASE ~MayRead(p) /\ Add(p, Unread(p))
    <3>1. Unread(p) \in ProcessInfo /\ Unread(p).pid = p /\ p \in touched
      BY <2>1, <2>2, UnreadOK DEF Unread
    <3>2. UNCHANGED <<proc, procRoot, hidepid, touched>>
      BY <1>4 DEF ReadCmdline
    <3> QED
      BY <1>0, <2>1, <2>2, <3>1, <3>2, AddKeeps
  <2>3. CASE MayRead(p) /\ procPc' = "fd" /\ UNCHANGED <<draft, pending, records, unreadable>>
    <3>1. UNCHANGED <<proc, procRoot, hidepid, touched>>
      BY <1>4 DEF ReadCmdline
    <3>2. MayRead(p)' /\ (SoFar(p, d) => SoFar(p, d)')
      BY <2>1, <2>3, <3>1 DEF SoFar, MayRead
    <3>3. Drafted(p)'
      BY <2>1, <2>3, <3>1, <3>2 DEF Drafted
    <3> QED
      BY <2>1, <2>3, <3>1, <3>3, ReadingKeeps DEF ReadingStages
  <2> QED
    BY <1>4, <2>2, <2>3 DEF ReadCmdline
<1>5. ASSUME NEW p \in Pid, FdCount(p) PROVE ListingInv'
  <2>1. PICK d \in ProcessInfo : /\ draft = {d} /\ d.pid = p /\ IsNextPid(p) /\ procPc = "fd"
                                 /\ p \notin touched => MayRead(p) /\ SoFar(p, d)
    BY <1>5 DEF FdCount, ListingInv, DraftInv, ReadingStages, Drafted
  <2>a. PICK e : e = [d EXCEPT !.fds = MayFollow(p)]
    OBVIOUS
  <2>2. /\ draft' = {e} /\ procPc' = "links"
        /\ UNCHANGED <<proc, procRoot, hidepid, pending, records, unreadable, touched>>
    BY <1>5, <2>1, <2>a DEF FdCount
  <2>3. /\ e \in ProcessInfo /\ e.pid = p /\ e.readable = d.readable /\ e.rss = d.rss
        /\ e.exe = d.exe /\ e.fds = MayFollow(p)
    BY <2>1, <2>a, RightsAreBoolean DEF ProcessInfo
  <2>4. p \notin touched => MayRead(p)' /\ SoFar(p, e)'
    BY <2>1, <2>2, <2>3 DEF SoFar, MayFollow, MayRead
  <2>5. Drafted(p)'
    BY <2>1, <2>2, <2>3, <2>4 DEF Drafted
  <2> QED
    BY <2>1, <2>2, <2>5, ReadingKeeps DEF ReadingStages
<1>6. ASSUME NEW p \in Pid, ReadLinks(p) PROVE ListingInv'
  <2>1. PICK d \in ProcessInfo : /\ draft = {d} /\ d.pid = p /\ IsNextPid(p) /\ procPc = "links"
                                 /\ p \notin touched => MayRead(p) /\ SoFar(p, d)
    BY <1>6 DEF ReadLinks, ListingInv, DraftInv, ReadingStages, Drafted
  <2>a. PICK e : e = [d EXCEPT !.exe = HasProgram(p)]
    OBVIOUS
  <2>2. Add(p, e) /\ UNCHANGED <<proc, procRoot, hidepid, touched>>
    BY <1>6, <2>1, <2>a DEF ReadLinks
  <2>3. /\ e \in ProcessInfo /\ e.pid = p /\ e.readable = d.readable /\ e.rss = d.rss
        /\ e.exe = HasProgram(p) /\ e.fds = d.fds
    BY <2>1, <2>a, RightsAreBoolean DEF ProcessInfo
  <2>4. ASSUME p \notin touched PROVE e = Exact(p)
    <3>1. /\ MayRead(p) /\ e.readable = TRUE /\ e.rss = proc[p].rss
          /\ e.fds = MayFollow(p) /\ e.exe = HasProgram(p)
      BY <2>1, <2>3, <2>4 DEF SoFar
    <3>2. /\ Exact(p) \in ProcessInfo /\ Exact(p).pid = p /\ Exact(p).readable = TRUE
          /\ Exact(p).rss = proc[p].rss /\ Exact(p).fds = MayFollow(p)
          /\ Exact(p).exe = HasProgram(p)
      BY <3>1, ExactFields
    <3>3. /\ e.pid = Exact(p).pid /\ e.rss = Exact(p).rss /\ e.readable = Exact(p).readable
          /\ e.fds = Exact(p).fds /\ e.exe = Exact(p).exe
      BY <2>3, <3>1, <3>2
    <3> QED
      BY <2>3, <3>2, <3>3, SameInfo
  <2> QED
    BY <1>0, <2>1, <2>2, <2>3, <2>4, AddKeeps
<1>7. CASE ProcessesChange
  BY <1>7, ChangeBecomes, BecomeKeeps DEF ProcessesTypeOK
<1>8. CASE UNCHANGED procVars
  <2>1. UNCHANGED <<proc, procRoot, hidepid, procPc, pending, draft, records, unreadable, touched>>
    BY <1>8 DEF procVars
  <2>2. PlaceInv' /\ OrderInv' /\ TotalInv'
    BY <2>1 DEF ListingInv, PlaceInv, OrderInv, TotalInv, Ended
  <2>3. KnownInv'
    BY <2>1 DEF ListingInv, KnownInv, Known, Exact, MayRead, MayFollow, HasProgram, Unread
  <2>4. \A p \in Pid, d \in ProcessInfo :
          (SoFar(p, d)' <=> SoFar(p, d)) /\ (MayRead(p)' <=> MayRead(p))
    BY <2>1 DEF SoFar, MayRead, MayFollow
  <2>5. DraftInv'
    BY <2>1, <2>4 DEF ListingInv, DraftInv, Drafted, IsNextPid
  <2> QED
    BY <2>2, <2>3, <2>5 DEF ListingInv
<1> QED
  BY <1>1, <1>2, <1>3, <1>4, <1>5, <1>6, <1>7, <1>8 DEF ProcessesNext, ProcessesStep

LEMMA ListingInit == ProcessesInit => ListingInv
<1> SUFFICES ASSUME ProcessesInit PROVE ListingInv
  OBVIOUS
<1>1. records = <<>> /\ unreadable = 0 /\ procPc = "list" /\ pending = {}
  BY DEF ProcessesInit
<1>2. Missed(records) = {}
  BY <1>1 DEF Missed
<1>3. TotalInv
  BY <1>1, <1>2, FS_EmptySet DEF TotalInv
<1> QED
  BY <1>1, <1>3 DEF ListingInv, PlaceInv, OrderInv, KnownInv, DraftInv, ReadingStages

LEMMA ListingExact == ListingInv => SteadyProcessesExact
  BY DEF ListingInv, PlaceInv, OrderInv, TotalInv, Missed, KnownInv, Known, Ended,
         SteadyProcessesExact

\* processes.py:54: the walk over a /proc that changes is sorted, counts what it
\* could not read and is exact about every process nothing happens to.
THEOREM SteadyProcesses == ProcessesSpec => []SteadyProcessesExact
  BY ListingInit, ListingStep, ListingExact, ProcessesTypeCorrect, PTL DEF ProcessesSpec
------------------------------------------------------------------------------
(***************************************************************************)
(* The watch loop, for any interfaces and any bounds.                      *)
(***************************************************************************)
\* What the type needs: no counter is ahead of what ever arrived.
CounterInv == \A i \in Iface : counter[i] # Gone => counter[i] <= ever[i]

LEMMA NowOK == WatchMachineOK => Now \in Truth
  BY DEF WatchMachineOK, Now, Truth

LEMMA BlankOK == Blank \in Snapshot
<1>1. Nobody \in [{} -> 0..MaxBytes] /\ Nobody \in [{} -> Rate] /\ {} \in SUBSET Iface
  BY DEF Nobody
<1>2. Nobody \in Bytes /\ Nobody \in RateTable
  BY <1>1 DEF Bytes, RateTable
<1>3. 0 \in Time
  BY WatchAssumption DEF Time
<1> QED
  BY <1>2, <1>3 DEF Blank, Snapshot

LEMMA WatchTypeInit == WatchInit => WatchTypeOK /\ CounterInv
<1> SUFFICES ASSUME WatchInit PROVE WatchMachineOK /\ WatchReportOK /\ CounterInv
  BY DEF WatchTypeOK
<1>1. /\ ever \in Total /\ births \in [Iface -> 0..MaxBirths]
      /\ elapsedTime \in Time /\ sets \in 0..MaxSets /\ 0 \in Time
  BY WatchAssumption DEF WatchInit, Total, Time
<1>2. counter \in [Iface -> {Gone} \cup 0..MaxBytes]
  BY WatchAssumption DEF WatchInit
<1>3. WatchMachineOK
  BY <1>1, <1>2 DEF WatchInit, WatchMachineOK
<1>4. WatchReportOK
  BY <1>1, <1>3, NowOK, BlankOK DEF WatchInit, WatchReportOK
<1>5. CounterInv
  BY DEF WatchInit, CounterInv, Gone
<1> QED
  BY <1>3, <1>4, <1>5

LEMMA OutsideOK == Outside /\ WatchReportOK => WatchReportOK'
  BY DEF Outside, watchFlags, WatchReportOK

LEMMA SurroundingsOK ==
  WatchMachineOK /\ WatchReportOK /\ CounterInv /\ Surroundings =>
    WatchMachineOK' /\ WatchReportOK' /\ CounterInv'
<1> SUFFICES ASSUME WatchMachineOK, WatchReportOK, CounterInv, Surroundings
             PROVE  WatchMachineOK' /\ WatchReportOK' /\ CounterInv'
  OBVIOUS
<1> USE WatchAssumption
<1>1. ASSUME NEW i \in Iface, Receive(i)
      PROVE  WatchMachineOK' /\ WatchReportOK' /\ CounterInv'
  <2>1. counter[i] \in 0..MaxBytes /\ counter[i] <= ever[i] /\ ever[i] \in 0..MaxBytes
        /\ ever[i] < MaxBytes
    BY <1>1 DEF Receive, WatchMachineOK, CounterInv, Total
  <2>2. counter[i] + 1 \in 0..MaxBytes /\ ever[i] + 1 \in 0..MaxBytes
    BY <2>1
  <2>3. WatchMachineOK'
    BY <1>1, <2>2 DEF Receive, WatchMachineOK, Total
  <2>4. CounterInv'
    BY <1>1, <2>1 DEF Receive, WatchMachineOK, CounterInv, Total, Gone
  <2> QED
    BY <1>1, <2>3, <2>4, OutsideOK DEF Receive
<1>2. ASSUME NEW i \in Iface, RemoveIface(i)
      PROVE  WatchMachineOK' /\ WatchReportOK' /\ CounterInv'
  <2>1. WatchMachineOK' /\ CounterInv'
    BY <1>2 DEF RemoveIface, WatchMachineOK, CounterInv
  <2> QED
    BY <1>2, <2>1, OutsideOK DEF RemoveIface
<1>3. ASSUME NEW i \in Iface, MakeIface(i)
      PROVE  WatchMachineOK' /\ WatchReportOK' /\ CounterInv'
  <2>1. births[i] + 1 \in 0..MaxBirths /\ ever[i] \in 0..MaxBytes
    BY <1>3 DEF MakeIface, WatchMachineOK, Total
  <2>2. WatchMachineOK' /\ CounterInv'
    BY <1>3, <2>1 DEF MakeIface, WatchMachineOK, CounterInv
  <2> QED
    BY <1>3, <2>2, OutsideOK DEF MakeIface
<1>4. CASE TickTime
  <2>1. WatchMachineOK' /\ CounterInv'
    BY <1>4 DEF TickTime, WatchMachineOK, CounterInv, Time
  <2> QED
    BY <1>4, <2>1, OutsideOK DEF TickTime
<1>5. ASSUME NEW t \in Time, SetClock(t)
      PROVE  WatchMachineOK' /\ WatchReportOK' /\ CounterInv'
  <2>1. WatchMachineOK' /\ CounterInv'
    BY <1>5 DEF SetClock, WatchMachineOK, CounterInv
  <2> QED
    BY <1>5, <2>1, OutsideOK DEF SetClock
<1>6. CASE Interrupt
  <2>1. WatchMachineOK' /\ CounterInv'
    BY <1>6 DEF Interrupt, watchMachine, WatchMachineOK, CounterInv
  <2>2. WatchReportOK'
    BY <1>6 DEF Interrupt, watchFlags, WatchReportOK
  <2> QED
    BY <2>1, <2>2
<1> QED
  BY <1>1, <1>2, <1>3, <1>4, <1>5, <1>6 DEF Surroundings

LEMMA ElapsedOK == \A s, t \in Time : IF t > s THEN t - s \in Time ELSE Least \in Time
  BY WatchAssumption DEF Time, Least

LEMMA RatesOK ==
  ASSUME NEW listed \in SUBSET Iface, NEW b \in [listed -> 0..MaxBytes], NEW t \in Time,
         NEW p \in Snapshot
  PROVE  Rates(b, t, p) \in RateTable
<1>1. PICK I \in SUBSET Iface : p.bytes \in [I -> 0..MaxBytes]
  BY DEF Snapshot, Bytes
<1>2. Elapsed(t, p) \in Time
  BY ElapsedOK DEF Elapsed, Snapshot
<1>3. \A i \in listed \cap I : b[i] - p.bytes[i] \in -MaxBytes..MaxBytes
  BY <1>1, WatchAssumption
<1>4. \A i \in listed \cap I :
        [bytes |-> b[i] - p.bytes[i], elapsed |-> Elapsed(t, p)] \in Rate
  BY <1>2, <1>3 DEF Rate
<1>5. Rates(b, t, p) \in [listed \cap I -> Rate] /\ listed \cap I \in SUBSET Iface
  BY <1>1, <1>4 DEF Rates
<1> QED
  BY <1>5 DEF RateTable

LEMMA NobodyOK == Nobody \in RateTable
  BY BlankOK DEF Blank, Snapshot

\* What one read of the counters brings.
LEMMA SampleTaken ==
  ASSUME WatchMachineOK, WatchReportOK, ReadCounters
  PROVE  \E listed \in SUBSET Iface : \E b \in [listed -> 0..MaxBytes] :
           /\ \A i \in listed : counter[i] # Gone /\ b[i] = counter[i]
           /\ sample' \in Snapshot /\ sample'.time = sampleTime /\ sample'.bytes = b
           /\ previous = {} => sample'.rates = Nobody
           /\ \A p : previous = {p} => sample'.rates = Rates(b, sampleTime, p)
           /\ truth' \in Truth /\ truth'.elapsed = truth.elapsed /\ truth'.sets = truth.sets
           /\ truth'.ever = ever /\ truth'.births = births /\ truth'.listed = listed
<1>1. PICK listed : \E b :
        /\ \A i \in listed : counter[i] # Gone /\ b[i] = counter[i]
        /\ listed \in SUBSET Iface /\ b = [i \in listed |-> counter[i]]
        /\ sample' = [time |-> sampleTime, bytes |-> b,
                      rates |-> IF previous = {} THEN Nobody
                                ELSE Rates(b, sampleTime, CHOOSE p \in previous : TRUE)]
        /\ truth' = [truth EXCEPT !.ever = ever, !.births = births, !.listed = listed]
  <2>1. PICK readable \in BOOLEAN :
          LET listed == {i \in Iface : readable /\ counter[i] # Gone}
              b == [i \in listed |-> counter[i]] IN
          /\ sample' = [time |-> sampleTime, bytes |-> b,
                        rates |-> IF previous = {} THEN Nobody
                                  ELSE Rates(b, sampleTime, CHOOSE p \in previous : TRUE)]
          /\ truth' = [truth EXCEPT !.ever = ever, !.births = births, !.listed = listed]
    BY DEF ReadCounters
  <2> WITNESS {i \in Iface : readable /\ counter[i] # Gone}
  <2> WITNESS [i \in {j \in Iface : readable /\ counter[j] # Gone} |-> counter[i]]
  <2> QED
    BY <2>1
<1>2. PICK b :
        /\ \A i \in listed : counter[i] # Gone /\ b[i] = counter[i]
        /\ listed \in SUBSET Iface /\ b = [i \in listed |-> counter[i]]
        /\ sample' = [time |-> sampleTime, bytes |-> b,
                      rates |-> IF previous = {} THEN Nobody
                                ELSE Rates(b, sampleTime, CHOOSE p \in previous : TRUE)]
        /\ truth' = [truth EXCEPT !.ever = ever, !.births = births, !.listed = listed]
  BY <1>1
<1>3. b \in [listed -> 0..MaxBytes]
  BY <1>2 DEF WatchMachineOK
<1>4. b \in Bytes /\ sampleTime \in Time
  BY <1>2, <1>3 DEF Bytes, WatchReportOK
<1>5. previous # {} => (CHOOSE p \in previous : TRUE) \in Snapshot
  BY DEF WatchReportOK
<1>6. sample'.rates \in RateTable
  BY <1>2, <1>3, <1>4, <1>5, RatesOK, NobodyOK
<1>7. sample' \in Snapshot
  BY <1>2, <1>4, <1>6 DEF Snapshot
<1>8. /\ truth' \in Truth /\ truth'.elapsed = truth.elapsed /\ truth'.sets = truth.sets
      /\ truth'.ever = ever /\ truth'.births = births /\ truth'.listed = listed
  BY <1>2 DEF WatchReportOK, WatchMachineOK, Truth
<1>9. /\ \A i \in listed : counter[i] # Gone /\ b[i] = counter[i]
      /\ sample'.time = sampleTime /\ sample'.bytes = b
      /\ previous = {} => sample'.rates = Nobody
      /\ \A p : previous = {p} => sample'.rates = Rates(b, sampleTime, p)
  BY <1>2
<1>10. listed \in SUBSET Iface
  BY <1>2
<1> QED
  BY <1>3, <1>7, <1>8, <1>9, <1>10

LEMMA WatchTypeStep ==
  WatchTypeOK /\ CounterInv /\ [WatchNext]_watchVars => WatchTypeOK' /\ CounterInv'
<1> SUFFICES ASSUME WatchMachineOK, WatchReportOK, CounterInv, [WatchNext]_watchVars
             PROVE  WatchMachineOK' /\ WatchReportOK' /\ CounterInv'
  BY DEF WatchTypeOK
<1>0. UNCHANGED watchMachine => WatchMachineOK' /\ CounterInv'
  BY DEF watchMachine, WatchMachineOK, CounterInv
<1>1. CASE StampRound
  BY <1>0, <1>1, NowOK DEF StampRound, watchFlags, WatchMachineOK, WatchReportOK
<1>2. CASE ReadCounters
  <2>1. sample' \in Snapshot /\ truth' \in Truth
    BY <1>2, SampleTaken
  <2> QED
    BY <1>0, <1>2, <2>1 DEF ReadCounters, watchFlags, WatchReportOK
<1>3. CASE Clear
  BY <1>0, <1>3 DEF Clear, Keep, watchFlags, WatchReportOK
<1>4. CASE ReadSockets \/ PrintNetwork \/ WakeUp
  BY <1>0, <1>4 DEF ReadSockets, PrintNetwork, WakeUp, watchFlags, WatchReportOK
<1>5. CASE Surroundings
  BY <1>5, SurroundingsOK
<1>6. CASE UNCHANGED watchVars
  BY <1>0, <1>6 DEF watchVars, watchFlags, WatchReportOK
<1> QED
  BY <1>1, <1>2, <1>3, <1>4, <1>5, <1>6 DEF WatchNext, WatchStep

\* Every variable keeps its type; that a counter is never ahead of what ever
\* arrived keeps the differences within their bounds.
THEOREM WatchTypeCorrect == WatchSpec => []WatchTypeOK
  BY WatchTypeInit, WatchTypeStep, PTL DEF WatchSpec
------------------------------------------------------------------------------
(***************************************************************************)
(* What the loop carries from round to round.  A snapshot fits the note    *)
(* taken with it as long as the machine has gone on from there: the clock  *)
(* by the seconds that passed, unless it was set; each counter by the      *)
(* bytes that arrived, unless its interface was made anew.                 *)
(***************************************************************************)
TimeFits(t, tr) == /\ tr.sets <= sets /\ tr.elapsed <= elapsedTime
                   /\ tr.sets = sets => clock - t = elapsedTime - tr.elapsed
CountFits(s, tr, i) == /\ tr.births[i] <= births[i]
                       /\ tr.births[i] = births[i] /\ counter[i] # Gone =>
                            counter[i] - s.bytes[i] = ever[i] - tr.ever[i]
Fits(s, tr) == /\ DOMAIN s.bytes = tr.listed
               /\ \A i \in tr.listed : CountFits(s, tr, i)

\* Between the stamp of a round and its read.
StampInv(p) == /\ truthBefore.sets <= truth.sets /\ truthBefore.elapsed <= truth.elapsed
               /\ truthBefore.sets = truth.sets =>
                    sampleTime - p.time = truth.elapsed - truthBefore.elapsed
ShowingStages == {"sockets", "clear", "print", "sleep"}

RoundInv ==
  /\ watchPc = "stamp" =>
       \/ previous = {} /\ truth.listed = {}
       \/ previous = {sample} /\ Fits(sample, truth) /\ TimeFits(sample.time, truth)
  /\ watchPc = "read" =>
       /\ TimeFits(sampleTime, truth)
       /\ \/ previous = {} /\ truthBefore.listed = {}
          \/ \E p \in Snapshot : previous = {p} /\ Fits(p, truthBefore) /\ StampInv(p)
  /\ watchPc \in ShowingStages => /\ Fits(sample, truth) /\ TimeFits(sample.time, truth)
                          /\ RatesExact
  /\ watchPc \in {"clear", "sleep"} => Watching
  /\ watchPc \in {"print", "sleep"} /\ Watching => previous = {sample}

\* The machine goes on and the program does not.
GoesOn == /\ UNCHANGED <<watchPc, watchFlags, sampleTime, sample, previous, truth, truthBefore>>
          /\ \A tr \in Truth : \A t \in Time : TimeFits(t, tr) => TimeFits(t, tr)'
          /\ \A tr \in Truth : \A s \in Snapshot : \A i \in DOMAIN s.bytes :
               CountFits(s, tr, i) => CountFits(s, tr, i)'

LEMMA GoingOnFits ==
  ASSUME GoesOn, NEW s \in Snapshot, NEW tr \in Truth, Fits(s, tr)
  PROVE  Fits(s, tr)'
  BY DEF GoesOn, Fits, Truth

LEMMA GoingOnKeeps == WatchReportOK /\ RoundInv /\ GoesOn => RoundInv'
<1> SUFFICES ASSUME WatchReportOK, RoundInv, GoesOn PROVE RoundInv'
  OBVIOUS
<1>1. /\ UNCHANGED <<watchPc, watchFlag, watchJson, sampleTime, sample, previous, truth, truthBefore>>
      /\ sample.time \in Time /\ sampleTime \in Time /\ sample \in Snapshot
      /\ truth \in Truth /\ truthBefore \in Truth
  BY DEF GoesOn, watchFlags, WatchReportOK, Snapshot
<1>2. /\ TimeFits(sample.time, truth) => TimeFits(sample.time, truth)'
      /\ TimeFits(sampleTime, truth) => TimeFits(sampleTime, truth)'
  BY <1>1 DEF GoesOn, TimeFits
<1>3. /\ Fits(sample, truth) => Fits(sample, truth)'
      /\ \A p \in Snapshot : Fits(p, truthBefore) => Fits(p, truthBefore)'
  BY <1>1, GoingOnFits DEF Fits, CountFits
<1>4. \A p \in Snapshot : StampInv(p) => StampInv(p)'
  BY <1>1 DEF StampInv
<1>5. (RatesExact' <=> RatesExact) /\ (Watching' <=> Watching)
  BY <1>1 DEF RatesExact, Watching
<1> QED
  BY <1>1, <1>2, <1>3, <1>4, <1>5 DEF RoundInv

\* The counters of the machine as numbers, which is all that is needed here.
LEMMA Numbers ==
  ASSUME WatchMachineOK
  PROVE  /\ clock \in Int /\ elapsedTime \in Int /\ sets \in Int
         /\ \A i \in Iface : counter[i] \in Int /\ ever[i] \in Int /\ births[i] \in Int
         /\ \A t \in Time : t \in Int
         /\ \A tr \in Truth : /\ tr.sets \in Int /\ tr.elapsed \in Int
                              /\ \A i \in Iface : tr.ever[i] \in Int /\ tr.births[i] \in Int
         /\ \A s \in Snapshot : /\ s.time \in Int /\ DOMAIN s.bytes \subseteq Iface
                                /\ \A i \in DOMAIN s.bytes : s.bytes[i] \in Int
<1>1. \A i \in Iface : counter[i] \in Int /\ ever[i] \in Int /\ births[i] \in Int
  BY WatchAssumption DEF WatchMachineOK, Total, Gone
<1>2. clock \in Int /\ elapsedTime \in Int /\ sets \in Int /\ \A t \in Time : t \in Int
  BY WatchAssumption DEF WatchMachineOK, Time
<1>3. ASSUME NEW tr \in Truth
      PROVE  /\ tr.sets \in Int /\ tr.elapsed \in Int
             /\ \A i \in Iface : tr.ever[i] \in Int /\ tr.births[i] \in Int
  BY <1>2, WatchAssumption DEF Truth, Total
<1>4. ASSUME NEW s \in Snapshot
      PROVE  /\ s.time \in Int /\ DOMAIN s.bytes \subseteq Iface
             /\ \A i \in DOMAIN s.bytes : s.bytes[i] \in Int
  <2>1. PICK I \in SUBSET Iface : s.bytes \in [I -> 0..MaxBytes]
    BY DEF Snapshot, Bytes
  <2> QED
    BY <1>2, <2>1 DEF Snapshot
<1> QED
  BY <1>1, <1>2, <1>3, <1>4

LEMMA SurroundingsGoOn ==
  WatchMachineOK /\ Surroundings => GoesOn \/ (Interrupt /\ watchPc' \in {"done", "raised"})
<1> SUFFICES ASSUME WatchMachineOK, Surroundings, ~Interrupt PROVE GoesOn
  BY DEF Interrupt
<1> USE Numbers
<1>1. UNCHANGED <<watchPc, watchFlags, sampleTime, sample, previous, truth, truthBefore>>
  BY DEF Surroundings, Outside, Receive, RemoveIface, MakeIface, TickTime, SetClock
<1>2. ASSUME NEW i \in Iface, Receive(i) PROVE GoesOn
  <2>1. /\ UNCHANGED <<clock, births, elapsedTime, sets>> /\ counter[i] # Gone
        /\ counter' = [counter EXCEPT ![i] = @ + 1] /\ ever' = [ever EXCEPT ![i] = @ + 1]
    BY <1>2 DEF Receive
  <2>2. \A j \in Iface : /\ counter'[j] # Gone => counter[j] # Gone
                         /\ counter'[j] - counter[j] = ever'[j] - ever[j]
    BY <2>1 DEF WatchMachineOK, Total, Gone
  <2>3. \A j \in Iface : counter'[j] \in Int /\ ever'[j] \in Int
    BY <2>1 DEF WatchMachineOK, Total
  <2>4. ASSUME NEW tr \in Truth, NEW s \in Snapshot, NEW j \in DOMAIN s.bytes, CountFits(s, tr, j)
        PROVE  CountFits(s, tr, j)'
    <3>1. j \in Iface /\ s.bytes[j] \in Int
      OBVIOUS
    <3>2. CASE tr.births[j] = births[j] /\ counter'[j] # Gone
      <4>1. counter[j] - s.bytes[j] = ever[j] - tr.ever[j]
        BY <2>2, <2>4, <3>1, <3>2 DEF CountFits
      <4>2. counter'[j] - s.bytes[j] = ever'[j] - tr.ever[j]
        BY <2>2, <2>3, <3>1, <4>1
      <4> QED
        BY <2>1, <2>4, <4>2 DEF CountFits
    <3>3. CASE ~(tr.births[j] = births[j] /\ counter'[j] # Gone)
      BY <2>1, <2>4, <3>3 DEF CountFits
    <3> QED
      BY <3>2, <3>3
  <2> QED
    BY <1>1, <2>1, <2>4 DEF GoesOn, TimeFits
<1>3. ASSUME NEW i \in Iface, RemoveIface(i) PROVE GoesOn
  <2>1. \A j \in Iface : counter'[j] # Gone => counter[j] = counter'[j]
    BY <1>3 DEF RemoveIface, WatchMachineOK
  <2> QED
    BY <1>1, <1>3, <2>1 DEF RemoveIface, GoesOn, TimeFits, CountFits
<1>4. ASSUME NEW i \in Iface, MakeIface(i) PROVE GoesOn
  <2>1. \A j \in Iface : \/ births'[j] = births[j] /\ counter'[j] = counter[j]
                         \/ births'[j] = births[j] + 1
    BY <1>4 DEF MakeIface, WatchMachineOK
  <2> QED
    BY <1>1, <1>4, <2>1 DEF MakeIface, GoesOn, TimeFits, CountFits
<1>5. CASE TickTime
  BY <1>1, <1>5 DEF TickTime, GoesOn, TimeFits, CountFits
<1>6. ASSUME NEW t \in Time, SetClock(t) PROVE GoesOn
  BY <1>1, <1>6 DEF SetClock, GoesOn, TimeFits, CountFits
<1> QED
  BY <1>2, <1>3, <1>4, <1>5, <1>6 DEF Surroundings

LEMMA StampKeeps ==
  WatchMachineOK /\ WatchReportOK /\ RoundInv /\ StampRound => RoundInv'
<1> SUFFICES ASSUME WatchMachineOK, WatchReportOK, RoundInv, StampRound PROVE RoundInv'
  OBVIOUS
<1>1. /\ watchPc = "stamp" /\ watchPc' = "read" /\ sampleTime' = clock
      /\ truthBefore' = truth /\ truth'.sets = sets /\ truth'.elapsed = elapsedTime
      /\ UNCHANGED <<counter, clock, ever, births, elapsedTime, sets, sample, previous>>
  BY DEF StampRound, Now, watchMachine
<1>2. TimeFits(sampleTime, truth)'
  BY <1>1, Numbers DEF TimeFits
<1>3. CASE previous = {} /\ truth.listed = {}
  BY <1>1, <1>2, <1>3 DEF RoundInv, ShowingStages
<1>4. CASE previous = {sample} /\ Fits(sample, truth) /\ TimeFits(sample.time, truth)
  <2>1. PICK p \in Snapshot : p = sample
    BY DEF WatchReportOK
  <2>2. previous' = {p} /\ Fits(p, truthBefore)'
    BY <1>1, <1>4, <2>1 DEF Fits, CountFits
  <2>3. StampInv(p)'
    BY <1>1, <1>4, <2>1 DEF StampInv, TimeFits
  <2> QED
    BY <1>1, <1>2, <2>2, <2>3 DEF RoundInv, ShowingStages
<1> QED
  BY <1>1, <1>3, <1>4 DEF RoundInv

LEMMA ReadKeeps ==
  WatchMachineOK /\ WatchReportOK /\ RoundInv /\ ReadCounters => RoundInv'
<1> SUFFICES ASSUME WatchMachineOK, WatchReportOK, RoundInv, ReadCounters PROVE RoundInv'
  OBVIOUS
<1>1. /\ watchPc = "read" /\ watchPc' = "sockets"
      /\ UNCHANGED <<counter, clock, ever, births, elapsedTime, sets, truthBefore>>
  BY DEF ReadCounters, watchMachine
<1>2. PICK listed \in SUBSET Iface : \E b \in [listed -> 0..MaxBytes] :
           /\ \A i \in listed : counter[i] # Gone /\ b[i] = counter[i]
           /\ sample' \in Snapshot /\ sample'.time = sampleTime /\ sample'.bytes = b
           /\ previous = {} => sample'.rates = Nobody
           /\ \A p : previous = {p} => sample'.rates = Rates(b, sampleTime, p)
           /\ truth' \in Truth /\ truth'.elapsed = truth.elapsed /\ truth'.sets = truth.sets
           /\ truth'.ever = ever /\ truth'.births = births /\ truth'.listed = listed
  BY SampleTaken
<1>3. PICK b \in [listed -> 0..MaxBytes] :
           /\ \A i \in listed : counter[i] # Gone /\ b[i] = counter[i]
           /\ sample' \in Snapshot /\ sample'.time = sampleTime /\ sample'.bytes = b
           /\ previous = {} => sample'.rates = Nobody
           /\ \A p : previous = {p} => sample'.rates = Rates(b, sampleTime, p)
           /\ truth' \in Truth /\ truth'.elapsed = truth.elapsed /\ truth'.sets = truth.sets
           /\ truth'.ever = ever /\ truth'.births = births /\ truth'.listed = listed
  BY <1>2
<1>4. TimeFits(sample.time, truth)'
  BY <1>1, <1>3 DEF RoundInv, TimeFits
<1>5. Fits(sample, truth)'
  <2>1. DOMAIN sample'.bytes = truth'.listed
    BY <1>3
  <2>2. \A i \in listed : CountFits(sample, truth, i)'
    BY <1>1, <1>3, Numbers DEF CountFits
  <2> QED
    BY <1>3, <2>1, <2>2 DEF Fits
<1>6. RatesExact'
  <2>1. CASE previous = {} /\ truthBefore.listed = {}
    <3>1. DOMAIN sample'.rates = {}
      BY <1>3, <2>1 DEF Nobody
    <3> QED
      BY <1>1, <2>1, <3>1 DEF RatesExact
  <2>2. ASSUME NEW p \in Snapshot, previous = {p}, Fits(p, truthBefore), StampInv(p)
        PROVE  RatesExact'
    <3>1. sample'.rates = Rates(b, sampleTime, p)
      BY <1>3, <2>2
    <3>2. DOMAIN sample'.rates = truth'.listed \cap truthBefore'.listed
      BY <1>1, <1>3, <2>2, <3>1 DEF Rates, Fits
    <3>3. ASSUME NEW i \in listed \cap truthBefore.listed
          PROVE  /\ truth'.births[i] = truthBefore.births[i] =>
                      sample'.rates[i].bytes = truth'.ever[i] - truthBefore.ever[i]
                 /\ truth'.sets = truthBefore.sets =>
                      sample'.rates[i].elapsed = truth'.elapsed - truthBefore.elapsed
      <4>1. sample'.rates[i] = [bytes |-> b[i] - p.bytes[i], elapsed |-> Elapsed(sampleTime, p)]
        BY <2>2, <3>1, <3>3 DEF Rates, Fits
      <4>2. truth'.births[i] = truthBefore.births[i] =>
              b[i] - p.bytes[i] = truth'.ever[i] - truthBefore.ever[i]
        BY <1>3, <2>2, <3>3 DEF Fits, CountFits
      <4>3. truth.sets = truthBefore.sets =>
              Elapsed(sampleTime, p) = truth.elapsed - truthBefore.elapsed
        <5>1. /\ sampleTime \in Int /\ p.time \in Int
              /\ truth.elapsed \in Int /\ truthBefore.elapsed \in Int
          BY Numbers DEF WatchReportOK
        <5> QED
          BY <2>2, <5>1 DEF StampInv, Elapsed, Least
      <4> QED
        BY <1>3, <4>1, <4>2, <4>3
    <3> QED
      BY <1>1, <1>3, <3>2, <3>3 DEF RatesExact
  <2> QED
    BY <1>1, <2>1, <2>2 DEF RoundInv
<1> QED
  BY <1>1, <1>4, <1>5, <1>6 DEF RoundInv, ShowingStages

\* The other steps of the program leave what was read alone.
LEMMA ShownKeeps ==
  ASSUME RoundInv, watchPc \in ShowingStages, watchPc' \in ShowingStages \cup {"stamp", "done"},
         UNCHANGED <<watchMachine, watchFlags, sampleTime, sample, truth, truthBefore>>,
         watchPc' \in {"clear", "sleep"} => Watching,
         watchPc' \in {"print", "sleep", "stamp"} /\ Watching => previous' = {sample},
         watchPc' = "stamp" => Watching
  PROVE  RoundInv'
<1>1. UNCHANGED <<counter, clock, ever, births, elapsedTime, sets, watchFlag, watchJson,
                  sampleTime, sample, truth, truthBefore>>
  BY DEF watchMachine, watchFlags
<1>2. /\ Fits(sample, truth)' /\ TimeFits(sample.time, truth)' /\ RatesExact
      /\ Watching' = Watching
  BY <1>1 DEF RoundInv, Fits, CountFits, TimeFits, Watching
<1>3. watchPc' \in ShowingStages => RatesExact'
  BY <1>1, <1>2 DEF RatesExact, ShowingStages
<1> QED
  BY <1>1, <1>2, <1>3 DEF RoundInv, ShowingStages

LEMMA RoundStep == WatchTypeOK /\ RoundInv /\ [WatchNext]_watchVars => RoundInv'
<1> SUFFICES ASSUME WatchMachineOK, WatchReportOK, RoundInv, [WatchNext]_watchVars PROVE RoundInv'
  BY DEF WatchTypeOK
<1>1. CASE StampRound
  BY <1>1, StampKeeps
<1>2. CASE ReadCounters
  BY <1>2, ReadKeeps
<1>3. CASE ReadSockets
  BY <1>3, ShownKeeps DEF ReadSockets, ShowingStages
<1>4. CASE Clear
  BY <1>4, ShownKeeps DEF Clear, Keep, ShowingStages
<1>5. CASE PrintNetwork
  BY <1>5, ShownKeeps DEF PrintNetwork, ShowingStages, RoundInv
<1>6. CASE WakeUp
  BY <1>6, ShownKeeps DEF WakeUp, ShowingStages, RoundInv
<1>7. CASE Surroundings
  <2>1. CASE GoesOn
    BY <2>1, GoingOnKeeps
  <2>2. CASE watchPc' \in {"done", "raised"}
    BY <2>2 DEF RoundInv, ShowingStages
  <2> QED
    BY <1>7, <2>1, <2>2, SurroundingsGoOn
<1>8. CASE UNCHANGED watchVars
  <2>1. GoesOn
    BY <1>8 DEF watchVars, watchMachine, GoesOn, TimeFits, CountFits
  <2> QED
    BY <2>1, GoingOnKeeps
<1> QED
  BY <1>1, <1>2, <1>3, <1>4, <1>5, <1>6, <1>7, <1>8 DEF WatchNext, WatchStep

\* network.py:186 and the loop of cli.py:258: each rate shown is that of the
\* interval since the sample shown before, whatever interfaces come and go.
THEOREM RatesAreExact == WatchSpec => []RatesExact
<1>1. WatchInit => RoundInv
  BY DEF WatchInit, RoundInv, ShowingStages, Now
<1>2. RoundInv => RatesExact
  BY DEF RoundInv, ShowingStages, RatesExact
<1> QED
  BY <1>1, <1>2, RoundStep, WatchTypeCorrect, PTL DEF WatchSpec
------------------------------------------------------------------------------
(***************************************************************************)
(* A traced command, for any set of tools that are looked for.             *)
(***************************************************************************)
LEMMA TraceTypeInit == TraceInit => TraceTypeOK
  BY DEF TraceInit, TraceTypeOK, TraceInputsOK, TraceStateOK, Modes, Code

LEMMA TraceTypeStep == TraceTypeOK /\ [TraceNext]_traceVars => TraceTypeOK'
<1> SUFFICES ASSUME TraceInputsOK, TraceStateOK, [TraceNext]_traceVars
             PROVE  TraceInputsOK' /\ TraceStateOK'
  BY DEF TraceTypeOK
<1>0. UNCHANGED traceInputs => TraceInputsOK'
  BY DEF TraceInputsOK, traceInputs
<1> USE <1>0 DEF TraceStateOK
<1>1. CASE Ready
  <2>1. traceAdvice' \in SUBSET Advices
    BY <1>1 DEF Ready
  <2> QED
    BY <1>1, <2>1 DEF Ready
<1>2. CASE StartTrace
  BY <1>2 DEF StartTrace, Code
<1>3. ASSUME NEW c \in Code, NEW k \in {"str", "bytes"}, NEW w \in BOOLEAN, RunCommand(c, k, w)
      PROVE  TraceInputsOK' /\ TraceStateOK'
  BY <1>3 DEF RunCommand
<1>4. CASE Collect
  BY <1>4 DEF Collect
<1>5. CASE RemoveFile
  BY <1>5 DEF RemoveFile
<1>6. CASE PrintTrace
  BY <1>6 DEF PrintTrace
<1>7. ASSUME NEW f \in {"empty", "full"}, SweepFile(f) PROVE TraceInputsOK' /\ TraceStateOK'
  BY <1>7 DEF SweepFile
<1>8. CASE UNCHANGED traceVars
  BY <1>8 DEF traceVars, traceInputs
<1> QED
  BY <1>1, <1>2, <1>3, <1>4, <1>5, <1>6, <1>7, <1>8 DEF TraceNext, TraceStep, TraceChange

\* Every variable keeps its type, however the command ends.
THEOREM TraceTypeCorrect == TraceSpec => []TraceTypeOK
  BY TraceTypeInit, TraceTypeStep, PTL DEF TraceSpec
------------------------------------------------------------------------------
(***************************************************************************)
(* The life of the file: it is there only between its making and its       *)
(* removal; its content is the trace, if there was one, unless others have *)
(* removed it; and once it is read, the lines are.                         *)
(***************************************************************************)
TraceFileInv ==
  /\ traceFile # "none" =>
       /\ traceMode = "strace"
       /\ tracePc \in {"run", "collect", "remove"} \/ refused \/ broken
  /\ tracePc \in {"start", "run"} => ~written /\ ~traceLines
  /\ tracePc = "start" => traceFile = "none"
  /\ tracePc = "run" /\ traceMode = "strace" => swept \/ traceFile = "empty"
  /\ tracePc = "collect" /\ traceMode = "strace" =>
       swept \/ traceFile = IF written THEN "full" ELSE "empty"
  /\ broken => tracePc = "raised"
LinesInv ==
  /\ tracePc = "remove" => traceMode = "strace"
  /\ tracePc \in {"remove", "print", "done"} /\ traceCommand =>
       \/ swept
       \/ traceMode = "strace" /\ (traceLines <=> written)
       \/ traceMode = "perf" /\ (written => traceLines)

LEMMA TraceFileStep == /\ TraceTypeOK /\ TraceFileInv /\ LinesInv /\ [TraceNext]_traceVars
                  => TraceFileInv' /\ LinesInv'
<1> SUFFICES ASSUME TraceTypeOK, TraceFileInv, LinesInv, [TraceNext]_traceVars
             PROVE  TraceFileInv' /\ LinesInv'
  OBVIOUS
<1> USE DEF TraceFileInv, LinesInv, traceInputs
<1>1. CASE Ready
  BY <1>1 DEF Ready
<1>2. CASE StartTrace
  BY <1>2 DEF StartTrace, TraceTypeOK, TraceInputsOK, Modes
<1>3. ASSUME NEW c \in Code, NEW k \in {"str", "bytes"}, NEW w \in BOOLEAN, RunCommand(c, k, w)
      PROVE  TraceFileInv' /\ LinesInv'
  BY <1>3 DEF RunCommand
<1>4. CASE Collect
  BY <1>4 DEF Collect
<1>5. CASE RemoveFile
  <2>1. traceFile' # "none" => traceFile # "none" /\ refused
    BY <1>5 DEF RemoveFile, Removes
  <2> QED
    BY <1>5, <2>1 DEF RemoveFile
<1>6. CASE PrintTrace
  BY <1>6 DEF PrintTrace
<1>7. ASSUME NEW f \in {"empty", "full"}, SweepFile(f) PROVE TraceFileInv' /\ LinesInv'
  BY <1>7 DEF SweepFile
<1>8. CASE UNCHANGED traceVars
  BY <1>8 DEF traceVars
<1> QED
  BY <1>1, <1>2, <1>3, <1>4, <1>5, <1>6, <1>7, <1>8 DEF TraceNext, TraceStep, TraceChange

\* Time-outs, kills and commands that cannot be started end in the same unlink
\* (trace.py:109): nothing stays in /tmp, and no trace that was written and
\* left alone is missing from the report.
THEOREM ReadThenRemoved == TraceSpec => []TraceReadThenRemoved
<1>1. TraceInit => TraceFileInv /\ LinesInv
  BY DEF TraceInit, TraceFileInv, LinesInv
<1>2. TraceFileInv /\ LinesInv => TraceReadThenRemoved
  BY DEF TraceFileInv, LinesInv, TraceReadThenRemoved
<1> QED
  BY <1>1, <1>2, TraceFileStep, TraceTypeCorrect, PTL DEF TraceSpec
------------------------------------------------------------------------------
(***************************************************************************)
(* The walk, for any tree of files, any budget and any number of changes   *)
(* beside it.                                                              *)
(***************************************************************************)
Base(n) == SubSeq(n, 1, 1)

LEMMA PathIsSeq == \A n \in Node : n \in Seq(STRING) /\ Len(n) \in Nat \ {0}
  BY SecurityAssumption, EmptySeq

LEMMA Prefix ==
  ASSUME NEW n \in Node, NEW k \in 1..Len(n)
  PROVE  /\ SubSeq(n, 1, k) \in Node /\ Len(SubSeq(n, 1, k)) = k
         /\ k < Len(n) => SubSeq(n, 1, k) \in Dir
         /\ SubSeq(n, 1, Len(n)) = n
         /\ \A j \in 1..k : SubSeq(SubSeq(n, 1, k), 1, j) = SubSeq(n, 1, j)
<1>1. n \in Seq(STRING) /\ Len(n) \in Nat \ {0}
  BY PathIsSeq
<1>2. SubSeq(n, 1, Len(n)) = n
  BY <1>1, SubSeqFull
<1>3. k < Len(n) => SubSeq(n, 1, k) \in Dir
  BY <1>1, SecurityAssumption
<1>4. \A i \in 1..k : n[i] \in STRING
  BY <1>1, ElementOfSeq
<1>5. SubSeq(n, 1, k) \in Seq(STRING) /\ Len(SubSeq(n, 1, k)) = k
  BY <1>1, <1>4, SubSeqProperties
<1>6. \A j \in 1..k : SubSeq(SubSeq(n, 1, k), 1, j) = SubSeq(n, 1, j)
  <2> TAKE j \in 1..k
  <2> DEFINE i == 1
  <2> HIDE DEF i
  <2>1. i = 1
    BY DEF i
  <2>2. i \in 1..Len(n) /\ k \in 1..Len(n) /\ i \in 1..(k - i + 1) /\ j \in 1..(k - i + 1)
    BY <1>1, <2>1
  <2>3. SubSeq(SubSeq(n, i, k), i, j) = SubSeq(n, i + i - 1, i + j - 1)
    BY <1>1, <2>2, SubSeqOfSubSeq
  <2> QED
    BY <2>1, <2>3
<1>7. SubSeq(n, 1, k) \in Node
  <2>1. CASE k < Len(n)
    BY <1>3, <2>1 DEF Dir
  <2>2. CASE k = Len(n)
    BY <1>2, <2>2
  <2> QED
    BY <1>1, <2>1, <2>2
<1> QED
  BY <1>2, <1>3, <1>5, <1>6, <1>7

\* What the nodes above a node are: a chain of directories down from its base.
LEMMA AboveFacts ==
  ASSUME NEW n \in Node
  PROVE  /\ n \in Above(n) /\ Above(n) \subseteq Node
         /\ \A d \in Above(n) : Above(d) \subseteq Above(n) /\ Base(d) = Base(n)
         /\ \A d \in Above(n) : d # n => d \in Dir /\ n \notin Above(d)
         /\ \A d, e \in Above(n) : d \in Above(e) \/ e \in Above(d)
         /\ \A d \in Above(n) : d # n => \E c \in Above(n) : c \in Children(d)
<1>1. Len(n) \in Nat \ {0}
  BY PathIsSeq
<1>2. \A d \in Above(n) : \E k \in 1..Len(n) : d = SubSeq(n, 1, k)
  BY DEF Above
<1>3. SubSeq(n, 1, Len(n)) = n
  BY <1>1, Prefix
<1>4. \A k \in 1..Len(n) : \A j \in 1..k :
        SubSeq(n, 1, j) \in Above(SubSeq(n, 1, k))
  BY <1>1, Prefix DEF Above
<1>5. \A d \in Above(n) : /\ d \in Node
                          /\ d # n => d \in Dir /\ Len(d) < Len(n)
  <2> SUFFICES ASSUME NEW d \in Above(n)
               PROVE  d \in Node /\ (d # n => d \in Dir /\ Len(d) < Len(n))
    OBVIOUS
  <2>1. PICK k \in 1..Len(n) : d = SubSeq(n, 1, k)
    BY <1>2
  <2>2. d \in Node /\ Len(d) = k /\ (k < Len(n) => d \in Dir)
    BY <2>1, Prefix
  <2>3. k = Len(n) => d = n
    BY <1>3, <2>1
  <2> QED
    BY <1>1, <2>2, <2>3
<1>6. \A d \in Above(n) : Above(d) \subseteq Above(n) /\ Base(d) = Base(n)
  <2> SUFFICES ASSUME NEW d \in Above(n) PROVE Above(d) \subseteq Above(n) /\ Base(d) = Base(n)
    OBVIOUS
  <2>0. PICK k \in 1..Len(n) : d = SubSeq(n, 1, k)
    BY <1>2
  <2>1. Len(d) = k /\ \A j \in 1..k : SubSeq(d, 1, j) = SubSeq(n, 1, j)
    BY <2>0, Prefix
  <2> QED
    BY <1>1, <2>1 DEF Above, Base
<1>7. n \in Above(n) /\ Above(n) \subseteq Node
  <2>1. Len(n) \in 1..Len(n)
    BY <1>1
  <2>2. n \in Above(n)
    BY <1>3, <2>1 DEF Above
  <2> QED
    BY <1>5, <2>2
<1>8. \A d, e \in Above(n) : d \in Above(e) \/ e \in Above(d)
  <2> TAKE d, e \in Above(n)
  <2>1. PICK j \in 1..Len(n) : d = SubSeq(n, 1, j)
    BY <1>2
  <2>2. PICK k \in 1..Len(n) : e = SubSeq(n, 1, k)
    BY <1>2
  <2>3. j \in 1..k \/ k \in 1..j
    BY <1>1
  <2> QED
    BY <1>4, <2>1, <2>2, <2>3
<1>9. \A d \in Above(n) : d # n => \E c \in Above(n) : c \in Children(d)
  <2> SUFFICES ASSUME NEW d \in Above(n), d # n PROVE \E c \in Above(n) : c \in Children(d)
    OBVIOUS
  <2>1. PICK k \in 1..Len(n) : d = SubSeq(n, 1, k)
    BY <1>2
  <2>2. k # Len(n)
    BY <1>3, <2>1
  <2>6. k + 1 \in 1..Len(n) /\ k \in 1..(k + 1)
    BY <1>1, <2>2
  <2> DEFINE c == SubSeq(n, 1, k + 1)
  <2>3. /\ c \in Node /\ Len(c) = k + 1
        /\ SubSeq(c, 1, k) = SubSeq(n, 1, k)
    BY <2>6, Prefix
  <2>4. c \in Above(n)
    BY <2>6 DEF Above
  <2> HIDE DEF c
  <2>5. Front(c) = d /\ Len(c) > 1
    BY <2>1, <2>3, <2>6 DEF Front
  <2> QED
    BY <2>3, <2>4, <2>5 DEF Children
<1>10. \A d \in Above(n) : d # n => n \notin Above(d)
  <2> SUFFICES ASSUME NEW d \in Above(n), d # n, n \in Above(d) PROVE FALSE
    OBVIOUS
  <2>1. d \in Node /\ Len(d) < Len(n)
    BY <1>5, <1>7
  <2>2. PICK k \in 1..Len(d) : n = SubSeq(d, 1, k)
    BY DEF Above
  <2>3. Len(n) = k
    BY <2>1, <2>2, Prefix
  <2> QED
    BY <1>1, <2>1, <2>2, <2>3, PathIsSeq
<1> QED
  BY <1>5, <1>6, <1>7, <1>8, <1>9, <1>10

LEMMA ChildFacts ==
  ASSUME NEW d \in Node, NEW c \in Children(d)
  PROVE  /\ c \in Node /\ Len(c) > 1 /\ c # d /\ d \in Above(c) /\ d \in Dir
         /\ Above(c) = Above(d) \cup {c} /\ Base(c) = Base(d)
<1>1. c \in Node /\ Len(c) \in Nat /\ Len(c) > 1 /\ Front(c) = d
  BY PathIsSeq DEF Children
<1>2. d = SubSeq(c, 1, Len(c) - 1) /\ Len(c) - 1 \in 1..Len(c)
  BY <1>1 DEF Front
<1>3. /\ Len(d) = Len(c) - 1 /\ d \in Dir /\ SubSeq(c, 1, Len(c)) = c
      /\ \A j \in 1..(Len(c) - 1) : SubSeq(d, 1, j) = SubSeq(c, 1, j)
  BY <1>1, <1>2, Prefix
<1>4. d \in Above(c)
  BY <1>2 DEF Above
<1>5. Above(c) = Above(d) \cup {c}
  <2>1. 1..Len(c) = 1..(Len(c) - 1) \cup {Len(c)}
    BY <1>1
  <2> QED
    BY <1>1, <1>3, <2>1 DEF Above
<1>6. Base(c) = Base(d)
  BY <1>1, <1>4, AboveFacts
<1> QED
  BY <1>1, <1>3, <1>4, <1>5, <1>6

LEMMA BaseFacts ==
  ASSUME NEW n \in Node
  PROVE  /\ Base(n) \in Above(n) /\ Base(n) \in ToSet(CriticalPath)
         /\ Base(n) # n <=> Len(n) > 1
         /\ Len(n) = 1 => Above(n) = {n} /\ Base(n) = n
<1>1. Len(n) \in Nat \ {0} /\ 1 \in 1..Len(n)
  BY PathIsSeq
<1>2. Base(n) \in Node /\ Len(Base(n)) = 1 /\ Base(n) \in Above(n)
  BY <1>1, Prefix DEF Base, Above
<1>3. Base(n) \in ToSet(CriticalPath)
  BY <1>2, SecurityAssumption
<1>4. Len(n) = 1 => Above(n) = {n} /\ Base(n) = n
  <2> SUFFICES ASSUME Len(n) = 1 PROVE Above(n) = {n} /\ Base(n) = n
    OBVIOUS
  <2>1. SubSeq(n, 1, 1) = n
    BY <1>1, Prefix
  <2>2. 1..Len(n) = {1}
    OBVIOUS
  <2> QED
    BY <2>1, <2>2 DEF Above, Base
<1>5. Base(n) # n <=> Len(n) > 1
  <2>1. Base(n) = n => Len(n) = 1
    BY <1>2
  <2>2. \A k \in Nat \ {0} : k > 1 <=> k # 1
    OBVIOUS
  <2>3. Len(n) > 1 <=> Len(n) # 1
    BY <1>1, <2>2
  <2> QED
    BY <1>4, <2>1, <2>3
<1> QED
  BY <1>2, <1>3, <1>4, <1>5

------------------------------------------------------------------------------
LEMMA MatchOK == ASSUME NEW n \in Node, SecurityTypeOK, Match(n) PROVE paths' \in Seq(Node)
  BY DEF Reachable, Match, SecurityTypeOK

LEMMA SecurityInitOK == SecurityInit => SecurityTypeOK
<1> SUFFICES ASSUME SecurityInit PROVE SecurityTypeOK
  OBVIOUS
<1>1. 0 \in 0..MaxNodeChanges /\ CriticalPath \in Seq(Dir)
  BY SecurityAssumption
<1> QED
  BY <1>1 DEF SecurityInit, SecurityTypeOK

LEMMA SecurityStepOK == SecurityTypeOK /\ [SecurityNext]_securityVars => SecurityTypeOK'
<1> SUFFICES ASSUME SecurityTypeOK, [SecurityNext]_securityVars PROVE SecurityTypeOK'
  OBVIOUS
<1> USE DEF SecurityTypeOK, nodeVars
<1>1. CASE CollectSignals
  BY <1>1 DEF CollectSignals, SignalsOf
<1>2. CASE CollectFindings
  BY <1>2 DEF CollectFindings
<1>3. CASE NextBase
  <2>1. Head(bases) \in Dir /\ Tail(bases) \in Seq(Dir)
    BY <1>3, HeadTailProperties DEF NextBase
  <2> QED
    BY <1>3, <2>1 DEF NextBase, Rest
<1>4. CASE LstatCurrent
  <2>1. current \in Node /\ paths' \in Seq(Node)
    BY <1>4, MatchOK DEF LstatCurrent, Dir
  <2> QED
    BY <1>4, <2>1 DEF LstatCurrent
<1>5. CASE EndBase
  BY <1>5 DEF EndBase
<1>6. CASE EndScan
  BY <1>6 DEF EndScan
<1>7. ASSUME NEW n \in Node, EnterDir(n) PROVE SecurityTypeOK'
  BY <1>7 DEF EnterDir, Deepest, Children
<1>8. ASSUME NEW n \in Node, LstatName(n) PROVE SecurityTypeOK'
  <2>1. paths' \in Seq(Node)
    BY <1>8, MatchOK DEF LstatName
  <2> QED
    BY <1>8, <2>1 DEF LstatName
<1>9. ASSUME NEW n \in Node, Chmod(n) \/ MakeNode(n) \/ RemoveNode(n) PROVE SecurityTypeOK'
  <2>1. nodeChanges' \in 0..MaxNodeChanges
    BY <1>9, SecurityAssumption DEF Chmod, MakeNode, RemoveNode, Change
  <2> QED
    BY <1>9, <2>1 DEF Chmod, MakeNode, RemoveNode, Change
<1>10. CASE UNCHANGED securityVars
  BY <1>10 DEF securityVars
<1> QED
  BY <1>1, <1>2, <1>3, <1>4, <1>5, <1>6, <1>7, <1>8, <1>9, <1>10
     DEF SecurityNext, SecurityStep, SecurityChange

\* Every variable of the report on security keeps its type.
THEOREM SecurityTypeCorrect == SecuritySpec => []SecurityTypeOK
  BY SecurityInitOK, SecurityStepOK, PTL DEF SecuritySpec
------------------------------------------------------------------------------
(***************************************************************************)
(* The walk.  The directories to come are never below one another, and     *)
(* nothing below them has been looked at; so of each node that nobody      *)
(* touches it is known how many of its visits are still to come, and those *)
(* and the matches there are make up what is due.                          *)
(***************************************************************************)
Untouched(n) == Above(n) \cap touchedNodes = {}
Listable(n) == \A d \in Above(n) : d # n => MayList(d)
Reached == {n \in Node : n \in dirs \/ n \in names \/ n = current}

\* Not discovered yet: its base is still to be walked, or a directory above it.
Ahead(n) == Base(n) \in ToSet(bases) \/ \E d \in Above(n) : d # n /\ d \in dirs
NameLeft(n) == IF Base(n) # n /\ (Ahead(n) \/ n \in names) THEN 1 ELSE 0
ListLeft(n) == IF n \in Dir /\ MayList(n) /\ (Ahead(n) \/ n \in dirs \/ n = current) THEN 1 ELSE 0
Left(n) == IF n \notin writable \/ KindOf[n] = "link" \/ ~Reachable(n) \/ ~Listable(n) THEN 0
           ELSE NameLeft(n) + ListLeft(n)

StageInv ==
  /\ ToSet(bases) \subseteq ToSet(CriticalPath)
  /\ \A i, j \in DOMAIN bases : bases[i] = bases[j] => i = j
  /\ securityPc # "walk" => dirs = {} /\ names = {} /\ current = <<>>
  /\ securityPc = "done" => Full \/ bases = <<>>
  /\ securityPc \in {"signals", "findings"} => paths = <<>>
BudgetInv == Len(paths) <= MaxWorldWritable /\ (current # <<>> => ~Full)
FrontierInv ==
  /\ \A d, e \in dirs : d \in Above(e) => d = e
  /\ \A n \in Reached : Base(n) \notin ToSet(bases)
  /\ \A n \in names : Base(n) # n /\ \A d \in Above(n) : d # n => d \notin dirs
  /\ current # <<>> => Above(current) \cap dirs = {}
  /\ \A n \in Reached : Untouched(n) => Listable(n)
  /\ current # <<>> /\ Untouched(current) => MayList(current)
Counted(n) == Untouched(n) => /\ Times(n) + Left(n) <= Due(n)
                              /\ ~Full => Times(n) + Left(n) = Due(n)
CountInv == \A n \in Node : Counted(n)

LEMMA DueIs ==
  ASSUME NEW n \in Node
  PROVE  Due(n) = IF n \notin writable \/ KindOf[n] = "link" \/ ~Reachable(n) \/ ~Listable(n) THEN 0
                  ELSE (IF Base(n) # n THEN 1 ELSE 0) + (IF n \in Dir /\ MayList(n) THEN 1 ELSE 0)
<1>1. Base(n) # n <=> Len(n) > 1
  BY BaseFacts
<1>2. Listable(n) <=> ~\E d \in Above(n) \ {n} : ~MayList(d)
  BY DEF Listable
<1> QED
  BY <1>1, <1>2 DEF Reachable, Due

LEMMA TimesOK ==
  ASSUME SecurityTypeOK, NEW n \in Node
  PROVE  /\ Times(n) \in Nat /\ Len(paths) \in Nat
         /\ DOMAIN paths = 1..Len(paths) /\ IsFiniteSet({i \in DOMAIN paths : paths[i] = n})
<1>1. Len(paths) \in Nat /\ DOMAIN paths = 1..Len(paths)
  BY LenProperties DEF SecurityTypeOK
<1>2. IsFiniteSet(1..Len(paths))
  BY <1>1, FS_Interval
<1>3. IsFiniteSet({i \in DOMAIN paths : paths[i] = n})
  BY <1>1, <1>2, FS_Subset
<1> QED
  BY <1>1, <1>3, FS_CardinalityType DEF Times

LEMMA MatchCounts ==
  ASSUME SecurityTypeOK, NEW n \in Node, Match(n)
  PROVE  /\ \A m \in Node : Times(m)' = Times(m) + IF m = n /\ Matches(n) THEN 1 ELSE 0
         /\ Len(paths') \in {Len(paths), Len(paths) + 1}
<1>0. n \in writable => n \in present
  BY DEF SecurityTypeOK
<1>1. CASE ~Matches(n)
  <2>1. paths' = paths
    BY <1>1 DEF Reachable, Match
  <2> QED
    BY <1>1, <2>1, TimesOK DEF Times
<1>2. CASE Matches(n)
  <2>1. paths' = Append(paths, n) /\ paths \in Seq(Node)
    BY <1>0, <1>2 DEF Reachable, Match, Matches, SecurityTypeOK
  <2>2. /\ Len(paths') = Len(paths) + 1 /\ DOMAIN paths' = 1..(Len(paths) + 1)
        /\ \A i \in 1..Len(paths) : paths'[i] = paths[i]
        /\ paths'[Len(paths) + 1] = n
    BY <2>1, AppendProperties, LenProperties
  <2>3. ASSUME NEW m \in Node PROVE Times(m)' = Times(m) + IF m = n THEN 1 ELSE 0
    <3> DEFINE old == {i \in DOMAIN paths : paths[i] = m}
               new == {i \in DOMAIN paths' : paths'[i] = m}
    <3>1. /\ Len(paths) \in Nat /\ DOMAIN paths = 1..Len(paths) /\ IsFiniteSet(old)
          /\ Len(paths) + 1 \notin old
      BY TimesOK
    <3>2. new = IF m = n THEN old \cup {Len(paths) + 1} ELSE old
      BY <2>2, <3>1
    <3>3. Cardinality(old \cup {Len(paths) + 1}) = Cardinality(old) + 1
      BY <3>1, FS_AddElement
    <3>4. Cardinality(old) \in Nat
      BY <3>1, FS_CardinalityType
    <3>5. Times(m) = Cardinality(old) /\ Times(m)' = Cardinality(new)
      BY DEF Times
    <3> HIDE DEF old, new
    <3> QED
      BY <3>2, <3>3, <3>4, <3>5
  <2> QED
    BY <1>2, <2>2, <2>3
<1> QED
  BY <1>1, <1>2

\* What the walk can tell of a node depends on the nodes above it alone.
LEMMA SeenSame ==
  ASSUME NEW n \in Node, UNCHANGED <<closed, barred, host>>,
         \A d \in Above(n) : /\ d \in present' <=> d \in present
                             /\ d \in writable' <=> d \in writable
  PROVE  /\ \A d \in Above(n) : MayList(d)' <=> MayList(d)
         /\ Listable(n)' <=> Listable(n)
         /\ Reachable(n)' <=> Reachable(n)
         /\ n \in writable' <=> n \in writable
         /\ Due(n)' = Due(n)
<1>1. n \in Above(n)
  BY AboveFacts
<1>2. \A d \in Above(n) : MayList(d)' <=> MayList(d)
  BY DEF Reachable, MayList
<1>3. (\E d \in Above(n) \ {n} : ~MayList(d))' <=> \E d \in Above(n) \ {n} : ~MayList(d)
  BY <1>2
<1>4. n \in writable' <=> n \in writable
  BY <1>1
<1>5. Due(n)' = Due(n)
  BY <1>1, <1>2, <1>3, <1>4 DEF Reachable, Due
<1>6. Listable(n)' <=> Listable(n)
  BY <1>2 DEF Listable
<1>7. Reachable(n)' <=> Reachable(n)
  BY DEF Reachable
<1> QED
  BY <1>2, <1>4, <1>5, <1>6, <1>7

LEMMA LeftOK == \A n \in Node : Left(n) \in Nat
  BY DEF Reachable, Left, NameLeft, ListLeft

LEMMA DueOK == \A n \in Node : Due(n) \in Nat
  BY DEF Reachable, Due

LEMMA NotNode == <<>> \notin Node
  BY SecurityAssumption

\* A step of others is a step beside every node it does not touch.
LEMMA ChangeKeeps ==
  ASSUME SecurityTypeOK, StageInv, BudgetInv, FrontierInv, CountInv,
         NEW m \in Node, Chmod(m) \/ MakeNode(m) \/ RemoveNode(m)
  PROVE  (StageInv /\ BudgetInv /\ FrontierInv /\ CountInv)'
<1>1. /\ securityPc \in {"bases", "walk"} /\ touchedNodes' = touchedNodes \cup {m}
      /\ UNCHANGED <<closed, barred, host, securityPc, bases, dirs, current, names, paths>>
      /\ \A d \in Node \ {m} : /\ d \in present' <=> d \in present
                               /\ d \in writable' <=> d \in writable
  BY DEF Chmod, MakeNode, RemoveNode, Change, securityInputs
<1>2. StageInv' /\ BudgetInv'
  BY <1>1 DEF StageInv, BudgetInv, Full
<1>3. ASSUME NEW n \in Node, Untouched(n)'
      PROVE  /\ Untouched(n) /\ Due(n)' = Due(n) /\ Left(n)' = Left(n) /\ Times(n)' = Times(n)
             /\ Listable(n)' <=> Listable(n)
             /\ MayList(n)' <=> MayList(n)
  <2>1. Untouched(n) /\ m \notin Above(n) /\ Above(n) \subseteq Node /\ n \in Above(n)
    BY <1>1, <1>3, AboveFacts DEF Untouched
  <2>2. /\ \A d \in Above(n) : MayList(d)' <=> MayList(d)
        /\ Listable(n)' <=> Listable(n)
        /\ Reachable(n)' <=> Reachable(n)
        /\ n \in writable' <=> n \in writable
        /\ Due(n)' = Due(n)
    BY <1>1, <2>1, SeenSame
  <2>3. Ahead(n)' <=> Ahead(n)
    BY <1>1 DEF Ahead
  <2>4. Left(n)' = Left(n)
    BY <1>1, <2>1, <2>2, <2>3 DEF Reachable, Left, NameLeft, ListLeft
  <2> QED
    BY <1>1, <2>1, <2>2, <2>4 DEF Times
<1>4. CountInv'
  BY <1>1, <1>3 DEF CountInv, Counted, Full
<1>5. FrontierInv'
  <2>1. Reached' = Reached /\ Reached \subseteq Node
    BY <1>1 DEF Reached
  <2>2. current # <<>> => current \in Node
    BY DEF SecurityTypeOK, Dir
  <2> QED
    BY <1>1, <1>3, <2>1, <2>2 DEF FrontierInv
<1> QED
  BY <1>2, <1>4, <1>5

LEMMA TailFacts ==
  ASSUME NEW S, NEW s \in Seq(S), s # <<>>,
         \A i, j \in DOMAIN s : s[i] = s[j] => i = j
  PROVE  /\ ToSet(s) = ToSet(Tail(s)) \cup {Head(s)} /\ Head(s) \notin ToSet(Tail(s))
         /\ Tail(s) \in Seq(S)
         /\ \A i, j \in DOMAIN Tail(s) : Tail(s)[i] = Tail(s)[j] => i = j
<1>1. /\ Len(s) \in Nat \ {0} /\ DOMAIN s = 1..Len(s) /\ Head(s) = s[1]
      /\ Tail(s) \in Seq(S) /\ Len(Tail(s)) = Len(s) - 1 /\ DOMAIN Tail(s) = 1..(Len(s) - 1)
      /\ \A i \in 1..(Len(s) - 1) : Tail(s)[i] = s[i + 1]
  BY EmptySeq, HeadTailProperties, LenProperties
<1>2. \A i \in 1..Len(s) : i = 1 \/ i - 1 \in 1..(Len(s) - 1)
  BY <1>1
<1>3. \A i \in 1..(Len(s) - 1) : i + 1 \in 1..Len(s) /\ i + 1 # 1
  BY <1>1
<1>4. ToSet(s) \subseteq ToSet(Tail(s)) \cup {Head(s)}
  <2> SUFFICES ASSUME NEW i \in 1..Len(s), i # 1 PROVE s[i] \in ToSet(Tail(s))
    BY <1>1 DEF ToSet
  <2>1. i - 1 \in 1..(Len(s) - 1) /\ Tail(s)[i - 1] = s[i]
    BY <1>1, <1>2
  <2> QED
    BY <1>1, <2>1 DEF ToSet
<1>5. Head(s) \in ToSet(s) /\ ToSet(Tail(s)) \subseteq ToSet(s)
  BY <1>1, <1>3 DEF ToSet
<1>6. Head(s) \notin ToSet(Tail(s))
  <2> SUFFICES ASSUME NEW i \in 1..(Len(s) - 1), Tail(s)[i] = Head(s) PROVE FALSE
    BY <1>1 DEF ToSet
  <2> QED
    BY <1>1, <1>3
<1>7. ASSUME NEW i \in 1..(Len(s) - 1), NEW j \in 1..(Len(s) - 1), Tail(s)[i] = Tail(s)[j]
      PROVE  i = j
  <2>1. s[i + 1] = s[j + 1] /\ i + 1 \in 1..Len(s) /\ j + 1 \in 1..Len(s)
    BY <1>1, <1>3, <1>7
  <2>2. i + 1 = j + 1
    BY <1>1, <2>1
  <2> QED
    BY <2>2
<1> QED
  BY <1>1, <1>4, <1>5, <1>6, <1>7

WalkInv == StageInv /\ BudgetInv /\ FrontierInv /\ CountInv

LEMMA NextBaseKeeps ==
  ASSUME SecurityTypeOK, WalkInv, NextBase
  PROVE  WalkInv'
<1> DEFINE b == Head(bases)
<1>1. /\ bases \in Seq(Dir) /\ bases # <<>> /\ bases' = Tail(bases) /\ dirs' = {b} \cap present
      /\ dirs = {} /\ names = {} /\ current = <<>> /\ ~Full
      /\ UNCHANGED <<present, writable, closed, barred, host, touchedNodes, current, names, paths>>
      /\ securityPc' \in {"bases", "walk"} /\ (securityPc' = "bases" => dirs' = {})
      /\ \A i, j \in DOMAIN bases : bases[i] = bases[j] => i = j
      /\ ToSet(bases) \subseteq ToSet(CriticalPath)
  BY DEF SecurityTypeOK, WalkInv, StageInv, NextBase, Rest, nodeVars, securityInputs
<1>2. /\ ToSet(bases) = ToSet(bases') \cup {b} /\ b \notin ToSet(bases')
      /\ \A i, j \in DOMAIN bases' : bases'[i] = bases'[j] => i = j
  BY <1>1, TailFacts
<1>3. b \in Node /\ Len(b) = 1
  BY <1>1, <1>2, SecurityAssumption
<1>4. Above(b) = {b} /\ Base(b) = b
  BY <1>3, BaseFacts
<1> HIDE DEF b
<1>5. StageInv' /\ BudgetInv'
  BY <1>1, <1>2 DEF WalkInv, StageInv, BudgetInv, Full
<1>6. FrontierInv'
  <2>1. Reached' \subseteq {b}
    BY <1>1, NotNode DEF Reached
  <2> QED
    BY <1>1, <1>2, <1>4, <2>1 DEF FrontierInv, Listable
<1>7. ASSUME NEW n \in Node PROVE Left(n)' = Left(n) /\ Due(n)' = Due(n)
  <2>1. n # <<>> /\ n \in Above(n)
    BY NotNode, AboveFacts
  <2>2. /\ \A d \in Above(n) : MayList(d)' <=> MayList(d)
        /\ Listable(n)' <=> Listable(n)
        /\ Reachable(n)' <=> Reachable(n)
        /\ n \in writable' <=> n \in writable
        /\ Due(n)' = Due(n)
    BY <1>1, SeenSame
  <2>3. CASE Base(n) # b
    <3>1. b \notin Above(n)
      BY <1>4, <2>3, AboveFacts
    <3>2. Ahead(n)' <=> Ahead(n)
      BY <1>1, <1>2, <2>3, <3>1 DEF Ahead
    <3> QED
      BY <1>1, <2>1, <2>2, <3>1, <3>2 DEF Left, NameLeft, ListLeft
  <2>4. CASE Base(n) = b /\ n = b
    <3>1. Base(n) = n /\ Ahead(n)
      BY <1>2, <2>4 DEF Ahead
    <3>2. MayList(n) => n \in dirs'
      BY <1>1, <2>4 DEF Reachable, MayList
    <3> QED
      BY <2>1, <2>2, <3>1, <3>2 DEF Left, NameLeft, ListLeft
  <2>5. CASE Base(n) = b /\ n # b
    <3>1. b \in Above(n) /\ Ahead(n)
      BY <1>2, <2>5, BaseFacts DEF Ahead
    <3>2. Listable(n) => MayList(b)
      BY <2>5, <3>1 DEF Listable
    <3>3. Listable(n) => Ahead(n)'
      BY <1>1, <2>5, <3>1, <3>2 DEF Reachable, Ahead, MayList
    <3> QED
      BY <2>1, <2>2, <3>1, <3>3 DEF Left, NameLeft, ListLeft
  <2> QED
    BY <2>2, <2>3, <2>4, <2>5
<1>8. CountInv'
  BY <1>1, <1>7 DEF WalkInv, CountInv, Counted, Untouched, Times, Full
<1> QED
  BY <1>5, <1>6, <1>8 DEF WalkInv

LEMMA EnterKeeps ==
  ASSUME SecurityTypeOK, WalkInv, NEW d \in Node, EnterDir(d)
  PROVE  WalkInv'
<1> DEFINE found == IF MayList(d) THEN Children(d) \cap present ELSE {}
<1>1. /\ d \in dirs /\ dirs \subseteq Dir /\ names = {} /\ current = <<>> /\ ~Full
      /\ names' = found /\ dirs' = (dirs \ {d}) \cup (found \cap Dir)
      /\ current' = IF MayList(d) THEN d ELSE <<>>
      /\ UNCHANGED <<present, writable, closed, barred, host, touchedNodes, securityPc, bases, paths>>
      /\ securityPc = "walk"
  BY DEF SecurityTypeOK, EnterDir, Deepest, nodeVars, securityInputs
<1>2. /\ found \subseteq Children(d) \cap present /\ (found # {} => MayList(d))
      /\ MayList(d) => found = Children(d) \cap present
  OBVIOUS
<1> HIDE DEF found
<1>3. StageInv' /\ BudgetInv'
  BY <1>1 DEF WalkInv, StageInv, BudgetInv, Full
<1>4. ASSUME NEW c \in found
      PROVE  /\ c \in Node /\ c # d /\ d \in Above(c) /\ Above(c) = Above(d) \cup {c}
             /\ Base(c) = Base(d) /\ Base(c) # c /\ c \notin Above(d)
  <2>1. c \in Node /\ Len(c) > 1 /\ c # d /\ d \in Above(c) /\ Above(c) = Above(d) \cup {c}
        /\ Base(c) = Base(d)
    BY <1>2, ChildFacts
  <2> QED
    BY <2>1, AboveFacts, BaseFacts
<1>5. /\ \A e, f \in dirs : e \in Above(f) => e = f
      /\ Base(d) \notin ToSet(bases)
      /\ Untouched(d) => Listable(d)
  BY <1>1 DEF WalkInv, FrontierInv, Reached
\* nothing to come lies above what was entered or found there
<1>6. \A e \in Above(d) : e \notin dirs'
  BY <1>1, <1>4, <1>5
<1>7. \A c \in found : \A e \in Above(c) : e # c => e \notin dirs'
  BY <1>4, <1>6
<1>8. FrontierInv'
  <2>1. \A e, f \in dirs' : e \in Above(f) => e = f
    <3> SUFFICES ASSUME NEW e \in dirs', NEW f \in dirs', e \in Above(f) PROVE e = f
      OBVIOUS
    <3>1. CASE f \in found
      BY <1>7, <3>1
    <3>2. CASE e \in dirs /\ f \in dirs
      BY <1>5, <3>2
    <3>3. CASE e \in found /\ f \in dirs \ {d}
      <4>1. d \in Above(f)
        BY <1>1, <1>4, <3>3, AboveFacts DEF Dir
      <4> QED
        BY <1>1, <1>5, <3>3, <4>1
    <3> QED
      BY <1>1, <3>1, <3>2, <3>3
  <2>2. Reached' \subseteq Reached \cup found /\ d \in Reached /\ Reached \subseteq Node
    BY <1>1, <1>4, NotNode DEF Reached
  <2>3. ASSUME NEW n \in Reached' PROVE Base(n) \notin ToSet(bases')
    BY <1>1, <1>4, <1>5, <2>2 DEF WalkInv, FrontierInv
  <2>4. ASSUME NEW n \in Reached', Untouched(n)' PROVE Listable(n)'
    <3>1. Untouched(n) /\ n \in Node
      BY <1>1, <2>4, <1>4, <2>2 DEF Untouched
    <3>2. Listable(n)' <=> Listable(n)
      BY <1>1, <3>1, SeenSame
    <3>3. CASE n \in found
      <4>1. Untouched(d) /\ MayList(d) /\ Above(n) = Above(d) \cup {n}
        BY <1>2, <1>4, <3>1, <3>3 DEF Untouched
      <4> QED
        BY <1>5, <3>2, <4>1 DEF Listable
    <3> QED
      BY <2>2, <3>1, <3>2, <3>3 DEF WalkInv, FrontierInv
  <2>5. MayList(d)' <=> MayList(d)
    BY <1>1 DEF Reachable, MayList
  <2>6. \A n \in names' : Base(n) # n /\ \A e \in Above(n) : e # n => e \notin dirs'
    BY <1>1, <1>4, <1>7
  <2>7. current' # <<>> => current' = d /\ MayList(d)
    BY <1>1
  <2> QED
    BY <1>6, <2>1, <2>3, <2>4, <2>5, <2>6, <2>7 DEF FrontierInv
<1>9. ASSUME NEW n \in Node PROVE Left(n)' = Left(n) /\ Due(n)' = Due(n)
  <2>1. n # <<>> /\ n \in Above(n) /\ Above(n) \subseteq Node /\ Base(n) \in Above(n)
    BY NotNode, AboveFacts, BaseFacts
  <2>2. /\ \A e \in Above(n) : MayList(e)' <=> MayList(e)
        /\ Listable(n)' <=> Listable(n)
        /\ Reachable(n)' <=> Reachable(n)
        /\ n \in writable' <=> n \in writable
        /\ Due(n)' = Due(n)
    BY <1>1, SeenSame
  <2>3. CASE d \notin Above(n)
    <3>1. \A c \in found : c \notin Above(n)
      BY <1>4, <2>3, AboveFacts
    <3>2. (Ahead(n)' <=> Ahead(n)) /\ (n \in dirs' <=> n \in dirs) /\ n \notin names' /\ n # d
      BY <1>1, <2>1, <2>3, <3>1 DEF Ahead
    <3> QED
      BY <1>1, <2>1, <2>2, <3>2 DEF Left, NameLeft, ListLeft
  <2>4. CASE n = d
    <3>1. ~Ahead(n) /\ ~Ahead(n)'
      BY <1>1, <1>5, <1>6, <2>4 DEF Ahead
    <3>2. n \in dirs /\ n \notin names' /\ (MayList(n) => n = current')
      BY <1>1, <1>4, <2>4
    <3>3. n \notin dirs' /\ n \notin names /\ (~MayList(n) => n # current')
      BY <1>1, <1>6, <2>1, <2>4
    <3> QED
      BY <2>1, <2>2, <3>1, <3>2, <3>3 DEF Left, NameLeft, ListLeft
  <2>5. CASE d \in Above(n) /\ n # d
    <3>1. Ahead(n)
      BY <1>1, <2>5 DEF Ahead
    <3>2. Listable(n) => MayList(d)
      BY <2>5 DEF Listable
    <3>3. PICK c \in Above(n) : c \in Children(d)
      BY <2>5, AboveFacts
    <3>4. ASSUME Listable(n), n \in writable, c # n PROVE Ahead(n)'
      <4>1. MayList(c) /\ c \in Dir /\ c \in present
        BY <3>3, <3>4, AboveFacts DEF Reachable, Listable, MayList
      <4>2. c \in dirs'
        BY <1>1, <1>2, <3>2, <3>3, <3>4, <4>1
      <4> QED
        BY <3>3, <3>4, <4>2 DEF Ahead
    <3>5. ASSUME Listable(n), n \in writable, c = n PROVE n \in names' /\ (n \in Dir => n \in dirs')
      <4>1. n \in present
        BY <3>5 DEF SecurityTypeOK
      <4> QED
        BY <1>1, <1>2, <3>2, <3>3, <3>5, <4>1
    <3>6. CASE n \notin writable \/ ~Listable(n)
      BY <2>2, <3>6 DEF Left
    <3>7. CASE n \in writable /\ Listable(n)
      <4>1. Ahead(n)' \/ (n \in names' /\ (n \in Dir => n \in dirs'))
        BY <3>4, <3>5, <3>7
      <4>2. NameLeft(n)' = NameLeft(n)
        BY <3>1, <4>1 DEF NameLeft
      <4>3. ListLeft(n)' = ListLeft(n)
        BY <2>1, <2>2, <3>1, <4>1 DEF ListLeft
      <4> QED
        BY <2>2, <4>2, <4>3 DEF Left
    <3> QED
      BY <3>6, <3>7
  <2> QED
    BY <2>2, <2>3, <2>4, <2>5
<1>10. CountInv'
  BY <1>1, <1>9 DEF WalkInv, CountInv, Counted, Untouched, Times, Full
<1> QED
  BY <1>3, <1>8, <1>10 DEF WalkInv

\* One visit of node x is made, and nothing else changes.
LEMMA VisitKeeps ==
  ASSUME SecurityTypeOK, CountInv, NEW x \in Node, Match(x), ~Full,
         UNCHANGED <<present, writable, closed, barred, host, touchedNodes>>,
         \A n \in Node : n # x => Left(n)' = Left(n),
         Untouched(x) => Left(x) = Left(x)' + IF Matches(x) THEN 1 ELSE 0
  PROVE  CountInv'
<1>1. \A m \in Node : Times(m)' = Times(m) + IF m = x /\ Matches(x) THEN 1 ELSE 0
  BY MatchCounts
<1>2. \A n \in Node : Left(n)' \in Nat
  BY DEF Reachable, Left, NameLeft, ListLeft
<1>5. \A n \in Node : Due(n)' \in Nat
  BY DEF Reachable, Due
<1>6. \A n \in Node : Untouched(n)' => Untouched(n)
  BY DEF Untouched
<1>3. ASSUME NEW n \in Node, Untouched(n)
      PROVE  Times(n)' + Left(n)' = Due(n)'
  <2>1. Due(n)' = Due(n)
    BY SeenSame
  <2>2. Times(n) + Left(n) = Due(n) /\ Times(n) \in Nat /\ Left(n) \in Nat
    BY <1>3, LeftOK, TimesOK DEF CountInv, Counted
  <2>3. CASE n # x
    <3>1. Times(n)' = Times(n) /\ Left(n)' = Left(n)
      BY <1>1, <2>2, <2>3
    <3> QED
      BY <2>1, <2>2, <3>1
  <2>4. CASE n = x /\ Matches(x)
    <3>2. Left(n)' \in Nat
      BY <1>2
    <3>3. Times(n)' = Times(n) + 1
      BY <1>1, <2>4
    <3>1. Left(n) = Left(n)' + 1
      BY <1>3, <2>4
    <3> QED
      BY <2>1, <2>2, <3>1, <3>2, <3>3
  <2>5. CASE n = x /\ ~Matches(x)
    <3>1. Times(n)' = Times(n) + 0 /\ Left(n) = Left(n)' + 0 /\ Left(n)' \in Nat
      BY <1>1, <1>2, <1>3, <2>5
    <3> QED
      BY <2>1, <2>2, <3>1
  <2> QED
    BY <2>3, <2>4, <2>5
<1>4. ASSUME NEW n \in Node PROVE Counted(n)'
  <2>1. CASE Untouched(n)'
    <3>2. Untouched(n)
      BY <1>6, <2>1
    <3>3. Due(n)' \in Nat
      BY <1>5
    <3>1. Times(n)' + Left(n)' = Due(n)' /\ Due(n)' \in Nat
      BY <1>3, <3>2, <3>3
    <3> QED
      BY <3>1 DEF Counted
  <2>2. CASE ~(Untouched(n)')
    BY <2>2 DEF Counted
  <2> QED
    BY <2>1, <2>2
<1> QED
  BY <1>4 DEF CountInv

LEMMA LengthOK == ASSUME SecurityTypeOK, NEW x \in Node, Match(x), ~Full
                  PROVE  (Len(paths) <= MaxWorldWritable)'
  BY MatchCounts, TimesOK, SecurityAssumption DEF Full

LEMMA LstatCurrentKeeps ==
  ASSUME SecurityTypeOK, WalkInv, LstatCurrent
  PROVE  WalkInv'
<1>0. PICK x : x = current
  OBVIOUS
<1>1. /\ x \in Dir /\ x \in Node /\ x # <<>> /\ Match(x) /\ current' = <<>>
      /\ ~Full /\ securityPc = "walk"
      /\ UNCHANGED <<present, writable, closed, barred, host, touchedNodes, securityPc, bases, dirs, names>>
  BY <1>0 DEF SecurityTypeOK, WalkInv, BudgetInv, LstatCurrent, nodeVars, securityInputs, Dir
<1>2. /\ Base(x) \notin ToSet(bases) /\ Above(x) \cap dirs = {}
      /\ Untouched(x) => Listable(x) /\ MayList(x)
      /\ x \in Above(x)
  BY <1>0, <1>1, AboveFacts DEF WalkInv, FrontierInv, Reached
<1>3. \A n \in Node : /\ Ahead(n)' <=> Ahead(n) 
                      /\ Listable(n)' <=> Listable(n)
                      /\ MayList(n)' <=> MayList(n)
  BY <1>1 DEF Reachable, Ahead, Listable, MayList
<1>4. ASSUME NEW n \in Node, n # x PROVE Left(n)' = Left(n)
  <2>1. n # current /\ n # current' 
    BY <1>0, <1>1, <1>4, NotNode
  <2> QED
    BY <1>1, <1>3, <2>1 DEF Reachable, Left, NameLeft, ListLeft
<1>5. Untouched(x) => Left(x) = Left(x)' + IF Matches(x) THEN 1 ELSE 0
  <2>1. ~Ahead(x) /\ x \notin dirs /\ KindOf[x] # "link" /\ x # current'
    BY <1>1, <1>2 DEF Ahead, Dir
  <2>2. NameLeft(x)' = NameLeft(x) /\ NameLeft(x) \in Nat
    BY <1>1, <1>3 DEF NameLeft
  <2>3. Untouched(x) => ListLeft(x) = 1
    BY <1>0, <1>1, <1>2 DEF ListLeft
  <2>4. ListLeft(x)' = 0
    BY <1>1, <1>3, <2>1 DEF ListLeft
  <2> QED
    BY <1>1, <1>2, <1>3, <2>1, <2>2, <2>3, <2>4 DEF Reachable, Left, Matches
<1>6. CountInv'
  BY <1>1, <1>4, <1>5, VisitKeeps DEF WalkInv
<1>7. BudgetInv'
  BY <1>1, LengthOK DEF BudgetInv
<1>8. StageInv'
  BY <1>1 DEF WalkInv, StageInv
<1>9. FrontierInv'
  <2>1. Reached' \subseteq Reached
    BY <1>1, NotNode DEF Reached
  <2> QED
    BY <1>1, <1>3, <2>1 DEF WalkInv, FrontierInv, Untouched, Reached
<1> QED
  BY <1>6, <1>7, <1>8, <1>9 DEF WalkInv

LEMMA LstatNameKeeps ==
  ASSUME SecurityTypeOK, WalkInv, NEW x \in Node, LstatName(x)
  PROVE  WalkInv'
<1>1. /\ x \in names /\ x # <<>> /\ Match(x) /\ names' = names \ {x} /\ current = <<>>
      /\ ~Full /\ securityPc = "walk"
      /\ UNCHANGED <<present, writable, closed, barred, host, touchedNodes, securityPc, bases, dirs, current>>
  BY NotNode DEF LstatName, nodeVars, securityInputs
<1>2. /\ Base(x) \notin ToSet(bases) /\ Base(x) # x
      /\ \A d \in Above(x) : d # x => d \notin dirs
      /\ Untouched(x) => Listable(x)
  BY <1>1 DEF WalkInv, FrontierInv, Reached
<1>3. \A n \in Node : /\ Ahead(n)' <=> Ahead(n) 
                      /\ Listable(n)' <=> Listable(n)
                      /\ MayList(n)' <=> MayList(n)
                      /\ ListLeft(n)' = ListLeft(n) /\ ListLeft(n) \in Nat
  BY <1>1 DEF Reachable, Ahead, Listable, MayList, ListLeft
<1>4. \A n \in Node : n # x => Left(n)' = Left(n)
  BY <1>1, <1>3 DEF Reachable, Left, NameLeft
<1>5. Untouched(x) => Left(x) = Left(x)' + IF Matches(x) THEN 1 ELSE 0
  <2>1. ~Ahead(x)
    BY <1>2 DEF Ahead
  <2>2. NameLeft(x) = 1 /\ NameLeft(x)' = 0
    BY <1>1, <1>2, <1>3, <2>1 DEF NameLeft
  <2> QED
    BY <1>1, <1>2, <1>3, <2>2 DEF Reachable, Left, Matches
<1>6. CountInv'
  BY <1>1, <1>4, <1>5, VisitKeeps DEF WalkInv
<1>7. BudgetInv'
  BY <1>1, LengthOK DEF BudgetInv
<1>8. StageInv'
  BY <1>1 DEF WalkInv, StageInv
<1>9. FrontierInv'
  <2>1. Reached' \subseteq Reached
    BY <1>1, NotNode DEF Reached
  <2> QED
    BY <1>1, <1>3, <2>1 DEF WalkInv, FrontierInv, Untouched, Reached
<1> QED
  BY <1>6, <1>7, <1>8, <1>9 DEF WalkInv

LEMMA EndBaseKeeps ==
  ASSUME SecurityTypeOK, WalkInv, EndBase
  PROVE  WalkInv'
<1>1. /\ dirs' = {} /\ names' = {} /\ current = <<>> /\ securityPc' = "bases"
      /\ Full \/ (dirs = {} /\ names = {})
      /\ UNCHANGED <<present, writable, closed, barred, host, touchedNodes, bases, current, paths>>
  BY DEF EndBase, nodeVars, securityInputs
<1>2. StageInv' /\ BudgetInv'
  BY <1>1 DEF WalkInv, StageInv, BudgetInv, Full
<1>3. FrontierInv'
  <2>1. Reached' = {}
    BY <1>1, NotNode DEF Reached
  <2> QED
    BY <1>1, <2>1 DEF FrontierInv
<1>4. ASSUME NEW n \in Node
      PROVE  /\ Left(n)' <= Left(n) /\ (~Full => Left(n)' = Left(n)) /\ Due(n)' = Due(n)
             /\ Left(n)' \in Nat
  <2>1. Due(n)' = Due(n) /\ (Listable(n)' <=> Listable(n)) /\ (MayList(n)' <=> MayList(n))
    BY <1>1, SeenSame, AboveFacts
  <2>2. Ahead(n)' => Ahead(n)
    BY <1>1 DEF Ahead
  <2>3. n \notin dirs' /\ n \notin names'
    BY <1>1
  <2>4. ~Full => (Ahead(n)' <=> Ahead(n)) /\ n \notin dirs /\ n \notin names
    BY <1>1 DEF Ahead
  <2> QED
    BY <1>1, <2>1, <2>2, <2>3, <2>4 DEF Reachable, Left, NameLeft, ListLeft
<1>5. CountInv'
  <2> SUFFICES ASSUME NEW n \in Node, Untouched(n)' PROVE Counted(n)'
    BY DEF CountInv, Counted
  <2>1. Counted(n) /\ Untouched(n)
    BY <1>1 DEF WalkInv, CountInv, Untouched
  <2>2. Times(n)' = Times(n) /\ (Full' <=> Full)
    BY <1>1 DEF Times, Full
  <2>3. Times(n) \in Nat /\ Left(n) \in Nat /\ Due(n) \in Nat
    BY TimesOK, LeftOK, DueOK
  <2>4. Times(n) + Left(n) <= Due(n) /\ (~Full => Times(n) + Left(n) = Due(n))
    BY <2>1 DEF Counted
  <2>5. /\ Times(n) + Left(n)' <= Due(n)'
        /\ ~Full => Times(n) + Left(n)' = Due(n)'
    BY <1>4, <2>3, <2>4
  <2> QED
    BY <2>2, <2>5 DEF Counted
<1> QED
  BY <1>2, <1>3, <1>5 DEF WalkInv

\* Before and after the walk, and where nothing changes.
LEMMA ElsewhereKeeps ==
  ASSUME SecurityTypeOK, WalkInv, CollectSignals \/ CollectFindings \/ EndScan \/ UNCHANGED securityVars
  PROVE  WalkInv'
<1>1. /\ UNCHANGED <<present, writable, closed, barred, host, touchedNodes, bases, dirs, names, current, paths>>
      /\ securityPc # securityPc' => securityPc \in {"signals", "findings", "bases"}
      /\ securityPc' \in {"findings", "bases", "done", "raised"} \/ securityPc' = securityPc
      /\ securityPc' = "done" => Full \/ bases = <<>> \/ securityPc = "done"
      /\ securityPc' \in {"signals", "findings"} => securityPc \in {"signals", "findings"}
  BY DEF CollectSignals, CollectFindings, EndScan, securityVars, nodeVars, securityInputs
<1>2. StageInv' /\ BudgetInv'
  BY <1>1 DEF WalkInv, StageInv, BudgetInv, Full
<1>3. FrontierInv'
  BY <1>1 DEF Reachable, WalkInv, FrontierInv, Untouched, Listable, MayList, Reached
<1>4. CountInv'
  BY <1>1 DEF Reachable, WalkInv, CountInv, Counted, Untouched, Listable, MayList,
              Ahead, NameLeft, ListLeft, Left, Due, Times, Full
<1> QED
  BY <1>2, <1>3, <1>4 DEF WalkInv

LEMMA WalkInit == SecurityInit => WalkInv
<1> SUFFICES ASSUME SecurityInit PROVE WalkInv
  OBVIOUS
<1>1. /\ bases = CriticalPath /\ dirs = {} /\ names = {} /\ current = <<>> /\ paths = <<>>
      /\ securityPc = "signals"
  BY DEF SecurityInit
<1>2. StageInv /\ BudgetInv
  BY <1>1, SecurityAssumption DEF StageInv, BudgetInv
<1>3. FrontierInv
  <2>1. Reached = {}
    BY <1>1, NotNode DEF Reached
  <2> QED
    BY <1>1, <2>1 DEF FrontierInv
<1>4. CountInv
  <2> SUFFICES ASSUME NEW n \in Node PROVE Counted(n)
    BY DEF CountInv
  <2>1. Ahead(n)
    BY <1>1, BaseFacts DEF Ahead
  <2>2. Left(n) = Due(n) /\ Left(n) \in Nat
    BY <2>1, DueIs DEF Reachable, Left, NameLeft, ListLeft
  <2>3. Times(n) = 0
    BY <1>1, FS_EmptySet DEF Times
  <2> QED
    BY <2>2, <2>3 DEF Counted
<1> QED
  BY <1>2, <1>3, <1>4 DEF WalkInv

LEMMA WalkStep == SecurityTypeOK /\ WalkInv /\ [SecurityNext]_securityVars => WalkInv'
<1> SUFFICES ASSUME SecurityTypeOK, WalkInv, [SecurityNext]_securityVars PROVE WalkInv'
  OBVIOUS
<1>1. ASSUME NEW n \in Node, Chmod(n) \/ MakeNode(n) \/ RemoveNode(n) PROVE WalkInv'
  BY <1>1, ChangeKeeps DEF WalkInv
<1> QED
  BY <1>1, NextBaseKeeps, EnterKeeps, LstatCurrentKeeps, LstatNameKeeps, EndBaseKeeps, ElsewhereKeeps
     DEF SecurityNext, SecurityStep, SecurityChange

LEMMA WalkEnds == SecurityTypeOK /\ WalkInv => WalkExact
<1> SUFFICES ASSUME SecurityTypeOK, WalkInv, securityPc = "done",
                    NEW n \in Node, Untouched(n)
             PROVE  /\ Len(paths) <= MaxWorldWritable
                    /\ Times(n) <= Due(n) /\ (~Full => Times(n) = Due(n))
  <2> SUFFICES ASSUME SecurityTypeOK, WalkInv, securityPc = "done" PROVE WalkExact
    BY DEF WalkExact
  <2> QED
    BY DEF WalkExact, Untouched, WalkInv, BudgetInv
<1>1. /\ Len(paths) <= MaxWorldWritable /\ Counted(n)
      /\ dirs = {} /\ names = {} /\ current = <<>> /\ (Full \/ bases = <<>>)
  BY DEF WalkInv, BudgetInv, CountInv, StageInv
<1>2. Times(n) \in Nat /\ Left(n) \in Nat /\ Due(n) \in Nat
  BY TimesOK, LeftOK, DueOK
<1>3. bases = <<>> => Left(n) = 0
  <2> SUFFICES ASSUME bases = <<>> PROVE Left(n) = 0
    OBVIOUS
  <2>1. ToSet(bases) = {}
    BY DEF ToSet
  <2>2. ~Ahead(n) /\ n \notin names /\ n \notin dirs /\ n # current
    BY <1>1, <2>1, NotNode DEF Ahead
  <2> QED
    BY <2>2 DEF Reachable, Left, NameLeft, ListLeft
<1> QED
  BY <1>1, <1>2, <1>3 DEF Counted

\* Whatever is made, removed or changed beside it, the walk (security.py:371)
\* stays within its budget, and short of that it reports every path that
\* others may write to and that nobody touches, exactly as often as it meets it.
THEOREM WalkIsExact == SecuritySpec => []WalkExact
  BY SecurityTypeCorrect, WalkInit, WalkStep, WalkEnds, PTL DEF SecuritySpec
==============================================================================
