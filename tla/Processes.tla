------------------------------ MODULE Processes ------------------------------
(***************************************************************************)
(* src/lxperun/processes.py and the `processes` handler of cli.py: /proc   *)
(* is listed once, then three files and two links of every process are     *)
(* read, one after the other, while processes start, exit and are reaped.  *)
(*                                                                         *)
(* Of a record the model keeps what the handler formats and what may be    *)
(* missing: the resident size, the number of descriptors and the link to   *)
(* the program.  The other fields of the status file come with the first   *)
(* of these, cwd is read as exe is.                                        *)
(***************************************************************************)
EXTENDS Integers, Sequences, FiniteSets

CONSTANTS Pid,             \* process numbers
          Size,            \* resident sizes
          TopLimit,        \* --limit
          MaxProcChanges   \* bound: changes among the processes

ASSUME ProcessesAssumption == /\ Pid \subseteq Nat /\ IsFiniteSet(Pid)
                              /\ Size \subseteq Nat \ {0}
                              /\ TopLimit \in Nat /\ MaxProcChanges \in Nat

VARIABLES
  proc, procChanges,      \* the machine: the processes; how often they changed
  procRoot, hidepid,      \* effective uid 0; /proc mounted with hidepid=1
  procJson,               \* --json
  procPc, pending,        \* where inspect_process() is; entries not yet inspected
  draft,                  \* the fields read so far
  records, unreadable,    \* ProcessReport
  touched                 \* history: processes changed since the listing

procVars == <<proc, procChanges, procRoot, hidepid, procJson, procPc, pending, draft,
              records, unreadable, touched>>

None == 0                 \* Python's None for the sizes and counts below
Kind == {"own", "foreign", "kernel", "zombie"}
\* Only a process with memory of its own has a line VmRSS.
Process == [kind : {"own", "foreign"}, rss : Size]
             \cup [kind : {"kernel", "zombie"}, rss : {None}]
Absent  == [kind |-> "absent", rss |-> None]

ProcessInfo == [pid : Pid, readable : BOOLEAN, rss : Size \cup {None},
                fds : BOOLEAN, exe : BOOLEAN]       \* the last two: known or None
Unread(p) == [pid |-> p, readable |-> FALSE, rss |-> None, fds |-> FALSE, exe |-> FALSE]

ProcessesInit ==
  /\ proc \in [Pid -> Process \cup {Absent}] /\ procChanges = 0
  /\ procRoot \in BOOLEAN /\ hidepid \in BOOLEAN /\ procJson \in BOOLEAN
  /\ procPc = "list" /\ pending = {} /\ draft = {}
  /\ records = <<>> /\ unreadable = 0 /\ touched = {}
------------------------------------------------------------------------------
(* The processes of the machine. *)

Become(p, q) ==
  /\ procChanges < MaxProcChanges /\ procChanges' = procChanges + 1
  /\ proc' = [proc EXCEPT ![p] = q]
  /\ touched' = touched \cup {p}
  /\ UNCHANGED <<procRoot, hidepid, procJson, procPc, pending, draft, records, unreadable>>

Start(p) == proc[p] = Absent /\ \E q \in Process : q.kind # "zombie" /\ Become(p, q)
ExitOf(p) == /\ proc[p].kind \in {"own", "foreign"}
             /\ Become(p, [kind |-> "zombie", rss |-> None])
Reap(p) == proc[p].kind = "zombie" /\ Become(p, Absent)

\* With hidepid=1 the entries of others are listed but cannot be entered.
MayRead(p) == /\ proc[p] # Absent
              /\ procRoot \/ ~hidepid \/ proc[p].kind \in {"own", "zombie"}
\* fd, exe and cwd are for root and the owner; of a zombie they are root's.
MayFollow(p) == proc[p] # Absent /\ (procRoot \/ proc[p].kind = "own")
\* A zombie's, or a kernel thread's, exe leads nowhere, for root too.
HasProgram(p) == MayFollow(p) /\ proc[p].kind \in {"own", "foreign"}
------------------------------------------------------------------------------
(* process_report() *)

ListProc ==
  /\ procPc = "list"
  /\ pending' = {p \in Pid : proc[p] # Absent} /\ touched' = {}
  /\ procPc' = IF pending' = {} THEN "print" ELSE "status"
  /\ UNCHANGED <<proc, procChanges, procRoot, hidepid, procJson, draft, records, unreadable>>

\* sorted(..., key=_pid_sort_key)
AnyPid(p) == p \in pending                              \* a faulty variant
IsNextPid(p) == p \in pending /\ \A q \in pending : p <= q

Add(p, info) ==
  /\ records' = Append(records, info)
  /\ unreadable' = IF info.readable THEN unreadable ELSE unreadable + 1
  /\ pending' = pending \ {p} /\ draft' = {}
  /\ procPc' = IF pending' = {} THEN "print" ELSE "status"

\* status and cmdline must be readable, or the process counts as unreadable.
ReadStatus(p) ==
  /\ procPc = "status" /\ IsNextPid(p)
  /\ \/ /\ MayRead(p) /\ procPc' = "cmdline"
        /\ draft' = {[Unread(p) EXCEPT !.readable = TRUE, !.rss = proc[p].rss]}
        /\ UNCHANGED <<pending, records, unreadable>>
     \/ ~MayRead(p) /\ Add(p, Unread(p))
  /\ UNCHANGED <<proc, procChanges, procRoot, hidepid, procJson, touched>>

ReadCmdline(p) ==
  /\ procPc = "cmdline" /\ IsNextPid(p)
  /\ \/ MayRead(p) /\ procPc' = "fd" /\ UNCHANGED <<draft, pending, records, unreadable>>
     \/ ~MayRead(p) /\ Add(p, Unread(p))
  /\ UNCHANGED <<proc, procChanges, procRoot, hidepid, procJson, touched>>

\* From here on what cannot be read is None.
FdCount(p) ==
  /\ procPc = "fd" /\ IsNextPid(p) /\ procPc' = "links"
  /\ draft' = {[d EXCEPT !.fds = MayFollow(p)] : d \in draft}
  /\ UNCHANGED <<proc, procChanges, procRoot, hidepid, procJson, pending, records,
                 unreadable, touched>>

ReadLinks(p) ==
  /\ procPc = "links" /\ IsNextPid(p)
  /\ \E d \in draft : Add(p, [d EXCEPT !.exe = HasProgram(p)])
  /\ UNCHANGED <<proc, procChanges, procRoot, hidepid, procJson, touched>>
------------------------------------------------------------------------------
(* The handler: JSON, or a table of the largest, which formats each size and *)
(* each count as a number and fails on None.                                 *)

Readable == SelectSeq(records, LAMBDA r : r.readable)
\* sorted() keeps equal sizes in their order, also with reverse=True.
Heavier(i, j) == \/ Readable[i].rss > Readable[j].rss
                 \/ Readable[i].rss = Readable[j].rss /\ i < j
TopByMemory == {Readable[i] : i \in {j \in DOMAIN Readable :
                  Cardinality({k \in DOMAIN Readable : Heavier(k, j)}) < TopLimit}}
Formattable(r) == r.rss # None /\ r.fds

PrintProcesses ==
  /\ procPc = "print"
  /\ procPc' = IF procJson \/ \A r \in TopByMemory : Formattable(r) THEN "done" ELSE "raised"
  /\ UNCHANGED <<proc, procChanges, procRoot, hidepid, procJson, pending, draft, records,
                 unreadable, touched>>
------------------------------------------------------------------------------
ProcessesStep == \/ ListProc \/ PrintProcesses
                 \/ \E p \in Pid : ReadStatus(p) \/ ReadCmdline(p) \/ FdCount(p) \/ ReadLinks(p)
ProcessesChange == \E p \in Pid : Start(p) \/ ExitOf(p) \/ Reap(p)
ProcessesNext == ProcessesStep \/ ProcessesChange
ProcessesSpec == ProcessesInit /\ [][ProcessesNext]_procVars /\ WF_procVars(ProcessesStep)
------------------------------------------------------------------------------
ProcMachineOK ==
  /\ proc \in [Pid -> Process \cup {Absent}] /\ procChanges \in 0..MaxProcChanges
  /\ procRoot \in BOOLEAN /\ hidepid \in BOOLEAN /\ procJson \in BOOLEAN
ProcReportOK ==
  /\ procPc \in {"list", "status", "cmdline", "fd", "links", "print", "done", "raised"}
  /\ pending \in SUBSET Pid /\ draft \in SUBSET ProcessInfo
  /\ records \in Seq(ProcessInfo) /\ unreadable \in Nat /\ touched \in SUBSET Pid
ProcessesTypeOK == ProcMachineOK /\ ProcReportOK

\* The record a process deserves that is there, unchanged, all the time.
Exact(p) == IF ~MayRead(p) THEN Unread(p)
            ELSE [pid |-> p, readable |-> TRUE, rss |-> proc[p].rss,
                  fds |-> MayFollow(p), exe |-> HasProgram(p)]

Ended == procPc \in {"print", "done", "raised"}

\* Whatever starts and exits during the walk (processes.py:54), the report is
\* sorted with no number twice, its counter is right, and what it says of the
\* processes nothing happened to is exact: each is in it, readable or not as
\* its files are, and no number that was free all the time is.
SteadyProcessesExact ==
  Ended =>
    /\ \A i, j \in DOMAIN records : i < j => records[i].pid < records[j].pid
    /\ unreadable = Cardinality({i \in DOMAIN records : ~records[i].readable})
    /\ \A p \in Pid \ touched :
         IF proc[p] = Absent THEN \A i \in DOMAIN records : records[i].pid # p
                             ELSE \E i \in DOMAIN records : records[i] = Exact(p)

\* README.md:158 says that without root most commands "will still show useful
\* partial data": the handler ends without a traceback.
PartialDataShown == ~procRoot => procPc # "raised"
==============================================================================
