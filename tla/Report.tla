-------------------------------- MODULE Report -------------------------------
(***************************************************************************)
(* src/lxperun/report.py with services.py, storage.py and crash.py, and    *)
(* the handlers of cli.py that use them: a call reads its sections one     *)
(* after the other while units, mounts, devices, dumps, sockets and        *)
(* listeners come and go; `report` then writes a file whose name is the    *)
(* time to the second, beside other calls that do the same.                *)
(*                                                                         *)
(* Of the sections those are kept that show the same thing twice.  The     *)
(* processes, the walk of the security section and the other issues of     *)
(* doctor are the subjects of modules of their own.                        *)
(***************************************************************************)
EXTENDS Integers, Sequences, FiniteSets, SequencesExt

CONSTANTS Unit, Typed,        \* systemd units; those of type service, socket or timer
          MountPoint, Deaf,   \* where file systems are mounted; where statvfs() fails, as
                              \* it does where the name has a blank: \040 is not decoded
          Device,             \* entries of /sys/block
          Listener,           \* sockets that listen on all interfaces
          MaxExposed,         \* 25: those the security section names
          MachineStart,       \* what the machine may be like at first
          MaxMounts,          \* bound: entries of the mount table
          MaxReportChanges,   \* bound: changes of the machine
          MaxSecond           \* bound: seconds

UnitState == {"absent", "inactive", "running", "failed"}
Machine == [units : [Unit -> UnitState], mounts : Seq(MountPoint), devices : SUBSET Device,
            listening : SUBSET Listener, socket : BOOLEAN, dumps : Nat]
ASSUME ReportAssumption ==
  /\ Typed \subseteq Unit /\ Deaf \subseteq MountPoint /\ MachineStart \subseteq Machine
  /\ MaxExposed \in Nat \ {0} /\ MaxMounts \in Nat /\ MaxReportChanges \in Nat /\ MaxSecond \in Nat

VARIABLES
  machine,                    \* what the sections read
  reportChanges,              \* how often that changed
  reportCall, asText,         \* the command; no --json, or no --format html
  agenda,                     \* sections to come
  toStat, seenPaths, toSize,  \* mounts still to be looked at, mount points met; devices
  report,                     \* the sections read
  wallClock, clockSets,       \* datetime.now(), and times it was set back
  second,                     \* history: seconds passed in fact
  reportPc, savePath, disk,   \* what comes next; the chosen name; who wrote which file
  namedAt, made,              \* history: when the name was chosen; files written
  touchedThings               \* history: things that changed

machineVars == <<machine, reportChanges, touchedThings>>
reportInputs == <<reportCall, asText>>
clockVars == <<wallClock, clockSets, second>>
loopVars == <<toStat, seenPaths, toSize>>
reportVars == <<machineVars, reportInputs, agenda, loopVars, report, clockVars,
                reportPc, savePath, disk, namedAt, made>>
fileVars == <<savePath, disk, namedAt, made>>

Place == {"desktop", "home"}     \* one of the desktop directories, or else home
NoAnswer == [answered |-> FALSE, units |-> [u \in {} |-> "absent"]]
Backend == {"iptables", "nftables"}
NoMapping == [available |-> {}, mapped |-> {}]
EmptyReport == [snapshot |-> <<>>, exposed |-> {}, socket |-> FALSE, containers |-> FALSE,
                firewall |-> NoMapping, network |-> {}, doctor |-> NoAnswer, services |-> NoAnswer,
                failed |-> NoAnswer, storage |-> <<>>, devices |-> {}, unsized |-> {},
                dumps |-> 0, latest |-> FALSE]

\* generate_report(), _print_all() and the handlers of single sections.
Agenda ==
  [report   |-> <<"snapshot", "security", "containers", "firewall", "doctor", "services",
                  "failed", "mounts", "statvfs", "devices", "sizes", "crash", "network">>,
   all      |-> <<"snapshot", "security", "firewall", "containers", "doctor", "network",
                  "services", "failed", "mounts", "statvfs", "devices", "sizes", "crash">>,
   services |-> <<"services", "failed">>,
   storage  |-> <<"mounts", "statvfs", "devices", "sizes">>,
   crash    |-> <<"crash", "latest">>]
ReportCall == {"report", "all", "services", "storage", "crash"}

ReportInit ==
  /\ machine \in MachineStart /\ reportChanges = 0 /\ touchedThings = {}
  /\ reportCall \in ReportCall /\ asText \in BOOLEAN
  /\ agenda = Agenda[reportCall] /\ report = EmptyReport
  /\ toStat = <<>> /\ seenPaths = {} /\ toSize = {}
  /\ wallClock = 0 /\ clockSets = 0 /\ second = 0
  /\ reportPc = "sections" /\ savePath = <<"home", 0>> /\ namedAt = 0
  /\ disk = [p \in Place \X (0..MaxSecond) |-> "none"] /\ made = {}
------------------------------------------------------------------------------
(* The machine while the sections are read. *)

Alter(thing, m) ==
  /\ reportPc = "sections"
  /\ reportChanges < MaxReportChanges /\ reportChanges' = reportChanges + 1
  /\ machine' = m /\ touchedThings' = touchedThings \cup {thing}
  /\ UNCHANGED <<reportInputs, agenda, loopVars, report, clockVars, reportPc, fileVars>>

UnitBecomes(u, s) == machine.units[u] # s /\ Alter(u, [machine EXCEPT !.units[u] = s])
MountOn(p) == /\ Len(machine.mounts) < MaxMounts
              /\ Alter(p, [machine EXCEPT !.mounts = Append(@, p)])
LastMount(p) == {i \in DOMAIN machine.mounts :
                   machine.mounts[i] = p /\ \A j \in i + 1 .. Len(machine.mounts) :
                                              machine.mounts[j] # p}
Unmount(p) == \E i \in LastMount(p) : Alter(p, [machine EXCEPT !.mounts = RemoveAt(@, i)])
Unplug(d) == d \in machine.devices /\ Alter(d, [machine EXCEPT !.devices = @ \ {d}])
OpenOrClose(l) ==
  Alter(l, [machine EXCEPT !.listening = IF l \in @ THEN @ \ {l} ELSE @ \cup {l}])
SocketToggles == Alter("socket", [machine EXCEPT !.socket = ~@])
DumpArrives == Alter("dump", [machine EXCEPT !.dumps = @ + 1])

\* The clock, while a file is named and written.
Saving == reportPc \in {"name", "write"}
TickSecond == /\ Saving /\ wallClock < MaxSecond /\ second < MaxSecond
              /\ wallClock' = wallClock + 1 /\ second' = second + 1
              /\ UNCHANGED <<machineVars, reportInputs, agenda, loopVars, report,
                             clockSets, reportPc, fileVars>>
\* Local time goes back at the end of summer, or when somebody sets it.
SetBack == /\ Saving /\ clockSets = 0 /\ clockSets' = 1 /\ wallClock > 0 /\ wallClock' = 0
           /\ UNCHANGED <<machineVars, reportInputs, agenda, loopVars, report, second,
                          reportPc, fileVars>>
------------------------------------------------------------------------------
(* The sections *)

Section(s, r) ==
  /\ reportPc = "sections" /\ agenda # <<>> /\ Head(agenda) = s
  /\ agenda' = Tail(agenda) /\ report' = r
  /\ UNCHANGED <<machineVars, reportInputs, clockVars, reportPc, fileVars>>
Atomic == UNCHANGED loopVars

TakeSnapshot == Section("snapshot", [report EXCEPT !.snapshot = machine.mounts]) /\ Atomic
\* The security section names the first listeners of the socket tables, which
\* have no order of their own.
Evidence(listening) == {x \in SUBSET listening :
                          IF Cardinality(listening) <= MaxExposed THEN x = listening
                          ELSE Cardinality(x) = MaxExposed}
TakeSecurity == Atomic /\ \E x \in Evidence(machine.listening) :
                            Section("security", [report EXCEPT !.exposed = x,
                                                               !.socket = machine.socket])
TakeContainers == Section("containers", [report EXCEPT !.containers = machine.socket]) /\ Atomic

\* Each backend that is there and answers, which takes root, has a decision on
\* each listener; the others have none.
MapAll(backends) == [available |-> backends, mapped |-> backends \X machine.listening]
TakeFirewall == Atomic /\ \E backends \in SUBSET Backend :
                            Section("firewall", [report EXCEPT !.firewall = MapAll(backends)])
TakeNetwork  == Section("network", [report EXCEPT !.network = machine.listening]) /\ Atomic

\* Each of the three questions to systemctl may go unanswered, a refusal with
\* code 1 and nothing on stdout included, which the code takes for an answer.
Answers(units) == {NoAnswer, [answered |-> TRUE, units |-> [u \in units |-> machine.units[u]]]}
FailedNow == {u \in Unit : machine.units[u] = "failed"}
TakeDoctor == Atomic /\ \E a \in Answers(FailedNow) :
                          Section("doctor", [report EXCEPT !.doctor = a])
ListUnits == Atomic /\ \E a \in Answers({u \in Typed : machine.units[u] # "absent"}) :
                         Section("services", [report EXCEPT !.services = a])
ListFailed == Atomic /\ \E a \in Answers(FailedNow) :
                          Section("failed", [report EXCEPT !.failed = a])

\* _load_mounts(): the table, then statvfs() of each mount point once.
AlwaysNew(p) == TRUE                                        \* a faulty variant
NewPath(p) == p \notin seenPaths
ListMounts == /\ Section("mounts", report)
              /\ toStat' = machine.mounts /\ seenPaths' = {} /\ UNCHANGED toSize
StatMount ==
  /\ reportPc = "sections" /\ agenda # <<>> /\ Head(agenda) = "statvfs" /\ toStat # <<>>
  /\ toStat' = Tail(toStat) /\ seenPaths' = seenPaths \cup {Head(toStat)}
  /\ report' = IF NewPath(Head(toStat)) /\ Head(toStat) \notin Deaf
               THEN [report EXCEPT !.storage = Append(@, Head(toStat))] ELSE report
  /\ UNCHANGED <<machineVars, reportInputs, agenda, toSize, clockVars, reportPc, fileVars>>
EndMounts == toStat = <<>> /\ Section("statvfs", report) /\ Atomic

\* _load_devices(): of a device unplugged since it was listed the size is None.
ListDevices == /\ Section("devices", [report EXCEPT !.devices = machine.devices])
               /\ toSize' = machine.devices /\ UNCHANGED <<toStat, seenPaths>>
SizeDevice(d) ==
  /\ reportPc = "sections" /\ agenda # <<>> /\ Head(agenda) = "sizes" /\ d \in toSize
  /\ toSize' = toSize \ {d}
  /\ report' = IF d \in machine.devices THEN report ELSE [report EXCEPT !.unsized = @ \cup {d}]
  /\ UNCHANGED <<machineVars, reportInputs, agenda, toStat, seenPaths, clockVars, reportPc,
                 fileVars>>
EndDevices == toSize = {} /\ Section("sizes", report) /\ Atomic

\* coredumpctl list, and info with --latest; no answer counts as no dump.
TakeCrash == Atomic /\ \E n \in {0, machine.dumps} : Section("crash", [report EXCEPT !.dumps = n])
TakeLatest == Atomic /\ \E l \in BOOLEAN : /\ l => machine.dumps > 0
                                         /\ Section("latest", [report EXCEPT !.latest = l])
------------------------------------------------------------------------------
(* The end of the call *)

\* A table on the terminal formats each size as a number; only HTML goes to a file.
Raises == asText /\ report.unsized # {} /\ reportCall \in {"all", "storage"}
EndSections ==
  /\ reportPc = "sections" /\ agenda = <<>>
  /\ reportPc' = IF Raises THEN "raised"
                 ELSE IF reportCall = "report" /\ ~asText THEN "name" ELSE "end"
  /\ UNCHANGED <<machineVars, reportInputs, agenda, loopVars, report, clockVars, fileVars>>

\* _desktop_report_path(): in the first of the directories that is there, the
\* time to the second.
StampToMinutes(clock) == 0                                  \* a faulty variant
Stamp(clock) == clock
NameFile ==
  /\ reportPc = "name" /\ reportPc' = "write"
  /\ \E d \in Place : savePath' = <<d, Stamp(wallClock)>>
  /\ namedAt' = second
  /\ UNCHANGED <<machineVars, reportInputs, agenda, loopVars, report, clockVars, disk, made>>

\* write_text(): what was there is gone, whether the disk takes the text or not.
Write(by, path, at) ==
  \E content \in {by, "cut"} :
    /\ disk' = [disk EXCEPT ![path] = content]
    /\ made' = made \cup {[by |-> by, path |-> path, at |-> at, whole |-> content = by]}
WriteFile ==
  /\ reportPc = "write" /\ Write("ours", savePath, namedAt)
  /\ reportPc' = IF disk'[savePath] = "cut" THEN "raised" ELSE "end"
  /\ UNCHANGED <<machineVars, reportInputs, agenda, loopVars, report, clockVars, savePath,
                 namedAt>>

\* Another call of `lxperun report`, from its name to its file.
OtherReport ==
  /\ Saving /\ \A f \in made : f.by # "other"
  /\ \E d \in Place : Write("other", <<d, Stamp(wallClock)>>, second)
  /\ UNCHANGED <<machineVars, reportInputs, agenda, loopVars, report, clockVars, reportPc,
                 savePath, namedAt>>
------------------------------------------------------------------------------
ReportStep ==
  \/ TakeSnapshot \/ TakeSecurity \/ TakeContainers \/ TakeFirewall \/ TakeNetwork \/ TakeDoctor
  \/ ListUnits \/ ListFailed \/ ListMounts \/ StatMount \/ EndMounts \/ ListDevices \/ EndDevices
  \/ TakeCrash \/ TakeLatest \/ EndSections \/ NameFile \/ WriteFile
  \/ \E d \in Device : SizeDevice(d)
ReportChange ==
  \/ OtherReport \/ SocketToggles \/ DumpArrives \/ TickSecond \/ SetBack
  \/ \E u \in Unit, s \in UnitState : UnitBecomes(u, s)
  \/ \E p \in MountPoint : MountOn(p) \/ Unmount(p)
  \/ \E d \in Device : Unplug(d)
  \/ \E l \in Listener : OpenOrClose(l)
ReportNext == ReportStep \/ ReportChange
ReportSpec == ReportInit /\ [][ReportNext]_reportVars
------------------------------------------------------------------------------
UnitAnswer == [answered : BOOLEAN, units : UNION {[S -> UnitState] : S \in SUBSET Unit}]
ReportData == [snapshot : Seq(MountPoint), exposed : SUBSET Listener, socket : BOOLEAN,
               containers : BOOLEAN, network : SUBSET Listener,
               firewall : [available : SUBSET Backend, mapped : SUBSET (Backend \X Listener)],
               doctor : UnitAnswer, services : UnitAnswer, failed : UnitAnswer,
               storage : Seq(MountPoint), devices : SUBSET Device, unsized : SUBSET Device,
               dumps : Nat, latest : BOOLEAN]
ReportTypeOK ==
  /\ machine \in Machine /\ reportChanges \in 0..MaxReportChanges
  /\ reportCall \in ReportCall /\ asText \in BOOLEAN
  /\ \E k \in 1..(Len(Agenda[reportCall]) + 1) :
       agenda = SubSeq(Agenda[reportCall], k, Len(Agenda[reportCall]))
  /\ toStat \in Seq(MountPoint) /\ seenPaths \subseteq MountPoint /\ toSize \subseteq Device
  /\ report \in ReportData /\ reportPc \in {"sections", "name", "write", "end", "raised"}
  /\ wallClock \in 0..MaxSecond /\ second \in 0..MaxSecond /\ clockSets \in {0, 1}
  /\ savePath \in DOMAIN disk /\ \A f \in made : f.path \in DOMAIN disk

Shown(section) == \A i \in DOMAIN agenda : agenda[i] # section
Listing(section) == {section} \subseteq ToSet(Agenda[reportCall]) /\ Shown(section)
Steady(things) == things \ touchedThings

Rows(p) == Cardinality({i \in DOMAIN report.storage : report.storage[i] = p})

\* report.py:49 reads its sections at times of their own, and the storage
\* section a table first and each mount point and device later.  No mount
\* point is ever told twice, however often it is mounted over and whatever is
\* mounted meanwhile; one that did not change is told exactly if it is mounted
\* and statvfs() answers there, and only a device that was unplugged has no
\* size.  A listener that did not change is told alike by all three sections
\* that look for it: by the firewall section for each backend that answered
\* and for no other, by the security section unless its evidence is full.
SteadySectionsAgree ==
  /\ \A p \in MountPoint : Rows(p) <= 1
  /\ \A p \in Steady(MountPoint) :
       Listing("statvfs") => (Rows(p) = 1 <=> p \in ToSet(machine.mounts) \ Deaf)
  /\ report.unsized \cap Steady(Device) = {}
  /\ \A l \in Steady(Listener) :
       /\ Listing("network")  => (l \in report.network <=> l \in machine.listening)
       /\ Listing("firewall") => \A b \in Backend :
            <<b, l>> \in report.firewall.mapped <=>
              b \in report.firewall.available /\ l \in machine.listening
       /\ Listing("security") =>
            /\ l \in report.exposed => l \in machine.listening
            /\ l \in machine.listening \ report.exposed => Cardinality(report.exposed) = MaxExposed

\* The names of cli.py:531 tell seconds of local time apart: a report that was
\* written whole stays on the disk, unless another was written in the same
\* second or the clock went back.
ReportsKept ==
  \A f \in made :
    f.whole => \/ disk[f.path] = f.by
               \/ clockSets > 0
               \/ \E g \in made : g # f /\ g.at = f.at
==============================================================================
