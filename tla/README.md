# LxPerun in TLA+

A verification project for LxPerun, the Linux diagnostics command line in
`src/lxperun`. It models the parts that change the machine or that read a
machine which changes under them, checks them with TLC on small instances, and
proves with TLAPS what should hold for any machine.

## 1. The system

LxPerun is one Python process per call: `main()` (cli.py) parses the line, may
start itself again through `sudo`, and calls one function that returns a report
(a frozen dataclass), which the CLI prints. There are no threads. What is
concurrent is the machine: files, processes, sockets and units change between
any two system calls, clocks are set, and a user answers a prompt whenever he
likes.

| Component | State and operations | Interacts with | Hard parts | Correct when |
|---|---|---|---|---|
| clean (`clean.py`) | candidates, counters, three actions; deletes coredumps, runs flatpak and a package manager | the directory, `run_command` | three walks over a directory that changes; refused `unlink()`; dry run against apply | it removes only what it announced, what is old enough, and only when armed, and counts what it removes |
| repair (`repair.py`) | two diagnoses, one sensitive action | doctor, clean, `systemctl`, the user | a prompt of any length between diagnosis and command; consent; user id | it changes nothing unasked and reports what it did |
| doctor (`doctor.py`) | list of issues | snapshot, `systemctl`, `journalctl`, `dmesg`, the project's files | unanswered queries, fallbacks, grouping, files edited during the scan | silence means that somebody answered and had nothing to say (it does not: finding) |
| firewall (`firewall.py`) | listings, decisions | iptables, nft, network | words of a text standing for rule semantics | a decision is the firewall's |
| network (`network.py`) | sockets, owners, rates | `/proc/net`, `/proc/<pid>/fd` | tables and owners read at different times; counters that restart | it invents no owner, loses no byte |
| processes (`processes.py`) | one record per process | `/proc/<pid>/*` | processes that exit between two reads | what did not change is exact |
| cli (`cli.py`) | parsed line, root request, saved report | all, `sudo` | two processes for one call; shared names in the parser; names of files from the clock | the command named runs, as the user asked for |
| trace (`trace.py`) | a temporary trace file | strace, perf | time-outs, what is left behind | the trace is read and then removed |
| security, containers | signals, findings, a walk with a budget | `/proc`, `/etc`, container sockets | a tree that changes, the budget | only a spent budget leaves something out |
| report, services, storage, crash | parts read one after the other | systemctl, mounts, devices, coredumpctl | parts sampled at different times; unanswered commands | what did not change is the same in all parts |
| linux (`linux.py`) | `run_command`, parsers | all | time-outs, bytes for text | its callers cope with each outcome |
| performance, hardware, capabilities, rings, compatibility, ui, formatting | one-shot parsers and tables | `/proc`, `/sys` | none: functions of a text | |

`PROJECT.json` lists every component with its status, and the hazards of the
code line by line, each with the property that covers it, or why none does. A
property that excuses a hazard in its premise is not named for it.

## 2. The modules

| Module | Models | Proofs |
|---|---|---|
| `Sweep` | the promise of a clean-up, without its steps | |
| `Clean` | `clean.py`, a call after the other | `CleanProofs` |
| `Repair` | `repair.py` and doctor's systemd check | `RepairProofs` |
| `Firewall` | `firewall.py`, and the kernel's decision to compare it with | `FirewallProofs` |
| `Sockets` | `socket_diag` of `network.py` | `SocketsProofs` |
| `Cli` | `main()` in both processes | `CliProofs` |
| `Processes` | `processes.py` and its handler | `ProcessesProofs` |
| `Watch` | `network_bandwidth` and the `--watch` loop | `ProcessesProofs` |
| `Trace` | `trace.py`, `run_command` | `ProcessesProofs` |
| `Doctor` | `doctor.py` and its handler | `CallsProofs` |
| `Security` | `security.py`, `containers.py` | `ProcessesProofs` |
| `Report` | `report.py`, `services.py`, `storage.py`, `crash.py`, their handlers and the saved file | `CallsProofs` |
| `Calls` | the last six composed: `main()` and the handler it picks | `CallsProofs` |
| `DataLemmas` | nothing: facts about numbers and sequences, with their proofs, that the proofs of several components cite | |
| `MCClean`, `MCRepair`, `MCFirewall`, `MCSockets`, `MCReport`, `MCCalls` | the small instances | |

**Clean.** Each system call that can see another directory than the one before
it is a step: `exists`, the listing, `is_file`/`stat` of one name, the second
`exists` and `stat` of the size (two steps: a name can vanish between them), and
`stat` and `unlink` of the loop (two steps again). `pc` is the place in
`_clean_coredumps`, `todo` what the current loop has left, `candidates`,
`reclaimed`, `removed` and `deletedBytes` are the locals of those names. Arrivals
(`Arrive`, which also rewrites a file), expiry (`Vanish`) and the passing of days
happen between any two steps. The directory may be absent, closed to the user, or
such that he may read its names but not look at them (`listable`), where `is_file`
raises. `stuck` names the files `unlink` refuses. A file's
name is a number because the code sorts names. `CleanFlatpak` and
`CleanPackageCache` are the other two actions of the report. `plan` remembers
what the last dry run announced; any change by others makes it void.

**Repair.** One call, with units that fail and recover at any moment, also while
`Ask` waits. A diagnosis keeps the failed units, the other issues and whether the
query of systemd failed; it may raise, as module `Doctor` shows in detail.
`systemctl` lists the failed units, fails in a way the code notices, or refuses with
code 1 and nothing on stdout, which the code takes for an empty list (`Answer`). `ResetFailed` names no unit, as the command does not, and
clears all that are failed by then; a non-zero code covers a time-out after which
the command may have worked. `clean()` is one step here, with its traceback.

**Firewall.** A rule is what the code looks for in its line. `Words` is the
point: iptables rules are stored with their chain's header, whose policy is one
more action word. `Kernel` says what the packet filter does with a new packet
and is used in properties only. `first` is the chain nft prints first.

**Sockets.** `ReadTable`, `ListProcesses`, `Visit` and `Assemble` are one table of
`/proc/net`, read once, and the walk over `/proc` that follows it; this is done for
tcp, udp and unix. `hidden` are the processes whose descriptors are not shown;
under `hidepid` their directories may not even be searched and `Visit` raises
(`Raises`). Processes open, close, fork and exit meanwhile. The
descriptors of one process are read in one step. Inode numbers are not used
twice, so a report is shorter than the cycle of the kernel's inode counter.

**Cli.** The command line is its relevant parts: the name, `--json` before or after
it, `--root` anywhere, whether words follow `trace`, and whether a report is asked for
as JSON with `--format`, which is what a report goes by instead of `--json` (`Printed`).
`sudo` may be missing,
refuse, make the caller root, or (`runas_default`) somebody else.

**Processes.** `/proc` is listed once; then each process costs four steps, for
`status`, `cmdline`, `fd` and the links, in the order of `inspect_process`. The
first two make the record unreadable when they fail, the others leave a field
None. `draft` is the record being read. A process is the user's, another's, a
kernel thread (no memory line, no program) or a zombie, and starts, exits and
is reaped between any two reads; `hidepid=1` closes the entries of others.
`PrintProcesses` is the handler: it sorts by size and formats, and formatting
None raises.

**Watch.** The round is `StampRound` (the clock), `ReadCounters` (the file),
`ReadSockets`, `Clear` (the terminal, and `previous_bandwidth`), `PrintNetwork`,
`WakeUp`. The stamp is taken before the file is read, and bytes may arrive between the
two. `truth` is what a perfect observer notes at each sample. An interface can be
removed and made anew, with its counter at zero; the wall clock can be set. The
interrupt is caught in the loop, not in the first report.

**Trace.** `run_command` has all its outcomes: a code, a command that cannot be
started (127), a time-out (124, where output may be bytes), an interrupt, output
that is no UTF-8. The trace file is made before and removed after; others may
remove it in between, or its directory may refuse.

**Doctor.** The facts, then `systemctl`, `journalctl` and, if that had nothing to
say, `dmesg`, then the Python files one by one while they are edited. A command
answers, is stopped, is missing, or fails with code 1 (which the code takes for an
answer) or another. `systemctl` remembers what that command did, for the
properties: the code does not. A file is fine or broken, or a program that is no UTF-8, or
makes `compile()` raise something the code does not catch (`Text`); `rglob()` may
raise as a whole (`RglobRaises`), but is otherwise one step. `Grow` is
`group_issues` as a fold. An issue's detail may be bytes, on which `--json` and
the titles of kernel lines raise.

**Security.** Signals and findings are functions of the host; the walk is
`os.walk` step by step: `NextBase`, `EnterDir` (a listing), `LstatCurrent`,
`LstatName`, `EndBase`, with the budget tested where the code tests it. A writable
directory is found twice, in its parent and when it is entered, as in the code. Without
root some directories cannot be listed (`closed`), and of what is below others,
`barred`, only the names are seen. With
`containersOnly` it is `lxperun containers`, which keeps its share.

**Report.** `agenda` is the order in which a handler reads its parts; each part is
a step, mounts and devices one step per item (`statvfs` refuses on the `Deaf`, among
them the mount points with a blank, whose `\040` the code does not decode). The firewall
section has decisions for the backends that answer, any subset of them (`MapAll`); the
security section names `MaxExposed` listeners at most, of those the socket tables list
(`Evidence`); a question to systemctl may go unanswered. For
`report` the file is named (`NameFile`) and written (`WriteFile`), beside another
call that does the same, while seconds pass and local time may be set back.

**Calls.** One component is called, the five others stay in an initial state
(`Idle`); the actions of the machine around it are that component's. The
commands that write (clean, repair) and the line itself have runs of their own:
no state is shared within one process.

## 3. The runs

| Run | Shows |
|---|---|
| `clean` | `OnlyArmedCallsAct`: dry runs and ordinary users change nothing. `QuietRemovesOnlyAged`, `QuietAccounting`, `QuietNeverRaises`, `VerdictSound`: with nobody else at work, only aged files go, the counts are those of the disk, there is no traceback, and the verdict is right. `PlanHonoured`: an apply does what the dry run before it announced. `CallEnds`: every call comes back. `KeepsPromise`: it implements `Sweep`. |
| `repair` | `ConsentBeforeReset`, `DryRunHarmless`; `SteadyResetExact` and `DoneMeansNoneFailed`: while no unit changes, "done" means what it says, unless the first query failed or was refused; `SkippedExplained`, `ReportedAsAsked`: the report gives the reason and tells of the prompt; `RepairEnds`: nothing but the prompt holds it up, and after an answer nothing does. |
| `repair_shown` | a unit that fails during the prompt is cleared and shown nowhere (finding) |
| `firewall` | `PlainDecisionsExact`: for INPUT rules on single destination ports the decision is the kernel's (from iptables only under a closed policy). |
| `firewall_decision` | under the policy ACCEPT a dropped port is reported as allowed (finding) |
| `sockets` | `NoPhantomOwner`, `SteadySocketsExact`; `ReportEnds`: it ends, and with a report unless `hidepid` closes a process it meets. |
| `cli` | `RootMeansSudo`, `NoSudoLoop` |
| `cli_trace` | `lxperun trace` runs the snapshot (finding) |
| `calls` | `SteadyProcessesExact`: the listing is sorted, counted and exact for what did not change. `RatesExact`: each byte is in one round's rate, and none is lost. `TraceReadThenRemoved`. `KernelLogAccounted`: nothing a log command printed is lost or told twice. `SteadyFilesExact`: a file is told exactly if its text read as UTF-8 does not compile. `GroupsLossless`. `WalkExact`: only a spent budget leaves paths out. `CommandEnds`: each command ends, a watch excepted. |
| `report` | `SteadySectionsAgree`: parts read at different times agree on what did not change: a mount point is told once however often it is mounted over, a listener alike by the network, security and firewall sections, as far as the limit of evidence and the backends that answer go. `ReportsKept`: no saved report replaces another, but in the same second or with the clock set back. |
| `doctor_silence` | a `systemctl`, `journalctl` or `dmesg` that refuses with code 1 leaves the diagnosis silent, as if all were well (finding) |
| `processes_text` | without root the table of processes ends in a traceback (finding) |

Each property of a passing run has a mutant, a plausible mistake in one
definition, under which TLC finds it violated.

**The words "quiet" and "steady".** Half of Clean's properties have the premise that nobody else
changed the directory during the call. It is needed: without it the code does
raise, does remove a file rewritten since the scan, and does miscount. The
premise is an ordinary state (most calls meet it), the two races it excludes are the
code's own (section 5), the days still pass during such a call, and `unlink` may still refuse. In the modules that only look the
premise is weaker: the one thing spoken of (a process, a socket, a file, a
path, a unit, a mount) did not change, whatever else did.

**Bounds.** *Clean*: two names (one to keep and one to remove, or to remove and be
refused), two sizes so that sums differ, two days and a threshold of one so that
a file can come of age during a call, one change by others, which suffices for
each of the races at a line, and two calls: a dry run and an apply, or an apply
after an apply. *Repair*: two units, so that one can fail after the diagnosis while
the other is listed; one serious and one slight issue. Nothing else is bounded.
*Firewall*: two rules, so that their order matters, in any of two chains, two
ports, two policies. *Sockets*: two processes and two sockets; two changes, so that
a socket can be handed over by a fork and an exit. *Cli*: none, it is finite.
*Processes*: two numbers, so that one can change while the other is read, two
sizes, the largest one shown, two changes (an exit and a reap, or a reap and a
new process of the same number). *Watch*: one interface, one byte, one second, one new
birth, one setting of the clock, but any number of rounds: a wrong rate needs one
of each. *Trace*: the three tools the advice names; nothing else is bounded. *Doctor*:
one set of facts, one log of five lines with two repeated, and the empty one; four
lines kept instead of thirty, so that the tail is cut and repeats are in it; two
files, one of them hidden; one edit. *Security*: a directory with a
directory, a file below that and a link, and an empty base; a budget of three, less than
the five matches there can be; one directory closed or barred, one change. *Report*
(run `report`): one service; two mount points, one of them mounted over, one deaf; one
device; two listeners, which are symmetric, and a limit of one, so that the limit bites;
one change, which comes at any point and leaves all else steady; one second. In
the `calls` run, which shows with it that each command ends, the report has no changes
and no listener. `calls` has about 611 000
distinct states and takes two to three minutes.

**Fairness.** Weak fairness of the program's own steps: Python runs until it returns,
its loops are over listings already taken, and `run_command` gives every command
a time-out, so a command always returns. There is none for the prompt, the
environment, the interrupt, or for a call being made at all. A `statvfs` on a
file system whose server hangs would block for ever; that it returns is assumed
(`storage.py:109` gives it no time limit). `Firewall` and `Cli` have no liveness
property and no fairness: their steps are a straight line.

## 4. What is proved

Every invariant and every action property that a run checks, and the refinement, is
also a theorem, for all values of the constants that meet the named assumptions:
`CleanAssumption`, `RepairAssumption`, `FirewallAssumption`, `SocketsAssumption`,
`ProcessesAssumption`, `WatchAssumption`, `TraceAssumption`, `DoctorAssumption`,
`SecurityAssumption`, `ReportAssumption` (`Cli` needs none). They say that sets are finite
where cardinalities are taken or a minimum exists, that sizes, days, seconds, budgets
and bounds are natural numbers, and what shape the data has: a path in `Security` is
a sequence of names whose proper prefixes are directories and whose roots are the
critical paths, each listed once; every line a log may hold has a title in `Doctor`. So the
theorems speak of any number of files, processes, rules, mounts and log lines, and of
any number of changes by others.

The invariants are needed because the properties speak of one moment, the end
of a call, and are true there for reasons that lie several steps back.

* `CleanProofs`: `TypeCorrect`; `OnlyArmed`, from the inductive `ArmedInv`, which
  adds that the deleting phases are entered only by an armed call; `NeverRaises`
  and `RemovesOnlyAged`, from an invariant with three parts: which phases hold
  candidates (`PhaseInv`), what the cutoff is relative to the clock (`CutoffInv`:
  days may pass but only forward) and that in a quiet call each candidate still
  to be removed is the aged file it was (`AgedInv`); `VerdictIsSound`, which adds
  that the scan leaves no aged file out (`FoundInv`), that a candidate the loop has
  passed is gone or was refused (`RefusedInv`) and that the counter is zero only
  if nothing went (`CountInv`).
  `CountersAreExact` (`QuietAccounting`) and `PlansAreHonoured` (`PlanHonoured`) are about
  sums of bytes. The sum of the community modules is a recursive function on
  the subsets of a set; `WeightsExist`, `WeightsUnique` and `BytesWeigh` show by
  induction on the number of files that it is there and the same in whatever
  larger set it is taken, `BytesMore` that a file more adds its size. Then
  `CounterInv` says of each point of the loop what `deleted_bytes` is: what was freed, the
  sizes of the files passed and refused, and between `stat` and `unlink` that of the
  file at hand. `SettledInv` carries it to the end, `MeasuredInv` does the same for
  the sum measured before, and `PlanInv` ties an apply to the dry run before it:
  what is left of the plan is what is aged, and what was announced is what was freed
  and what is left.
  `Refinement`: `Spec` implements `Sweep`, step by step; `PromiseIsSafe` shows of `Sweep` alone
  what it is worth (only what was condemned is taken, and only when armed), and
  `CleanerIsSafe` is the two together: it holds without the premise "quiet".
  `NeverStuck` and `StepsRunOut` are the safety half of `CallEnds`: a call that is not
  over has a next step, each step of the code lowers a pair of natural numbers
  (`Stage`, `Left`), and nobody else's step touches it.
* `RepairProofs`: `TypeCorrect`; `Consent` and `AskedAsReported`, from an invariant
  that ties the place in the call to the flags, the diagnosis and the answer;
  `SteadyReset`, from one that says that while nothing changed the failed units
  are those diagnosed, until the command; `DryRunIsHarmless` and
  `SkippedIsExplained`, from `OutcomeInv`: a state of the action
  comes with what led to it; `DoneIsClean`, from `AnsweredInv`: while nothing changed,
  an answered query listed exactly what is failed (a refused one did not, and is excepted).
* `FirewallProofs`: `FirewallTypeCorrect` and `PlainExact`, from `MappedInv`:
  what is reported is what the listings say, for neither changes once it is read. The rest
  of `PlainExact` is no induction: in a plain listing the rules that name a port are those
  the kernel takes, and the one printed first is the first (`FirstIsLeast`).
* `SocketsProofs`: `TypeCorrect`; `OwnersWereOwners`, from `SeenInv`: every pair in
  the map was true since /proc was listed; `SteadySockets`, from `SteadyInv`: for
  a socket nothing happens to, its line, the owners found so far and its entry
  are exact at every point. Both rest on `MachineInv` (only the living hold
  sockets, an open socket has a holder) and on the lemma `ProcessStep`: a step of
  the processes leaves the report and the untouched sockets alone. `StepsRunOut` is the safety
  half of `ReportEnds`.
* `CliProofs`: `TypeCorrect`; `NoThirdProcess`, from `PlaceInv`: who runs which
  process and how often sudo was started; `RootIsSudo`, from `RootInv`: what ran,
  ran as whom it was to.
* `ProcessesProofs`, which also holds the proofs about `Watch`, `Trace` and `Security`:
  * `ProcessesTypeCorrect`; `SteadyProcesses`, from `ListingInv`: where the walk
    is (`PlaceInv`), that the records are below what is pending (`OrderInv`), that the
    counter is theirs (`TotalInv`), and that the records and the draft of processes
    nothing happened to are exact so far (`KnownInv`, `DraftInv`).
  * `WatchTypeCorrect`; `RatesAreExact`, from `CounterInv`: a counter is
    never ahead of what ever arrived; and `RoundInv`: at each point of a round the
    snapshot kept and the one being taken fit what the observer noted when they were
    taken, in time and in bytes.
  * `TraceTypeCorrect`; `ReadThenRemoved`, from `TraceFileInv` (where in the call the
    file exists and who may have taken it) and `LinesInv` (whose lines were read).
  * `SecurityTypeCorrect`; `WalkIsExact`, from `WalkInv`: the directories still to come are
    never below one another and nothing below them has been looked at (`FrontierInv`), so
    for each node that nobody touches the matches there are and the visits still to
    come make up what is due (`CountInv`), as long as the budget lasts (`BudgetInv`).
* `CallsProofs`, which holds the proofs about `Report` and `Doctor` and those of the composition:
  * `ReportTypeCorrect`; `ReportsAreKept`, from two halves: a file written whole is on the
    disk until somebody writes to its path (`KeptInv`), and while the clock only runs
    forward the path is the second the file was named at (`NamedInv`); `SectionsAgree`, from
    `LookedInv` (a section shows of what did not change what the machine has: a step of the
    machine leaves alone what it does not touch) and, for the mounts, which take a
    loop, `MountsInv`: every mount point met so far is in the section once, if `statvfs`
    answered, and an untouched one is mounted exactly if it was met or is still to come.
  * `DoctorTypeCorrect`; `KernelLogKept`, from `LogInv`: until the log is asked nothing is told of
    it, and then each step's issues are those of its answer; `SteadyFiles`, from `FilesInv`: a
    file still to be read has no issue yet, one that was read and not edited has
    those it is due; `GroupsKept`, from `GroupInv` and an induction over the issues, which are
    grouped one by one.
  * `EachComponentAlone`: `CallsSpec` implements the specification of each component; with it
    `CallsTypeCorrect` and `CallsAreTrue` carry every theorem about a component over to the
    program.

**Induction over data.** What `unique` lines, groups, agendas and sums of bytes are is computed
step by step. The proofs state such an induction about a set of numbers that
contains 0 and with each number the next (`UpTo` in `DataLemmas`), and show that the
function so computed exists (`Folded`, `WeightsExist`) before they reason about it.

**Only model-checked.** The liveness properties: `CallEnds`, `RepairEnds`, `ReportEnds` and
`CommandEnds`. Fairness, and that a step is enabled, are out of the prover's reach; what
can be said without them is in the two theorems `StepsRunOut` and in `NeverStuck`. The
five properties of the findings are violated, so there is nothing to prove.

## 5. Findings

Five, each with its run.

* repair: `reset-failed` is given no names, so it clears what failed during the prompt
  too, and the report shows it nowhere (`repair.py:143`; `repair_shown`).
* doctor: code 1 of `systemctl`, `journalctl` and `dmesg` is taken for an empty answer, so
  a bus that cannot be reached or a log that is refused looks like health
  (`doctor.py:252`, 295, 322; `doctor_silence`). In repair it leads to a reset that is
  "done" over failed units, which `DoneMeansNoneFailed` excepts (`refused`).
* firewall: the chain header is among the action words (`firewall.py:170`;
  `firewall_decision`).
* cli: the positional words of `trace` share the `dest` of the command (`cli.py:97`;
  `cli_trace`); None is formatted as a number in the table of processes (`cli.py:882`;
  `processes_text`).

In the models too, and seen there as what the properties except; none has a run
of its own:

* clean: bytes are counted before `unlink` (`clean.py:135`; `QuietAccounting` says by how
  much the total is wrong); a directory the user may not look into, and a file that goes
  between `exists()` and `stat()`, end it in a traceback (`clean.py:95`, 112); age is
  not looked at again before the removal (`clean.py:133`).
* network: `exists()` stands outside the `try` and raises under `hidepid`
  (`network.py:268`, `Raises`); only IPv4 tables are read (`network.py:111`), and an
  idle UDP socket is no listener for `network.py:201`.
* doctor: files are read as UTF-8 whatever they declare (`doctor.py:145`, the text
  "encoded"); ignored names are sought in the path of the root itself (`doctor.py:140`,
  the root "hidden").
* services: failed units of other types than service, socket and timer are not
  listed (`services.py:76`, `Typed`).

Met while modelling and kept in the models, where nothing in the repository
says otherwise: a container report runs a whole security scan of its own
(`containers.py:32`), so two parts of a report can differ; `Path.exists()` raises
on `/proc/1/cgroup` under `hidepid=1` (`CollectSignals`); a device unplugged after
it was listed has the size None, on which the table raises (`Raises`); the bytes
of a timed-out command reach `json.dumps()` and the titles of kernel lines
(`PrintTrace`, `Printable`); output that is no UTF-8 leaves `run_command` uncaught
(`Undecodable`); a writable directory is listed twice and so spends two units of
the budget (`Due`); null bytes or an expression nested too deep in a Python file end
the diagnosis, as does a directory that vanishes under `rglob()` (`ReadFile`,
`RglobRaises`).

## 6. Not modelled, and what is left

* `performance`, `hardware`, `capabilities`, `rings`, `compatibility`: each value is
  a function of one file or of the tools present. They have no state, no order
  and no failure but "not there".
* `ui`, `formatting`, the layout of all sections, the Markdown and HTML of
  `report.py`: wording. Where a conversion can fail (None, bytes) it is modelled.
* In `network`: the ARP and conntrack tables, and which sockets are called listeners; in `storage`: the I/O counters; in
  `linux`: the parsers of the snapshot. Each reads one file once.
* `report --output` and the text formats written to standard output: a write to a
  path the user names, or none.
* How a path that may not be searched behaves in Python 3.14 and later, where
  `exists()` answers False: the models follow the versions the package supports
  first (3.10 and on), in which it raises.
* Rows of `/proc/net` whose inode is 0, and a process that shows some of its descriptors.
* Sections of a report that nothing else shows (processes, the walk, the other issues of
  doctor) are in their own modules and not again in `Report`.

What would come next: `Repair` over `Doctor` in place of its own `Diagnose`; the safety half of
`CommandEnds` and `RepairEnds`. The walk of `Security` follows a tree that may grow under it; a directory
it enters leaves the ones still to come and only deeper ones join them, so the measure there would be the
nodes below the directories still to come, whatever the bound on changes is.
