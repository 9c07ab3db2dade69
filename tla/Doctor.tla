-------------------------------- MODULE Doctor -------------------------------
(***************************************************************************)
(* src/lxperun/doctor.py and the `doctor` handler of cli.py: one           *)
(* diagnosis, from the facts of the snapshot over systemctl, journalctl    *)
(* and dmesg to the Python files of a project, which are edited and        *)
(* removed meanwhile; then the issues are grouped and printed.             *)
(*                                                                         *)
(* An issue is its severity, its source, what it is about, and whether its *)
(* detail is bytes, as the stderr of a command that was stopped is.        *)
(***************************************************************************)
EXTENDS Integers, Sequences, FiniteSets, SequencesExt

CONSTANTS Facts,           \* what a snapshot may say: memory, swap, disk, taint, nics
          FailedUnit,      \* units systemctl may list as failed
          KernelLine,      \* lines of the kernel's log
          TitleOf,         \* _kernel_log_title(): of each line and of each excuse
          LogTail,         \* 30: lines looked at
          KernelLog,       \* logs, as sequences of such lines
          File,            \* *.py files of the project
          Hidden,          \* those of them under an ignored directory
          MaxEdits         \* bound: edits of the files

ASSUME DoctorAssumption ==
  /\ Hidden \subseteq File /\ LogTail \in Nat \ {0} /\ MaxEdits \in Nat
  /\ KernelLog \subseteq Seq(KernelLine)
  /\ {"no journal", "no dmesg"} \cup KernelLine \subseteq DOMAIN TitleOf
  /\ IsFiniteSet(FailedUnit) /\ \A f \in Facts : IsFiniteSet({n.name : n \in f.nics})

VARIABLES
  text, edits,            \* the machine: what is in each file; times one was edited
  projectRoot,                   \* the project root: plain, missing, or below an ignored part
  doctorPc, unread,       \* where diagnose() is; files rglob() found, not yet read
  issues, groups,         \* DoctorReport.issues; group_issues()
  systemctl,              \* history: what became of the question to it
  journal, dmesg,         \* history: how each was asked and what it said
  edited                  \* history: files edited since they were listed

doctorVars == <<text, edits, projectRoot, doctorPc, unread, issues, groups, systemctl,
               journal, dmesg, edited>>
project == <<text, edits, projectRoot, edited>>

\* What is in a file: a program; what Python refuses; a program that is no
\* UTF-8 (PEP 263), or begins with a byte order mark; what makes compile()
\* raise something else: null bytes before Python 3.12 (ValueError), an
\* expression nested too deep (RecursionError).  Or it may not be read.
Text == {"fine", "broken", "encoded", "crashing", "refused", "absent"}
\* What run_command() returns: its code, the lines of stdout, and whether the
\* detail (stderr or stdout) is bytes.  dmesg and journalctl refuse with code 1.
Missing == [code |-> "missing", lines |-> <<>>, bytes |-> FALSE]
Answer  == [code : {"0"}, lines : KernelLog, bytes : {FALSE}]
             \cup [code : {"1", "other"}, lines : {<<>>}, bytes : {FALSE}]
             \cup [code : {"124"}, lines : {<<>>}, bytes : BOOLEAN]
             \cup {Missing}

DoctorInit ==
  /\ text \in [File -> Text] /\ edits = 0 /\ edited = {}
  /\ projectRoot \in {"plain", "missing", "hidden"} /\ doctorPc = "facts"
  /\ unread = {} /\ issues = <<>> /\ groups = <<>>
  /\ systemctl = "absent" /\ journal = Missing /\ dmesg = Missing

\* An edit before the files are listed only makes of them others to begin with.
Edit(f, t) ==
  /\ doctorPc = "files" /\ edits < MaxEdits /\ edits' = edits + 1
  /\ text' = [text EXCEPT ![f] = t] /\ edited' = edited \cup {f}
  /\ UNCHANGED <<projectRoot, doctorPc, unread, issues, groups, systemctl, journal, dmesg>>
------------------------------------------------------------------------------
(* _resource_checks(), _kernel_checks(), _network_checks() *)

Issue(sev, src, what) == [severity |-> sev, source |-> src, what |-> what, bytes |-> FALSE]
If(condition, issue) == IF condition THEN <<issue>> ELSE <<>>
Usage(src, percent, full, high) == If(percent >= 95, Issue("critical", src, full))
                                     \o If(percent \in 85..94, Issue("warning", src, high))
Offline(nics) == SetToSeq({n.name : n \in {m \in nics : /\ m.name # "lo" /\ m.carrier
                                                        /\ ~m.ipv4}})
FactIssues(f) ==
  Usage("memory", f.memory, "RAM very high", "RAM high")
    \o If(f.swapTotal # 0 /\ 10 * f.swapFree < f.swapTotal, Issue("warning", "swap", "exhausted"))
    \o Usage("disk", f.disk, "disk almost full", "disk high")
    \o If(f.tainted, Issue("warning", "kernel", "tainted"))
    \o [i \in DOMAIN Offline(f.nics) |-> Issue("warning", "network", Offline(f.nics)[i])]

CheckFacts ==
  /\ doctorPc = "facts" /\ doctorPc' = "systemd"
  /\ \E f \in Facts : issues' = FactIssues(f)
  /\ UNCHANGED <<project, unread, groups, systemctl, journal, dmesg>>
------------------------------------------------------------------------------
(* The three commands *)

Unanswered(code) == code \notin {"0", "1", "missing"}
Excuse(src, what, bytes) == [Issue("info", src, what) EXCEPT !.bytes = bytes]

\* Where systemctl is absent, or refuses with code 1 and nothing on stdout, no
\* unit is listed, as where none is failed.
CheckSystemd ==
  /\ doctorPc = "systemd" /\ doctorPc' = "journal"
  /\ \/ \E units \in SUBSET FailedUnit :
          /\ systemctl' = "listed"
          /\ issues' = issues \o [i \in DOMAIN SetToSeq(units) |->
                                    Issue("error", "systemd", SetToSeq(units)[i])]
     \/ systemctl' \in {"absent", "refused"} /\ UNCHANGED issues
     \/ /\ systemctl' = "failed"
        /\ \E b \in BOOLEAN : issues' = Append(issues, Excuse("systemd", "no systemd", b))
  /\ UNCHANGED <<project, unread, groups, journal, dmesg>>

UniqueAll(lines) == lines                       \* a faulty variant
UniqueLines(lines) ==
  LET seen[n \in 0..Len(lines)] ==
        IF n = 0 THEN <<>>
        ELSE IF Contains(seen[n - 1], lines[n]) THEN seen[n - 1]
        ELSE Append(seen[n - 1], lines[n])
  IN  seen[Len(lines)]
Tail30(lines) == SubSeq(lines, IF Len(lines) > LogTail THEN Len(lines) - LogTail + 1 ELSE 1,
                        Len(lines))
LogIssues(src, lines) ==
  LET unique == UniqueLines(Tail30(lines)) IN
  [i \in DOMAIN unique |-> Issue("error", src, unique[i])]

\* journalctl is given the number of lines, of dmesg's output the last are
\* taken.  An empty answer of journalctl leads on to dmesg, a refusal does not.
CheckJournal(a) ==
  /\ doctorPc = "journal" /\ journal' = a
  /\ issues' = issues \o IF Unanswered(a.code) THEN <<Excuse("kernel-log", "no journal", a.bytes)>>
                         ELSE LogIssues("kernel-log", a.lines)
  /\ doctorPc' = IF Unanswered(a.code) \/ a.lines # <<>> THEN "list" ELSE "dmesg"
  /\ UNCHANGED <<project, unread, groups, systemctl, dmesg>>

CheckDmesg(a) ==
  /\ doctorPc = "dmesg" /\ doctorPc' = "list" /\ dmesg' = a
  /\ issues' = issues \o IF Unanswered(a.code) THEN <<Excuse("dmesg", "no dmesg", a.bytes)>>
                         ELSE LogIssues("dmesg", a.lines)
  /\ UNCHANGED <<project, unread, groups, systemctl, journal>>

\* Output that is no UTF-8 raises in run_command(), and nobody catches it.
Undecodable ==
  /\ doctorPc \in {"systemd", "journal", "dmesg"} /\ doctorPc' = "raised"
  /\ UNCHANGED <<project, unread, issues, groups, systemctl, journal, dmesg>>
------------------------------------------------------------------------------
(* python_syntax_errors() *)

\* rglob() raises when a directory it met is gone before it is listed, in
\* Python 3.10 to 3.12; so does exists() below a directory closed to the user.
RglobRaises ==
  /\ doctorPc = "list" /\ projectRoot # "missing" /\ doctorPc' = "raised"
  /\ UNCHANGED <<project, unread, issues, groups, systemctl, journal, dmesg>>

ListFiles ==
  /\ doctorPc = "list" /\ edited' = {}
  /\ unread' = {f \in File : projectRoot # "missing" /\ text[f] # "absent"}
  /\ doctorPc' = IF unread' = {} THEN "print" ELSE "files"
  /\ UNCHANGED <<text, edits, projectRoot, issues, groups, systemctl, journal, dmesg>>

\* any(part in ignored_dirs for part in path.parts): the root's parts count.
Ignored(f) == projectRoot = "hidden" \/ f \in Hidden
CannotCompileRefused(t) == t \in {"broken", "encoded", "refused"}   \* a faulty variant
CannotCompile(t) == t \in {"broken", "encoded"}

\* Every file is read as UTF-8; only SyntaxError and UnicodeDecodeError are
\* taken for a finding, and what compile() raises besides ends the diagnosis.
ReadFile(f) ==
  /\ doctorPc = "files" /\ f \in unread
  /\ \/ /\ ~Ignored(f) /\ text[f] = "crashing" /\ doctorPc' = "raised"
        /\ UNCHANGED <<unread, issues>>
     \/ /\ Ignored(f) \/ text[f] # "crashing"
        /\ unread' = unread \ {f}
        /\ issues' = issues \o If(~Ignored(f) /\ CannotCompile(text[f]), Issue("error", "python", f))
        /\ doctorPc' = IF unread' = {} THEN "print" ELSE "files"
  /\ UNCHANGED <<project, groups, systemctl, journal, dmesg>>
------------------------------------------------------------------------------
(* group_issues() and the handler *)

Log == {"kernel-log", "dmesg"}
IssueTitle(i) == IF i.source \in Log THEN TitleOf[i.what] ELSE i.what
Key(i) == <<i.severity, IssueTitle(i)>>
GrowLast(gs, i) ==                        \* a faulty variant: only runs are grouped
  IF gs # <<>> /\ gs[Len(gs)].key = Key(i)
    THEN [gs EXCEPT ![Len(gs)].of = Append(@, i)]
    ELSE Append(gs, [key |-> Key(i), of |-> <<i>>])
Grow(gs, i) ==
  IF \E n \in DOMAIN gs : gs[n].key = Key(i)
    THEN [n \in DOMAIN gs |-> IF gs[n].key = Key(i) THEN [gs[n] EXCEPT !.of = Append(@, i)]
                              ELSE gs[n]]
    ELSE Append(gs, [key |-> Key(i), of |-> <<i>>])
GroupIssues(s) ==
  LET grown[n \in 0..Len(s)] == IF n = 0 THEN <<>> ELSE Grow(grown[n - 1], s[n])
  IN  grown[Len(s)]

\* "bluetooth" in a lower-cased detail that is bytes: TypeError, as is bytes
\* given to json.dumps().  --ungroup takes both.
Printable(mode, i) == \/ ~i.bytes
                      \/ mode = "raw"
                      \/ mode = "grouped" /\ i.source \notin Log

PrintDoctor(mode) ==
  /\ doctorPc = "print"
  /\ doctorPc' = IF \A n \in DOMAIN issues : Printable(mode, issues[n]) THEN "done" ELSE "raised"
  /\ groups' = IF mode = "grouped" /\ doctorPc' = "done" THEN GroupIssues(issues) ELSE <<>>
  /\ UNCHANGED <<project, unread, issues, systemctl, journal, dmesg>>

DoctorStep == \/ CheckFacts \/ CheckSystemd \/ Undecodable
              \/ RglobRaises \/ ListFiles
              \/ \E m \in {"grouped", "raw", "json"} : PrintDoctor(m)
              \/ \E a \in Answer : CheckJournal(a) \/ CheckDmesg(a)
              \/ \E f \in File : ReadFile(f)
DoctorChange == \E f \in File, t \in Text : Edit(f, t)
DoctorNext == DoctorStep \/ DoctorChange
DoctorSpec == DoctorInit /\ [][DoctorNext]_doctorVars
------------------------------------------------------------------------------
\* What an issue says, and what it is about.
Severity == {"info", "warning", "error", "critical"}
Source == {"memory", "swap", "disk", "kernel", "network", "systemd", "kernel-log", "dmesg", "python"}
Subject == {"RAM very high", "RAM high", "disk almost full", "disk high", "exhausted", "tainted",
            "no systemd", "no journal", "no dmesg"}
             \cup FailedUnit \cup KernelLine \cup File
             \cup UNION {{n.name : n \in f.nics} : f \in Facts}
IssueRecord == [severity : Severity, source : Source, what : Subject, bytes : BOOLEAN]
Title == Subject \cup {TitleOf[l] : l \in DOMAIN TitleOf}

DoctorTypeOK ==
  /\ text \in [File -> Text] /\ edits \in 0..MaxEdits /\ edited \in SUBSET File
  /\ projectRoot \in {"plain", "missing", "hidden"} /\ unread \in SUBSET File
  /\ doctorPc \in {"facts", "systemd", "journal", "dmesg", "list", "files", "print",
                   "done", "raised"}
  /\ issues \in Seq(IssueRecord)
  /\ groups \in Seq([key : Severity \X Title, of : Seq(IssueRecord)])
  /\ systemctl \in {"absent", "refused", "failed", "listed"}
  /\ journal \in Answer /\ dmesg \in Answer

LogRead == doctorPc \in {"list", "files", "print", "done"}
Recent(a) == ToSet(Tail30(a.lines))

ToldOfLog == {n \in DOMAIN issues : issues[n].source \in Log}

\* The fallback of doctor.py:295: nothing that journalctl or dmesg printed is
\* lost or told twice.  Each recent line of the command the diagnosis goes by
\* is in it once, however often the log repeats it, and no line of the other;
\* a command that was stopped, or failed with a code of its own, is named.
\* Code 1 is not: it is taken for an empty log (see SilenceMeansAnswered).
KernelLogAccounted ==
  LogRead =>
    LET said == IF journal.lines # <<>> \/ journal.code \in {"124", "other"} THEN journal ELSE dmesg
    IN
    /\ ToldOfLog = {} <=> /\ journal.lines = <<>> /\ dmesg.lines = <<>>
                          /\ said.code \in {"0", "1", "missing"}
    /\ \A m, n \in ToldOfLog : issues[m].what = issues[n].what => m = n
    /\ said.code \in {"0", "1", "missing"} =>
         {issues[n].what : n \in ToldOfLog} = Recent(said)

\* doctor.py:257 "Could not query failed systemd units." and doctor.py:329 "Try
\* running doctor with sudo or check kernel.dmesg_restrict.": a query that failed
\* is told.  A diagnosis with nothing of systemd in it has a list of units behind
\* it, and one with nothing of the kernel's log an answer that it is empty, unless
\* the commands are not installed.
SilenceMeansAnswered ==
  LogRead =>
    /\ (\A n \in DOMAIN issues : issues[n].source # "systemd") => systemctl \in {"listed", "absent"}
    /\ ToldOfLog = {} => "0" \in {journal.code, dmesg.code} \/ {journal.code, dmesg.code} = {"missing"}

\* The issues about the file f.
AboutFile(f) == {n \in DOMAIN issues : issues[n].source = "python" /\ issues[n].what = f}

\* Files come and go during the scan (doctor.py:139).  A file nobody edits is
\* reported, once, if and only if its text, read as UTF-8, does not compile, unless
\* it or the root lies in an ignored directory; and no other is reported without having been edited.
SteadyFilesExact ==
  doctorPc \in {"print", "done"} =>
    \A f \in File \ edited :
      Cardinality(AboutFile(f)) =
        IF projectRoot = "plain" /\ f \notin Hidden /\ text[f] \in {"broken", "encoded"}
          THEN 1 ELSE 0

\* The issues at the places I, in their order.
InOrder(of, I) ==
  Len(of) = Cardinality(I) /\ \A i \in I : of[Cardinality({j \in I : j <= i})] = issues[i]

\* The groups of doctor.py:61 are a partition: no two have the same severity
\* and title, and each holds all the issues that have its own, in their order.
GroupsLossless ==
  groups # <<>> =>
    /\ \A m, n \in DOMAIN groups : groups[m].key = groups[n].key => m = n
    /\ \A n \in DOMAIN groups :
         InOrder(groups[n].of, {i \in DOMAIN issues : Key(issues[i]) = groups[n].key})
    /\ {Key(issues[n]) : n \in DOMAIN issues} = {groups[n].key : n \in DOMAIN groups}
==============================================================================
