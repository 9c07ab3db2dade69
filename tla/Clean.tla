-------------------------------- MODULE Clean --------------------------------
(***************************************************************************)
(* src/lxperun/clean.py: `lxperun clean`, one call after another, while    *)
(* systemd-coredump and systemd-tmpfiles keep changing the coredump        *)
(* directory.  Every system call of the coredump part that can see a       *)
(* different directory from the one before it is a step of its own.        *)
(*                                                                         *)
(* A file is its name (a natural: names are visited in their order), its   *)
(* kind, modification time in days and size.  Messages, evidence and       *)
(* command lines are left out; which tool ran is kept.                     *)
(***************************************************************************)
EXTENDS Integers, FiniteSets, FiniteSetsExt

CONSTANTS File,        \* names in the coredump directory
          Size,        \* sizes a file may have
          Host,        \* sets of tools a machine may have installed
          OlderThan,   \* --older-than-days
          MaxNow,      \* bound: last day of the clock
          MaxChanges,  \* bound: changes the environment makes to the directory
          MaxCalls     \* bound: calls of clean()

ASSUME CleanAssumption ==
  /\ File \subseteq Nat /\ IsFiniteSet(File)
  /\ Size \subseteq Nat
  /\ Host \subseteq SUBSET {"flatpak", "dnf", "pacman", "apt-get"}
  /\ OlderThan \in Nat /\ MaxNow \in Nat /\ MaxChanges \in Nat /\ MaxCalls \in Nat

VARIABLES
  fs, now, stuck, dir,            \* the directory; names unlink refuses; dir's state
  tools, root,                    \* installed programs; effective uid is 0
  dryRun, pc,                     \* the call's flag and where it stands
  cutoff, todo, candidates,       \* locals of _clean_coredumps
  reclaimed, removed, deletedBytes,
  report, total, advice,          \* the CleanReport
  changes, calls,                 \* counters of the bounds
  unlinked, freed, quiet, ran,    \* history of this call: names and bytes really
                                  \* freed, no change by others, programs started
  plan                            \* history: what the last dry run announced

envVars   == <<fs, now, stuck, dir, tools, root>>
fileVars  == <<cutoff, todo, candidates, reclaimed, removed, deletedBytes>>
reportVars == <<report, total, advice>>
histVars  == <<unlinked, freed, quiet, ran, plan>>
vars == <<envVars, fileVars, reportVars, histVars, dryRun, pc, changes, calls>>

NoFile == [kind |-> "none", mtime |-> 0, size |-> 0]
Entry  == [kind : {"file", "other"}, mtime : 0..MaxNow, size : Size] \cup {NoFile}
Part  == {"coredumps", "flatpak", "package-cache"}
State == {"none", "unavailable", "done", "planned", "skipped", "failed"}
Tool  == {"flatpak", "dnf", "pacman", "apt-get"}
Manager == Tool \ {"flatpak"}
Resting == {"idle", "returned", "raised"}
Phase == Resting \cup {"exists", "list", "scan", "measure", "size", "delete",
                       "unlink", "flatpak", "package", "return"}

Present(f) == fs[f].kind # "none"
Aged(f)    == fs[f].kind = "file" /\ fs[f].mtime <= cutoff
Next1(f)   == f \in todo /\ \A g \in todo : f <= g   \* sorted(..., key=name)
Plan       == [valid : BOOLEAN, files : SUBSET File, bytes : Nat, cutoff : Int]
NoPlan     == [valid |-> FALSE, files |-> {}, bytes |-> 0, cutoff |-> 0]

Init ==
  /\ fs \in [File -> [kind : {"file", "other"}, mtime : {0}, size : Size] \cup {NoFile}]
  /\ now \in 0..MaxNow
  /\ stuck \in SUBSET File
  /\ root \in BOOLEAN
  /\ dir \in {"absent", "open"} \cup (IF root THEN {} ELSE {"closed", "listable"})
  /\ tools \in Host
  /\ dryRun = TRUE /\ pc = "idle"
  /\ cutoff = 0 /\ todo = {} /\ candidates = {}
  /\ reclaimed = 0 /\ removed = 0 /\ deletedBytes = 0
  /\ report = [p \in Part |-> "none"] /\ total = 0 /\ advice = {}
  /\ changes = 0 /\ calls = 0
  /\ unlinked = {} /\ freed = 0 /\ quiet = TRUE /\ ran = {}
  /\ plan = NoPlan
------------------------------------------------------------------------------
(* The environment: dumps arrive, are rewritten or expire; days pass. *)

Disturb(f, file) ==
  /\ changes < MaxChanges /\ changes' = changes + 1
  /\ fs' = [fs EXCEPT ![f] = file]
  /\ quiet' = FALSE
  /\ plan' = NoPlan
  /\ UNCHANGED <<now, stuck, dir, tools, root, fileVars, reportVars, unlinked,
                 freed, ran, dryRun, pc, calls>>

Arrive(f)  == fs[f].kind \in {"none", "file"} /\ f \notin stuck /\ dir # "absent" /\
              \E s \in Size : Disturb(f, [kind |-> "file", mtime |-> now, size |-> s])
Vanish(f)  == fs[f].kind = "file" /\ f \notin stuck /\ dir # "absent" /\
              Disturb(f, NoFile)

Tick == /\ now < MaxNow /\ now' = now + 1
        /\ UNCHANGED <<fs, stuck, dir, tools, root, fileVars, reportVars, histVars,
                       dryRun, pc, changes, calls>>
------------------------------------------------------------------------------
(* clean() and _clean_coredumps() *)

Call ==
  /\ pc \in Resting /\ calls < MaxCalls
  /\ pc' = "exists" /\ calls' = calls + 1
  /\ dryRun' \in BOOLEAN
  /\ cutoff' = 0 /\ todo' = {} /\ candidates' = {}
  /\ reclaimed' = 0 /\ removed' = 0 /\ deletedBytes' = 0
  /\ report' = [p \in Part |-> "none"] /\ total' = 0 /\ advice' = {}
  /\ unlinked' = {} /\ freed' = 0 /\ quiet' = TRUE /\ ran' = {}
  /\ UNCHANGED <<envVars, changes, plan>>

\* The coredump CleanAction: its state and the bytes clean() adds to the total.
Conclude(state, bytes) ==
  /\ report' = [report EXCEPT !["coredumps"] = state]
  /\ total' = total + bytes
  /\ pc' = "flatpak"
  /\ UNCHANGED advice

DirAssumed == TRUE        \* a faulty variant: no exists() test
DirExists  == dir # "absent"

CheckDir ==
  /\ pc = "exists"
  /\ \/ ~DirExists /\ Conclude("unavailable", 0)
     \/ DirExists /\ pc' = "list" /\ UNCHANGED reportVars
  /\ UNCHANGED <<envVars, fileVars, histVars, dryRun, changes, calls>>

\* iterdir() of a directory the caller may not read raises PermissionError; one
\* he may read but not search ("listable") gives its names.
Lists == dir \in {"open", "listable"}
ListDir ==
  /\ pc = "list"
  /\ \/ /\ Lists
        /\ cutoff' = now - OlderThan
        /\ todo' = {f \in File : Present(f)}
        /\ pc' = "scan"
     \/ ~Lists /\ pc' = "raised" /\ UNCHANGED <<cutoff, todo>>
  /\ UNCHANGED <<envVars, candidates, reclaimed, removed, deletedBytes,
                 reportVars, histVars, dryRun, changes, calls>>

\* is_file() and stat(): a name gone by now is passed over either way; below a
\* directory that may not be searched is_file() raises, before Python 3.14.
CondemnedAnyAge(f) == fs[f].kind = "file"                  \* faulty: no age test
CondemnedInPlan(f) == Aged(f) \/ (dryRun /\ CondemnedAnyAge(f))   \* faulty: dry runs skip it
Condemned(f) == Aged(f)

Scan(f) ==
  /\ pc = "scan" /\ Next1(f)
  /\ \/ /\ dir = "open" /\ todo' = todo \ {f}
        /\ candidates' = IF Condemned(f) THEN candidates \cup {f} ELSE candidates
        /\ UNCHANGED pc
     \/ dir # "open" /\ pc' = "raised" /\ UNCHANGED <<todo, candidates>>
  /\ UNCHANGED <<envVars, cutoff, reclaimed, removed, deletedBytes, reportVars,
                 histVars, dryRun, changes, calls>>

EndScan ==
  /\ pc = "scan" /\ todo = {}
  /\ \/ candidates = {} /\ Conclude("done", 0) /\ UNCHANGED todo
     \/ candidates # {} /\ pc' = "measure" /\ todo' = candidates /\ UNCHANGED reportVars
  /\ UNCHANGED <<envVars, cutoff, candidates, reclaimed, removed, deletedBytes,
                 histVars, dryRun, changes, calls>>

PassedNone(f) == todo             \* a faulty variant: the loop does not advance
Passed(f)     == todo \ {f}

\* sum(path.stat().st_size for path in candidates if path.exists())
Measure(f) ==
  /\ pc = "measure" /\ Next1(f)
  /\ IF Present(f) THEN pc' = "size" /\ UNCHANGED todo
                   ELSE todo' = Passed(f) /\ UNCHANGED pc
  /\ UNCHANGED <<envVars, cutoff, candidates, reclaimed, removed, deletedBytes,
                 reportVars, histVars, dryRun, changes, calls>>

\* stat() of a name that vanished after exists(): nothing catches the error.
SizeOf(f) ==
  /\ pc = "size" /\ Next1(f)
  /\ IF Present(f)
       THEN /\ reclaimed' = reclaimed + fs[f].size
            /\ todo' = todo \ {f} /\ pc' = "measure"
       ELSE pc' = "raised" /\ UNCHANGED <<reclaimed, todo>>
  /\ UNCHANGED <<envVars, cutoff, candidates, removed, deletedBytes,
                 reportVars, histVars, dryRun, changes, calls>>

\* The two early returns before the loop that deletes.
MayDeleteAnyone == ~dryRun        \* a faulty variant: no test of the user id
MayDelete == ~dryRun /\ root
VictimsRelisted == {f \in File : Present(f)}   \* faulty: lists the directory again
Victims == candidates

Decide ==
  /\ pc = "measure" /\ todo = {}
  /\ \/ dryRun /\ Conclude("planned", reclaimed) /\ UNCHANGED todo
     \/ ~dryRun /\ ~MayDelete /\ Conclude("skipped", 0) /\ UNCHANGED todo
     \/ MayDelete /\ pc' = "delete" /\ todo' = Victims /\ UNCHANGED reportVars
  /\ UNCHANGED <<envVars, cutoff, candidates, reclaimed, removed, deletedBytes,
                 histVars, dryRun, changes, calls>>

\* deleted_bytes += path.stat().st_size comes before path.unlink().
StatVictim(f) ==
  /\ pc = "delete" /\ Next1(f)
  /\ IF Present(f)
       THEN deletedBytes' = deletedBytes + fs[f].size /\ pc' = "unlink" /\ UNCHANGED todo
       ELSE todo' = todo \ {f} /\ UNCHANGED <<deletedBytes, pc>>
  /\ UNCHANGED <<envVars, cutoff, candidates, reclaimed, removed, reportVars,
                 histVars, dryRun, changes, calls>>

UnlinkWorks(f) == fs[f].kind = "file" /\ f \notin stuck
CountAlways(f) == removed + 1     \* a faulty variant: counts before unlink()
Count(f) == IF UnlinkWorks(f) THEN removed + 1 ELSE removed

Unlink(f) ==
  /\ pc = "unlink" /\ Next1(f)
  /\ removed' = Count(f)
  /\ IF UnlinkWorks(f)
       THEN /\ fs' = [fs EXCEPT ![f] = NoFile]
            /\ unlinked' = unlinked \cup {f}
            /\ freed' = freed + fs[f].size
       ELSE UNCHANGED <<fs, unlinked, freed>>
  /\ todo' = todo \ {f} /\ pc' = "delete"
  /\ UNCHANGED <<now, stuck, dir, tools, root, cutoff, candidates, reclaimed,
                 deletedBytes, reportVars, quiet, ran, plan, dryRun, changes, calls>>

VerdictStrict == IF removed = Cardinality(candidates) THEN "done" ELSE "failed"  \* faulty
Verdict == IF removed > 0 THEN "done" ELSE "failed"

EndDelete ==
  /\ pc = "delete" /\ todo = {}
  /\ Conclude(Verdict, deletedBytes)
  /\ UNCHANGED <<envVars, fileVars, histVars, dryRun, changes, calls>>
------------------------------------------------------------------------------
(* _clean_flatpak(), _clean_package_cache() and the end of clean().  A       *)
(* command always comes back: run_command gives it 120 seconds.              *)

Report(part, state, next) ==
  /\ report' = [report EXCEPT ![part] = state]
  /\ pc' = next
  /\ UNCHANGED <<envVars, fileVars, total, advice, unlinked, freed, quiet, plan,
                 dryRun, changes, calls>>

ExitStateRaw(code) == IF code = "zero" THEN "done" ELSE code   \* a faulty variant
ExitState(code) == IF code = "zero" THEN "done" ELSE "failed"

Run(part, tool, next) ==
  /\ ran' = ran \cup {tool}
  /\ \E code \in {"zero", "nonzero"} : Report(part, ExitState(code), next)

CleanFlatpak ==
  /\ pc = "flatpak"
  /\ \/ "flatpak" \notin tools /\ Report("flatpak", "unavailable", "package") /\ UNCHANGED ran
     \/ "flatpak" \in tools /\ dryRun /\ Report("flatpak", "planned", "package") /\ UNCHANGED ran
     \/ "flatpak" \in tools /\ ~dryRun /\ Run("flatpak", "flatpak", "package")

\* The first of dnf, pacman, apt-get that which() finds.
FirstManager(tool) ==
  \/ tool = "dnf" /\ "dnf" \in tools
  \/ tool = "pacman" /\ tools \cap {"dnf", "pacman"} = {"pacman"}
  \/ tool = "apt-get" /\ tools \cap Manager = {"apt-get"}

CleanPackageCache ==
  /\ pc = "package"
  /\ \/ /\ tools \cap Manager = {}
        /\ Report("package-cache", "unavailable", "return") /\ UNCHANGED ran
     \/ \E tool \in tools :
          /\ FirstManager(tool)
          /\ \/ dryRun /\ Report("package-cache", "planned", "return") /\ UNCHANGED ran
             \/ ~dryRun /\ ~root /\ Report("package-cache", "skipped", "return") /\ UNCHANGED ran
             \/ ~dryRun /\ root /\ Run("package-cache", tool, "return")

Return ==
  /\ pc = "return" /\ pc' = "returned"
  /\ advice' = {a \in {"rerun_with_apply", "needs_root"} :
                  \/ a = "rerun_with_apply" /\ dryRun
                  \/ a = "needs_root" /\ \E p \in Part : report[p] = "skipped"}
  /\ plan' = IF dryRun /\ quiet /\ dir = "open"
               THEN [valid |-> TRUE, files |-> candidates, bytes |-> total, cutoff |-> cutoff]
               ELSE NoPlan
  /\ UNCHANGED <<envVars, fileVars, report, total, unlinked, freed, quiet, ran,
                 dryRun, changes, calls>>
------------------------------------------------------------------------------
CleanStep ==
  \/ CheckDir \/ ListDir \/ EndScan \/ Decide \/ EndDelete
  \/ CleanFlatpak \/ CleanPackageCache \/ Return
  \/ \E f \in File : Scan(f) \/ Measure(f) \/ SizeOf(f) \/ StatVictim(f) \/ Unlink(f)
Others == Tick \/ \E f \in File : Arrive(f) \/ Vanish(f)
Next == Call \/ CleanStep \/ Others

\* A running program is scheduled; nobody has to call it, and nobody else has
\* to touch the directory.
Spec == Init /\ [][Next]_vars /\ WF_vars(CleanStep)
------------------------------------------------------------------------------
DiskOK ==
  /\ fs \in [File -> Entry] /\ now \in 0..MaxNow /\ stuck \in SUBSET File
  /\ dir \in {"absent", "open", "closed", "listable"}
  /\ root => dir \notin {"closed", "listable"}
  /\ tools \in SUBSET Tool /\ root \in BOOLEAN
LocalsOK ==
  /\ dryRun \in BOOLEAN /\ pc \in Phase
  /\ cutoff \in Int /\ todo \in SUBSET File /\ candidates \in SUBSET File
  /\ reclaimed \in Nat /\ removed \in Nat /\ deletedBytes \in Nat
ReportOK ==
  /\ report \in [Part -> State] /\ total \in Nat
  /\ advice \in SUBSET {"rerun_with_apply", "needs_root"}
HistoryOK ==
  /\ changes \in Nat /\ calls \in Nat
  /\ unlinked \in SUBSET File /\ freed \in Nat
  /\ quiet \in BOOLEAN /\ ran \in SUBSET Tool
  /\ plan \in Plan

TypeOK == DiskOK /\ LocalsOK /\ ReportOK /\ HistoryOK

\* A dry run changes nothing and starts nothing; without root no coredump goes
\* and no package manager runs (a user's own flatpak clean-up may).
OnlyArmedCallsAct ==
  /\ dryRun => unlinked = {} /\ freed = 0 /\ ran = {}
  /\ ~root => unlinked = {} /\ freed = 0 /\ ran \cap Manager = {}

\* When nobody else touches the directory, the file unlink() takes really is
\* OlderThan days old or more on the day it goes: the days that pass between
\* the scan and the loop can only make it older.
QuietRemovesOnlyAged ==
  [][\A f \in unlinked' \ unlinked :
        quiet => fs[f].kind = "file" /\ fs[f].mtime + OlderThan <= now]_vars

\* The counters of the loop against the disk: with nobody else at work, what
\* is counted beyond the bytes freed is exactly the size of the files unlink()
\* refused, which line 135 had already added.
QuietAccounting ==
  quiet /\ pc = "return" /\ MayDelete /\ report["coredumps"] # "unavailable" =>
    /\ removed = Cardinality(unlinked)
    /\ deletedBytes = freed + MapThenSumSet(LAMBDA f : fs[f].size, candidates \ unlinked)

\* An undisturbed call never ends in a traceback, unless an ordinary user may
\* not list the directory, or not look at what it lists: only a file vanishing
\* between exists() and stat() can raise.
QuietNeverRaises == pc = "raised" => ~quiet \/ (dir \in {"closed", "listable"} /\ ~root)

\* What a dry run announced is what the next call, with the same threshold
\* day, selects; and what it removes and counts, when unlink() refuses nothing.
PlanHonoured ==
  pc = "return" /\ ~dryRun /\ plan.valid /\ plan.cutoff = cutoff =>
    /\ candidates = plan.files
    /\ MayDelete /\ candidates \cap stuck = {} =>
         unlinked = plan.files /\ removed = Cardinality(plan.files) /\ total = plan.bytes

\* The verdict on the coredumps.  "done" after an armed, undisturbed call
\* leaves no aged file that could go; "failed" means every candidate refused;
\* "skipped" and "planned" leave every candidate where it was.
VerdictSound ==
  pc = "return" /\ quiet =>
    LET verdict == report["coredumps"] IN
    /\ verdict = "done" => \A f \in File \ stuck : ~Aged(f)
    /\ verdict = "failed" => candidates # {} /\ candidates \subseteq stuck
    /\ verdict \in {"skipped", "planned"} => candidates # {} /\ \A f \in candidates : Aged(f)

\* Every call comes back, with a report or a traceback, however the directory
\* changes meanwhile.
CallEnds == (pc \notin Resting) ~> (pc \in Resting)

\* The cleaner implements the abstract clean-up.
Promise == INSTANCE Sweep WITH
  stock <- {f \in File : Present(f)}, condemned <- candidates, taken <- unlinked,
  armed <- MayDelete, open <- pc \notin Resting
KeepsPromise == Promise!Spec
==============================================================================
