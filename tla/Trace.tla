-------------------------------- MODULE Trace --------------------------------
(***************************************************************************)
(* src/lxperun/trace.py, with run_command() of linux.py: a readiness       *)
(* report, or a command run under strace, whose output goes through a      *)
(* temporary file, or under perf, whose output is its stderr.              *)
(*                                                                         *)
(* Others may remove the temporary file (systemd-tmpfiles) or make its     *)
(* directory refuse the removal.  The words of the command and of the      *)
(* trace are left out.                                                     *)
(***************************************************************************)
EXTENDS Naturals, FiniteSets

CONSTANT TraceTool      \* the tools trace_report() looks for
ASSUME TraceAssumption == {"strace", "perf", "gdb"} \subseteq TraceTool

VARIABLES
  traceCommand, traceMode, traceJson,  \* a command given? its mode; JSON asked for
  installedTools, paranoid,            \* which(); perf_event_paranoid: low or high
  tracePc,
  traceFile,                           \* "none" before and after, "empty", "full"
  refused,                             \* the directory lets nothing be removed
  exitCode, outputKind,                \* TraceExecution: class of the code; str or bytes
  traceLines,                          \* TraceExecution: are there lines?
  traceAdvice,                         \* TraceReport.recommendations
  written, swept, broken               \* history: the tool wrote its trace; others
                                       \* removed it unread; run_command() raised

traceVars == <<traceCommand, traceMode, traceJson, installedTools, paranoid, tracePc,
               traceFile, refused, exitCode, outputKind, traceLines, traceAdvice,
               written, swept, broken>>
traceInputs == <<traceCommand, traceMode, traceJson, installedTools, paranoid>>

Modes == {"strace", "perf"}
Advices == {"strace", "perf", "perf needs root", "gdb"}
Code  == {"zero", "nonzero", "127", "124"}

TraceInit ==
  /\ traceCommand \in BOOLEAN /\ traceMode \in Modes /\ traceJson \in BOOLEAN
  /\ installedTools \in SUBSET TraceTool /\ paranoid \in {"low", "high"}
  /\ tracePc = "start" /\ traceFile = "none" /\ refused \in BOOLEAN
  /\ exitCode = "zero" /\ outputKind = "str" /\ traceLines = FALSE /\ traceAdvice = {}
  /\ written = FALSE /\ swept = FALSE /\ broken = FALSE
------------------------------------------------------------------------------
SweepFile(f) ==
  /\ traceFile = f /\ f # "none" /\ ~refused
  /\ tracePc \notin {"done", "raised"}
  /\ traceFile' = "none" /\ swept' = (swept \/ tracePc # "remove")
  /\ UNCHANGED <<traceInputs, tracePc, refused, exitCode, outputKind, traceLines,
                 traceAdvice, written, broken>>
------------------------------------------------------------------------------
\* trace_report() and _recommendations()
Ready ==
  /\ tracePc = "start" /\ ~traceCommand /\ tracePc' = "print"
  /\ traceAdvice' = {a \in Advices :
                       \/ a \in {"strace", "gdb"} /\ a \in installedTools
                       \/ "perf" \in installedTools /\
                          a = IF paranoid = "low" THEN "perf" ELSE "perf needs root"}
  /\ UNCHANGED <<traceInputs, traceFile, refused, exitCode, outputKind, traceLines, written,
                 swept, broken>>

\* _run_strace() and _run_perf_stat(): the tool, then the file; a file that
\* cannot be made raises.
StartTrace ==
  /\ tracePc = "start" /\ traceCommand
  /\ \/ /\ traceMode \notin installedTools
        /\ tracePc' = "print" /\ exitCode' = "127" /\ UNCHANGED traceFile
     \/ /\ traceMode \in installedTools /\ UNCHANGED exitCode
        /\ \/ traceMode = "perf" /\ tracePc' = "run" /\ UNCHANGED traceFile
           \/ traceMode = "strace" /\ tracePc' = "run" /\ traceFile' = "empty"
           \/ traceMode = "strace" /\ tracePc' = "raised" /\ UNCHANGED traceFile
  /\ UNCHANGED <<traceInputs, refused, outputKind, traceLines, traceAdvice, written, swept, broken>>

\* run_command(): the command ends; cannot be started; exceeds its time, and
\* what it had printed comes as bytes; or an interrupt, or output that is no
\* UTF-8, leaves through all callers.
RunCommand(code, kind, wrote) ==
  /\ tracePc = "run" /\ exitCode' = code /\ outputKind' = kind
  /\ code = "127" => ~wrote /\ kind = "str"
  /\ kind = "bytes" => code = "124"
  /\ \/ tracePc' = "collect" /\ UNCHANGED broken
     \/ tracePc' = "raised" /\ broken' = TRUE
  /\ written' = wrote
  /\ traceFile' = IF wrote /\ traceFile = "empty" THEN "full" ELSE traceFile
  /\ UNCHANGED <<traceInputs, refused, traceLines, traceAdvice, swept>>

\* The lines of the file, none if it is gone; perf's are those of stderr, where
\* run_command() writes too when it could not start the command or stopped it.
Collect ==
  /\ tracePc = "collect"
  /\ \/ traceMode = "strace" /\ tracePc' = "remove" /\ traceLines' = (traceFile = "full")
     \/ traceMode = "perf" /\ tracePc' = "print"
        /\ traceLines' = (written \/ exitCode \in {"127", "124"})
  /\ UNCHANGED <<traceInputs, traceFile, refused, exitCode, outputKind, traceAdvice, written,
                 swept, broken>>

RemovesTimely(code) == code # "124"       \* a faulty variant: not after a time-out
Removes(code) == TRUE
RemoveFile ==
  /\ tracePc = "remove" /\ tracePc' = "print"
  /\ traceFile' = IF refused \/ ~Removes(exitCode) THEN traceFile ELSE "none"
  /\ UNCHANGED <<traceInputs, refused, exitCode, outputKind, traceLines, traceAdvice, written,
                 swept, broken>>

\* json.dumps() takes no bytes.
PrintTrace ==
  /\ tracePc = "print"
  /\ tracePc' = IF traceJson /\ outputKind = "bytes" THEN "raised" ELSE "done"
  /\ UNCHANGED <<traceInputs, traceFile, refused, exitCode, outputKind, traceLines, traceAdvice,
                 written, swept, broken>>

TraceStep == \/ Ready \/ StartTrace \/ Collect \/ RemoveFile \/ PrintTrace
             \/ \E c \in Code, k \in {"str", "bytes"}, w \in BOOLEAN : RunCommand(c, k, w)
TraceChange == \E f \in {"empty", "full"} : SweepFile(f)
TraceNext == TraceStep \/ TraceChange
TraceSpec == TraceInit /\ [][TraceNext]_traceVars
------------------------------------------------------------------------------
TraceInputsOK ==
  /\ traceCommand \in BOOLEAN /\ traceMode \in Modes /\ traceJson \in BOOLEAN
  /\ installedTools \in SUBSET TraceTool /\ paranoid \in {"low", "high"}
TraceStateOK ==
  /\ tracePc \in {"start", "run", "collect", "remove", "print", "done", "raised"}
  /\ traceFile \in {"none", "empty", "full"} /\ refused \in BOOLEAN
  /\ exitCode \in Code /\ outputKind \in {"str", "bytes"} /\ traceLines \in BOOLEAN
  /\ traceAdvice \in SUBSET Advices
  /\ written \in BOOLEAN /\ swept \in BOOLEAN /\ broken \in BOOLEAN
TraceTypeOK == TraceInputsOK /\ TraceStateOK

\* However the command ends, by itself, killed after its time or not started
\* at all, its trace is in the report and the temporary file of trace.py:103
\* is not on the disk.  Only a directory that refuses the removal, or an
\* exception out of run_command(), leaves it there; only another's removal
\* loses the trace.
TraceReadThenRemoved ==
  /\ tracePc \in {"print", "done", "raised"} /\ traceFile # "none" => refused \/ broken
  /\ tracePc = "done" /\ traceCommand =>
       \/ swept
       \/ traceMode = "strace" /\ (traceLines <=> written)
       \/ traceMode = "perf" /\ (written => traceLines)
==============================================================================
