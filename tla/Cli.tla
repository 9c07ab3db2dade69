--------------------------------- MODULE Cli ---------------------------------
(***************************************************************************)
(* src/lxperun/cli.py: main() from sys.argv to the root tip, in the first  *)
(* process and, when `--root` makes it start itself again through sudo, in *)
(* the second.                                                             *)
(*                                                                         *)
(* A command line is the command's name, where --json stands, whether      *)
(* --root is there, whether a report is asked for as JSON, and what        *)
(* follows `trace`.  What a command does is the subject of other modules:  *)
(* here it returns or ends in a traceback.                                 *)
(***************************************************************************)
EXTENDS Naturals

Sensitive == {"doctor", "rings", "capabilities", "processes", "services", "storage",
              "hardware", "trace", "crash", "clean", "repair", "report", "all",
              "network", "security", "firewall", "containers"}
Command == Sensitive \cup {"snapshot", "performance", "compatibility", "help"}
NoJson  == {"report", "help"}       \* subcommands without a --json of their own

VARIABLES
  line,                    \* the command line of the first process
  sudo,                    \* installed? and whom it lets the user become
  user,                    \* who runs the process
  process, pc,             \* "first" or "second"; where its main() stands
  rootRequested,           \* "--root" in sys.argv[1:]
  command, json,           \* args.command or "snapshot"; args.json
  ran, shown,              \* history: <<handler, user>> of every handler started;
                           \* what has been printed: "text", "json", "tip"
  sudos                    \* history: times sudo was started

vars == <<line, sudo, user, process, pc, rootRequested, command, json, ran, shown, sudos>>

Line == [word : Command \cup {"none"}, json : {"no", "before", "after"},
         root : BOOLEAN, formatted : BOOLEAN, traced : BOOLEAN]

\* Lines argparse accepts.
Valid(l) == /\ l.traced => l.word = "trace"
            /\ l.formatted => l.word = "report"      \* --format json
            /\ l.word \in NoJson \cup {"none"} => l.json # "after"

Init ==
  /\ line \in {l \in Line : Valid(l)}
  /\ sudo \in {"absent", "refuses", "root", "other"}
  /\ user \in {"user", "root"}
  /\ process = "first" /\ pc = "argv"
  /\ rootRequested = FALSE /\ command = "none" /\ json = FALSE
  /\ ran = {} /\ shown = {} /\ sudos = 0
------------------------------------------------------------------------------
\* The list of words after `trace` has the same dest as the subparsers and
\* takes the place of the name; empty, it counts as no command at all.
ParsedBare(l) == IF l.word = "trace" /\ l.traced THEN "a list" ELSE l.word   \* faulty
ParsedCommand(l) == IF l.word = "trace" /\ l.traced THEN "a list"
                    ELSE IF l.word \in {"none", "trace"} THEN "snapshot" ELSE l.word

\* A subcommand's own --json, given or not, replaces the one before its name.
ParsedJson(l) == IF l.word \in NoJson \cup {"none"} THEN l.json = "before"
                                                    ELSE l.json = "after"

\* The second process gets the line without its --root.
KeepRoot(asked)  == asked           \* a faulty variant: the line as it is
Forwarded(asked) == FALSE

Parse ==
  /\ pc = "argv" /\ pc' = "parsed"
  /\ rootRequested' = IF process = "first" THEN line.root ELSE Forwarded(line.root)
  /\ command' = ParsedCommand(line)
  /\ json' = ParsedJson(line)
  /\ UNCHANGED <<line, sudo, user, process, ran, shown, sudos>>

\* `command in _ROOT_SENSITIVE_COMMANDS` for a list: TypeError.
Unhashable == command = "a list"

WantsSudo == rootRequested /\ user # "root"
EscalatesRepairs == WantsSudo /\ command \in {"clean", "repair"}   \* a faulty variant
Escalates == WantsSudo /\ command \in Sensitive

Choose ==
  /\ pc = "parsed"
  /\ pc' = IF WantsSudo /\ Unhashable THEN "raised"
           ELSE IF Escalates THEN "sudo" ELSE "handler"
  /\ UNCHANGED <<line, sudo, user, process, rootRequested, command, json, ran, shown, sudos>>

\* subprocess.call(["sudo", ...]): missing, it raises; otherwise its exit code,
\* its refusal's or the second process's, becomes this one's.
ReexecWithSudo ==
  /\ pc = "sudo" /\ sudos' = sudos + 1
  /\ \/ sudo = "absent" /\ pc' = "raised" /\ UNCHANGED <<process, user>>
     \/ sudo = "refuses" /\ pc' = "exited" /\ UNCHANGED <<process, user>>
     \/ sudo \in {"root", "other"} /\ pc' = "argv" /\ process' = "second" /\ user' = sudo
  /\ UNCHANGED <<line, sudo, rootRequested, command, json, ran, shown>>

Handler == IF command \in Command THEN command ELSE "snapshot"

\* A report goes by its --format, and help is text: args.json is not asked.
Printed ==
  IF \/ Handler = "report" /\ line.formatted
     \/ Handler \notin NoJson /\ json
    THEN "json" ELSE "text"

Run ==
  /\ pc = "handler"
  /\ ran' = ran \cup {<<Handler, user>>}
  /\ \/ pc' = "tip" /\ shown' = shown \cup {Printed}
     \/ pc' = "raised" /\ UNCHANGED shown
  /\ UNCHANGED <<line, sudo, user, process, rootRequested, command, json, sudos>>

TipDue == command # "report" /\ ~json /\ ~rootRequested /\ user # "root"

Tip ==
  /\ pc = "tip"
  /\ pc' = IF TipDue /\ Unhashable THEN "raised" ELSE "exited"
  /\ shown' = IF TipDue /\ command \in Sensitive THEN shown \cup {"tip"} ELSE shown
  /\ UNCHANGED <<line, sudo, user, process, rootRequested, command, json, ran, sudos>>
------------------------------------------------------------------------------
Next == Parse \/ Choose \/ ReexecWithSudo \/ Run \/ Tip
Spec == Init /\ [][Next]_vars
------------------------------------------------------------------------------
Person == {"user", "root", "other"}
ProcessOK ==
  /\ line \in Line /\ sudo \in {"absent", "refuses", "root", "other"}
  /\ user \in Person /\ process \in {"first", "second"}
  /\ pc \in {"argv", "parsed", "sudo", "handler", "tip", "exited", "raised"}
  /\ rootRequested \in BOOLEAN /\ json \in BOOLEAN
  /\ command \in Command \cup {"a list"} \/ (command = "none" /\ pc = "argv")
Started == Command \X Person
HistoryOK == /\ ran \in SUBSET Started /\ shown \in SUBSET {"text", "json", "tip"}
             /\ sudos \in 0..1
TypeOK == ProcessOK /\ HistoryOK

\* With --root a command of the list (but trace) runs as whom sudo makes the
\* caller, once, or not at all; and without it never as anyone else.
RootMeansSudo ==
  /\ line.root /\ line.word \in Sensitive \ {"trace"} =>
       ran \subseteq {<<line.word, IF sudo = "other" THEN "other" ELSE "root">>,
                      <<line.word, "root">>}
  /\ ~line.root => sudos = 0

\* The second process never starts a third, even where sudo runs commands as
\* somebody who is not root.
NoSudoLoop == process = "second" => pc # "sudo"

\* README.md:46 lists `trace` with the other commands and README.md:119 says what
\* it does: the command named is the one that runs, `snapshot` when none is.
NamedCommandRuns ==
  \A r \in ran : r[1] = IF line.word = "none" THEN "snapshot" ELSE line.word
==============================================================================
