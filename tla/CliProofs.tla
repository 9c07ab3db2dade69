------------------------------ MODULE CliProofs ------------------------------
(***************************************************************************)
(* Proofs about module Cli: what holds of every command line, whoever      *)
(* types it and whatever sudo answers.                                     *)
(***************************************************************************)
EXTENDS Cli, TLAPS

LEMMA ParsedOK == \A l \in Line : ParsedCommand(l) \in Command \cup {"a list"}
  BY DEF Line, ParsedCommand, Command, Sensitive

(***************************************************************************)
(* Which process is where.  The second has the line without its --root,    *)
(* so it does not ask for sudo, whoever it runs as; and the first has not  *)
(* started it before it waits for it.                                      *)
(***************************************************************************)
Places == {"argv", "parsed", "sudo", "handler", "tip", "exited", "raised"}

PlaceInv ==
  /\ process \in {"first", "second"} /\ pc \in Places /\ rootRequested \in BOOLEAN
  /\ pc = "sudo" => rootRequested
  /\ process = "second" /\ pc # "argv" => ~rootRequested
  /\ process = "first" => \/ sudos = 0
                           \/ (pc \in {"exited", "raised"} /\ sudos = 1)
  /\ process = "second" => sudos = 1

LEMMA PlaceStep == ProcessOK /\ PlaceInv /\ [Next]_vars => PlaceInv'
<1> SUFFICES ASSUME ProcessOK, PlaceInv, [Next]_vars PROVE PlaceInv'
  OBVIOUS
<1> USE DEF PlaceInv, Places
<1>1. CASE Parse
  <2>1. line.root \in BOOLEAN
    BY DEF ProcessOK, Line
  <2> QED
    BY <1>1, <2>1 DEF Parse, Forwarded
<1>2. CASE Choose
  BY <1>2 DEF Choose, Escalates, WantsSudo
<1>3. CASE ReexecWithSudo
  BY <1>3 DEF ReexecWithSudo
<1>4. CASE Run
  BY <1>4 DEF Run
<1>5. CASE Tip
  BY <1>5 DEF Tip
<1>6. CASE UNCHANGED vars
  BY <1>6 DEF vars
<1> QED
  BY <1>1, <1>2, <1>3, <1>4, <1>5, <1>6 DEF Next

LEMMA InitOK == Init => TypeOK /\ PlaceInv
<1> SUFFICES ASSUME Init PROVE ProcessOK /\ HistoryOK /\ PlaceInv
  BY DEF TypeOK
<1>1. ProcessOK
  BY DEF Init, ProcessOK, Person
<1>2. HistoryOK
  BY DEF Init, HistoryOK
<1>3. PlaceInv
  BY DEF Init, PlaceInv, Places
<1> QED
  BY <1>1, <1>2, <1>3

LEMMA StepTypeOK == TypeOK /\ PlaceInv /\ [Next]_vars => TypeOK'
<1> SUFFICES ASSUME ProcessOK, HistoryOK, PlaceInv, [Next]_vars
             PROVE  ProcessOK' /\ HistoryOK'
  BY DEF TypeOK
<1>1. CASE Parse
  <2>1. line.root \in BOOLEAN
    BY DEF ProcessOK, Line
  <2>2. rootRequested' \in BOOLEAN
    BY <1>1, <2>1 DEF Parse, Forwarded
  <2>3. json' \in BOOLEAN
    BY <1>1 DEF Parse, ParsedJson
  <2>4. command' \in Command \cup {"a list"}
    BY <1>1, ParsedOK DEF Parse, ProcessOK
  <2> QED
    BY <1>1, <2>2, <2>3, <2>4 DEF Parse, ProcessOK, HistoryOK
<1>2. CASE Choose
  BY <1>2 DEF Choose, ProcessOK, HistoryOK
<1>3. CASE ReexecWithSudo
  <2>1. sudos = 0
    BY <1>3 DEF ReexecWithSudo, PlaceInv
  <2>2. sudos' \in 0..1
    BY <1>3, <2>1 DEF ReexecWithSudo
  <2>3. pc' \in {"raised", "exited", "argv"} /\ process' \in {"first", "second"} /\ user' \in Person
    BY <1>3 DEF ReexecWithSudo, ProcessOK, Person
  <2>4. command \in Command \cup {"a list"}
    BY <1>3 DEF ReexecWithSudo, ProcessOK
  <2> QED
    BY <1>3, <2>2, <2>3, <2>4 DEF ReexecWithSudo, ProcessOK, HistoryOK
<1>4. CASE Run
  <2>1. Handler \in Command
    BY DEF Handler, Command
  <2>2. <<Handler, user>> \in Started
    BY <2>1 DEF Started, ProcessOK
  <2>3. ran' \in SUBSET Started
    BY <1>4, <2>2 DEF Run, HistoryOK
  <2>4. shown' \in SUBSET {"text", "json", "tip"}
    BY <1>4 DEF Run, Printed, HistoryOK
  <2> QED
    BY <1>4, <2>3, <2>4 DEF Run, ProcessOK, HistoryOK
<1>5. CASE Tip
  BY <1>5 DEF Tip, ProcessOK, HistoryOK
<1>6. CASE UNCHANGED vars
  BY <1>6 DEF vars, ProcessOK, HistoryOK
<1> QED
  BY <1>1, <1>2, <1>3, <1>4, <1>5, <1>6 DEF Next

LEMMA PlaceHolds == Spec => [](TypeOK /\ PlaceInv)
<1>1. TypeOK /\ PlaceInv /\ [Next]_vars => PlaceInv'
  BY PlaceStep DEF TypeOK
<1> QED
  BY <1>1, InitOK, StepTypeOK, PTL DEF Spec

\* Every variable keeps its type; above all, sudo is started once at most.
THEOREM TypeCorrect == Spec => []TypeOK
  BY PlaceHolds, PTL

\* cli.py:466 takes --root out of the line it hands to sudo: there is no third
\* process, even where sudo runs commands as somebody who is not root.
THEOREM NoThirdProcess == Spec => []NoSudoLoop
<1>1. PlaceInv => NoSudoLoop
  BY DEF PlaceInv, NoSudoLoop
<1> QED
  BY <1>1, PlaceHolds, PTL
------------------------------------------------------------------------------
(***************************************************************************)
(* Who runs what.  From parsing on, the command is the one the line names; *)
(* a first process that stays the caller's, although --root and the        *)
(* command ask for more, never reaches a handler; and what was started     *)
(* was started by then.                                                    *)
(***************************************************************************)
Asked == line.root /\ line.word \in Sensitive \ {"trace"}

RootInv ==
  /\ pc # "argv" => command = ParsedCommand(line) /\ json = ParsedJson(line)
  /\ Asked => /\ process = "first" /\ pc # "argv" => rootRequested
              /\ pc = "handler" => process = "second" \/ user = "root"
              /\ ran \subseteq {<<line.word, IF sudo = "other" THEN "other" ELSE "root">>,
                                <<line.word, "root">>}
  /\ process = "second" => user = sudo /\ sudo \in {"root", "other"}
  /\ rootRequested => line.root
  /\ ~line.root => pc # "sudo" /\ sudos = 0

LEMMA RootStep == TypeOK /\ PlaceInv /\ RootInv /\ [Next]_vars => RootInv'
<1> SUFFICES ASSUME ProcessOK, PlaceInv, RootInv, [Next]_vars PROVE RootInv'
  BY DEF TypeOK
<1>1. CASE Parse
  <2>1. line.root \in BOOLEAN /\ (process = "first" => rootRequested' = line.root)
        /\ (process = "second" => rootRequested' = FALSE)
    BY <1>1 DEF Parse, Forwarded, ProcessOK, Line
  <2> QED
    BY <1>1, <2>1 DEF Parse, RootInv, Asked, PlaceInv, ParsedCommand, ParsedJson
<1>2. CASE Choose
  <2>1. Asked => command = line.word /\ command \in Sensitive
    BY <1>2 DEF Choose, RootInv, Asked, ParsedCommand, Sensitive
  <2>2. Asked /\ process = "first" /\ user # "root" => WantsSudo /\ ~Unhashable /\ Escalates
    BY <1>2, <2>1 DEF Choose, RootInv, WantsSudo, Escalates, Unhashable, Sensitive
  <2>3. Asked /\ pc' = "handler" => process = "second" \/ user = "root"
    BY <1>2, <2>2 DEF Choose, PlaceInv
  <2>4. ~line.root => pc' # "sudo"
    BY <1>2 DEF Choose, RootInv, Escalates, WantsSudo
  <2> QED
    BY <1>2, <2>3, <2>4 DEF Choose, RootInv, Asked, ParsedCommand, ParsedJson
<1>3. CASE ReexecWithSudo
  BY <1>3 DEF ReexecWithSudo, RootInv, Asked, PlaceInv, ParsedCommand, ParsedJson
<1>4. CASE Run
  <2>1. Asked => Handler = line.word
    BY <1>4 DEF Run, RootInv, Asked, ParsedCommand, Handler, Command, Sensitive
  <2>2. Asked => user = (IF sudo = "other" THEN "other" ELSE "root") \/ user = "root"
    BY <1>4 DEF Run, RootInv, ProcessOK
  <2> QED
    BY <1>4, <2>1, <2>2 DEF Run, RootInv, Asked, ParsedCommand, ParsedJson
<1>5. CASE Tip
  BY <1>5 DEF Tip, RootInv, Asked, ParsedCommand, ParsedJson
<1>6. CASE UNCHANGED vars
  BY <1>6 DEF vars, RootInv, Asked, ParsedCommand, ParsedJson
<1> QED
  BY <1>1, <1>2, <1>3, <1>4, <1>5, <1>6 DEF Next

\* With --root a command of _ROOT_SENSITIVE_COMMANDS never falls back to the
\* caller's own rights (cli.py:141), and without it sudo is never started.
THEOREM RootIsSudo == Spec => []RootMeansSudo
<1>1. Init => RootInv
  BY DEF Init, RootInv, Asked
<1>2. RootInv => RootMeansSudo
  BY DEF RootInv, Asked, RootMeansSudo
<1> QED
  BY <1>1, <1>2, RootStep, PlaceHolds, PTL DEF Spec
==============================================================================
