-------------------------------- MODULE Calls --------------------------------
(***************************************************************************)
(* One call of a command that only looks: main() of cli.py picks the       *)
(* handler, the handler's component runs to its end, the others do         *)
(* nothing.  The commands that change the machine are in Clean and Repair, *)
(* the command line itself is in Cli.                                      *)
(***************************************************************************)
EXTENDS Processes, Watch, Trace, Doctor, Security, Report

VARIABLE call      \* the component the command belongs to

callVars == <<call, procVars, watchVars, traceVars, doctorVars, securityVars, reportVars>>
Command == {"processes", "network", "trace", "doctor", "security", "report"}

\* A component that is not called stays in one of its initial states.
Idle ==
  /\ IF call = "processes" THEN TRUE
     ELSE /\ proc = [p \in Pid |-> Absent] /\ procRoot = FALSE
          /\ hidepid = FALSE /\ procJson = FALSE
  /\ IF call = "network" THEN TRUE
     ELSE /\ counter = [i \in Iface |-> Gone] /\ clock = 0
          /\ watchFlag = FALSE /\ watchJson = FALSE
  /\ IF call = "trace" THEN TRUE
     ELSE /\ traceCommand = FALSE /\ traceMode = "strace" /\ traceJson = FALSE
          /\ installedTools = {} /\ paranoid = "low" /\ refused = FALSE
  /\ IF call = "doctor" THEN TRUE
     ELSE text = [f \in File |-> "absent"] /\ projectRoot = "plain"
  /\ IF call = "security" THEN TRUE
     ELSE /\ present = {} /\ writable = {} /\ closed = {} /\ barred = {} /\ containersOnly = FALSE
          /\ host = CHOOSE h \in Host : TRUE
  /\ IF call = "report" THEN TRUE
     ELSE /\ reportCall = "crash" /\ asText = FALSE
          /\ machine = CHOOSE m \in MachineStart : TRUE

CallsInit ==
  /\ call \in Command /\ Idle
  /\ ProcessesInit /\ WatchInit /\ TraceInit /\ DoctorInit /\ SecurityInit /\ ReportInit

\* The handler of the command, and what happens around it.
Handler ==
  \/ /\ call = "processes" /\ ProcessesStep
     /\ UNCHANGED <<call, watchVars, traceVars, doctorVars, securityVars, reportVars>>
  \/ /\ call = "network" /\ WatchStep
     /\ UNCHANGED <<call, procVars, traceVars, doctorVars, securityVars, reportVars>>
  \/ /\ call = "trace" /\ TraceStep
     /\ UNCHANGED <<call, procVars, watchVars, doctorVars, securityVars, reportVars>>
  \/ /\ call = "doctor" /\ DoctorStep
     /\ UNCHANGED <<call, procVars, watchVars, traceVars, securityVars, reportVars>>
  \/ /\ call = "security" /\ SecurityStep
     /\ UNCHANGED <<call, procVars, watchVars, traceVars, doctorVars, reportVars>>
  \/ /\ call = "report" /\ ReportStep
     /\ UNCHANGED <<call, procVars, watchVars, traceVars, doctorVars, securityVars>>
Around ==
  \/ /\ call = "processes" /\ ProcessesChange
     /\ UNCHANGED <<call, watchVars, traceVars, doctorVars, securityVars, reportVars>>
  \/ /\ call = "network" /\ Surroundings
     /\ UNCHANGED <<call, procVars, traceVars, doctorVars, securityVars, reportVars>>
  \/ /\ call = "trace" /\ TraceChange
     /\ UNCHANGED <<call, procVars, watchVars, doctorVars, securityVars, reportVars>>
  \/ /\ call = "doctor" /\ DoctorChange
     /\ UNCHANGED <<call, procVars, watchVars, traceVars, securityVars, reportVars>>
  \/ /\ call = "security" /\ SecurityChange
     /\ UNCHANGED <<call, procVars, watchVars, traceVars, doctorVars, reportVars>>
  \/ /\ call = "report" /\ ReportChange
     /\ UNCHANGED <<call, procVars, watchVars, traceVars, doctorVars, securityVars>>
CallsNext == Handler \/ Around

\* Every command has a time limit and every read returns: the handler goes on.
CallsSpec == CallsInit /\ [][CallsNext]_callVars /\ WF_callVars(Handler)
------------------------------------------------------------------------------
CallsTypeOK == /\ call \in Command
               /\ ProcessesTypeOK /\ WatchTypeOK /\ TraceTypeOK
               /\ DoctorTypeOK /\ SecurityTypeOK /\ ReportTypeOK

CallEnded == CASE call = "processes" -> procPc \in {"done", "raised"}
               [] call = "network"   -> watchPc \in {"done", "raised"}
               [] call = "trace"     -> tracePc \in {"done", "raised"}
               [] call = "doctor"    -> doctorPc \in {"done", "raised"}
               [] call = "security"  -> securityPc \in {"done", "raised"}
               [] call = "report"    -> reportPc \in {"end", "raised"}

\* Whatever its fallbacks, unanswered commands and changing directories, each
\* command that looks comes to an end; only a watch goes on until it is
\* interrupted (cli.py:258).
CommandEnds == <>(CallEnded \/ (call = "network" /\ Watching))
==============================================================================
