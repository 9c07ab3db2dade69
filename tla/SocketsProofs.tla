---------------------------- MODULE SocketsProofs ----------------------------
(***************************************************************************)
(* Proofs about module Sockets, for any processes, sockets and tables.     *)
(***************************************************************************)
EXTENDS Sockets, FiniteSetTheorems, TLAPS

LEMMA HeldIsRelation == Held \in SUBSET (Pid \X Inode)
BY DEF Held

LEMMA GoOnOK ==
  ASSUME proto \in Proto, GoOn
  PROVE  pc' \in Phase /\ proto' \in Proto
BY DEF GoOn, Following, Proto, Phase

LEMMA EntriesOK ==
  ASSUME DiagOK
  PROVE  Entries \in SUBSET Entry
BY DEF DiagOK, Entries, Line, Entry

LEMMA ChangeOK ==
  ASSUME TypeOK, NEW h \in [Pid -> SUBSET Inode], NEW s \in [Inode -> Life],
         NEW a \in SUBSET Pid, NEW about \in SUBSET Inode, Change(h, s, a, about)
  PROVE  TypeOK'
<1>1. WorldOK' /\ UNCHANGED diag
  BY DEF Change, TypeOK, WorldOK
<1>2. touched' \in SUBSET Inode /\ changes' \in Nat
  BY DEF Change, TypeOK, PastOK
<1>3. held' \in SUBSET (Pid \X Inode)
  BY DEF Change, TypeOK, PastOK
<1> QED
  BY <1>1, <1>2, <1>3 DEF TypeOK, DiagOK, PastOK, diag

LEMMA ReleasedOK ==
  ASSUME WorldOK, NEW h
  PROVE  Released(h) \in [Inode -> Life]
BY DEF Released, WorldOK, Life

LEMMA InitTypeOK == Init => TypeOK
<1> SUFFICES ASSUME Init PROVE TypeOK
  OBVIOUS
<1>1. WorldOK
  BY SocketsAssumption DEF Init, WorldOK, Life
<1>2. DiagOK
  BY DEF Init, DiagOK, Phase, Proto
<1> QED
  BY <1>1, <1>2, HeldIsRelation DEF Init, TypeOK, PastOK

LEMMA StepTypeOK == TypeOK /\ [Next]_vars => TypeOK'
<1> SUFFICES ASSUME TypeOK, [Next]_vars PROVE TypeOK'
  OBVIOUS
<1> USE DEF TypeOK
<1>1. CASE ReadTable
  <2>1. pc' \in Phase /\ proto' \in Proto /\ lines' \in SUBSET Line
    BY <1>1, GoOnOK DEF ReadTable, DiagOK, Phase
  <2> QED
    BY <1>1, <2>1 DEF ReadTable, world, WorldOK, DiagOK, PastOK
<1>2. CASE ListProcesses
  <2>1. owners' \in [Inode -> SUBSET Pid] /\ todo' \in SUBSET Pid
    BY <1>2 DEF ListProcesses, StartMap, NoOwners, Listed, WorldOK
  <2> QED
    BY <1>2, <2>1, HeldIsRelation DEF ListProcesses, world, WorldOK, DiagOK, PastOK, Phase
<1>3. ASSUME NEW p \in Pid, Visit(p) PROVE TypeOK'
  <2>1. owners' \in [Inode -> SUBSET Pid] /\ todo' \in SUBSET Pid /\ pc' \in Phase
    BY <1>3 DEF Visit, DiagOK, Phase
  <2> QED
    BY <1>3, <2>1 DEF Visit, world, WorldOK, DiagOK, PastOK
<1>4. CASE Assemble
  <2>1. pc' \in Phase /\ proto' \in Proto /\ sockets' \in SUBSET Entry
    BY <1>4, GoOnOK, EntriesOK DEF Assemble, DiagOK
  <2> QED
    BY <1>4, <2>1 DEF Assemble, world, WorldOK, DiagOK, PastOK
<1>5. ASSUME NEW p \in Pid, NEW i \in Inode, NEW k \in Kind, OpenSocket(p, i, k) PROVE TypeOK'
  <2>1. /\ [holds EXCEPT ![p] = @ \cup {i}] \in [Pid -> SUBSET Inode]
        /\ [sock EXCEPT ![i] = k] \in [Inode -> Life]
    BY DEF WorldOK, Life
  <2> QED
    BY <1>5, <2>1, ChangeOK DEF OpenSocket, WorldOK
<1>6. ASSUME NEW p \in Pid, NEW i \in Inode, CloseSocket(p, i) PROVE TypeOK'
  <2> DEFINE rest == [holds EXCEPT ![p] = @ \ {i}]
  <2>1. rest \in [Pid -> SUBSET Inode] /\ alive \in SUBSET Pid
    BY DEF WorldOK
  <2>2. Released(rest) \in [Inode -> Life]
    BY ReleasedOK
  <2>3. Change(rest, Released(rest), alive, {i})
    BY <1>6 DEF CloseSocket
  <2> HIDE DEF rest
  <2> QED
    BY <2>1, <2>2, <2>3, ChangeOK
<1>7. ASSUME NEW p \in Pid, NEW q \in Pid, Fork(p, q) PROVE TypeOK'
  <2>1. /\ [holds EXCEPT ![q] = holds[p]] \in [Pid -> SUBSET Inode]
        /\ alive \cup {q} \in SUBSET Pid /\ holds[p] \in SUBSET Inode
    BY DEF WorldOK
  <2> QED
    BY <1>7, <2>1, ChangeOK DEF Fork, WorldOK
<1>8. ASSUME NEW p \in Pid, Exit(p) PROVE TypeOK'
  <2> DEFINE rest == [holds EXCEPT ![p] = {}]
  <2>1. /\ rest \in [Pid -> SUBSET Inode]
        /\ alive \ {p} \in SUBSET Pid /\ holds[p] \in SUBSET Inode
    BY DEF WorldOK
  <2>2. Released(rest) \in [Inode -> Life]
    BY ReleasedOK
  <2>3. Change(rest, Released(rest), alive \ {p}, holds[p])
    BY <1>8 DEF Exit
  <2> HIDE DEF rest
  <2> QED
    BY <2>1, <2>2, <2>3, ChangeOK
<1>9. CASE UNCHANGED vars
  BY <1>9 DEF vars, world, diag, WorldOK, DiagOK, PastOK
<1> QED
  BY <1>1, <1>2, <1>3, <1>4, <1>5, <1>6, <1>7, <1>8, <1>9 DEF Next, Report, Processes

\* Every variable keeps its type, whatever the processes do meanwhile.
THEOREM TypeCorrect == Spec => []TypeOK
<1>1. Init => TypeOK
  BY InitTypeOK
<1>2. TypeOK /\ [Next]_vars => TypeOK'
  BY StepTypeOK
<1> QED
  BY <1>1, <1>2, PTL DEF Spec
------------------------------------------------------------------------------
(* What a step of the processes may do to a report under way: nothing to     *)
(* its own variables, nor to the sockets it does not touch.                  *)

MachineInv ==
  /\ \A p \in Pid : holds[p] # {} => p \in alive
  /\ \A i \in Inode : Open(i) => \E p \in Pid : i \in holds[p]

\* What the sockets nothing happened to go through: sock and Holders stay.
Kept(i) == sock'[i] = sock[i] /\ Holders(i)' = Holders(i)

ProcessFacts ==
  /\ UNCHANGED <<hidden, hidepid, readable, diag>>
  /\ touched \subseteq touched' /\ held \subseteq held' /\ Held' \subseteq held'
  /\ \A i \in Inode \ touched' : Kept(i)

LEMMA ChangeFacts ==
  ASSUME TypeOK, NEW h, NEW s, NEW a, NEW about, Change(h, s, a, about),
         \A i \in Inode \ about : s[i] = sock[i] /\ \A p \in Pid : i \in h[p] <=> i \in holds[p]
  PROVE  ProcessFacts
<1>1. UNCHANGED <<hidden, hidepid, readable, diag>> /\ touched \subseteq touched' /\ held \subseteq held'
  BY DEF Change
<1>2. Held' \subseteq held'
  BY DEF Change, Held
<1>3. ASSUME NEW i \in Inode \ touched' PROVE Kept(i)
  <2>1. s[i] = sock[i] /\ \A p \in Pid : i \in h[p] <=> i \in holds[p]
    BY <1>3 DEF Change
  <2>2. sock' = s /\ holds' = h
    BY DEF Change
  <2>3. Holders(i)' = Holders(i)
    BY <2>1, <2>2 DEF Holders
  <2> QED
    BY <2>1, <2>2, <2>3 DEF Kept
<1> QED
  BY <1>1, <1>2, <1>3 DEF ProcessFacts

LEMMA ReleasedKeeps ==
  ASSUME TypeOK, NEW h, NEW i \in Inode, \E p \in Pid : i \in h[p]
  PROVE  Released(h)[i] = sock[i]
BY DEF Released

LEMMA ReleasedOpen ==
  ASSUME TypeOK, NEW h, NEW i \in Inode, Released(h)[i] \in Kind
  PROVE  Released(h)[i] = sock[i] /\ \E p \in Pid : i \in h[p]
BY DEF Released, Open, Kind

LEMMA ProcessStep ==
  ASSUME TypeOK, MachineInv, Processes
  PROVE  ProcessFacts /\ MachineInv'
<1>0. holds \in [Pid -> SUBSET Inode] /\ sock \in [Inode -> Life]
  BY DEF TypeOK, WorldOK
<1>1. ASSUME NEW p \in Pid, NEW i \in Inode, NEW k \in Kind, OpenSocket(p, i, k)
      PROVE  ProcessFacts /\ MachineInv'
  <2> DEFINE h == [holds EXCEPT ![p] = @ \cup {i}]
             s == [sock EXCEPT ![i] = k]
  <2>1. Change(h, s, alive, {i}) /\ p \in alive
    BY <1>1 DEF OpenSocket
  <2>2. \A j \in Inode \ {i} : s[j] = sock[j] /\ \A q \in Pid : j \in h[q] <=> j \in holds[q]
    BY <1>0
  <2>3. ProcessFacts
    <3> HIDE DEF h, s
    <3> QED BY <2>1, <2>2, ChangeFacts
  <2>4. holds' = h /\ sock' = s /\ alive' = alive
    BY <2>1 DEF Change
  <2>5. \A q \in Pid : h[q] # {} => q \in alive
    BY <1>0, <2>1 DEF MachineInv
  <2>6. \A j \in Inode : s[j] \in Kind => \E q \in Pid : j \in h[q]
    BY <1>0 DEF MachineInv, Open
  <2> QED
    BY <2>3, <2>4, <2>5, <2>6 DEF MachineInv, Open
<1>2. ASSUME NEW p \in Pid, NEW gone \in SUBSET Inode, NEW a, NEW h,
             h = [holds EXCEPT ![p] = @ \ gone], gone \subseteq holds[p],
             Change(h, Released(h), a, gone), a = alive \/ (a = alive \ {p} /\ h[p] = {})
      PROVE  ProcessFacts /\ MachineInv'
  <2>1. \A j \in Inode \ gone, q \in Pid : j \in h[q] <=> j \in holds[q]
    BY <1>0, <1>2
  <2>2. ASSUME NEW j \in Inode \ gone PROVE Released(h)[j] = sock[j]
    <3>1. CASE Open(j)
      BY <3>1, <2>1, <2>2, ReleasedKeeps DEF MachineInv
    <3>2. CASE ~Open(j)
      BY <3>2 DEF Released
    <3> QED BY <3>1, <3>2
  <2> DEFINE s == Released(h)
  <2>3. ProcessFacts
    <3>1. \A j \in Inode \ gone : s[j] = sock[j] /\ \A q \in Pid : j \in h[q] <=> j \in holds[q]
      BY <2>1, <2>2
    <3>2. Change(h, s, a, gone)
      BY <1>2
    <3> HIDE DEF s
    <3> QED BY <3>1, <3>2, ChangeFacts
  <2>4. holds' = h /\ sock' = Released(h) /\ alive' = a
    BY <1>2 DEF Change
  <2>5. \A q \in Pid : h[q] # {} => q \in a
    BY <1>0, <1>2 DEF MachineInv
  <2>6. \A j \in Inode : Released(h)[j] \in Kind => \E q \in Pid : j \in h[q]
    BY ReleasedOpen
  <2> QED
    BY <2>3, <2>4, <2>5, <2>6 DEF MachineInv, Open
<1>3. ASSUME NEW p \in Pid, NEW i \in Inode, CloseSocket(p, i)
      PROVE  ProcessFacts /\ MachineInv'
  <2> DEFINE h == [holds EXCEPT ![p] = @ \ {i}]
  <2>1. Change(h, Released(h), alive, {i}) /\ {i} \subseteq holds[p]
    BY <1>3 DEF CloseSocket
  <2> QED
    BY <2>1, <1>2
<1>4. ASSUME NEW p \in Pid, Exit(p)
      PROVE  ProcessFacts /\ MachineInv'
  <2> DEFINE h == [holds EXCEPT ![p] = {}]
  <2>1. Change(h, Released(h), alive \ {p}, holds[p])
    BY <1>4 DEF Exit
  <2>2. h = [holds EXCEPT ![p] = @ \ holds[p]] /\ h[p] = {} /\ holds[p] \in SUBSET Inode
    BY <1>0
  <2> HIDE DEF h
  <2> QED
    BY <2>1, <2>2, <1>2
<1>5. ASSUME NEW p \in Pid, NEW c \in Pid, Fork(p, c)
      PROVE  ProcessFacts /\ MachineInv'
  <2> DEFINE h == [holds EXCEPT ![c] = holds[p]]
             a == alive \cup {c}
  <2>1. Change(h, sock, a, holds[p]) /\ c \notin alive /\ p \in alive
    BY <1>5 DEF Fork
  <2>2. holds[c] = {}
    BY <2>1 DEF MachineInv
  <2>3. \A j \in Inode \ holds[p] : sock[j] = sock[j] /\ \A q \in Pid : j \in h[q] <=> j \in holds[q]
    BY <1>0, <2>2
  <2>4. ProcessFacts
    <3> HIDE DEF h, a
    <3> QED BY <2>1, <2>3, ChangeFacts
  <2>5. holds' = h /\ sock' = sock /\ alive' = a
    BY <2>1 DEF Change
  <2>6. \A q \in Pid : h[q] # {} => q \in a
    BY <1>0 DEF MachineInv
  <2>7. \A j \in Inode : Open(j) => \E q \in Pid : j \in h[q]
    BY <1>0, <2>2 DEF MachineInv
  <2> QED
    BY <2>4, <2>5, <2>6, <2>7 DEF MachineInv, Open
<1> QED
  BY <1>1, <1>3, <1>4, <1>5 DEF Processes

LEMMA InitMachineInv == Init => MachineInv
BY DEF Init, MachineInv, Open, Holders, Kind

LEMMA StepMachineInv == TypeOK /\ MachineInv /\ [Next]_vars => MachineInv'
<1>1. ASSUME UNCHANGED world, MachineInv PROVE MachineInv'
  BY <1>1 DEF world, MachineInv, Open
<1>2. Report \/ UNCHANGED vars => UNCHANGED world
  BY DEF Report, ReadTable, ListProcesses, Assemble, Visit, vars
<1> QED
  BY <1>1, <1>2, ProcessStep DEF Next
------------------------------------------------------------------------------
(* An owner was one since /proc was listed.  While the visits last, every    *)
(* pair in the map was seen: it is in held, which then holds every pair      *)
(* there is.                                                                 *)

SeenInv == /\ Held \subseteq held
           /\ pc = "visit" =>
                \A i \in Inode : \A p \in owners[i] : <<p, i>> \in held /\ p \notin hidden

LEMMA InitSeenInv == Init => SeenInv
BY DEF Init, SeenInv

LEMMA StepSeenInv == TypeOK /\ MachineInv /\ SeenInv /\ [Next]_vars => SeenInv'
<1> SUFFICES ASSUME TypeOK, MachineInv, SeenInv, [Next]_vars PROVE SeenInv'
  OBVIOUS
<1>1. CASE ReadTable
  BY <1>1 DEF ReadTable, GoOn, SeenInv, Held, world
<1>2. CASE ListProcesses
  BY <1>2 DEF ListProcesses, StartMap, NoOwners, SeenInv, Held, world
<1>3. ASSUME NEW p \in Pid, Visit(p) PROVE SeenInv'
  <2>1. UNCHANGED <<world, held>> /\ pc = "visit"
    BY <1>3 DEF Visit
  <2>2. pc' = "visit" =>
          \A i \in Inode : owners'[i] = owners[i] \cup {q \in {p} : Shows(q) /\ i \in holds[q]}
    BY <1>3 DEF Visit
  <2>3. ASSUME pc' = "visit", NEW i \in Inode, NEW q \in owners'[i]
        PROVE  <<q, i>> \in held /\ q \notin hidden
    <3>1. CASE q \in owners[i]
      BY <3>1, <2>1 DEF SeenInv
    <3>2. CASE q = p /\ Shows(p) /\ i \in holds[p]
      BY <3>2 DEF SeenInv, Held, Shows
    <3> QED
      BY <2>2, <2>3, <3>1, <3>2
  <2> QED
    BY <2>1, <2>3 DEF SeenInv, Held, world
<1>4. CASE Assemble
  BY <1>4 DEF Assemble, GoOn, SeenInv, Held, world
<1>5. CASE Processes
  <2>1. ProcessFacts
    BY <1>5, ProcessStep
  <2> QED
    BY <2>1 DEF ProcessFacts, SeenInv, diag
<1>6. CASE UNCHANGED vars
  BY <1>6 DEF vars, world, diag, SeenInv, Held
<1> QED
  BY <1>1, <1>2, <1>3, <1>4, <1>5, <1>6 DEF Next, Report

LEMMA StepNoPhantomOwner ==
  ASSUME TypeOK, MachineInv, SeenInv, [Next]_vars,
         NEW e \in sockets' \ sockets, NEW p \in e.pids
  PROVE  <<p, e.inode>> \in held /\ p \notin hidden
<1>1. CASE Assemble
  <2>1. pc = "visit" /\ e \in Entries
    BY <1>1 DEF Assemble
  <2>2. PICK l \in lines : e = [inode |-> l.inode, kind |-> l.kind, pids |-> owners[l.inode]]
    BY <2>1 DEF Entries
  <2>3. l.inode \in Inode /\ e.inode = l.inode /\ p \in owners[l.inode]
    BY <2>2 DEF TypeOK, DiagOK, Line
  <2> QED
    BY <2>1, <2>3 DEF SeenInv
<1>2. CASE Processes
  BY <1>2, ProcessStep DEF ProcessFacts, diag
<1>3. CASE ReadTable \/ ListProcesses \/ (\E q \in Pid : Visit(q)) \/ UNCHANGED vars
  BY <1>3 DEF ReadTable, ListProcesses, Visit, vars, diag
<1> QED
  BY <1>1, <1>2, <1>3 DEF Next, Report

\* A process named beside a socket held it after /proc was listed for that
\* table, and let its descriptors be listed.
THEOREM OwnersWereOwners == Spec => NoPhantomOwner
<1> DEFINE Inv == TypeOK /\ MachineInv /\ SeenInv
<1>1. Init => Inv
  BY InitTypeOK, InitMachineInv, InitSeenInv
<1>2. Inv /\ [Next]_vars => Inv'
  BY StepTypeOK, StepMachineInv, StepSeenInv
<1>3. Inv /\ [Next]_vars =>
        [\A e \in sockets' \ sockets : \A p \in e.pids :
            <<p, e.inode>> \in held /\ p \notin hidden]_vars
  BY StepNoPhantomOwner
<1> QED
  BY <1>1, <1>2, <1>3, PTL DEF Spec, NoPhantomOwner
------------------------------------------------------------------------------
(* A socket nothing happens to.  Its line is among those read from its       *)
(* table, each visit adds the owner it finds, and when the table is finished *)
(* the entry says what has been true all along.                              *)

Finished == IF pc = "done" THEN Proto
            ELSE CASE proto = "tcp" -> {} [] proto = "udp" -> {"tcp"}
                   [] proto = "unix" -> {"tcp", "udp"}
LineOf(i)  == [inode |-> i, kind |-> sock[i]]
EntryOf(i) == [inode |-> i, kind |-> sock[i], pids |-> Holders(i) \ hidden]
Due(i, t)  == Open(i) /\ TableOf(sock[i]) = t
Shown(i)   == Open(i) /\ TableOf(sock[i]) \in Finished \cap readable

LinesExact(i)   == /\ \A l \in lines : l.inode = i => l = LineOf(i) /\ Due(i, proto)
                   /\ Due(i, proto) => LineOf(i) \in lines
OwnersExact(i)  == owners[i] = (Holders(i) \ hidden) \ todo
EntriesExact(i) == /\ \A e \in sockets : e.inode = i => e = EntryOf(i) /\ Shown(i)
                   /\ Shown(i) => EntryOf(i) \in sockets

SteadyInv ==
  \A i \in Inode \ touched :
    /\ EntriesExact(i)
    /\ pc \in {"list", "visit"} => LinesExact(i) /\ proto \in readable
    /\ pc = "visit" => OwnersExact(i)

LEMMA InitSteadyInv == Init => SteadyInv
BY DEF Init, SteadyInv, EntriesExact, Shown, Finished

\* Finishing a table adds it to the finished ones, and nothing else.
LEMMA GoOnFinishes ==
  ASSUME DiagOK, pc # "done", GoOn
  PROVE  Finished' = Finished \cup {proto} /\ pc' \in {"table", "done"}
<1>1. CASE proto = "unix"
  BY <1>1 DEF GoOn, Finished, Proto
<1>2. CASE proto # "unix"
  <2>1. proto' = Following[proto] /\ pc' = "table" /\ proto \in {"tcp", "udp"}
    BY <1>2 DEF GoOn, DiagOK, Proto
  <2> QED
    BY <2>1 DEF Following, Finished
<1> QED
  BY <1>1, <1>2

LEMMA StepSteadyInv == TypeOK /\ MachineInv /\ SteadyInv /\ [Next]_vars => SteadyInv'
<1> SUFFICES ASSUME TypeOK, MachineInv, SteadyInv, [Next]_vars,
                    NEW i \in Inode \ touched'
             PROVE  /\ EntriesExact(i)'
                    /\ pc' \in {"list", "visit"} => LinesExact(i)' /\ proto' \in readable'
                    /\ pc' = "visit" => OwnersExact(i)'
  BY DEF SteadyInv
<1> DEFINE Goal == /\ EntriesExact(i)'
                   /\ pc' \in {"list", "visit"} => LinesExact(i)' /\ proto' \in readable'
                   /\ pc' = "visit" => OwnersExact(i)'
<1>0. DiagOK /\ sock \in [Inode -> Life] /\ alive \in SUBSET Pid
  BY DEF TypeOK, WorldOK
<1>1. CASE ReadTable
  <2>1. UNCHANGED <<world, todo, owners, sockets, touched>> /\ pc = "table"
    BY <1>1 DEF ReadTable
  <2>2. UNCHANGED <<sock, holds, hidden, readable>> /\ EntriesExact(i)
    BY <2>1 DEF world, SteadyInv
  <2>3. CASE proto \in readable /\ pc' = "list" /\ proto' = proto
             /\ lines' = {l \in Line : sock[l.inode] = l.kind /\ TableOf(l.kind) = proto}
    <3>1. Finished' = Finished
      BY <2>1, <2>3 DEF Finished
    <3>2. EntriesExact(i)'
      BY <2>1, <2>2, <3>1 DEF EntriesExact, EntryOf, Shown, Open, Holders
    <3>3. LinesExact(i)'
      <4>1. \A l \in lines' : l.inode = i => l = [inode |-> i, kind |-> sock[i]]
                                             /\ sock[i] \in Kind /\ TableOf(sock[i]) = proto
        BY <2>3 DEF Line
      <4>2. sock[i] \in Kind /\ TableOf(sock[i]) = proto
               => [inode |-> i, kind |-> sock[i]] \in lines'
        BY <2>3 DEF Line
      <4> QED
        BY <2>2, <2>3, <4>1, <4>2 DEF LinesExact, LineOf, Due, Open
    <3> QED
      BY <2>2, <2>3, <3>2, <3>3
  <2>4. CASE proto \notin readable /\ GoOn
    <3>1. Finished' = Finished \cup {proto} /\ pc' \in {"table", "done"}
      BY <1>0, <2>1, <2>4, GoOnFinishes
    <3>2. EntriesExact(i)'
      BY <2>1, <2>2, <2>4, <3>1 DEF EntriesExact, EntryOf, Shown, Open, Holders
    <3> QED
      BY <3>1, <3>2
  <2> QED
    BY <1>1, <2>3, <2>4 DEF ReadTable
<1>2. CASE ListProcesses
  <2>1. /\ UNCHANGED <<sock, holds, hidden, readable, proto, lines, sockets, touched>>
        /\ pc = "list" /\ pc' = "visit"
    BY <1>2 DEF ListProcesses, world
  <2>2. EntriesExact(i) /\ LinesExact(i) /\ proto \in readable /\ Finished' = Finished
    BY <2>1 DEF SteadyInv, Finished
  <2>3. EntriesExact(i)' /\ LinesExact(i)'
    BY <2>1, <2>2 DEF EntriesExact, EntryOf, Shown, Open, Holders, LinesExact, LineOf, Due
  <2>4. Holders(i) \subseteq alive
    BY DEF Holders, MachineInv
  <2>5. owners'[i] = {} /\ todo' = alive
    BY <1>2 DEF ListProcesses, StartMap, NoOwners, Listed
  <2> QED
    BY <2>1, <2>2, <2>3, <2>4, <2>5 DEF OwnersExact, Holders
<1>3. ASSUME NEW p \in Pid, Visit(p) PROVE Goal
  <2>1. /\ UNCHANGED <<sock, holds, alive, hidden, readable, proto, lines, sockets, touched>>
        /\ pc = "visit" /\ pc' \in {"visit", "raised"} /\ p \in todo
        /\ pc' = "visit" =>
             /\ todo' = todo \ {p}
             /\ owners'[i] = owners[i] \cup {q \in {p} : Shows(q) /\ i \in holds[q]}
    BY <1>3 DEF Visit, world
  <2>2. /\ EntriesExact(i) /\ LinesExact(i) /\ proto \in readable /\ OwnersExact(i)
        /\ Finished' = Finished
    <3>1. proto' = proto /\ pc # "done" /\ pc' # "done" /\ proto \in Proto
      BY <1>0, <2>1 DEF DiagOK
    <3>2. Finished' = Finished
      BY <3>1 DEF Finished, Proto
    <3> QED
      BY <2>1, <3>2 DEF SteadyInv
  <2>3. EntriesExact(i)' /\ LinesExact(i)'
    BY <2>1, <2>2 DEF EntriesExact, EntryOf, Shown, Open, Holders, LinesExact, LineOf, Due
  <2>4. p \in Holders(i) \ hidden <=> Shows(p) /\ i \in holds[p]
    BY DEF Holders, Shows, MachineInv
  <2>5. pc' = "visit" => OwnersExact(i)'
    BY <2>1, <2>2, <2>4 DEF OwnersExact, Holders
  <2> QED
    BY <2>1, <2>2, <2>3, <2>5
<1>4. CASE Assemble
  <2>1. /\ UNCHANGED <<sock, holds, hidden, readable, lines, todo, owners, touched>>
        /\ pc = "visit" /\ todo = {} /\ sockets' = sockets \cup Entries /\ GoOn
    BY <1>4 DEF Assemble, world
  <2>2. EntriesExact(i) /\ LinesExact(i) /\ proto \in readable
        /\ owners[i] = Holders(i) \ hidden
    BY <2>1 DEF SteadyInv, OwnersExact
  <2>3. Finished' = Finished \cup {proto} /\ pc' \in {"table", "done"}
    BY <1>0, <2>1, GoOnFinishes
  <2>4. \A e \in Entries : e.inode = i => e = EntryOf(i) /\ Due(i, proto)
    <3> SUFFICES ASSUME NEW e \in Entries, e.inode = i
                 PROVE  e = EntryOf(i) /\ Due(i, proto)
      OBVIOUS
    <3>1. PICK l \in lines : e = [inode |-> l.inode, kind |-> l.kind, pids |-> owners[l.inode]]
      BY DEF Entries
    <3>2. l.inode = i
      BY <3>1
    <3>3. l = LineOf(i) /\ Due(i, proto)
      BY <2>2, <3>2 DEF LinesExact
    <3>4. l.kind = sock[i]
      BY <3>3 DEF LineOf
    <3> QED
      BY <2>2, <3>1, <3>2, <3>3, <3>4 DEF EntryOf
  <2>5. Due(i, proto) => EntryOf(i) \in Entries
    <3>1. LineOf(i).inode = i /\ LineOf(i).kind = sock[i]
      BY DEF LineOf
    <3> QED
      BY <2>2, <3>1 DEF LinesExact, EntryOf, Entries
  <2>6. EntryOf(i)' = EntryOf(i) /\ (Shown(i)' <=> Shown(i) \/ Due(i, proto))
    BY <2>1, <2>2, <2>3 DEF EntryOf, Holders, Shown, Due, Open
  <2>7. EntriesExact(i)'
    BY <2>1, <2>2, <2>4, <2>5, <2>6 DEF EntriesExact
  <2> QED
    BY <2>3, <2>7
<1>5. CASE Processes
  <2>1. UNCHANGED <<hidden, readable, diag>> /\ Kept(i) /\ touched \subseteq touched'
    BY <1>5, ProcessStep DEF ProcessFacts
  <2>2. /\ EntriesExact(i) /\ (pc \in {"list", "visit"} => LinesExact(i) /\ proto \in readable)
        /\ (pc = "visit" => OwnersExact(i))
    BY <2>1 DEF SteadyInv
  <2>3. Finished' = Finished
    BY <2>1 DEF Finished, diag
  <2>4. EntriesExact(i)' <=> EntriesExact(i)
    BY <2>1, <2>3 DEF EntriesExact, EntryOf, Shown, Open, Kept, diag
  <2>5. (LinesExact(i)' <=> LinesExact(i)) /\ (OwnersExact(i)' <=> OwnersExact(i))
    BY <2>1 DEF LinesExact, LineOf, Due, Open, OwnersExact, Kept, diag
  <2> QED
    BY <2>1, <2>2, <2>4, <2>5 DEF diag
<1>6. CASE UNCHANGED vars
  <2>1. UNCHANGED <<world, diag, touched>>
    BY <1>6 DEF vars
  <2>2. Finished' = Finished /\ Kept(i) /\ UNCHANGED <<hidden, readable, diag>>
    BY <2>1 DEF Finished, Kept, Holders, world, diag
  <2>3. EntriesExact(i)' <=> EntriesExact(i)
    BY <2>2 DEF EntriesExact, EntryOf, Shown, Open, Kept, diag
  <2>4. (LinesExact(i)' <=> LinesExact(i)) /\ (OwnersExact(i)' <=> OwnersExact(i))
    BY <2>2 DEF LinesExact, LineOf, Due, Open, OwnersExact, Kept, diag
  <2>5. i \in Inode \ touched
    BY <2>1
  <2> QED
    BY <2>2, <2>3, <2>4, <2>5 DEF SteadyInv, diag
<1> QED
  BY <1>1, <1>2, <1>3, <1>4, <1>5, <1>6 DEF Next, Report

LEMMA SteadyIsExact == TypeOK /\ SteadyInv => SteadySocketsExact
<1> SUFFICES ASSUME TypeOK, SteadyInv, pc = "done", NEW i \in Inode \ touched
             PROVE  {e \in sockets : e.inode = i} =
                      IF Open(i) /\ TableOf(sock[i]) \in readable THEN {EntryOf(i)} ELSE {}
  BY DEF SteadySocketsExact, EntryOf
<1>1. EntriesExact(i) /\ Finished = Proto /\ readable \subseteq Proto
  BY DEF SteadyInv, Finished, TypeOK, WorldOK
<1>2. Shown(i) <=> Open(i) /\ TableOf(sock[i]) \in readable
  BY <1>1 DEF Shown
<1>3. EntryOf(i).inode = i
  BY DEF EntryOf
<1> QED
  BY <1>1, <1>2, <1>3 DEF EntriesExact

\* A socket nothing happens to is reported once, with all its visible owners,
\* however much happens to the others.
THEOREM SteadySockets == Spec => []SteadySocketsExact
<1> DEFINE Inv == TypeOK /\ MachineInv /\ SteadyInv
<1>1. Init => Inv
  BY InitTypeOK, InitMachineInv, InitSteadyInv
<1>2. Inv /\ [Next]_vars => Inv'
  BY StepTypeOK, StepMachineInv, StepSteadyInv
<1>3. Inv => SteadySocketsExact
  BY SteadyIsExact
<1> QED
  BY <1>1, <1>2, <1>3, PTL DEF Spec
------------------------------------------------------------------------------
(***************************************************************************)
(* Why the report ends, as far as it can be said without fairness: each of *)
(* its steps comes to a later stage or leaves fewer processes to visit,    *)
(* and no process brings it back, whatever starts while it goes round.     *)
(***************************************************************************)
Stage == IF pc \in {"done", "raised"} THEN 0
         ELSE (IF proto = "tcp" THEN 6 ELSE IF proto = "udp" THEN 3 ELSE 0)
                + (IF pc = "table" THEN 3 ELSE IF pc = "list" THEN 2 ELSE 1)
Closer == \/ Stage' < Stage
          \/ Stage' = Stage /\ Cardinality(todo') < Cardinality(todo)

LEMMA GoOnIsCloser ==
  ASSUME proto \in Proto, pc \in Phase \ {"done", "raised"}, GoOn
  PROVE  Stage' < Stage
BY DEF GoOn, Following, Proto, Phase, Stage

LEMMA ReportIsCloser == TypeOK /\ Report => Closer
<1> SUFFICES ASSUME TypeOK, Report PROVE Closer
  OBVIOUS
<1>0. proto \in Proto /\ pc \in Phase /\ todo \in SUBSET Pid
  BY DEF TypeOK, DiagOK
<1>1. CASE ReadTable
  <2>1. pc = "table" /\ ((pc' = "list" /\ proto' = proto) \/ GoOn)
    BY <1>1 DEF ReadTable
  <2>2. CASE pc' = "list" /\ proto' = proto
    BY <1>0, <2>1, <2>2 DEF Closer, Stage, Proto
  <2> QED
    BY <1>0, <2>1, <2>2, GoOnIsCloser DEF Closer
<1>2. CASE ListProcesses
  BY <1>0, <1>2 DEF ListProcesses, Closer, Stage, Proto
<1>3. CASE Assemble
  BY <1>0, <1>3, GoOnIsCloser DEF Assemble, Closer
<1>4. ASSUME NEW p \in Pid, Visit(p) PROVE Closer
  <2>0. CASE pc' = "raised"
    BY <1>0, <1>4, <2>0 DEF Visit, Closer, Stage, Proto
  <2>1. pc' # "raised" => p \in todo /\ todo' = todo \ {p} /\ UNCHANGED <<pc, proto>>
    BY <1>4 DEF Visit
  <2>2. IsFiniteSet(todo)
    BY <1>0, SocketsAssumption, FS_Subset
  <2>3. pc' # "raised" => Cardinality(todo) \in Nat /\ Cardinality(todo') = Cardinality(todo) - 1
    BY <2>1, <2>2, FS_CardinalityType, FS_RemoveElement
  <2>4. pc' # "raised" => Stage' = Stage
    BY <2>1 DEF Stage
  <2> QED
    BY <2>0, <2>3, <2>4 DEF Closer
<1> QED
  BY <1>1, <1>2, <1>3, <1>4 DEF Report

\* A report takes finitely many steps, whatever the number of processes and
\* however they come and go: network.py:264 lists /proc once for each table, so
\* the rounds are bounded by what was listed.
THEOREM StepsRunOut ==
  Spec => [][(Report => Closer) /\ (Processes => UNCHANGED <<Stage, todo>>)]_vars
<1>1. TypeOK /\ [Next]_vars =>
        [(Report => Closer) /\ (Processes => UNCHANGED <<Stage, todo>>)]_vars
  <2>1. Processes => UNCHANGED <<pc, proto, todo>>
    BY DEF Processes, Exit, Fork, CloseSocket, OpenSocket, Change, diag
  <2>2. UNCHANGED <<pc, proto, todo>> => UNCHANGED <<Stage, todo>>
    BY DEF Stage
  <2> QED
    BY <2>1, <2>2, ReportIsCloser
<1> QED
  BY <1>1, TypeCorrect, PTL DEF Spec
==============================================================================
