------------------------------- MODULE Sockets -------------------------------
(***************************************************************************)
(* src/lxperun/network.py: socket_diag() and the listeners network_report  *)
(* picks from it.  Three tables of /proc/net are read one after the other, *)
(* and after each of them every process's file descriptors, while          *)
(* processes go on forking, exiting, opening and closing sockets.          *)
(*                                                                         *)
(* A socket is its inode and its kind.  One process is visited in one      *)
(* step.  Bandwidth, ARP and conntrack are not part of this module.        *)
(***************************************************************************)
EXTENDS Naturals, FiniteSets

CONSTANTS Pid, Inode,
          Tables,      \* sets of tables a machine may let be read
          Foreign,     \* sets of processes that may be somebody else's
          MaxChanges   \* bound: changes the processes make during the report

Proto == {"tcp", "udp", "unix"}

ASSUME SocketsAssumption ==
  /\ IsFiniteSet(Pid) /\ MaxChanges \in Nat
  /\ Tables \subseteq SUBSET Proto /\ Foreign \subseteq SUBSET Pid

VARIABLES
  sock, holds, alive,        \* sockets; who holds them; processes there are
  hidden,                    \* processes whose fd directory may not be read
  hidepid,                   \* /proc is mounted with hidepid=1
  readable,                  \* tables of /proc/net that can be read
  pc, proto,                 \* where the report stands, in which table
  lines, todo, owners,       \* the table's lines; pids to visit; _inode_to_pids
  sockets,                   \* the SocketEntry records so far
  touched, held,             \* history: inodes something happened to; pairs that
                             \* were <<pid, inode>> since /proc was last listed
  changes                    \* counter of the bound

world == <<sock, holds, alive, hidden, hidepid, readable>>
diag  == <<pc, proto, lines, todo, owners, sockets>>
vars  == <<world, diag, touched, held, changes>>

Kind  == {"tcp listen", "tcp connected", "tcp6 listen", "udp bound", "unix"}
Life  == Kind \cup {"unused", "closed"}
Phase == {"table", "list", "visit", "done", "raised"}
Line  == [inode : Inode, kind : Kind]
Entry == [inode : Inode, kind : Kind, pids : SUBSET Pid]

Open(i)    == sock[i] \in Kind
Holders(i) == {p \in Pid : i \in holds[p]}
Held       == {x \in Pid \X Inode : x[2] \in holds[x[1]]}

\* The table of /proc/net a socket is printed in; nobody reads tcp6.
TableOf(kind) == CASE kind \in {"tcp listen", "tcp connected"} -> "tcp"
                   [] kind = "tcp6 listen" -> "tcp6"
                   [] kind = "udp bound" -> "udp"
                   [] kind = "unix" -> "unix"

Init ==
  /\ alive \in SUBSET Pid /\ hidden \in Foreign /\ hidepid \in BOOLEAN
  /\ holds \in {h \in [Pid -> SUBSET Inode] : \A p \in Pid \ alive : h[p] = {}}
  /\ sock \in {s \in [Inode -> Kind \cup {"unused"}] :
                 \A i \in Inode : s[i] = "unused" <=> Holders(i) = {}}
  /\ readable \in Tables
  /\ pc = "table" /\ proto = "tcp"
  /\ lines = {} /\ todo = {} /\ owners = [i \in Inode |-> {}] /\ sockets = {}
  /\ touched = {} /\ held = Held
  /\ changes = 0
------------------------------------------------------------------------------
(* The processes.  Inode numbers are not used twice during a report. *)

Change(newHolds, newSock, newAlive, about) ==
  /\ changes < MaxChanges /\ changes' = changes + 1
  /\ holds' = newHolds /\ sock' = newSock /\ alive' = newAlive
  /\ touched' = touched \cup about
  /\ held' = held \cup {x \in Pid \X Inode : x[2] \in newHolds[x[1]]}
  /\ UNCHANGED <<hidden, hidepid, readable, diag>>

\* A socket nobody holds any more is closed.
Released(newHolds) ==
  [i \in Inode |-> IF Open(i) /\ \A p \in Pid : i \notin newHolds[p]
                     THEN "closed" ELSE sock[i]]

OpenSocket(p, i, kind) ==
  /\ p \in alive /\ sock[i] = "unused"
  /\ Change([holds EXCEPT ![p] = @ \cup {i}], [sock EXCEPT ![i] = kind], alive, {i})

CloseSocket(p, i) ==
  /\ i \in holds[p]
  /\ LET rest == [holds EXCEPT ![p] = @ \ {i}]
     IN Change(rest, Released(rest), alive, {i})

Fork(p, child) ==
  /\ p \in alive /\ child \in Pid \ alive
  /\ Change([holds EXCEPT ![child] = holds[p]], sock, alive \cup {child}, holds[p])

Exit(p) ==
  /\ p \in alive
  /\ LET rest == [holds EXCEPT ![p] = {}]
     IN Change(rest, Released(rest), alive \ {p}, holds[p])
------------------------------------------------------------------------------
(* socket_diag() *)

Following == [tcp |-> "udp", udp |-> "unix"]

\* The next table, or the end of the report.
GoOn ==
  IF proto = "unix" THEN pc' = "done" /\ UNCHANGED proto
                    ELSE pc' = "table" /\ proto' = Following[proto]

\* A table that cannot be read gives no entries.
ReadTable ==
  /\ pc = "table"
  /\ \/ /\ proto \in readable /\ pc' = "list" /\ UNCHANGED proto
        /\ lines' = {l \in Line : sock[l.inode] = l.kind /\ TableOf(l.kind) = proto}
     \/ proto \notin readable /\ GoOn /\ UNCHANGED lines
  /\ UNCHANGED <<world, todo, owners, sockets, touched, held, changes>>

\* _inode_to_pids starts from an empty map and lists /proc once.
NoOwners == [i \in Inode |-> {}]
AddToOld == owners                \* a faulty variant: adds to the previous map
StartMap == NoOwners
ListedOnce == IF proto = "tcp" THEN alive ELSE {}   \* faulty: for one table only
Listed     == alive

ListProcesses ==
  /\ pc = "list" /\ pc' = "visit"
  /\ todo' = Listed
  /\ owners' = StartMap
  /\ held' = Held
  /\ UNCHANGED <<world, proto, lines, sockets, touched, changes>>

\* A process that is gone by now, or whose descriptors may not be listed, is
\* passed over.  Under hidepid=1 not even its directory may be searched: then
\* fd_dir.exists(), outside the try, raises (in every Python before 3.14).
ShowsAll(p) == p \in alive         \* a faulty variant
Shows(p)    == p \in alive /\ p \notin hidden
RaisesAlways(p) == p \in alive /\ p \in hidden   \* faulty: no except OSError
Raises(p)       == p \in alive /\ p \in hidden /\ hidepid

Visit(p) ==
  /\ pc = "visit" /\ p \in todo
  /\ \/ Raises(p) /\ pc' = "raised" /\ UNCHANGED <<todo, owners>>
     \/ /\ ~Raises(p) /\ UNCHANGED pc
        /\ todo' = todo \ {p}
        /\ owners' = [i \in Inode |->
                        owners[i] \cup {q \in {p} : Shows(q) /\ i \in holds[q]}]
  /\ UNCHANGED <<world, proto, lines, sockets, touched, held, changes>>

EntriesPidZero ==                 \* a faulty variant: pid 0 where nobody was found
  {[inode |-> l.inode, kind |-> l.kind,
    pids |-> IF owners[l.inode] = {} THEN {0} ELSE owners[l.inode]] : l \in lines}
Entries == {[inode |-> l.inode, kind |-> l.kind, pids |-> owners[l.inode]] : l \in lines}

Assemble ==
  /\ pc = "visit" /\ todo = {}
  /\ sockets' = sockets \cup Entries
  /\ GoOn
  /\ UNCHANGED <<world, lines, todo, owners, touched, held, changes>>

------------------------------------------------------------------------------
Report == ReadTable \/ ListProcesses \/ Assemble \/ \E p \in Pid : Visit(p)
Processes ==
  \/ \E p \in Pid : \/ Exit(p) \/ \E q \in Pid : Fork(p, q)
                    \/ \E i \in Inode : CloseSocket(p, i) \/ \E k \in Kind : OpenSocket(p, i, k)
Next == Report \/ Processes

\* The report runs; processes need do nothing.
Spec == Init /\ [][Next]_vars /\ WF_vars(Report)
------------------------------------------------------------------------------
WorldOK == /\ sock \in [Inode -> Life] /\ holds \in [Pid -> SUBSET Inode]
           /\ alive \in SUBSET Pid /\ hidden \in SUBSET Pid /\ hidepid \in BOOLEAN
           /\ readable \in SUBSET Proto
DiagOK  == /\ pc \in Phase /\ proto \in Proto /\ lines \in SUBSET Line
           /\ todo \in SUBSET Pid /\ owners \in [Inode -> SUBSET Pid]
           /\ sockets \in SUBSET Entry
PastOK  == touched \in SUBSET Inode /\ held \in SUBSET (Pid \X Inode) /\ changes \in Nat

TypeOK == WorldOK /\ DiagOK /\ PastOK

\* No owner is made up, nor taken from an earlier table's visits: a process
\* named beside a socket held it after /proc was listed for this very table,
\* and let its descriptors be listed.
NoPhantomOwner ==
  [][\A e \in sockets' \ sockets : \A p \in e.pids :
        <<p, e.inode>> \in held /\ p \notin hidden]_vars

\* A socket nothing happens to during the report is in it exactly once when
\* its table can be read, with all its owners the caller may see, however much
\* the rest of the machine changes between the tables and the visits.
SteadySocketsExact ==
  pc = "done" =>
    \A i \in Inode \ touched :
      {e \in sockets : e.inode = i} =
        IF Open(i) /\ TableOf(sock[i]) \in readable
          THEN {[inode |-> i, kind |-> sock[i], pids |-> Holders(i) \ hidden]}
          ELSE {}

\* The report comes to its end while processes come and go, with whatever it
\* could read: a process that exits before its visit, or keeps its descriptors
\* to itself, and a table that cannot be read cost it their own lines only.  A
\* process it may see but not search, under hidepid, does end it.
ReportEnds ==
  /\ <>(pc \in {"done", "raised"})
  /\ ~hidepid \/ hidden = {} => <>(pc = "done")
==============================================================================
