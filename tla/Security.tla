------------------------------- MODULE Security ------------------------------
(***************************************************************************)
(* src/lxperun/security.py and containers.py: the posture of the host,     *)
(* then the walk for world-writable paths, with a budget, while files are  *)
(* made, removed and given other modes.                                    *)
(*                                                                         *)
(* A node is its path, a sequence of names; its depth is its length.       *)
(***************************************************************************)
EXTENDS Integers, Sequences, FiniteSets, SequencesExt

CONSTANTS Node,               \* files, directories and links below the critical paths
          KindOf,             \* of each node: "dir", "file" or "link"
          CriticalPath,       \* the bases of the walk, in their order
          Host,               \* what the host may look like
          MaxWorldWritable,   \* the budget
          MaxClosed,          \* bound: directories that only root may list, or only root search
          MaxNodeChanges      \* bound: changes among the nodes

Dir == {n \in Node : KindOf[n] = "dir"}
ASSUME SecurityAssumption ==
  /\ Node \subseteq Seq(STRING) \ {<<>>} /\ IsFiniteSet(Node)
  /\ KindOf \in [Node -> {"dir", "file", "link"}]
  /\ \A n \in Node : \A k \in 1..(Len(n) - 1) : SubSeq(n, 1, k) \in Dir
  /\ CriticalPath \in Seq(Dir) /\ ToSet(CriticalPath) = {n \in Node : Len(n) = 1}
  /\ \A i, j \in DOMAIN CriticalPath : CriticalPath[i] = CriticalPath[j] => i = j
  /\ MaxWorldWritable \in Nat /\ MaxClosed \in Nat /\ MaxNodeChanges \in Nat

VARIABLES
  present, writable,          \* the machine: nodes that are there, that others may write to
  closed, barred,             \* directories only root may list; others list, but may not search
  nodeChanges,                \* changes so far
  host, containersOnly,       \* the host; `lxperun containers`
  securityPc, bases,          \* where security_report() is; bases still to be walked
  dirs, current, names,       \* os.walk(): directories to come, the one yielded, its names
  signals, findings, paths,   \* names of the signals available; categories; matches
  advised,                    \* recommendations, by what they are about
  touchedNodes                \* history: nodes changed during the report

nodeVars == <<present, writable, closed, barred, nodeChanges, touchedNodes>>
securityInputs == <<host, containersOnly>>
securityVars == <<nodeVars, securityInputs, securityPc, bases, dirs, current, names,
                  signals, findings, paths, advised>>

Links == {n \in Node : KindOf[n] = "link"}     \* their mode always is rwxrwxrwx
Children(d) == {n \in Node : Len(n) > 1 /\ Front(n) = d}
Above(n) == {SubSeq(n, 1, k) : k \in 1..Len(n)}         \* n itself among them

SecurityInit ==
  /\ present \in {P \in SUBSET Node : \A n \in P : Len(n) = 1 \/ Front(n) \in P}
  /\ writable \in {W \in SUBSET present : Links \cap present \subseteq W} /\ nodeChanges = 0
  /\ closed \in {C \in SUBSET Dir : Cardinality(C) <= MaxClosed}
  /\ barred \in {B \in SUBSET (Dir \ closed) : Cardinality(closed \cup B) <= MaxClosed}
  /\ host \in Host /\ containersOnly \in BOOLEAN
  /\ securityPc = "signals" /\ bases = CriticalPath
  /\ dirs = {} /\ current = <<>> /\ names = {}
  /\ signals = {} /\ findings = {} /\ paths = <<>> /\ advised = {} /\ touchedNodes = {}
------------------------------------------------------------------------------
(* Others at work below the critical paths, while they are walked. *)

Change(n) ==
  /\ securityPc \in {"bases", "walk"}
  /\ nodeChanges < MaxNodeChanges /\ nodeChanges' = nodeChanges + 1
  /\ touchedNodes' = touchedNodes \cup {n}
  /\ UNCHANGED <<closed, barred, securityInputs, securityPc, bases, dirs, current, names, signals,
                 findings, paths, advised>>

Chmod(n) == /\ n \in present \ Links /\ Change(n) /\ UNCHANGED present
            /\ writable' = IF n \in writable THEN writable \ {n} ELSE writable \cup {n}
MakeNode(n) == /\ n \notin present /\ (Len(n) = 1 \/ Front(n) \in present) /\ Change(n)
               /\ present' = present \cup {n} /\ writable' = writable \cup (Links \cap {n})
RemoveNode(n) == /\ n \in present /\ Children(n) \cap present = {} /\ Change(n)
                 /\ present' = present \ {n} /\ writable' = writable \ {n}
------------------------------------------------------------------------------
(* The signals: a file of the kernel where it speaks clearly, else a tool. *)

Selinux(h) == h.enforce \in {"0", "1"} \/ h.enabled \/ h.getenforce \in {"enforcing", "permissive"}
Apparmor(h) == \/ h.apparmor = "Y"
               \/ h.apparmor \in {"unclear", "absent"} /\ h.aaStatus = "loaded"
SignalsOf(h) == {s \in {"root", "selinux", "apparmor", "container", "namespaces"} :
                   \/ s = "root" /\ h.root
                   \/ s = "selinux" /\ Selinux(h)
                   \/ s = "apparmor" /\ Apparmor(h)
                   \/ s = "container" /\ h.cgroup = "marked"
                   \/ s = "namespaces" /\ h.namespaces}

\* Path.exists() raises for what may not be looked up: /proc/1 under hidepid=1.
CollectSignals ==
  /\ securityPc = "signals"
  /\ \/ host.cgroup = "forbidden" /\ securityPc' = "raised" /\ UNCHANGED signals
     \/ host.cgroup # "forbidden" /\ securityPc' = "findings" /\ signals' = SignalsOf(host)
  /\ UNCHANGED <<nodeVars, securityInputs, bases, dirs, current, names, findings, paths, advised>>

\* Two accounts of uid 0; without root /etc/shadow is not read.
BadAccounts(h) == h.uid0 > 1 \/ (h.root /\ h.passwordless)
CollectFindings ==
  /\ securityPc = "findings" /\ securityPc' = "bases"
  /\ findings' = {c \in {"network", "container", "accounts"} :
                    \/ c = "network" /\ host.exposed
                    \/ c = "container" /\ host.runtimeSocket
                    \/ c = "accounts" /\ BadAccounts(host)}
  /\ UNCHANGED <<nodeVars, securityInputs, bases, dirs, current, names, signals, paths, advised>>
------------------------------------------------------------------------------
(* _world_writable_findings() and _scan_world_writable() *)

Full == Len(paths) >= MaxWorldWritable
\* lstat() finds no path below a directory that may not be searched.
Reachable(n) == host.root \/ (Above(n) \ {n}) \cap barred = {}
WritableFile(n) == n \in writable /\ KindOf[n] = "file"          \* a faulty variant
Matches(n) == n \in writable /\ KindOf[n] # "link" /\ Reachable(n)
Match(n) == paths' = IF n \in present /\ Matches(n) THEN Append(paths, n) ELSE paths

RestIfThere(bs) == IF Head(bs) \in present THEN Tail(bs) ELSE bs  \* a faulty variant
Rest(bs) == Tail(bs)
NextBase ==
  /\ securityPc = "bases" /\ ~Full /\ bases # <<>>
  /\ bases' = Rest(bases)
  /\ dirs' = {Head(bases)} \cap present
  /\ securityPc' = IF dirs' = {} THEN "bases" ELSE "walk"
  /\ UNCHANGED <<nodeVars, securityInputs, current, names, signals, findings, paths, advised>>

\* os.walk() is depth first: of the directories to come one of the deepest.
Deepest(d) == d \in dirs /\ \A e \in dirs : Len(e) <= Len(d)
MayList(d) == d \in present /\ Reachable(d) /\ (host.root \/ d \notin closed)

\* A directory that cannot be listed is not yielded at all.
EnterDir(d) ==
  /\ securityPc = "walk" /\ current = <<>> /\ names = {} /\ ~Full /\ Deepest(d)
  /\ LET found == IF MayList(d) THEN Children(d) \cap present ELSE {} IN
     /\ names' = found
     /\ dirs' = (dirs \ {d}) \cup (found \cap Dir)
     /\ current' = IF MayList(d) THEN d ELSE <<>>
  /\ UNCHANGED <<nodeVars, securityInputs, securityPc, bases, signals, findings, paths, advised>>

LstatCurrent ==
  /\ securityPc = "walk" /\ current # <<>>
  /\ Match(current) /\ current' = <<>>
  /\ UNCHANGED <<nodeVars, securityInputs, securityPc, bases, dirs, names, signals, findings,
                 advised>>

\* dirnames come before filenames.
LstatName(n) ==
  /\ securityPc = "walk" /\ current = <<>> /\ ~Full /\ n \in names
  /\ n \in Dir \/ names \cap Dir = {}
  /\ Match(n) /\ names' = names \ {n}
  /\ UNCHANGED <<nodeVars, securityInputs, securityPc, bases, dirs, current, signals,
                 findings, advised>>

EndBase ==
  /\ securityPc = "walk" /\ current = <<>> /\ (Full \/ names \cup dirs = {})
  /\ securityPc' = "bases" /\ dirs' = {} /\ names' = {}
  /\ UNCHANGED <<nodeVars, securityInputs, bases, current, signals, findings, paths, advised>>

\* _recommendations(), or those of container_report() on its share.
Advised(sigs, found) == ({"selinux", "apparmor"} \ sigs) \cup (found \ {"container"})
EndScan ==
  /\ securityPc = "bases" /\ (Full \/ bases = <<>>) /\ securityPc' = "done"
  /\ LET found == findings \cup IF paths = <<>> THEN {} ELSE {"permissions"} IN
     IF containersOnly
       THEN /\ findings' = found \cap {"container"} /\ advised' = findings'
            /\ signals' = signals \cap {"root", "container", "namespaces"}
       ELSE /\ findings' = found /\ advised' = Advised(signals, found) /\ UNCHANGED signals
  /\ UNCHANGED <<nodeVars, securityInputs, bases, dirs, current, names, paths>>

SecurityStep == \/ CollectSignals \/ CollectFindings \/ NextBase \/ LstatCurrent \/ EndBase
                \/ EndScan \/ \E n \in Node : EnterDir(n) \/ LstatName(n)
SecurityChange == \E n \in Node : Chmod(n) \/ MakeNode(n) \/ RemoveNode(n)
SecurityNext == SecurityStep \/ SecurityChange
SecuritySpec == SecurityInit /\ [][SecurityNext]_securityVars
------------------------------------------------------------------------------
SecurityTypeOK ==
  /\ present \in SUBSET Node /\ writable \in SUBSET present /\ closed \in SUBSET Dir
  /\ barred \in SUBSET Dir
  /\ nodeChanges \in 0..MaxNodeChanges /\ touchedNodes \in SUBSET Node
  /\ securityPc \in {"signals", "findings", "bases", "walk", "done", "raised"}
  /\ bases \in Seq(Dir) /\ dirs \in SUBSET Dir /\ current \in Dir \cup {<<>>}
  /\ names \in SUBSET Node /\ paths \in Seq(Node)
  /\ signals \subseteq {"root", "selinux", "apparmor", "container", "namespaces"}
  /\ findings \subseteq {"network", "container", "accounts", "permissions"}

Times(n) == Cardinality({i \in DOMAIN paths : paths[i] = n})
\* How often a node nobody touches is due: a directory as a name in its parent
\* and once more when it is listed itself.
Due(n) == IF n \notin writable \/ KindOf[n] = "link" \/ ~Reachable(n)
               \/ \E d \in Above(n) \ {n} : ~MayList(d) THEN 0
          ELSE (IF Len(n) > 1 THEN 1 ELSE 0) + (IF n \in Dir /\ MayList(n) THEN 1 ELSE 0)

\* The walk of security.py:371 stays within its budget.  Of what nobody touches
\* it reports only what others may write to, as often as it is due; and only a
\* spent budget excuses leaving some of it out: short of that every such path
\* below directories that can be listed and searched is there, whatever is made, removed
\* or changed beside it.
WalkExact ==
  securityPc = "done" =>
    /\ Len(paths) <= MaxWorldWritable
    /\ \A n \in Node : Above(n) \cap touchedNodes = {} =>
         Times(n) <= Due(n) /\ (~Full => Times(n) = Due(n))
==============================================================================
