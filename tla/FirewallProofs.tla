---------------------------- MODULE FirewallProofs ---------------------------
(***************************************************************************)
(* For any rules, policies and sockets: within the reach of the code the   *)
(* decisions of firewall.py are those of the kernel.                       *)
(*                                                                         *)
(* What is mapped is final and what it was mapped from no longer changes,  *)
(* which the invariant MappedInv says.  The decision itself                *)
(* takes no induction: of a plain listing the rules that name a port       *)
(* (Hits) are those the kernel takes, in the kernel's order.               *)
(***************************************************************************)
EXTENDS Firewall, DataLemmas

\* Where only INPUT rules are listed, the rule that is printed first stands first.
LEMMA FirstIsLeast ==
  ASSUME rules \in Seq(Rule), \A i \in DOMAIN rules : rules[i].chain = "INPUT",
         NEW b, NEW I \in SUBSET DOMAIN rules, I # {}
  PROVE  FirstPrinted(b, I) = Min(I) /\ Min(I) \in I
<1>1. DOMAIN rules \in SUBSET Nat
  OBVIOUS
<1>2. PICK m \in I : \A j \in I : m <= j
  BY <1>1, LeastElement
<1>3. \A i, j \in I : PrintedBefore(b, i, j) <=> i < j
  BY DEF PrintedBefore
<1>4. \A i \in I : (\A j \in I \ {i} : PrintedBefore(b, i, j)) <=> i = m
  BY <1>1, <1>2, <1>3
<1>5. \A i \in I : (\A j \in I : i <= j) <=> i = m
  BY <1>1, <1>2
<1>6. FirstPrinted(b, I) = m
  BY <1>4 DEF FirstPrinted
<1>7. Min(I) = m
  BY <1>5 DEF Min
<1> QED
  BY <1>6, <1>7
------------------------------------------------------------------------------
Decision == {"allowed", "blocked", "allowed by policy", "blocked by policy", "unknown"}

LEMMA DecideType == \A b, s : Decide(b, s) \in Decision
<1> SUFFICES ASSUME NEW b, NEW s PROVE Decide(b, s) \in Decision
  OBVIOUS
<1>1. MatchRule(b, s) \in {"none", "allowed", "blocked"}
  <2>1. \A r : Outcome(b, r) \in {"allowed", "blocked"}
    BY DEF Outcome
  <2> QED
    BY <2>1 DEF MatchRule
<1>2. \A p : ByPolicy(p) \in Decision
  BY DEF ByPolicy, Decision
<1> QED
  BY <1>1, <1>2 DEF Decide, Decision

LEMMA MappedType ==
  ASSUME NEW B \in SUBSET Backend
  PROVE  Mapped(B) \in SUBSET [backend : Backend, socket : Socket, decision : Decision]
<1> SUFFICES ASSUME NEW b \in B, NEW s \in Socket
             PROVE  [backend |-> b, socket |-> s, decision |-> Decide(b, s)]
                      \in [backend : Backend, socket : Socket, decision : Decision]
  BY DEF Mapped
<1>1. Decide(b, s) \in Decision
  BY DecideType
<1> QED
  BY <1>1

\* What is reported is what the listings say.
MappedInv == mappings = IF pc \in {"ask", "map"} THEN {} ELSE Mapped(available)

LEMMA InitOK == Init => TypeOK /\ MappedInv
<1> SUFFICES ASSUME Init PROVE TypeOK /\ MappedInv
  OBVIOUS
<1>1. rules \in Seq(Rule)
  BY SeqDef, FirewallAssumption DEF Init, FirewallAssumption
<1> QED
  BY <1>1 DEF Init, TypeOK, MappedInv

LEMMA StepOK == TypeOK /\ MappedInv /\ [Next]_vars => TypeOK' /\ MappedInv'
<1> SUFFICES ASSUME TypeOK, MappedInv, [Next]_vars PROVE TypeOK' /\ MappedInv'
  OBVIOUS
<1>0. \A B : UNCHANGED <<policy, rules, first>> => Mapped(B)' = Mapped(B)
  BY DEF Mapped, Mappable, Decide, MatchRule, Hits, Hit, Listed, Words, Outcome, FirstPrinted,
         PrintedBefore, BackendPolicy
<1>1. ASSUME NEW b \in Backend, Ask(b) PROVE TypeOK' /\ MappedInv'
  <2>1. TypeOK'
    BY <1>1 DEF TypeOK, Ask
  <2>2. pc = "ask" /\ pc' \in {"ask", "map"} /\ mappings' = mappings
    BY <1>1 DEF Ask
  <2> QED
    BY <2>1, <2>2 DEF MappedInv
<1>2. CASE Map
  <2>1. mappings' = Mapped(available) /\ pc' = "recommend" /\ available \in SUBSET Backend
    BY <1>2 DEF Map, TypeOK
  <2>2. UNCHANGED <<policy, rules, first, available>>
    BY <1>2 DEF Map
  <2>3. TypeOK'
    BY <1>2, <2>1, MappedType DEF Map, TypeOK, Decision
  <2>4. Mapped(available)' = Mapped(available)
    BY <1>0, <2>2 DEF Mapped
  <2> QED
    BY <2>1, <2>3, <2>4 DEF MappedInv
<1>3. CASE Recommend
  <2>1. TypeOK'
    BY <1>3 DEF Recommend, TypeOK
  <2>2. /\ UNCHANGED <<policy, rules, first, available, mappings>>
        /\ pc = "recommend" /\ pc' = "done"
    BY <1>3 DEF Recommend
  <2>3. Mapped(available)' = Mapped(available)
    BY <2>2 DEF Mapped, Mappable, Decide, MatchRule, Hits, Hit, Listed, Words, Outcome, FirstPrinted,
       PrintedBefore, BackendPolicy
  <2> QED
    BY <2>1, <2>2, <2>3 DEF MappedInv
<1>4. CASE UNCHANGED vars
  <2>1. TypeOK'
    BY <1>4 DEF vars, TypeOK
  <2>2. UNCHANGED <<policy, rules, first, available, mappings, pc>>
    BY <1>4 DEF vars
  <2>3. Mapped(available)' = Mapped(available)
    BY <2>2 DEF Mapped, Mappable, Decide, MatchRule, Hits, Hit, Listed, Words, Outcome, FirstPrinted,
       PrintedBefore, BackendPolicy
  <2> QED
    BY <2>1, <2>2, <2>3 DEF MappedInv
<1> QED
  BY <1>1, <1>2, <1>3, <1>4 DEF Next

\* Every variable of a firewall report keeps its type; a decision is one of
\* the five of firewall.py:190.
THEOREM FirewallTypeCorrect == Spec => []TypeOK
  BY InitOK, StepOK, PTL DEF Spec
------------------------------------------------------------------------------
\* Of a plain listing, the rules the code goes by are the rules the kernel
\* goes by, and each means the same to both.
LEMMA PlainRule ==
  ASSUME TypeOK, Plain, NEW b \in Backend, b = "iptables" => policy["INPUT"] # "accept",
         NEW i \in DOMAIN rules, NEW s
  PROVE  /\ Hit(b, rules[i], s) <=> Takes(rules[i], s)
         /\ Outcome(b, rules[i]) = "allowed" <=> rules[i].target = "accept"
         /\ Outcome(b, rules[i]) \in {"allowed", "blocked"}
<1>1. rules[i].chain = "INPUT" /\ rules[i].match = "dport" /\ rules[i].target \in Action
  BY DEF Plain
<1>2. policy["INPUT"] \in Action
  BY FirewallAssumption DEF FirewallAssumption, TypeOK, Chain
<1>3. /\ rules[i].target \in Words(b, rules[i])
      /\ \A w \in Words(b, rules[i]) :
           w = rules[i].target \/ (b = "iptables" /\ w = policy["INPUT"])
  BY <1>1 DEF Words
<1>4. ExtractAction(Words(b, rules[i])) = "accept" <=> rules[i].target = "accept"
  BY <1>3 DEF ExtractAction
<1>5. ExtractAction(Words(b, rules[i])) # "none"
  BY <1>1, <1>3 DEF ExtractAction, Action
<1>6. Listed(b, rules[i])
  BY <1>1 DEF Listed
<1> QED
  BY <1>1, <1>4, <1>5, <1>6 DEF Hit, Takes, Outcome

\* Within the reach of the code its decision is the kernel's (firewall.py:219).
THEOREM PlainExact == Spec => []PlainDecisionsExact
<1>1. TypeOK /\ MappedInv => PlainDecisionsExact
  <2> SUFFICES ASSUME TypeOK, MappedInv, NEW m \in mappings, Plain,
                      m.backend = "iptables" => policy["INPUT"] # "accept",
                      m.backend = "nftables" => first = "INPUT"
               PROVE  Agrees(m)
    BY DEF PlainDecisionsExact
  <2>0. mappings = Mapped(available) /\ available \subseteq Backend
    BY DEF MappedInv, TypeOK
  <2>1. PICK b \in Backend, s \in Socket :
          m = [backend |-> b, socket |-> s, decision |-> Decide(b, s)]
    BY <2>0 DEF Mapped
  <2>2. m.backend = b /\ m.socket = s /\ m.decision = Decide(b, s)
    BY <2>1
  <2>3. PICK I : I = {i \in DOMAIN rules : Takes(rules[i], s)}
    OBVIOUS
  <2>4. Hits(b, s) = I
    BY <2>2, <2>3, PlainRule DEF Hits
  <2>5. policy["INPUT"] \in Action
    BY FirewallAssumption DEF FirewallAssumption, TypeOK, Chain
  <2>6. CASE I = {}
    <3>1. Decide(b, s) = ByPolicy(BackendPolicy(b))
      BY <2>4, <2>6 DEF Decide, MatchRule
    <3>2. BackendPolicy(b) = policy["INPUT"]
      BY <2>2 DEF BackendPolicy, Backend
    <3>3. Kernel(s) = policy["INPUT"]
      BY <2>3, <2>6 DEF Kernel
    <3> QED
      BY <2>2, <2>5, <3>1, <3>2, <3>3 DEF Agrees, Blocking, ByPolicy, Action
  <2>7. CASE I # {}
    <3>1. FirstPrinted(b, I) = Min(I) /\ Min(I) \in DOMAIN rules
      BY <2>3, <2>7, FirstIsLeast DEF TypeOK, Plain
    <3>2. MatchRule(b, s) = Outcome(b, rules[Min(I)])
      BY <2>4, <2>7, <3>1 DEF MatchRule
    <3>3. Kernel(s) = rules[Min(I)].target
      BY <2>3, <2>7 DEF Kernel
    <3>4. /\ Outcome(b, rules[Min(I)]) = "allowed" <=> rules[Min(I)].target = "accept"
          /\ Outcome(b, rules[Min(I)]) \in {"allowed", "blocked"}
      BY <2>2, <3>1, PlainRule
    <3>5. Decide(b, s) = Outcome(b, rules[Min(I)])
      BY <3>2, <3>4 DEF Decide
    <3> QED
      BY <2>2, <3>3, <3>4, <3>5 DEF Agrees, Blocking
  <2> QED
    BY <2>6, <2>7
<1> QED
  BY <1>1, InitOK, StepOK, PTL DEF Spec
==============================================================================
