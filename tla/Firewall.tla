------------------------------- MODULE Firewall ------------------------------
(***************************************************************************)
(* src/lxperun/firewall.py: the listing of iptables and of nft, read line  *)
(* by line, becomes a decision for each listening socket.                  *)
(*                                                                         *)
(* A line of the listing is what the code looks for in it: the protocol,   *)
(* a destination or source port, and the words accept, drop and reject.    *)
(* For iptables the code puts the chain's header, "Chain INPUT (policy     *)
(* ACCEPT ...)", in front of each rule, so its policy is such a word too.  *)
(***************************************************************************)
EXTENDS Integers, Sequences, FiniteSets, FiniteSetsExt

CONSTANTS Rule,      \* rules a chain may hold
          Policy,    \* policies a base chain may have
          Socket,    \* listening sockets of network_report()
          MaxRules   \* bound: rules in a listing

Chain == {"INPUT", "FORWARD"}
Action == {"accept", "drop", "reject"}
Backend == {"iptables", "nftables"}

ASSUME FirewallAssumption ==
  /\ \A r \in Rule : /\ r.chain \in Chain /\ r.match \in {"dport", "sport", "any"}
                     /\ r.target \in Action \cup {"log"}
  /\ Policy \subseteq Action
  /\ IsFiniteSet(Socket) /\ MaxRules \in Nat

VARIABLES policy, rules,   \* the machine: policy of each chain; the rules
          first,           \* the chain nft prints first, if it prints any
          tried,           \* backends asked so far
          available,       \* those whose listing could be read
          mappings,        \* FirewallPortMapping, by backend and socket
          advice, pc

vars == <<policy, rules, first, tried, available, mappings, advice, pc>>

Init == /\ policy \in [Chain -> Policy]
        /\ rules \in UNION {[1..n -> Rule] : n \in 0..MaxRules}
        /\ first \in Chain \cup (IF rules = <<>> THEN {"none"} ELSE {})
        /\ tried = {} /\ available = {} /\ mappings = {} /\ advice = {}
        /\ pc = "ask"
------------------------------------------------------------------------------
(* Reading a listing. *)

\* _iptables_rules keeps lines with "dpt:" or "spt:"; _nft_rules besides wants
\* an action in the line.
Listed(b, r) == /\ r.match \in {"dport", "sport"}
                /\ b = "nftables" => r.target \in Action

\* Both tools print chain by chain, iptables always INPUT first.
PrintedBefore(b, i, j) ==
  LET top == IF b = "iptables" THEN "INPUT" ELSE first IN
  IF rules[i].chain = rules[j].chain THEN i < j ELSE rules[i].chain = top

\* The action words in the text of a rule as the code stores it.
Words(b, r) == (IF b = "iptables" THEN {policy[r.chain]} ELSE {})
                 \cup ({r.target} \cap Action)

\* _extract_action: accept is looked for first, then drop, then reject.
ExtractAction(words) == IF "accept" \in words THEN "accept"
                        ELSE IF "drop" \in words THEN "drop"
                        ELSE IF "reject" \in words THEN "reject" ELSE "none"

\* _iptables_policy reads the INPUT chain; _nft_policy the first policy printed.
BackendPolicy(b) == IF b = "iptables" THEN policy["INPUT"]
                    ELSE IF first = "none" THEN "unknown" ELSE policy[first]

Hit(b, r, s) == /\ Listed(b, r) /\ r.match = "dport"
                /\ r.proto = s.proto /\ r.port = s.port
                /\ ExtractAction(Words(b, r)) # "none"
Hits(b, s) == {i \in DOMAIN rules : Hit(b, rules[i], s)}

\* _match_rule: the first rule, of whatever chain, that names the port.
Outcome(b, r) == IF ExtractAction(Words(b, r)) = "accept" THEN "allowed" ELSE "blocked"
FirstPrinted(b, I) == CHOOSE i \in I : \A j \in I \ {i} : PrintedBefore(b, i, j)
LastPrinted(b, I) == CHOOSE i \in I : \A j \in I \ {i} : PrintedBefore(b, j, i)
MatchRuleLast(b, s) ==             \* a faulty variant: the last rule wins
  IF Hits(b, s) = {} THEN "none" ELSE Outcome(b, rules[LastPrinted(b, Hits(b, s))])
MatchRule(b, s) ==
  IF Hits(b, s) = {} THEN "none" ELSE Outcome(b, rules[FirstPrinted(b, Hits(b, s))])

ByPolicyRaw(p) == p                \* a faulty variant: the policy's own name
ByPolicy(p) == IF p \in {"drop", "reject"} THEN "blocked by policy"
               ELSE IF p = "accept" THEN "allowed by policy" ELSE "unknown"
Decide(b, s) == IF MatchRule(b, s) # "none" THEN MatchRule(b, s) ELSE ByPolicy(BackendPolicy(b))

Mappable(s) == s.proto \in {"tcp", "udp"} /\ s.port # 0
------------------------------------------------------------------------------
(* firewall_report() *)

\* iptables, then nft: not installed, or its command failed, or its listing.
Ask(b) ==
  /\ pc = "ask" /\ b \notin tried /\ (b = "nftables" => "iptables" \in tried)
  /\ tried' = tried \cup {b}
  /\ \E readable \in BOOLEAN : available' = IF readable THEN available \cup {b} ELSE available
  /\ pc' = IF tried' = Backend THEN "map" ELSE "ask"
  /\ UNCHANGED <<policy, rules, first, mappings, advice>>

Mapped(backends) == {[backend |-> b, socket |-> s, decision |-> Decide(b, s)] :
                       b \in backends, s \in {t \in Socket : Mappable(t)}}
Map ==
  /\ pc = "map" /\ pc' = "recommend"
  /\ mappings' = Mapped(available)
  /\ UNCHANGED <<policy, rules, first, tried, available, advice>>

Blocking(m) == m.decision \in {"blocked", "blocked by policy"}

Recommend ==
  /\ pc = "recommend" /\ pc' = "done"
  /\ advice' = {a \in {"install", "blocked", "review"} :
                  \/ a = "install" /\ available = {}
                  \/ a = "blocked" /\ \E m \in mappings : Blocking(m)
                  \/ a = "review" /\ \E m \in mappings : m.decision = "unknown"}
  /\ UNCHANGED <<policy, rules, first, tried, available, mappings>>

Next == Map \/ Recommend \/ \E b \in Backend : Ask(b)
Spec == Init /\ [][Next]_vars
------------------------------------------------------------------------------
(* What the kernel does with a new packet for a socket: the first rule of    *)
(* the INPUT chain that takes it and ends the chain, or else the policy.     *)

Takes(r, s) == /\ r.chain = "INPUT" /\ r.target \in Action
               /\ \/ r.match = "any"
                  \/ r.match = "dport" /\ r.proto = s.proto /\ r.port = s.port
Kernel(s) ==
  LET taking == {i \in DOMAIN rules : Takes(rules[i], s)} IN
  IF taking = {} THEN policy["INPUT"] ELSE rules[Min(taking)].target
Agrees(m) == Blocking(m) <=> Kernel(m.socket) # "accept"

TypeOK ==
  /\ policy \in [Chain -> Policy] /\ rules \in Seq(Rule)
  /\ tried \in SUBSET Backend /\ available \in SUBSET tried
  /\ mappings \in SUBSET [backend : Backend, socket : Socket,
       decision : {"allowed", "blocked", "allowed by policy", "blocked by policy",
                   "unknown"}]
  /\ first \in Chain \cup {"none"}
  /\ advice \in SUBSET {"install", "blocked", "review"}
  /\ pc \in {"ask", "map", "recommend", "done"}

\* A listing within the code's reach: INPUT rules only, each for one
\* destination port with a final target.
Plain == \A i \in DOMAIN rules : /\ rules[i].chain = "INPUT" /\ rules[i].match = "dport"
                                 /\ rules[i].target \in Action

\* Within that reach the decision read from iptables under a closed INPUT
\* policy is the kernel's, and so is the one read from nft when it prints the
\* input chain first.
PlainDecisionsExact ==
  \A m \in mappings :
    /\ Plain
    /\ m.backend = "iptables" => policy["INPUT"] # "accept"
    /\ m.backend = "nftables" => first = "INPUT"
    => Agrees(m)

\* README.md:99: the listeners are mapped "to allow or block decisions": for
\* a plain INPUT chain the decision is the one the firewall takes.
DecisionIsTheFirewalls == \A m \in mappings :
    Plain /\ m.backend = "iptables" => Agrees(m)
==============================================================================
