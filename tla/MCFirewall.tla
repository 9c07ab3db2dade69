----------------------------- MODULE MCFirewall ------------------------------
(* Two ports, two protocols, every target, two rules in any two chains.      *)
EXTENDS Firewall

MCRule ==
  [chain : Chain, match : {"dport"}, proto : {"tcp", "udp"}, port : {22, 80},
   target : {"accept", "drop", "reject", "log"}]
  \cup [chain : Chain, match : {"sport"}, proto : {"tcp"}, port : {22},
        target : {"accept", "drop"}]
  \cup [chain : Chain, match : {"any"}, proto : {"all"}, port : {0},
        target : {"accept", "drop"}]
MCPolicy == {"accept", "drop"}
MCSocket == {[proto |-> "tcp", port |-> 22], [proto |-> "tcp", port |-> 80],
             [proto |-> "unix", port |-> 0]}
==============================================================================
