------------------------------- MODULE MCReport ------------------------------
EXTENDS Report

CONSTANTS svc, slash, net, sda, lis1, lis2

\* A mounted-over root, a running service, and one listener more than the
\* security section names.
MCStart == {[units |-> (svc :> "running"), mounts |-> <<slash, net, slash>>,
             devices |-> {sda}, listening |-> {lis1, lis2}, socket |-> TRUE, dumps |-> 0]}
MCSymmetry == Permutations({lis1, lis2})
==============================================================================
