------------------------------- MODULE MCCalls -------------------------------
EXTENDS Calls

CONSTANTS bt1, bt2, oops, svc, slash, net, sda, e, f1, f2

\* doctor: what the snapshot may say, titles of kernel lines, logs
MCFacts == {[memory |-> 85, swapTotal |-> 20, swapFree |-> 1, disk |-> 95, tainted |-> TRUE,
             nics |-> {[name |-> "eth0", carrier |-> TRUE, ipv4 |-> FALSE]}]}
MCTitle == [t \in {bt1, bt2, oops, "no journal", "no dmesg"} |->
              IF t \in {bt1, bt2} THEN "bluetooth" ELSE "Kernel log issue"]
MCLogs == {<<>>, <<bt2, bt1, oops, bt1, bt2>>}

\* security: /etc with a directory, a file in it and a link; /opt; three hosts
MCNode == {<<"etc">>, <<"etc", "d">>, <<"etc", "d", "f">>, <<"etc", "l">>, <<"opt">>}
MCKind == [n \in MCNode |-> IF n = <<"etc", "l">> THEN "link"
                            ELSE IF Len(n) = 3 THEN "file" ELSE "dir"]
MCCritical == <<<<"etc">>, <<"opt">>>>
Bare == [root |-> FALSE, enforce |-> "absent", enabled |-> FALSE, getenforce |-> "absent",
         apparmor |-> "absent", aaStatus |-> "absent", cgroup |-> "plain", namespaces |-> TRUE,
         exposed |-> FALSE, runtimeSocket |-> FALSE, uid0 |-> 1, passwordless |-> FALSE]
MCHosts == {Bare, [Bare EXCEPT !.cgroup = "forbidden"],
            [Bare EXCEPT !.root = TRUE, !.enforce = "unclear", !.getenforce = "permissive",
                         !.apparmor = "Y", !.cgroup = "marked", !.exposed = TRUE,
                         !.runtimeSocket = TRUE, !.passwordless = TRUE]}

\* report, whose sections are the subject of MCReport: a mounted-over root
MCStart == {[units |-> (svc :> "failed"), mounts |-> <<slash, net, slash>>,
             devices |-> {sda}, listening |-> {}, socket |-> TRUE, dumps |-> 0]}
==============================================================================
