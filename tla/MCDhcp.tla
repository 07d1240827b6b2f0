------------------------------- MODULE MCDhcp -------------------------------
(* Two servers that hand out an address each, and leases of two seconds    *)
(* with T1 after one and T2 after two, so that maintain() may come when    *)
(* nothing, when the renewal and when both are due.                        *)
EXTENDS Dhcp

CONSTANTS a1, a2, sA, sB

MCAddrs == {a1, a2}
MCServers == {sA, sB}
MCPool == [s \in MCServers |-> IF s = sA THEN {a1} ELSE {a2}]
MCTimes == {[lease |-> 2, t1 |-> 1, t2 |-> 2]}
MCJunk == {0, 2}
MCInitials == {1}
MCElapses == {1, 2}

\* Replies have all three options or none.
MCAllOrNone == {Settings, {}}
MCNone == {{}}
=============================================================================
