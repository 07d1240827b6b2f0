------------------------------- MODULE MCDns --------------------------------
(* Arguments of every begin() and what two DHCP servers and missing        *)
(* options may leave in DhcpClass; a name of letters, one that begins like *)
(* an address, and an address written out.                                 *)
EXTENDS Dns

MCStatics == {<<<<10, 0, 0, 7>>>>,
              <<<<10, 0, 0, 7>>, <<8, 8, 8, 8>>>>,
              <<<<10, 0, 0, 7>>, <<8, 8, 8, 8>>, <<10, 0, 0, 9>>>>,
              <<<<10, 0, 0, 7>>, <<8, 8, 8, 8>>, <<10, 0, 0, 9>>, <<255, 0, 0, 0>>>>}

MCLeaseIps == {<<192, 168, 1, 5>>}
MCLeaseGateways == {Zero, <<192, 168, 1, 254>>}
MCLeaseSubnets == {<<255, 255, 255, 128>>}
MCLeaseServers == {<<192, 168, 1, 53>>, <<192, 168, 2, 53>>}
MCOwnMac == "own"
MCMacs == {"other"}
MCCounts == {0, 8}
MCTimes == {0, 200, 6553, 6554, 65535}
MCManualIp == <<172, 16, 0, 1>>

MCPlain   == <<Letter, Dot, Letter>>
MCLeading == <<1, Dot, Letter>>
MCNames == {MCPlain, MCLeading}
MCAddrOf == [n \in MCNames |-> IF n = MCPlain THEN {<<7, 7, 7, 7>>} ELSE {<<9, 9, 9, 9>>}]
MCNumeric == {<<10, 255, 0, 93>>}
MCStranger == <<66, 6, 6, 6>>
MCBoth == {"configure", "resolve"}
MCResolve == {"resolve"}
MCIntWidths == {16, 32}
=============================================================================
