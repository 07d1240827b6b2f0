---------------------------- MODULE WiznetSocket ----------------------------
(***************************************************************************)
(* The hardware sockets of a WIZnet chip as the library sees them: the     *)
(* status register SnSR and what commands, the peer and timers do to it.   *)
(* The chip is outside the repository; the statuses and commands are those *)
(* the library names (src/src/utility/W5x00.h), their effects those its    *)
(* calls depend on.                                                        *)
(***************************************************************************)
EXTENDS Integers

Live    == {"INIT", "LISTEN", "SYNSENT", "SYNRECV", "ESTABLISHED", "CLOSE_WAIT", "UDP"}
Closing == {"FIN_WAIT", "CLOSING", "TIME_WAIT", "LAST_ACK"}
Status  == Live \cup Closing \cup {"CLOSED"}

\* DISCON sends a FIN on an established connection.  On a socket without a
\* connection the chips differ: the socket closes or nothing happens.
AfterDiscon(st) ==
  CASE st = "ESTABLISHED" -> {"FIN_WAIT"}
    [] st = "CLOSE_WAIT"  -> {"LAST_ACK"}
    [] st \in Closing \cup {"CLOSED", "UDP"} -> {st}
    [] OTHER -> {st, "CLOSED"}

\* Commands given in another status than the one they are for do nothing.
AfterListen(st)  == IF st = "INIT" THEN "LISTEN" ELSE st
AfterConnect(st) == IF st = "INIT" THEN "SYNSENT" ELSE st

\* What the peer and the chip's own timers do; a reset or a time-out closes
\* any socket that has or seeks a connection.
Evolves(st) ==
  CASE st = "LISTEN"      -> {"SYNRECV"}
    [] st = "SYNRECV"     -> {"ESTABLISHED", "CLOSED"}
    [] st = "SYNSENT"     -> {"ESTABLISHED", "CLOSED"}
    [] st = "ESTABLISHED" -> {"CLOSE_WAIT", "CLOSED"}
    [] st = "CLOSE_WAIT"  -> {"CLOSED"}
    [] st = "FIN_WAIT"    -> {"CLOSING", "TIME_WAIT", "CLOSED"}
    [] st = "CLOSING"     -> {"TIME_WAIT", "CLOSED"}
    [] st = "TIME_WAIT"   -> {"CLOSED"}
    [] st = "LAST_ACK"    -> {"CLOSED"}
    [] OTHER -> {}
=============================================================================
