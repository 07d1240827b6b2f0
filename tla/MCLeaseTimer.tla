---------------------------- MODULE MCLeaseTimer ----------------------------
(* Seconds of three milliseconds, a clock that wraps every sixteen, and    *)
(* calls that come in the same millisecond, within a second, in the middle *)
(* of one and seconds apart.                                               *)
EXTENDS LeaseTimer

MCGaps == {0, 1, 2, 4, 7, 12}
=============================================================================
