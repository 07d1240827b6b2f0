----------------------------- MODULE LeaseTimer -----------------------------
(***************************************************************************)
(* How DhcpClass::checkLease tells the time (src/src/Dhcp.cpp:351-381).    *)
(*                                                                         *)
(* The seconds left to the renewal are counted down by the whole seconds   *)
(* since the last call that counted any; the rest of a second is carried   *)
(* over in _lastCheckLeaseMillis.  The clock, millis(), is a 32-bit number *)
(* that wraps after 49 days, and the calls come when the sketch makes them.*)
(* The countdown to the rebinding is the same computation.                 *)
(***************************************************************************)
EXTENDS Integers

CONSTANTS
  Second,     \* milliseconds in a second: 1000
  MillisMod,  \* 2^32
  T1,         \* seconds from a lease to its renewal
  Gaps,       \* milliseconds between two calls of maintain()
  Horizon     \* bound: when the model ends

ASSUME TimeAssumption ==
  /\ Second \in Nat /\ 0 < Second
  /\ MillisMod \in Nat /\ Second < MillisMod
  /\ T1 \in Nat /\ 0 < T1
  /\ Horizon \in Nat
(* maintain() is called at least once in the period of millis().           *)
ASSUME GapAssumption == \A g \in Gaps : g \in Nat /\ g + Second < MillisMod

VARIABLES
  now,                    \* ghost: the time, which does not wrap, at the last call
  start,                  \* ghost: when the lease was obtained
  _lastCheckLeaseMillis,
  _renewInSec

timerVars == <<now, start, _lastCheckLeaseMillis, _renewInSec>>

millis(t) == t % MillisMod

TimerInit ==
  /\ now = 0 /\ start = 0
  /\ _lastCheckLeaseMillis = millis(0)
  /\ _renewInSec = T1

\* The difference as a number that does not wrap.
Elapsed_Signed(t) == millis(t) - _lastCheckLeaseMillis

\* unsigned long elapsed = now - _lastCheckLeaseMillis
Elapsed(t) == (millis(t) - _lastCheckLeaseMillis) % MillisMod

\* Forgets what is left of a second.
Rest_Dropped(elapsed) == 0

Rest(elapsed) == elapsed % Second

\* Takes four intervals for two.
SecondsLeft_Eager(left, e) == IF left < 4 * e THEN 0 ELSE left - e

\* At zero when less than two intervals are left: early, not late.
SecondsLeft(left, e) == IF left < e * 2 THEN 0 ELSE left - e

\* checkLease() at time t.
CheckLease(t) ==
  IF Elapsed(t) >= Second
  THEN /\ _lastCheckLeaseMillis' = (millis(t) - Rest(Elapsed(t))) % MillisMod
       /\ _renewInSec' = SecondsLeft(_renewInSec, Elapsed(t) \div Second)
  ELSE UNCHANGED <<_lastCheckLeaseMillis, _renewInSec>>

MaintainPoll ==
  /\ _renewInSec > 0
  /\ \E g \in Gaps : now' = now + g /\ now' <= Horizon
  /\ CheckLease(now')
  /\ UNCHANGED start

\* request_DHCP_lease() has obtained a lease: the countdown starts again.
Renewed ==
  /\ _renewInSec = 0
  /\ \E g \in Gaps : now' = now + g /\ now' <= Horizon
  /\ start' = now'
  /\ _lastCheckLeaseMillis' = millis(now')
  /\ _renewInSec' = T1

TimerNext == MaintainPoll \/ Renewed

TimerSpec == TimerInit /\ [][TimerNext]_timerVars

-----------------------------------------------------------------------------
TimerTypeOK ==
  /\ now \in Nat /\ start \in Nat /\ start <= now
  /\ _lastCheckLeaseMillis \in Nat /\ _lastCheckLeaseMillis < MillisMod
  /\ _renewInSec \in Nat

(* A renewal is never missed: whatever the intervals of the calls, and     *)
(* across the wrap of millis(), the first call T1 seconds after the lease  *)
(* finds the countdown at zero, for the rests of seconds are carried over. *)
NeverLate == now - start >= T1 * Second => _renewInSec = 0

(* Nor does it come much too early: the countdown reaches zero at most the *)
(* interval of the calls, and a second, before its time.                   *)
NotTooEarly ==
  [][_renewInSec > 0 /\ _renewInSec' = 0
       => (now' - start) + (now' - now) + Second > T1 * Second]_timerVars

-----------------------------------------------------------------------------
(* Until the renewal is due, the seconds counted and the rest of a second  *)
(* account for all the time since the lease was obtained.                  *)
Uncounted == (now - start) - (T1 - _renewInSec) * Second

Counted ==
  0 < _renewInSec =>
    /\ _renewInSec <= T1
    /\ 0 <= Uncounted /\ Uncounted < Second
    /\ _lastCheckLeaseMillis = (now - Uncounted) % MillisMod
=============================================================================
