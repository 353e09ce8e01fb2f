--------------------------- MODULE DrainScheduler ---------------------------
(***************************************************************************)
(* Which find to submit next and how fast (submit/DrainScheduler.cpp). The *)
(* rate is in submissions per PaceUnit ticks of the model's clock.         *)
(***************************************************************************)
EXTENDS FindJournal

CONSTANTS
  StartRate, MinRate, MaxRate,   \* start_, min_ and max_rate_per_s
  PaceUnit,                      \* ticks in which `rate' submissions fit
  PreemptTicks                   \* xuni_preempt_window_ms

ASSUME DrainAssumption ==
  /\ StartRate \in Nat /\ MinRate \in Nat \ {0} /\ MaxRate \in Nat
  /\ MinRate <= StartRate /\ StartRate <= MaxRate
  /\ PaceUnit \in Nat /\ PreemptTicks \in Nat

Rates == MinRate..MaxRate

(* XEN11 order: oldest first, but lowest m first while difficulty rises.   *)
Before(f, g, trend) ==
  IF trend = "Rising" /\ MemOf[f] # MemOf[g] THEN MemOf[f] < MemOf[g] ELSE f < g

(* f is what selectNext returns from the eligible finds, untilClose ticks  *)
(* before the XUNI window closes.                                          *)
SelectNext(f, eligible, trend, untilClose) ==
  LET xuni  == {g \in eligible : KindOf[g] = "XUNI"}
      xen11 == eligible \ xuni
      turn  == IF xuni # {} /\ (untilClose <= PreemptTicks \/ xen11 = {}) THEN xuni ELSE xen11
  IN  /\ f \in turn
      /\ \A g \in turn \ {f} : Before(f, g, IF turn = xuni THEN "Flat" ELSE trend)

OnBreakerClose == StartRate
OnHealthyRoundTrip(rate) == IF 2 * rate <= MaxRate THEN 2 * rate ELSE MaxRate
OnThrottle(rate) == IF rate \div 2 >= MinRate THEN rate \div 2 ELSE MinRate
SubmitInterval(rate) == PaceUnit \div rate
=============================================================================
