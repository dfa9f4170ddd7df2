----------------------------- MODULE Timer1KHz -----------------------------
(***************************************************************************)
(* The 1 kHz tick counter of the APE timer service (Timer.h; its source is *)
(* not part of this repository, so this module is written from the         *)
(* specification, section 4.C2).  The real counter is a uint32_t that      *)
(* wraps; the model keeps the wrap but narrows the width to TimeMod ticks. *)
(* Every timeout of the firmware is checked with unsigned (modular)        *)
(* subtraction, so only the ratio of timeouts to TimeMod matters.          *)
(***************************************************************************)
EXTENDS Integers

CONSTANT TimeMod            \* 2^w: the counter width, 2^32 in the firmware

ASSUME TimeMod \in Nat /\ TimeMod >= 4

Ticks == 0 .. (TimeMod - 1)

\* (now - t0) computed on a w-bit unsigned counter.
Age(t0, now) == (now - t0) % TimeMod

\* Fault: the difference taken on integers, not modulo the counter width.
ElapsedNoWrap(t0, now, ms) == now - t0 >= ms

\* Timer_didTimeElapsed1KHz(t0, ms): now - t0 >= ms, wrap-safe.
Timer_didTimeElapsed1KHz(t0, now, ms) == Age(t0, now) >= ms

\* The counter after one more millisecond.
NextTick(now) == (now + 1) % TimeMod
=============================================================================
