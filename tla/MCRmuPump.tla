----------------------------- MODULE MCRmuPump -----------------------------
(* The RMU pump alone: an 8-tick counter, a 2-tick watchdog and packets    *)
(* of 14 bytes (a short NC-SI command, 4 words after rounding up), 64     *)
(* bytes, and 4100 bytes, one word more than buffer[] holds.              *)
EXTENDS RmuPump

MCTimeMod == 8
MCWatchdog == 2
MCPacketLengths == {14, 64, 4100}
=============================================================================
