----------------------------- MODULE MCApeLoop -----------------------------
(* The main loop with both interrupt handlers and the RMU pump.  One port  *)
(* bit suffices: the firmware only ever tests whether any is set.  Two     *)
(* events let a voltage-source change overlap a GRC reset.                 *)
EXTENDS ApeLoop

MCTimeMod == 4
MCWatchdog == 1
MCGrcTimeout == 2
MCPacketLengths == {14}
MCHostStates == {"START", "UNLOAD"}
=============================================================================
