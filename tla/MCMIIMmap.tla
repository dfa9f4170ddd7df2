----------------------------- MODULE MCMIIMmap -----------------------------
(* The MII binding on its first two registers, Control and Status, which  *)
(* the byte offsets place one byte apart.                                 *)
EXTENDS MIIMmap

MCBaseRegs == {"Control", "Status"}
MCVals == {1, 258}
=============================================================================
