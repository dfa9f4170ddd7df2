--------------------------- MODULE RegisterFile ---------------------------
(***************************************************************************)
(* What a register-map simulator promises the firmware it hosts: a set of  *)
(* independent 16-bit registers.  Writing one register changes that        *)
(* register alone; reading returns the value last written.  MIIMmap, the   *)
(* simulator's MII binding, is checked against this.                       *)
(***************************************************************************)
EXTENDS Naturals

CONSTANTS Regs, Vals

VARIABLE regs

Init == regs = [r \in Regs |-> 0]

Write(r, v) == regs' = [regs EXCEPT ![r] = v]

Next == \E r \in Regs, v \in Vals : Write(r, v)

Spec == Init /\ [][Next]_regs
=============================================================================
