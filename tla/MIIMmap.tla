------------------------------ MODULE MIIMmap ------------------------------
(***************************************************************************)
(* The simulator's MII binding, src/simulator/bcm5719_MII_mmap.cpp: every  *)
(* MII register's r16 read and write callbacks are bound to a ram_offset_t *)
(* {base, offset}, and read_from_ram / write_to_ram load or store a 32-bit *)
(* word at base + offset.  The offsets are the register numbers (with the  *)
(* shadow selector in bits 8-10 for the shadowed ones), taken as BYTE      *)
(* offsets.                                                                *)
(*                                                                         *)
(* The backing memory is a function from byte address to byte.  The store *)
(* order is the host's: little-endian on x86, big-endian on the ppc64      *)
(* build the BARRIER() macro caters for; the model lets Init pick either.  *)
(* The register class that narrows the callback's uint32_t to r16 is in a  *)
(* generated header outside the repository; the model takes its low 16    *)
(* bits.  The index callbacks (read_from_ram_index, write_to_ram_index)    *)
(* serve register arrays, none of which the MII binding installs.          *)
(***************************************************************************)
EXTENDS Integers, TLC

CONSTANTS
    Regs,    \* the MII registers written and read (names in MIIOffset)
    Vals     \* 16-bit values the firmware writes

\* The ram_offset_t of each register, as init_bcm5719_MII_mmap sets it.
MIIOffset ==
    ("Control" :> 0) @@ ("Status" :> 1) @@ ("PhyIdHigh" :> 2) @@ ("PhyIdLow" :> 3)
    @@ ("AutonegotiationAdvertisement" :> 4)
    @@ ("AutonegotiationLinkPartnerAbilityBasePage" :> 5)
    @@ ("AutonegotiationExpansion" :> 6) @@ ("AutonegotiationNextPageTransmit" :> 7)
    @@ ("AutonegotiationLinkPartnerAbilityNextPage" :> 8)
    @@ ("_1000baseTControl" :> 9) @@ ("_1000baseTStatus" :> 10)
    @@ ("BroadreachLreAccess" :> 14) @@ ("IeeeExtendedStatus" :> 15)
    @@ ("PhyExtendedControl" :> 16) @@ ("PhyExtendedStatus" :> 17)
    @@ ("ReceiveErrorCounter" :> 18) @@ ("FalseCarrierSenseCounter" :> 19)
    @@ ("LocalRemoteReceiverNotOkCounter" :> 20) @@ ("AuxiliaryControl" :> 24)
    @@ ("AuxiliaryStatusSummary" :> 25) @@ ("InterruptStatus" :> 26)
    @@ ("InterruptMask" :> 27) @@ ("CabletronLed" :> 28) @@ ("Test1" :> 30)
    @@ ("BlockSelect" :> 31) @@ ("_10baseT" :> 280) @@ ("DllSelection" :> 284)
    @@ ("PowerAndMiiControl" :> 536) @@ ("SpareControl1" :> 540)
    @@ ("ClockAlignmentControl" :> 796) @@ ("MiscTest1" :> 1048)
    @@ ("SpareControl2" :> 1052) @@ ("MiscTest2" :> 1304)
    @@ ("SpareControl3" :> 1308) @@ ("MiscellaneousControl" :> 1816)

ASSUME Regs \subseteq DOMAIN MIIOffset
ASSUME Vals \subseteq 0 .. 65535

\* The bytes the bound registers' words occupy.
Addr == UNION {MIIOffset[r] .. MIIOffset[r] + 3 : r \in Regs}

VARIABLES
    mem,        \* the backing memory at base
    bigEndian   \* the host's byte order (fixed)

vars == <<mem, bigEndian>>

\* Byte k (0 = least significant) of a word.
ByteOf(v, k) == (v \div (2 ^ (8 * k))) % 256

\* Which byte of a word stored at off lands at address a: the host's order.
LaneByte(off, a) == IF bigEndian THEN 3 - (a - off) ELSE a - off

\* return *(uint32_t *)(base + offset);
read_from_ram(off) ==
    LET b(k) == mem[CHOOSE a \in off .. off + 3 : LaneByte(off, a) = k] IN
    b(0) + 256 * b(1) + 65536 * b(2) + 16777216 * b(3)

\* *(uint32_t *)(base + offset) = val;
write_to_ram(off, v) ==
    mem' = [a \in Addr |-> IF a \in off .. off + 3 THEN ByteOf(v, LaneByte(off, a))
                                                 ELSE mem[a]]

\* MII.<reg>.r16 read: the word at the register's offset, narrowed.
ReadReg(r) == read_from_ram(MIIOffset[r]) % 65536

\* MII.<reg>.r16 = v: the installed write callback.
WriteReg(r, v) ==
    /\ write_to_ram(MIIOffset[r], v)
    /\ UNCHANGED bigEndian

Init ==
    /\ mem = [a \in Addr |-> 0]
    /\ bigEndian \in BOOLEAN

Next == \E r \in Regs, v \in Vals : WriteReg(r, v)

Spec == Init /\ [][Next]_vars

----------------------------------------------------------------------------
File == INSTANCE RegisterFile WITH regs <- [r \in Regs |-> ReadReg(r)]

\* The binding behaves as a register file: a write through one register's
\* callback changes what that register reads, and no other register's.
ImplementsRegisterFile == File!Spec
=============================================================================
