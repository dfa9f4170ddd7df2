--------------------------- MODULE LoaderMailbox ---------------------------
(***************************************************************************)
(* The loader command channel: handleCommand() in src/ape/main.c, run by   *)
(* the main loop on SHM, SHM1, SHM2 and SHM3 in that order every iteration *)
(* (lines 437-440), and the host-side debugger that drives each mailbox.   *)
(*                                                                         *)
(* A mailbox is three shared-memory words, LoaderCommand, LoaderArg0 and   *)
(* LoaderArg1.  The host writes the arguments, then the command, and waits *)
(* for the firmware to clear the command (the ACK); for READ_MEM it then   *)
(* reads the result from LoaderArg0.  The host tool is not part of this    *)
(* repository: its side is written from the specification (4.C7, 5).       *)
(*                                                                         *)
(* handleCommand is two steps, the command's effect (lines 76-111) and the *)
(* ACK store (line 114), because the host observes them separately.        *)
(*                                                                         *)
(* Before the loop polls, loaderLoop publishes the segments (lines 343-    *)
(* 348): it stamps SHM's SegSig sub-signature with LOADER, then initSHM    *)
(* writes each segment's header.  The host may write a command meanwhile.  *)
(***************************************************************************)
EXTENDS Integers, SequencesExt, FiniteSets

CONSTANTS
    Mailboxes,      \* <<SHM, SHM1, SHM2, SHM3>>: the order the loop polls
    Addrs,          \* word addresses a command may name
    Vals,           \* word values
    READ_MEM, WRITE_MEM, CALL,   \* SHM_LOADER_COMMAND_COMMAND_*
    Unknown,        \* a non-zero command the switch does not know
    LOADER          \* SHM_SEG_SIG_SIG_LOADER, the loader's sub-signature

Commands == {READ_MEM, WRITE_MEM, CALL, Unknown}
NoCommand == "none"

ASSUME Len(Mailboxes) >= 1
ASSUME LOADER \in 0 .. 255
ASSUME NoCommand \notin Commands /\ Cardinality(Commands) = 4

Mbx == 1 .. Len(Mailboxes)

VARIABLES
    mem,        \* the APE's memory at Addrs
    shm,        \* shm[m]: [cmd, arg0, arg1] of mailbox m
    fwIdx,      \* the mailbox the loop handles next
    fwAck,      \* TRUE: the command has taken effect, the ACK is not stored
    host,       \* host[m]: the debugger's request on mailbox m and its phase
    expected,   \* ghost: expected[m] is mem[addr] when READ_MEM executed
    segSig,     \* segSig[m]: the 32-bit SegSig word of mailbox m's segment
    fwReady,    \* fwReady[m]: FwStatus.Ready of mailbox m's segment
    setupStep   \* 0: the LOADER stamp next; m: initSHM(m) next; then the loop

vars == <<mem, shm, fwIdx, fwAck, host, expected, segSig, fwReady, setupStep>>
setupVars == <<segSig, fwReady, setupStep>>
Running == setupStep = Len(Mailboxes) + 1

HostPhases == {"Idle", "Args", "Wait", "Done"}

\* The host's result before it has read one.
NoResult == CHOOSE v \in Vals : TRUE

TypeOK ==
    /\ mem \in [Addrs -> Vals]
    /\ shm \in [Mbx -> [cmd : Commands \cup {NoCommand},
                        arg0 : Addrs \cup Vals, arg1 : Vals]]
    /\ fwIdx \in Mbx
    /\ fwAck \in BOOLEAN
    /\ host \in [Mbx -> [phase : HostPhases, cmd : Commands,
                         result : Addrs \cup Vals]]
    /\ expected \in [Mbx -> Vals]
    /\ segSig \in [Mbx -> 0 .. 2^32 - 1]
    /\ fwReady \in [Mbx -> BOOLEAN]
    /\ setupStep \in 0 .. Len(Mailboxes) + 1

\* The next mailbox in the loop's order, wrapping to SHM after SHM3.
NextMbx(m) == IF m = Len(Mailboxes) THEN 1 ELSE m + 1

----------------------------------------------------------------------------
(* Firmware: handleCommand(shm) for shm = Mailboxes[fwIdx].                *)

\* if (!command) return;
HandleIdle ==
    LET m == fwIdx IN
    /\ ~fwAck
    /\ shm[m].cmd = NoCommand
    /\ fwIdx' = NextMbx(m)
    /\ UNCHANGED <<mem, shm, fwAck, host, expected>>

\* Fault: the ACK stored ahead of the result, so the host may read
\* LoaderArg0 before the firmware has written it.
HandleCommandEffectAckFirst ==
    /\ ~fwAck
    /\ shm[fwIdx].cmd # NoCommand
    /\ shm' = [shm EXCEPT ![fwIdx].cmd = NoCommand]
    /\ fwAck' = TRUE
    /\ UNCHANGED <<mem, fwIdx, host, expected>>

\* Fault: WRITE_MEM breaks out of the switch before its store.
HandleCommandEffectWriteDropped ==
    LET m == fwIdx
        a == shm[m].arg0
    IN
    /\ ~fwAck
    /\ shm[m].cmd # NoCommand
    /\ IF shm[m].cmd = READ_MEM /\ a \in Addrs
          THEN /\ shm' = [shm EXCEPT ![m].arg0 = mem[a]]
               /\ expected' = [expected EXCEPT ![m] = mem[a]]
          ELSE UNCHANGED <<shm, expected>>
    /\ fwAck' = TRUE
    /\ UNCHANGED <<mem, fwIdx, host>>

\* The switch on the command: READ_MEM stores *arg0 into LoaderArg0,
\* WRITE_MEM stores arg1 at *arg0, CALL jumps to arg0 (code outside the
\* model), anything else is ignored.
HandleCommandEffect ==
    LET m == fwIdx
        c == shm[m].cmd
        a == shm[m].arg0
    IN
    /\ ~fwAck
    /\ c # NoCommand
    /\ IF c = READ_MEM /\ a \in Addrs
          THEN /\ shm' = [shm EXCEPT ![m].arg0 = mem[a]]
               /\ expected' = [expected EXCEPT ![m] = mem[a]]
          ELSE UNCHANGED <<shm, expected>>
    /\ mem' = IF c = WRITE_MEM /\ a \in Addrs THEN [mem EXCEPT ![a] = shm[m].arg1]
                                              ELSE mem
    /\ fwAck' = TRUE
    /\ UNCHANGED <<fwIdx, host>>

\* shm->LoaderCommand.bits.Command = 0;  "Mark command as handled."
HandleCommandAck ==
    /\ fwAck
    /\ shm' = [shm EXCEPT ![fwIdx].cmd = NoCommand]
    /\ fwAck' = FALSE
    /\ fwIdx' = NextMbx(fwIdx)
    /\ UNCHANGED <<mem, host, expected>>

\* The loop polls the mailboxes only once the segments are published.
handleCommand ==
    /\ Running
    /\ HandleIdle \/ HandleCommandEffect \/ HandleCommandAck
    /\ UNCHANGED setupVars

----------------------------------------------------------------------------
(* Firmware: loaderLoop's setup, lines 343-348.                            *)

\* A multi-character constant as GCC evaluates it: the first character is
\* the most significant byte, 'APE!' = 0x41504521.
MultiChar(chars) == FoldLeft(LAMBDA w, c : 256 * w + c, 0, chars)

\* The characters A, P, E, !.
APETag == <<65, 80, 69, 33>>

\* SegSig.bits.Sig = v: the Sig field is the word's low 8 bits (spec 5).
SetSig(w, v) == 256 * (w \div 256) + v

\* SHM.SegSig.bits.Sig = SHM_SEG_SIG_SIG_LOADER;  "signal ready"
StampLoader ==
    /\ setupStep = 0
    /\ segSig' = [segSig EXCEPT ![1] = SetSig(@, LOADER)]
    /\ setupStep' = 1
    /\ UNCHANGED fwReady

\* initSHM(shm): FwVersion, FwFeatures (NCSI), FwStatus = Ready alone, and
\* the whole SegSig word = 'APE!'.
initSHM(m) ==
    /\ setupStep = m
    /\ segSig' = [segSig EXCEPT ![m] = MultiChar(APETag)]
    /\ fwReady' = [fwReady EXCEPT ![m] = TRUE]
    /\ setupStep' = m + 1

\* The stamp, then initSHM on SHM, SHM1, SHM2 and SHM3 in turn.
Setup ==
    /\ StampLoader \/ \E m \in Mbx : initSHM(m)
    /\ UNCHANGED <<mem, shm, fwIdx, fwAck, host, expected>>

----------------------------------------------------------------------------
(* Host: a debugger driving mailbox m, one request at a time.              *)

HostWriteArgs(m) ==
    /\ host[m].phase \in {"Idle", "Done"}
    /\ \E c \in Commands, a \in Addrs, v \in Vals :
          /\ host' = [host EXCEPT ![m] = [phase |-> "Args", cmd |-> c,
                                           result |-> NoResult]]
          /\ shm' = [shm EXCEPT ![m].arg0 = a, ![m].arg1 = v]
    /\ expected' = [expected EXCEPT ![m] = NoResult]
    /\ UNCHANGED <<mem, fwIdx, fwAck, setupVars>>

HostWriteCommand(m) ==
    /\ host[m].phase = "Args"
    /\ shm' = [shm EXCEPT ![m].cmd = host[m].cmd]
    /\ host' = [host EXCEPT ![m].phase = "Wait"]
    /\ UNCHANGED <<mem, fwIdx, fwAck, expected, setupVars>>

\* The host sees the ACK and reads LoaderArg0.
HostReadResult(m) ==
    /\ host[m].phase = "Wait"
    /\ shm[m].cmd = NoCommand
    /\ host' = [host EXCEPT ![m].phase = "Done", ![m].result = shm[m].arg0]
    /\ UNCHANGED <<mem, shm, fwIdx, fwAck, expected, setupVars>>

----------------------------------------------------------------------------
Init ==
    /\ mem \in [Addrs -> Vals]
    /\ segSig = [m \in Mbx |-> 0]       \* overwritten before any use
    /\ fwReady = [m \in Mbx |-> FALSE]
    /\ setupStep = 0
    /\ shm = [m \in Mbx |-> [cmd |-> NoCommand, arg0 |-> CHOOSE v \in Vals : TRUE,
                             arg1 |-> CHOOSE v \in Vals : TRUE]]
    /\ fwIdx = 1
    /\ fwAck = FALSE
    /\ host = [m \in Mbx |-> [phase |-> "Idle", cmd |-> READ_MEM, result |-> NoResult]]
    /\ expected = [m \in Mbx |-> NoResult]

Host == \E m \in Mbx : HostWriteArgs(m) \/ HostWriteCommand(m) \/ HostReadResult(m)

Next == Setup \/ handleCommand \/ Host

\* The loop never stops polling; the host is not obliged to send anything.
Spec == Init /\ [][Next]_vars /\ WF_vars(Setup) /\ WF_vars(handleCommand)
                              /\ \A m \in Mbx : WF_vars(HostReadResult(m))

----------------------------------------------------------------------------
\* When the host sees the ACK of a READ_MEM, LoaderArg0 already holds the
\* word the firmware read: the result store (line 94) precedes the ACK
\* store (line 114), in every interleaving with the other mailboxes' WRITE_MEMs.
ReadResultValid ==
    \A m \in Mbx :
        host[m].phase = "Done" /\ host[m].cmd = READ_MEM
            => host[m].result = expected[m]

\* The loader signature: while the loop runs, every segment's SegSig.Sig
\* (low byte) reads LOADER, as the comment at line 343 ("Update SHM.Sig to
\* signal ready") and the specification (4.C8, 5) intend.
LoaderSignaturePublished == Running => \A m \in Mbx : segSig[m] % 256 = LOADER

\* The mailboxes as the host sees them: a command whose effect has been
\* carried out already counts as acknowledged, the ACK store being the
\* step that lets the host see it.
ServiceView ==
    [m \in Mbx |-> IF fwAck /\ m = fwIdx THEN [shm[m] EXCEPT !.cmd = NoCommand]
                                        ELSE shm[m]]

Service == INSTANCE MailboxService WITH shm <- ServiceView

\* handleCommand, polled in turn on every mailbox, implements the atomic
\* command service: every effect step is one Execute of the command the
\* host wrote, and every command is eventually executed.
ImplementsService == Service!Spec
=============================================================================
