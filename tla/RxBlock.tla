------------------------------ MODULE RxBlock ------------------------------
(***************************************************************************)
(* The receive path of src/libs/Network/rx.c: the two readers of the RX    *)
(* block ring, Network_RxLePatcket (copy a packet into a buffer) and       *)
(* Network_PassthroughRxPatcket (stream it into the BMC-to-NC transmit     *)
(* FIFO), with the hardware around them.                                   *)
(*                                                                         *)
(* The RX pool hands the APE a packet as a chain of blocks: the window     *)
(* register RxbufoffsetFunc0 shows the oldest packet's Head, Tail and      *)
(* Count; each block's control word holds its payload length and the index *)
(* of the next block.  Writing a retire record {Head, Tail, Count} returns *)
(* Count blocks, walked from Head, to the pool; writing the window back    *)
(* with bit 31 set consumes the packet.  The NC drains the transmit FIFO   *)
(* one word at a time; a word written to BmcToNcTxBufferLast ends a frame. *)
(* The pool, the window and the FIFO are hardware, written from the        *)
(* specification (sections 3 and 4.C3); the readers are the code.          *)
(*                                                                         *)
(* One step of a reader is one iteration of its do/while loop: the words   *)
(* of a block are copied (or pushed) and the block retired before the pool *)
(* or the NC can act, since neither can touch a block the reader holds.    *)
(***************************************************************************)
EXTENDS Integers, Sequences, FiniteSets, Functions

CONSTANTS
    Blocks,          \* block indices of the RX ring
    MaxChain,        \* most blocks in one packet's chain
    FullBlockBytes,  \* payload bytes of a block that is not the last
    LastBlockBytes,  \* payload bytes the last block of a packet may hold
    FifoCap          \* words the BMC-to-NC transmit FIFO holds

ASSUME MaxChain \in 1 .. Cardinality(Blocks)
ASSUME FullBlockBytes \in Nat /\ FullBlockBytes % 4 = 0
ASSUME LastBlockBytes \subseteq 1 .. 127
ASSUME FifoCap \in Nat

\* (payload_length + 3) / 4
BlockWords(len) == (len + 3) \div 4

VARIABLES
    free,       \* blocks owned by the pool
    ring,       \* ring[b]: the control word of block b (len, next)
    rxq,        \* packets waiting, oldest first: [chain, bytes]; the window
                \* register shows Head(rxq)
    fw,         \* the reader: pc, the block it is at, count, buffer_pos
    txFifo,     \* words in the transmit FIFO: [last, exp], exp ghost
    ncGot,      \* words of the current frame the NC has taken
    ncFrame,    \* the NC's last complete frame: [got, exp]
    leResult,   \* Network_RxLePatcket's *bytes and the packet's bytes rounded
    badRetire   \* ghost: a retire record named a block the pool owned

vars == <<free, ring, rxq, fw, txFifo, ncGot, ncFrame, leResult, badRetire>>

MaxWords == BlockWords(FullBlockBytes) * MaxChain
Control == [len : LastBlockBytes \cup {FullBlockBytes}, next : Blocks]
FwState == [pc : {"Idle", "Pt", "PtDone", "Le", "LeDone"}, cur : Blocks,
            count : 0 .. MaxChain, pos : 0 .. MaxWords]

TypeOK ==
    /\ free \subseteq Blocks
    /\ ring \in [Blocks -> Control]
    /\ rxq \in Seq([chain : Seq(Blocks), bytes : Nat])
    /\ fw \in FwState
    /\ txFifo \in Seq([last : BOOLEAN, exp : 0 .. MaxWords])
    /\ ncGot \in 0 .. MaxWords + FifoCap
    /\ ncFrame \in [got : Nat, exp : Nat]
    /\ leResult \in [got : Nat, exp : Nat]
    /\ badRetire \in BOOLEAN

\* The blocks a retire record {Head, Count} returns: Count blocks from Head.
RECURSIVE ChainFrom(_, _)
ChainFrom(b, n) == IF n = 0 THEN {} ELSE {b} \cup ChainFrom(ring[b].next, n - 1)

\* The control word of a block the pool owns; no reader looks at it, so
\* the model forgets what it held.
FreeControl(b) == [len |-> FullBlockBytes, next |-> b]

\* APE.RxPoolRetire0 = retire (pool hardware).
Retire(head, count) ==
    /\ free' = free \cup ChainFrom(head, count)
    /\ ring' = [b \in Blocks |-> IF b \in ChainFrom(head, count) THEN FreeControl(b)
                                                                ELSE ring[b]]
    /\ badRetire' = (badRetire \/ ChainFrom(head, count) \cap free # {})

\* rxbuf.r32 |= (1 << 31); APE.RxbufoffsetFunc0 = rxbuf;
ConsumeWindow == rxq' = Tail(rxq)

----------------------------------------------------------------------------
(* The pool receives a packet and the NC drains the FIFO (hardware).       *)

RxArrive ==
    \E k \in 1 .. MaxChain, last \in LastBlockBytes :
    \E chain \in Injection(1 .. k, free) :
        /\ ring' = [b \in Blocks |->
                      IF \E i \in 1 .. k : chain[i] = b
                        THEN LET i == CHOOSE j \in 1 .. k : chain[j] = b IN
                             [len  |-> IF i = k THEN last ELSE FullBlockBytes,
                              next |-> IF i = k THEN b ELSE chain[i + 1]]
                        ELSE ring[b]]
        /\ free' = free \ Range(chain)
        /\ rxq' = Append(rxq, [chain |-> chain, bytes |-> (k - 1) * FullBlockBytes + last])
        /\ UNCHANGED <<fw, txFifo, ncGot, ncFrame, leResult, badRetire>>

NcDrain ==
    /\ txFifo # <<>>
    /\ txFifo' = Tail(txFifo)
    /\ IF Head(txFifo).last
          THEN ncFrame' = [got |-> ncGot + 1, exp |-> Head(txFifo).exp] /\ ncGot' = 0
          ELSE ncGot' = ncGot + 1 /\ UNCHANGED ncFrame
    /\ UNCHANGED <<free, ring, rxq, fw, leResult, badRetire>>

----------------------------------------------------------------------------
(* The readers.  Both start by reading the window; if it is not Valid they *)
(* return false, a step that changes nothing.                              *)

\* Fault: count taken one short of the window's Count.
StartCountShort(pc) ==
    /\ fw.pc = "Idle"
    /\ rxq # <<>>
    /\ fw' = [pc |-> pc, cur |-> Head(rxq).chain[1], count |-> Len(Head(rxq).chain) - 1,
              pos |-> 0]
    /\ UNCHANGED <<free, ring, rxq, txFifo, ncGot, ncFrame, leResult, badRetire>>

\* rxbuf = APE.RxbufoffsetFunc0; count = Count; blockid = Head.
Start(pc) ==
    /\ fw.pc = "Idle"
    /\ rxq # <<>>
    /\ fw' = [pc |-> pc, cur |-> Head(rxq).chain[1], count |-> Len(Head(rxq).chain),
              pos |-> 0]
    /\ UNCHANGED <<free, ring, rxq, txFifo, ncGot, ncFrame, leResult, badRetire>>

\* Fault: words = payload_length / 4, rounded down.
LeBlockTruncated ==
    /\ fw.pc = "Le"
    /\ fw' = [fw EXCEPT !.pos = @ + ring[fw.cur].len \div 4,
                        !.cur = ring[fw.cur].next,
                        !.count = @ - 1,
                        !.pc = IF fw.count - 1 = 0 THEN "LeDone" ELSE "Le"]
    /\ UNCHANGED <<free, ring, rxq, txFifo, ncGot, ncFrame, leResult, badRetire>>

\* One iteration of Network_RxLePatcket's loop: copy the block's words.
LeBlock ==
    /\ fw.pc = "Le"
    /\ fw' = [fw EXCEPT !.pos = @ + BlockWords(ring[fw.cur].len),
                        !.cur = ring[fw.cur].next,
                        !.count = @ - 1,
                        !.pc = IF fw.count - 1 = 0 THEN "LeDone" ELSE "Le"]
    /\ UNCHANGED <<free, ring, rxq, txFifo, ncGot, ncFrame, leResult, badRetire>>

\* Fault: the retire record counts one block short.
LeFinishShortRetire ==
    /\ fw.pc = "LeDone"
    /\ Retire(Head(rxq).chain[1], Len(Head(rxq).chain) - 1)
    /\ ConsumeWindow
    /\ leResult' = [got |-> 4 * fw.pos, exp |-> 4 * BlockWords(Head(rxq).bytes)]
    /\ fw' = [fw EXCEPT !.pc = "Idle"]
    /\ UNCHANGED <<txFifo, ncGot, ncFrame>>

\* After the loop: one retire of {Head, Tail, Count}, the window written
\* back, *bytes = 4 * buffer_pos.
LeFinish ==
    /\ fw.pc = "LeDone"
    /\ Retire(Head(rxq).chain[1], Len(Head(rxq).chain))
    /\ ConsumeWindow
    /\ leResult' = [got |-> 4 * fw.pos, exp |-> 4 * BlockWords(Head(rxq).bytes)]
    /\ fw' = [fw EXCEPT !.pc = "Idle"]
    /\ UNCHANGED <<txFifo, ncGot, ncFrame>>

\* Fault: the for loop runs to words, then the extra word follows.
PushedWordsExtra(words, isLast, exp) ==
    [i \in 1 .. words + 1 |-> [last |-> isLast /\ i = words + 1, exp |-> exp]]

\* The words one iteration of the pass-through loop pushes: words - 1 in
\* the for loop, then one more (to BmcToNcTxBufferLast when count is 0).
PushedWords(words, isLast, exp) ==
    [i \in 1 .. IF words = 0 THEN 1 ELSE words |->
        [last |-> isLast /\ i = IF words = 0 THEN 1 ELSE words, exp |-> exp]]

\* Fault: the wait reads InFifo as the words already queued, not the room.
PtRoomFilled(words) == Len(txFifo) >= words

\* while (InFifo < words);  InFifo is the room left in the FIFO.
PtRoom(words) == FifoCap - Len(txFifo) >= words

\* Fault: blockid = next_block taken before the retire record is built.
PtBlockRetireNext ==
    LET words == BlockWords(ring[fw.cur].len)
        count == fw.count - 1
    IN
    /\ fw.pc = "Pt"
    /\ PtRoom(words)
    /\ txFifo' = txFifo \o PushedWords(words, count = 0, BlockWords(Head(rxq).bytes))
    /\ Retire(ring[fw.cur].next, 1)
    /\ fw' = [fw EXCEPT !.cur = ring[fw.cur].next, !.count = count,
                        !.pc = IF count = 0 THEN "PtDone" ELSE "Pt"]
    /\ UNCHANGED <<rxq, ncGot, ncFrame, leResult>>

\* One iteration of Network_PassthroughRxPatcket's loop: count--, wait for
\* room, push the block's words, retire the block alone, follow next_block.
PtBlock ==
    LET words == BlockWords(ring[fw.cur].len)
        count == fw.count - 1
    IN
    /\ fw.pc = "Pt"
    /\ PtRoom(words)
    /\ txFifo' = txFifo \o PushedWords(words, count = 0, BlockWords(Head(rxq).bytes))
    /\ Retire(fw.cur, 1)
    /\ fw' = [fw EXCEPT !.cur = ring[fw.cur].next, !.count = count,
                        !.pc = IF count = 0 THEN "PtDone" ELSE "Pt"]
    /\ UNCHANGED <<rxq, ncGot, ncFrame, leResult>>

\* The busy wait itself, while the FIFO has no room.
PtSpin ==
    /\ fw.pc = "Pt"
    /\ ~PtRoom(BlockWords(ring[fw.cur].len))
    /\ UNCHANGED vars

\* After the loop: the window written back with bit 31 set.
PtFinish ==
    /\ fw.pc = "PtDone"
    /\ ConsumeWindow
    /\ fw' = [fw EXCEPT !.pc = "Idle"]
    /\ UNCHANGED <<free, ring, txFifo, ncGot, ncFrame, leResult, badRetire>>

\* if (!Valid) return false;
NoPacket ==
    /\ fw.pc = "Idle"
    /\ rxq = <<>>
    /\ UNCHANGED vars

\* The whole functions: the window read (Valid or not), the loop
\* iterations, and the finish.
Network_RxLePatcket == NoPacket \/ Start("Le") \/ LeBlock \/ LeFinish
Network_PassthroughRxPatcket ==
    NoPacket \/ Start("Pt") \/ PtBlock \/ PtSpin \/ PtFinish

----------------------------------------------------------------------------
Init ==
    /\ free = Blocks
    /\ ring = [b \in Blocks |-> FreeControl(b)]
    /\ rxq = <<>>
    /\ fw = [pc |-> "Idle", cur |-> CHOOSE b \in Blocks : TRUE, count |-> 0, pos |-> 0]
    /\ txFifo = <<>>
    /\ ncGot = 0
    /\ ncFrame = [got |-> 0, exp |-> 0]
    /\ leResult = [got |-> 0, exp |-> 0]
    /\ badRetire = FALSE

Reader == Network_RxLePatcket \/ Network_PassthroughRxPatcket

Next == Reader \/ RxArrive \/ NcDrain

\* The caller polls a reader in its loop, and the NC drains the FIFO.
Spec == Init /\ [][Next]_vars /\ WF_vars(Reader) /\ WF_vars(NcDrain)

----------------------------------------------------------------------------
\* RX drain completeness: between reads, every block is either the pool's
\* or in exactly one waiting packet, so both readers retire exactly the
\* Count blocks they walked and the pool never gets a block twice.
RxDrainComplete ==
    /\ ~badRetire
    /\ fw.pc = "Idle" =>
          LET queued == UNION {Range(rxq[i].chain) : i \in 1 .. Len(rxq)} IN
          /\ free \cup queued = Blocks
          /\ free \cap queued = {}

\* Pass-through word count: every frame the NC takes from the FIFO has
\* ceil(N/4) words for the N-byte packet, the last one written to
\* BmcToNcTxBufferLast.
PassthroughWordCount == ncFrame.got = ncFrame.exp

\* Network_RxLePatcket reports 4 * ceil(N/4) bytes for an N-byte packet.
LeByteCount == leResult.got = leResult.exp

\* The packets as the pool sees them: while the pass-through reader walks
\* the oldest packet, the blocks it has already retired are no longer its.
PoolView ==
    [i \in 1 .. Len(rxq) |->
        IF i = 1 /\ fw.pc \in {"Pt", "PtDone"}
           THEN SubSeq(rxq[1].chain, Len(rxq[1].chain) - fw.count + 1, Len(rxq[1].chain))
           ELSE rxq[i].chain]

Pool == INSTANCE RxPool WITH queue <- PoolView

\* Both readers, the block-by-block retire of the pass-through path and the
\* single retire of the buffer path, serve the pool as RxPool says: only
\* the oldest packet's blocks, in chain order, and every packet in the end.
ImplementsRxPool == Pool!Spec
=============================================================================
