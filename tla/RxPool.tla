------------------------------ MODULE RxPool ------------------------------
(***************************************************************************)
(* What the RX pool and its readers promise each other (specification 3,   *)
(* 4.C3): every block is the pool's or belongs to exactly one waiting      *)
(* packet; packets are served oldest first; a reader gives back the blocks *)
(* of the oldest packet only, first block first, and the packet leaves the *)
(* window once all its blocks are back, or together with the last of      *)
(* them.  RxBlock, the code's two readers over the hardware ring, is       *)
(* checked against this.                                                   *)
(***************************************************************************)
EXTENDS Integers, Sequences, Functions

CONSTANTS Blocks, MaxChain

VARIABLES
    free,    \* blocks the pool owns
    queue    \* waiting packets, oldest first: the blocks not yet given back

vars == <<free, queue>>

\* The pool hands out a packet on k of its blocks.
Arrive ==
    \E k \in 1 .. MaxChain : \E chain \in Injection(1 .. k, free) :
        /\ free' = free \ Range(chain)
        /\ queue' = Append(queue, chain)

\* The oldest packet's first block goes back to the pool.
ReturnBlock ==
    /\ queue # <<>> /\ Head(queue) # <<>>
    /\ free' = free \cup {Head(queue)[1]}
    /\ queue' = [queue EXCEPT ![1] = Tail(@)]

\* The oldest packet, all its blocks back, leaves the window.
Pop ==
    /\ queue # <<>> /\ Head(queue) = <<>>
    /\ free' = free
    /\ queue' = Tail(queue)

\* The oldest packet's remaining blocks go back and it leaves, at once.
Consume ==
    /\ queue # <<>>
    /\ free' = free \cup Range(Head(queue))
    /\ queue' = Tail(queue)

Serve == ReturnBlock \/ Pop \/ Consume

Init == free = Blocks /\ queue = <<>>

Next == Arrive \/ Serve

\* A waiting packet is always served.
Spec == Init /\ [][Next]_vars /\ WF_vars(Serve)
=============================================================================
