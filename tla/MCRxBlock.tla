----------------------------- MODULE MCRxBlock -----------------------------
EXTENDS RxBlock

\* Three blocks let one packet's retired blocks be reused by the next
\* packet while the reader still walks the first.  Full blocks hold two
\* words, as many as the FIFO, so the pass-through wait really waits.
MCBlocks == {1, 2, 3}
MCLastBlockBytes == {1, 5}

=============================================================================
