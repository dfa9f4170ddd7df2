-------------------------- MODULE MCLoaderMailbox --------------------------
EXTENDS LoaderMailbox

\* Two of the four mailboxes (SHM, SHM1): enough for one host's WRITE_MEM
\* to race another host's READ_MEM.
MCMailboxes == <<"SHM", "SHM1">>
MCAddrs == {"a1", "a2"}
MCVals == {"v0", "v1"}

\* SHM_SEG_SIG_SIG_LOADER is in a generated header outside the repository;
\* any byte but 0x21 (the low byte of 'APE!') behaves alike here.
MCLoader == 76
=============================================================================
