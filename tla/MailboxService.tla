--------------------------- MODULE MailboxService ---------------------------
(***************************************************************************)
(* What the loader mailbox promises the host (specification 4.C7): a       *)
(* command written to LoaderCommand is carried out and acknowledged in one *)
(* indivisible step, some time after it is written, whichever mailbox it   *)
(* is on.  LoaderMailbox implements this with a loop that polls the        *)
(* mailboxes in turn and stores the result before the ACK.                 *)
(***************************************************************************)
EXTENDS Integers, Sequences

CONSTANTS Mailboxes, Addrs, Vals, READ_MEM, WRITE_MEM, CALL, Unknown

Commands == {READ_MEM, WRITE_MEM, CALL, Unknown}
NoCommand == "none"
Mbx == 1 .. Len(Mailboxes)
NoResult == CHOOSE v \in Vals : TRUE

VARIABLES mem, shm, host

vars == <<mem, shm, host>>

\* The command on mailbox m takes effect and is acknowledged at once.
Execute(m) ==
    LET c == shm[m].cmd
        a == shm[m].arg0
    IN
    /\ c # NoCommand
    /\ shm' = [shm EXCEPT ![m].cmd = NoCommand,
                          ![m].arg0 = IF c = READ_MEM THEN mem[a] ELSE a]
    /\ mem' = IF c = WRITE_MEM THEN [mem EXCEPT ![a] = shm[m].arg1] ELSE mem
    /\ UNCHANGED host

Request(m) ==
    /\ host[m].phase \in {"Idle", "Done"}
    /\ \E c \in Commands, a \in Addrs, v \in Vals :
          /\ host' = [host EXCEPT ![m] = [phase |-> "Args", cmd |-> c, result |-> NoResult]]
          /\ shm' = [shm EXCEPT ![m].arg0 = a, ![m].arg1 = v]
    /\ UNCHANGED mem

Submit(m) ==
    /\ host[m].phase = "Args"
    /\ shm' = [shm EXCEPT ![m].cmd = host[m].cmd]
    /\ host' = [host EXCEPT ![m].phase = "Wait"]
    /\ UNCHANGED mem

Collect(m) ==
    /\ host[m].phase = "Wait"
    /\ shm[m].cmd = NoCommand
    /\ host' = [host EXCEPT ![m].phase = "Done", ![m].result = shm[m].arg0]
    /\ UNCHANGED <<mem, shm>>

Init ==
    /\ mem \in [Addrs -> Vals]
    /\ shm = [m \in Mbx |-> [cmd |-> NoCommand, arg0 |-> NoResult, arg1 |-> NoResult]]
    /\ host = [m \in Mbx |-> [phase |-> "Idle", cmd |-> READ_MEM, result |-> NoResult]]

Next == \E m \in Mbx : Execute(m) \/ Request(m) \/ Submit(m) \/ Collect(m)

Spec == Init /\ [][Next]_vars /\ \A m \in Mbx : WF_vars(Execute(m)) /\ WF_vars(Collect(m))
=============================================================================
