---------------------------- MODULE ProcessorBind ----------------------------
(***************************************************************************)
(* sysVirtualSubArchProcessorBind (spuCtrl.C), run by a VM thread, composed *)
(* with the migration protocol of the same SPU (MigrationProtocol).  The   *)
(* syscall writes SET_PROCESSOR_REG and the processor object to the SPU's  *)
(* inbound mailbox and blocks on its interrupt mailbox for an ACK, the     *)
(* mailbox the SPU's support thread reads during a migration.  The SPU     *)
(* runtime answers SET_PROCESSOR_REG from its command loop (spec.md 4.6,   *)
(* 6).                                                                     *)
(***************************************************************************)
EXTENDS MigrationProtocol

\* spuDefs.h
SET_PROCESSOR_REG == 18

\* The processor object's address, as a word.
ProcObj == 400

VARIABLES
    bpc,      \* the VM thread in the syscall
    procSet   \* the SPU runtime has set its processor register

cvars == <<vars, bpc, procSet>>

CompInit == Init /\ bpc = "Call" /\ procSet = FALSE

\* Write the signal and the object, SPE_MBOX_ANY_NONBLOCKING.
BindWrite ==
    /\ ~exited /\ bpc = "Call" /\ bpc' = "Await"
    /\ InboxWrite(<<SET_PROCESSOR_REG, ProcObj>>)
    /\ UNCHANGED <<nreq, intr, outbox, hpc, params, retType, i, retVal,
                   complete, exited, spc, spuRet, procSet>>

\* Block on the interrupt mailbox; anything but ACK: read the outbox word
\* as an error number and exit(1).
BindAwaitAck ==
    /\ ~exited /\ bpc = "Await" /\ intr # <<>>
    /\ intr' = <<>>
    /\ IF Head(intr) = ACK
       THEN bpc' = "Bound" /\ UNCHANGED <<outbox, exited>>
       ELSE bpc' = "Failed" /\ outbox' = OutboxRest(1) /\ exited' = TRUE
    /\ UNCHANGED <<nreq, inbox, hpc, params, retType, i, retVal, complete,
                   spc, spuRet, sent, dropped, procSet>>

\* The runtime's command loop, waiting for a method or its parameters, sets its processor register and ACKs.
SpuSetProcessor ==
    /\ ~exited /\ spc \in {"Idle", "Loaded"} /\ Len(inbox) >= 2
    /\ Head(inbox) = SET_PROCESSOR_REG
    /\ inbox' = SubSeq(inbox, 3, Len(inbox)) /\ SpuReply(ACK) /\ procSet' = TRUE
    /\ UNCHANGED <<nreq, outbox, hpc, params, retType, i, retVal, complete,
                   exited, spc, spuRet, sent, dropped, bpc>>

CompNext ==
    \/ Next /\ UNCHANGED <<bpc, procSet>>
    \/ BindWrite \/ BindAwaitAck \/ SpuSetProcessor

CompSpec == CompInit /\ [][CompNext]_cvars

\* sysVirtualSubArchProcessorBind returns only once the SPU runtime has
\* taken SET_PROCESSOR_REG: the ACK it read answers its own request, not a
\* step of a migration the support thread is driving on the same SPU.
BindReturnsAfterSet == bpc = "Bound" => procSet
=============================================================================
