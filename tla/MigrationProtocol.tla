--------------------------- MODULE MigrationProtocol ---------------------------
(***************************************************************************)
(* The mailbox protocol of one migration on one SPU, repeated (spuCtrl.C:  *)
(* prepareMigration from LOAD_STATIC_METHOD on, runMigratedMethod,         *)
(* supportSPU and its handlers, the end of doMigration).                   *)
(*                                                                         *)
(* Host side: the SPU's support thread.  SPU side: the Java runtime on the *)
(* SPU, which is not in the repository; it is modelled from spec.md 4.5    *)
(* and 6.  Mailboxes as on the Cell: the inbound mailbox holds 4 words,    *)
(* the outbound and outbound-interrupt mailboxes 1 word each.  The SPU     *)
(* writes a message's payload to the outbound mailbox, then its code to    *)
(* the interrupt mailbox; it blocks on a full mailbox.                     *)
(***************************************************************************)
EXTENDS Integers, Sequences, SequencesExt

CONSTANTS
    MaxParams,   \* bound on paramsLength
    MaxRequests, \* bound on the console requests of one migration
    RetWords     \* the values a returned word can take

\* spuDefs.h: the mailbox codes, as numbers.
ACK == 1
NACK == 2
ERR_METHOD_NOT_LOADED == 5
LOAD_STATIC_METHOD == 32
LOAD_WORD_PARAM == 33
RUN_METHOD_RETURNING_VOID == 35
RUN_METHOD_RETURNING_INT == 36
RUN_METHOD_RETURNING_FLOAT == 37
RUN_METHOD_RETURNING_LONG == 38
RUN_METHOD_RETURNING_DOUBLE == 39
RUN_METHOD_RETURNING_REF == 40
RETURN_VALUE_V == 48
RETURN_VALUE_I == 49
RETURN_VALUE_L_UPPER == 50
RETURN_VALUE_L_LOWER == 51
RETURN_VALUE_F == 52
RETURN_VALUE_D_UPPER == 53
RETURN_VALUE_D_LOWER == 54
RETURN_VALUE_R == 55
TRAP_MESSAGE == 64
CONSOLE_WRITE_CHAR == 65
CONSOLE_WRITE_INT == 66
CONSOLE_WRITE_INT_BOTH == 67
CONSOLE_WRITE_INT_HEX == 68
CONSOLE_WRITE_LONG == 69
CONSOLE_WRITE_LONG_BOTH == 70
CONSOLE_WRITE_LONG_HEX == 71
CONSOLE_WRITE_DOUBLE == 72
FAKE_TRAP_MESSAGE == 73
FAKE_TRAP_MESSAGE_STR == 74
FAKE_TRAP_MESSAGE_INT == 75

RunCodes == RUN_METHOD_RETURNING_VOID .. RUN_METHOD_RETURNING_REF
\* Requests handled by a handler that reads the payload, then ACKs; with
\* the number of payload words it reads.
ConsoleCodes == {CONSOLE_WRITE_CHAR, CONSOLE_WRITE_INT, CONSOLE_WRITE_INT_BOTH,
                 CONSOLE_WRITE_INT_HEX, CONSOLE_WRITE_LONG,
                 CONSOLE_WRITE_LONG_BOTH, CONSOLE_WRITE_LONG_HEX,
                 CONSOLE_WRITE_DOUBLE, FAKE_TRAP_MESSAGE_STR,
                 FAKE_TRAP_MESSAGE_INT}
PayloadLen(cmd) ==
    CASE cmd \in CONSOLE_WRITE_LONG .. CONSOLE_WRITE_LONG_HEX -> 2
      [] cmd = CONSOLE_WRITE_DOUBLE -> 3
      [] OTHER -> 1
\* Return messages that end the service loop, and the retVal word each fills.
FinalReturns == {RETURN_VALUE_V, RETURN_VALUE_I, RETURN_VALUE_F, RETURN_VALUE_R,
                 RETURN_VALUE_L_LOWER, RETURN_VALUE_D_LOWER}
UpperReturns == {RETURN_VALUE_L_UPPER, RETURN_VALUE_D_UPPER}
Known == ConsoleCodes \cup FinalReturns \cup UpperReturns
         \cup {TRAP_MESSAGE, FAKE_TRAP_MESSAGE}

\* Parameter i of a request, and the word printed by a console request.
ParamWord(i) == 100 + i
ConsoleWord == 300
\* A code no handler knows (spec.md 8, scenario F: 0xCAFEBABE) and the
\* error word that follows it; any values outside spuDefs.h's codes do.
BadSignal == 999
ErrWord == 998

INBOX_DEPTH == 4

VARIABLES
    inbox, intr, outbox,  \* the three mailboxes
    hpc,                  \* the support thread
    params,               \* the request: parameter words
    retType,              \* the request: its RUN_METHOD_RETURNING_* code
    i,                    \* prepareMigration's loop index
    retVal,               \* thread->retVal[0..1]
    complete,             \* thread->complete
    exited,               \* the process called exit(1)
    spc,                  \* the SPU runtime
    spuRet,               \* the words the SPU returned for this migration
    nreq,                 \* console requests the SPU made in this migration
    sent,                 \* every word the host wrote to the inbox this migration
    dropped               \* some inbound word did not fit and was lost

vars == <<inbox, intr, outbox, hpc, params, retType, i, retVal, complete,
          exited, spc, spuRet, nreq, sent, dropped>>

Words == Nat
HPcs == {"Idle", "Method", "MethodAck", "Param", "ParamAck", "RunAck", "Serve",
         "Done"}
SPcs == {"Idle", "Loaded", "Running", "AwaitAck", "Upper"}

TypeOK ==
    /\ inbox \in Seq(Words) /\ intr \in Seq(Words) /\ outbox \in Seq(Words)
    /\ hpc \in HPcs /\ spc \in SPcs
    /\ params \in Seq(Words) /\ retType \in RunCodes /\ i \in 0 .. MaxParams
    /\ retVal \in [0 .. 1 -> Words] /\ complete \in BOOLEAN
    /\ exited \in BOOLEAN /\ dropped \in BOOLEAN
    /\ spuRet \in Seq(Words) /\ sent \in Seq(Words) /\ nreq \in 0 .. MaxRequests

Init ==
    /\ inbox = <<>> /\ intr = <<>> /\ outbox = <<>>
    /\ hpc = "Idle" /\ spc = "Idle"
    /\ params = <<>> /\ retType = RUN_METHOD_RETURNING_VOID /\ i = 0
    /\ retVal = [k \in 0 .. 1 |-> 0] /\ complete = FALSE
    /\ exited = FALSE /\ dropped = FALSE
    /\ spuRet = <<>> /\ sent = <<>> /\ nreq = 0

\* spe_in_mbox_write(..., SPE_MBOX_ANY_NONBLOCKING): as many words as fit
\* are written; the code only checks for a negative return.
InboxWrite(ws) ==
    LET n == IF Len(ws) <= INBOX_DEPTH - Len(inbox)
             THEN Len(ws) ELSE INBOX_DEPTH - Len(inbox)
    IN  /\ inbox' = inbox \o SubSeq(ws, 1, n)
        /\ sent' = sent \o ws
        /\ dropped' = (dropped \/ n < Len(ws))

\* spe_out_mbox_read(ctx, buf, n): non-blocking, reads what is there.
OutboxTake(n) == SubSeq(outbox, 1, IF n <= Len(outbox) THEN n ELSE Len(outbox))
OutboxRest(n) == SubSeq(outbox, Len(OutboxTake(n)) + 1, Len(outbox))

Step(from, to) == ~exited /\ hpc = from /\ hpc' = to

(***************************************************************************)
(* Host: the support thread.                                               *)
(***************************************************************************)
\* Mutant: the slot's complete flag left from its previous migration.
ClearCompleteSkipped == UNCHANGED complete

\* chooseThreadID, when the request was submitted: complete = 0.
ClearComplete == complete' = FALSE

\* A new request reaches this SPU (migrateToSubArch's fields, the slot's
\* complete flag cleared by chooseThreadID), and prepareMigration has
\* brought the GOT up to date (GotCoherence).
HostStart ==
    /\ Step("Idle", "Method")
    /\ \E n \in 0 .. MaxParams, t \in RunCodes :
          params' = [k \in 1 .. n |-> ParamWord(k)] /\ retType' = t
    /\ ClearComplete /\ sent' = <<>> /\ spuRet' = <<>> /\ nreq' = 0
    /\ UNCHANGED <<inbox, intr, outbox, i, retVal, exited, spc, dropped>>

\* prepareMigration: write LOAD_STATIC_METHOD and the method's offsets.
HostSendMethod ==
    /\ Step("Method", "MethodAck")
    /\ InboxWrite(<<LOAD_STATIC_METHOD, 1, 2>>)
    /\ UNCHANGED <<nreq, intr, outbox, params, retType, i, retVal, complete, exited,
                   spc, spuRet>>

\* Block on the interrupt mailbox for an ACK; anything else: read the
\* error word and exit(1).  Shared by the method, parameter and run steps.
AwaitAck(from, to) ==
    /\ ~exited /\ hpc = from /\ intr # <<>>
    /\ intr' = <<>>
    /\ \/ Head(intr) = ACK /\ hpc' = to /\ UNCHANGED <<nreq, outbox, exited>>
       \/ Head(intr) # ACK /\ outbox' = OutboxRest(1) /\ exited' = TRUE
          /\ UNCHANGED hpc

HostMethodAck ==
    /\ AwaitAck("MethodAck", "Param") /\ i' = 0
    /\ UNCHANGED <<nreq, inbox, params, retType, retVal, complete, spc, spuRet, sent,
                   dropped>>

\* Mutant: the parameters sent in index order.
ParamInOrder(k) == params[k + 1]

\* Parameters go last first: params[paramsLength - (i + 1)].
ParamToSend(k) == params[Len(params) - k]

\* Mutant: the next parameter written without waiting for the ACK.
HostSendParamNoAck ==
    /\ Step("Param", "Param") /\ i < Len(params) /\ i' = i + 1
    /\ InboxWrite(<<LOAD_WORD_PARAM, ParamToSend(i)>>)
    /\ UNCHANGED <<nreq, intr, outbox, params, retType, retVal, complete, exited,
                   spc, spuRet>>

HostSendParam ==
    /\ Step("Param", "ParamAck") /\ i < Len(params)
    /\ InboxWrite(<<LOAD_WORD_PARAM, ParamToSend(i)>>)
    /\ UNCHANGED <<nreq, intr, outbox, params, retType, i, retVal, complete, exited,
                   spc, spuRet>>

HostParamAck ==
    /\ AwaitAck("ParamAck", "Param") /\ i' = i + 1
    /\ UNCHANGED <<nreq, inbox, params, retType, retVal, complete, spc, spuRet, sent,
                   dropped>>

\* All parameters loaded: runMigratedMethod writes the run signal.
HostSendRun ==
    /\ Step("Param", "RunAck") /\ i = Len(params)
    /\ InboxWrite(<<retType>>)
    /\ UNCHANGED <<nreq, intr, outbox, params, retType, i, retVal, complete, exited,
                   spc, spuRet>>

HostRunAck ==
    /\ AwaitAck("RunAck", "Serve")
    /\ UNCHANGED <<nreq, inbox, params, retType, i, retVal, complete, spc, spuRet,
                   sent, dropped>>

\* supportSPU reads the next command signal.
Signal == Head(intr)
Serving == ~exited /\ hpc = "Serve" /\ intr # <<>>

\* handleConsoleWrite, handleConsoleIntWrite, handleConsoleLongWrite,
\* handleConsoleDoubleWrite, handleFakeTrap, handleFakeTrapInt: read the
\* payload, print it, ACK.
HostConsole ==
    /\ Serving /\ Signal \in ConsoleCodes
    /\ intr' = <<>> /\ outbox' = OutboxRest(PayloadLen(Signal))
    /\ InboxWrite(<<ACK>>)
    /\ UNCHANGED <<nreq, hpc, params, retType, i, retVal, complete, exited, spc,
                   spuRet>>

\* FAKE_TRAP_MESSAGE: print a notice, no reply.
HostFakeTrap ==
    /\ Serving /\ Signal = FAKE_TRAP_MESSAGE
    /\ intr' = <<>>
    /\ UNCHANGED <<nreq, inbox, outbox, hpc, params, retType, i, retVal, complete,
                   exited, spc, spuRet, sent, dropped>>

\* RETURN_VALUE_L_UPPER / D_UPPER: first word into retVal[0], go on.
HostReturnUpper ==
    /\ Serving /\ Signal \in UpperReturns
    /\ intr' = <<>> /\ outbox' = OutboxRest(1)
    /\ retVal' = IF OutboxTake(1) = <<>> THEN retVal
                 ELSE [retVal EXCEPT ![0] = Head(outbox)]
    /\ UNCHANGED <<nreq, inbox, hpc, params, retType, i, complete, exited, spc,
                   spuRet, sent, dropped>>

\* Mutant: every final word stored in retVal[0].
RetSlotAlwaysZero(sig) == 0

\* The retVal word a final return message fills: L_LOWER and D_LOWER
\* retVal[1], the others retVal[0].
RetSlot(sig) ==
    IF sig \in {RETURN_VALUE_L_LOWER, RETURN_VALUE_D_LOWER} THEN 1 ELSE 0

\* RETURN_VALUE_V ends the loop, reading no word; the others read one.
HostReturn ==
    /\ Serving /\ Signal \in FinalReturns
    /\ intr' = <<>>
    /\ LET k == RetSlot(Signal)
           n == IF Signal = RETURN_VALUE_V THEN 0 ELSE 1
       IN  /\ outbox' = OutboxRest(n)
           /\ retVal' = IF OutboxTake(n) = <<>> THEN retVal
                        ELSE [retVal EXCEPT ![k] = Head(outbox)]
    /\ hpc' = "Done"
    /\ UNCHANGED <<nreq, inbox, params, retType, i, complete, exited, spc, spuRet,
                   sent, dropped>>

\* TRAP_MESSAGE (handleTrap) or an unknown code: read the error word, exit(1).
HostFatalSignal ==
    /\ Serving /\ (Signal = TRAP_MESSAGE \/ Signal \notin Known)
    /\ intr' = <<>> /\ outbox' = OutboxRest(1) /\ exited' = TRUE
    /\ UNCHANGED <<nreq, inbox, hpc, params, retType, i, retVal, complete, spc,
                   spuRet, sent, dropped>>

\* doMigration: thread->complete = 1.
HostComplete ==
    /\ Step("Done", "Idle")
    /\ complete' = TRUE
    /\ UNCHANGED <<nreq, inbox, intr, outbox, params, retType, i, retVal, exited, spc,
                   spuRet, sent, dropped>>

(***************************************************************************)
(* SPU: the Java runtime's command loop (spec.md 4.5, 6).                  *)
(***************************************************************************)
SpuReply(w) == intr = <<>> /\ intr' = <<w>>

SpuLoadMethod ==
    /\ ~exited /\ spc = "Idle" /\ Len(inbox) >= 3 /\ Head(inbox) = LOAD_STATIC_METHOD
    /\ inbox' = SubSeq(inbox, 4, Len(inbox))
    /\ \/ SpuReply(ACK) /\ spc' = "Loaded" /\ UNCHANGED outbox
       \/ outbox = <<>> /\ outbox' = <<ERR_METHOD_NOT_LOADED>>
          /\ SpuReply(NACK) /\ UNCHANGED spc
    /\ UNCHANGED <<nreq, hpc, params, retType, i, retVal, complete, exited, spuRet,
                   sent, dropped>>

SpuLoadParam ==
    /\ ~exited /\ spc = "Loaded" /\ Len(inbox) >= 2 /\ Head(inbox) = LOAD_WORD_PARAM
    /\ inbox' = SubSeq(inbox, 3, Len(inbox)) /\ SpuReply(ACK)
    /\ UNCHANGED <<nreq, outbox, hpc, params, retType, i, retVal, complete, exited,
                   spc, spuRet, sent, dropped>>

SpuRun ==
    /\ ~exited /\ spc = "Loaded" /\ inbox # <<>> /\ Head(inbox) \in RunCodes
    /\ inbox' = Tail(inbox) /\ SpuReply(ACK) /\ spc' = "Running"
    /\ UNCHANGED <<nreq, outbox, hpc, params, retType, i, retVal, complete, exited,
                   spuRet, sent, dropped>>

\* A console or fake-trap request with a one-word payload, then wait for
\* the ACK.  (Long and double writes need more words than the outbound
\* mailbox holds; the runtime's way of sending them is not known.)
SpuConsole ==
    /\ ~exited /\ spc = "Running" /\ outbox = <<>> /\ nreq < MaxRequests
    /\ nreq' = nreq + 1
    /\ \E cmd \in ConsoleCodes :
          /\ PayloadLen(cmd) = 1
          /\ outbox' = <<ConsoleWord>> /\ SpuReply(cmd)
    /\ spc' = "AwaitAck"
    /\ UNCHANGED <<inbox, hpc, params, retType, i, retVal, complete, exited,
                   spuRet, sent, dropped>>

SpuFakeTrap ==
    /\ ~exited /\ spc = "Running" /\ SpuReply(FAKE_TRAP_MESSAGE)
    /\ UNCHANGED <<nreq, inbox, outbox, hpc, params, retType, i, retVal, complete,
                   exited, spc, spuRet, sent, dropped>>

SpuGetAck ==
    /\ ~exited /\ spc = "AwaitAck" /\ inbox # <<>> /\ Head(inbox) = ACK
    /\ inbox' = Tail(inbox) /\ spc' = "Running"
    /\ UNCHANGED <<nreq, intr, outbox, hpc, params, retType, i, retVal, complete,
                   exited, spuRet, sent, dropped>>

\* The method returns: the code matching the request's return type.
SpuReturn ==
    /\ ~exited /\ spc = "Running" /\ outbox = <<>>
    /\ CASE retType = RUN_METHOD_RETURNING_VOID ->
              SpuReply(RETURN_VALUE_V) /\ spc' = "Idle" /\ UNCHANGED <<outbox, spuRet>>
         [] retType \in {RUN_METHOD_RETURNING_LONG, RUN_METHOD_RETURNING_DOUBLE} ->
              \E r \in RetWords :
                 /\ outbox' = <<r>> /\ spuRet' = <<r>> /\ spc' = "Upper"
                 /\ SpuReply(IF retType = RUN_METHOD_RETURNING_LONG
                             THEN RETURN_VALUE_L_UPPER ELSE RETURN_VALUE_D_UPPER)
         [] OTHER ->
              \E r \in RetWords :
                 /\ outbox' = <<r>> /\ spuRet' = <<r>> /\ spc' = "Idle"
                 /\ SpuReply(CASE retType = RUN_METHOD_RETURNING_INT -> RETURN_VALUE_I
                               [] retType = RUN_METHOD_RETURNING_FLOAT -> RETURN_VALUE_F
                               [] OTHER -> RETURN_VALUE_R)
    /\ UNCHANGED <<nreq, inbox, hpc, params, retType, i, retVal, complete, exited,
                   sent, dropped>>

SpuReturnLower ==
    /\ ~exited /\ spc = "Upper" /\ outbox = <<>>
    /\ \E r \in RetWords : outbox' = <<r>> /\ spuRet' = Append(spuRet, r)
    /\ SpuReply(IF retType = RUN_METHOD_RETURNING_LONG
                THEN RETURN_VALUE_L_LOWER ELSE RETURN_VALUE_D_LOWER)
    /\ spc' = "Idle"
    /\ UNCHANGED <<nreq, inbox, hpc, params, retType, i, retVal, complete, exited,
                   sent, dropped>>

\* A hardware trap, or a code the host does not know (scenario F).
SpuFault ==
    /\ ~exited /\ spc = "Running" /\ outbox = <<>>
    /\ \E s \in {TRAP_MESSAGE, BadSignal} : SpuReply(s)
    /\ outbox' = <<ErrWord>>
    /\ UNCHANGED <<nreq, inbox, hpc, params, retType, i, retVal, complete, exited,
                   spc, spuRet, sent, dropped>>

\* After exit(1) nothing runs any more.
Exited == exited /\ UNCHANGED vars

Next ==
    \/ HostStart \/ HostSendMethod \/ HostMethodAck \/ HostSendParam
    \/ HostParamAck \/ HostSendRun \/ HostRunAck \/ HostConsole
    \/ HostFakeTrap \/ HostReturnUpper \/ HostReturn \/ HostFatalSignal
    \/ HostComplete
    \/ SpuLoadMethod \/ SpuLoadParam \/ SpuRun \/ SpuConsole \/ SpuFakeTrap
    \/ SpuGetAck \/ SpuReturn \/ SpuReturnLower \/ SpuFault
    \/ Exited

Spec == Init /\ [][Next]_vars

\* The support thread is a runnable thread: once a request is under way it
\* keeps taking its steps.  The SPU runtime's command loop answers each
\* command and sends a long's lower word after the upper one; whether the
\* migrated method calls out or returns at all is up to the method.
HostStep ==
    \/ HostSendMethod \/ HostMethodAck \/ HostSendParam \/ HostParamAck
    \/ HostSendRun \/ HostRunAck \/ HostConsole \/ HostFakeTrap
    \/ HostReturnUpper \/ HostReturn \/ HostFatalSignal \/ HostComplete

SpuCommandLoop ==
    SpuLoadMethod \/ SpuLoadParam \/ SpuRun \/ SpuGetAck \/ SpuReturnLower

FairSpec == Spec /\ WF_vars(HostStep) /\ WF_vars(SpuCommandLoop)

-----------------------------------------------------------------------------
(***************************************************************************)
(* Properties.                                                             *)
(***************************************************************************)

\* The words a migration must write to the inbox (spec.md 8, item 4): the
\* method triple, LOAD_WORD_PARAM pairs with the parameters last first,
\* the run signal.
Expected ==
    <<LOAD_STATIC_METHOD, 1, 2>>
    \o FlattenSeq([k \in 1 .. Len(params) |->
                     <<LOAD_WORD_PARAM, params[Len(params) + 1 - k]>>])
    \o <<retType>>

\* What the host has written to the SPU's inbox in this migration is a
\* prefix of Expected, followed by nothing but ACKs to console requests.
HostTrace ==
    IF Len(sent) <= Len(Expected)
    THEN IsPrefix(sent, Expected)
    ELSE /\ IsPrefix(Expected, sent)
         /\ \A k \in Len(Expected) + 1 .. Len(sent) : sent[k] = ACK

\* When doMigration marks the slot complete, retVal holds the words the SPU
\* returned in this migration: one word for int, float and reference
\* results, the upper then the lower word for long and double ones.
ReturnValueCaptured ==
    hpc = "Done" =>
        CASE retType = RUN_METHOD_RETURNING_VOID -> TRUE
          [] retType \in {RUN_METHOD_RETURNING_LONG, RUN_METHOD_RETURNING_DOUBLE} ->
                Len(spuRet) = 2 /\ retVal[0] = spuRet[1] /\ retVal[1] = spuRet[2]
          [] OTHER -> Len(spuRet) = 1 /\ retVal[0] = spuRet[1]

\* No word the host writes with SPE_MBOX_ANY_NONBLOCKING is lost to a full
\* inbound mailbox: the ACK handshakes keep it from filling.
NoWordDropped == ~dropped

-----------------------------------------------------------------------------
(***************************************************************************)
(* Refinement: the protocol implements MigrationCall.  The call is made    *)
(* when the support thread takes the request, computed when the SPU        *)
(* runtime has sent its last return message, and completes when           *)
(* doMigration sets complete; until then the caller's result is what the   *)
(* SPU sent, afterwards the words retVal holds.                            *)
(***************************************************************************)
\* The words of retVal a caller reads for return type t
\* (subArchGet*Return).
ReturnWords(t) ==
    IF t = RUN_METHOD_RETURNING_VOID THEN <<>>
    ELSE IF t \in {RUN_METHOD_RETURNING_LONG, RUN_METHOD_RETURNING_DOUBLE}
    THEN <<retVal[0], retVal[1]>>
    ELSE <<retVal[0]>>

AbsSt ==
    CASE exited -> "Failed"
      [] hpc = "Idle" -> "Idle"
      [] hpc \in {"Serve", "Done"} /\ spc = "Idle" -> "Computed"
      [] OTHER -> "Called"

AbsResult ==
    CASE AbsSt = "Idle" -> ReturnWords(retType)
      [] AbsSt = "Computed" -> spuRet
      [] OTHER -> <<>>

Abstract == INSTANCE MigrationCall
    WITH st <- AbsSt, args <- params, rtype <- retType, result <- AbsResult,
         done <- complete,
         ArgWords <- {ParamWord(k) : k \in 1 .. MaxParams},
         RetTypes <- RunCodes, VoidType <- RUN_METHOD_RETURNING_VOID,
         WideTypes <- {RUN_METHOD_RETURNING_LONG, RUN_METHOD_RETURNING_DOUBLE}

\* Every behaviour of the support thread and the SPU runtime is a behaviour
\* of MigrationCall: a call completes only after the method returned, with
\* exactly its words in retVal and complete set, complete is clear while a
\* call is under way, and a returned method's call always completes.
MigrationCallSpec == Abstract!Spec
=============================================================================
