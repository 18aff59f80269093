---------------------------- MODULE MigrationCall ----------------------------
(***************************************************************************)
(* What a migration promises its caller, with the mailbox protocol         *)
(* abstracted away: a call with arguments and a return type is made, the   *)
(* method computes a result of that type, and the call completes with the  *)
(* result, or the process exits.  MigrationProtocol implements it          *)
(* (MigrationProtocol!MigrationCallSpec).                                  *)
(***************************************************************************)
EXTENDS Integers, Sequences

CONSTANTS
    MaxParams,  \* bound on the number of arguments
    ArgWords,   \* the values an argument can take
    RetTypes,   \* the return types, as RUN_METHOD_RETURNING_* codes
    VoidType,   \* the code of a method returning void
    WideTypes,  \* the codes of methods returning two words (long, double)
    RetWords    \* the values a returned word can take

VARIABLES
    st,      \* "Idle", "Called", "Computed" or "Failed"
    args,    \* the call's arguments
    rtype,   \* the call's return type
    result,  \* the words the method returned
    done     \* the caller may read the result

avars == <<st, args, rtype, result, done>>

\* The results a method of return type t can produce.
Results(t) ==
    IF t = VoidType THEN {<<>>}
    ELSE IF t \in WideTypes THEN {<<a, b>> : a, b \in RetWords}
    ELSE {<<a>> : a \in RetWords}

Init ==
    /\ st = "Idle" /\ args = <<>> /\ rtype = VoidType /\ result = <<>>
    /\ done = FALSE

Call ==
    /\ st = "Idle" /\ st' = "Called"
    /\ \E n \in 0 .. MaxParams, t \in RetTypes :
          /\ args' \in [1 .. n -> ArgWords]
          /\ rtype' = t
    /\ result' = <<>> /\ done' = FALSE

Compute ==
    /\ st = "Called" /\ st' = "Computed"
    /\ result' \in Results(rtype)
    /\ UNCHANGED <<args, rtype, done>>

Complete ==
    /\ st = "Computed" /\ st' = "Idle" /\ done' = TRUE
    /\ UNCHANGED <<args, rtype, result>>

Fail ==
    /\ st = "Called" /\ st' = "Failed"
    /\ UNCHANGED <<args, rtype, result, done>>

Next == Call \/ Compute \/ Complete \/ Fail

\* A computed result is delivered; nothing obliges a method to return or a
\* caller to call.
Spec == Init /\ [][Next]_avars /\ WF_avars(Complete)
=============================================================================
