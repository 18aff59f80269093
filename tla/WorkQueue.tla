------------------------------ MODULE WorkQueue ------------------------------
(***************************************************************************)
(* The migration slot table, the "work to do" list and the support-thread  *)
(* scheduler (spuCtrl.C: initJavaThreads, chooseThreadID, releaseThread,   *)
(* migrateToSubArch, spu_support_thread, doMigration, updateStatus,        *)
(* checkIdComplete and the subArchGet*Return syscalls).                    *)
(*                                                                         *)
(* Callers are VM threads: each submits a migration, polls its status and  *)
(* harvests the return value (a void call has none to harvest).  A slot's  *)
(* request fields (method offsets, parameters) are abstracted to the       *)
(* caller that wrote them, its retType to the caller's; a return value to  *)
(* the request whose run produced it.  Sections under spu_data->lock are   *)
(* single actions; unlocked accesses to a slot are actions of their own.   *)
(* The migration itself (prepare, run, service loop) is                    *)
(* MigrationProtocol's; here it is reading the slot's fields,              *)
(* then writing its return value.                                          *)
(***************************************************************************)
EXTENDS Integers

CONSTANTS
    Workers,     \* SPU indices 0 .. no_spu_threads - 1
    Slots,       \* slot indices 0 .. MAX_JAVA_SPU_THREADS - 1
    Callers,     \* VM threads calling migrateToSubArch
    Affinities,  \* procAffinity values callers pass: -1 (any) or an SPU index
    RetTypes,    \* retType values callers pass: "V" (void) or a value type
    NULL

ASSUME /\ Workers \subseteq Slots /\ Slots \subseteq Nat
       /\ Affinities \subseteq ({-1} \cup Workers)
       /\ RetTypes \subseteq {"V", "I", "L", "F", "D", "R"}

VARIABLES
    inUse, complete,  \* threads[s].in_use / .complete
    affinity,         \* threads[s].procAffinity
    req,              \* threads[s]'s request fields, by the caller that wrote them
    retVal,           \* threads[s].retVal, by the request that produced it
    next, workToDo,   \* the intrusive LIFO list
    wpc,              \* support thread of each SPU
    item,             \* its local `thread'
    running,          \* the request fields its doMigration read
    cpc,              \* each caller
    cslot,            \* the slot id migrateToSubArch returned to it
    cret,             \* the retType it passed
    exited            \* the process called exit(1)

vars == <<inUse, complete, affinity, req, retVal, next, workToDo, wpc, item,
          running, cpc, cslot, cret, exited>>

WPcs == {"Loop", "Waiting", "Got", "Run", "Complete", "Release"}
CPcs == {"Idle", "Polling", "Harvest"}

TypeOK ==
    /\ inUse \in [Slots -> BOOLEAN] /\ complete \in [Slots -> BOOLEAN]
    /\ affinity \in [Slots -> {-1} \cup Workers]
    /\ req \in [Slots -> Callers \cup {NULL}]
    /\ retVal \in [Slots -> Callers \cup {NULL}]
    /\ next \in [Slots -> Slots \cup {NULL}] /\ workToDo \in Slots \cup {NULL}
    /\ wpc \in [Workers -> WPcs] /\ item \in [Workers -> Slots \cup {NULL}]
    /\ running \in [Workers -> Callers \cup {NULL}]
    /\ cpc \in [Callers -> CPcs] /\ cslot \in [Callers -> Slots \cup {NULL}]
    /\ cret \in [Callers -> RetTypes \cup {NULL}]
    /\ exited \in BOOLEAN

\* initJavaThreads; every support thread about to take the lock.  Fields
\* initJavaThreads leaves unset are given an arbitrary value never read.
Init ==
    /\ inUse = [s \in Slots |-> FALSE] /\ complete = [s \in Slots |-> FALSE]
    /\ affinity = [s \in Slots |-> -1]
    /\ req = [s \in Slots |-> NULL] /\ retVal = [s \in Slots |-> NULL]
    /\ next = [s \in Slots |-> NULL] /\ workToDo = NULL
    /\ wpc = [w \in Workers |-> "Loop"] /\ item = [w \in Workers |-> NULL]
    /\ running = [w \in Workers |-> NULL]
    /\ cpc = [c \in Callers |-> "Idle"] /\ cslot = [c \in Callers |-> NULL]
    /\ cret = [c \in Callers |-> NULL]
    /\ exited = FALSE

\* pthread_cond_broadcast(&condVar): every waiting support thread wakes.
Broadcast == [w \in Workers |-> IF wpc[w] = "Waiting" THEN "Loop" ELSE wpc[w]]

\* chooseThreadID's scan: the first slot not in use.
FirstFree == CHOOSE s \in Slots : ~inUse[s] /\ \A t \in Slots : t < s => inUse[t]

(***************************************************************************)
(* Callers.                                                                *)
(***************************************************************************)
\* Mutant: the work pushed without the broadcast.
SubmitNoBroadcast(c, a, t) ==
    /\ ~exited /\ cpc[c] = "Idle"
    /\ \E s \in Slots : ~inUse[s]
    /\ LET s == FirstFree IN
         /\ inUse' = [inUse EXCEPT ![s] = TRUE]
         /\ complete' = [complete EXCEPT ![s] = FALSE]
         /\ req' = [req EXCEPT ![s] = c]
         /\ affinity' = [affinity EXCEPT ![s] = a]
         /\ next' = [next EXCEPT ![s] = workToDo]
         /\ workToDo' = s
         /\ cslot' = [cslot EXCEPT ![c] = s]
    /\ cret' = [cret EXCEPT ![c] = t]
    /\ cpc' = [cpc EXCEPT ![c] = "Polling"]
    /\ UNCHANGED <<wpc, retVal, item, running, exited>>

\* migrateToSubArch: under the lock, claim the first free slot, fill it,
\* push it on workToDo and broadcast.
Submit(c, a, t) ==
    /\ ~exited /\ cpc[c] = "Idle"
    /\ \E s \in Slots : ~inUse[s]
    /\ LET s == FirstFree IN
         /\ inUse' = [inUse EXCEPT ![s] = TRUE]
         /\ complete' = [complete EXCEPT ![s] = FALSE]
         /\ req' = [req EXCEPT ![s] = c]
         /\ affinity' = [affinity EXCEPT ![s] = a]
         /\ next' = [next EXCEPT ![s] = workToDo]
         /\ workToDo' = s
         /\ cslot' = [cslot EXCEPT ![c] = s]
    /\ cret' = [cret EXCEPT ![c] = t]
    /\ wpc' = Broadcast
    /\ cpc' = [cpc EXCEPT ![c] = "Polling"]
    /\ UNCHANGED <<retVal, item, running, exited>>

\* chooseThreadID: "No free SPU Threads", exit(1).
SubmitNoFreeSlot(c) ==
    /\ ~exited /\ cpc[c] = "Idle"
    /\ \A s \in Slots : inUse[s]
    /\ exited' = TRUE
    /\ UNCHANGED <<inUse, complete, affinity, req, retVal, next, workToDo, wpc,
                   item, running, cpc, cslot, cret>>

\* subArchCheckStatus / updateStatus finds the slot complete.  (A poll that
\* finds it incomplete changes nothing.)  A value is then harvested.
Poll(c) ==
    /\ ~exited /\ cpc[c] = "Polling" /\ cret[c] # "V"
    /\ complete[cslot[c]]
    /\ cpc' = [cpc EXCEPT ![c] = "Harvest"]
    /\ UNCHANGED <<inUse, complete, affinity, req, retVal, next, workToDo, wpc,
                   item, running, cslot, cret, exited>>

\* The same poll for a void call: there is no subArchGet*Return for void,
\* so nothing the caller can call clears in_use; the call is over.
PollVoid(c) ==
    /\ ~exited /\ cpc[c] = "Polling" /\ cret[c] = "V"
    /\ complete[cslot[c]]
    /\ cpc' = [cpc EXCEPT ![c] = "Idle"]
    /\ cslot' = [cslot EXCEPT ![c] = NULL]
    /\ cret' = [cret EXCEPT ![c] = NULL]
    /\ UNCHANGED <<inUse, complete, affinity, req, retVal, next, workToDo, wpc,
                   item, running, exited>>

\* subArchGet*Return: checkIdComplete passes, read retVal, clear in_use.
Harvest(c) ==
    /\ ~exited /\ cpc[c] = "Harvest"
    /\ complete[cslot[c]]
    /\ inUse' = [inUse EXCEPT ![cslot[c]] = FALSE]
    /\ cpc' = [cpc EXCEPT ![c] = "Idle"]
    /\ cslot' = [cslot EXCEPT ![c] = NULL]
    /\ cret' = [cret EXCEPT ![c] = NULL]
    /\ UNCHANGED <<complete, affinity, req, retVal, next, workToDo, wpc, item,
                   running, exited>>

\* checkIdComplete: "tried to get migrated methods return value before it
\* completed", exit(1).
HarvestNotComplete(c) ==
    /\ ~exited /\ cpc[c] = "Harvest"
    /\ ~complete[cslot[c]]
    /\ exited' = TRUE
    /\ UNCHANGED <<inUse, complete, affinity, req, retVal, next, workToDo, wpc,
                   item, running, cpc, cslot, cret>>

(***************************************************************************)
(* Support thread of SPU w (spu_support_thread and doMigration).           *)
(***************************************************************************)
\* Under the lock: work is queued, pop the head.
TakeWork(w) ==
    /\ ~exited /\ wpc[w] = "Loop" /\ workToDo # NULL
    /\ item' = [item EXCEPT ![w] = workToDo]
    /\ workToDo' = next[workToDo]
    /\ wpc' = [wpc EXCEPT ![w] = "Got"]
    /\ UNCHANGED <<inUse, complete, affinity, req, retVal, next, running, cpc,
                   cslot, cret, exited>>

\* Under the lock: nothing queued, wait on condVar (releasing the lock).
WaitWork(w) ==
    /\ ~exited /\ wpc[w] = "Loop" /\ workToDo = NULL
    /\ wpc' = [wpc EXCEPT ![w] = "Waiting"]
    /\ UNCHANGED <<inUse, complete, affinity, req, retVal, next, workToDo, item,
                   running, cpc, cslot, cret, exited>>

\* Mutant: (char)-1 promoted to 255, as where char is unsigned and
\* procAffinity an int.
AffinityMatchesUnsignedChar(a, w) == a \in {255, w}

\* thread->procAffinity == (char)-1 || thread->procAffinity == spuId
AffinityMatches(a, w) == a \in {-1, w}

\* Affinity -1 or w: doMigration starts and prepareMigration reads the
\* slot's request fields.
StartMigration(w) ==
    /\ ~exited /\ wpc[w] = "Got"
    /\ AffinityMatches(affinity[item[w]], w)
    /\ running' = [running EXCEPT ![w] = req[item[w]]]
    /\ wpc' = [wpc EXCEPT ![w] = "Run"]
    /\ UNCHANGED <<inUse, complete, affinity, req, retVal, next, workToDo, item,
                   cpc, cslot, cret, exited>>

\* Another SPU's item: under the lock push it back and broadcast.
Requeue(w) ==
    /\ ~exited /\ wpc[w] = "Got"
    /\ ~AffinityMatches(affinity[item[w]], w)
    /\ next' = [next EXCEPT ![item[w]] = workToDo]
    /\ workToDo' = item[w]
    /\ wpc' = [Broadcast EXCEPT ![w] = "Loop"]
    /\ item' = [item EXCEPT ![w] = NULL]
    /\ UNCHANGED <<inUse, complete, affinity, req, retVal, running, cpc, cslot, cret,
                   exited>>

\* supportSPU stores the SPU's return value in thread->retVal.
ReturnValue(w) ==
    /\ ~exited /\ wpc[w] = "Run"
    /\ retVal' = [retVal EXCEPT ![item[w]] = running[w]]
    /\ wpc' = [wpc EXCEPT ![w] = "Complete"]
    /\ UNCHANGED <<inUse, complete, affinity, req, next, workToDo, item, running,
                   cpc, cslot, cret, exited>>

\* doMigration: thread->complete = 1.
MarkComplete(w) ==
    /\ ~exited /\ wpc[w] = "Complete"
    /\ complete' = [complete EXCEPT ![item[w]] = TRUE]
    /\ wpc' = [wpc EXCEPT ![w] = "Release"]
    /\ UNCHANGED <<inUse, affinity, req, retVal, next, workToDo, item, running,
                   cpc, cslot, cret, exited>>

\* releaseThread(spu_data, thread_id): threads[thread_id].in_use = 0.
releaseThread(t) == [inUse EXCEPT ![t] = FALSE]

\* doMigration: releaseThread(spu_data, spuId) clears threads[spuId].in_use:
\* the slot whose index is the SPU's, not the slot just run.
ReleaseThread(w) ==
    /\ ~exited /\ wpc[w] = "Release"
    /\ inUse' = releaseThread(w)
    /\ wpc' = [wpc EXCEPT ![w] = "Loop"]
    /\ item' = [item EXCEPT ![w] = NULL]
    /\ running' = [running EXCEPT ![w] = NULL]
    /\ UNCHANGED <<complete, affinity, req, retVal, next, workToDo, cpc, cslot, cret,
                   exited>>

\* After exit(1) nothing runs any more.
Exited == exited /\ UNCHANGED vars

Next ==
    \/ \E c \in Callers :
          \/ \E a \in Affinities, t \in RetTypes : Submit(c, a, t)
          \/ SubmitNoFreeSlot(c) \/ Poll(c) \/ PollVoid(c) \/ Harvest(c)
          \/ HarvestNotComplete(c)
    \/ \E w \in Workers :
          \/ TakeWork(w) \/ WaitWork(w) \/ StartMigration(w) \/ Requeue(w)
          \/ ReturnValue(w) \/ MarkComplete(w) \/ ReleaseThread(w)
    \/ Exited

Spec == Init /\ [][Next]_vars

\* Each support thread is a runnable OS thread and keeps taking its steps.
\* spu_data->lock is a plain pthread mutex: nothing makes it fair, so no
\* thread is promised the lock (and the item at the list's head) over the
\* others.  Callers call when they like.
WorkerStep(w) ==
    \/ TakeWork(w) \/ WaitWork(w) \/ StartMigration(w) \/ Requeue(w)
    \/ ReturnValue(w) \/ MarkComplete(w) \/ ReleaseThread(w)

FairSpec == Spec /\ \A w \in Workers : WF_vars(WorkerStep(w))

-----------------------------------------------------------------------------
(***************************************************************************)
(* Properties.                                                             *)
(***************************************************************************)

\* While work is queued some support thread is not blocked on condVar:
\* every path that pushes onto workToDo (submission and the affinity
\* re-queue) wakes the waiters, and a thread waits only on an empty list.
NoLostWakeup ==
    ~exited /\ workToDo # NULL => \E w \in Workers : wpc[w] # "Waiting"

\* At most one outstanding migration per slot (spec.md 3, MigrationSlot):
\* two callers between migrateToSubArch and the harvest of their return
\* value never hold the same slot id.
NoDoubleClaim ==
    \A c1, c2 \in Callers :
        c1 # c2 /\ cslot[c1] # NULL /\ cslot[c2] # NULL => cslot[c1] # cslot[c2]

\* Queued work is run: while the "work to do" list is not empty, some
\* support thread eventually starts a migration (or the process exits).
\* It takes the broadcast of migrateToSubArch and of the re-queue to wake
\* the waiting threads, the pop under the lock, and the affinity test
\* letting a thread run what it popped.  (Which caller's work is run is
\* not promised: the list is LIFO, and newer submissions may keep an older
\* one at its tail.)
QueuedWorkIsRun ==
    workToDo # NULL ~> (exited \/ \E w \in Workers : wpc[w] = "Run")
=============================================================================
