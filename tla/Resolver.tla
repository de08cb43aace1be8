-------------------------------- MODULE Resolver --------------------------------
(***************************************************************************)
(* The name resolver of SocketPluginImpl.c.  The VM thread starts a lookup *)
(* and goes on; a thread of its own finds the answer, stores it under      *)
(* resolverMutex and signals the image.  Lookups are superseded, aborted   *)
(* and shut down while threads run, the process forks, and the module is   *)
(* unloaded.  After a fork the behaviour goes on as the parent or as the   *)
(* child: the two share nothing any more.                                  *)
(***************************************************************************)
EXTENDS Naturals, FiniteSets

CONSTANTS MaxLookupWorkers,   \* entries of lookupWorkers
          Semas,              \* semaphore indices the image registers
          MaxGeneration       \* bound: nothing new is begun past this generation

ASSUME ResolverAssumption ==
    /\ MaxLookupWorkers \in Nat /\ MaxGeneration \in Nat
    /\ Semas \subseteq Nat \ {0}

VARIABLES
    loaded,             \* is the module's code mapped?
    vm,                 \* the VM thread: "image", or how far it is with a fork
    lookup,             \* the shared variables of the resolver
    guard,              \* the fork guard
    job,                \* the lookup each thread runs; 0 is the VM thread, inline
    used,               \* lookupWorkers[].used
    signal              \* the last signal: who was signalled, and for which lookup

resolverVars == <<loaded, vm, lookup, guard, job, used, signal>>

Slots == 1..MaxLookupWorkers
Errors == {"none", "failed", "again"}          \* "again" is EAI_AGAIN
NoJob == [pc |-> "none", generation |-> 0, error |-> "none", sema |-> 0]

\* "returned" is a thread that has set done.
Pcs == {"none", "created", "looking", "found", "locked", "stored", "answered",
        "told", "unlocked", "uncounted", "returned"}

ResolverInit ==
    /\ loaded = TRUE /\ vm = "image"
    /\ lookup = [session |-> FALSE, sema |-> 0, busy |-> FALSE, error |-> "none",
                 generation |-> 0, wanted |-> 0, answer |-> 0,
                 mutex |-> FALSE, pid |-> "none"]
    /\ guard = [installed |-> "not yet", mutex |-> FALSE, running |-> 0]
    /\ job = [x \in Slots \cup {0} |-> NoJob]
    /\ used = {}
    /\ signal = [sema |-> 0, generation |-> 0]

----------------------------------------------------------------------------
(* Pieces the primitives share.  lookup.wanted names the last lookup begun,  *)
(* if it was not abandoned, and lookup.answer the one whose result lastName  *)
(* and lastAddr hold.                                                        *)

\* A mutant: the generation stays.
AbandonKeepsGeneration(l) ==
    IF l.busy THEN [l EXCEPT !.busy = FALSE, !.error = "again", !.wanted = 0, !.answer = 0]
              ELSE l

AbandonLookup(l) ==
    LET next == [l EXCEPT !.generation = @ + 1]
    IN  IF l.busy THEN [next EXCEPT !.busy = FALSE, !.error = "again",
                                    !.wanted = 0, !.answer = 0]
                  ELSE next

BeginLookup(l) ==
    [l EXCEPT !.error = "none", !.busy = TRUE,
              !.generation = @ + 1, !.wanted = l.generation + 1]

\* A mutant: the child keeps the lookup that only a thread of its parent runs.
ForkCheckKeepsLookup(l) == [l EXCEPT !.mutex = FALSE, !.pid = "own"]

\* resolverForkCheck: the variables as the primitive that calls it finds them.
ForkCheck(l) ==
    IF l.pid = "parent" THEN [AbandonLookup(l) EXCEPT !.mutex = FALSE, !.pid = "own"]
                        ELSE [l EXCEPT !.pid = "own"]
UsedHere == IF lookup.pid = "parent" THEN {} ELSE used

\* The VM thread runs a primitive: it is not in a fork, nor in a lookup inline.
InImage == loaded /\ vm = "image" /\ job[0].pc = "none"
Here == ForkCheck(lookup)
CanLock == ~Here.mutex

\* reapLookupWorkers joins the threads that have finished.
Finished == {x \in UsedHere : job[x].pc = "returned"}
Joined == [x \in DOMAIN job |-> IF x \in Finished THEN NoJob ELSE job[x]]

\* A mutant: the counter of the fork guard instead of the joined threads.
CountedQuiescent == guard.running = 0

\* lookupWorkersQuiescent, which has reaped
Quiescent == UsedHere \ Finished = {}

----------------------------------------------------------------------------
(* Primitives of the image.                                                 *)

\* sqNetworkInit
SqNetworkInit(s) ==
    /\ InImage /\ ~lookup.session /\ CanLock
    /\ lookup' = [Here EXCEPT !.session = TRUE, !.sema = s]
    /\ used' = UsedHere
    /\ UNCHANGED <<loaded, vm, guard, job, signal>>

ShutDown(l) == [AbandonLookup(l) EXCEPT !.session = FALSE, !.sema = 0]

\* sqNetworkShutdown
SqNetworkShutdown ==
    /\ InImage /\ lookup.session /\ CanLock /\ lookup.generation < MaxGeneration
    /\ lookup' = ShutDown(Here)
    /\ used' = UsedHere
    /\ UNCHANGED <<loaded, vm, guard, job, signal>>

\* sqResolverAbort
ResolverAbort ==
    /\ InImage /\ CanLock /\ lookup.generation < MaxGeneration
    /\ lookup' = AbandonLookup(Here)
    /\ used' = UsedHere
    /\ UNCHANGED <<loaded, vm, guard, job, signal>>

\* sqResolverStatus, and the accessors through lookupInFlight
ResolverStatus ==
    /\ InImage
    /\ lookup' = Here
    /\ used' = UsedHere
    /\ UNCHANGED <<loaded, vm, guard, job, signal>>

RunOn(x, pc) == job' = [Joined EXCEPT ![x] = [NoJob EXCEPT !.pc = pc,
                                               !.generation = lookup'.generation]]

\* sqResolverStartNameLookup and sqResolverStartAddrLookup; startLookup runs it on
\* a thread, or inline when all entries are used, when there is no fork guard, or
\* when malloc or pthread_create fails.
StartLookup ==
    /\ InImage /\ CanLock /\ lookup.generation < MaxGeneration
    /\ lookup' = BeginLookup(Here)
    /\ \E i \in (IF guard.installed = "not yet" THEN {"yes", "no"} ELSE {guard.installed}) :
         guard' = [guard EXCEPT !.installed = i]
    /\ LET busy == UsedHere \ Finished IN
         \/ /\ guard'.installed = "yes"
            /\ \E x \in Slots \ busy :
                 /\ \A y \in Slots \ busy : x <= y
                 /\ RunOn(x, "created")
                 /\ used' = busy \cup {x}
         \/ /\ RunOn(0, "looking")
            /\ used' = busy
    /\ UNCHANGED <<loaded, vm, signal>>

\* socketShutdown, called to unload the module; glibc drops the fork handlers of
\* a module it unmaps
SocketShutdown ==
    /\ InImage /\ lookup.generation < MaxGeneration
    /\ job' = Joined
    /\ used' = UsedHere \ Finished
    /\ IF Quiescent THEN /\ loaded' = FALSE
                         /\ lookup' = ShutDown(Here)
                    ELSE /\ lookup' = Here
                         /\ UNCHANGED loaded
    /\ UNCHANGED <<vm, guard, signal>>

----------------------------------------------------------------------------
(* A lookup, by thread x or inline (x = 0).                                 *)

At(x, pc) == loaded /\ job[x].pc = pc
Go(x, pc) == job' = [job EXCEPT ![x].pc = pc]

\* lookupWorker: ++lookupsRunning
Count(x) ==
    /\ At(x, "created") /\ ~guard.mutex
    /\ guard' = [guard EXCEPT !.running = @ + 1]
    /\ Go(x, "looking")
    /\ UNCHANGED <<loaded, vm, lookup, used, signal>>

\* runLookup: getaddrinfo or getnameinfo, which answers at last
RunLookup(x) ==
    /\ At(x, "looking")
    /\ \E e \in {"none", "failed"} :
         job' = [job EXCEPT ![x].pc = "found", ![x].error = e]
    /\ UNCHANGED <<loaded, vm, lookup, guard, used, signal>>

\* finishLookup: an answer that nobody waits for any more is dropped.
LockAnswer(x) ==
    /\ At(x, "found") /\ ~lookup.mutex
    /\ lookup' = [lookup EXCEPT !.mutex = TRUE]
    /\ Go(x, IF job[x].generation = lookup.generation THEN "locked" ELSE "told")
    /\ UNCHANGED <<loaded, vm, guard, used, signal>>

StoreAnswer(x) ==
    /\ At(x, "locked")
    /\ lookup' = [lookup EXCEPT !.answer = job[x].generation, !.error = job[x].error]
    /\ Go(x, "stored")
    /\ UNCHANGED <<loaded, vm, guard, used, signal>>

\* A mutant: the mutex is given back before the signal.
UnlockedBeforeSignal(x) ==
    /\ At(x, "stored")
    /\ lookup' = [lookup EXCEPT !.busy = FALSE, !.mutex = FALSE]
    /\ job' = [job EXCEPT ![x].pc = "answered", ![x].sema = lookup.sema]
    /\ UNCHANGED <<loaded, vm, guard, used, signal>>

\* storeInt(lookupBusy, 0), and resolverSema read for the call
ClearBusy(x) ==
    /\ At(x, "stored")
    /\ lookup' = [lookup EXCEPT !.busy = FALSE]
    /\ job' = [job EXCEPT ![x].pc = "answered", ![x].sema = lookup.sema]
    /\ UNCHANGED <<loaded, vm, guard, used, signal>>

\* signalSemaphoreWithIndex
Tell(x) ==
    /\ At(x, "answered")
    /\ signal' = [sema |-> job[x].sema, generation |-> job[x].generation]
    /\ Go(x, "told")
    /\ UNCHANGED <<loaded, vm, lookup, guard, used>>

\* resolverUnlock; an inline lookup is over
UnlockAnswer(x) ==
    /\ At(x, "told")
    /\ lookup' = [lookup EXCEPT !.mutex = FALSE]
    /\ job' = [job EXCEPT ![x] = IF x = 0 THEN NoJob ELSE [@ EXCEPT !.pc = "unlocked"]]
    /\ UNCHANGED <<loaded, vm, guard, used, signal>>

\* --lookupsRunning, and a broadcast to a fork that waits
Uncount(x) ==
    /\ At(x, "unlocked") /\ ~guard.mutex
    /\ guard' = [guard EXCEPT !.running = @ - 1]
    /\ Go(x, "uncounted")
    /\ UNCHANGED <<loaded, vm, lookup, used, signal>>

\* free(job) and done
Return(x) ==
    /\ At(x, "uncounted")
    /\ Go(x, "returned")
    /\ UNCHANGED <<loaded, vm, lookup, guard, used, signal>>

----------------------------------------------------------------------------
(* fork(), called by the VM thread.                                         *)

Fork ==
    /\ InImage /\ lookup.generation < MaxGeneration
    /\ vm' = "preparing"
    /\ UNCHANGED <<loaded, lookup, guard, job, used, signal>>

\* forkGuardPrepare has waited.  It is installed once a thread was wanted.
ForkGuardPrepare ==
    /\ vm = "preparing"
    /\ guard.installed = "yes" => guard.running = 0
    /\ guard' = [guard EXCEPT !.mutex = (guard.installed = "yes")]
    /\ vm' = "forking"
    /\ UNCHANGED <<loaded, lookup, job, used, signal>>

ForkGuardParent ==
    /\ vm = "forking"
    /\ guard' = [guard EXCEPT !.mutex = FALSE]
    /\ vm' = "image"
    /\ UNCHANGED <<loaded, lookup, job, used, signal>>

\* The child has a copy of everything but the threads.
ForkGuardChild ==
    /\ vm = "forking"
    /\ guard' = [guard EXCEPT !.mutex = FALSE, !.running = 0]
    /\ job' = [x \in DOMAIN job |-> NoJob]
    /\ lookup' = [lookup EXCEPT !.pid = IF @ = "own" THEN "parent" ELSE @]
    /\ vm' = "image"
    /\ UNCHANGED <<loaded, used, signal>>

----------------------------------------------------------------------------
LookupStep(x) ==
    \/ Count(x) \/ RunLookup(x) \/ LockAnswer(x) \/ StoreAnswer(x) \/ ClearBusy(x)
    \/ Tell(x) \/ UnlockAnswer(x) \/ Uncount(x) \/ Return(x)

ForkStep == ForkGuardPrepare \/ ForkGuardParent \/ ForkGuardChild

ResolverNext ==
    \/ \E s \in Semas : SqNetworkInit(s)
    \/ SqNetworkShutdown \/ ResolverAbort \/ ResolverStatus
    \/ StartLookup \/ SocketShutdown
    \/ \E x \in Slots \cup {0} : LookupStep(x)
    \/ Fork \/ ForkStep

\* Threads run, a lookup times out at the latest, and a thread gets the mutex that
\* fork after fork takes for a moment; the image polls the status of a lookup it
\* waits for, whatever primitives its other processes call.
ResolverFairness ==
    /\ \A x \in Slots \cup {0} : SF_resolverVars(LookupStep(x))
    /\ WF_resolverVars(ForkStep)
    /\ SF_resolverVars(ResolverStatus)

ResolverSpec == ResolverInit /\ [][ResolverNext]_resolverVars /\ ResolverFairness

----------------------------------------------------------------------------
(* Properties.                                                              *)

\* The type of the state.
ResolverTypeOK ==
    /\ loaded \in BOOLEAN /\ vm \in {"image", "preparing", "forking"}
    /\ lookup \in [session : BOOLEAN, sema : Semas \cup {0}, busy : BOOLEAN,
                   error : Errors, generation : Nat, wanted : Nat, answer : Nat,
                   mutex : BOOLEAN, pid : {"none", "own", "parent"}]
    /\ guard \in [installed : {"not yet", "yes", "no"}, mutex : BOOLEAN, running : Nat]
    /\ job \in [Slots \cup {0} -> [pc : Pcs, generation : Nat, error : Errors,
                                   sema : Semas \cup {0}]]
    /\ used \subseteq Slots
    /\ signal \in [sema : Semas \cup {0}, generation : Nat]

\* A resolver that answers ResolverSuccess after a lookup was begun holds the
\* result of that lookup: never that of one superseded, aborted, shut down or
\* lost to a fork, nor half a result, though sqResolverStatus takes no lock.
ResultIsOfLastLookup ==
    ~lookup.busy /\ lookup.error = "none" => lookup.answer = lookup.wanted

\* A signal reaches the semaphore the session has at that moment, and tells of
\* the lookup that the image has not given up: a semaphore index the image may
\* have reused is never signalled (the comment in finishLookup).
SignalsFindTheirSession ==
    [][signal' # signal => /\ signal'.sema = lookup.sema
                           /\ signal'.generation = lookup.generation]_resolverVars

\* socketShutdown answers true only when no thread has an instruction of the
\* module left to run (lookupWorkersQuiescent).
NoCodeUnmapped == ~loaded => \A x \in Slots : job[x].pc = "none"

\* Each lookup is told of with a signal, superseded, or abandoned (EAI_AGAIN), in
\* a forked child too, which has none of the threads; and no fork is held up for
\* good by the lookups it waits for.
LookupsEnd ==
    /\ \A g \in 1..MaxGeneration :
         (lookup.wanted = g) ~> (signal.generation = g \/ lookup.wanted # g)
    /\ (vm # "image") ~> (vm = "image")
=============================================================================
