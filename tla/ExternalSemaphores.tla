-------------------------- MODULE ExternalSemaphores --------------------------
(***************************************************************************)
(* External semaphore signalling, src/common/sqExternalSemaphores.c.       *)
(*                                                                         *)
(* Any thread, and any asynchronous signal handler that interrupts it, may *)
(* call signalSemaphoreWithIndex.  The VM thread runs                      *)
(* doSignalExternalSemaphores when the interpreter checks for events.  The *)
(* actors share the request table, the two "tides" that bound the part of  *)
(* the table worth scanning, the flag checkSignalRequests and requestMutex.*)
(*                                                                         *)
(* An activation <<t, l>> is what thread t executes at nesting level l:    *)
(* level 0 is the thread's own code, level l + 1 the handler of a signal   *)
(* that interrupted level l.  Only the deepest level of a thread runs.     *)
(*                                                                         *)
(* Table entries are numbered from 0, as in the C array; semaphore indices *)
(* are one higher.  One action is one access to state that another actor   *)
(* can see.                                                                *)
(***************************************************************************)
EXTENDS Integers

CONSTANTS Threads,            \* the threads of the process
          VMThread,           \* the one that runs the interpreter
          MaxNesting,         \* bound: how deep signal handlers nest
          Signals,            \* the asynchronous signals
          NoDefer,            \* those whose handler was installed SA_NODEFER
          NumSignalRequests,  \* numSignalRequests, fixed after start-up
          InitialTableSize,   \* slots of ExternalObjectsArray at start-up
          MaxTide,            \* the largest int: the low mark of an empty tide
          MaxCalls            \* bound: calls of signalSemaphoreWithIndex

MinTide == -1

ASSUME ConstantsAssumption ==
    /\ VMThread \in Threads
    /\ MaxNesting \in Nat
    /\ NoDefer \subseteq Signals
    /\ NumSignalRequests \in Nat
    /\ InitialTableSize \in 0 .. NumSignalRequests
    /\ MaxTide \in Nat /\ NumSignalRequests <= MaxTide
    /\ MaxCalls \in Nat

Index == 0 .. NumSignalRequests - 1
Levels == 0 .. MaxNesting
Activations == Threads \X Levels
VM == <<VMThread, 0>>

VARIABLES
    requests,     \* signalRequests[i].requests
    responses,    \* signalRequests[i].responses
    delivered,    \* calls of doSignalSemaphoreWithIndex(i + 1) so far
    check,        \* checkSignalRequests
    low, high,    \* lowTideA, highTideA (at TRUE), lowTideB, highTideB (at FALSE)
    useTideA,     \* which of the two tides signallers write to
    mutex,        \* requestMutex, 1 when free
    forced,       \* forceInterruptCheck asked the interpreter to check events
    refused,      \* history: the last such request was dropped, see VMRefuse
    tableSize,    \* numSlotsOf: ExternalObjectsArray; the image may grow it
    cur, last,    \* i and highTide of doSignalExternalSemaphores
    pc,           \* what each activation does next
    idx,          \* the table entry each activation signals
    saved,        \* savedMask of each activation
    depth,        \* the level at which each thread runs
    mask,         \* the signals each thread blocks
    entry,        \* the mask the kernel restores when a handler returns
    handled,      \* the signal each handler activation handles
    calls         \* calls made so far; only bounds the model

table   == <<requests, responses, delivered>>
tides   == <<low, high, useTideA>>
scan    == <<cur, last>>
context == <<saved, depth, mask, entry, handled>>
force   == <<forced, refused>>
vars == <<table, tides, scan, context, check, mutex, force, tableSize, pc, idx, calls>>

Holding == {"count", "tide", "check", "force", "release", "vmToggle", "vmRelease"}
Masked  == Holding \cup {"wait", "interruptPoll", "restore", "vmWait", "vmScan", "vmRespond"}
PCs     == Masked \cup {"idle", "block", "vmBlock"}

Init ==
    /\ requests = [i \in Index |-> 0]
    /\ responses = [i \in Index |-> 0]
    /\ delivered = [i \in Index |-> 0]
    /\ check = FALSE
    /\ low = [tide \in BOOLEAN |-> MaxTide]
    /\ high = [tide \in BOOLEAN |-> MinTide]
    /\ useTideA = TRUE
    /\ mutex = 1
    /\ forced = FALSE /\ refused = FALSE
    /\ tableSize = InitialTableSize
    /\ cur = 0 /\ last = MinTide
    /\ pc = [a \in Activations |-> "idle"]
    /\ idx = [a \in Activations |-> MinTide]
    /\ saved = [a \in Activations |-> {}]
    /\ depth = [t \in Threads |-> 0]
    /\ mask = [t \in Threads |-> {}]
    /\ entry = [a \in Activations |-> {}]
    /\ handled = [a \in Activations |-> {}]
    /\ calls = 0

(***************************************************************************)
(* Control: activation a, the running one of its thread, goes on from one  *)
(* point of its program to another.                                        *)
(***************************************************************************)
Running(a) == depth[a[1]] = a[2]

Goto(a, from, to) ==
    /\ Running(a)
    /\ pc[a] = from
    /\ pc' = [pc EXCEPT ![a] = to]

(***************************************************************************)
(* Signal masks and handlers.                                              *)
(***************************************************************************)
BlockNoSignal(a) ==                       \* mutant: forgets pthread_sigmask
    /\ saved' = [saved EXCEPT ![a] = mask[a[1]]]
    /\ UNCHANGED <<depth, mask, entry, handled>>

BlockSignals(a) ==                                  \* blockAsynchronousSignals
    /\ saved' = [saved EXCEPT ![a] = mask[a[1]]]
    /\ mask' = [mask EXCEPT ![a[1]] = Signals]
    /\ UNCHANGED <<depth, entry, handled>>

UnblockSignals(a) ==         \* mutant of RestoreMask: SIG_UNBLOCK, not SETMASK
    /\ Goto(a, "restore", "idle")
    /\ mask' = [mask EXCEPT ![a[1]] = {}]
    /\ saved' = [saved EXCEPT ![a] = {}]
    /\ idx' = [idx EXCEPT ![a] = MinTide]
    /\ UNCHANGED <<table, tides, scan, check, mutex, force, tableSize, calls,
                   depth, entry, handled>>

\* restoreSignalMask; the activation's local variables die with the return.
RestoreMask(a) ==
    /\ Goto(a, "restore", "idle")
    /\ mask' = [mask EXCEPT ![a[1]] = saved[a]]
    /\ saved' = [saved EXCEPT ![a] = {}]
    /\ idx' = [idx EXCEPT ![a] = MinTide]
    /\ UNCHANGED <<table, tides, scan, check, mutex, force, tableSize, calls,
                   depth, entry, handled>>

\* The kernel runs the handler of s on thread t; the handler signals a
\* semaphore, as the handlers of UnixOSProcessPlugin do.
Interrupt(t, s, i) ==
    /\ depth[t] < MaxNesting
    /\ s \notin mask[t]
    /\ calls < MaxCalls
    /\ calls' = calls + 1
    /\ depth' = [depth EXCEPT ![t] = @ + 1]
    /\ entry' = [entry EXCEPT ![<<t, depth[t] + 1>>] = mask[t]]
    /\ mask' = [mask EXCEPT ![t] = @ \cup ({s} \ NoDefer)]
    /\ handled' = [handled EXCEPT ![<<t, depth[t] + 1>>] = {s}]
    /\ pc' = [pc EXCEPT ![<<t, depth[t] + 1>>] = "block"]
    /\ idx' = [idx EXCEPT ![<<t, depth[t] + 1>>] = i]
    /\ UNCHANGED <<table, tides, scan, check, mutex, force, tableSize, saved>>

HandlerReturn(t) ==
    /\ depth[t] > 0
    /\ pc[<<t, depth[t]>>] = "idle"
    /\ depth' = [depth EXCEPT ![t] = @ - 1]
    /\ mask' = [mask EXCEPT ![t] = entry[<<t, depth[t]>>]]
    /\ entry' = [entry EXCEPT ![<<t, depth[t]>>] = {}]
    /\ handled' = [handled EXCEPT ![<<t, depth[t]>>] = {}]
    /\ UNCHANGED <<table, tides, scan, check, mutex, force, tableSize, pc, idx, calls,
                   saved>>

(***************************************************************************)
(* signalSemaphoreWithIndex.                                               *)
(***************************************************************************)
\* An index outside the table is ignored: the call returns at once.
Call(t, index) ==
    /\ index - 1 \in Index
    /\ calls < MaxCalls
    /\ calls' = calls + 1
    /\ Goto(<<t, 0>>, "idle", "block")
    /\ idx' = [idx EXCEPT ![<<t, 0>>] = index - 1]
    /\ UNCHANGED <<table, tides, scan, context, check, mutex, force, tableSize>>

Block(a) ==
    /\ Goto(a, "block", "wait")
    /\ BlockSignals(a)
    /\ UNCHANGED <<table, tides, scan, check, mutex, force, tableSize, idx, calls>>

TakeMutex(a) ==
    /\ mutex = 1
    /\ Goto(a, "wait", "count")
    /\ mutex' = 0
    /\ UNCHANGED <<table, tides, scan, context, check, force, tableSize, idx, calls>>

CountRequest(a) ==
    /\ Goto(a, "count", "tide")
    /\ requests' = [requests EXCEPT ![idx[a]] = @ + 1]
    /\ UNCHANGED <<responses, delivered, tides, scan, context, check, mutex, force,
                   tableSize, idx, calls>>

ElseTide(a) ==      \* mutant of RaiseTide: the two comparisons joined by an else
    /\ Goto(a, "tide", "check")
    /\ low' = [low EXCEPT ![useTideA] = IF @ > idx[a] THEN idx[a] ELSE @]
    /\ high' = [high EXCEPT ![useTideA] =
                  IF low[useTideA] <= idx[a] /\ @ < idx[a] THEN idx[a] ELSE @]
    /\ UNCHANGED <<table, useTideA, scan, context, check, mutex, force, tableSize, idx, calls>>

\* Only holders of the mutex access the tides: both ends move in one step.
RaiseTide(a) ==
    /\ Goto(a, "tide", "check")
    /\ low' = [low EXCEPT ![useTideA] = IF @ > idx[a] THEN idx[a] ELSE @]
    /\ high' = [high EXCEPT ![useTideA] = IF @ < idx[a] THEN idx[a] ELSE @]
    /\ UNCHANGED <<table, useTideA, scan, context, check, mutex, force, tableSize, idx, calls>>

SetCheck(a) ==
    /\ Goto(a, "check", "force")
    /\ check' = TRUE
    /\ UNCHANGED <<table, tides, scan, context, mutex, force, tableSize, idx, calls>>

ForceCheck(a) ==                                              \* forceInterruptCheck
    /\ Goto(a, "force", "release")
    /\ forced' = TRUE /\ refused' = FALSE
    /\ UNCHANGED <<table, tides, scan, context, check, mutex, tableSize, idx, calls>>

ReleaseMutex(a) ==
    /\ Goto(a, "release", "interruptPoll")
    /\ mutex' = 1
    /\ UNCHANGED <<table, tides, scan, context, check, force, tableSize, idx, calls>>

\* aioInterruptPoll touches nothing of this component; see module IdlePoll.
InterruptPoll(a) ==
    /\ Goto(a, "interruptPoll", "restore")
    /\ UNCHANGED <<table, tides, scan, context, check, mutex, force, tableSize, idx, calls>>

(***************************************************************************)
(* doSignalExternalSemaphores, on the VM thread.                           *)
(***************************************************************************)
\* checkForEventsMayContextSwitch: restoreStackLimit takes the force back
\* before signalExternalSemaphores runs.
VMEnter ==
    /\ forced
    /\ Goto(VM, "idle", "vmBlock")
    /\ forced' = FALSE
    /\ UNCHANGED <<table, tides, scan, context, check, mutex, refused, tableSize, idx, calls>>

\* The same where mayContextSwitch is false, as in the activation of ensure:.
\* The force is taken back and nothing is signalled.  (A force that reaches a
\* stack page the VM is just leaving, setStackPageAndLimit, is lost as well.)
VMRefuse ==
    /\ forced
    /\ Running(VM) /\ pc[VM] = "idle"
    /\ forced' = FALSE /\ refused' = TRUE
    /\ UNCHANGED <<table, tides, scan, context, check, mutex, tableSize, pc, idx, calls>>

VMBlock ==
    /\ Goto(VM, "vmBlock", "vmWait")
    /\ BlockSignals(VM)
    /\ UNCHANGED <<table, tides, scan, check, mutex, force, tableSize, idx, calls>>

VMTakeMutex ==
    /\ mutex = 1
    /\ Goto(VM, "vmWait", "vmToggle")
    /\ mutex' = 0
    /\ UNCHANGED <<table, tides, scan, context, check, force, tableSize, idx, calls>>

VMNothingToDo ==
    /\ ~check
    /\ Goto(VM, "vmToggle", "restore")
    /\ mutex' = 1
    /\ UNCHANGED <<table, tides, scan, context, check, force, tableSize, idx, calls>>

VMToggle ==
    /\ check
    /\ Goto(VM, "vmToggle", "vmRelease")
    /\ check' = FALSE
    /\ low' = [low EXCEPT ![~useTideA] = MaxTide]
    /\ high' = [high EXCEPT ![~useTideA] = MinTide]
    /\ useTideA' = ~useTideA
    /\ cur' = low[useTideA]
    /\ last' = high[useTideA]
    /\ UNCHANGED <<table, context, mutex, force, tableSize, idx, calls>>

\* The scan stays inside the image's table; what lies above is forgotten.
VMRelease ==
    /\ Goto(VM, "vmRelease", "vmScan")
    /\ mutex' = 1
    /\ last' = IF last >= tableSize THEN tableSize - 1 ELSE last
    /\ UNCHANGED <<table, tides, cur, context, check, force, tableSize, idx, calls>>

VMSkip ==
    /\ cur <= last
    /\ responses[cur] = requests[cur]
    /\ Goto(VM, "vmScan", "vmScan")
    /\ cur' = cur + 1
    /\ UNCHANGED <<table, tides, last, context, check, mutex, force, tableSize, idx, calls>>

\* doSignalSemaphoreWithIndex, without requestMutex.
VMSignal ==
    /\ cur <= last
    /\ responses[cur] # requests[cur]
    /\ Goto(VM, "vmScan", "vmRespond")
    /\ delivered' = [delivered EXCEPT ![cur] = @ + 1]
    /\ UNCHANGED <<requests, responses, tides, scan, context, check, mutex, force,
                   tableSize, idx, calls>>

RespondToAll ==      \* mutant of VMRespond: responses := requests, not ++responses
    /\ Goto(VM, "vmRespond", "vmScan")
    /\ responses' = [responses EXCEPT ![cur] = requests[cur]]
    /\ UNCHANGED <<requests, delivered, tides, scan, context, check, mutex, force,
                   tableSize, idx, calls>>

VMRespond ==
    /\ Goto(VM, "vmRespond", "vmScan")
    /\ responses' = [responses EXCEPT ![cur] = @ + 1]
    /\ UNCHANGED <<requests, delivered, tides, scan, context, check, mutex, force,
                   tableSize, idx, calls>>

LateRestore ==   \* mutant of VMScanned: restoreStackLimit runs after the scan
    /\ cur > last
    /\ Goto(VM, "vmScan", "restore")
    /\ cur' = 0 /\ last' = MinTide
    /\ forced' = FALSE
    /\ UNCHANGED <<table, tides, context, check, mutex, refused, tableSize, idx, calls>>

VMScanned ==
    /\ cur > last
    /\ Goto(VM, "vmScan", "restore")
    /\ cur' = 0 /\ last' = MinTide
    /\ UNCHANGED <<table, tides, context, check, mutex, force, tableSize, idx, calls>>

(***************************************************************************)
(* The rest of the program.                                                *)
(***************************************************************************)
\* forceInterruptCheckFromHeartbeat
HeartbeatForce ==
    /\ ~forced
    /\ forced' = TRUE /\ refused' = FALSE
    /\ UNCHANGED <<table, tides, scan, context, check, mutex, tableSize, pc, idx, calls>>

\* The image, running on the VM thread, installs a larger ExternalObjectsArray.
GrowTable(n) ==
    /\ Running(VM) /\ pc[VM] = "idle"
    /\ n > tableSize
    /\ tableSize' = n
    /\ UNCHANGED <<table, tides, scan, context, check, mutex, force, pc, idx, calls>>

SignallerStep(a) ==
    \/ Block(a) \/ CountRequest(a) \/ RaiseTide(a) \/ SetCheck(a) \/ ForceCheck(a)
    \/ ReleaseMutex(a) \/ InterruptPoll(a) \/ RestoreMask(a)

VMStep ==
    \/ VMBlock \/ VMNothingToDo \/ VMToggle \/ VMRelease \/ VMSkip \/ VMSignal
    \/ VMRespond \/ VMScanned

Next ==
    \/ \E t \in Threads, index \in 0 .. NumSignalRequests + 1 : Call(t, index)
    \/ \E t \in Threads, s \in Signals, i \in Index : Interrupt(t, s, i)
    \/ \E t \in Threads : HandlerReturn(t)
    \/ \E a \in Activations : SignallerStep(a) \/ TakeMutex(a)
    \/ VMEnter \/ VMRefuse \/ VMTakeMutex \/ VMStep
    \/ HeartbeatForce
    \/ \E n \in 0 .. NumSignalRequests : GrowTable(n)

SafeSpec == Init /\ [][Next]_vars

\* Threads are scheduled, handlers return, requestMutex is not taken from a
\* waiting thread for ever, the heartbeat beats, and among the checks the
\* interpreter is forced to make there are always some that may switch.  Nobody
\* has to call.
Fairness ==
    /\ \A t \in Threads : /\ WF_vars(HandlerReturn(t))
                          /\ WF_vars(\E l \in Levels : SignallerStep(<<t, l>>))
                          /\ SF_vars(\E l \in Levels : TakeMutex(<<t, l>>))
    /\ SF_vars(VMEnter) /\ WF_vars(VMStep) /\ SF_vars(VMTakeMutex)
    /\ WF_vars(HeartbeatForce)

Spec == SafeSpec /\ Fairness

-------------------------------------------------------------------------------
(***************************************************************************)
(* Properties.                                                             *)
(***************************************************************************)

\* Every variable keeps its type, and the tides only hold entries of the
\* table or the markers of an empty tide: the scan never leaves the table.
TypeOK ==
    /\ requests \in [Index -> Nat]
    /\ responses \in [Index -> Nat]
    /\ delivered \in [Index -> Nat]
    /\ check \in BOOLEAN
    /\ low \in [BOOLEAN -> Index \cup {MaxTide}]
    /\ high \in [BOOLEAN -> Index \cup {MinTide}]
    /\ useTideA \in BOOLEAN
    /\ mutex \in {0, 1}
    /\ forced \in BOOLEAN /\ refused \in BOOLEAN
    /\ tableSize \in InitialTableSize .. NumSignalRequests
    /\ cur \in 0 .. NumSignalRequests \cup {MaxTide}
    /\ last \in Index \cup {MinTide}
    /\ pc \in [Activations -> PCs]
    /\ idx \in [Activations -> Index \cup {MinTide}]
    /\ saved \in [Activations -> SUBSET Signals]
    /\ depth \in [Threads -> Levels]
    /\ mask \in [Threads -> SUBSET Signals]
    /\ entry \in [Activations -> SUBSET Signals]
    /\ handled \in [Activations -> SUBSET Signals]
    /\ calls \in 0 .. MaxCalls

Pending(i) == responses[i] # requests[i]

\* The tide in use reaches entry i, and the VM is going to look at that tide.
InTide(i) ==
    /\ low[useTideA] <= i /\ i <= high[useTideA]
    /\ check \/ \E a \in Activations : pc[a] = "check"

\* The VM has taken the tide that reaches i and has not yet passed i.
InScan(i) ==
    /\ pc[VM] \in {"vmRelease", "vmScan", "vmRespond"}
    /\ cur <= i /\ i <= last

\* A signaller has counted a request for i and is about to move the tide.
InHand(i) == \E a \in Activations : pc[a] = "tide" /\ idx[a] = i

\* No request is lost: whatever way signallers, handlers and the VM
\* interleave, an unanswered request for a registered semaphore lies inside
\* the part of the table some actor is still committed to scan.  This is what
\* the tide marks of sqExternalSemaphores.c exist to guarantee.
NoLostRequest ==
    \A i \in 0 .. InitialTableSize - 1 :
        Pending(i) => InTide(i) \/ InScan(i) \/ InHand(i)

\* The interpreter is going to look: while checkSignalRequests is set, either
\* an event check is forced, or about to be, or the VM is already on its way
\* to read the flag.  Only a check that may not switch loses the force, and
\* then the heartbeat makes it up.  A force that comes while the VM works
\* through doSignalExternalSemaphores is not lost.
CheckIsSeen ==
    check => \/ forced \/ refused
             \/ \E a \in Activations : pc[a] = "force"
             \/ pc[VM] \in {"vmBlock", "vmWait", "vmToggle"}

\* No handler ever runs on a thread that holds requestMutex: it would wait
\* for its own thread for ever (the comment over blockAsynchronousSignals).
NoSelfDeadlock ==
    \A t \in Threads, l \in Levels : l < depth[t] => pc[<<t, l>>] \notin Holding

\* A handler that runs with its own signal blocked still has it blocked after
\* signalSemaphoreWithIndex: no signal but the SA_NODEFER ones nests.
NoReentry ==
    \A t \in Threads, l, m \in Levels :
        0 < l /\ l < m /\ m <= depth[t] => handled[<<t, l>>] \cap handled[<<t, m>>] \subseteq NoDefer

\* The component keeps the promise of ExternalSignals: each request becomes
\* one signal, and a registered semaphore never waits for ever.
Abs == INSTANCE ExternalSignals
         WITH requested <- requests, Registered <- 0 .. InitialTableSize - 1
Implements == Abs!Spec
=============================================================================
