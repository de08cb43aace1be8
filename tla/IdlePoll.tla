------------------------------- MODULE IdlePoll -------------------------------
(***************************************************************************)
(* The idle virtual machine: ioRelinquishProcessorForMicroseconds and the  *)
(* heartbeat (src/common/heartbeat.c) together with the epoll loop of      *)
(* src/unix/aio.c and the signallers that must be able to wake it.         *)
(*                                                                         *)
(* A signaller is what module ExternalSemaphores leaves of                 *)
(* signalSemaphoreWithIndex: it sets checkSignalRequests, forces an event  *)
(* check, then runs aioInterruptPoll, which takes no lock.  A signal       *)
(* handler on the VM thread is a signaller too: its steps are among the    *)
(* interleavings of a separate one.                                        *)
(*                                                                         *)
(* The critical sections of heartbeatStopMutex are single steps: nothing   *)
(* they touch is touched outside of them, but for the VM thread's own read *)
(* of polling.  Variables are read and written in program order; the       *)
(* fences of aio.c are what makes that sound.                              *)
(***************************************************************************)
EXTENDS Integers

CONSTANTS Signallers,   \* threads and handlers that signal semaphores
          Waits,        \* the waits in microseconds the idle process asks for
          PipeSize,     \* capacity of the signal pipe
          MaxTokens     \* largest count of heartbeatSemaphore

ASSUME PollAssumption ==
    /\ Waits \subseteq Nat
    /\ PipeSize \in Nat \ {0}
    /\ MaxTokens \in Nat \ {0}

VARIABLES
    check,        \* checkSignalRequests
    forced,       \* forceInterruptCheck asked for an event check
    pending,      \* pendingInterruption
    isPooling,    \* isPooling
    pipe,         \* bytes in signal_pipe_fd
    polling,      \* polling (heartbeat.c)
    stopped,      \* stoppedHeartbeat
    tokens,       \* count of heartbeatSemaphore
    pc,           \* next step of each signaller
    vm,           \* next step of the VM thread
    micros,       \* microSecondsTimeout
    millis,       \* milliSecondsTimeout
    beat,         \* next step of the heartbeat thread
    held          \* history: the poll the waiting heartbeat found is not over

aioVars == <<pending, isPooling, pipe>>
stopVars == <<polling, stopped, tokens, held>>
waitVars == <<micros, millis>>
pollVars == <<check, forced, aioVars, stopVars, pc, vm, waitVars, beat>>

PollInit ==
    /\ check = FALSE /\ forced = FALSE
    /\ pending = FALSE /\ isPooling = FALSE /\ pipe = 0
    /\ polling = FALSE /\ stopped = FALSE /\ tokens = 0 /\ held = FALSE
    /\ pc = [s \in Signallers |-> "idle"]
    /\ vm = "interpret" /\ micros = 0 /\ millis = 0
    /\ beat = "nap"

(***************************************************************************)
(* Signallers.                                                             *)
(***************************************************************************)
Goto(s, from, to) == pc[s] = from /\ pc' = [pc EXCEPT ![s] = to]

SetCheck(s) ==
    /\ Goto(s, "idle", "force")
    /\ check' = TRUE
    /\ UNCHANGED <<forced, aioVars, stopVars, vm, waitVars, beat>>

ForceCheck(s) ==
    /\ Goto(s, "force", "readPooling")
    /\ forced' = TRUE
    /\ UNCHANGED <<check, aioVars, stopVars, vm, waitVars, beat>>

\* aioInterruptPoll
ReadPooling(s) ==
    /\ Goto(s, "readPooling", IF isPooling THEN "write" ELSE "setPending")
    /\ UNCHANGED <<check, forced, aioVars, stopVars, vm, waitVars, beat>>

\* A full pipe answers EAGAIN and wakes the poll all the same.
WritePipe(s) ==
    /\ Goto(s, "write", "setPending")
    /\ pipe' = IF pipe < PipeSize THEN pipe + 1 ELSE pipe
    /\ UNCHANGED <<check, forced, pending, isPooling, stopVars, vm, waitVars, beat>>

SetPending(s) ==
    /\ Goto(s, "setPending", "idle")
    /\ pending' = TRUE
    /\ UNCHANGED <<check, forced, isPooling, pipe, stopVars, vm, waitVars, beat>>

(***************************************************************************)
(* The VM thread.                                                          *)
(***************************************************************************)
VMGoto(from, to) == vm = from /\ vm' = to

\* The interpreter reaches a stack limit check between any two calls of
\* primitiveRelinquishProcessor: the idle process loops around it.
Interpret ==
    /\ ~forced
    /\ VMGoto("interpret", "relinquish")
    /\ UNCHANGED <<check, forced, aioVars, stopVars, pc, waitVars, beat>>

\* checkForEventsMayContextSwitch: restoreStackLimit takes the force back
\* before the events are looked at.
EnterCheck ==
    /\ forced
    /\ VMGoto("interpret", "eventCheck")
    /\ forced' = FALSE
    /\ UNCHANGED <<check, aioVars, stopVars, pc, waitVars, beat>>

\* The same where the check may not switch: no semaphore is signalled.
RefuseCheck ==
    /\ forced
    /\ vm = "interpret"
    /\ forced' = FALSE
    /\ UNCHANGED <<check, aioVars, stopVars, pc, vm, waitVars, beat>>

\* doSignalExternalSemaphores, see ExternalSemaphores; the image then runs
\* what it woke, and comes back to the idle process.
EventCheck ==
    /\ VMGoto("eventCheck", "interpret")
    /\ check' = FALSE
    /\ UNCHANGED <<forced, aioVars, stopVars, pc, waitVars, beat>>

\* ioRelinquishProcessorForMicroseconds: a wakeup time already passed skips
\* the poll; otherwise aioPoll waits, at most until the wakeup time.
Relinquish(w) ==
    /\ \/ VMGoto("relinquish", "interpret") /\ UNCHANGED waitVars
       \/ VMGoto("relinquish", "exchange") /\ micros' = w /\ UNCHANGED millis
    /\ UNCHANGED <<check, forced, aioVars, stopVars, pc, beat>>

\* aioPoll: an interruption that came before is consumed and costs the wait.
ExchangePending ==
    /\ VMGoto("exchange", IF pending THEN "pollEnter" ELSE "isPendingSemaphores")
    /\ micros' = IF pending THEN 0 ELSE micros
    /\ pending' = FALSE
    /\ UNCHANGED <<check, forced, isPooling, pipe, stopVars, pc, millis, beat>>

IsPendingSemaphores ==
    /\ VMGoto("isPendingSemaphores", "pollEnter")
    /\ micros' = IF check THEN 0 ELSE micros
    /\ UNCHANGED <<check, forced, aioVars, stopVars, pc, millis, beat>>

\* heartbeat_poll_enter
PollEnter ==
    /\ VMGoto("pollEnter", "setPooling")
    /\ millis' = micros \div 1000
    /\ polling' = (polling \/ micros > 1000)
    /\ UNCHANGED <<check, forced, aioVars, stopped, tokens, held, pc, micros, beat>>

\* aio_handle_events
SetPooling ==
    /\ VMGoto("setPooling", "recheckPending")
    /\ isPooling' = TRUE
    /\ UNCHANGED <<check, forced, pending, pipe, stopVars, pc, waitVars, beat>>

RecheckPending ==
    /\ VMGoto("recheckPending", IF pending THEN "epoll" ELSE "recheckCheck")
    /\ millis' = IF pending THEN 0 ELSE millis
    /\ UNCHANGED <<check, forced, aioVars, stopVars, pc, micros, beat>>

NoRecheck ==            \* mutant of RecheckCheck: trusts what aioPoll looked at
    /\ VMGoto("recheckCheck", "epoll")
    /\ UNCHANGED <<check, forced, aioVars, stopVars, pc, waitVars, beat>>

RecheckCheck ==
    /\ VMGoto("recheckCheck", "epoll")
    /\ millis' = IF check THEN 0 ELSE millis
    /\ UNCHANGED <<check, forced, aioVars, stopVars, pc, micros, beat>>

\* epoll_wait: it returns for a byte in the pipe, a ready descriptor, an
\* interrupting signal or because the time is over.
EpollReturn ==
    /\ VMGoto("epoll", "clearPooling")
    /\ UNCHANGED <<check, forced, aioVars, stopVars, pc, waitVars, beat>>

ClearPooling ==
    /\ VMGoto("clearPooling", "clearPending")
    /\ isPooling' = FALSE
    /\ UNCHANGED <<check, forced, pending, pipe, stopVars, pc, waitVars, beat>>

ClearPending ==
    /\ VMGoto("clearPending", "pollExit")
    /\ pending' = FALSE
    /\ UNCHANGED <<check, forced, isPooling, pipe, stopVars, pc, waitVars, beat>>

SignalLost ==               \* mutant of PollExit: forgets the waiting heartbeat
    /\ VMGoto("pollExit", "flushPending")
    /\ polling' = FALSE /\ held' = FALSE
    /\ UNCHANGED <<check, forced, aioVars, stopped, tokens, pc, waitVars, beat>>

WaitToldNot ==   \* mutant of PollExit: judges by the wait left after the recheck
    /\ VMGoto("pollExit", "flushPending")
    /\ IF millis <= 1
       THEN UNCHANGED stopVars
       ELSE /\ polling' = FALSE /\ held' = FALSE
            /\ tokens' = IF stopped /\ tokens < MaxTokens THEN tokens + 1 ELSE tokens
            /\ UNCHANGED stopped
    /\ UNCHANGED <<check, forced, aioVars, pc, waitVars, beat>>

\* heartbeat_poll_exit
PollExit ==
    /\ VMGoto("pollExit", "flushPending")
    /\ IF micros <= 1000 /\ ~polling
       THEN UNCHANGED stopVars
       ELSE /\ polling' = FALSE /\ held' = FALSE
            /\ tokens' = IF stopped /\ tokens < MaxTokens THEN tokens + 1 ELSE tokens
            /\ UNCHANGED stopped
    /\ UNCHANGED <<check, forced, aioVars, pc, waitVars, beat>>

LeavePipe ==              \* mutant of FlushPipe: flushes only when epoll timed out
    /\ VMGoto("flush", "interpret")
    /\ pipe' = IF millis > 0 THEN 0 ELSE pipe
    /\ micros' = 0 /\ millis' = 0
    /\ UNCHANGED <<check, forced, pending, isPooling, stopVars, pc, beat>>

\* aio_flush_pipe
FlushPending ==
    /\ VMGoto("flushPending", "flush")
    /\ pending' = FALSE
    /\ UNCHANGED <<check, forced, isPooling, pipe, stopVars, pc, waitVars, beat>>

FlushPipe ==
    /\ VMGoto("flush", "interpret")
    /\ pipe' = 0
    /\ micros' = 0 /\ millis' = 0
    /\ UNCHANGED <<check, forced, pending, isPooling, stopVars, pc, beat>>

(***************************************************************************)
(* The heartbeat thread, beatStateMachine.                                 *)
(***************************************************************************)
BeatGoto(from, to) == beat = from /\ beat' = to

WakeUp ==                                             \* nanosleep is over
    /\ BeatGoto("nap", "test")
    /\ UNCHANGED <<check, forced, aioVars, stopVars, pc, vm, waitVars>>

\* heartbeat_wait_if_polling, up to the semaphore
TestPolling ==
    /\ BeatGoto("test", IF polling THEN "wait" ELSE "beat")
    /\ stopped' = (stopped \/ polling)
    /\ held' = polling
    /\ UNCHANGED <<check, forced, aioVars, polling, tokens, pc, vm, waitVars>>

PassSemaphore ==
    /\ tokens > 0
    /\ BeatGoto("wait", "beat")
    /\ tokens' = tokens - 1
    /\ UNCHANGED <<check, forced, aioVars, polling, stopped, held, pc, vm, waitVars>>

\* heartbeat: forceInterruptCheckFromHeartbeat; the clocks are left out.
Beat ==
    /\ BeatGoto("beat", "nap")
    /\ forced' = TRUE
    /\ UNCHANGED <<check, aioVars, stopVars, pc, vm, waitVars>>

-------------------------------------------------------------------------------
SignallerStep(s) == ForceCheck(s) \/ ReadPooling(s) \/ WritePipe(s) \/ SetPending(s)

VMStep ==
    \/ Interpret \/ EnterCheck \/ RefuseCheck \/ EventCheck \/ \E w \in Waits : Relinquish(w)
    \/ ExchangePending \/ IsPendingSemaphores \/ PollEnter \/ SetPooling
    \/ RecheckPending \/ RecheckCheck \/ ClearPooling \/ ClearPending \/ PollExit
    \/ FlushPending \/ FlushPipe

HeartbeatStep == WakeUp \/ TestPolling \/ PassSemaphore \/ Beat

PollNext ==
    \/ \E s \in Signallers : SetCheck(s) \/ SignallerStep(s)
    \/ VMStep \/ EpollReturn
    \/ HeartbeatStep

\* epoll_wait must return when a byte waits for it or it was told not to
\* wait.  Nothing else is promised: neither that a timeout expires nor that
\* a descriptor becomes ready, so a wake-up that works here does not owe
\* anything to the timeout.
Awake == pipe > 0 \/ millis = 0

PollSafeSpec == PollInit /\ [][PollNext]_pollVars

\* Threads are scheduled, and among the checks the interpreter is forced to
\* make there are always some that may switch.
PollSpec ==
    /\ PollSafeSpec
    /\ \A s \in Signallers : WF_pollVars(SignallerStep(s))
    /\ WF_pollVars(VMStep) /\ SF_pollVars(EnterCheck) /\ WF_pollVars(Awake /\ EpollReturn)
    /\ WF_pollVars(HeartbeatStep)

-------------------------------------------------------------------------------
(***************************************************************************)
(* Properties.                                                             *)
(***************************************************************************)
Millis == {w \div 1000 : w \in Waits \cup {0}}

\* Every variable keeps its type; a timeout in milliseconds is a wait of the
\* idle process converted, never the microseconds themselves.
PollTypeOK ==
    /\ check \in BOOLEAN /\ forced \in BOOLEAN
    /\ pending \in BOOLEAN /\ isPooling \in BOOLEAN /\ pipe \in 0 .. PipeSize
    /\ polling \in BOOLEAN /\ stopped \in BOOLEAN /\ held \in BOOLEAN
    /\ tokens \in 0 .. MaxTokens
    /\ pc \in [Signallers -> {"idle", "force", "readPooling", "write", "setPending"}]
    /\ vm \in {"interpret", "eventCheck", "relinquish", "exchange", "isPendingSemaphores",
               "pollEnter", "setPooling", "recheckPending", "recheckCheck", "epoll",
               "clearPooling", "clearPending", "pollExit", "flushPending", "flush"}
    /\ micros \in Waits \cup {0}
    /\ millis \in Millis
    /\ beat \in {"nap", "test", "wait", "beat"}

\* No wake-up is missed: when the VM thread sleeps in epoll_wait although
\* checkSignalRequests is set, the pipe wakes it, or a signaller that has set
\* the flag has yet to reach the pipe and will find isPooling set.  This is
\* what the Dekker pair of aio.c (isPooling against the flag) is for.
NoMissedWakeup ==
    vm = "epoll" /\ check =>
        \/ Awake
        \/ isPooling /\ \E s \in Signallers : pc[s] \in {"force", "readPooling", "write"}

\* The heartbeat never sleeps for good: it waits for its semaphore only while
\* a poll that will signal it has not ended, or the token is already there.
HeartbeatNotStuck ==
    beat = "wait" => tokens > 0 \/ (polling /\ stopped)

\* A request that was announced is answered, however long the VM meant to
\* sleep and whether or not that time is ever over.
RequestsAnswered == check ~> ~check

\* Once the VM runs again, the heartbeat its poll held back beats, even if
\* the VM never polls a second time.
HeartbeatResumes == (beat = "wait" /\ vm = "interpret") ~> (beat = "beat")

\* A wake-up is spent: when signallers fall silent and the VM goes on polling
\* the pipe runs dry; the idle VM is not kept awake by stale bytes, such as
\* one a slow signaller writes after the poll it meant to wake was over.
WakeupsSpent ==
    <>[](\A s \in Signallers : pc[s] = "idle") /\ []<>(vm = "epoll") => <>[](pipe = 0)

\* "The heartbeat should not run if we are in a poll" (heartbeat.c): a
\* heartbeat that found the VM in a poll waits for that poll to end.
HeartbeatHeldDuringPoll == [][PassSemaphore => ~held]_pollVars
=============================================================================
