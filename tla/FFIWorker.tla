------------------------------- MODULE FFIWorker -------------------------------
(***************************************************************************)
(* Threaded FFI: src/ffi/worker/worker.c, src/ffi/callbacks/callbacks.c    *)
(* and their primitives.  A worker thread runs the callouts the image puts *)
(* in its task queue.  A C function may call back: callbackFrontend links  *)
(* an invocation, which lives on the C stack of the calling thread, into   *)
(* the stack runner->callbackStack, hands it to the image through the      *)
(* callback queue and waits.  If the caller is the worker it waits in a    *)
(* nested worker_run, which can serve more callouts; any other thread      *)
(* waits on a semaphore, the payload of the invocation.                    *)
(*                                                                         *)
(* Both queues are thread safe queues: module TSQueue shows that these are *)
(* the Fifo used here.                                                     *)
(***************************************************************************)
EXTENDS Integers, FiniteSets, Sequences, SequencesExt

CONSTANTS Worker,         \* the worker's thread
          Foreign,        \* other threads that run C code
          CallerSets,     \* the sets of threads that may call back
          Callouts,       \* what the image asks the worker to call, each once
          Invocations,    \* memory for callback invocations, each used once
          CallsOverlap,   \* do several image processes use the worker at once?
          NULL

ASSUME ConstantsAssumption ==
    /\ Worker \notin Foreign
    /\ CallerSets \subseteq SUBSET (Foreign \cup {Worker})
    /\ CallsOverlap \in BOOLEAN
    /\ IsFiniteSet(Invocations)
    /\ NULL \notin Invocations /\ Worker \notin Invocations

VARIABLES
    isMainThread,     \* worker->isMainThread, fixed at creation
    callers,          \* the threads that may call back, fixed
    queue,            \* worker->taskQueue
    callbackQueue,    \* the invocations the image has not read yet
    hasToQuit,        \* worker->hasToQuit
    nestedRuns,       \* worker->nestedRuns
    freed,            \* is the worker freed?
    frames,           \* the worker's C stack: worker_runs and callouts
    callbackStack,    \* runner->callbackStack
    previous,         \* invocation->previous
    payload,          \* invocation->payload: does it hold a semaphore?
    semaphore,        \* the value of that semaphore
    pc,               \* next step of each thread
    inv,              \* the invocation of callbackFrontend on each thread
    vm,               \* next step of primitiveCallbackReturn, and its invocation
    phase,            \* how far the image is with each invocation
    returned,         \* the invocations whose callbackFrontend has returned
    dispatched, done, \* the callouts the image asked for; those it was answered
    released          \* has the image released the worker?

runner == <<isMainThread, callers, hasToQuit, nestedRuns, freed>>
stack  == <<callbackStack, previous, payload, semaphore>>
image  == <<vm, phase, dispatched, released>>
vars == <<runner, queue, callbackQueue, frames, stack, pc, inv, image, returned, done>>

All == Foreign \cup {Worker}

\* A run of worker_run is named by the invocation it waits for, the first one
\* by Worker; the frame of a callout by the callout.
Top == Last(frames)
Pop == Front(frames)

CalloutTask(c) == [type |-> "callout", of |-> c]
ReturnTask(v)  == [type |-> "return", of |-> v]
ReleaseTask    == [type |-> "release", of |-> NULL]

TaskQueue == INSTANCE Fifo
    WITH items <- queue,
         Elements <- {CalloutTask(c) : c \in Callouts} \cup {ReturnTask(v) : v \in Invocations}
                     \cup {ReleaseTask}
Pending == INSTANCE Fifo WITH items <- callbackQueue, Elements <- Invocations

Init ==
    /\ isMainThread \in BOOLEAN
    /\ callers \in CallerSets
    /\ queue = <<>> /\ callbackQueue = <<>>
    /\ hasToQuit = FALSE /\ nestedRuns = 1 /\ freed = FALSE
    /\ frames = <<Worker>>
    /\ callbackStack = NULL
    /\ previous = [v \in Invocations |-> NULL]
    /\ payload = [v \in Invocations |-> FALSE]
    /\ semaphore = [v \in Invocations |-> 0]
    /\ pc = [t \in All |-> IF t = Worker THEN "next" ELSE "code"]
    /\ inv = [t \in All |-> NULL]
    /\ vm = [pc |-> "idle", of |-> NULL]
    /\ phase = [v \in Invocations |-> "unused"]
    /\ returned = {}
    /\ dispatched = {} /\ done = {}
    /\ released = FALSE

Goto(t, from, to) == pc[t] = from /\ pc' = [pc EXCEPT ![t] = to]

(***************************************************************************)
(* callbackFrontend, on a thread that runs C code.                         *)
(***************************************************************************)
\* Nothing orders this read and the write of Push with those of other threads.
ReadStack(t, v) ==
    /\ t \in callers /\ ~released
    /\ phase[v] = "unused"
    /\ Goto(t, "code", "push")
    /\ inv' = [inv EXCEPT ![t] = v]
    /\ phase' = [phase EXCEPT ![v] = "entered"]
    /\ previous' = [previous EXCEPT ![v] = callbackStack]
    /\ UNCHANGED <<runner, queue, callbackQueue, frames, callbackStack, payload, semaphore,
                   vm, returned, dispatched, done, released>>

\* Also worker_callback_prepare, which looks at no shared state.
Push(t) ==
    /\ Goto(t, "push", "put")
    /\ callbackStack' = inv[t]
    /\ payload' = [payload EXCEPT ![inv[t]] = (t # Worker)]
    /\ UNCHANGED <<runner, queue, callbackQueue, frames, previous, semaphore, inv, image,
                   returned, done>>

\* queue_add_pending_callback
AddPending(t) ==
    /\ Goto(t, "put", "enter")
    /\ Pending!Put(inv[t])
    /\ UNCHANGED <<runner, queue, frames, stack, inv, image, returned, done>>

\* worker_enter_callback, when the payload is NULL: a nested worker_run.
EnterRun(t) ==
    /\ Goto(t, "enter", "next")
    /\ ~payload[inv[t]]
    /\ frames' = Append(frames, inv[t])
    /\ inv' = [inv EXCEPT ![t] = NULL]
    /\ nestedRuns' = nestedRuns + 1
    /\ UNCHANGED <<isMainThread, callers, hasToQuit, freed, queue, callbackQueue, stack,
                   image, returned, done>>

\* worker_enter_callback, when it is a semaphore.
EnterWait(t) ==
    /\ Goto(t, "enter", "wait")
    /\ payload[inv[t]]
    /\ UNCHANGED <<runner, queue, callbackQueue, frames, stack, inv, image, returned, done>>

Woken(t) ==
    /\ Goto(t, "wait", "code")
    /\ semaphore[inv[t]] > 0
    /\ semaphore' = [semaphore EXCEPT ![inv[t]] = 0]
    /\ returned' = returned \cup {inv[t]}
    /\ inv' = [inv EXCEPT ![t] = NULL]
    /\ UNCHANGED <<runner, queue, callbackQueue, frames, callbackStack, previous, payload,
                   image, done>>

(***************************************************************************)
(* worker_run: decide whether to go on, take a task, act on it.            *)
(***************************************************************************)
\* worker_next_call, up to the take, which then waits for a task.
NextCall ==
    /\ ~(hasToQuit /\ queue = <<>>)
    /\ Goto(Worker, "next", "take")
    /\ UNCHANGED <<runner, queue, callbackQueue, frames, stack, inv, image, returned, done>>

TakeTask(type, to) ==
    /\ Goto(Worker, "take", to)
    /\ TaskQueue!Take
    /\ Head(queue).type = type

AfterRun == IF Len(frames) = 1 THEN "ended" ELSE "code"

RunCallout ==
    /\ TakeTask("callout", "code")
    /\ frames' = Append(frames, Head(queue).of)
    /\ UNCHANGED <<runner, callbackQueue, stack, inv, image, returned, done>>

\* The rest of executeWorkerTask: the function returns, the image is told.
EndCallout ==
    /\ Goto(Worker, "code", "next")
    /\ done' = done \cup {Top}
    /\ frames' = Pop
    /\ UNCHANGED <<runner, queue, callbackQueue, stack, inv, image, returned>>

SignalAndReturn ==         \* mutant of SignalCaller: the else is missing
    /\ TakeTask("return", AfterRun)
    /\ payload[Head(queue).of]
    /\ semaphore' = [semaphore EXCEPT ![Head(queue).of] = @ + 1]
    /\ frames' = Pop
    /\ UNCHANGED <<runner, callbackQueue, callbackStack, previous, payload, inv, image,
                   returned, done>>

\* The answer to a callback of another thread.
SignalCaller ==
    /\ TakeTask("return", "next")
    /\ payload[Head(queue).of]
    /\ semaphore' = [semaphore EXCEPT ![Head(queue).of] = @ + 1]
    /\ UNCHANGED <<runner, callbackQueue, frames, callbackStack, previous, payload, inv,
                   image, returned, done>>

KeepRunning ==           \* mutant of EndNestedRun: breaks out of the switch only
    /\ TakeTask("return", "next")
    /\ ~payload[Head(queue).of]
    /\ UNCHANGED <<runner, callbackQueue, frames, stack, inv, image, returned, done>>

\* The answer to a callback of the worker itself: whichever run takes the task
\* returns, without undoing nestedRuns++, and with it the callback it waits for.
EndNestedRun ==
    /\ TakeTask("return", AfterRun)
    /\ ~payload[Head(queue).of]
    /\ frames' = Pop
    /\ returned' = returned \cup ({Top} \cap Invocations)
    /\ UNCHANGED <<runner, callbackQueue, stack, inv, image, done>>

TakeRelease ==
    /\ TakeTask("release", "next")
    /\ hasToQuit' = (hasToQuit \/ ~isMainThread)
    /\ UNCHANGED <<isMainThread, callers, nestedRuns, freed, callbackQueue, frames, stack,
                   inv, image, returned, done>>

FinishRun ==
    /\ pc[Worker] = "next"
    /\ hasToQuit /\ queue = <<>>
    /\ nestedRuns' = nestedRuns - 1
    /\ freed' = (nestedRuns = 1)
    /\ pc' = [pc EXCEPT ![Worker] = AfterRun]
    /\ frames' = Pop
    /\ returned' = returned \cup ({Top} \cap Invocations)
    /\ UNCHANGED <<isMainThread, callers, hasToQuit, queue, callbackQueue, stack, inv, image,
                   done>>

(***************************************************************************)
(* The image, on the VM thread.                                            *)
(***************************************************************************)
Outstanding == dispatched \ done
Handled == {v \in Invocations : phase[v] = "read" /\ ~payload[v]}

\* When the image does not let calls overlap, it calls, and answers the worker's
\* callbacks, only while each callout it waits for has itself called back.
MayUseWorker ==
    CallsOverlap \/ Worker \notin callers \/ Cardinality(Outstanding) = Cardinality(Handled)

VMIdle == vm.pc = "idle"

\* primitivePerformWorkerCall
Dispatch(c) ==
    /\ VMIdle /\ MayUseWorker /\ ~released
    /\ c \notin dispatched
    /\ dispatched' = dispatched \cup {c}
    /\ TaskQueue!Put(CalloutTask(c))
    /\ UNCHANGED <<runner, callbackQueue, frames, stack, pc, inv, vm, phase, returned, done,
                   released>>

\* primitiveReadNextCallback
ReadNextCallback ==
    /\ VMIdle
    /\ Pending!Take
    /\ phase' = [phase EXCEPT ![Head(callbackQueue)] = "read"]
    /\ UNCHANGED <<runner, queue, frames, stack, pc, inv, vm, returned, dispatched, done,
                   released>>

\* primitiveCallbackReturn.  The image may try to return any callback it has
\* read, and tries again later if the primitive answers false.
CallbackReturn(v) ==
    /\ VMIdle /\ phase[v] = "read"
    /\ payload[v] \/ MayUseWorker
    /\ vm' = [pc |-> "check", of |-> v]
    /\ UNCHANGED <<runner, queue, callbackQueue, frames, stack, pc, inv, phase, returned,
                   dispatched, done, released>>

NoCheck ==                  \* mutant of CheckOrder: any callback may return
    /\ vm.pc = "check"
    /\ vm' = [vm EXCEPT !.pc = "pop"]
    /\ UNCHANGED <<runner, queue, callbackQueue, frames, stack, pc, inv, phase, returned,
                   dispatched, done, released>>

CheckOrder ==
    /\ vm.pc = "check"
    /\ vm' = IF vm.of = callbackStack THEN [vm EXCEPT !.pc = "pop"]
                                      ELSE [pc |-> "idle", of |-> NULL]
    /\ UNCHANGED <<runner, queue, callbackQueue, frames, stack, pc, inv, phase, returned,
                   dispatched, done, released>>

NoPop ==                   \* mutant of PopStack: leaves the stack as it is
    /\ vm.pc = "pop"
    /\ vm' = [vm EXCEPT !.pc = "exit"]
    /\ UNCHANGED <<runner, queue, callbackQueue, frames, stack, pc, inv, phase, returned,
                   dispatched, done, released>>

\* Reads callbackStack again.
PopStack ==
    /\ vm.pc = "pop"
    /\ vm' = [vm EXCEPT !.pc = "exit"]
    /\ callbackStack' = previous[callbackStack]
    /\ UNCHANGED <<runner, queue, callbackQueue, frames, previous, payload, semaphore, pc, inv,
                   phase, returned, dispatched, done, released>>

\* callbackExitFunction: worker_callback_return
Exit ==
    /\ vm.pc = "exit"
    /\ vm' = [pc |-> "idle", of |-> NULL]
    /\ phase' = [phase EXCEPT ![vm.of] = "answered"]
    /\ TaskQueue!Put(ReturnTask(vm.of))
    /\ UNCHANGED <<runner, callbackQueue, frames, stack, pc, inv, returned, dispatched, done,
                   released>>

\* The image releases a worker nobody calls back through any more.
MayRelease ==
    /\ VMIdle /\ ~released
    /\ Worker \in callers => Outstanding = {}
    /\ \A v \in Invocations : phase[v] \in {"unused", "answered"}

\* primitiveReleaseWorker
Release ==
    /\ MayRelease
    /\ released' = TRUE
    /\ TaskQueue!Put(ReleaseTask)
    /\ UNCHANGED <<runner, callbackQueue, frames, stack, pc, inv, vm, phase, returned,
                   dispatched, done>>

CallbackStep(t) == Push(t) \/ AddPending(t) \/ EnterRun(t) \/ EnterWait(t) \/ Woken(t)

WorkerStep ==
    NextCall \/ RunCallout \/ EndCallout \/ SignalCaller \/ EndNestedRun \/ TakeRelease \/ FinishRun

VMStep == CheckOrder \/ PopStack \/ Exit

Next ==
    \/ \E t \in All, v \in Invocations : ReadStack(t, v)
    \/ \E t \in All : CallbackStep(t)
    \/ WorkerStep
    \/ \E c \in Callouts : Dispatch(c)
    \/ ReadNextCallback
    \/ \E v \in Invocations : CallbackReturn(v)
    \/ VMStep
    \/ Release

SafeSpec == Init /\ [][Next]_vars

\* Threads are scheduled, C functions return, and the image reads callbacks and
\* tries each one again until it returns.  It need not call or release.
Fairness ==
    /\ \A t \in All : WF_vars(CallbackStep(t))
    /\ WF_vars(WorkerStep)
    /\ WF_vars(VMStep)
    /\ SF_vars(ReadNextCallback)
    /\ \A v \in Invocations : SF_vars(CallbackReturn(v))

Spec == SafeSpec /\ Fairness

-------------------------------------------------------------------------------
(***************************************************************************)
(* Properties.                                                             *)
(***************************************************************************)
\* Every variable keeps its type, and a task or an invocation is never twice in
\* a queue.
TypeOK ==
    /\ isMainThread \in BOOLEAN /\ hasToQuit \in BOOLEAN /\ freed \in BOOLEAN
    /\ callers \in CallerSets
    /\ nestedRuns \in 0 .. 1 + Cardinality(Invocations)
    /\ IsInjective(queue) /\ IsInjective(callbackQueue)
    /\ callbackStack \in Invocations \cup {NULL}
    /\ previous \in [Invocations -> Invocations \cup {NULL}]
    /\ payload \in [Invocations -> BOOLEAN]
    /\ semaphore \in [Invocations -> {0, 1}]
    /\ pc \in [All -> {"next", "take", "code", "push", "put", "enter", "wait", "ended"}]
    /\ inv \in [All -> Invocations \cup {NULL}]
    /\ vm \in [pc : {"idle", "check", "pop", "exit"}, of : Invocations \cup {NULL}]
    /\ phase \in [Invocations -> {"unused", "entered", "read", "answered"}]
    /\ returned \subseteq Invocations
    /\ done \subseteq dispatched /\ dispatched \subseteq Callouts
    /\ released \in BOOLEAN

\* A callback never returns to its C caller before the image has returned it:
\* the run that ends is the run of the callback that was answered, however
\* callbacks nest.  callbackPrimitives.c:210-211 says what happens otherwise.
ReturnsInOrder == \A v \in returned : phase[v] = "answered"

\* Follows previous from callbackStack.
Linked[k \in 0 .. Cardinality(Invocations)] ==
    IF k = 0 THEN callbackStack
    ELSE IF Linked[k - 1] = NULL THEN NULL ELSE previous[Linked[k - 1]]

\* callbackStack holds exactly the callbacks that have entered and that the
\* image has not answered: none is lost, so none waits for ever, and it never
\* points into a C frame that is gone.
StackIsExact ==
    /\ TypeOK
    /\ {Linked[k] : k \in DOMAIN Linked} \ {NULL}
         = {v \in Invocations :
              /\ \A t \in All : inv[t] = v => pc[t] # "push"
              /\ phase[v] \in {"entered", "read"}
              /\ ~(vm.of = v /\ vm.pc = "exit")}

\* When the worker's thread ends nothing is left that waits for it: its queue
\* is empty and every callback of another thread has been woken.  On the main
\* thread it never ends: main would return, and the process exit under the VM
\* (worker.c:29-32).
NobodyLeftBehind ==
    pc[Worker] = "ended" =>
        /\ ~isMainThread
        /\ queue = <<>> /\ Outstanding = {}
        /\ \A t \in Foreign : pc[t] = "wait" => semaphore[inv[t]] = 1

\* Every callout is answered, and every callback returns, in the end.  A
\* released worker ends, and frees itself if it never ran a callback of its
\* own.  (If it did, nestedRuns never reaches 0 again: worker.c:191.)
CallsEnd ==
    /\ \A c \in Callouts : (c \in dispatched) ~> (c \in done)
    /\ \A v \in Invocations : (phase[v] = "entered") ~> (v \in returned)
    /\ (released /\ ~isMainThread)
        ~> (pc[Worker] = "ended" /\ (freed \/ \E v \in Invocations : phase[v] # "unused" /\ ~payload[v]))
=============================================================================
