# A TLA+ model of the Pharo virtual machine

This directory holds specifications of the concurrent core of the Pharo VM, the
C runtime under `src/src/` together with the parts of the interpreter
(`src/smalltalksrc/VMMaker/`) it talks to, and of two hand-written plugins
(`src/plugins/SocketPlugin`, `src/plugins/LargeIntegers`); of the process scheduler and the
generation scavenger, which the VM's C code is generated from; the TLC
configurations that check them on small instances; and theorems, checked by
TLAPS, that hold for every value of the constants.

The VM runs Smalltalk code on one thread. Around that thread there is a small
amount of hand-written synchronisation: asynchronous signals and I/O threads
that must wake a sleeping interpreter, a heartbeat thread, worker threads that
run foreign code and can call back into the image. Most of it is lock-free or
spread over several files, none of it can be tested by running it a few times,
and a mistake shows as an image that hangs or a C stack that is corrupt. That is
where the project starts.

## 1. The parts of the system

| Component | State | Operations | Talks to | What is hard about it |
|---|---|---|---|---|
| External semaphore signalling (`common/sqExternalSemaphores.c`) | request table, two *tides*, `checkSignalRequests`, `requestMutex` | `signalSemaphoreWithIndex`, `doSignalExternalSemaphores`, `ioSetMaxExtSemTableSize` | interpreter (`forceInterruptCheck`), `aioInterruptPoll`, every plugin | callers are threads *and* signal handlers; the scan and the signallers share the tides |
| Idle loop and poll wake-up (`unix/aio.c`, polling half) | `pendingInterruption`, `isPooling`, the signal pipe | `aioPoll`, `aioInterruptPoll`, `ioRelinquishProcessorForMicroseconds` | signallers, idle process, heartbeat | lock-free flag against flag; a missed wake-up is a hung VM |
| Heartbeat (`common/heartbeat.c`) | clocks, `polling`, `stoppedHeartbeat`, `heartbeatSemaphore` | `heartbeat_poll_enter/exit`, `heartbeat_wait_if_polling`, clock updates | interpreter, idle loop, tickers | must stop during long polls and always resume |
| Descriptor dispatch (`unix/aio.c`, other half) | list of `AioUnixDescriptor`, one-shot masks, the epoll set | `aioEnable`, `aioHandle`, `aioSuspend`, `aioDisable`, dispatch | socket, process and file plugins | handlers edit the list that is being dispatched |
| Thread safe queue, semaphores (`threadSafeQueue/`, `semaphores/`) | linked list, mutex, counting semaphore | `put`, `take`, `size`, `free` | workers, callbacks | semaphore and mutex taken in different orders |
| Threaded FFI (`ffi/worker/`, `ffi/callbacks/`) | worker, task queue, callback stack, callback queue | worker loop, callouts, callbacks, `primitiveCallbackReturn`, release | image processes, foreign threads | nested runs on one C stack, returns in any order |
| Same-thread FFI (`ffi/sameThread/`) | callback stack, `jmp_buf`s | callouts and callbacks on the VM thread | interpreter | `longjmp` out of the interpreter |
| FFI types and calls (`ffi/*.c`) | libffi type descriptions | define, validate, call | image | marshalling only |
| Named primitives (`common/sqNamedPrims.c`) | list of modules, their state | load, find, initialise, unload | image, plugins | how a module was loaded matters later and is not recorded |
| Tickers (`common/sqTicker.c`) | async and sync tickees | add, check, run | heartbeat thread, VM thread | edited by one thread while another runs them |
| Emscripten driver (`emscripten/`) | slice, sleep, yield requests | run slice, request yield or sleep | browser event loop, callbacks | a slice ends by `longjmp` |
| Process scheduler, event check (`StackInterpreter`, `InterpreterPrimitives`) | ready lists, `highestRunnableProcessPriority`, semaphores, sections, `stackLimit` | `checkForEventsMayContextSwitch:`, signal, wait, yield, suspend, resume, sections | all of the above | a cached priority, zombies on lists, a switch in the middle of an event check |
| Generation scavenger (`SpurGenerationScavenger`, `VMRememberedSet`) | eden, two survivor spaces, three remembered sets, lists threaded through corpses, the mourn queue | `scavenge:`, the write barrier, `dequeueMourner` | interpreter (roots), image (finalisation) | lists that grow while they are walked, ephemerons, bits used twice |
| Spur memory manager and full collectors | segments, free lists, mark stack | allocate, mark, compact, become | interpreter, JIT | pointers to be found and updated |
| Cogit (JIT) | method zone | compile, link, free | interpreter, memory manager | code generation |
| Image access (`imageAccess.c`) | file handle | chunked read and write | start-up, snapshot | short transfers |
| Sockets (`SocketPluginImpl.c`) | a private struct per socket, its descriptor, what it is watched for | create, listen, connect, accept, receive, send, close, destroy; handlers | image processes, aio, kernel | descriptor numbers are used again, one-shot watches, two processes on one socket |
| Name resolver (same file) | the lookup in flight, its answer, lookup threads, fork guard | start, status, abort, session changes, unload | lookup threads, signalling, `fork()` | late answers, forks, unloading under running threads |
| LargeIntegers (`LargeIntegersKernels.c`, `LargeIntegers.c`) | none between calls | multiply, divide, Montgomery product | image | estimates that are one or two off, carries, a choice among a dozen algorithms |
| Start-up, paths, memory mapping, debugging, other platforms' event loops, other plugins | | | | thin, sequential, or other implementations of the same service |

How they interact, in one paragraph: a plugin, a foreign thread or a signal
handler calls `signalSemaphoreWithIndex`, which counts a request, raises
`checkSignalRequests`, forces the interpreter to make an event check by lowering
`stackLimit`, and wakes the VM thread if it sleeps in `epoll_wait`. The event
check runs `doSignalExternalSemaphores`, which signals the semaphores of the
image. When no Smalltalk process can run, the idle process calls
`ioRelinquishProcessorForMicroseconds`, which polls. The heartbeat thread forces
an event check every beat unless the VM is in a long poll. A worker thread takes
callouts from a thread safe queue and answers each by
`signalSemaphoreWithIndex`; a C function that calls back queues an invocation
for the image, signals the image's callback semaphore and waits.

What correctness means for each part: *signalling*: every request for a
registered semaphore becomes exactly one signal, no handler deadlocks with its
own thread; *idle loop*: no announced request is slept over, the heartbeat always
resumes, wake-ups do not accumulate; *queue*: first in first out, each
element once, no node used after it was freed; *FFI*: a callback returns only
when it was answered, each callout is answered, nothing waits on a worker that
has ended; *dispatch*: an event goes to its descriptor or to nobody, and every descriptor gets
its turn; *sockets*: each descriptor has one owner, no handler meets a freed struct, a
waiting process is told; *resolver*: no stale answer and no stale signal, every lookup
ends; *large integers*: every algorithm gives the exact answer;
*modules*: a primitive is found only in an initialised plugin; *tickers*: a
deadline is met or cancelled, never both; *driver*: nothing a slice cut short
stays undone; *scavenger*: the image finds the graph it held, weak references to the dead are
cleared, an ephemeron fires once and only for a dying key, and every old object that refers
to a young one is remembered.

The full list, with files and status, is `components` in `PROJECT.json`; what is
hard to test in each, by line, is `hazards`.

## 2. The modules

    ExternalSignals          what signalling promises (abstract)
      ^ implemented by
    ExternalSemaphores       sqExternalSemaphores.c, signal masks, forced checks
      ^ proved about in      ExternalSemaphoresProofs
    IdlePoll                 aio.c (poll and wake-up), heartbeat.c (stop protocol)
      ^ proved about in      AioProofs
    Fifo                     what a queue promises (abstract)
      ^ implemented by
    TSQueue                  threadSafeQueue.c on its semaphores
      ^ proved about in      TSQueueProofs
    FFIWorker                worker.c, callbacks.c; uses Fifo for both its queues
      ^ proved about in      FFIWorkerProofs
    AioDispatch              aio.c (descriptors, handlers, one turn of dispatch)
      ^ instantiated by      MCAioDispatch
      ^ proved about in      AioProofs
    Sockets                  SocketPluginImpl.c (TCP), over AioDispatch's one-shot watches
      ^ proved about in      SocketPluginProofs
    Resolver                 SocketPluginImpl.c (name lookups, forks, unloading)
      ^ proved about in      SocketPluginProofs
    LargeIntegers            LargeIntegersKernels.c and its primitives
      ^ instantiated by      MCLargeIntegers
    Scheduler                StackInterpreter (processes, event check), sameThread.c
      ^ instantiated by      MCScheduler
      ^ proved about in      SchedulerProofs
    Scavenger                SpurGenerationScavenger, VMRememberedSet
      ^ instantiated by      MCScavenger
      ^ proved about in      ScavengerInvariant, and in ScavengerProofs, which extends it

`AioProofs` extends both models of `aio.c`, and `SocketPluginProofs` both models of the socket plugin. For
that the names the two would share are told apart in one of them: `PollInit`, `PollNext`, `PollSpec` and so
on in `IdlePoll`, `ResolverInit`, `SqNetworkInit` and so on in `Resolver`.

A seam runs between `ExternalSemaphores` and `IdlePoll`. The first takes
`aioInterruptPoll` as one step without effect of its own: it touches nothing the
module has. The second takes a signaller as what is left of
`signalSemaphoreWithIndex` once the table is out of sight: set the flag, force,
interrupt the poll. Each signaller of `IdlePoll` stands for one activation of
`ExternalSemaphores`. `FFIWorker` in turn uses the queues as `Fifo`, and
`TSQueue` shows that `threadSafeQueue.c` implements `Fifo`.

`aio.c` is cut between its two halves: `IdlePoll` is about when a poll wakes up,
`AioDispatch` about what is done with its answer. `Sockets` sees of `AioDispatch`
one step per event, the watch cleared and the handler run. That is what
`EventsNameLiveNodes` justifies: whatever other handlers of the batch did, an event
reaches the descriptor it was reported for or nobody. `Resolver` and `Sockets` share
`sqNetworkInit` and `sqNetworkShutdown`, each with the half it has the state of, and
nothing else. The signals both give are calls of `ExternalSemaphores`.

`Scheduler` begins where `ExternalSemaphores` ends. `Raise(external)` stands for any
number of requests, and the question of the event check for it is
`doSignalExternalSemaphores` as a whole. That a raised event is asked for in the end is
`Implements` there and fairness here.

### ExternalSemaphores

One action is one access to state another actor can see. An *activation*
`<<t, l>>` is what thread `t` runs at signal nesting level `l`.

| In the module | In the code |
|---|---|
| `requests`, `responses` | `signalRequests[i].requests/.responses` |
| `low`, `high`, `useTideA` | `lowTideA/B`, `highTideA/B`, `useTideA` |
| `check`, `mutex` | `checkSignalRequests`, `requestMutex` |
| `forced` | `stackLimit` lowered by `forceInterruptCheck` |
| `tableSize` | `numSlotsOf: ExternalObjectsArray`, which the image grows |
| `saved`, `mask`, `entry`, `handled`, `depth` | saved signal mask, the thread's mask, what the kernel restores, the handled signal, nesting |
| `Call`, `Block` ... `InterruptPoll`, `RestoreMask` | `signalSemaphoreWithIndex`, statement by statement |
| `VMEnter`, `VMRefuse` | the event check that a force leads to; see below |
| `VMBlock` ... `VMScanned` | `doSignalExternalSemaphores`, statement by statement |
| `Interrupt`, `HandlerReturn` | the kernel delivering a signal, `sigreturn` |
| `HeartbeatForce`, `GrowTable` | `forceInterruptCheckFromHeartbeat`; the image installing a larger `ExternalObjectsArray` |

`VMRefuse` is the check that answers without looking: an event check on the
activation of `ensure:`/`ifCurtailed:` restores the stack limit and returns
before it reads `checkSignalRequests`, so the force is spent and nothing
happens. The same outcome comes from `setStackPageAndLimit:`, which reads
`stackLimit` and writes it back and can overwrite a force that fell in between;
the model takes both as one action. `refused` remembers that the last force went
this way, since only the next heartbeat makes up for it.

Left out: the table growing after start-up (`NumSignalRequests` is a constant;
the comment at lines 87-94 of the source forbids it), and
`suppressHeartbeatFlag`, which only the debugging breakpoints of the JIT set.

### IdlePoll

| In the module | In the code |
|---|---|
| `check`, `forced` | as above |
| `pending`, `isPooling`, `pipe` | `pendingInterruption`, `isPooling`, bytes in the signal pipe |
| `polling`, `stopped`, `tokens` | `polling`, `stoppedHeartbeat`, count of `heartbeatSemaphore` |
| `micros`, `millis` | `microSecondsTimeout`, and `milliSecondsTimeout` as handed to `epoll_wait` |
| `SetCheck`, `ForceCheck`, `ReadPooling`, `WritePipe`, `SetPending` | tail of `signalSemaphoreWithIndex` and `aioInterruptPoll` |
| `Interpret`, `EnterCheck`, `RefuseCheck`, `EventCheck` | the interpreter between polls |
| `Relinquish` | the idle process, with any of `Waits` |
| `ExchangePending` ... `PollExit` | `aioPoll` and `aio_handle_events` |
| `FlushPending`, `FlushPipe` | `aio_flush_pipe` |
| `WakeUp`, `TestPolling`, `PassSemaphore`, `Beat` | the heartbeat thread and `heartbeat_wait_if_polling` |

A critical section of `heartbeatStopMutex` is one step: what it protects is not
touched outside but for one read by the VM thread, which is the only writer.
Memory order is program order, which the fences in `aio.c` provide. Clocks are
left out: how long the idle process waits is any member of `Waits`.

### TSQueue

A node at a time: allocating and filling it, locking, linking, unlocking, signalling
for `put`; waiting, locking, reading `first`, unlinking, unlocking, freeing for
`take`; the walk of `size`. Node memory is reused, so a stale pointer is a
pointer to somebody else's node. `blocking` says whether the queue was built on a platform
semaphore (the worker's task queue) or on a Pharo semaphore (the callback
queue), on which `wait` does nothing and `take` may find the queue empty.

### FFIWorker

`frames` is the C stack of the worker: runs of `worker_run` and callouts,
alternating. A callback made by the worker waits in a nested run; a callback
made by another thread waits on a semaphore of its own. `callbackStack` and
`previous` are the linked list through the invocations, which live in C frames.
`phase` is how far the image is with each invocation.

| In the module | In the code |
|---|---|
| `ReadStack`, `Push`, `AddPending`, `EnterRun`, `EnterWait`, `Woken` | `callbackFrontend`, `worker_callback_prepare`, `worker_enter_callback` |
| `NextCall`, `RunCallout`, `EndCallout`, `SignalCaller`, `EndNestedRun`, `TakeRelease`, `FinishRun` | `worker_run`, `worker_next_call`, `executeWorkerTask` |
| `Dispatch`, `ReadNextCallback`, `Release` | `primitivePerformWorkerCall`, `primitiveReadNextCallback`, `primitiveReleaseWorker` |
| `CallbackReturn`, `CheckOrder`, `PopStack`, `Exit` | `primitiveCallbackReturn`, `worker_callback_return` |

The image is part of the environment, and `worker.c` relies on it more than it
says. What the model lets the image do is therefore stated as guards:

* `MayUseWorker`: with `CallsOverlap = FALSE` the image dispatches a callout, or
  answers a callback of the worker, only while every callout it waits for has
  itself called back. This is one image process using the worker in the way of
  ordinary nested calls. With `CallsOverlap = TRUE` there is no such guard; see
  the finding below.
* `MayRelease`: a worker is released when every callback is answered and, if
  the worker itself may call back, no callout is outstanding; nothing calls back
  after the release. `worker_next_call` sleeps one second for late returns;
  the model does not rely on that second.
* In `ffi_worker` the callbacks come either from the worker or from one
  foreign thread. With both at once `StackIsExact` does not hold, because nothing
  synchronises the push at `callbacks.c:24-25`; this is listed as a hazard.

The payload of a returning callback is read when its task is taken, which
is as good as reading it later, since it never changes once set.

### AioDispatch

All of it runs on the VM thread. What is interleaved is one turn of dispatch with
the interface that its handlers call; between turns the image calls the same
interface.

| In the module | In the code |
|---|---|
| `descriptorList`, `node` | the list, newest first, and the memory of its `AioUnixDescriptor`s |
| `retired`, `nextRefused` | `retiredDescriptors`, `nextRefusedPosition` |
| `at`, `batch` | the loop over `incomingEvents`; `at = "image"` is `dispatchDepth` 0 |
| `kind` | what `epoll_ctl` says of a descriptor: pollable, `EPERM`, `EBADF` |
| `AioEnable`, `AioHandle`, `AioSuspend`, `AioDisable`, `AioFini` | the interface, whole calls |
| `Refused`, `FromNext`, `Wrapped`, `Taken`, `NextPosition` | the rotation in `fillEPollDescriptor` |
| `Watched`, `MayReport`, `Ready`, `Answers` | what the kernel may answer `epoll_wait` |
| `Poll`, `SkipEvent`, `TakeEvent`, `ReadReturns`, `CallWrite`, `WriteReturns`, `EndBatch` | `aio_handle_events` |

Enabling a descriptor that is listed already only renews its client, which the
model does not distinguish. No handler under `src/` polls, so `dispatchDepth` is 0
or 1; `aioSuspend` has no caller there and is modelled all the same. Out of memory in
`epoll_ctl` is tried again next turn: to a client it is a descriptor that reports
nothing.

Two limits of the code are worth knowing, and neither contradicts a text in it. The
rotation counts positions among the armed and refused descriptors of this turn, so
`RefusedAreReported` supposes that each is armed again by the next turn; a client that
re-arms late can be passed over again and again. And a fresh epoll set reports in
the order of its additions, so with more ready pollable descriptors than fit in the
array the last ones wait.

### Sockets

`sock` is the socket object with its private struct, `kernel` what is behind a
descriptor, `aio` the descriptor's entry in `AioDispatch`, `waits` and `signals` the
processes of the image and their semaphores. One action is a primitive or the whole
of a handler, since both run on the VM thread without a break; the kernel and the
other end move in between.

| In the module | In the code |
|---|---|
| `AcceptError`, `AcceptAborted`, `AcceptFails`, `Accepts` | the four ways through `acceptHandler` |
| `ConnectHandler`, `SendHandler`, `DataHandler`, `GhostData` | the other handlers; `GhostData` finds nothing to read |
| `HangUpUnheard` | an event that clears the watch and calls nobody |
| `Create` ... `Destroy` | the primitives |
| `Wake` | a process wakes and asks `sqSocketConnectionStatus`, `sqSocketReceiveDataAvailable` or `sqSocketSendDone`, as `Socket` does in the image |
| `NetworkShutdown` | sockets of the old session are invalid for good; their descriptors leak |

Assumed of the image: it listens or connects on a new socket only, reads and writes when
it has seen the socket connected, and lets a socket whose `accept` failed go when it
reads the status. The last one matters: `acceptHandler` closes the descriptor
and leaves its number in `pss->s` (lines 624-631), so destroying such a socket without
looking would close whatever has the number by then. With `Overlap = TRUE`
one process may wait to read a socket while another waits to write it; `WaitersAreTold`
then fails, as the second `aioHandle` replaces the first (see section 4). A blocked
sender whose peer shuts down its side is excused too, for `HangUpUnheard` takes its watch.

Left out: UDP and raw sockets (a blocked UDP send arms nothing), `closeHandler` and
asynchronous close, which `close` on Linux does not lead to, socket options, addresses.

### Resolver

| In the module | In the code |
|---|---|
| `lookup` | `thisNetSession` (whether there is one), `resolverSema`, `lookupBusy`, `lastError`, `lookupGeneration`, `resolverMutex`, `resolverPid` |
| `lookup.wanted`, `lookup.answer` | which lookup was begun last, and which one `lastName` and `lastAddr` come from |
| `guard` | `forkGuardInstalled`, `forkGuardMutex`, `lookupsRunning` |
| `job`, `used` | `lookupJob`s and the threads that run them; `lookupWorkers[].used`; job 0 is the VM thread, inline |
| `StartLookup`, `ResolverAbort`, `ResolverStatus`, `SqNetworkInit`, `SqNetworkShutdown`, `SocketShutdown` | the primitives, each one step once the mutex is free |
| `Count` ... `Return` | `lookupWorker` and `finishLookup`, access by access |
| `Fork`, `ForkGuardPrepare`, `ForkGuardParent`, `ForkGuardChild` | `fork()` on the VM thread with its handlers |

The answer to lookup `g` is `g`: that is all the properties tell apart. After a fork the
behaviour follows the parent or the child, which share nothing. Joining a thread that has
set `done` is one step. Unloading is glibc's case, where the handlers go with the
module; elsewhere the module stays and there is nothing to check. A module that was
unloaded is not loaded again.

### LargeIntegers

A vector of `n` limbs is a number below `B^n`. What a loop over limbs computes is
arithmetic modulo `B^n` with the carry that comes out, so every carry or borrow the
code keeps, drops or propagates is visible; the inner loops are not walked limb by limb. The
algorithms are recursive operators with the code's case distinctions: the choice
among the 32-bit loops, schoolbook, Karatsuba and unbalanced pieces, two squarings,
algorithm D with its reciprocal, Burnikel and Ziegler's division with its corrections,
and the two Montgomery products. `call` is a call of the primitive and then its answer.

Left out: sizes of scratch memory (that it cannot be had is modelled), byte order,
normalisation of results, and the primitives for sums, shifts, comparison and bits.

### Scheduler

The green processes of the image. A linked list is a sequence of processes; the lists of
the scheduler are numbered by priority. One action is a whole primitive, since nothing
interrupts one, but the event check takes one step per event: in between another process may
be active, and other threads raise events.

| In the module | In the code |
|---|---|
| `sched.ready`, `sched.waiting`, `sched.myList` | `quiescentProcessLists`, the lists of semaphores and sections, `myList` of each process |
| `sched.active`, `sched.highest` | `activeProcess`, `highestRunnableProcessPriority` (0 when unknown) |
| `excess`, `owner` | the third field of a `Semaphore` and of a `Mutex` |
| `PutToSleep`, `Queue`, `Join`, `RemoveFirst`, `RemoveProcess` | `putToSleep:yieldingIf:`, `addFirstLink:toList:`, `addLastLink:toList:`, `removeFirstLinkOfList:`, `removeProcess:fromList:` |
| `GiveUp` with `Top`, `Found`, `Woken` | `transferTo: self wakeHighestPriority`, evictions included |
| `Resume`, `SynchronousSignal` | `resume:preemptedYieldingIf:from:`, `synchronousSignal:` |
| `Signal`, `Wait`, `Enter`, `TestAndSet`, `Exit`, `Yield`, `SuspendActive`, `Suspend`, `ResumeParked` | the primitives |
| `EnterCallback`, `CallbackReturn` | `callbackFrontend` with `ptEnterInterpreterFromCallback:`; `primitiveCallbackReturn` with `ptExitInterpreterToCallback:` |
| `callouts`, `callbackStack` | the chain from `SuspendedProcessInCallout`, the runner's `callbackStack` |
| `CheckForEvents`, `CheckNext` | `checkForEventsMayContextSwitch:`, one question at a time |
| `dead`, `Die` | processes whose `suspendedContext` is not live: zombies |

`told`, `parked`, `preempted` and `inverted` are history: who was told that it is in a section,
whom the image suspended, who was preempted, and whether the active process went on by
a way that does not ask for priorities (a returning callback, a lowered priority).

Assumed of the image: it resumes only processes it has suspended, or never resumed, and that
have a context (`primitiveResume` itself checks the context only, and would put a process that
waits on a second list); the idle process does not wait, enter, suspend itself or call out;
a section is left by a process that was told it is inside; and, in the runs, no
process yields when all others of its priority are zombies (`YieldsBesideDead`), and none is
suspended while it is queued at a section (`SuspendsEnterers`). Section 4 says what happens
otherwise.

Left out: forwarders, `effectiveProcess` (the arguments of the two section primitives),
checks that may not switch, the semaphores of the profiler and of long-running primitives,
`signalNoResume:`, which has no caller, and the links of a list.

### Scavenger

A scavenge of new space. Objects are cells of one size at addresses in the order of the
memory map (survivor spaces, eden, old space, permanent space), of four kinds: `plain`, `leaf`
(no pointers), `weak` (one strong slot and one weak) and `ephemeron` (key and value). The heap and the
collector's lists are one record, `mem`; a method that calls others is an operator from a
memory to the memory it leaves, as `CopyAndForward` or `ScavengeReferentsOf`, and each turn of
one of the collector's loops is an action, with `pc` the loop and `at` the place in it.

| In the module | In the code |
|---|---|
| `heap`, kind `forwarded` | objects; a corpse with its forwarding pointer |
| `bits` | `isRemembered`; the three bits a reference count borrows in `TenureToShrinkRT` |
| `past`, `survivorStart`, `freeStart` | `pastSpace`, `futureSurvivorStart`, `freeStart` |
| `rememberedSet`, `previousSize`, `ephemerons` | the set from old space, `previousRememberedSetSize`, `numRememberedEphemerons` |
| `permToNew`, `permToOld` | the two sets from permanent space |
| `weakList`, `ephemeronList` | the lists threaded through corpses |
| `mournQueue`, `finalizations` | `mournQueue`, `pendingFinalizationSignals` |
| `threshold`, `criterion`, `shrinkCount` | `tenureThreshold`, `tenureCriterion`, `refCountToShrinkRT` |
| `at.todo`, `at.kept`, `at.scanned` | the old list, the part of it that stays, `unfiredEphemeronsScavenged` |
| `roots` | what the interpreter's stack and registers hold |

Between scavenges the image allocates, stores any object it can get at into any other (through
the write barrier), takes mourners and lets go of roots. `before` is history: the heap and the
roots when the scavenge began. The properties are told from it, not from the algorithm:
`HeldWith` says what a set of ephemerons taken as ordinary objects keeps alive, and
`GraphIsPreserved` and `EphemeronsFireForTheDying` compare that with what the collector left.

An ephemeron whose key an earlier fired one has saved does not fire in that scavenge
(`queueMourner:` says so: "that's life"). The property allows it; what it does not allow is to
fire for a key that is held otherwise, or to leave one whose key nothing but the fired ones
does not hold.

Left out: forwarders of `become:` (so the branch of `processWeaklings` that remembers a tenured
weak object is never taken: `copyToOldSpace:bytes:format:` has remembered it), object sizes and
bytes of compiled methods, `MarkOnTenure`, growth of old space and of the sets, class tables, the
stack pages and machine code as roots, and the pages of the mourn queue. It is assumed that old
space has a chunk for whatever is tenured: `ImagesAssumption` bounds an image's objects by the cells of old space,
as growing old space would. It also says that permanent space holds neither weak objects nor ephemerons,
which `mapOopsFromPermSpace` denies of each it meets.

## 3. What is checked

| Run | Specification | Instance | Shows |
|---|---|---|---|
| `ext_sem` | `ExternalSemaphores!Spec` | VM thread and one more, one signal, handlers nesting two deep, 2 entries of which 1 registered, 3 calls | `NoLostRequest`, `CheckIsSeen`, `NoSelfDeadlock`, `NoReentry`, and `Implements`: each request becomes one signal, and does |
| `idle_poll` | `IdlePoll!PollSpec` | 2 signallers, waits of 500, 1000 and 20000 us, pipe of 2 bytes | no missed wake-up, heartbeat never stuck, requests answered, wake-ups spent |
| `tsqueue` | `TSQueue!Spec` | 2 producers, 2 consumers, 3 nodes, 2 elements, 3 puts | one owner per node, exact counts and no take that finds nothing, a Fifo, drained |
| `ffi_worker` | `FFIWorker!Spec` | worker and one foreign thread, either calls back, 3 callouts, 2 callbacks | order of returns, exact stack, everything answered, clean release |
| `callback_order` | `FFIWorker!SafeSpec` | overlapping calls, 2 callouts, 2 callbacks | violated: a callback returns unanswered |
| `aio_dispatch` | `AioDispatch!Spec` | 2 regular files, 1 pollable descriptor that may be closed underneath, 3 nodes, 4 events a turn | events go where they belong, the batch fits, nobody refused starves |
| `sockets` | `Sockets!Spec` | 2 sockets, 2 descriptor numbers, one waiting process a socket | watches and descriptors have one owner, waiting processes are told |
| `resolver` | `Resolver!ResolverSpec` | 2 lookup threads, 2 sessions' semaphores, 4 generations | answers and signals are current, unloading is safe, lookups end |
| `large_integers` | `LargeIntegers!Spec` | 2-bit digits, 2 a limb, up to 11 digits by 6 | all answers exact |
| `scheduler` | `Scheduler!Spec` | idle process, two of one priority, one above; 2 semaphores, 1 section, 2 events, 2 nested callbacks, a restart | nobody passed over, everybody in one place, sections exclusive, turns kept, callbacks return home |
| `scheduler_events` | `Scheduler!Spec` | the same with `preemptionYields`, no zombies, no changing priorities, no restart | an event wakes the process that waits for it |
| `scavenger` | `Scavenger!Spec` | 12 images, survivor spaces of 2 cells, eden of 6, old space of 6, 1 permanent object, 2 criteria and the one the collector chooses, up to 2 stores and 2 scavenges | the graph is preserved, ephemerons fire for the dying, remembered sets are sound, scavenges end |

### Why the bounds are enough

* Two threads and two levels put a handler over a handler over a call, on the
  VM thread and beside it. The mask properties speak of two activations
  of one thread, the lock of any two. Three calls are the fewest that raise
  the two ends of a tide separately and leave one for the other tide. Of two
  entries one is beyond the table of the image until that grows; an entry between
  the ends of a tide that nobody asked for needs a third, and is left to the theorems. Signals with `SA_NODEFER` (`NoDefer`) and more than one signal are
  covered by the theorems of section 5. `MaxTide` is the real `INT_MAX`: it is a
  marker, not a range. `MaxCalls` and `MaxNesting` are bounds of the model;
  the theorems of section 5 hold for every value of them.
* 500, 1000 and 20000 microseconds are below, at and above the boundary of one
  millisecond at which both the heartbeat stop and the conversion for epoll change
  their minds. A pipe of two bytes can be empty, partly full and full. `MaxTokens`
  caps the count of the heartbeat's semaphore: a signal beyond it is dropped, and no
  property distinguishes two spare tokens from more.
* Three nodes for three puts let a node be freed and used again while another
  thread still holds a pointer from before. Two consumers can both be
  between semaphore and mutex.
* Two invocations make the shortest stack on which order matters; three callouts let
  one run under each callback and one after.

* `aio_dispatch`: a turn reports two refused descriptors, so three (two files and one
  closed underneath) are the fewest that need the rotation, and four events leave room
  for both kinds in one batch. Three nodes for three descriptors
  make a freed node the next one to be used.
* `sockets`: two descriptor numbers let a number be used again while an event, a watch or
  an accepted connection still names it, and let `accept` find none left; two sockets are a
  listener and its connection, or two ends of a quarrel about one number.
* `resolver`: two threads let a superseded lookup finish after its successor, or both
  entries be taken so that a third runs inline. Four generations (`MaxGeneration`: each
  start, abort or shutdown makes one, as does a child's first use of the resolver) hold
  two lookups, an abort between them and a shutdown.
* `large_integers`: the digits are the extreme ones, 0, 1 and all ones, where estimates
  are off and carries go far; the thresholds are lowered as the C tests lower them
  (`LI_TUNABLE`). Every branch of the model is taken but two: the second correction of
  `liDiv2by1`, which four-bit limbs never need, and Burnikel and Ziegler's recursion
  deeper than one level, beyond 32-bit integers.

* `scheduler`: two processes of one priority make an order on a list, one above them and one
  below make preemption and its return; two callbacks the shortest chain with an order.
  `MaxExcess` caps the signals a semaphore may hold with those raised for it
  (the limits of a small integer are far away), `MaxCallouts` the callbacks that are
  open, `MaxStarts` the times the image is started. Only `a` may become a zombie and be
  suspended by others, only `b` changes its priority: the two are alike otherwise.

* `scavenger`: survivor spaces of two cells overflow with the third survivor, so tenuring in
  the middle of a scavenge is the common case, and the age threshold is passed. Ten images give
  the mutator one to three births and one or two stores, each image with other kinds where they are
  rare: old ephemerons, old weak objects, permanent objects, two scavenges. A remembered set of two
  is in the red zone. Two images start with a full eden, wired so that scanning one
  ephemeron leads to another ephemeron or to another's key: states the other ten would need too
  many births and stores to reach.

Each property was tried against a plausible bug in the code it is about
(`mutants` in `PROJECT.json`; the mutated definitions stand in the modules
before the originals): a missing `pthread_sigmask`, the `else` between the two
tide comparisons, the recheck of `aioPoll` skipped, a missing retry of
`sem_wait`, `first` read before the mutex, and so on. TLC finds each one.

### Fairness, and why the code justifies it

* Threads are scheduled (weak fairness of each thread's step), and signal
  handlers return.
* A thread waiting for `requestMutex`, or for a queue's semaphores, gets it in
  the end though others keep taking and giving it back (strong fairness): the
  semaphores of the C library, which wake a waiter when the count is raised.
* The heartbeat beats (weak fairness of `HeartbeatForce`, `HeartbeatStep`). In
  `IdlePoll` this includes waiting, so it does not assume what
  `HeartbeatResumes` shows.
* Among forced event checks there are always some that may switch (strong fairness
  of `VMEnter`, `EnterCheck`): a refused check needs an activation of one particular
  kind of method, and the process that runs it goes on to other methods.
* `epoll_wait` returns when the pipe holds a byte or its timeout is zero, and no
  sooner is it *obliged* to. No timeout is assumed to expire, no descriptor to
  become ready, so a liveness property of `IdlePoll` is owed to the wake-up alone.
* In `FFIWorker` C functions return, the image reads its callbacks and tries
  `primitiveCallbackReturn` again until it succeeds, as its callers in the image
  do. Nobody is obliged to call, to call back or to release.
* Signallers of the other modules are never obliged to signal either.
* `AioDispatch`: the VM polls again and handlers return (weak fairness of `Poll`, `Turn`).
  epoll is obliged to report nothing.
* `Sockets`: an event that is there is dispatched and a process whose semaphore was
  signalled runs (weak fairness of `Dispatch`, `Wake`). The other end owes nothing.
* `Resolver`: lookup threads run, `getaddrinfo` returns, and a thread gets `resolverMutex` or
  `forkGuardMutex` though the VM thread takes them again and again (strong fairness of each
  thread's steps); a fork goes on; and the image polls `sqResolverStatus` while it waits for a
  lookup (strong fairness, since other primitives of the image come in between). Without
  the poll a child would never notice that its parent's lookup is lost.
* `Scheduler`: the heartbeat forces event checks and a check runs to its end (weak fairness of
  `CheckForEvents`, `CheckNext`). No process is obliged to do anything.
* `Scavenger`: the scavenge the interpreter called goes on (weak fairness of `Collect`): it is a
  loop on the VM thread. The image is obliged to nothing.

A type invariant is a theorem (`TypeCorrect`) in the modules that have proofs, and part of the
first invariant of a module where a run checks it (`NodesHaveOneOwner`, `StackIsExact`,
`EventsNameLiveNodes`, `DescriptorsAreOwned`, `OnePlace`, `RememberedSetsAreSound`).

TLC looks for deadlocks in every run but six. In the two of `FFIWorker` all callouts may be
over and the worker ended: there the system stops by design, and `NobodyLeftBehind` with
the liveness properties says that nothing else does. In `resolver` the module may be
unloaded; in `sockets` two networks that were shut down may have leaked both descriptors; in
`large_integers` a call has one answer; in `scavenger` the image may have nothing left to
do. `LookupsEnd` and `WaitersAreTold` say what must not stop.

## 4. Findings

**A callback can return before the image has answered it** (`callback_order`).
`callbackPrimitives.c:210-211` refuses to return any but the newest callback,
because anything else "would produce a stack corruption". A
`CALLBACK_RETURN` task does not say which invocation it is for, however, and
`worker_run` ends for whichever it takes (`worker.c:190-191`). If two image
processes share a worker, a callout of the second may run in the nested run of
the first one's callback and call back itself, after the image has queued the
return of the outer callback and before the worker takes it. The inner nested
run then takes that return.

Other departures from what a text or a reader expects, which no run is spent on:

* *The heartbeat runs inside a poll.*
  `heartbeat.c:586-588` says "The heartbeat should not run if we are in a poll".
  `stoppedHeartbeat` is set at line 599 when the heartbeat first waits, and never
  cleared. From then on `heartbeat_poll_exit` signals the semaphore after every
  long poll, though nobody waits, and the next time the heartbeat does find a
  poll it passes at once on the token left over (`HeartbeatHeldDuringPoll` of
  `IdlePoll` is violated). An idle VM is woken more than it should be; no answer is wrong.

* *An interest in a descriptor is neither cumulative nor lasting.*
  `aio.h:55-69` promises that only "the handled event is removed implicitly from the
  current mask", and that "Calls to aioHandle are cumulative". `aio.c:450` clears the whole
  mask for any event, though `EPOLLHUP`, `EPOLLERR` and `EPOLLRDHUP` come unasked and alone
  call no handler, and `aio.c:594-596` replaces mask and handlers. So the reader of a pipe
  that is closed without a byte is never told, and a process that blocks in a send ends
  the watch of one that waits to read the same socket (`Sockets` with `Overlap = TRUE`).
* *A process that yields beside zombies is lost.* `primitiveYield` puts the active process on its
  ready list. Its `suspendedContext` is nil as long as it is active, so
  `wakeHighestPriority` discards it if the search comes to it: "Only answer processes with a
  runnable suspendedContext. Discard those that aren't" (`StackInterpreter.class.st:16086-16087`).
  The search does when all others of its priority lost their context while they were
  ready. With `YieldsBesideDead = TRUE`, `OnePlace` is violated.
* *A suspended process enters a section that is not its own.* `primitiveEnterCriticalSection`
  pushes its answer, false for "entered", before the process waits
  (`StackInterpreter.class.st:10764-10765`). `primitiveSuspend` takes a process off that list
  like off any other. Resumed, it goes on with the answer false, inside a section another
  process owns. With `SuspendsEnterers = TRUE`, `MutualExclusion` is violated.
* A worker that ever ran a callback of its own is never freed, since `worker.c:191` returns
  past `nestedRuns--`. The last part of `CallsEnd` excuses these workers.
* Pushes on the callback stack from two threads can lose one of them (`callbacks.c:24-25`).

## 5. What is proved

All theorems are about the safety of a specification. They assume what the module assumes of its constants
(`ConstantsAssumption`, `PollAssumption`, `ResolverAssumption`; in `Scavenger` `SizesAssumption`,
`SlotsAssumption` and `ImagesAssumption`), which the runs evaluate, and nothing else, but for four of `SchedulerProofs` and those of `FFIWorkerProofs`, which state a hypothesis told below.

`ExternalSemaphoresProofs`, for any number of threads, signals, entries and calls,
and any nesting:

* `TypeCorrect`: `TypeOK`. It is not inductive: the scan stays in the table
  because of who is where. `TypeInv` adds that a signaller's index is an
  entry (`IdxInv`), that only the VM's own code scans (`VMInv`), and that a
  response goes to an entry the scan has reached (`ScanInv`).
* `SelfDeadlockFree`: `NoSelfDeadlock`, from `LockInv`. `MutexInv` is mutual
  exclusion; `MaskInv` says that from `blockAsynchronousSignals` to the restore an
  activation has every signal blocked *and is the deepest of its thread*. The second half
  follows from the first at every `Interrupt`, and gives the theorem.
* `HandlersDoNotNest`: `NoReentry`, from `NestInv`. A handler's signal must
  stay blocked not only now (`MaskKeeps`) but after every handler above it
  returns (`EntryKeeps`) and after every restore under way (`SavedKeeps`):
  wherever a mask is put aside it contains the signals of all handlers below.
* `NoRequestLost`: `NoLostRequest`, with `TypeInv` and `LockInv`. The property is
  inductive relative to them: each action moves a pending request from the hand
  of its signaller to the tide in use, from the tide to the scan, or answers it.
  Mutual exclusion is what lets the VM exchange the tides.
* `FlagIsSeen`: `CheckIsSeen`, the same way.
* `RefinesExternalSignals`: `SafeSpec => Abs!SafeSpec`, every step is a request, a
  delivery allowed by the abstract module, or a stutter. `AccountInv` relates
  deliveries to responses, one ahead between the signal and the increment, and
  never beyond requests.

`AioProofs` on `IdlePoll`, for any signallers, waits and capacity of the pipe:

* `PollTypeCorrect`, `WakeupNeverMissed` and `HeartbeatNeverStuck`, from one inductive invariant
  `PollIInv`. It adds `PoolingInv`: from its publication to the end of the poll
  `isPooling` is set. A signaller that has set the flag after the VM's last look
  therefore finds it set, and writes its byte.

`SocketPluginProofs` on `Resolver`, for any number of lookup threads, any semaphores and any bound on the
lookups begun: `ResolverTypeCorrect`, `AnswersAreCurrent`, `UnloadIsSafe` and
`SignalsAreCurrent`. The invariant `ResolverIInv` behind them (`ResolverInvariance`) has these parts:

* `Counting`: `lookupsRunning` is the number of threads that have counted themselves
  and not yet left. A fork therefore finds no thread past `Count`, and the type of the
  counter, a natural number, depends on it.
* `Inline`: a lookup on the VM thread itself looks up or finishes, but never counts, and
  the fork guard knows nothing of it.
* `Threads`: a thread that runs has an entry of `lookupWorkers`, the module is loaded and
  the resolver is its own process's; its generation was given out. `UnloadIsSafe` follows.
* `OneGeneration`: no two threads work for one generation.
* `Locking`: one thread at a time is between `LockAnswer` and `UnlockAnswer`, and it holds
  `resolverMutex`.
* `Current`: until it has signalled there, a thread's generation is that of the resolver
  and its semaphore that of the session, because no abort, start or shutdown gets the
  mutex. A lookup that is current and not yet answered keeps the resolver busy.
  `SignalsAreCurrent` follows.

`ResultIsOfLastLookup` is inductive relative to these: the one step that makes the resolver
look idle and successful is `ClearBusy`, by the thread that has stored the answer wanted.

`SchedulerProofs`, for any processes, priorities, semaphores, sections and events:
`TypeCorrect`, `NobodyIsPassedOver`, `NobodyWaitsInVain` and
`CallbacksReturnToTheirCallouts`, whose inductive invariant `IInv` is the conjunction of the four.
The lemmas at the front say what each operator does to the scheduler's record: which list it
changes, and that it keeps `Above`, which is `NobodyPassedOver` of a record. `Above` survives
`Woken` because the lists above the one found were emptied by the search, and `Join` because
`primitiveYield` adds only to a list that is not empty. `ReturnsToItsCallout` survives a
restart because the chain only gets longer than the stack.

Three more hold when no process yields beside zombies (`YieldsBesideDead = FALSE`), and the fourth
when besides none is suspended while it queues at a section (`SuspendsEnterers = FALSE`); without
the hypotheses the code violates them, as section 4 tells.

* `EveryProcessHasOnePlace`: `OnePlace`, from `PlaceInv`. `Tidy` says of a record and a set of
  processes that these are on no list, and each other one that is not dead on one list, once, the one its
  `myList` names. The lemmas tell which operators keep a record tidy, and who
  joins or leaves that set. The search of `wakeHighestPriority` is the hard one:
  it discards who has no context, and `Guarded` says that it finds another before
  it comes to the active process. That fails if a process yields beside zombies.
* `ThePreemptedKeepTheirTurn`, from `TurnInv`: on each ready list the preempted come first
  (`Turns`). Whatever else joins a ready list joins at its end.
* `TheHighestRuns`: `HighestRuns`, from `RankInv`: nobody is ready above the active process
  (`Ruled`), unless it went on by a way that does not ask for priorities.
* `SectionsExclude`: `MutualExclusion`, from `SectionInv`: who has been told that it is inside a section,
  or will find so when it wakes, owns it or queues for it.

`TSQueueProofs`, for any producers, consumers, nodes and elements: `TypeCorrect`, `EveryNodeHasOneOwner`
(`NodesHaveOneOwner`), `CountsAreExact` (`CountExact`) and `QueueIsFifo`, that is
`SafeSpec => ImplementsFifo`. The inductive invariant says that there *is* a sequence of
distinct nodes which `first`, `last` and `next` represent (`IsList`); a put appends to it, a take cuts its head
off. Who is between taking the mutex and giving it back is alone (`MutexInv`), the node a thread has
in hand is on no list (`NodeInv`), and the elements in the list are those signalled, about
to be signalled, or claimed by a consumer that has not taken its own yet (`SemaphoreInv`). The properties follow the
links with a recursive function; that the walk visits that sequence is shown by looking at the
first place where it would not (`Smallest`).

`AioProofs` on `AioDispatch`, for any descriptors, nodes, kinds of descriptor and size of the batch: `TypeCorrect` and
`EventsReachTheirDescriptors` (`EventsNameLiveNodes`). The invariant has three parts besides the
type: `ListInv`, no descriptor is in two nodes and a node outside the list is nobody's; `TurnInv`, between turns
nothing is retired and no event left; and `BatchInv`, an event left in the batch names a node that is listed or retired
and has the number the event was reported for, or none. `Select` keeps the elements of a sequence that pass a
test, as `SelectSeq` does; it is told from the places that pass, since the definition of the
library recurses where the prover cannot follow.

`SocketPluginProofs` on `Sockets`, for any sockets, descriptor numbers and peers: `TypeCorrect`, `OneSocketPerDescriptor`
(`DescriptorsAreOwned`) and `HandlersMeetTheirSocket` (`WatchesAreOwn`). The two properties are not inductive:

* `HoldInv`: the descriptors a socket holds are open, and a connection not accepted yet is
  another one than its own;
* `StageInv`: what a socket in a state has: one that listens for many connections and is connected has
  one to be accepted, a fresh descriptor no listener's flags;
* `WatchInv`: whom a watch names holds its descriptor, and is at the stage its handler is
  for. A number that was closed is given out again without a watch.

An action disturbs one socket, two at an accept: `Changes` says so once, and each action's lemma
shows the parts for that socket and cites it for the others.

`FFIWorkerProofs`, for any callouts and any memory for callbacks, and callbacks that nest as deep
as these allow: `TypeCorrect`, `CallbacksReturnInOrder` (`ReturnsInOrder`), `CallbackStackIsExact`
(`StackIsExact`) and `NobodyIsLeftBehind` (`NobodyLeftBehind`). Their hypothesis `OneAtATime` is what
`ffi_worker` runs with: calls do not overlap, and at most one thread calls back, the worker or another.
Without the first the code violates `ReturnsInOrder` (`callback_order`), without the second
`StackIsExact` (section 4). The inductive invariant says that there *are* a sequence `cs` of
callouts and a sequence `act` of callbacks, those that wait on some C stack, such that:

* `FrameInv`: the worker's frames are a run, a callout, a run and so on: the callouts are those of `cs`
  and each nested run waits for the callback of `act` at its depth. `ActInv` relates the two
  lengths by the worker's next step.
* `StackInv`: `callbackStack` and `previous` link the callbacks of `act`, the newest first, or
  all but the newest from the image's pop until that callback returns.
* `PhaseInv`: all of `act` but the newest were read by the image and not answered.
* `VMInv`, `TaskInv` and `TurnInv`: a return task is for the newest callback, and while the
  worker calls back itself it is the only task: the image answers, or asks for another callout, only
  when the worker is `Quiet`, with no task and every callout in a callback that was read. That is
  what `MayUseWorker` gives (`MayUseQuiet`), by counting callouts and callbacks.
* `ReleaseInv`: a worker that was told to quit had been released, with no callback open.
* `RunsInv`: `nestedRuns` counts the callbacks that ever entered a nested run, and the first run.

The run that takes a return task is therefore the one of the callback that was answered. That
`Linked` visits exactly the callbacks of `act` (`Walk`) is shown as in `TSQueueProofs`.

`ScavengerInvariant` and `ScavengerProofs`, for spaces of any sizes, any images, any sizes of objects of each
kind and any of the criteria: `TypeCorrect` (`TypeOK`), `RememberedSetsStaySound`
(`RememberedSetsAreSound`) and `NothingIsEverLeftBehind`: when the last scan of a scavenge is done, no slot, strong or
weak, of an object that stays refers to what `exchangeSurvivorSpaces` is about to free, and
no root or mourner does. All three follow from `Inductive`, that the invariant `Inv` always holds. A scavenge
is a walk over a graph that keeps its work list in the graph itself: in the part of future space it has
not come to, in the remembered set, and behind the corpses. `Inv` says of any moment what is still where.

* `HeapOK`: every slot refers to an object or to a corpse, a corpse lies in a space that is being emptied and leads to an
  object that stays; reference counts are only on objects that are copied or freed, so that no copy is
  marked as remembered by the leftovers of one; and there are never more objects than old space could take.
* `SetsOK`: an object of old space is in the remembered set, once, just when its bit says so, and if it
  refers to a young object; the same for permanent space. While a loop moves entries down, the
  positions between what it has kept and what it has yet to read hold nothing (`Positions`).
* `Covered`: an object that stays and has a strong slot that refers to something not yet copied is in future space at or
  after `FromAt`, or at a position of the remembered set still to be read (`Unscanned`), or the copy
  that a corpse of the list of ephemerons leads to, or in permanent space before the roots are mapped.
* `UnfiredListed`, `WeakHeld`: an ephemeron that may yet fire is on the list, a weak object with slots not looked at on
  a list or in the set. `CorpsesOK` and `EphemeronsOK` say what the lists and the front of the set hold.
* `Kept`: what a scan has left in the set refers to a survivor, or is weak; `KeptNew` at the end: it refers to a survivor.
* `Held`: roots and mourners refer to objects, and once they are mapped to objects that stay. `Numbers` bounds the indices.

The lemmas are about relations between two memories. `Grows` is what every copy does: what
stays is where it was with its slots followed or not, what is copied leaves a corpse that leads to its copy, the
copy is past the pointer into future space or new in the remembered set, and weak or unfired copies are listed. It is reflexive
and transitive (`GrowsTwice`), so a fold of copies grows (`ScavengeReferents`, the roots, the mourners), and each part of
`Inv` is shown once to survive a growth (`CoveredGrows` to `LoopGrows`). The loops over sets rearrange them in place:
`Rearranged` says what a move or removal keeps, given where each entry comes from and goes to. Firing an
ephemeron (`Fires`), processing a weak object (`Weakens`), the start (`Started`), the exchange (`Exchanged`) and the
write barrier (`Barred`) have such a relation each.
`Inv` was checked by TLC on the instance of `scavenger` before it was proved, with the infinite sets of its types told by field. The model has its folds as a
recursive function (`ForEach`), which the prover can unfold.

The theorems of the library that do induction take an operator, which the installed provers
cannot instantiate. Where an argument needs induction over numbers it is made by a least
counterexample: a set of natural numbers that is not empty has a smallest member (`Smallest`, from the
library's facts about finite sets ordered by inclusion), and the number before that is not in it.

Model-checked only: every liveness property, and the liveness half of
`Implements`, since fairness and `ENABLED` are beyond the prover; `GraphIsPreserved` and
`EphemeronsFireForTheDying` of `Scavenger`; and
`LargeIntegers`, whose operators are recursive, which the prover does not take. The two of `Scavenger` compare the
heap with a reachability told by a fold over the heap a scavenge began with. `NothingIsEverLeftBehind` is the half of the first
that can be told of a state: nothing that is referred to is freed. That nothing else survives, and that the
slots are those of the old graph, needs in addition a correspondence of both heaps through all steps.

## 6. What is not modelled, and the plan

Not meant to be modelled: FFI marshalling, code generation, start-up, memory mapping,
crash reports and the other plugins. Most of the repository's lines of C are generated
or vendored kernels without state of their own (B2D, BitBlt, JPEG, OSProcess): a
specification would repeat them. They are why the share of lines modelled is small
however much of the hand-written core is covered. Other parts, in order of importance:

1. **Named primitives**, module `NamedPrims`: one name loaded for FFI and as a
   plugin, failing initialisers, unloading (which meets `socketShutdown` of `Resolver`).
2. **Tickers**, module `Tickers`: the VM thread and the heartbeat on one
   tickee, with the compare-and-swap.
3. **Emscripten driver**, module `SliceDriver`:
   slices cut short, callbacks that forbid it, forced checks carried over.
4. **Spur marking and compaction** on small heaps, against reachability as `Scavenger` does it;
   `become:` with its forwarders in `Scavenger`; then image access with short transfers.
5. **Sockets**: UDP, and an abstract socket that `Sockets` implements.
6. **Proofs**: `GraphIsPreserved`, by relating the heap to the one the scavenge began with.
