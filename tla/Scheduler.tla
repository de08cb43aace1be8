-------------------------------- MODULE Scheduler --------------------------------
(***************************************************************************)
(* The green processes of the image and the primitives that move them:     *)
(* semaphores, critical sections, suspension, yielding, the event check    *)
(* that signals for the rest of the VM, and the callbacks of the           *)
(* same-thread FFI runner, which run other processes on top of a callout.  *)
(* A linked list is a sequence of processes, and the lists of the          *)
(* scheduler are numbered by priority.                                     *)
(***************************************************************************)
EXTENDS Naturals, Sequences, FiniteSets

CONSTANTS
    Procs, Idle, NULL,
    MaxLevel,           \* priorities are 1..MaxLevel; Idle has the lowest
    Priority,           \* [Procs -> Levels], as the processes start
    Semaphores, Sections,
    EventOrder,         \* the events in the order the check looks for them
    SemaOf,             \* [events -> Semaphores], the registered semaphores
    Callback,           \* the event that tells the image of a callback
    PreemptionYields,   \* preemptionYields
    Mortal,             \* processes that may lose their context when ready
    Adjustable,         \* processes whose priority may change
    Suspendable,        \* processes that others may suspend
    YieldsBesideDead,   \* do processes yield to nobody but zombies?
    SuspendsEnterers,   \* is a process suspended that is queued at a section?
    MaxExcess, MaxCallouts, MaxStarts      \* bounds

Levels == 1..MaxLevel
Gates == Semaphores \cup Sections
Events == {EventOrder[i] : i \in 1..Len(EventOrder)}
Others == Procs \ {Idle}

ASSUME ConstantsAssumption ==
    /\ MaxLevel \in Nat /\ Idle \in Procs /\ NULL \notin Procs \cup Levels \cup Gates
    /\ Priority \in [Procs -> Levels]
    /\ Semaphores \cap Sections = {} /\ Levels \cap Gates = {}
    /\ EventOrder \in Seq(Events) /\ SemaOf \in [Events -> Semaphores]
    /\ Callback \in Events
    /\ PreemptionYields \in BOOLEAN
    /\ Mortal \subseteq Others /\ Adjustable \subseteq Others /\ Suspendable \subseteq Others
    /\ YieldsBesideDead \in BOOLEAN /\ SuspendsEnterers \in BOOLEAN
    /\ MaxExcess \in Nat /\ MaxCallouts \in Nat /\ MaxStarts \in Nat

VARIABLES
    sched,          \* activeProcess, highestRunnableProcessPriority, the ready
                    \* lists, the lists of semaphores and sections, myList
    excess,         \* excessSignals of each semaphore
    owner,          \* owningProcess of each section
    priority,       \* priority of each process
    dead,           \* processes without a live suspendedContext
    pending,        \* events that wait for the next check
    cursor,         \* the event the check is at; 0 outside of it
    callouts,       \* SuspendedProcessInCallout, the last one first
    callbackStack,  \* the callbacks of the runner: the process whose callout it serves
    starts,         \* how often the image was started again
    parked,         \* processes that are suspended, or were never resumed
    told,           \* processes told by each section that it is theirs, and not out yet
    inverted,       \* did a process get to run that is not the first to run?
    preempted       \* ready processes that did not give up the processor themselves

sections == <<owner, told>>
image == <<priority, dead, starts>>
events == <<pending, cursor>>
calls == <<callouts, callbackStack>>
vars == <<sched, excess, sections, image, events, calls, parked, inverted, preempted>>

Elems(s) == {s[i] : i \in 1..Len(s)}

Init ==
    /\ sched = [active |-> Idle, highest |-> 0, ready |-> [l \in Levels |-> <<>>],
                waiting |-> [g \in Gates |-> <<>>], myList |-> [p \in Procs |-> NULL]]
    /\ excess = [s \in Semaphores |-> 0]
    /\ owner = [c \in Sections |-> NULL]
    /\ priority = Priority
    /\ dead = {} /\ pending = {} /\ cursor = 0
    /\ callouts = <<>> /\ callbackStack = <<>> /\ starts = 1
    /\ parked = Others
    /\ told = [c \in Sections |-> {}]
    /\ inverted = FALSE /\ preempted = {}

----------------------------------------------------------------------------
(* What the primitives are made of: functions of the scheduler's record.    *)

\* A mutant: highestRunnableProcessPriority is left alone.
PutToSleepKeepsHighest(s, p, toTheBack) ==
    LET l == priority[p]
    IN  [s EXCEPT !.ready[l] = IF toTheBack THEN Append(@, p) ELSE <<p>> \o @,
                  !.myList[p] = l]

\* A mutant: a preempted process goes to the back whatever preemptionYields says.
PutToSleepAtTheBack(s, p, toTheBack) ==
    LET l == priority[p]
    IN  [s EXCEPT !.highest = IF @ # 0 /\ l > @ THEN l ELSE @,
                  !.ready[l] = Append(@, p),
                  !.myList[p] = l]

\* putToSleep:yieldingIf:
PutToSleep(s, p, toTheBack) ==
    LET l == priority[p]
    IN  [s EXCEPT !.highest = IF @ # 0 /\ l > @ THEN l ELSE @,
                  !.ready[l] = IF toTheBack THEN Append(@, p) ELSE <<p>> \o @,
                  !.myList[p] = l]

\* addLastLink:toList: on the list of a semaphore or a section, and on a ready list
Queue(s, p, g) == [s EXCEPT !.waiting[g] = Append(@, p), !.myList[p] = g]
Join(s, p, l) == [s EXCEPT !.ready[l] = Append(@, p), !.myList[p] = l]

\* removeFirstLinkOfList: of a semaphore or a section; myList is left alone
RemoveFirst(s, g) == [s EXCEPT !.waiting[g] = Tail(@)]

\* transferTo:from:
TransferTo(s, p) == [s EXCEPT !.active = p, !.myList[p] = NULL]

\* resume:preemptedYieldingIf:from:
Resume(s, p) ==
    IF priority[p] <= priority[s.active]
    THEN PutToSleep(s, p, TRUE)
    ELSE TransferTo(PutToSleep(s, s.active, PreemptionYields), p)

\* A process whose suspendedContext is live: the active one's is nil.
Live(s, p) == p \notin dead /\ p # s.active
HasLive(s, l) == \E p \in Elems(s.ready[l]) : Live(s, p)

\* A mutant: a search of all lists leaves out the first.
TopOneTooLow(s) == IF s.highest = 0 THEN MaxLevel - 1 ELSE s.highest

\* The list wakeHighestPriority starts from.
Top(s) == IF s.highest = 0 THEN MaxLevel ELSE s.highest

\* The process it answers is the i-th of list l.
Found(s, l, i) ==
    /\ Live(s, s.ready[l][i])
    /\ \A j \in 1..(i - 1) : ~Live(s, s.ready[l][j])
    /\ \A k \in (l + 1)..Top(s) : ~HasLive(s, k)

\* The zombies before that process are evicted, and it is transferred to.
Woken(s, l, i) ==
    LET left == [k \in Levels |-> IF k > l /\ k <= Top(s) THEN <<>> ELSE s.ready[k]]
    IN  TransferTo([s EXCEPT !.highest = l,
                             !.ready = [left EXCEPT ![l] = SubSeq(@, i + 1, Len(@))]],
                   s.ready[l][i])

\* transferTo: self wakeHighestPriority, the new place of the active process being
\* recorded in s.  When there is nobody to wake the VM stops with an error.
GiveUp(s) ==
    \E l \in 1..Top(s) : \E i \in 1..Len(s.ready[l]) :
        /\ Found(s, l, i)
        /\ sched' = Woken(s, l, i)
        /\ inverted' = (priority[s.ready[l][i]] < l)

\* synchronousSignal:
SynchronousSignal(g) ==
    IF sched.waiting[g] = <<>>
    THEN /\ excess' = [excess EXCEPT ![g] = @ + 1]
         /\ UNCHANGED sched
    ELSE /\ sched' = Resume(RemoveFirst(sched, g), Head(sched.waiting[g]))
         /\ UNCHANGED excess

----------------------------------------------------------------------------
(* Primitives of the active process.                                        *)

IsReady(s) == UNION {Elems(s.ready[l]) : l \in Levels}
StillPreempted == preempted' = preempted \cap IsReady(sched')
NotePreemption ==
    preempted' = ((preempted \cup {sched.active}) \ {sched'.active}) \cap IsReady(sched')

\* The bound MaxExcess counts the signals that are on their way.
Room(g) == excess[g] + Cardinality({e \in pending : SemaOf[e] = g}) < MaxExcess
Running == cursor = 0

\* primitiveSignal
Signal(g) ==
    /\ Running /\ Room(g)
    /\ SynchronousSignal(g)
    /\ NotePreemption
    /\ UNCHANGED <<sections, image, events, calls, parked, inverted>>

\* A mutant: the process waits though there are signals.
WaitAlways(g) ==
    /\ Running /\ sched.active # Idle
    /\ GiveUp(Queue(sched, sched.active, g))
    /\ NotePreemption
    /\ UNCHANGED <<excess, sections, image, events, calls, parked>>

\* primitiveWait: doWaitSemaphore:reEnterInterpreter:
Wait(g) ==
    /\ Running /\ sched.active # Idle
    /\ IF excess[g] > 0
       THEN /\ excess' = [excess EXCEPT ![g] = @ - 1]
            /\ UNCHANGED <<sched, inverted>>
       ELSE /\ GiveUp(Queue(sched, sched.active, g))
            /\ UNCHANGED excess
    /\ NotePreemption
    /\ UNCHANGED <<sections, image, events, calls, parked>>

\* primitiveEnterCriticalSection: its answer is pushed before it waits.
Enter(c) ==
    /\ Running /\ sched.active # Idle
    /\ told' = [told EXCEPT ![c] = @ \cup {sched.active}]
    /\ \/ /\ owner[c] = NULL
          /\ owner' = [owner EXCEPT ![c] = sched.active]
          /\ UNCHANGED <<sched, inverted>>
       \/ /\ owner[c] = sched.active
          /\ UNCHANGED <<sched, inverted, owner>>
       \/ /\ owner[c] \notin {NULL, sched.active}
          /\ GiveUp(Queue(sched, sched.active, c))
          /\ UNCHANGED owner
    /\ NotePreemption
    /\ UNCHANGED <<excess, image, events, calls, parked>>

\* primitiveTestAndSetOwnershipOfCriticalSection
TestAndSet(c) ==
    /\ Running /\ sched.active # Idle
    /\ IF owner[c] \in {NULL, sched.active}
       THEN /\ owner' = [owner EXCEPT ![c] = sched.active]
            /\ told' = [told EXCEPT ![c] = @ \cup {sched.active}]
       ELSE UNCHANGED <<owner, told>>
    /\ UNCHANGED <<sched, excess, image, events, calls, parked, inverted, preempted>>

\* A mutant: the section is free for whoever enters next.
ExitFreesSection(c) ==
    /\ Running /\ sched.active \in told[c]
    /\ told' = [told EXCEPT ![c] = @ \ {sched.active}]
    /\ owner' = [owner EXCEPT ![c] = NULL]
    /\ IF sched.waiting[c] = <<>>
       THEN UNCHANGED sched
       ELSE sched' = Resume(RemoveFirst(sched, c), Head(sched.waiting[c]))
    /\ NotePreemption
    /\ UNCHANGED <<excess, image, events, calls, parked, inverted>>

\* primitiveExitCriticalSection
Exit(c) ==
    /\ Running /\ sched.active \in told[c]
    /\ told' = [told EXCEPT ![c] = @ \ {sched.active}]
    /\ IF sched.waiting[c] = <<>>
       THEN /\ owner' = [owner EXCEPT ![c] = NULL]
            /\ UNCHANGED sched
       ELSE /\ owner' = [owner EXCEPT ![c] = Head(sched.waiting[c])]
            /\ sched' = Resume(RemoveFirst(sched, c), Head(sched.waiting[c]))
    /\ NotePreemption
    /\ UNCHANGED <<excess, image, events, calls, parked, inverted>>

\* primitiveYield: the process joins its list and the highest one is woken.
Yield ==
    LET l == priority[sched.active]
    IN  /\ Running
        /\ sched.ready[l] # <<>>
        /\ YieldsBesideDead \/ HasLive(sched, l)
        /\ GiveUp(Join(sched, sched.active, l))
        /\ StillPreempted
        /\ UNCHANGED <<excess, sections, image, events, calls, parked>>

\* primitiveSuspend of the active process
SuspendActive ==
    /\ Running /\ sched.active # Idle
    /\ GiveUp(sched)
    /\ parked' = parked \cup {sched.active}
    /\ NotePreemption
    /\ UNCHANGED <<excess, sections, image, events, calls>>

\* The places of p on the list that myList names.
MyPlaces(p) ==
    LET m == sched.myList[p]
        list == IF m \in Levels THEN sched.ready[m] ELSE sched.waiting[m]
    IN  {i \in (IF m = NULL THEN {} ELSE 1..Len(list)) : list[i] = p}

Without(list, i) == SubSeq(list, 1, i - 1) \o SubSeq(list, i + 1, Len(list))

\* removeProcess:fromList:
RemoveProcess(s, p, i) ==
    LET m == s.myList[p]
    IN  IF m \in Levels
        THEN [s EXCEPT !.ready[m] = Without(@, i), !.myList[p] = NULL]
        ELSE [s EXCEPT !.waiting[m] = Without(@, i), !.myList[p] = NULL]

\* A mutant: myList keeps the list the process was on.
SuspendKeepsMyList(p) ==
    /\ Running /\ p \in Suspendable \ {sched.active}
    /\ SuspendsEnterers \/ sched.myList[p] \notin Sections
    /\ \/ \E i \in MyPlaces(p) :
            /\ sched' = [RemoveProcess(sched, p, i) EXCEPT !.myList[p] = sched.myList[p]]
            /\ parked' = parked \cup {p}
       \/ MyPlaces(p) = {} /\ UNCHANGED <<sched, parked>>
    /\ NotePreemption
    /\ UNCHANGED <<excess, sections, image, events, calls, inverted>>

\* primitiveSuspend of another process: it fails for one that is on no list, or
\* no longer on the list that it names.
Suspend(p) ==
    /\ Running /\ p \in Suspendable \ {sched.active}
    /\ SuspendsEnterers \/ sched.myList[p] \notin Sections
    /\ \/ \E i \in MyPlaces(p) :
            /\ sched' = RemoveProcess(sched, p, i)
            /\ parked' = parked \cup {p}
       \/ MyPlaces(p) = {} /\ UNCHANGED <<sched, parked>>
    /\ NotePreemption
    /\ UNCHANGED <<excess, sections, image, events, calls, inverted>>

\* primitiveResume.  Processes resume those they know to be suspended.
ResumeParked(p) ==
    /\ Running /\ p \in parked \ dead
    /\ sched' = Resume(sched, p)
    /\ parked' = parked \ {p}
    /\ NotePreemption
    /\ UNCHANGED <<excess, sections, image, events, calls, inverted>>

\* The image writes the priority of a process: nobody is moved.
SetPriority(p, l) ==
    /\ Running /\ p \in Adjustable /\ priority[p] # l
    /\ priority' = [priority EXCEPT ![p] = l]
    /\ inverted' = (inverted \/ (p = sched.active /\ l < priority[p]))
    /\ UNCHANGED <<sched, excess, sections, dead, starts, events, calls, parked, preempted>>

\* A process that is ready loses its context: a zombie.
Die(p) ==
    /\ Running /\ p \in Mortal \ dead /\ sched.myList[p] \in Levels
    /\ dead' = dead \cup {p}
    /\ UNCHANGED <<sched, excess, sections, priority, starts, events, calls, parked,
                   inverted, preempted>>

----------------------------------------------------------------------------
(* Callbacks of the same-thread runner.                                     *)

\* callbackFrontend and ptEnterInterpreterFromCallback: the invocation is stacked and
\* put in the queue of callbacks, which signals, and the process is suspended.
EnterCallback ==
    /\ Running /\ sched.active # Idle /\ Len(callouts) < MaxCallouts
    /\ Callback \in pending \/ Room(SemaOf[Callback])
    /\ callbackStack' = <<sched.active>> \o callbackStack
    /\ callouts' = <<sched.active>> \o callouts
    /\ pending' = pending \cup {Callback}
    /\ GiveUp(sched)
    /\ NotePreemption
    /\ UNCHANGED <<excess, sections, image, cursor, parked>>

\* A mutant: the order of the callbacks is not looked at.
CallbackReturnInAnyOrder(i) ==
    /\ Running /\ sched.active # Idle /\ i \in 1..Len(callbackStack)
    /\ callbackStack' = SubSeq(callbackStack, 1, i - 1)
                        \o SubSeq(callbackStack, i + 1, Len(callbackStack))
    /\ callouts' = Tail(callouts)
    /\ sched' = TransferTo(PutToSleep(sched, sched.active, PreemptionYields), Head(callouts))
    /\ inverted' = TRUE
    /\ NotePreemption
    /\ UNCHANGED <<excess, sections, image, events, parked>>

\* primitiveCallbackReturn and ptExitInterpreterToCallback: only the last callback
\* returns, others are told to retry; the process of its callout runs at once,
\* whatever its priority.
CallbackReturn(i) ==
    /\ Running /\ sched.active # Idle /\ i \in 1..Len(callbackStack)
    /\ IF i = 1
       THEN /\ callbackStack' = Tail(callbackStack)
            /\ callouts' = Tail(callouts)
            /\ sched' = TransferTo(PutToSleep(sched, sched.active, PreemptionYields),
                                   Head(callouts))
            /\ inverted' = TRUE
       ELSE UNCHANGED <<sched, calls, inverted>>
    /\ NotePreemption
    /\ UNCHANGED <<excess, sections, image, events, parked>>

----------------------------------------------------------------------------
(* The event check, and the events raised for it.                           *)

\* The timer falls due, an object is finalized, space is low, another thread
\* signals: at any time, during a check too.
Raise(e) ==
    /\ e \notin pending /\ Room(SemaOf[e])
    /\ pending' = pending \cup {e}
    /\ UNCHANGED <<sched, excess, sections, image, cursor, calls, parked, inverted, preempted>>

\* checkForEventsMayContextSwitch:, from its first question ...
CheckForEvents ==
    /\ Running
    /\ cursor' = 1
    /\ UNCHANGED <<sched, excess, sections, image, pending, calls, parked, inverted, preempted>>

\* A mutant: the check ends with the first process switch.
StopAtFirstSwitch ==
    /\ ~Running
    /\ LET e == EventOrder[cursor] IN
         /\ pending' = pending \ {e}
         /\ IF e \in pending
            THEN SynchronousSignal(SemaOf[e])
            ELSE UNCHANGED <<sched, excess>>
    /\ cursor' = IF cursor = Len(EventOrder) \/ sched' # sched THEN 0 ELSE cursor + 1
    /\ NotePreemption
    /\ UNCHANGED <<sections, image, calls, parked, inverted>>

\* ... through one question per event, for the process that is active by then.
CheckNext ==
    /\ ~Running
    /\ LET e == EventOrder[cursor] IN
         /\ pending' = pending \ {e}
         /\ IF e \in pending
            THEN SynchronousSignal(SemaOf[e])
            ELSE UNCHANGED <<sched, excess>>
    /\ cursor' = IF cursor = Len(EventOrder) THEN 0 ELSE cursor + 1
    /\ NotePreemption
    /\ UNCHANGED <<sections, image, calls, parked, inverted>>

----------------------------------------------------------------------------
\* The image is saved by the active process and started again, in a VM that knows
\* of no event, no callback and no highest priority.
Restart ==
    /\ Running /\ starts < MaxStarts
    /\ starts' = starts + 1
    /\ sched' = [sched EXCEPT !.highest = 0]
    /\ pending' = {} /\ callbackStack' = <<>>
    /\ UNCHANGED <<excess, sections, priority, dead, cursor, callouts, parked, inverted,
                   preempted>>

Next ==
    \/ \E g \in Semaphores : Signal(g) \/ Wait(g)
    \/ \E c \in Sections : Enter(c) \/ TestAndSet(c) \/ Exit(c)
    \/ Yield \/ SuspendActive
    \/ \E p \in Procs : Suspend(p) \/ ResumeParked(p) \/ Die(p)
    \/ \E p \in Procs, l \in Levels : SetPriority(p, l)
    \/ EnterCallback
    \/ \E i \in 1..MaxCallouts : CallbackReturn(i)
    \/ \E e \in Events : Raise(e)
    \/ CheckForEvents \/ CheckNext
    \/ Restart

\* The heartbeat forces a check again and again, and a check runs to its end.
Spec == Init /\ [][Next]_vars /\ WF_vars(CheckForEvents) /\ WF_vars(CheckNext)

----------------------------------------------------------------------------
(* Properties.                                                              *)

\* The type of the state.
TypeOK ==
    /\ sched \in [active : Procs, highest : 0..MaxLevel, ready : [Levels -> Seq(Procs)],
                  waiting : [Gates -> Seq(Procs)],
                  myList : [Procs -> Levels \cup Gates \cup {NULL}]]
    /\ excess \in [Semaphores -> Nat]
    /\ owner \in [Sections -> Procs \cup {NULL}]
    /\ told \in [Sections -> SUBSET Procs]
    /\ priority \in [Procs -> Levels]
    /\ dead \subseteq Procs /\ parked \subseteq Procs /\ preempted \subseteq Procs
    /\ starts \in Nat /\ inverted \in BOOLEAN
    /\ pending \subseteq Events /\ cursor \in 0..Len(EventOrder)
    /\ callouts \in Seq(Procs) /\ callbackStack \in Seq(Procs)

\* wakeHighestPriority never passes over a process: when it knows the highest
\* priority to start from, no list above it holds anybody, whichever of the paths
\* into a list (signals, preemption, callbacks, yields) a process has taken.
NobodyPassedOver ==
    sched.highest # 0 => \A l \in Levels : l > sched.highest => sched.ready[l] = <<>>

\* Nobody waits at a semaphore that has signals to spare, nor is queued at a section
\* that nobody owns: synchronousSignal:, doWaitSemaphore: and the primitives of
\* sections agree on what the list and the first field say together.
NobodyWaitsForWhatIsThere ==
    /\ \A g \in Semaphores : sched.waiting[g] # <<>> => excess[g] = 0
    /\ \A c \in Sections : sched.waiting[c] # <<>> => owner[c] # NULL

Distinct(q) == \A i, j \in 1..Len(q) : q[i] = q[j] => i = j
ListOf(m) == IF m \in Levels THEN sched.ready[m] ELSE sched.waiting[m]
OffLists == {sched.active} \cup parked \cup Elems(callouts)

\* A process that can still run is in one place: active, on one list, suspended in
\* one callout, or suspended by the image; and myList is right about it, which is
\* what primitiveSuspend goes by.
OnePlace ==
    /\ TypeOK
    /\ Distinct(callouts) /\ \A m \in Levels \cup Gates : Distinct(ListOf(m))
    /\ sched.active \notin parked \cup Elems(callouts) /\ parked \cap Elems(callouts) = {}
    /\ \A p \in OffLists : sched.myList[p] = NULL
    /\ \A p \in Procs \ dead :
         {m \in Levels \cup Gates : p \in Elems(ListOf(m))} =
             IF p \in OffLists THEN {} ELSE {sched.myList[p]}

\* No ready process has a higher priority than the active one, unless the active
\* one lowered its own or goes on after a callback.  The VM never goes on with a
\* process that has no context ("the VM would crash otherwise",
\* wakeHighestPriority), and there is always one to wake beside the active one.
HighestRuns ==
    /\ inverted \/ \A l \in Levels : l > priority[sched.active] => sched.ready[l] = <<>>
    /\ sched.active \notin dead
    /\ Elems(callouts) \cap dead = {}
    /\ sched.active # Idle => \E l \in 1..Top(sched) : HasLive(sched, l)

\* Without preemptionYields a process that was preempted keeps its turn: those of
\* its list that were woken or have yielded meanwhile come after it.
PreemptedKeepTheirTurn ==
    PreemptionYields \/
    \A l \in Levels : \A i, j \in 1..Len(sched.ready[l]) :
        i < j /\ sched.ready[l][j] \in preempted => sched.ready[l][i] \in preempted

\* A process that was told that a section is its own, and that can run, owns it.
MutualExclusion ==
    \A c \in Sections : \A p \in told[c] \ (parked \cup Elems(sched.waiting[c])) :
        owner[c] = p

\* A callback returns into the process whose callout it serves: the chain of
\* suspended processes keeps step with the stack of callbacks, though the chain
\* outlives the VM and the stack does not.
ReturnsToItsCallout ==
    /\ Len(callbackStack) <= Len(callouts)
    /\ \A i \in 1..Len(callbackStack) : callouts[i] = callbackStack[i]

First(p) == \A q \in Procs \ {p} : priority[q] < priority[p]

\* An event wakes the process that waits for it first, if that has the highest
\* priority of all, whatever else is signalled in between and whoever runs: unless
\* it is suspended, or the priorities change.
EventsWake ==
    \A e \in Events, p \in Procs :
        (e \in pending /\ First(p) /\ p \in {Head(q) : q \in {sched.waiting[SemaOf[e]]} \ {<<>>}})
            ~> (sched.active = p \/ p \in parked \/ ~First(p))
=============================================================================
