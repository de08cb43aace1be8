-------------------------------- MODULE TSQueue --------------------------------
(***************************************************************************)
(* The thread safe queue, src/threadSafeQueue/threadSafeQueue.c: a linked  *)
(* list under a mutex, and a semaphore that counts its elements.  It holds *)
(* the tasks of an FFI worker, whose consumer blocks on a platform         *)
(* semaphore, and the pending callbacks, whose semaphore is a Pharo        *)
(* semaphore: there wait does nothing (src/semaphores/pharoSemaphore.c)    *)
(* and the image waits for the signal before it calls take.                *)
(*                                                                         *)
(* Nodes come from malloc, which may hand out a node that free has just    *)
(* taken back.  threadsafe_queue_free needs every user to be gone; when    *)
(* that is so is a question for the users, see FFIWorker.                  *)
(***************************************************************************)
EXTENDS Integers, FiniteSets, Sequences

CONSTANTS Producers, Consumers,
          Nodes,        \* memory for list nodes
          NULL,         \* the null pointer
          Elements,     \* what is put in the queue
          MaxPuts       \* bound: elements put

ASSUME ConstantsAssumption ==
    /\ NULL \notin Nodes /\ NULL \notin Elements
    /\ IsFiniteSet(Nodes)
    /\ MaxPuts \in Nat

VARIABLES
    blocking,     \* does the queue's semaphore wait at all?  fixed at creation
    first, last,  \* queue->first, queue->last
    next,         \* node->next
    element,      \* node->element
    free,         \* the nodes malloc can return
    mutex,        \* queue->mutex
    semaphore,    \* queue->semaphore
    pc,           \* next step of each thread
    node,         \* the local variable node of each thread
    size,         \* the local variable size of threadsafe_queue_size
    puts          \* elements put so far; only bounds the model

list  == <<first, last, next, element>>
local == <<node, size>>
vars == <<blocking, list, free, mutex, semaphore, pc, local, puts>>

Threads == Producers \cup Consumers

Init ==
    /\ blocking \in BOOLEAN
    /\ first = NULL /\ last = NULL
    /\ next = [n \in Nodes |-> NULL]
    /\ element = [n \in Nodes |-> NULL]
    /\ free = Nodes
    /\ mutex = 1 /\ semaphore = 0
    /\ pc = [t \in Threads |-> "idle"]
    /\ node = [t \in Threads |-> NULL]
    /\ size = [c \in Consumers |-> 0]
    /\ puts = 0

Goto(t, from, to) == pc[t] = from /\ pc' = [pc EXCEPT ![t] = to]

\* platform_semaphore_wait and platform_semaphore_signal on queue->mutex.
Lock(t, from, to) ==
    /\ mutex > 0
    /\ Goto(t, from, to)
    /\ mutex' = mutex - 1
    /\ UNCHANGED <<blocking, list, free, semaphore, local, puts>>

Unlock(t, from, to) ==
    /\ Goto(t, from, to)
    /\ mutex' = mutex + 1
    /\ UNCHANGED <<blocking, list, free, semaphore, local, puts>>

(***************************************************************************)
(* threadsafe_queue_put                                                    *)
(***************************************************************************)
NewNode(p, n, e) ==
    /\ puts < MaxPuts
    /\ n \in free
    /\ Goto(p, "idle", "lockPut")
    /\ puts' = puts + 1
    /\ free' = free \ {n}
    /\ element' = [element EXCEPT ![n] = e]
    /\ next' = [next EXCEPT ![n] = NULL]
    /\ node' = [node EXCEPT ![p] = n]
    /\ UNCHANGED <<blocking, first, last, mutex, semaphore, size>>

Link(p) ==
    /\ Goto(p, "link", "unlockPut")
    /\ first' = IF first = NULL THEN node[p] ELSE first
    /\ next' = IF first = NULL THEN next ELSE [next EXCEPT ![last] = node[p]]
    /\ last' = node[p]
    /\ node' = [node EXCEPT ![p] = NULL]        \* the local is dead from here on
    /\ UNCHANGED <<blocking, element, free, mutex, semaphore, size, puts>>

SignalWhenEmpty(p) ==  \* mutant of Signal: only the first element is signalled
    /\ Goto(p, "signal", "idle")
    /\ semaphore' = IF first = last THEN semaphore + 1 ELSE semaphore
    /\ UNCHANGED <<blocking, list, free, mutex, local, puts>>

Signal(p) ==
    /\ Goto(p, "signal", "idle")
    /\ semaphore' = semaphore + 1
    /\ UNCHANGED <<blocking, list, free, mutex, local, puts>>

(***************************************************************************)
(* threadsafe_queue_take                                                   *)
(***************************************************************************)
Interrupted(c) ==       \* mutant of Wait: sem_wait returns on EINTR, no retry
    /\ Goto(c, "idle", "lockTake")
    /\ \/ UNCHANGED semaphore
       \/ blocking /\ semaphore > 0 /\ semaphore' = semaphore - 1
    /\ UNCHANGED <<blocking, list, free, mutex, local, puts>>

\* semaphore_wait retries when a signal interrupts it.
Wait(c) ==
    /\ Goto(c, "idle", "lockTake")
    /\ IF blocking THEN semaphore > 0 /\ semaphore' = semaphore - 1
                   ELSE UNCHANGED semaphore
    /\ UNCHANGED <<blocking, list, free, mutex, local, puts>>

EarlyFirst(c) ==     \* mutant of LockTake: reads queue->first before the mutex
    /\ \/ /\ Goto(c, "lockTake", "lockTaken")
          /\ node' = [node EXCEPT ![c] = first]
          /\ UNCHANGED mutex
       \/ /\ Goto(c, "lockTaken", IF node[c] = NULL THEN "unlockTake" ELSE "advance")
          /\ mutex > 0 /\ mutex' = mutex - 1
          /\ UNCHANGED node
    /\ UNCHANGED <<blocking, list, free, semaphore, size, puts>>

LockTake(c) == Lock(c, "lockTake", "takeFirst")

TakeFirst(c) ==
    /\ Goto(c, "takeFirst", IF first = NULL THEN "unlockTake" ELSE "advance")
    /\ node' = [node EXCEPT ![c] = first]
    /\ UNCHANGED <<blocking, list, free, mutex, semaphore, size, puts>>

KeepFirst(c) ==       \* mutant of Advance: leaves first at the last node
    /\ Goto(c, "advance", "unlockTake")
    /\ first' = IF next[node[c]] = NULL THEN first ELSE next[node[c]]
    /\ last' = IF next[node[c]] = NULL THEN NULL ELSE last
    /\ UNCHANGED <<blocking, next, element, free, mutex, semaphore, local, puts>>

Advance(c) ==
    /\ Goto(c, "advance", "unlockTake")
    /\ first' = next[node[c]]
    /\ last' = IF next[node[c]] = NULL THEN NULL ELSE last
    /\ UNCHANGED <<blocking, next, element, free, mutex, semaphore, local, puts>>

\* The mutex is released already; the element that take returns is element[node].
FreeNode(c) ==
    /\ Goto(c, "freeNode", "idle")
    /\ free' = free \cup ({node[c]} \ {NULL})
    /\ node' = [node EXCEPT ![c] = NULL]
    /\ UNCHANGED <<blocking, list, mutex, semaphore, size, puts>>

(***************************************************************************)
(* threadsafe_queue_size                                                   *)
(***************************************************************************)
LockCount(c) == Lock(c, "idle", "firstNode")

FirstNode(c) ==
    /\ Goto(c, "firstNode", "count")
    /\ size' = [size EXCEPT ![c] = 0]
    /\ node' = [node EXCEPT ![c] = first]
    /\ UNCHANGED <<blocking, list, free, mutex, semaphore, puts>>

Count(c) ==
    /\ node[c] # NULL
    /\ Goto(c, "count", "count")
    /\ size' = [size EXCEPT ![c] = @ + 1]
    /\ node' = [node EXCEPT ![c] = next[@]]
    /\ UNCHANGED <<blocking, list, free, mutex, semaphore, puts>>

Counted(c) ==
    /\ node[c] = NULL
    /\ Goto(c, "count", "idle")
    /\ mutex' = mutex + 1
    /\ size' = [size EXCEPT ![c] = 0]
    /\ UNCHANGED <<blocking, list, free, semaphore, node, puts>>

Put(p) ==
    \/ Lock(p, "lockPut", "link") \/ Link(p)
    \/ Unlock(p, "unlockPut", "signal") \/ Signal(p)

Take(c) ==
    \/ Wait(c) \/ LockTake(c) \/ TakeFirst(c) \/ Advance(c)
    \/ Unlock(c, "unlockTake", "freeNode") \/ FreeNode(c)

Size(c) == LockCount(c) \/ FirstNode(c) \/ Count(c) \/ Counted(c)

Next ==
    \/ \E p \in Producers : Put(p) \/ \E n \in Nodes, e \in Elements : NewNode(p, n, e)
    \/ \E c \in Consumers : Take(c) \/ Size(c)

\* A put that has begun goes on, a consumer takes again and again, as the loop
\* of worker_run does, and a thread that waits for a semaphore which others
\* keep taking and giving back gets it in the end.
Fairness ==
    /\ \A p \in Producers : SF_vars(Put(p))
    /\ \A c \in Consumers : SF_vars(Take(c)) /\ WF_vars(FirstNode(c) \/ Count(c) \/ Counted(c))

Spec == Init /\ [][Next]_vars /\ Fairness

-------------------------------------------------------------------------------
(***************************************************************************)
(* Properties.                                                             *)
(***************************************************************************)
Pointers == Nodes \cup {NULL}
PCs == {"idle", "lockPut", "link", "unlockPut", "signal", "lockTake", "takeFirst", "advance",
        "unlockTake", "freeNode", "firstNode", "count"}

\* Every variable keeps its type; in particular queue->mutex, a counting
\* semaphore, never lets two threads in.
TypeOK ==
    /\ blocking \in BOOLEAN
    /\ first \in Pointers /\ last \in Pointers
    /\ next \in [Nodes -> Pointers]
    /\ element \in [Nodes -> Elements \cup {NULL}]
    /\ free \subseteq Nodes
    /\ mutex \in {0, 1}
    /\ semaphore \in 0 .. MaxPuts
    /\ pc \in [Threads -> PCs]
    /\ node \in [Threads -> Pointers]
    /\ size \in [Consumers -> 0 .. Cardinality(Nodes)]
    /\ puts \in 0 .. MaxPuts

\* The nodes reached from first: At[k] is the k-th, NULL past the end.
At[k \in 0 .. Cardinality(Nodes)] ==
    IF k = 0 THEN first ELSE IF At[k - 1] = NULL THEN NULL ELSE next[At[k - 1]]
Linked == {At[k] : k \in DOMAIN At} \ {NULL}
Length == Cardinality({k \in DOMAIN At : At[k] # NULL})

\* The consumer owns the node it is about to free.
Owned(c) == IF pc[c] = "freeNode" THEN {node[c]} \ {NULL} ELSE {}

\* A node is in the list, or free, or belongs to the one consumer that took it:
\* no node is taken twice, freed twice, or freed while the list or a thread
\* walking the list can still reach it.
NodesHaveOneOwner ==
    /\ TypeOK
    /\ Linked \cap free = {}
    /\ \A c \in Consumers : Owned(c) \cap (Linked \cup free) = {}
    /\ \A c, d \in Consumers : c # d => Owned(c) \cap Owned(d) = {}
    /\ \A t \in Threads : node[t] \notin free

\* Both ways to count the elements are right.  A take on a blocking semaphore finds
\* an element: the semaphore never counts more than the list holds, though put
\* signals it after it released the mutex and take waits for it before it asks
\* for the mutex.  And threadsafe_queue_size has counted the list as it is when
\* it gives the mutex back.
CountExact ==
    \A c \in Consumers :
        /\ blocking /\ pc[c] = "freeNode" => node[c] # NULL
        /\ pc[c] = "count" /\ node[c] = NULL => size[c] = Length

\* Elements leave the list in the order in which they were linked, each once.
Contents == [k \in 1 .. Length |-> element[At[k - 1]]]
Abs == INSTANCE Fifo WITH items <- Contents
ImplementsFifo == Abs!Spec

\* What is linked gets taken: a consumer blocked in take is woken for every
\* element, however puts and takes overlap.
Drained == (blocking /\ first # NULL) ~> (first = NULL)
=============================================================================
