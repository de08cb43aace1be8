------------------------------ MODULE AioDispatch ------------------------------
(***************************************************************************)
(* Descriptor dispatch of src/unix/aio.c: the list of descriptors, the     *)
(* fresh epoll set of every turn, the descriptors epoll refuses, and the   *)
(* batch of events handed to one-shot handlers, which may edit the list    *)
(* meanwhile.  All of it runs on the VM thread: a turn is interleaved with *)
(* its own handlers only, and no handler of the VM polls.  When a poll     *)
(* wakes up is the subject of IdlePoll.                                    *)
(***************************************************************************)
EXTENDS Integers, FiniteSets, Sequences, SequencesExt

CONSTANTS Fds,           \* file descriptors
          Nodes,         \* memory for AioUnixDescriptors
          Kinds,         \* functions from Fds: what epoll_ctl says of each
          Masks,         \* what the callers of aioHandle watch each for
          EventsSize,    \* INCOMING_EVENTS_SIZE
          NULL

MaxRefused == EventsSize \div 2      \* MAX_REFUSED_DESCRIPTORS

\* "regular" files get EPERM and "closed" descriptors EBADF; no epoll_ctl
\* refuses a "pollable" one but for want of memory, after which it is tried
\* again next turn: here it is a descriptor that reports nothing.
ASSUME ConstantsAssumption ==
    /\ Kinds \subseteq [Fds -> {"pollable", "regular", "closed"}]
    /\ Masks \in [Fds -> SUBSET SUBSET {"R", "W", "X"}]
    /\ EventsSize \in Nat /\ EventsSize >= 2
    /\ NULL \notin Fds \cup Nodes

VARIABLES
    kind,            \* what each file descriptor is
    descriptorList,  \* sequence of nodes, the newest first
    node,            \* the descriptor in each node
    retired,         \* retiredDescriptors
    nextRefused,     \* nextRefusedPosition
    at,              \* "image", or where the dispatch of the first event is
    batch            \* incomingEvents, from the one being dispatched on

vars == <<kind, descriptorList, node, retired, nextRefused, at, batch>>

Empty == [fd |-> NULL, read |-> FALSE, write |-> FALSE, mask |-> {}]

Init ==
    /\ kind \in Kinds
    /\ descriptorList = <<>>
    /\ node = [d \in Nodes |-> Empty]
    /\ retired = {}
    /\ nextRefused = 0
    /\ at = "image"
    /\ batch = <<>>

\* The elements of q that are in S, in their order: SelectSeq, with a set for the test.
Select(q, S) ==
    LET first[n \in 0 .. Len(q)] == IF n = 0 THEN <<>>
                                   ELSE IF q[n] \in S THEN Append(first[n - 1], q[n])
                                   ELSE first[n - 1]
    IN first[Len(q)]

Listed == ToSet(descriptorList)
Find(f) == CHOOSE d \in Listed : node[d].fd = f
IsListed(f) == \E d \in Listed : node[d].fd = f

(***************************************************************************)
(* The interface, called by the image and by handlers.                     *)
(***************************************************************************)
Calling == at \in {"image", "read handler", "write handler"}

AioEnable(f) ==
    /\ Calling /\ ~IsListed(f)
    /\ \E d \in Nodes \ (Listed \cup retired) :
          /\ descriptorList' = <<d>> \o descriptorList
          /\ node' = [node EXCEPT ![d] = [Empty EXCEPT !.fd = f]]
    /\ UNCHANGED <<kind, retired, nextRefused, at, batch>>

AioHandle(f, mask) ==
    /\ Calling /\ IsListed(f)
    /\ node' = [node EXCEPT ![Find(f)] =
                   [fd |-> f, read |-> "R" \in mask, write |-> "W" \in mask, mask |-> mask]]
    /\ UNCHANGED <<kind, descriptorList, retired, nextRefused, at, batch>>

AioSuspend(f, mask) ==
    /\ Calling /\ IsListed(f)
    /\ node[Find(f)].mask # {}
    /\ node' = [node EXCEPT ![Find(f)] =
                   [fd |-> f, read |-> @.read /\ "R" \notin mask,
                    write |-> @.write /\ "W" \notin mask, mask |-> @.mask \ mask]]
    /\ UNCHANGED <<kind, descriptorList, retired, nextRefused, at, batch>>

FreeAtOnce(ds) ==      \* mutant of Retire: free(descriptor) during the dispatch too
    /\ node' = [d \in Nodes |-> IF d \in ds THEN Empty ELSE node[d]]
    /\ UNCHANGED retired

\* AioUnixDescriptor_retire; at = "image" is dispatchDepth = 0.
Retire(ds) ==
    /\ node' = [d \in Nodes |-> IF d \in ds THEN Empty ELSE node[d]]
    /\ retired' = IF at = "image" THEN {} ELSE retired \cup ds

AioDisable(f) ==
    /\ Calling /\ IsListed(f)
    /\ descriptorList' = Select(descriptorList, Nodes \ {Find(f)})
    /\ Retire({Find(f)})
    /\ UNCHANGED <<kind, nextRefused, at, batch>>

AioFini ==
    /\ at = "image"
    /\ descriptorList' = <<>>
    /\ Retire(Listed)
    /\ UNCHANGED <<kind, nextRefused, at, batch>>

\* Somebody closes a file descriptor without telling aio.
CloseUnderneath(f) ==
    /\ Calling /\ IsListed(f) /\ kind[f] = "pollable"
    /\ kind' = [kind EXCEPT ![f] = "closed"]
    /\ UNCHANGED <<descriptorList, node, retired, nextRefused, at, batch>>

(***************************************************************************)
(* One turn.                                                               *)
(***************************************************************************)
Armed(d) == node[d].mask # {}
IsRefused(d) == Armed(d) /\ kind[node[d].fd] # "pollable" /\ (node[d].read \/ node[d].write)
Refused == Select(descriptorList, {d \in Listed : IsRefused(d)})

\* The refused descriptors of this turn: from nextRefused on, then from the first.
Min2(a, b) == IF a < b THEN a ELSE b
FromNext(all) == SubSeq(all, nextRefused + 1, Min2(nextRefused + MaxRefused, Len(all)))
Wrapped(all) == SubSeq(all, 1, Min2(Min2(nextRefused, Len(all)), MaxRefused - Len(FromNext(all))))
Taken(all) == FromNext(all) \o Wrapped(all)
Reported == Taken(Refused)

FirstOnly == 0      \* mutant of NextPosition: no rotation

NextPosition ==
    LET all == Refused
        next == IF Wrapped(all) # <<>> THEN Len(Wrapped(all))
                ELSE nextRefused + Len(FromNext(all))
    IN IF next >= Len(all) THEN 0 ELSE next

Event(d, events) == [node |-> d, of |-> node[d].fd, events |-> events]
RefusedEvent(d) == Event(d, (IF node[d].read THEN {"IN"} ELSE {})
                            \cup (IF node[d].write THEN {"OUT"} ELSE {}))

\* What epoll may report of a descriptor in the set: EPOLLERR and EPOLLHUP unasked
\* ("HUP" is any event without EPOLLIN and EPOLLOUT), and data when asked.
Watched == {d \in Listed : Armed(d) /\ kind[node[d].fd] = "pollable"}
MayReport(d) == {{}, {"HUP"}} \cup SUBSET ((IF "R" \in node[d].mask THEN {"IN"} ELSE {})
                                           \cup (IF "W" \in node[d].mask THEN {"OUT"} ELSE {}))
Reports == {e \in [Watched -> SUBSET {"IN", "OUT", "HUP"}] :
               \A d \in Watched : e[d] \in MayReport(d)}

\* A fresh set reports in the order of its additions, the signal pipe first.
Pipe == [node |-> NULL, of |-> NULL, events |-> {"IN"}]
Ready(pipe, e) ==
    LET ready == Select(descriptorList, {d \in Watched : e[d] # {}})
    IN (IF pipe THEN <<Pipe>> ELSE <<>>)
       \o [i \in 1 .. Len(ready) |-> Event(ready[i], e[ready[i]])]

\* What epoll_wait may put into an array of that size.
Cut(q, size) == SubSeq(q, 1, Min2(Len(q), size))
Answers(size) == {Cut(Ready(pipe, e), size) : pipe \in BOOLEAN, e \in Reports}

\* fillEPollDescriptor, epoll_wait, and the events of the refused ones after its
\* answer.  Nothing to report: the wait may end too, by its timeout or a signal.
Poll ==
    /\ at = "image"
    /\ UNCHANGED <<kind, descriptorList, node, retired>>
    /\ nextRefused' = NextPosition
    /\ LET reported == Reported
       IN \E answer \in Answers(EventsSize - Len(reported)) :
             /\ batch' = answer \o [i \in 1 .. Len(reported) |-> RefusedEvent(reported[i])]
             /\ at' = IF batch' = <<>> THEN "image" ELSE "event"

Pop == batch' = Tail(batch) /\ at' = "event"
Subject == batch[1].node

SkipEvent ==
    /\ at = "event" /\ batch # <<>>
    /\ Subject # NULL => node[Subject].fd = NULL
    /\ Pop
    /\ UNCHANGED <<kind, descriptorList, node, retired, nextRefused>>

\* The mask is cleared whatever the event; then the read handler, if asked for.
TakeEvent ==
    /\ at = "event" /\ batch # <<>>
    /\ Subject # NULL /\ node[Subject].fd # NULL
    /\ node' = [node EXCEPT ![Subject].mask = {}]
    /\ at' = IF "IN" \in batch[1].events /\ node[Subject].read THEN "read handler" ELSE "write"
    /\ UNCHANGED <<kind, descriptorList, retired, nextRefused, batch>>

ReadReturns ==
    /\ at = "read handler"
    /\ at' = "write"
    /\ UNCHANGED <<kind, descriptorList, node, retired, nextRefused, batch>>

CallWrite ==
    /\ at = "write"
    /\ IF "OUT" \in batch[1].events /\ node[Subject].write
       THEN at' = "write handler" /\ UNCHANGED batch
       ELSE Pop
    /\ UNCHANGED <<kind, descriptorList, node, retired, nextRefused>>

WriteReturns ==
    /\ at = "write handler"
    /\ Pop
    /\ UNCHANGED <<kind, descriptorList, node, retired, nextRefused>>

\* AioUnixDescriptor_freeRetired
EndBatch ==
    /\ at = "event" /\ batch = <<>>
    /\ retired' = {}
    /\ at' = "image"
    /\ UNCHANGED <<kind, descriptorList, node, nextRefused, batch>>

Turn == SkipEvent \/ TakeEvent \/ ReadReturns \/ CallWrite \/ WriteReturns \/ EndBatch

Client ==
    \/ \E f \in Fds : AioEnable(f) \/ AioDisable(f) \/ CloseUnderneath(f)
    \/ \E f \in Fds : \E mask \in Masks[f] : AioHandle(f, mask) \/ AioSuspend(f, mask)
    \/ AioFini

Next == Client \/ Poll \/ Turn

\* The VM polls again and again, and handlers return.  Nothing obliges epoll to
\* report anything, or a handler to re-arm.
Fairness == WF_vars(Poll) /\ WF_vars(Turn)
SafeSpec == Init /\ [][Next]_vars
Spec == SafeSpec /\ Fairness

(***************************************************************************)
(* Properties.                                                             *)
(***************************************************************************)
TypeOK ==
    /\ kind \in [Fds -> {"pollable", "regular", "closed"}]
    /\ descriptorList \in Seq(Nodes) /\ IsInjective(descriptorList)
    /\ node \in [Nodes -> [fd : Fds \cup {NULL}, read : BOOLEAN, write : BOOLEAN,
                           mask : SUBSET {"R", "W", "X"}]]
    /\ retired \subseteq Nodes
    /\ nextRefused \in Nat
    /\ at \in {"image", "event", "read handler", "write", "write handler"}
    /\ batch \in Seq([node : Nodes \cup {NULL}, of : Fds \cup {NULL},
                      events : SUBSET {"IN", "OUT", "HUP"}])

\* Whatever the handlers disable and enable while a batch is dispatched, an event
\* never leads to freed memory, nor to memory that has become another descriptor:
\* it goes to the descriptor it was reported for, or to nobody (aio.c:93-100).
\* And incomingEvents has room for what epoll answers and for the refused
\* descriptors put after it, though the list grew or shrank since
\* nextRefusedPosition was computed; none is reported twice in a turn.
EventsNameLiveNodes ==
    /\ TypeOK
    /\ \A i \in 1 .. Len(batch) :
          batch[i].node # NULL => /\ batch[i].node \in Listed \cup retired
                                  /\ node[batch[i].node].fd \in {batch[i].of, NULL}
    /\ Len(batch) <= EventsSize /\ Len(Reported) <= MaxRefused
    /\ \A i, j \in 1 .. Len(batch) :
          i # j /\ batch[i].node # NULL => batch[i].node # batch[j].node

\* A descriptor epoll refused is not starved: while every listed descriptor is
\* armed again by the next turn and none comes or goes, each is reported in some
\* turn, though one turn cannot report them all (nextRefusedPosition).
Polled == at = "image" /\ UNCHANGED <<kind, descriptorList, node, retired>>
Starving(f) == \E d \in Listed : node[d].fd = f /\ IsRefused(d)
RefusedAreReported ==
    <>[][descriptorList' = descriptorList /\ (Polled => \A d \in Listed : Armed(d))]_vars
        => \A f \in Fds : []<>~Starving(f)
================================================================================
