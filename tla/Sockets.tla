-------------------------------- MODULE Sockets --------------------------------
(***************************************************************************)
(* TCP sockets of the image: SocketPluginImpl.c, its primitives and its    *)
(* handlers, over one-shot descriptor watches (module AioDispatch; here    *)
(* one step clears the watch and runs the handler).  The kernel's side of  *)
(* a descriptor is what the primitives can tell apart of it; processes of  *)
(* the image wait on a socket's semaphores and look again when woken.      *)
(***************************************************************************)
EXTENDS Integers, FiniteSets

CONSTANTS Socks,        \* socket objects of the image, with their private structs
          Fds,          \* the descriptor numbers the process may have
          Overlap,      \* may one process wait to read while another waits to write?
          NULL

ASSUME ConstantsAssumption ==
    /\ Fds \subseteq Nat /\ IsFiniteSet(Fds)
    /\ Overlap \in BOOLEAN
    /\ NULL \notin Socks \cup Fds

VARIABLES
    thisNetSession,    \* is there a network session?
    sock,              \* a socket and its privateSocketStruct
    kernel,            \* what the kernel has behind each descriptor
    aio,               \* aio's descriptor for each of them
    waits,             \* what processes of the image wait for
    signals            \* the semaphores of a socket with a signal left

vars == <<thisNetSession, sock, kernel, aio, waits, signals>>

Unused == [psp |-> FALSE, s |-> NULL, sockState |-> "Unconnected",
           waitingToSend |-> FALSE, multiListen |-> FALSE, acceptedSock |-> NULL]
Closed == [st |-> "closed", rx |-> "none", full |-> FALSE]
Opened(st) == [Closed EXCEPT !.st = st]
Unwatched == [clientData |-> NULL, handler |-> NULL, armed |-> FALSE]
Enabled(s) == [Unwatched EXCEPT !.clientData = s]

Init ==
    /\ thisNetSession = TRUE
    /\ sock = [s \in Socks |-> Unused]
    /\ kernel = [f \in Fds |-> Closed]
    /\ aio = [f \in Fds |-> Unwatched]
    /\ waits = [s \in Socks |-> {}]
    /\ signals = [s \in Socks |-> {}]

\* A struct of an older session is never valid again, so none is kept.
Valid(s) == sock[s].psp
Fd(s) == sock[s].s
State(s) == sock[s].sockState

\* The kernel hands out the lowest number that is free.
FreeFds == {f \in Fds : kernel[f].st = "closed"}
NewFd == CHOOSE f \in FreeFds : \A g \in FreeFds : f <= g

CanRead(f) == kernel[f].rx # "none" \/ kernel[f].st = "failed"
CanWrite(f) == kernel[f].st = "failed" \/ (kernel[f].st = "up" /\ ~kernel[f].full)

\* aioEnable keeps what a descriptor it knows was watched for; aioHandle ignores
\* a descriptor that is not enabled, and replaces the handler of one that is.
AioEnable(s, f) == IF aio[f].clientData = NULL THEN Enabled(s)
                   ELSE [aio[f] EXCEPT !.clientData = s]
Handle(entry, handler) ==
    IF entry.clientData = NULL THEN entry ELSE [entry EXCEPT !.handler = handler, !.armed = TRUE]
Notify(s, what) == signals' = [signals EXCEPT ![s] = @ \cup what]

(***************************************************************************)
(* The kernel and the other end.                                           *)
(***************************************************************************)
KernelStep(f, from, to) ==
    /\ kernel[f] \in from
    /\ kernel' = [kernel EXCEPT ![f] = to]
    /\ UNCHANGED <<thisNetSession, sock, aio, waits, signals>>

Up(rx, full) == [st |-> "up", rx |-> rx, full |-> full]

\* "data" is readable; "ghost" is reported readable and is not when looked at.
Arrives(f) == \E full \in BOOLEAN, rx \in {"data", "ghost", "eof"} :
                 KernelStep(f, {Up("none", full)}, Up(rx, full))
SpaceFrees(f) == \E rx \in {"none", "data", "ghost", "eof"} :
                    KernelStep(f, {Up(rx, TRUE)}, Up(rx, FALSE))
Reset(f) == \E full \in BOOLEAN, rx \in {"none", "data", "eof"} :
               KernelStep(f, {Up(rx, full)}, [Opened("failed") EXCEPT !.rx = rx])
ConnectEnds(f) == \E st \in {"up", "failed"} : KernelStep(f, {Opened("connecting")}, Opened(st))
ConnectionComes(f) ==
    KernelStep(f, {Opened("listening")}, [Opened("listening") EXCEPT !.rx = "data"])
ListenFails(f) == KernelStep(f, {Opened("listening")}, Opened("failed"))

(***************************************************************************)
(* Handlers.  Each runs to its end in the dispatch of one event.           *)
(***************************************************************************)
Runs(f, handler) == aio[f].armed /\ aio[f].handler = handler
Client(f) == aio[f].clientData

AcceptError(f) ==      \* AIO_X
    /\ Runs(f, "accept") /\ kernel[f].st = "failed"
    /\ sock' = [sock EXCEPT ![Client(f)].sockState = "Invalid", ![Client(f)].s = NULL,
                            ![Client(f)].waitingToSend = FALSE]
    /\ aio' = [aio EXCEPT ![f] = Unwatched]
    /\ kernel' = [kernel EXCEPT ![f] = Closed]
    /\ Notify(Client(f), {"conn"})
    /\ UNCHANGED <<thisNetSession, waits>>

AcceptAborted(f) ==    \* ECONNABORTED
    /\ Runs(f, "accept") /\ kernel[f].rx = "data"
    /\ kernel' = [kernel EXCEPT ![f].rx = "none"]
    /\ UNCHANGED <<thisNetSession, sock, aio, waits, signals>>

\* accept() fails with anything else: there is no free descriptor.  pss->s
\* keeps the number of the descriptor that is closed.
AcceptFails(f) ==
    /\ Runs(f, "accept") /\ kernel[f].rx = "data"
    /\ FreeFds = {}
    /\ sock' = [sock EXCEPT ![Client(f)].sockState = "Invalid"]
    /\ aio' = [aio EXCEPT ![f] = Unwatched]
    /\ kernel' = [kernel EXCEPT ![f] = Closed]
    /\ Notify(Client(f), {"conn"})
    /\ UNCHANGED <<thisNetSession, waits>>

Accepts(f) ==
    /\ Runs(f, "accept") /\ kernel[f].rx = "data"
    /\ FreeFds # {}
    /\ LET s == Client(f)
           old == sock[s].acceptedSock
           multi == sock[s].multiListen
       IN /\ \E more \in {"none", "data"} :
                kernel' = [g \in Fds |-> IF g = NewFd THEN Up("none", FALSE)
                                         ELSE IF g = (IF multi THEN old ELSE f) THEN Closed
                                         ELSE IF g = f THEN [kernel[f] EXCEPT !.rx = more]
                                         ELSE kernel[g]]
          /\ sock' = [sock EXCEPT ![s] =
                         IF multi THEN [@ EXCEPT !.sockState = "Connected", !.acceptedSock = NewFd]
                         ELSE [@ EXCEPT !.sockState = "Connected", !.s = NewFd,
                                        !.waitingToSend = FALSE]]
          /\ aio' = IF multi THEN [aio EXCEPT ![f].armed = FALSE]
                    ELSE [aio EXCEPT ![f] = Unwatched, ![NewFd] = Enabled(s)]
          /\ Notify(s, {"conn"})
    /\ UNCHANGED <<thisNetSession, waits>>

ConnectHandler(f) ==
    /\ Runs(f, "connect") /\ CanWrite(f)
    /\ LET s == Client(f)
           waiting == State(s) = "WaitingForConnection"
           up == kernel[f].st = "up"
       IN /\ aio' = [aio EXCEPT ![f] = IF waiting /\ up THEN [@ EXCEPT !.armed = FALSE] ELSE Unwatched]
          /\ sock' = [sock EXCEPT ![s].sockState = IF ~waiting THEN @
                                                   ELSE IF up THEN "Connected" ELSE "Unconnected"]
          /\ Notify(s, IF waiting THEN {"conn"} ELSE {})
    /\ UNCHANGED <<thisNetSession, kernel, waits>>

SendHandler(f) ==
    /\ Runs(f, "send") /\ CanWrite(f)
    /\ aio' = [aio EXCEPT ![f].armed = FALSE]
    /\ sock' = [sock EXCEPT ![Client(f)].waitingToSend = FALSE]
    /\ Notify(Client(f), {"read", "write"})
    /\ UNCHANGED <<thisNetSession, kernel, waits>>

GhostForgotten(f) ==   \* mutant of GhostData: the watch is not renewed
    /\ Runs(f, "data") /\ kernel[f].rx = "ghost"
    /\ aio' = [aio EXCEPT ![f].armed = FALSE]
    /\ kernel' = [kernel EXCEPT ![f].rx = "none"]
    /\ UNCHANGED <<thisNetSession, sock, waits, signals>>

GhostData(f) ==        \* dataHandler, when socketReadable answers 0
    /\ Runs(f, "data") /\ kernel[f].rx = "ghost"
    /\ kernel' = [kernel EXCEPT ![f].rx = "none"]
    /\ UNCHANGED <<thisNetSession, sock, aio, waits, signals>>

DataHandler(f) ==
    /\ Runs(f, "data") /\ CanRead(f) /\ kernel[f].rx # "ghost"
    /\ aio' = [aio EXCEPT ![f].armed = FALSE]
    /\ sock' = [sock EXCEPT ![Client(f)].sockState = IF kernel[f].rx = "data" THEN @ ELSE "OtherEndClosed"]
    /\ Notify(Client(f), {"read"})
    /\ UNCHANGED <<thisNetSession, kernel, waits>>

\* EPOLLRDHUP without EPOLLOUT clears the watch and calls nobody.
HangUpUnheard(f) ==
    /\ Runs(f, "send") /\ kernel[f] = Up("eof", TRUE)
    /\ aio' = [aio EXCEPT ![f].armed = FALSE]
    /\ UNCHANGED <<thisNetSession, sock, kernel, waits, signals>>

Dispatch(f) == \/ AcceptError(f) \/ AcceptAborted(f) \/ AcceptFails(f) \/ Accepts(f)
               \/ ConnectHandler(f) \/ SendHandler(f) \/ GhostData(f) \/ DataHandler(f)
               \/ HangUpUnheard(f)

(***************************************************************************)
(* The image.  It creates a socket, connects it or listens on it, and asks *)
(* for data and sends on it as long as it has seen it connected.  After an *)
(* error of accept() it learns from the status that the socket is invalid  *)
(* before it destroys it.                                                  *)
(***************************************************************************)
MayWait(s, for) == IF Overlap THEN for \notin waits[s] ELSE waits[s] = {}

Create(s) ==
    /\ thisNetSession /\ ~Valid(s)
    /\ FreeFds # {}
    /\ sock' = [sock EXCEPT ![s] = [Unused EXCEPT !.psp = TRUE, !.s = NewFd]]
    /\ kernel' = [kernel EXCEPT ![NewFd] = Opened("fresh")]
    /\ waits' = [waits EXCEPT ![s] = {}] /\ signals' = [signals EXCEPT ![s] = {}]
    /\ UNCHANGED <<thisNetSession, aio>>

Fresh(s) == Valid(s) /\ State(s) = "Unconnected" /\ Fd(s) # NULL /\ kernel[Fd(s)].st = "fresh"

Listen(s, multi) ==
    /\ Fresh(s)
    /\ sock' = [sock EXCEPT ![s].multiListen = multi, ![s].sockState = "WaitingForConnection"]
    /\ kernel' = [kernel EXCEPT ![Fd(s)] = Opened("listening")]
    /\ aio' = [aio EXCEPT ![Fd(s)] = Handle(AioEnable(s, Fd(s)), "accept")]
    /\ waits' = [waits EXCEPT ![s] = {"conn"}]
    /\ UNCHANGED <<thisNetSession, signals>>

\* connect() succeeds at once, or is in progress.
Connect(s, st) ==
    /\ Fresh(s) /\ aio[Fd(s)] = Unwatched
    /\ kernel' = [kernel EXCEPT ![Fd(s)] = Opened(st)]
    /\ LET enabled == AioEnable(s, Fd(s))
       IN IF st = "up"
          THEN /\ sock' = [sock EXCEPT ![s].sockState = "Connected"]
               /\ aio' = [aio EXCEPT ![Fd(s)] = enabled]
               /\ Notify(s, {"conn"})
          ELSE /\ sock' = [sock EXCEPT ![s].sockState = "WaitingForConnection"]
               /\ aio' = [aio EXCEPT ![Fd(s)] = Handle(enabled, "connect")]
               /\ UNCHANGED signals
    /\ waits' = [waits EXCEPT ![s] = {"conn"}]
    /\ UNCHANGED thisNetSession

\* connect() fails at once.
ConnectError(s) ==
    /\ Fresh(s)
    /\ aio' = [aio EXCEPT ![Fd(s)] = AioEnable(s, Fd(s))]
    /\ Notify(s, {"conn"})
    /\ UNCHANGED <<thisNetSession, sock, kernel, waits>>

AcceptFrom(t, s) ==
    /\ Valid(s) /\ sock[s].multiListen /\ State(s) = "Connected" /\ waits[s] = {} /\ ~Valid(t)
    /\ LET f == sock[s].acceptedSock
       IN /\ sock' = [sock EXCEPT ![t] = [Unused EXCEPT !.psp = TRUE, !.s = f, !.sockState = "Connected"],
                                  ![s].acceptedSock = NULL, ![s].sockState = "WaitingForConnection"]
          /\ aio' = [aio EXCEPT ![Fd(s)] = Handle(@, "accept"), ![f] = AioEnable(t, f)]
    /\ waits' = [waits EXCEPT ![s] = {"conn"}, ![t] = {}]
    /\ signals' = [signals EXCEPT ![t] = {}]
    /\ UNCHANGED <<thisNetSession, kernel>>

Streams(s) == /\ Valid(s) /\ Fd(s) # NULL /\ ~sock[s].multiListen
              /\ State(s) \in {"Connected", "OtherEndClosed"}

\* What sqSocketReceiveDataAvailable changes; on FALSE the process waits again.
DataAvailable(s) ==
    LET f == Fd(s)
        connected == State(s) = "Connected"
        yes == connected /\ kernel[f].rx = "data"
        eof == connected /\ CanRead(f) /\ kernel[f].rx \notin {"data", "ghost"}
    IN /\ kernel' = [kernel EXCEPT ![f].rx = IF connected /\ @ = "ghost" THEN "none" ELSE @]
       /\ sock' = [sock EXCEPT ![s].sockState = IF eof THEN "OtherEndClosed" ELSE @]
       /\ aio' = [aio EXCEPT ![f] = IF yes THEN @ ELSE Handle(@, "data")]
       /\ waits' = [waits EXCEPT ![s] = IF connected /\ ~yes /\ ~eof THEN @ \cup {"read"}
                                        ELSE @ \ {"read"}]

WaitForData(s) ==
    /\ Streams(s) /\ MayWait(s, "read")
    /\ DataAvailable(s)
    /\ UNCHANGED <<thisNetSession, signals>>

Receive(s) ==
    /\ Streams(s) /\ MayWait(s, "read")
    /\ CanRead(Fd(s)) /\ kernel[Fd(s)].rx # "ghost"
    /\ IF kernel[Fd(s)].rx = "data"
       THEN /\ \E rx \in {"none", "data", "eof"} : kernel' = [kernel EXCEPT ![Fd(s)].rx = rx]
            /\ UNCHANGED <<sock, signals>>
       ELSE /\ sock' = [sock EXCEPT ![s].sockState = "OtherEndClosed"]
            /\ Notify(s, {"conn"})
            /\ UNCHANGED kernel
    /\ UNCHANGED <<thisNetSession, aio, waits>>

SendBlocks(s) ==
    /\ Streams(s) /\ MayWait(s, "write")
    /\ kernel[Fd(s)].st = "up" /\ kernel[Fd(s)].full
    /\ sock' = [sock EXCEPT ![s].waitingToSend = TRUE]
    /\ aio' = [aio EXCEPT ![Fd(s)] = Handle(@, "send")]
    /\ waits' = [waits EXCEPT ![s] = @ \cup {"write"}]
    /\ UNCHANGED <<thisNetSession, kernel, signals>>

Send(s) ==
    /\ Streams(s) /\ MayWait(s, "write")
    /\ CanWrite(Fd(s))
    /\ IF kernel[Fd(s)].st = "up"
       THEN /\ \E full \in BOOLEAN : kernel' = [kernel EXCEPT ![Fd(s)].full = full]
            /\ sock' = [sock EXCEPT ![s].waitingToSend = FALSE]
       ELSE /\ sock' = [sock EXCEPT ![s].waitingToSend = FALSE, ![s].sockState = "OtherEndClosed"]
            /\ UNCHANGED kernel
    /\ UNCHANGED <<thisNetSession, aio, waits, signals>>

SendDone(s) == State(s) = "Connected" /\ ~sock[s].waitingToSend

\* A process is woken by a semaphore and looks again: at sqSocketConnectionStatus,
\* which lets go of an invalid socket, at the data, or at sqSocketSendDone.
Wake(s, for) ==
    /\ Valid(s) /\ for \in waits[s] \cap signals[s]
    /\ signals' = [signals EXCEPT ![s] = @ \ {for}]
    /\ \/ /\ for = "conn"
          /\ sock' = [sock EXCEPT ![s].psp = State(s) # "Invalid"]
          /\ waits' = [waits EXCEPT ![s] = IF State(s) = "WaitingForConnection" THEN @ ELSE @ \ {for}]
          /\ UNCHANGED <<kernel, aio>>
       \/ for = "read" /\ DataAvailable(s)
       \/ /\ for = "write"
          /\ waits' = [waits EXCEPT ![s] = IF SendDone(s) \/ State(s) # "Connected" THEN @ \ {for} ELSE @]
          /\ UNCHANGED <<sock, kernel, aio>>
    /\ UNCHANGED thisNetSession

ShutOnlyOne(s) == kernel' = [kernel EXCEPT ![Fd(s)] = Closed]      \* mutant of Shut

\* closesocket of the socket and of a connection nobody has accepted from it.
Shut(s) == kernel' = [f \in Fds |-> IF f \in {Fd(s), sock[s].acceptedSock} THEN Closed ELSE kernel[f]]

CloseConnection(s) ==
    /\ Valid(s) /\ Fd(s) # NULL /\ State(s) # "Invalid"
    /\ Shut(s)
    /\ sock' = [sock EXCEPT ![s].sockState = "Unconnected", ![s].s = NULL]
    /\ aio' = [aio EXCEPT ![Fd(s)] = Unwatched]
    /\ waits' = [waits EXCEPT ![s] = {}]
    /\ UNCHANGED <<thisNetSession, signals>>

StillWatched(s) ==     \* mutant of Destroy: no aioDisable
    /\ Valid(s) /\ State(s) # "Invalid"
    /\ IF Fd(s) # NULL THEN Shut(s) ELSE UNCHANGED kernel
    /\ sock' = [sock EXCEPT ![s] = Unused]
    /\ waits' = [waits EXCEPT ![s] = {}] /\ signals' = [signals EXCEPT ![s] = {}]
    /\ UNCHANGED <<thisNetSession, aio>>

Destroy(s) ==
    /\ Valid(s) /\ State(s) # "Invalid"
    /\ IF Fd(s) # NULL THEN Shut(s) /\ aio' = [aio EXCEPT ![Fd(s)] = Unwatched]
       ELSE UNCHANGED <<kernel, aio>>
    /\ sock' = [sock EXCEPT ![s] = Unused]
    /\ waits' = [waits EXCEPT ![s] = {}] /\ signals' = [signals EXCEPT ![s] = {}]
    /\ UNCHANGED thisNetSession

\* sqNetworkShutdown: no socket is valid any more, and aioFini forgets them all.
\* Their descriptors stay open with no one to close them.
NetworkShutdown ==
    /\ thisNetSession
    /\ thisNetSession' = FALSE
    /\ aio' = [f \in Fds |-> Unwatched]
    /\ sock' = [s \in Socks |-> Unused]
    /\ kernel' = [f \in Fds |-> IF f \in FreeFds THEN Closed ELSE Opened("leaked")]
    /\ waits' = [s \in Socks |-> {}] /\ signals' = [s \in Socks |-> {}]

NetworkInit ==
    /\ ~thisNetSession
    /\ thisNetSession' = TRUE
    /\ UNCHANGED <<sock, kernel, aio, waits, signals>>

Kernel == \E f \in Fds : \/ Arrives(f) \/ SpaceFrees(f) \/ Reset(f) \/ ConnectEnds(f)
                         \/ ConnectionComes(f) \/ ListenFails(f)
Image(s) == \/ Create(s) \/ (\E multi \in BOOLEAN : Listen(s, multi))
            \/ (\E st \in {"up", "connecting"} : Connect(s, st)) \/ ConnectError(s)
            \/ (\E t \in Socks : AcceptFrom(t, s))
            \/ WaitForData(s) \/ Receive(s) \/ SendBlocks(s) \/ Send(s)
            \/ CloseConnection(s) \/ Destroy(s)

Next == \/ Kernel
        \/ \E f \in Fds : Dispatch(f)
        \/ \E s \in Socks : Image(s) \/ \E for \in {"conn", "read", "write"} : Wake(s, for)
        \/ NetworkShutdown \/ NetworkInit

\* The VM polls and a woken process runs.  The other end, the kernel and the
\* rest of the image owe nothing.
Fairness == /\ \A f \in Fds : WF_vars(Dispatch(f))
            /\ \A s \in Socks, for \in {"conn", "read", "write"} : WF_vars(Wake(s, for))
SafeSpec == Init /\ [][Next]_vars
Spec == SafeSpec /\ Fairness

(***************************************************************************)
(* Properties.                                                             *)
(***************************************************************************)
TypeOK ==
    /\ thisNetSession \in BOOLEAN
    /\ sock \in [Socks -> [psp : BOOLEAN, s : Fds \cup {NULL},
                  sockState : {"Unconnected", "WaitingForConnection", "Connected",
                               "OtherEndClosed", "Invalid"},
                  waitingToSend : BOOLEAN, multiListen : BOOLEAN, acceptedSock : Fds \cup {NULL}]]
    /\ kernel \in [Fds -> [st : {"closed", "fresh", "listening", "connecting", "up", "failed",
                                 "leaked"},
                           rx : {"none", "data", "ghost", "eof"}, full : BOOLEAN]]
    /\ aio \in [Fds -> [clientData : Socks \cup {NULL}, armed : BOOLEAN,
                        handler : {NULL, "accept", "connect", "send", "data"}]]
    /\ waits \in [Socks -> SUBSET {"conn", "read", "write"}]
    /\ signals \in [Socks -> SUBSET {"conn", "read", "write"}]

\* A handler is never called for a struct that was freed, nor for a descriptor
\* that is not the socket's own: whatever is closed, replaced by the connection
\* it accepted, or opened again under the same number.
WatchesAreOwn ==
    \A f \in Fds : aio[f].clientData # NULL =>
        LET s == aio[f].clientData IN Valid(s) /\ Fd(s) = f /\ kernel[f].st # "closed"

\* No two sockets hold one descriptor: closing one never closes the other.
Holds(s) == IF ~Valid(s) \/ Fd(s) = NULL \/ State(s) = "Invalid" THEN {}
            ELSE {Fd(s), sock[s].acceptedSock} \ {NULL}
DescriptorsAreOwned ==
    /\ TypeOK
    /\ \A s, t \in Socks : s # t => Holds(s) \cap Holds(t) = {}
    /\ \A f \in Fds : kernel[f].st \notin {"closed", "leaked"} => \E s \in Socks : f \in Holds(s)

\* A process that waits for a connection, for data or for room to send is told
\* when there is some, by a signal that it has not used up already.
IsThere(s, for) ==
    /\ Valid(s) /\ Fd(s) # NULL /\ for \in waits[s]
    /\ CASE for = "conn"  -> kernel[Fd(s)].st \in {"up", "failed"} \/ CanRead(Fd(s))
         [] for = "read"  -> CanRead(Fd(s))
         [] for = "write" -> CanWrite(Fd(s)) /\ kernel[Fd(s)].rx # "eof"
WaitersAreTold ==
    \A s \in Socks, for \in {"conn", "read", "write"} : IsThere(s, for) ~> ~IsThere(s, for)
================================================================================
