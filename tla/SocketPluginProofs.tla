------------------------- MODULE SocketPluginProofs --------------------------
(***************************************************************************)
(* Proofs about the two models of SocketPluginImpl.c.  Sockets: for any    *)
(* sockets and any descriptor numbers.  Resolver: for any number of lookup *)
(* threads and any bound on the lookups begun.                             *)
(***************************************************************************)
EXTENDS Sockets, Resolver, TLAPS, FiniteSetTheorems, WellFoundedInduction

\* A socket that holds descriptors.
Live(s) == Valid(s) /\ Fd(s) # NULL /\ State(s) # "Invalid"

\* What it holds is open, and the connection nobody has accepted yet is another one
\* than its own.
HoldOf(s) ==
    Live(s) => /\ kernel[Fd(s)].st \notin {"closed", "leaked"}
               /\ sock[s].acceptedSock # NULL =>
                     /\ sock[s].acceptedSock # Fd(s)
                     /\ kernel[sock[s].acceptedSock].st \notin {"closed", "leaked"}
HoldInv == \A s \in Socks : HoldOf(s)

\* The stages of a socket: one that listens for many connections and is connected has
\* a connection to be accepted, and does not watch for more.
StageOf(s) ==
    /\ Valid(s) /\ State(s) = "Connected" =>
          Fd(s) # NULL /\ (sock[s].multiListen => sock[s].acceptedSock # NULL)
    /\ Live(s) /\ kernel[Fd(s)].st = "fresh" =>
          ~sock[s].multiListen /\ sock[s].acceptedSock = NULL
StageInv == \A s \in Socks : StageOf(s)

\* A watch belongs to the socket that holds its descriptor.
WatchOf(f) ==
    /\ aio[f].armed => aio[f].clientData # NULL
    /\ aio[f].clientData # NULL => Live(Client(f)) /\ Fd(Client(f)) = f
    /\ Runs(f, "accept") => sock[Client(f)].acceptedSock = NULL
    /\ Runs(f, "connect") => ~sock[Client(f)].multiListen
WatchInv == \A f \in Fds : WatchOf(f)

IInv == TypeOK /\ HoldInv /\ StageInv /\ WatchInv /\ DescriptorsAreOwned

SockType == [psp : BOOLEAN, s : Fds \cup {NULL},
             sockState : {"Unconnected", "WaitingForConnection", "Connected",
                          "OtherEndClosed", "Invalid"},
             waitingToSend : BOOLEAN, multiListen : BOOLEAN, acceptedSock : Fds \cup {NULL}]
KernelType == [st : {"closed", "fresh", "listening", "connecting", "up", "failed", "leaked"},
               rx : {"none", "data", "ghost", "eof"}, full : BOOLEAN]
AioType == [clientData : Socks \cup {NULL}, armed : BOOLEAN,
            handler : {NULL, "accept", "connect", "send", "data"}]
What == {"conn", "read", "write"}

----------------------------------------------------------------------------
\* Every set of natural numbers has a least one: the kernel hands it out.
LEMMA Smallest ==
    ASSUME NEW T, T \subseteq Nat, T # {}
    PROVE  \E x \in T : \A y \in T : x <= y
<1> DEFINE Below(n) == 0 .. n
           R == StrictSubsetOrdering(Nat)
           U == {Below(n) : n \in T}
<1>1. U \subseteq FiniteSubsetsOf(Nat) /\ U # {}
  <2>1. ASSUME NEW n \in T PROVE Below(n) \in FiniteSubsetsOf(Nat)
    <3>1. IsFiniteSet(Below(n))
      BY FS_Interval
    <3>2. Below(n) \in SUBSET Nat
      OBVIOUS
    <3> HIDE DEF Below
    <3> QED
      BY <3>1, <3>2 DEF FiniteSubsetsOf
  <2> QED
    BY <2>1
<1>2. IsWellFoundedOn(R, FiniteSubsetsOf(Nat))
  BY FS_StrictSubsetOrderingWellFounded
<1> HIDE DEF R, U
<1>3. PICK s \in U : \A u \in U : <<u, s>> \notin R
  BY <1>1, <1>2, WFMin, Zenon
<1>4. PICK x \in T : s = 0 .. x
  BY <1>3 DEF U
<1>5. ASSUME NEW y \in T PROVE x <= y
  <2>1. <<0 .. y, 0 .. x>> \notin R
    BY <1>3, <1>4 DEF U
  <2>2. 0 .. y \in SUBSET Nat /\ 0 .. x \in SUBSET Nat
    OBVIOUS
  <2>3. ~ (0 .. y \subseteq 0 .. x) \/ 0 .. y = 0 .. x
    BY <2>1, <2>2 DEF R, StrictSubsetOrdering
  <2>4. x \in Nat /\ y \in Nat
    OBVIOUS
  <2> QED
    BY <2>3, <2>4
<1> QED
  BY <1>5

LEMMA NewFdFacts == ASSUME FreeFds # {} PROVE NewFd \in Fds /\ kernel[NewFd].st = "closed"
<1>1. FreeFds \subseteq Nat
  BY ConstantsAssumption DEF FreeFds
<1>2. \E f \in FreeFds : \A g \in FreeFds : f <= g
  BY <1>1, Smallest
<1>3. NewFd \in FreeFds
  BY <1>2 DEF NewFd
<1> QED
  BY <1>3 DEF FreeFds

LEMMA Types ==
    TypeOK <=> /\ thisNetSession \in BOOLEAN /\ sock \in [Socks -> SockType]
               /\ kernel \in [Fds -> KernelType] /\ aio \in [Fds -> AioType]
               /\ waits \in [Socks -> SUBSET What] /\ signals \in [Socks -> SUBSET What]
BY DEF TypeOK, SockType, KernelType, AioType, What

LEMMA TypesPrimed ==
    ASSUME thisNetSession' \in BOOLEAN, sock' \in [Socks -> SockType],
           kernel' \in [Fds -> KernelType], aio' \in [Fds -> AioType],
           waits' \in [Socks -> SUBSET What], signals' \in [Socks -> SUBSET What]
    PROVE  TypeOK'
BY DEF TypeOK, SockType, KernelType, AioType, What

\* The records new entries are made of.
LEMMA Records ==
    /\ Unused \in SockType /\ Closed \in KernelType /\ Unwatched \in AioType
    /\ \A st \in {"fresh", "listening", "connecting", "up", "failed", "leaked"} :
          Opened(st) \in KernelType /\ Opened(st).st = st
    /\ \A s \in Socks : /\ Enabled(s) \in AioType /\ Enabled(s).clientData = s
                        /\ ~Enabled(s).armed
BY DEF Unused, Closed, Unwatched, Opened, Enabled, SockType, KernelType, AioType

LEMMA HandleFacts ==
    ASSUME NEW e \in AioType, NEW h \in {"accept", "connect", "send", "data"}
    PROVE  LET d == Handle(e, h)
           IN  /\ d \in AioType /\ d.clientData = e.clientData
               /\ e.clientData = NULL => d = e
               /\ e.clientData # NULL => d.armed /\ d.handler = h
BY DEF Handle, AioType

----------------------------------------------------------------------------
(* Steps that change no holding.                                            *)

Same(s) ==
    /\ sock'[s].psp = sock[s].psp /\ sock'[s].s = sock[s].s
    /\ sock'[s].acceptedSock = sock[s].acceptedSock
    /\ sock'[s].multiListen = sock[s].multiListen
    /\ sock'[s].sockState = "Invalid" <=> sock[s].sockState = "Invalid"
    /\ sock'[s].sockState = "Connected" =>
          sock[s].sockState = "Connected" \/ (sock[s].s # NULL /\ ~sock[s].multiListen)

Open(f) ==
    kernel'[f].st = kernel[f].st \/ /\ kernel[f].st \notin {"closed", "leaked"}
                                    /\ kernel'[f].st \notin {"closed", "leaked", "fresh"}

LEMMA Quiet ==
    ASSUME IInv, TypeOK', WatchInv', \A s \in Socks : Same(s), \A f \in Fds : Open(f)
    PROVE  IInv'
<1>0. TypeOK /\ \A s \in Socks : sock[s].s \in Fds \cup {NULL}
                               /\ sock[s].acceptedSock \in Fds \cup {NULL}
  BY DEF IInv, TypeOK
<1>1. \A s \in Socks : Live(s)' <=> Live(s)
  BY DEF Same, Live, Valid, Fd, State
<1>2. \A s \in Socks : Holds(s)' = Holds(s)
  BY DEF Same, Holds, Valid, Fd, State
<1>3. HoldInv'
  <2> SUFFICES ASSUME NEW s \in Socks, Live(s)'
               PROVE  /\ kernel'[sock'[s].s].st \notin {"closed", "leaked"}
                      /\ sock'[s].acceptedSock # NULL =>
                            /\ sock'[s].acceptedSock # sock'[s].s
                            /\ kernel'[sock'[s].acceptedSock].st \notin {"closed", "leaked"}
    BY DEF HoldInv, HoldOf, Fd
  <2>1. /\ kernel[sock[s].s].st \notin {"closed", "leaked"} /\ sock[s].s \in Fds
        /\ sock[s].acceptedSock # NULL =>
              /\ sock[s].acceptedSock # sock[s].s /\ sock[s].acceptedSock \in Fds
              /\ kernel[sock[s].acceptedSock].st \notin {"closed", "leaked"}
    BY <1>0, <1>1 DEF IInv, HoldInv, HoldOf, Live, Fd
  <2>2. sock'[s].s = sock[s].s /\ sock'[s].acceptedSock = sock[s].acceptedSock
    BY DEF Same
  <2> QED
    BY <2>1, <2>2 DEF Open
<1>4. StageInv'
  <2>1. ASSUME NEW s \in Socks, Valid(s)', State(s)' = "Connected"
        PROVE  Fd(s)' # NULL /\ (sock'[s].multiListen => sock'[s].acceptedSock # NULL)
    BY <2>1 DEF IInv, StageInv, StageOf, Same, Valid, State, Fd
  <2>2. ASSUME NEW s \in Socks, Live(s)', kernel'[sock'[s].s].st = "fresh"
        PROVE  ~sock'[s].multiListen /\ sock'[s].acceptedSock = NULL
    <3>1. Live(s) /\ sock[s].s \in Fds /\ sock'[s].s = sock[s].s
      BY <1>0, <1>1, <2>2 DEF Live, Fd, Same
    <3>2. kernel[sock[s].s].st = "fresh"
      BY <2>2, <3>1 DEF Open
    <3> QED
      BY <3>1, <3>2 DEF IInv, StageInv, StageOf, Fd, Same
  <2> QED
    BY <2>1, <2>2 DEF StageInv, StageOf, Fd
<1>5. DescriptorsAreOwned'
  <2>1. \A f \in Fds : kernel'[f].st \notin {"closed", "leaked"} =>
                            kernel[f].st \notin {"closed", "leaked"}
    BY DEF Open
  <2> QED
    BY <1>2, <2>1 DEF IInv, DescriptorsAreOwned
<1> QED
  BY <1>3, <1>4, <1>5 DEF IInv

\* A step in which the sockets of C change, and the others keep what they hold.
LEMMA Changes ==
    ASSUME IInv, TypeOK', NEW C \in SUBSET Socks,
           \A t \in Socks \ C : sock'[t] = sock[t],
           \A t \in Socks \ C : \A f \in Holds(t) \cap Fds : kernel'[f] = kernel[f],
           \A c \in C : HoldOf(c)' /\ StageOf(c)',
           \A f \in Fds : (aio'[f] = aio[f] /\ aio[f].clientData \notin C) \/ WatchOf(f)',
           \A c \in C, t \in Socks : c # t => Holds(c)' \cap Holds(t)' = {},
           \A f \in Fds : kernel'[f].st \notin {"closed", "leaked"} =>
              \/ \E c \in C : f \in Holds(c)'
              \/ kernel[f].st \notin {"closed", "leaked"} /\ \A c \in C : f \notin Holds(c)
    PROVE  IInv'
<1>0. TypeOK /\ \A t \in Socks : sock[t].s \in Fds \cup {NULL}
                               /\ sock[t].acceptedSock \in Fds \cup {NULL}
  BY DEF IInv, TypeOK
<1>1. \A t \in Socks \ C : /\ Live(t)' <=> Live(t)
                           /\ Valid(t)' /\ State(t)' = "Connected" <=>
                              Valid(t) /\ State(t) = "Connected"
                           /\ Holds(t)' = Holds(t)
  BY DEF Live, Valid, Fd, State, Holds
<1>2. ASSUME NEW t \in Socks \ C, Live(t)
      PROVE  /\ sock'[t] = sock[t] /\ kernel'[sock[t].s] = kernel[sock[t].s]
             /\ sock[t].acceptedSock # NULL =>
                   kernel'[sock[t].acceptedSock] = kernel[sock[t].acceptedSock]
  <2>1. sock[t].s \in Holds(t) \cap Fds
    BY <1>0, <1>2 DEF Live, Holds, Fd
  <2>2. sock[t].acceptedSock # NULL => sock[t].acceptedSock \in Holds(t) \cap Fds
    BY <1>0, <1>2 DEF Live, Holds
  <2> QED
    BY <2>1, <2>2
<1>3. HoldInv'
  <2> SUFFICES ASSUME NEW t \in Socks \ C, Live(t)'
               PROVE  /\ kernel'[sock'[t].s].st \notin {"closed", "leaked"}
                      /\ sock'[t].acceptedSock # NULL =>
                            /\ sock'[t].acceptedSock # sock'[t].s
                            /\ kernel'[sock'[t].acceptedSock].st \notin {"closed", "leaked"}
    BY DEF HoldInv, HoldOf, Fd
  <2>1. Live(t)
    BY <1>1
  <2>2. /\ kernel[sock[t].s].st \notin {"closed", "leaked"}
        /\ sock[t].acceptedSock # NULL =>
              /\ sock[t].acceptedSock # sock[t].s
              /\ kernel[sock[t].acceptedSock].st \notin {"closed", "leaked"}
    BY <2>1 DEF IInv, HoldInv, HoldOf, Fd
  <2> QED
    BY <1>2, <2>1, <2>2
<1>4. StageInv'
  <2>1. ASSUME NEW t \in Socks \ C, Valid(t)', State(t)' = "Connected"
        PROVE  sock'[t].s # NULL /\ (sock'[t].multiListen => sock'[t].acceptedSock # NULL)
    <3>1. Valid(t) /\ State(t) = "Connected"
      BY <1>1, <2>1
    <3> QED
      BY <3>1 DEF IInv, StageInv, StageOf, Fd
  <2>2. ASSUME NEW t \in Socks \ C, Live(t)', kernel'[sock'[t].s].st = "fresh"
        PROVE  ~sock'[t].multiListen /\ sock'[t].acceptedSock = NULL
    <3>1. Live(t)
      BY <1>1, <2>2
    <3>2. kernel[sock[t].s].st = "fresh" /\ sock'[t] = sock[t]
      BY <1>2, <2>2, <3>1
    <3> QED
      BY <3>1, <3>2 DEF IInv, StageInv, StageOf, Fd
  <2> QED
    BY <2>1, <2>2 DEF StageInv, StageOf, Fd
<1>5. WatchInv'
  <2> SUFFICES ASSUME NEW f \in Fds, aio'[f] = aio[f], aio[f].clientData \notin C
               PROVE  WatchOf(f)'
    BY DEF WatchInv
  <2>1. CASE aio[f].clientData # NULL
    <3>1. PICK c \in Socks \ C : c = Client(f) /\ c = Client(f)'
      BY <1>0, <2>1 DEF TypeOK, Client
    <3>2. sock'[c] = sock[c] /\ Live(c) /\ sock[c].s = f
      BY <2>1, <3>1 DEF IInv, WatchInv, WatchOf, Fd
    <3>3. Live(c)' /\ sock'[c].s = f
      BY <1>1, <3>2
    <3>4. Live(Client(f))' /\ Fd(Client(f))' = f
      BY <3>1, <3>3 DEF Live, Valid, Fd, State
    <3>5. /\ Runs(f, "accept") => sock[c].acceptedSock = NULL
          /\ Runs(f, "connect") => ~sock[c].multiListen
      BY <3>1 DEF IInv, WatchInv, WatchOf
    <3>6. (Runs(f, "accept")' <=> Runs(f, "accept")) /\ (Runs(f, "connect")' <=> Runs(f, "connect"))
      BY DEF Runs
    <3> QED
      BY <2>1, <3>1, <3>2, <3>4, <3>5, <3>6 DEF WatchOf
  <2>2. CASE aio[f].clientData = NULL
    BY <2>2 DEF IInv, WatchInv, WatchOf, Runs
  <2> QED
    BY <2>1, <2>2
<1>6. DescriptorsAreOwned'
  <2>1. \A t, u \in Socks : t # u => Holds(t)' \cap Holds(u)' = {}
    BY <1>1 DEF IInv, DescriptorsAreOwned
  <2>2. ASSUME NEW f \in Fds, kernel'[f].st \notin {"closed", "leaked"}
        PROVE  \E t \in Socks : f \in Holds(t)'
    <3>1. CASE kernel[f].st \notin {"closed", "leaked"} /\ \A c \in C : f \notin Holds(c)
      <4>1. PICK t \in Socks : f \in Holds(t)
        BY <3>1 DEF IInv, DescriptorsAreOwned
      <4> QED
        BY <1>1, <3>1, <4>1
    <3> QED
      BY <2>2, <3>1
  <2> QED
    BY <2>1, <2>2 DEF DescriptorsAreOwned
<1> QED
  BY <1>3, <1>4, <1>5, <1>6 DEF IInv

LEMMA OneChanges ==
    ASSUME IInv, TypeOK', NEW s \in Socks,
           \A t \in Socks \ {s} : sock'[t] = sock[t],
           \A t \in Socks \ {s} : \A f \in Holds(t) \cap Fds : kernel'[f] = kernel[f],
           HoldOf(s)', StageOf(s)',
           \A f \in Fds : (aio'[f] = aio[f] /\ aio[f].clientData # s) \/ WatchOf(f)',
           \A t \in Socks \ {s} : Holds(s)' \cap Holds(t) = {},
           \A f \in Fds : kernel'[f].st \notin {"closed", "leaked"} =>
              \/ f \in Holds(s)'
              \/ kernel[f].st \notin {"closed", "leaked"} /\ f \notin Holds(s)
    PROVE  IInv'
<1>1. \A t \in Socks \ {s} : Holds(t)' = Holds(t)
  BY DEF Live, Valid, Fd, State, Holds
<1> DEFINE C == {s}
<1>2. /\ C \in SUBSET Socks /\ \A c \in C : c = s
      /\ \A t \in Socks \ C : t \in Socks \ {s}
      /\ \A f \in Fds : aio[f].clientData # s => aio[f].clientData \notin C
  OBVIOUS
<1>3. s \in C
  OBVIOUS
<1> HIDE DEF C
<1>4. \A c \in C : HoldOf(c)' /\ StageOf(c)'
  BY <1>2
<1>5. \A c \in C, t \in Socks : c # t => Holds(c)' \cap Holds(t)' = {}
  BY <1>1, <1>2
<1>6. \A f \in Fds : kernel'[f].st \notin {"closed", "leaked"} =>
         \/ \E c \in C : f \in Holds(c)'
         \/ kernel[f].st \notin {"closed", "leaked"} /\ \A c \in C : f \notin Holds(c)
  BY <1>2, <1>3
<1>7. \A f \in Fds : (aio'[f] = aio[f] /\ aio[f].clientData \notin C) \/ WatchOf(f)'
  BY <1>2
<1> QED
  BY <1>2, <1>4, <1>5, <1>6, <1>7, Changes

\* A socket that lets go of what it held, and of its watch.
LEMMA Release ==
    ASSUME IInv, TypeOK', NEW s \in Socks,
           \A t \in Socks \ {s} : sock'[t] = sock[t],
           ~Live(s)', ~(Valid(s)' /\ State(s)' = "Connected"),
           \A f \in Fds : kernel'[f] = IF f \in Holds(s) THEN Closed ELSE kernel[f],
           \A f \in Fds : /\ aio'[f] \in {aio[f], Unwatched}
                          /\ aio'[f].clientData # s
    PROVE  IInv'
<1>1. \A t \in Socks \ {s} : \A f \in Holds(t) \cap Fds : kernel'[f] = kernel[f]
  BY DEF IInv, DescriptorsAreOwned
<1>2. HoldOf(s)' /\ StageOf(s)'
  BY DEF HoldOf, StageOf
<1>3. \A f \in Fds : (aio'[f] = aio[f] /\ aio[f].clientData # s) \/ WatchOf(f)'
  BY DEF WatchOf, Runs, Unwatched
<1>4. Holds(s)' = {}
  BY DEF Live, Holds
<1>5. \A f \in Fds : kernel'[f].st \notin {"closed", "leaked"} =>
         kernel[f].st \notin {"closed", "leaked"} /\ f \notin Holds(s)
  BY DEF Closed
<1> QED
  BY <1>1, <1>2, <1>3, <1>4, <1>5, OneChanges

\* A watch that is enabled again is the socket's own.
LEMMA OwnWatch ==
    ASSUME IInv, NEW s \in Socks, Live(s)
    PROVE  /\ Fd(s) \in Fds /\ aio[Fd(s)].clientData \in {NULL, s}
           /\ AioEnable(s, Fd(s)) = IF aio[Fd(s)].clientData = NULL THEN Enabled(s) ELSE aio[Fd(s)]
<1>1. Fd(s) \in Fds /\ aio[Fd(s)] \in AioType
  BY Types DEF IInv, Live, Fd, SockType
<1>2. aio[Fd(s)].clientData \in {NULL, s}
  <2> SUFFICES ASSUME aio[Fd(s)].clientData # NULL, aio[Fd(s)].clientData # s PROVE FALSE
    OBVIOUS
  <2> DEFINE t == aio[Fd(s)].clientData
  <2>1. t \in Socks
    BY <1>1 DEF AioType
  <2>2. Live(t) /\ Fd(t) = Fd(s)
    BY <1>1 DEF IInv, WatchInv, WatchOf, Client
  <2>3. Fd(s) \in Holds(s) /\ Fd(s) \in Holds(t)
    BY <2>2 DEF Live, Holds
  <2> QED
    BY <2>1, <2>3 DEF IInv, DescriptorsAreOwned
<1>3. ASSUME aio[Fd(s)].clientData = s PROVE [aio[Fd(s)] EXCEPT !.clientData = s] = aio[Fd(s)]
  BY <1>1, <1>3 DEF AioType
<1> QED
  BY <1>1, <1>2, <1>3 DEF AioEnable

\* What a quiet step may do to a watch.
StillOwn(f) ==
    LET e == aio'[f]
    IN  /\ e.armed => e.clientData # NULL
        /\ e.clientData # NULL => \/ e.clientData = aio[f].clientData
                                  \/ Live(e.clientData) /\ Fd(e.clientData) = f
        /\ e.armed /\ e.handler = "accept" =>
              e.clientData = aio[f].clientData /\ Runs(f, "accept")
        /\ e.armed /\ e.handler = "connect" =>
              \/ e.clientData = aio[f].clientData /\ Runs(f, "connect")
              \/ ~sock[e.clientData].multiListen

LEMMA QuietStep ==
    ASSUME IInv, TypeOK', \A s \in Socks : Same(s), \A f \in Fds : Open(f),
           \A f \in Fds : StillOwn(f)
    PROVE  IInv'
<1>1. \A s \in Socks : (Live(s)' <=> Live(s)) /\ Fd(s)' = Fd(s)
  BY DEF Same, Live, Valid, Fd, State
<1>2. WatchInv'
  <2> SUFFICES ASSUME NEW f \in Fds
               PROVE  /\ aio'[f].armed => aio'[f].clientData # NULL
                      /\ aio'[f].clientData # NULL =>
                            Live(aio[f].clientData)' /\ Fd(aio[f].clientData)' = f
                      /\ aio'[f].armed /\ aio'[f].handler = "accept" =>
                            sock'[aio'[f].clientData].acceptedSock = NULL
                      /\ aio'[f].armed /\ aio'[f].handler = "connect" =>
                            ~sock'[aio'[f].clientData].multiListen
    BY DEF WatchInv, WatchOf, Client, Runs
  <2>1. aio'[f].armed => aio'[f].clientData # NULL
    BY DEF StillOwn
  <2>2. CASE aio'[f].clientData # NULL
    <3>1. PICK c \in Socks : c = aio'[f].clientData
      BY <2>2 DEF TypeOK
    <3>2. Live(c) /\ Fd(c) = f
      BY <2>2, <3>1 DEF StillOwn, IInv, WatchInv, WatchOf, Client
    <3>3. Live(c)' /\ Fd(c)' = f
      BY <1>1, <3>2
    <3>4. Live(aio[f].clientData)' /\ Fd(aio[f].clientData)' = f
      BY <3>1, <3>3 DEF Live, Valid, Fd, State
    <3>5. /\ aio'[f].armed /\ aio'[f].handler = "accept" => sock[c].acceptedSock = NULL
          /\ aio'[f].armed /\ aio'[f].handler = "connect" => ~sock[c].multiListen
      BY <2>2, <3>1 DEF StillOwn, IInv, WatchInv, WatchOf, Client
    <3>6. sock'[c].acceptedSock = sock[c].acceptedSock
          /\ sock'[c].multiListen = sock[c].multiListen
      BY DEF Same
    <3> QED
      BY <2>1, <3>1, <3>4, <3>5, <3>6
  <2> QED
    BY <2>1, <2>2
<1> QED
  BY <1>2, Quiet
\* What most steps do to a watch: nothing, forget it, clear its one shot, or ask for
\* data or for room to send.
LEMMA KeptWatch ==
    ASSUME IInv, NEW f \in Fds,
           aio'[f] \in {aio[f], Unwatched, [aio[f] EXCEPT !.armed = FALSE],
                        Handle(aio[f], "send"), Handle(aio[f], "data")}
    PROVE  StillOwn(f) /\ aio'[f] \in AioType
<1>1. aio[f] \in AioType /\ (aio[f].armed => aio[f].clientData # NULL)
  BY Types DEF IInv, WatchInv, WatchOf
<1>2. CASE aio'[f] = aio[f]
  BY <1>1, <1>2 DEF StillOwn, Runs
<1>3. CASE aio'[f] = Unwatched
  BY <1>3, Records DEF StillOwn, Unwatched
<1>4. CASE aio'[f] = [aio[f] EXCEPT !.armed = FALSE]
  BY <1>1, <1>4 DEF StillOwn, AioType
<1>5. ASSUME NEW h \in {"send", "data"}, aio'[f] = Handle(aio[f], h)
      PROVE  StillOwn(f) /\ aio'[f] \in AioType
  <2>1. /\ aio'[f] \in AioType /\ aio'[f].clientData = aio[f].clientData
        /\ aio[f].clientData = NULL => aio'[f] = aio[f]
        /\ aio[f].clientData # NULL => aio'[f].handler = h
    BY <1>1, <1>5, HandleFacts
  <2> QED
    BY <1>1, <2>1 DEF StillOwn
<1> QED
  BY <1>2, <1>3, <1>4, <1>5

LEMMA HandlerFacts ==
    ASSUME IInv, NEW f \in Fds, NEW h, Runs(f, h)
    PROVE  /\ Client(f) \in Socks /\ Live(Client(f)) /\ Fd(Client(f)) = f
           /\ sock[Client(f)] \in SockType /\ sock[Client(f)].s = f
           /\ sock[Client(f)].psp /\ sock[Client(f)].sockState # "Invalid"
           /\ kernel[f].st \notin {"closed", "leaked"} /\ f # NULL
<1>1. aio[f] \in AioType /\ aio[f].clientData # NULL
  BY Types DEF IInv, WatchInv, WatchOf, Runs
<1>2. Client(f) \in Socks /\ Live(Client(f)) /\ Fd(Client(f)) = f
  BY <1>1 DEF IInv, WatchInv, WatchOf, Client, AioType
<1>3. sock[Client(f)] \in SockType
  BY <1>2, Types DEF IInv
<1> QED
  BY <1>2, <1>3 DEF IInv, HoldInv, HoldOf, Live, Fd, Valid, State

----------------------------------------------------------------------------
(* The kernel and the other end.                                            *)

LEMMA KernelStepKeeps ==
    ASSUME IInv, NEW f \in Fds, NEW from, NEW to \in KernelType, KernelStep(f, from, to),
           to.st \notin {"closed", "leaked", "fresh"},
           \A k \in from : k.st \notin {"closed", "leaked"}
    PROVE  IInv'
<1>1. /\ kernel' \in [Fds -> KernelType]
      /\ UNCHANGED <<thisNetSession, sock, aio, waits, signals>>
  BY Types DEF KernelStep, IInv
<1>2. TypeOK'
  BY <1>1, Types, TypesPrimed DEF IInv
<1>3. \A g \in Fds : Open(g)
  BY Types DEF KernelStep, IInv, Open
<1>4. \A s \in Socks : Same(s)
  BY <1>1 DEF Same
<1>5. \A g \in Fds : StillOwn(g)
  BY <1>1, KeptWatch
<1> QED
  BY <1>2, <1>3, <1>4, <1>5, QuietStep

LEMMA UpFacts ==
    ASSUME NEW rx \in {"none", "data", "ghost", "eof"}, NEW full \in BOOLEAN
    PROVE  /\ Up(rx, full) \in KernelType /\ Up(rx, full).st = "up"
           /\ [Opened("failed") EXCEPT !.rx = rx] \in KernelType
           /\ [Opened("failed") EXCEPT !.rx = rx].st = "failed"
           /\ [Opened("listening") EXCEPT !.rx = rx] \in KernelType
           /\ [Opened("listening") EXCEPT !.rx = rx].st = "listening"
BY DEF Up, Opened, Closed, KernelType

LEMMA KernelKeeps == ASSUME IInv, Kernel PROVE IInv'
<1> PICK f \in Fds : \/ Arrives(f) \/ SpaceFrees(f) \/ Reset(f) \/ ConnectEnds(f)
                     \/ ConnectionComes(f) \/ ListenFails(f)
  BY DEF Kernel
<1>1. CASE Arrives(f)
  <2>1. PICK full \in BOOLEAN, rx \in {"data", "ghost", "eof"} :
               KernelStep(f, {Up("none", full)}, Up(rx, full))
    BY <1>1 DEF Arrives
  <2> DEFINE from == {Up("none", full)}
             to == Up(rx, full)
  <2>2. \A k \in from : k.st = "up"
    BY UpFacts
  <2>3. to \in KernelType /\ to.st = "up"
    BY UpFacts
  <2>4. KernelStep(f, from, to)
    BY <2>1
  <2> HIDE DEF from, to
  <2> QED
    BY <2>2, <2>3, <2>4, KernelStepKeeps
<1>2. CASE SpaceFrees(f)
  <2>1. PICK rx \in {"none", "data", "ghost", "eof"} :
               KernelStep(f, {Up(rx, TRUE)}, Up(rx, FALSE))
    BY <1>2 DEF SpaceFrees
  <2> DEFINE from == {Up(rx, TRUE)}
             to == Up(rx, FALSE)
  <2>2. \A k \in from : k.st = "up"
    BY UpFacts
  <2>3. to \in KernelType /\ to.st = "up"
    BY UpFacts
  <2>4. KernelStep(f, from, to)
    BY <2>1
  <2> HIDE DEF from, to
  <2> QED
    BY <2>2, <2>3, <2>4, KernelStepKeeps
<1>3. CASE Reset(f)
  <2>1. PICK full \in BOOLEAN, rx \in {"none", "data", "eof"} :
               KernelStep(f, {Up(rx, full)}, [Opened("failed") EXCEPT !.rx = rx])
    BY <1>3 DEF Reset
  <2> DEFINE from == {Up(rx, full)}
             to == [Opened("failed") EXCEPT !.rx = rx]
  <2>2. \A k \in from : k.st = "up"
    BY UpFacts
  <2>3. to \in KernelType /\ to.st = "failed"
    BY UpFacts
  <2>4. KernelStep(f, from, to)
    BY <2>1
  <2> HIDE DEF from, to
  <2> QED
    BY <2>2, <2>3, <2>4, KernelStepKeeps
<1>4. CASE ConnectEnds(f)
  <2>1. PICK st \in {"up", "failed"} : KernelStep(f, {Opened("connecting")}, Opened(st))
    BY <1>4 DEF ConnectEnds
  <2> QED
    BY <2>1, Records, KernelStepKeeps
<1>5. CASE ConnectionComes(f)
  <2> DEFINE to == [Opened("listening") EXCEPT !.rx = "data"]
  <2>1. KernelStep(f, {Opened("listening")}, to)
    BY <1>5 DEF ConnectionComes
  <2>2. to \in KernelType /\ to.st = "listening"
    BY UpFacts
  <2> HIDE DEF to
  <2> QED
    BY <2>1, <2>2, Records, KernelStepKeeps
<1>6. CASE ListenFails(f)
  BY <1>6, Records, KernelStepKeeps DEF ListenFails
<1> QED
  BY <1>1, <1>2, <1>3, <1>4, <1>5, <1>6
----------------------------------------------------------------------------
(* Handlers that change no holding.                                         *)

\* A step on one descriptor, its watch and one socket.
LEMMA OneQuiet ==
    ASSUME IInv, NEW f \in Fds, NEW s \in Socks,
           NEW k \in KernelType, NEW e \in AioType, NEW r \in SockType,
           kernel' = [kernel EXCEPT ![f] = k], aio' = [aio EXCEPT ![f] = e],
           sock' = [sock EXCEPT ![s] = r], thisNetSession' = thisNetSession,
           waits' \in [Socks -> SUBSET What], signals' \in [Socks -> SUBSET What],
           Open(f), Same(s), StillOwn(f)
    PROVE  IInv'
<1>1. /\ thisNetSession \in BOOLEAN /\ sock \in [Socks -> SockType]
      /\ kernel \in [Fds -> KernelType] /\ aio \in [Fds -> AioType]
  BY Types DEF IInv
<1>2. TypeOK'
  BY <1>1, TypesPrimed
<1>3. \A g \in Fds : Open(g)
  BY <1>1 DEF Open
<1>4. \A t \in Socks : Same(t)
  BY <1>1 DEF Same
<1>5. \A g \in Fds : StillOwn(g)
  <2> SUFFICES ASSUME NEW g \in Fds, g # f PROVE StillOwn(g)
    OBVIOUS
  <2>1. aio'[g] = aio[g]
    BY <1>1
  <2> QED
    BY <2>1, KeptWatch
<1> QED
  BY <1>2, <1>3, <1>4, <1>5, QuietStep

\* A handler runs for the socket that holds the descriptor: what it does to the
\* state of the connection and to the watch.
LEMMA QuietHandler ==
    ASSUME IInv, NEW f \in Fds, NEW h, Runs(f, h), NEW k \in KernelType, NEW r \in SockType,
           kernel' = [kernel EXCEPT ![f] = k],
           k.st = kernel[f].st,
           sock' = [sock EXCEPT ![Client(f)] = r],
           LET o == sock[Client(f)]
           IN  /\ r.psp = o.psp /\ r.s = o.s /\ r.acceptedSock = o.acceptedSock
               /\ r.multiListen = o.multiListen /\ r.sockState # "Invalid"
               /\ r.sockState = "Connected" => o.sockState = "Connected" \/ ~o.multiListen,
           aio' \in {aio, [aio EXCEPT ![f] = Unwatched], [aio EXCEPT ![f].armed = FALSE]},
           thisNetSession' = thisNetSession, waits' = waits,
           signals' = signals \/ (\E what \in SUBSET What : Notify(Client(f), what))
    PROVE  IInv'
<1> DEFINE c == Client(f)
<1>1. /\ sock \in [Socks -> SockType] /\ kernel \in [Fds -> KernelType]
      /\ aio \in [Fds -> AioType] /\ waits \in [Socks -> SUBSET What]
      /\ signals \in [Socks -> SUBSET What]
  BY Types DEF IInv
<1>2. /\ c \in Socks /\ sock[c].s = f /\ sock[c].sockState # "Invalid" /\ f # NULL
  BY HandlerFacts
<1>3. signals' \in [Socks -> SUBSET What]
  BY <1>1, <1>2 DEF Notify
<1>4. Open(f)
  BY <1>1 DEF Open
<1>5. Same(c)
  BY <1>1, <1>2 DEF Same
<1>6. aio'[f] \in {aio[f], Unwatched, [aio[f] EXCEPT !.armed = FALSE]}
      /\ aio' = [aio EXCEPT ![f] = aio'[f]]
  BY <1>1
<1>7. StillOwn(f) /\ aio'[f] \in AioType
  BY <1>6, KeptWatch
<1> HIDE DEF c
<1>8. sock' = [sock EXCEPT ![c] = r]
  BY DEF c
<1>9. PICK e \in AioType : aio' = [aio EXCEPT ![f] = e]
  BY <1>6, <1>7
<1> QED
  BY <1>1, <1>2, <1>3, <1>4, <1>5, <1>7, <1>8, <1>9, OneQuiet
\* The types a handler finds.
LEMMA HandlerTypes ==
    ASSUME IInv, NEW f \in Fds, NEW h, Runs(f, h)
    PROVE  /\ kernel[f] \in KernelType /\ aio[f] \in AioType /\ sock[Client(f)] \in SockType
           /\ Client(f) \in Socks /\ sock[Client(f)].sockState # "Invalid"
           /\ kernel = [kernel EXCEPT ![f] = kernel[f]]
           /\ sock = [sock EXCEPT ![Client(f)] = sock[Client(f)]]
<1>1. Client(f) \in Socks /\ sock[Client(f)].sockState # "Invalid"
  BY HandlerFacts
<1>2. sock \in [Socks -> SockType] /\ kernel \in [Fds -> KernelType] /\ aio \in [Fds -> AioType]
  BY Types DEF IInv
<1> QED
  BY <1>1, <1>2

\* A handler that leaves the kernel alone.
LEMMA QuietVM ==
    ASSUME IInv, NEW f \in Fds, NEW h, Runs(f, h), NEW r \in SockType,
           UNCHANGED <<thisNetSession, kernel, waits>>,
           sock' = [sock EXCEPT ![Client(f)] = r],
           LET o == sock[Client(f)]
           IN  /\ r.psp = o.psp /\ r.s = o.s /\ r.acceptedSock = o.acceptedSock
               /\ r.multiListen = o.multiListen
               /\ r.sockState = o.sockState \/ r.sockState = "Unconnected"
                  \/ r.sockState = "OtherEndClosed"
                  \/ (r.sockState = "Connected" /\ ~o.multiListen),
           aio' \in {[aio EXCEPT ![f] = Unwatched], [aio EXCEPT ![f].armed = FALSE]},
           signals' = signals \/ (\E what \in SUBSET What : Notify(Client(f), what))
    PROVE  IInv'
<1>1. kernel[f] \in KernelType /\ kernel' = [kernel EXCEPT ![f] = kernel[f]]
  BY HandlerTypes
<1>2. sock[Client(f)].sockState # "Invalid"
  BY HandlerTypes
<1> DEFINE k == kernel[f]
<1>3. k \in KernelType /\ kernel' = [kernel EXCEPT ![f] = k] /\ k.st = kernel[f].st
  BY <1>1
<1> HIDE DEF k
<1>4. aio' \in {aio, [aio EXCEPT ![f] = Unwatched], [aio EXCEPT ![f].armed = FALSE]}
  OBVIOUS
<1>5. LET o == sock[Client(f)]
      IN  /\ r.psp = o.psp /\ r.s = o.s /\ r.acceptedSock = o.acceptedSock
          /\ r.multiListen = o.multiListen /\ r.sockState # "Invalid"
          /\ r.sockState = "Connected" => o.sockState = "Connected" \/ ~o.multiListen
  BY <1>2
<1>6. thisNetSession' = thisNetSession /\ waits' = waits
  OBVIOUS
<1> QED
  BY <1>3, <1>4, <1>5, <1>6, QuietHandler

LEMMA QuietHandlersKeep ==
    ASSUME IInv, NEW f \in Fds,
           \/ AcceptAborted(f) \/ ConnectHandler(f) \/ SendHandler(f) \/ GhostData(f)
           \/ DataHandler(f) \/ HangUpUnheard(f)
    PROVE  IInv'
<1>1. CASE AcceptAborted(f) \/ GhostData(f)
  <2> DEFINE k == [kernel[f] EXCEPT !.rx = "none"]
             r == sock[Client(f)]
  <2>1. PICK h : Runs(f, h)
    BY <1>1 DEF AcceptAborted, GhostData
  <2>2. k \in KernelType /\ k.st = kernel[f].st
    BY <2>1, HandlerTypes DEF KernelType
  <2>3. /\ kernel' = [kernel EXCEPT ![f] = k] /\ sock' = [sock EXCEPT ![Client(f)] = r]
        /\ UNCHANGED <<thisNetSession, aio, waits, signals>>
    BY <1>1, <2>1, HandlerTypes DEF AcceptAborted, GhostData
  <2>4. r \in SockType /\ r.sockState # "Invalid"
    BY <2>1, HandlerTypes
  <2> HIDE DEF k
  <2> QED
    BY <2>1, <2>2, <2>3, <2>4, QuietHandler
<1>2. CASE ConnectHandler(f)
  <2> DEFINE c == Client(f)
             waiting == State(c) = "WaitingForConnection"
             up == kernel[f].st = "up"
             r == [sock[c] EXCEPT !.sockState = IF ~waiting THEN @
                                                ELSE IF up THEN "Connected" ELSE "Unconnected"]
  <2>1. Runs(f, "connect")
    BY <1>2 DEF ConnectHandler
  <2>2. r \in SockType /\ r.sockState \in {sock[c].sockState, "Connected", "Unconnected"}
    BY <2>1, HandlerTypes DEF SockType, State
  <2>3. /\ r.psp = sock[c].psp /\ r.s = sock[c].s /\ r.acceptedSock = sock[c].acceptedSock
        /\ r.multiListen = sock[c].multiListen
    BY <2>1, HandlerTypes DEF SockType
  <2>4. ~sock[c].multiListen
    BY <2>1 DEF IInv, WatchInv, WatchOf
  <2>5. sock' = [sock EXCEPT ![c] = r]
    BY <1>2, <2>1, HandlerTypes DEF ConnectHandler
  <2>6. aio' \in {[aio EXCEPT ![f] = Unwatched], [aio EXCEPT ![f].armed = FALSE]}
    BY <1>2 DEF ConnectHandler
  <2>7. (\E what \in SUBSET What : Notify(c, what)) /\ UNCHANGED <<thisNetSession, kernel, waits>>
    BY <1>2 DEF ConnectHandler, What
  <2> HIDE DEF r
  <2> QED
    BY <2>1, <2>2, <2>3, <2>4, <2>5, <2>6, <2>7, QuietVM
<1>3. CASE SendHandler(f)
  <2> DEFINE c == Client(f)
             r == [sock[c] EXCEPT !.waitingToSend = FALSE]
  <2>1. Runs(f, "send")
    BY <1>3 DEF SendHandler
  <2>2. r \in SockType /\ r.sockState = sock[c].sockState
    BY <2>1, HandlerTypes DEF SockType
  <2>3. /\ r.psp = sock[c].psp /\ r.s = sock[c].s /\ r.acceptedSock = sock[c].acceptedSock
        /\ r.multiListen = sock[c].multiListen
    BY <2>1, HandlerTypes DEF SockType
  <2>4. /\ sock' = [sock EXCEPT ![c] = r] /\ aio' = [aio EXCEPT ![f].armed = FALSE]
        /\ (\E what \in SUBSET What : Notify(c, what)) /\ UNCHANGED <<thisNetSession, kernel, waits>>
    BY <1>3 DEF SendHandler, What
  <2> HIDE DEF r
  <2> QED
    BY <2>1, <2>2, <2>3, <2>4, QuietVM
<1>4. CASE DataHandler(f)
  <2> DEFINE c == Client(f)
             r == [sock[c] EXCEPT !.sockState = IF kernel[f].rx = "data" THEN @
                                                ELSE "OtherEndClosed"]
  <2>1. Runs(f, "data")
    BY <1>4 DEF DataHandler
  <2>2. r \in SockType /\ r.sockState \in {sock[c].sockState, "OtherEndClosed"}
    BY <2>1, HandlerTypes DEF SockType
  <2>3. /\ r.psp = sock[c].psp /\ r.s = sock[c].s /\ r.acceptedSock = sock[c].acceptedSock
        /\ r.multiListen = sock[c].multiListen
    BY <2>1, HandlerTypes DEF SockType
  <2>4. sock' = [sock EXCEPT ![c] = r]
    BY <1>4, <2>1, HandlerTypes DEF DataHandler
  <2>5. /\ aio' = [aio EXCEPT ![f].armed = FALSE]
        /\ (\E what \in SUBSET What : Notify(c, what)) /\ UNCHANGED <<thisNetSession, kernel, waits>>
    BY <1>4 DEF DataHandler, What
  <2> HIDE DEF r
  <2> QED
    BY <2>1, <2>2, <2>3, <2>4, <2>5, QuietVM
<1>5. CASE HangUpUnheard(f)
  <2>1. Runs(f, "send") /\ aio' = [aio EXCEPT ![f].armed = FALSE]
        /\ UNCHANGED <<thisNetSession, sock, kernel, waits, signals>>
    BY <1>5 DEF HangUpUnheard
  <2> DEFINE r == sock[Client(f)]
  <2>2. sock' = [sock EXCEPT ![Client(f)] = r] /\ r \in SockType /\ r = sock[Client(f)]
    BY <2>1, HandlerTypes
  <2> HIDE DEF r
  <2> QED
    BY <2>1, <2>2, QuietVM
<1> QED
  BY <1>1, <1>2, <1>3, <1>4, <1>5
----------------------------------------------------------------------------
(* What the image does that changes no holding.                             *)

LEMMA LiveFacts ==
    ASSUME IInv, NEW s \in Socks, Live(s)
    PROVE  /\ Fd(s) \in Fds /\ Fd(s) = sock[s].s /\ Fd(s) # NULL /\ sock[s] \in SockType
           /\ kernel[Fd(s)] \in KernelType /\ aio[Fd(s)] \in AioType
           /\ kernel[Fd(s)].st \notin {"closed", "leaked"}
           /\ sock[s].psp /\ sock[s].sockState # "Invalid"
<1>1. sock[s] \in SockType /\ Fd(s) = sock[s].s /\ Fd(s) # NULL
  BY Types DEF IInv, Live, Fd
<1>2. Fd(s) \in Fds
  BY <1>1 DEF SockType
<1>3. kernel[Fd(s)] \in KernelType /\ aio[Fd(s)] \in AioType
  BY <1>2, Types DEF IInv
<1> QED
  BY <1>1, <1>2, <1>3 DEF IInv, HoldInv, HoldOf, Live, Valid, State

LEMMA FreshFacts ==
    ASSUME IInv, NEW s \in Socks, Fresh(s)
    PROVE  /\ Live(s) /\ ~sock[s].multiListen /\ sock[s].acceptedSock = NULL
           /\ sock[s].sockState = "Unconnected" /\ kernel[Fd(s)].st = "fresh"
           /\ Holds(s) = {Fd(s)}
<1>1. Live(s) /\ kernel[Fd(s)].st = "fresh" /\ sock[s].sockState = "Unconnected"
  BY DEF Fresh, Live, State
<1>2. ~sock[s].multiListen /\ sock[s].acceptedSock = NULL
  BY <1>1 DEF IInv, StageInv, StageOf
<1> QED
  BY <1>1, <1>2, LiveFacts DEF Holds, Live

\* A step of the image on its own socket s.
LEMMA QuietImage ==
    ASSUME IInv, NEW s \in Socks, NEW f \in Fds, f = sock[s].s,
           NEW k \in KernelType, NEW e \in AioType, NEW r \in SockType,
           kernel' = [kernel EXCEPT ![f] = k], aio' = [aio EXCEPT ![f] = e],
           sock' = [sock EXCEPT ![s] = r], thisNetSession' = thisNetSession,
           waits' \in [Socks -> SUBSET What], signals' \in [Socks -> SUBSET What],
           k.st = kernel[f].st \/ (Live(s) /\ k.st \notin {"closed", "leaked", "fresh"}),
           LET o == sock[s]
           IN  /\ r.psp = o.psp /\ r.s = o.s /\ r.acceptedSock = o.acceptedSock
               /\ r.multiListen = o.multiListen
               /\ \/ r.sockState = o.sockState
                  \/ /\ r.sockState # "Invalid" /\ o.sockState # "Invalid"
                     /\ r.sockState = "Connected" => ~o.multiListen,
           \/ e \in {aio[f], Handle(aio[f], "send"), Handle(aio[f], "data")}
           \/ Live(s) /\ e \in {Enabled(s), Handle(Enabled(s), "connect")} /\ ~sock[s].multiListen
    PROVE  IInv'
<1>1. /\ sock \in [Socks -> SockType] /\ kernel \in [Fds -> KernelType]
      /\ aio \in [Fds -> AioType] /\ f # NULL
  BY Types, ConstantsAssumption DEF IInv
<1>2. Open(f)
  BY <1>1, LiveFacts DEF Open
<1>3. sock'[s] = r /\ aio'[f] = e
  BY <1>1
<1>4. Same(s)
  BY <1>1, <1>3 DEF Same
<1>5. StillOwn(f)
  <2>1. CASE e \in {aio[f], Handle(aio[f], "send"), Handle(aio[f], "data")}
    BY <1>3, <2>1, KeptWatch
  <2>2. CASE Live(s) /\ e \in {Enabled(s), Handle(Enabled(s), "connect")} /\ ~sock[s].multiListen
    <3>1. Enabled(s) \in AioType /\ Enabled(s).clientData = s /\ ~Enabled(s).armed
      BY Records
    <3>2. s # NULL
      BY ConstantsAssumption
    <3>3. e.clientData = s /\ (e.armed => e.handler = "connect")
      BY <2>2, <3>1, <3>2, HandleFacts
    <3>4. Live(s) /\ Fd(s) = f
      BY <2>2, LiveFacts
    <3> QED
      BY <1>3, <2>2, <3>2, <3>3, <3>4 DEF StillOwn
  <2> QED
    BY <2>1, <2>2
<1> QED
  BY <1>2, <1>4, <1>5, OneQuiet

LEMMA ImageTypes ==
    ASSUME IInv, NEW s \in Socks
    PROVE  /\ waits[s] \in SUBSET What /\ signals[s] \in SUBSET What
           /\ \A w \in SUBSET What : /\ [waits EXCEPT ![s] = w] \in [Socks -> SUBSET What]
                                     /\ [signals EXCEPT ![s] = w] \in [Socks -> SUBSET What]
           /\ \A w \in SUBSET What : Notify(s, w) => signals' \in [Socks -> SUBSET What]
           /\ waits \in [Socks -> SUBSET What] /\ signals \in [Socks -> SUBSET What]
           /\ sock = [sock EXCEPT ![s] = sock[s]]
           /\ \A f \in Fds : kernel = [kernel EXCEPT ![f] = kernel[f]]
           /\ \A f \in Fds : aio = [aio EXCEPT ![f] = aio[f]]
BY Types DEF IInv, Notify
LEMMA ConnectKeeps ==
    ASSUME IInv, NEW s \in Socks, NEW st \in {"up", "connecting"}, Connect(s, st)
    PROVE  IInv'
<1> DEFINE f == Fd(s)
           k == Opened(st)
           x == IF st = "up" THEN "Connected" ELSE "WaitingForConnection"
           r == [sock[s] EXCEPT !.sockState = x]
           e == IF st = "up" THEN Enabled(s) ELSE Handle(Enabled(s), "connect")
<1>1. Live(s) /\ ~sock[s].multiListen /\ f \in Fds /\ f = sock[s].s /\ sock[s] \in SockType
      /\ sock[s].sockState = "Unconnected"
  BY FreshFacts, LiveFacts DEF Connect
<1>2. AioEnable(s, f) = Enabled(s)
  BY DEF Connect, AioEnable, Unwatched
<1>3. k \in KernelType /\ k.st \notin {"closed", "leaked", "fresh"}
  BY Records
<1>4. e \in AioType /\ e \in {Enabled(s), Handle(Enabled(s), "connect")}
  BY Records, HandleFacts
<1>5. /\ r \in SockType /\ r.sockState = x
      /\ r.psp = sock[s].psp /\ r.s = sock[s].s /\ r.acceptedSock = sock[s].acceptedSock
      /\ r.multiListen = sock[s].multiListen
  BY <1>1 DEF SockType
<1>6. sock' = [sock EXCEPT ![s] = r]
  BY DEF Connect
<1>7. kernel' = [kernel EXCEPT ![f] = k] /\ aio' = [aio EXCEPT ![f] = e]
  BY <1>2 DEF Connect
<1>8. thisNetSession' = thisNetSession /\ waits' \in [Socks -> SUBSET What]
  BY ImageTypes DEF Connect, What
<1>9. signals' \in [Socks -> SUBSET What]
  BY ImageTypes DEF Connect, What
<1>10. x \in {"Connected", "WaitingForConnection"}
  OBVIOUS
<1> HIDE DEF f, k, r, e, x
<1> QED
  BY <1>1, <1>3, <1>4, <1>5, <1>6, <1>7, <1>8, <1>9, <1>10, QuietImage

LEMMA ConnectErrorKeeps == ASSUME IInv, NEW s \in Socks, ConnectError(s) PROVE IInv'
<1> DEFINE f == Fd(s)
           k == kernel[f]
           r == sock[s]
           e == IF aio[f].clientData = NULL THEN Enabled(s) ELSE aio[f]
<1>1. Live(s) /\ ~sock[s].multiListen
  BY FreshFacts DEF ConnectError
<1>2. f \in Fds /\ f = sock[s].s /\ r \in SockType /\ k \in KernelType /\ k.st = kernel[f].st
  BY <1>1, LiveFacts
<1>3. e \in AioType /\ e \in {aio[f], Enabled(s)}
  BY <1>1, LiveFacts, Records
<1>4. aio' = [aio EXCEPT ![f] = e]
  BY <1>1, OwnWatch DEF ConnectError
<1>5. kernel' = [kernel EXCEPT ![f] = k] /\ sock' = [sock EXCEPT ![s] = r]
      /\ thisNetSession' = thisNetSession /\ waits' \in [Socks -> SUBSET What]
  BY <1>2, ImageTypes DEF ConnectError
<1>6. signals' \in [Socks -> SUBSET What]
  BY ImageTypes DEF ConnectError, What
<1>7. /\ r.psp = sock[s].psp /\ r.s = sock[s].s /\ r.acceptedSock = sock[s].acceptedSock
      /\ r.multiListen = sock[s].multiListen /\ r.sockState = sock[s].sockState
  OBVIOUS
<1> HIDE DEF f, k, r, e
<1> QED
  BY <1>1, <1>2, <1>3, <1>4, <1>5, <1>6, <1>7, QuietImage

\* Looking for data, also by a process whose socket has meanwhile been closed or
\* become invalid.
LEMMA LookKeeps ==
    ASSUME IInv, NEW s \in Socks, Valid(s), DataAvailable(s), thisNetSession' = thisNetSession,
           signals' \in [Socks -> SUBSET What]
    PROVE  IInv'
<1> DEFINE f == Fd(s)
           connected == State(s) = "Connected"
           yes == connected /\ kernel[f].rx = "data"
           eof == connected /\ CanRead(f) /\ kernel[f].rx \notin {"data", "ghost"}
           k == [kernel[f] EXCEPT !.rx = IF connected /\ @ = "ghost" THEN "none" ELSE @]
           r == [sock[s] EXCEPT !.sockState = IF eof THEN "OtherEndClosed" ELSE @]
           e == IF yes THEN aio[f] ELSE Handle(aio[f], "data")
<1>1. /\ sock' = [sock EXCEPT ![s] = r] /\ kernel' = [kernel EXCEPT ![f] = k]
      /\ aio' = [aio EXCEPT ![f] = e]
  BY DEF DataAvailable
<1>2. sock[s] \in SockType /\ f = sock[s].s /\ f \in Fds \cup {NULL}
  BY Types DEF IInv, Fd, SockType
<1>3. waits' \in [Socks -> SUBSET What]
  <2>1. \E w \in SUBSET What : waits' = [waits EXCEPT ![s] = w]
    BY ImageTypes DEF DataAvailable, What
  <2> QED
    BY <2>1, ImageTypes
<1>4. /\ r \in SockType /\ r.psp = sock[s].psp /\ r.s = sock[s].s
      /\ r.acceptedSock = sock[s].acceptedSock /\ r.multiListen = sock[s].multiListen
      /\ r.sockState = IF eof THEN "OtherEndClosed" ELSE sock[s].sockState
  BY <1>2 DEF SockType
<1>5. CASE f = NULL
  <2>1. ~connected
    BY <1>5 DEF IInv, StageInv, StageOf
  <2>2. r = sock[s]
    BY <1>2, <2>1 DEF SockType
  <2>3. sock' = sock
    BY <1>1, <2>2, ImageTypes
  <2>4. kernel' = kernel /\ aio' = aio
    BY <1>1, <1>5, Types, ConstantsAssumption DEF IInv
  <2>5. TypeOK'
    BY <1>3, <2>3, <2>4, Types, TypesPrimed DEF IInv
  <2> QED
    BY <2>3, <2>4, <2>5, QuietStep, KeptWatch DEF Same, Open
<1>6. CASE f \in Fds
  <2>1. kernel[f] \in KernelType /\ aio[f] \in AioType
    BY <1>6, Types DEF IInv
  <2>2. k \in KernelType /\ k.st = kernel[f].st
    BY <2>1 DEF KernelType
  <2>3. e \in AioType /\ e \in {aio[f], Handle(aio[f], "data")}
    BY <2>1, HandleFacts
  <2>4. r.sockState = sock[s].sockState
        \/ (r.sockState = "OtherEndClosed" /\ sock[s].sockState = "Connected")
    BY <1>4 DEF State
  <2> HIDE DEF f, k, r, e, connected, yes, eof
  <2> QED
    BY <1>1, <1>2, <1>3, <1>4, <1>6, <2>2, <2>3, <2>4, QuietImage
<1> QED
  BY <1>2, <1>5, <1>6
LEMMA StreamFacts ==
    ASSUME IInv, NEW s \in Socks, Streams(s)
    PROVE  /\ Live(s) /\ ~sock[s].multiListen
           /\ sock[s].sockState \in {"Connected", "OtherEndClosed"}
BY DEF Streams, Live, State

\* A step on its own socket that leaves the watch, or asks for room to send.
LEMMA QuietStream ==
    ASSUME IInv, NEW s \in Socks, Streams(s), NEW k \in KernelType, k.st = kernel[Fd(s)].st,
           NEW r \in SockType,
           kernel' = [kernel EXCEPT ![Fd(s)] = k], sock' = [sock EXCEPT ![s] = r],
           LET o == sock[s]
           IN  /\ r.psp = o.psp /\ r.s = o.s /\ r.acceptedSock = o.acceptedSock
               /\ r.multiListen = o.multiListen
               /\ r.sockState \in {o.sockState, "OtherEndClosed"},
           aio' = aio \/ aio' = [aio EXCEPT ![Fd(s)] = Handle(@, "send")],
           thisNetSession' = thisNetSession,
           waits' \in [Socks -> SUBSET What], signals' \in [Socks -> SUBSET What]
    PROVE  IInv'
<1> DEFINE f == Fd(s)
<1>1. Live(s) /\ sock[s].sockState \in {"Connected", "OtherEndClosed"} /\ ~sock[s].multiListen
      /\ f \in Fds /\ f = sock[s].s /\ aio[f] \in AioType
  BY StreamFacts, LiveFacts
<1>2. PICK e \in AioType : e \in {aio[f], Handle(aio[f], "send")} /\ aio' = [aio EXCEPT ![f] = e]
  BY <1>1, ImageTypes, HandleFacts
<1>3. kernel' = [kernel EXCEPT ![f] = k] /\ k.st = kernel[f].st
  OBVIOUS
<1>4. r.sockState = sock[s].sockState
      \/ (r.sockState = "OtherEndClosed" /\ sock[s].sockState # "Invalid")
  BY <1>1
<1> HIDE DEF f
<1> QED
  BY <1>1, <1>2, <1>3, <1>4, QuietImage

LEMMA StreamsKeep ==
    ASSUME IInv, NEW s \in Socks, Receive(s) \/ SendBlocks(s) \/ Send(s)
    PROVE  IInv'
<1> DEFINE f == Fd(s)
<1>1. Streams(s) /\ thisNetSession' = thisNetSession
  BY DEF Receive, SendBlocks, Send
<1>2. f \in Fds /\ kernel[f] \in KernelType /\ sock[s] \in SockType
      /\ kernel = [kernel EXCEPT ![f] = kernel[f]] /\ sock = [sock EXCEPT ![s] = sock[s]]
  BY <1>1, StreamFacts, LiveFacts, ImageTypes
<1>3. waits' \in [Socks -> SUBSET What]
  <2>1. waits' = waits \/ (\E w \in SUBSET What : waits' = [waits EXCEPT ![s] = w])
    BY ImageTypes DEF Receive, SendBlocks, Send, What
  <2> QED
    BY <2>1, ImageTypes
<1>4. signals' \in [Socks -> SUBSET What]
  BY ImageTypes DEF Receive, SendBlocks, Send, What
<1>5. aio' = aio \/ aio' = [aio EXCEPT ![f] = Handle(@, "send")]
  BY DEF Receive, SendBlocks, Send
<1>6. PICK k \in KernelType : kernel' = [kernel EXCEPT ![f] = k] /\ k.st = kernel[f].st
  <2>1. CASE kernel' = kernel
    BY <1>2, <2>1
  <2>2. ASSUME NEW rx \in {"none", "data", "eof"}, kernel' = [kernel EXCEPT ![f].rx = rx]
        PROVE  \E k \in KernelType : kernel' = [kernel EXCEPT ![f] = k] /\ k.st = kernel[f].st
    <3>1. [kernel[f] EXCEPT !.rx = rx] \in KernelType
          /\ [kernel[f] EXCEPT !.rx = rx].st = kernel[f].st
      BY <1>2 DEF KernelType
    <3> QED
      BY <2>2, <3>1
  <2>3. ASSUME NEW full \in BOOLEAN, kernel' = [kernel EXCEPT ![f].full = full]
        PROVE  \E k \in KernelType : kernel' = [kernel EXCEPT ![f] = k] /\ k.st = kernel[f].st
    <3>1. [kernel[f] EXCEPT !.full = full] \in KernelType
          /\ [kernel[f] EXCEPT !.full = full].st = kernel[f].st
      BY <1>2 DEF KernelType
    <3> QED
      BY <2>3, <3>1
  <2> QED
    BY <2>1, <2>2, <2>3 DEF Receive, SendBlocks, Send
<1>7. PICK r \in SockType :
         /\ sock' = [sock EXCEPT ![s] = r]
         /\ r.psp = sock[s].psp /\ r.s = sock[s].s /\ r.acceptedSock = sock[s].acceptedSock
         /\ r.multiListen = sock[s].multiListen
         /\ r.sockState \in {sock[s].sockState, "OtherEndClosed"}
  <2>1. CASE sock' = sock
    BY <1>2, <2>1
  <2>2. ASSUME NEW x \in {sock[s].sockState, "OtherEndClosed"},
               NEW w \in {sock[s].waitingToSend, TRUE, FALSE},
               sock' = [sock EXCEPT ![s] = [@ EXCEPT !.waitingToSend = w, !.sockState = x]]
        PROVE  \E r \in SockType :
                  /\ sock' = [sock EXCEPT ![s] = r]
                  /\ r.psp = sock[s].psp /\ r.s = sock[s].s
                  /\ r.acceptedSock = sock[s].acceptedSock
                  /\ r.multiListen = sock[s].multiListen
                  /\ r.sockState \in {sock[s].sockState, "OtherEndClosed"}
    <3> DEFINE r == [sock[s] EXCEPT !.waitingToSend = w, !.sockState = x]
    <3>1. /\ r \in SockType
          /\ r.psp = sock[s].psp /\ r.s = sock[s].s /\ r.acceptedSock = sock[s].acceptedSock
          /\ r.multiListen = sock[s].multiListen /\ r.sockState = x
      BY <1>2 DEF SockType
    <3>2. sock' = [sock EXCEPT ![s] = r]
      BY <2>2
    <3> HIDE DEF r
    <3> QED
      BY <3>1, <3>2
  <2>3. sock' = sock \/ \E x \in {sock[s].sockState, "OtherEndClosed"},
                           w \in {sock[s].waitingToSend, TRUE, FALSE} :
              sock' = [sock EXCEPT ![s] = [@ EXCEPT !.waitingToSend = w, !.sockState = x]]
    <3>1. \A w : [sock EXCEPT ![s].waitingToSend = w]
                 = [sock EXCEPT ![s] = [@ EXCEPT !.waitingToSend = w,
                                                 !.sockState = sock[s].sockState]]
      BY <1>2 DEF SockType
    <3>2. [sock EXCEPT ![s].sockState = "OtherEndClosed"]
          = [sock EXCEPT ![s] = [@ EXCEPT !.waitingToSend = sock[s].waitingToSend,
                                          !.sockState = "OtherEndClosed"]]
      BY <1>2 DEF SockType
    <3>3. [sock EXCEPT ![s].waitingToSend = FALSE, ![s].sockState = "OtherEndClosed"]
          = [sock EXCEPT ![s] = [@ EXCEPT !.waitingToSend = FALSE,
                                          !.sockState = "OtherEndClosed"]]
      BY <1>2, Types DEF SockType, IInv
    <3> QED
      BY <3>1, <3>2, <3>3 DEF Receive, SendBlocks, Send
  <2> QED
    BY <2>1, <2>2, <2>3
<1> HIDE DEF f
<1> QED
  BY <1>1, <1>3, <1>4, <1>5, <1>6, <1>7, QuietStream DEF f
----------------------------------------------------------------------------
(* Steps in which a socket lets go of what it holds.                        *)

\* Only the descriptor a socket holds is watched for it.
LEMMA OnlyItsOwn ==
    ASSUME IInv, NEW s \in Socks, NEW f \in Fds, aio[f].clientData = s
    PROVE  Live(s) /\ f = sock[s].s
BY ConstantsAssumption DEF IInv, WatchInv, WatchOf, Client, Fd

LEMMA AcceptEndsKeep ==
    ASSUME IInv, NEW f \in Fds, AcceptError(f) \/ AcceptFails(f)
    PROVE  IInv'
<1>0. PICK c \in Socks : c = Client(f)
  BY HandlerFacts DEF AcceptError, AcceptFails
<1> DEFINE x == sock'[c]
<1>1. /\ Runs(f, "accept") /\ aio' = [aio EXCEPT ![f] = Unwatched]
      /\ kernel' = [kernel EXCEPT ![f] = Closed] /\ Notify(c, {"conn"})
      /\ thisNetSession' = thisNetSession /\ waits' = waits
  BY <1>0 DEF AcceptError, AcceptFails
<1>2. Live(c) /\ sock[c] \in SockType /\ sock[c].s = f /\ f # NULL /\ Fd(c) = f
  BY <1>0, <1>1, HandlerFacts
<1>3. /\ sock \in [Socks -> SockType] /\ kernel \in [Fds -> KernelType]
      /\ aio \in [Fds -> AioType]
  BY Types DEF IInv
<1>4. Holds(c) = {f}
  <2>1. sock[c].acceptedSock = NULL
    BY <1>0, <1>1 DEF IInv, WatchInv, WatchOf
  <2> QED
    BY <1>2, <2>1 DEF Holds, Live
<1>5. x \in SockType /\ x.sockState = "Invalid" /\ sock' = [sock EXCEPT ![c] = x]
  <2>1. CASE AcceptError(f)
    <3>1. sock' = [sock EXCEPT ![c] = [@ EXCEPT !.sockState = "Invalid", !.s = NULL,
                                                !.waitingToSend = FALSE]]
      BY <1>0, <1>2, <1>3, <2>1 DEF AcceptError
    <3> QED
      BY <1>2, <1>3, <3>1 DEF SockType
  <2>2. CASE AcceptFails(f)
    <3>1. sock' = [sock EXCEPT ![c] = [@ EXCEPT !.sockState = "Invalid"]]
      BY <1>0, <2>2 DEF AcceptFails
    <3> QED
      BY <1>2, <1>3, <3>1 DEF SockType
  <2> QED
    BY <2>1, <2>2
<1>6. TypeOK'
  <2>1. sock' \in [Socks -> SockType] /\ kernel' \in [Fds -> KernelType]
        /\ aio' \in [Fds -> AioType]
    BY <1>1, <1>2, <1>3, <1>5, Records
  <2>2. signals' \in [Socks -> SUBSET What]
    BY <1>1, <1>2, ImageTypes DEF What
  <2> QED
    BY <1>1, <2>1, <2>2, Types, TypesPrimed DEF IInv
<1>7. \A t \in Socks \ {c} : sock'[t] = sock[t]
  BY <1>3, <1>5
<1>8. ~Live(c)' /\ ~(Valid(c)' /\ State(c)' = "Connected")
  BY <1>5 DEF Live, State
<1>9. \A g \in Fds : kernel'[g] = IF g \in Holds(c) THEN Closed ELSE kernel[g]
  BY <1>1, <1>3, <1>4
<1>10. \A g \in Fds : aio'[g] \in {aio[g], Unwatched} /\ aio'[g].clientData # c
  <2> TAKE g \in Fds
  <2>1. CASE g = f
    BY <1>1, <1>2, <1>3, <2>1, ConstantsAssumption DEF Unwatched
  <2>2. CASE g # f
    BY <1>1, <1>2, <1>3, <2>2, OnlyItsOwn
  <2> QED
    BY <2>1, <2>2
<1> QED
  BY <1>2, <1>6, <1>7, <1>8, <1>9, <1>10, Release

\* A socket closed or destroyed.
LEMMA ShutKeeps ==
    ASSUME IInv, NEW s \in Socks, Live(s), Shut(s),
           aio' = [aio EXCEPT ![Fd(s)] = Unwatched],
           NEW r \in SockType, sock' = [sock EXCEPT ![s] = r],
           r.s = NULL, r.sockState = "Unconnected",
           thisNetSession' = thisNetSession,
           waits' \in [Socks -> SUBSET What], signals' \in [Socks -> SUBSET What]
    PROVE  IInv'
<1>1. /\ sock \in [Socks -> SockType] /\ kernel \in [Fds -> KernelType]
      /\ aio \in [Fds -> AioType]
  BY Types DEF IInv
<1>2. Fd(s) = sock[s].s /\ Fd(s) \in Fds /\ Fd(s) # NULL
  BY LiveFacts
<1>3. TypeOK'
  <2>1. kernel' \in [Fds -> KernelType]
    BY <1>1, Records DEF Shut
  <2>2. aio' \in [Fds -> AioType] /\ sock' \in [Socks -> SockType]
    BY <1>1, Records
  <2> QED
    BY <2>1, <2>2, Types, TypesPrimed DEF IInv
<1>4. \A t \in Socks \ {s} : sock'[t] = sock[t]
  BY <1>1
<1>5. ~Live(s)' /\ ~(Valid(s)' /\ State(s)' = "Connected")
  BY <1>1 DEF Live, Fd, State
<1>6. \A g \in Fds : kernel'[g] = IF g \in Holds(s) THEN Closed ELSE kernel[g]
  <2>1. \A g \in Fds : g \in Holds(s) <=> g \in {Fd(s), sock[s].acceptedSock}
    BY ConstantsAssumption DEF Live, Holds
  <2> QED
    BY <2>1 DEF Shut
<1>7. \A g \in Fds : aio'[g] \in {aio[g], Unwatched} /\ aio'[g].clientData # s
  <2> TAKE g \in Fds
  <2>1. CASE g = Fd(s)
    BY <1>1, <1>2, <2>1, ConstantsAssumption DEF Unwatched
  <2>2. CASE g # Fd(s)
    BY <1>1, <1>2, <2>2, OnlyItsOwn
  <2> QED
    BY <2>1, <2>2
<1> QED
  BY <1>3, <1>4, <1>5, <1>6, <1>7, Release
LEMMA CloseKeeps == ASSUME IInv, NEW s \in Socks, CloseConnection(s) PROVE IInv'
<1> DEFINE r == [sock[s] EXCEPT !.sockState = "Unconnected", !.s = NULL]
<1>1. Live(s) /\ sock \in [Socks -> SockType]
  BY Types DEF CloseConnection, Live, IInv
<1>2. r \in SockType /\ r.s = NULL /\ r.sockState = "Unconnected"
  BY <1>1 DEF SockType
<1>3. sock' = [sock EXCEPT ![s] = r]
  BY <1>1 DEF CloseConnection
<1>4. /\ Shut(s) /\ aio' = [aio EXCEPT ![Fd(s)] = Unwatched] /\ thisNetSession' = thisNetSession
      /\ waits' \in [Socks -> SUBSET What] /\ signals' \in [Socks -> SUBSET What]
  BY ImageTypes DEF CloseConnection
<1> HIDE DEF r
<1> QED
  BY <1>1, <1>2, <1>3, <1>4, ShutKeeps

LEMMA DestroyKeeps == ASSUME IInv, NEW s \in Socks, Destroy(s) PROVE IInv'
<1>1. Unused \in SockType /\ Unused.s = NULL /\ Unused.sockState = "Unconnected" /\ ~Unused.psp
  BY Records DEF Unused
<1>2. /\ sock' = [sock EXCEPT ![s] = Unused] /\ thisNetSession' = thisNetSession
      /\ waits' \in [Socks -> SUBSET What] /\ signals' \in [Socks -> SUBSET What]
  BY ImageTypes DEF Destroy
<1>3. CASE Fd(s) # NULL
  <2>1. Live(s) /\ Shut(s) /\ aio' = [aio EXCEPT ![Fd(s)] = Unwatched]
    BY <1>3 DEF Destroy, Live
  <2> QED
    BY <1>1, <1>2, <2>1, ShutKeeps
<1>4. CASE Fd(s) = NULL
  <2>1. kernel' = kernel /\ aio' = aio /\ Holds(s) = {} /\ ~Live(s)
    BY <1>4 DEF Destroy, Holds, Live
  <2>2. sock \in [Socks -> SockType]
    BY Types DEF IInv
  <2>3. TypeOK'
    BY <1>1, <1>2, <2>1, <2>2, Types, TypesPrimed DEF IInv
  <2>4. \A t \in Socks \ {s} : sock'[t] = sock[t]
    BY <1>2, <2>2
  <2>5. ~Live(s)' /\ ~(Valid(s)' /\ State(s)' = "Connected")
    BY <1>1, <1>2, <2>2 DEF Live, Valid
  <2>6. \A g \in Fds : aio'[g] \in {aio[g], Unwatched} /\ aio'[g].clientData # s
    BY <2>1, OnlyItsOwn
  <2>7. \A g \in Fds : kernel'[g] = IF g \in Holds(s) THEN Closed ELSE kernel[g]
    BY <2>1
  <2> QED
    BY <2>3, <2>4, <2>5, <2>6, <2>7, Release
<1> QED
  BY <1>3, <1>4

LEMMA WakeKeeps ==
    ASSUME IInv, NEW s \in Socks, NEW for \in What, Wake(s, for)
    PROVE  IInv'
<1>0. /\ Valid(s) /\ thisNetSession' = thisNetSession /\ sock \in [Socks -> SockType]
  BY Types DEF Wake, IInv
<1>1. signals' \in [Socks -> SUBSET What]
  <2>1. signals[s] \ {for} \in SUBSET What
    BY ImageTypes
  <2> QED
    BY <2>1, ImageTypes DEF Wake
<1>2. CASE for = "read" /\ DataAvailable(s)
  BY <1>0, <1>1, <1>2, LookKeeps
<1>3. ASSUME for # "read", kernel' = kernel, aio' = aio,
             NEW w \in SUBSET What, waits' = [waits EXCEPT ![s] = w],
             sock' = sock \/ sock' = [sock EXCEPT ![s].psp = State(s) # "Invalid"]
      PROVE  IInv'
  <2>1. waits' \in [Socks -> SUBSET What]
    BY <1>3, ImageTypes
  <2>2. CASE sock' = sock \/ State(s) # "Invalid"
    <3>1. sock' = sock
      BY <1>0, <1>3, <2>2 DEF SockType, Valid
    <3>2. TypeOK'
      BY <1>0, <1>1, <1>3, <2>1, <3>1, Types, TypesPrimed DEF IInv
    <3> QED
      BY <1>3, <3>1, <3>2, QuietStep, KeptWatch DEF Same, Open
  <2>3. CASE State(s) = "Invalid" /\ sock' = [sock EXCEPT ![s].psp = State(s) # "Invalid"]
    <3>1. sock'[s] = [sock[s] EXCEPT !.psp = FALSE] /\ sock[s] \in SockType
      BY <1>0, <2>3
    <3>2. sock'[s] \in SockType /\ ~sock'[s].psp
      BY <3>1 DEF SockType
    <3>3. sock' \in [Socks -> SockType] /\ \A t \in Socks \ {s} : sock'[t] = sock[t]
      BY <1>0, <2>3, <3>2
    <3>4. TypeOK'
      BY <1>0, <1>1, <1>3, <2>1, <3>3, Types, TypesPrimed DEF IInv
    <3>5. ~Live(s)' /\ ~(Valid(s)' /\ State(s)' = "Connected")
      BY <3>2 DEF Live, Valid
    <3>6. ~Live(s) /\ Holds(s) = {}
      BY <2>3 DEF Live, Holds
    <3>7. \A g \in Fds : aio'[g] \in {aio[g], Unwatched} /\ aio'[g].clientData # s
      BY <1>3, <3>6, OnlyItsOwn
    <3>8. \A g \in Fds : kernel'[g] = IF g \in Holds(s) THEN Closed ELSE kernel[g]
      BY <1>3, <3>6
    <3> QED
      BY <3>3, <3>4, <3>5, <3>7, <3>8, Release
  <2> QED
    BY <1>3, <2>2, <2>3
<1>4. CASE for # "read"
  <2>1. \E w \in SUBSET What : waits' = [waits EXCEPT ![s] = w]
    <3>1. waits[s] \ {for} \in SUBSET What /\ waits[s] \in SUBSET What
      BY ImageTypes
    <3> QED
      BY <1>4, <3>1 DEF Wake
  <2>2. /\ kernel' = kernel /\ aio' = aio
        /\ sock' = sock \/ sock' = [sock EXCEPT ![s].psp = State(s) # "Invalid"]
    BY <1>4 DEF Wake
  <2> QED
    BY <1>3, <1>4, <2>1, <2>2
<1> QED
  BY <1>2, <1>4 DEF Wake
LEMMA WaitKeeps == ASSUME IInv, NEW s \in Socks, WaitForData(s) PROVE IInv'
BY ImageTypes, LookKeeps DEF WaitForData, Streams

----------------------------------------------------------------------------
(* Steps in which a socket takes hold of a descriptor.                      *)

\* What is held is open, so a number the kernel hands out is nobody's, and nobody
\* watches it.
LEMMA HeldIsOpen ==
    ASSUME IInv, NEW s \in Socks, NEW f \in Holds(s)
    PROVE  f \in Fds /\ kernel[f].st \notin {"closed", "leaked"} /\ Live(s)
<1>1. Live(s) /\ f \in {Fd(s), sock[s].acceptedSock} \ {NULL}
  BY DEF Holds, Live
<1>2. sock[s] \in SockType
  BY Types DEF IInv
<1> QED
  BY <1>1, <1>2 DEF IInv, HoldInv, HoldOf, SockType, Fd

LEMMA FreeIsNobodys ==
    ASSUME IInv, FreeFds # {}
    PROVE  /\ NewFd \in Fds /\ NewFd # NULL /\ \A s \in Socks : NewFd \notin Holds(s)
           /\ aio[NewFd].clientData = NULL /\ ~aio[NewFd].armed
<1>1. NewFd \in Fds /\ kernel[NewFd].st = "closed" /\ NewFd # NULL
  BY NewFdFacts, ConstantsAssumption
<1>2. \A s \in Socks : NewFd \notin Holds(s)
  BY <1>1, HeldIsOpen
<1>3. aio[NewFd] \in AioType
  BY <1>1, Types DEF IInv
<1>4. aio[NewFd].clientData = NULL
  <2> SUFFICES ASSUME aio[NewFd].clientData # NULL PROVE FALSE
    OBVIOUS
  <2>1. PICK c \in Socks : c = aio[NewFd].clientData
    BY <1>3 DEF AioType
  <2>2. Live(c) /\ Fd(c) = NewFd
    BY <1>1, <2>1 DEF IInv, WatchInv, WatchOf, Client
  <2> QED
    BY <1>1, <1>2, <2>2 DEF Live, Holds
<1> QED
  BY <1>1, <1>2, <1>4 DEF IInv, WatchInv, WatchOf

LEMMA CreateKeeps == ASSUME IInv, NEW s \in Socks, Create(s) PROVE IInv'
<1> DEFINE r == [Unused EXCEPT !.psp = TRUE, !.s = NewFd]
<1>1. /\ NewFd \in Fds /\ NewFd # NULL /\ \A t \in Socks : NewFd \notin Holds(t)
  BY FreeIsNobodys DEF Create
<1>2. /\ sock \in [Socks -> SockType] /\ kernel \in [Fds -> KernelType]
      /\ aio \in [Fds -> AioType]
  BY Types DEF IInv
<1>3. /\ sock' = [sock EXCEPT ![s] = r] /\ kernel' = [kernel EXCEPT ![NewFd] = Opened("fresh")]
      /\ aio' = aio /\ thisNetSession' = thisNetSession
  BY DEF Create
<1>4. /\ r \in SockType /\ r.psp /\ r.s = NewFd /\ r.acceptedSock = NULL /\ ~r.multiListen
      /\ r.sockState = "Unconnected"
  BY <1>1, Records DEF Unused, SockType
<1>5. TypeOK'
  <2>1. waits' \in [Socks -> SUBSET What] /\ signals' \in [Socks -> SUBSET What]
    BY ImageTypes DEF Create
  <2>2. sock' \in [Socks -> SockType] /\ kernel' \in [Fds -> KernelType]
    BY <1>1, <1>2, <1>3, <1>4, Records
  <2> QED
    BY <1>2, <1>3, <2>1, <2>2, Types, TypesPrimed DEF IInv
<1>6. /\ \A t \in Socks \ {s} : sock'[t] = sock[t]
      /\ sock'[s].psp /\ sock'[s].s = NewFd /\ sock'[s].acceptedSock = NULL
      /\ ~sock'[s].multiListen /\ sock'[s].sockState = "Unconnected"
  BY <1>2, <1>3, <1>4
<1>7. \A t \in Socks \ {s} : \A f \in Holds(t) \cap Fds : kernel'[f] = kernel[f]
  BY <1>1, <1>2, <1>3
<1>8. kernel'[NewFd].st = "fresh"
  BY <1>1, <1>2, <1>3, Records
<1>9. HoldOf(s)' /\ StageOf(s)'
  BY <1>6, <1>8 DEF HoldOf, StageOf, Fd, State
<1>10. Holds(s)' = {NewFd}
  BY <1>1, <1>6 DEF Holds, Valid, Fd, State
<1>11. ~Live(s) /\ Holds(s) = {}
  BY DEF Create, Live, Holds
<1>12. \A f \in Fds : aio'[f] = aio[f] /\ aio[f].clientData # s
  BY <1>3, <1>11, OnlyItsOwn
<1>13. \A f \in Fds : kernel'[f].st \notin {"closed", "leaked"} =>
          \/ f \in Holds(s)'
          \/ kernel[f].st \notin {"closed", "leaked"} /\ f \notin Holds(s)
  BY <1>2, <1>3, <1>10, <1>11
<1> HIDE DEF r
<1> QED
  BY <1>1, <1>5, <1>6, <1>7, <1>9, <1>10, <1>12, <1>13, OneChanges

\* A watch that is given to the socket which holds its descriptor after the step.
LEMMA GivenWatch ==
    ASSUME NEW g \in Fds, NEW s \in Socks, aio'[g].clientData = s, Live(s)', Fd(s)' = g,
           aio'[g].armed /\ aio'[g].handler = "accept" => sock'[s].acceptedSock = NULL,
           aio'[g].armed /\ aio'[g].handler = "connect" => ~sock'[s].multiListen
    PROVE  WatchOf(g)'
<1>1. Client(g)' = s
  BY DEF Client
<1>2. Live(Client(g))' /\ Fd(Client(g))' = g
  BY <1>1 DEF Live, Valid, Fd, State
<1> QED
  BY <1>1, <1>2, ConstantsAssumption DEF WatchOf, Runs

LEMMA ListenKeeps ==
    ASSUME IInv, NEW s \in Socks, NEW multi \in BOOLEAN, Listen(s, multi)
    PROVE  IInv'
<1> DEFINE f == sock[s].s
           r == [sock[s] EXCEPT !.multiListen = multi, !.sockState = "WaitingForConnection"]
           e == Handle(AioEnable(s, f), "accept")
<1>1. Live(s) /\ sock[s].acceptedSock = NULL /\ Holds(s) = {f} /\ Fresh(s) /\ Fd(s) = f
  BY FreshFacts, LiveFacts DEF Listen
<1>2. f \in Fds /\ sock[s] \in SockType /\ sock[s].psp /\ f # NULL
  BY <1>1, LiveFacts
<1>3. /\ sock \in [Socks -> SockType] /\ kernel \in [Fds -> KernelType]
      /\ aio \in [Fds -> AioType]
  BY Types DEF IInv
<1>4. /\ r \in SockType /\ r.psp /\ r.s = f /\ r.acceptedSock = NULL
      /\ r.sockState = "WaitingForConnection"
  BY <1>1, <1>2 DEF SockType
<1>5. e \in AioType /\ e.clientData = s /\ e.armed /\ e.handler = "accept"
  <2>1. AioEnable(s, f) \in AioType /\ AioEnable(s, f).clientData = s
    BY <1>1, <1>2, <1>3, OwnWatch, Records
  <2> QED
    BY <2>1, HandleFacts, ConstantsAssumption
<1>6. sock' = [sock EXCEPT ![s] = r]
  BY <1>2, <1>3 DEF Listen, SockType
<1>7. /\ kernel' = [kernel EXCEPT ![f] = Opened("listening")] /\ aio' = [aio EXCEPT ![f] = e]
      /\ thisNetSession' = thisNetSession
  BY <1>1 DEF Listen
<1>8. TypeOK'
  <2>1. waits' \in [Socks -> SUBSET What] /\ signals' \in [Socks -> SUBSET What]
    BY ImageTypes DEF Listen, What
  <2>2. /\ sock' \in [Socks -> SockType] /\ kernel' \in [Fds -> KernelType]
        /\ aio' \in [Fds -> AioType]
    BY <1>2, <1>3, <1>4, <1>5, <1>6, <1>7, Records
  <2> QED
    BY <1>7, <2>1, <2>2, Types, TypesPrimed DEF IInv
<1>9. /\ \A t \in Socks \ {s} : sock'[t] = sock[t]
      /\ sock'[s].psp /\ sock'[s].s = f /\ sock'[s].acceptedSock = NULL
      /\ sock'[s].sockState = "WaitingForConnection"
  BY <1>3, <1>4, <1>6
<1>10. \A t \in Socks \ {s} : Holds(t) \cap Holds(s) = {}
  BY DEF IInv, DescriptorsAreOwned
<1>11. \A t \in Socks \ {s} : \A g \in Holds(t) \cap Fds : kernel'[g] = kernel[g]
  BY <1>1, <1>3, <1>7, <1>10
<1>12. kernel'[f].st = "listening" /\ aio'[f] = e
  BY <1>2, <1>3, <1>7, Records
<1> HIDE DEF r, e
<1>13. PICK g : g = f
  OBVIOUS
<1>14. HoldOf(s)' /\ StageOf(s)' /\ Live(s)' /\ Fd(s)' = g
  BY <1>2, <1>9, <1>12, <1>13 DEF HoldOf, StageOf, Live, Valid, Fd, State
<1>15. Holds(s)' = {f}
  BY <1>2, <1>9 DEF Holds, Valid, Fd, State
<1>16. WatchOf(g)'
  <2>1. aio'[g].clientData = s /\ aio'[g].armed /\ aio'[g].handler = "accept"
    BY <1>5, <1>12, <1>13
  <2> QED
    BY <1>2, <1>9, <1>13, <1>14, <2>1, GivenWatch
<1>17. \A h \in Fds : (aio'[h] = aio[h] /\ aio[h].clientData # s) \/ WatchOf(h)'
  <2> TAKE h \in Fds
  <2>1. CASE h = g
    BY <1>16, <2>1
  <2>2. CASE h # g
    BY <1>3, <1>7, <1>13, <2>2, OnlyItsOwn
  <2> QED
    BY <2>1, <2>2
<1>18. \A h \in Fds : kernel'[h].st \notin {"closed", "leaked"} =>
          \/ h \in Holds(s)'
          \/ kernel[h].st \notin {"closed", "leaked"} /\ h \notin Holds(s)
  BY <1>1, <1>3, <1>7, <1>15
<1> QED
  BY <1>1, <1>8, <1>9, <1>10, <1>11, <1>14, <1>15, <1>17, <1>18, OneChanges
\* accept() of a connection, to be handed on or in place of the listening socket.
LEMMA AcceptsKeeps == ASSUME IInv, NEW f \in Fds, Accepts(f) PROVE IInv'
<1>0. PICK c \in Socks : c = Client(f)
  BY HandlerFacts DEF Accepts
<1> DEFINE multi == sock[c].multiListen
           n == NewFd
<1>1. /\ Runs(f, "accept") /\ Live(c) /\ sock[c] \in SockType /\ sock[c].s = f /\ f # NULL
      /\ sock[c].psp /\ kernel[f].st \notin {"closed", "leaked"}
  BY <1>0, HandlerFacts DEF Accepts
<1>2. sock[c].acceptedSock = NULL
  BY <1>0, <1>1 DEF IInv, WatchInv, WatchOf
<1>3. /\ n \in Fds /\ n # NULL /\ \A t \in Socks : n \notin Holds(t)
      /\ aio[n].clientData = NULL /\ kernel[n].st = "closed"
  BY FreeIsNobodys, NewFdFacts DEF Accepts
<1>4. n # f
  BY <1>1, <1>3
<1>5. /\ sock \in [Socks -> SockType] /\ kernel \in [Fds -> KernelType]
      /\ aio \in [Fds -> AioType]
  BY Types DEF IInv
<1>6. Holds(c) = {f}
  BY <1>1, <1>2 DEF Holds, Live, Fd
<1>7. PICK more \in {"none", "data"} :
         kernel' = [g \in Fds |-> IF g = n THEN Up("none", FALSE)
                                  ELSE IF ~multi /\ g = f THEN Closed
                                  ELSE IF g = f THEN [kernel[f] EXCEPT !.rx = more]
                                  ELSE kernel[g]]
  <2>1. PICK more \in {"none", "data"} :
           kernel' = [g \in Fds |-> IF g = n THEN Up("none", FALSE)
                                    ELSE IF g = (IF multi THEN NULL ELSE f) THEN Closed
                                    ELSE IF g = f THEN [kernel[f] EXCEPT !.rx = more]
                                    ELSE kernel[g]]
    BY <1>0, <1>2 DEF Accepts
  <2>2. \A g \in Fds : g = (IF multi THEN NULL ELSE f) <=> ~multi /\ g = f
    BY ConstantsAssumption
  <2> HIDE DEF n, multi
  <2> QED
    BY <2>1, <2>2
<1>8. kernel' \in [Fds -> KernelType]
  <2>1. [kernel[f] EXCEPT !.rx = more] \in KernelType
    BY <1>5 DEF KernelType
  <2>2. Up("none", FALSE) \in KernelType /\ Closed \in KernelType
    BY UpFacts, Records
  <2> QED
    BY <1>5, <1>7, <2>1, <2>2
<1>9. /\ kernel'[n].st = "up" /\ (multi => kernel'[f].st = kernel[f].st)
      /\ (~multi => kernel'[f].st = "closed")
      /\ \A g \in Fds \ {n, f} : kernel'[g] = kernel[g]
  <2>1. [kernel[f] EXCEPT !.rx = more].st = kernel[f].st
    BY <1>5 DEF KernelType
  <2> QED
    BY <1>3, <1>4, <1>7, <2>1, UpFacts DEF Closed
<1>10. PICK r \in SockType :
         /\ sock' = [sock EXCEPT ![c] = r]
         /\ r.psp /\ r.sockState = "Connected" /\ r.multiListen = multi
         /\ r.s = IF multi THEN f ELSE n
         /\ r.acceptedSock = IF multi THEN n ELSE NULL
  <2> DEFINE rm == [sock[c] EXCEPT !.sockState = "Connected", !.acceptedSock = n]
             rs == [sock[c] EXCEPT !.sockState = "Connected", !.s = n, !.waitingToSend = FALSE]
  <2>1. sock' = [sock EXCEPT ![c] = IF multi THEN rm ELSE rs]
    BY <1>0 DEF Accepts
  <2>2. /\ rm \in SockType /\ rm.psp /\ rm.sockState = "Connected" /\ rm.multiListen = multi
        /\ rm.s = f /\ rm.acceptedSock = n
    BY <1>1, <1>3 DEF SockType
  <2>3. /\ rs \in SockType /\ rs.psp /\ rs.sockState = "Connected" /\ rs.multiListen = multi
        /\ rs.s = n /\ rs.acceptedSock = NULL
    BY <1>1, <1>2, <1>3 DEF SockType
  <2> HIDE DEF rm, rs
  <2> QED
    BY <2>1, <2>2, <2>3
<1>11. aio' = IF multi THEN [aio EXCEPT ![f].armed = FALSE]
              ELSE [aio EXCEPT ![f] = Unwatched, ![n] = Enabled(c)]
  BY <1>0 DEF Accepts
<1>12. aio' \in [Fds -> AioType]
  <2>1. [aio[f] EXCEPT !.armed = FALSE] \in AioType
    BY <1>5 DEF AioType
  <2> QED
    BY <1>5, <1>11, <2>1, Records
<1>13. TypeOK'
  <2>1. /\ waits' \in [Socks -> SUBSET What] /\ signals' \in [Socks -> SUBSET What]
        /\ thisNetSession' = thisNetSession
    BY <1>0, ImageTypes DEF Accepts, What
  <2> QED
    BY <1>5, <1>8, <1>10, <1>12, <2>1, Types, TypesPrimed DEF IInv
<1> HIDE DEF n
<1>14. /\ \A t \in Socks \ {c} : sock'[t] = sock[t]
       /\ sock'[c] = r
  BY <1>5, <1>10
<1>15. \A t \in Socks \ {c} : \A g \in Holds(t) \cap Fds : g # n /\ g # f
  BY <1>3, <1>6 DEF IInv, DescriptorsAreOwned
<1>16. multi => kernel[f].st # "fresh"
  BY <1>1 DEF IInv, StageInv, StageOf, Fd
<1>17. HoldOf(c)' /\ StageOf(c)' /\ Live(c)' /\ Fd(c)' = r.s
  BY <1>1, <1>3, <1>4, <1>9, <1>10, <1>14, <1>16
     DEF HoldOf, StageOf, Live, Valid, Fd, State
<1>18. Holds(c)' = IF multi THEN {f, n} ELSE {n}
  <2>1. Holds(c)' = {r.s, r.acceptedSock} \ {NULL}
    BY <1>1, <1>3, <1>10, <1>14 DEF Holds, Valid, Fd, State
  <2>2. CASE multi
    BY <1>1, <1>3, <1>10, <2>1, <2>2
  <2>3. CASE ~multi
    BY <1>3, <1>10, <2>1, <2>3
  <2> QED
    BY <2>2, <2>3
<1>19. \A g \in Fds : (aio'[g] = aio[g] /\ aio[g].clientData # c) \/ WatchOf(g)'
  <2> TAKE g \in Fds
  <2>1. CASE multi /\ g = f
    <3>1. aio'[g].clientData = c /\ ~aio'[g].armed
      BY <1>0, <1>5, <1>11, <2>1 DEF Client, AioType
    <3> QED
      BY <1>10, <1>17, <2>1, <3>1, GivenWatch
  <2>2. CASE ~multi /\ g = f
    BY <1>4, <1>5, <1>11, <2>2 DEF WatchOf, Runs, Unwatched
  <2>3. CASE ~multi /\ g = n
    <3>1. aio'[g].clientData = c /\ ~aio'[g].armed
      BY <1>3, <1>5, <1>11, <2>3, Records
    <3> QED
      BY <1>10, <1>17, <2>3, <3>1, GivenWatch
  <2>4. CASE g # f /\ (multi \/ g # n)
    BY <1>1, <1>5, <1>11, <2>4, OnlyItsOwn
  <2> QED
    BY <2>1, <2>2, <2>3, <2>4
<1>20. \A t \in Socks \ {c} : Holds(c)' \cap Holds(t) = {}
  BY <1>15, <1>18, <1>3, HeldIsOpen
<1>21. \A g \in Fds : kernel'[g].st \notin {"closed", "leaked"} =>
          \/ g \in Holds(c)'
          \/ kernel[g].st \notin {"closed", "leaked"} /\ g \notin Holds(c)
  BY <1>6, <1>9, <1>18
<1> QED
  BY <1>9, <1>13, <1>14, <1>15, <1>17, <1>19, <1>20, <1>21, OneChanges
\* The socket t takes over the connection that waits at the listening socket s.
LEMMA AcceptFromKeeps ==
    ASSUME IInv, NEW s \in Socks, NEW t \in Socks, AcceptFrom(t, s)
    PROVE  IInv'
<1> DEFINE a == sock[s].acceptedSock
           f == sock[s].s
           rt == [Unused EXCEPT !.psp = TRUE, !.s = a, !.sockState = "Connected"]
           rs == [sock[s] EXCEPT !.acceptedSock = NULL, !.sockState = "WaitingForConnection"]
<1>1. /\ Valid(s) /\ sock[s].multiListen /\ State(s) = "Connected" /\ ~Valid(t) /\ s # t
  BY DEF AcceptFrom
<1>2. f # NULL /\ a # NULL /\ Live(s)
  BY <1>1 DEF IInv, StageInv, StageOf, Fd, Live
<1>3. /\ f \in Fds /\ Fd(s) = f /\ sock[s] \in SockType /\ a \in Fds
      /\ kernel[f].st \notin {"closed", "leaked"} /\ sock[s].psp
      /\ aio[f] \in AioType /\ aio[f].clientData \in {NULL, s}
  BY <1>2, LiveFacts, OwnWatch DEF SockType
<1>4. a # f /\ kernel[a].st \notin {"closed", "leaked"} /\ kernel[f].st # "fresh"
  BY <1>1, <1>2 DEF IInv, HoldInv, HoldOf, StageInv, StageOf, Fd
<1>5. Holds(s) = {f, a} /\ Holds(t) = {} /\ ~Live(t)
  BY <1>1, <1>2, <1>3 DEF Holds, Live
<1>6. /\ sock \in [Socks -> SockType] /\ kernel \in [Fds -> KernelType]
      /\ aio \in [Fds -> AioType]
  BY Types DEF IInv
<1>7. aio[a].clientData = NULL
  <2> SUFFICES ASSUME aio[a].clientData # NULL PROVE FALSE
    OBVIOUS
  <2>1. PICK c \in Socks : c = aio[a].clientData
    BY <1>3, <1>6 DEF AioType
  <2>2. Live(c) /\ Fd(c) = a
    BY <1>3, <2>1 DEF IInv, WatchInv, WatchOf, Client
  <2>3. a \in Holds(c) /\ a \in Holds(s)
    BY <1>2, <1>5, <2>2 DEF Live, Holds
  <2>4. c = s
    BY <2>3 DEF IInv, DescriptorsAreOwned
  <2> QED
    BY <1>3, <1>4, <2>2, <2>4
<1>8. /\ rt \in SockType /\ rt.psp /\ rt.s = a /\ rt.acceptedSock = NULL /\ ~rt.multiListen
      /\ rt.sockState = "Connected"
  BY <1>3, Records DEF Unused, SockType
<1>9. /\ rs \in SockType /\ rs.psp /\ rs.s = f /\ rs.acceptedSock = NULL
      /\ rs.sockState = "WaitingForConnection"
  BY <1>3 DEF SockType
<1>10. sock' = [sock EXCEPT ![t] = rt, ![s] = rs]
  BY <1>1, <1>6 DEF AcceptFrom
<1>11. aio' = [aio EXCEPT ![f] = Handle(@, "accept"), ![a] = Enabled(t)]
  BY <1>3, <1>4, <1>6, <1>7 DEF AcceptFrom, AioEnable
<1>12. kernel' = kernel /\ thisNetSession' = thisNetSession
       /\ waits' \in [Socks -> SUBSET What] /\ signals' \in [Socks -> SUBSET What]
  <2>1. waits' \in [Socks -> SUBSET What]
    BY Types DEF AcceptFrom, IInv, What
  <2> QED
    BY <2>1, ImageTypes DEF AcceptFrom
<1> HIDE DEF rt, rs
<1>13. /\ \A u \in Socks \ {s, t} : sock'[u] = sock[u]
       /\ sock'[t] = rt /\ sock'[s] = rs
  BY <1>1, <1>6, <1>10
<1>14. /\ \A g \in Fds \ {f, a} : aio'[g] = aio[g]
       /\ aio'[f] = Handle(aio[f], "accept") /\ aio'[a] = Enabled(t)
  BY <1>3, <1>4, <1>6, <1>11
<1>15. /\ Handle(aio[f], "accept") \in AioType
       /\ Handle(aio[f], "accept").clientData = aio[f].clientData
       /\ aio[f].clientData = NULL => Handle(aio[f], "accept") = aio[f]
       /\ aio[f].clientData # NULL => Handle(aio[f], "accept").handler = "accept"
  BY <1>3, HandleFacts
<1>16. TypeOK'
  <2>1. aio' \in [Fds -> AioType] /\ sock' \in [Socks -> SockType]
    BY <1>6, <1>8, <1>9, <1>10, <1>11, <1>15, Records
  <2> QED
    BY <1>6, <1>12, <2>1, Types, TypesPrimed DEF IInv
<1>17. PICK g \in Fds, b \in Fds : g = f /\ b = a
  BY <1>3
<1>18. HoldOf(s)' /\ StageOf(s)' /\ Live(s)' /\ Fd(s)' = g /\ Holds(s)' = {g}
  <2>1. Live(s)' /\ Fd(s)' = g
    BY <1>2, <1>9, <1>13, <1>17 DEF Live, Valid, Fd, State
  <2>2. HoldOf(s)' /\ StageOf(s)'
    BY <1>3, <1>4, <1>9, <1>12, <1>13 DEF HoldOf, StageOf, Valid, Fd, State
  <2>3. Holds(s)' = {g}
    BY <1>2, <1>9, <1>13, <1>17 DEF Holds, Valid, Fd, State
  <2> QED
    BY <2>1, <2>2, <2>3
<1>19. HoldOf(t)' /\ StageOf(t)' /\ Live(t)' /\ Fd(t)' = b /\ Holds(t)' = {b}
  <2>1. Live(t)' /\ Fd(t)' = b
    BY <1>2, <1>8, <1>13, <1>17 DEF Live, Valid, Fd, State
  <2>2. HoldOf(t)' /\ StageOf(t)'
    BY <1>2, <1>4, <1>8, <1>12, <1>13 DEF HoldOf, StageOf, Valid, Fd, State
  <2>3. Holds(t)' = {b}
    BY <1>2, <1>8, <1>13, <1>17 DEF Holds, Valid, Fd, State
  <2> QED
    BY <2>1, <2>2, <2>3
<1>20. WatchOf(b)'
  <2>1. aio'[b].clientData = t /\ ~aio'[b].armed
    BY <1>14, <1>17, Records
  <2> QED
    BY <1>19, <2>1, GivenWatch
<1>21. WatchOf(g)'
  <2>1. CASE aio[f].clientData = NULL
    <3>1. aio'[g] = aio[g] /\ aio[g].clientData = NULL
      BY <1>14, <1>15, <1>17, <2>1
    <3> QED
      BY <3>1 DEF WatchOf, Runs, IInv, WatchInv
  <2>2. CASE aio[f].clientData = s
    <3>1. aio'[g].clientData = s /\ aio'[g].handler = "accept"
      BY <1>14, <1>15, <1>17, <2>2, ConstantsAssumption
    <3> QED
      BY <1>9, <1>13, <1>18, <3>1, GivenWatch
  <2> QED
    BY <1>3, <2>1, <2>2
<1> DEFINE C == {s, t}
<1>22. C \in SUBSET Socks /\ s \in C /\ t \in C /\ \A c \in C : c = s \/ c = t
  OBVIOUS
<1>23. \A h \in Fds : (aio'[h] = aio[h] /\ aio[h].clientData \notin C) \/ WatchOf(h)'
  <2> TAKE h \in Fds
  <2>1. CASE h = g \/ h = b
    BY <1>20, <1>21, <2>1
  <2>2. CASE h # f /\ h # a
    BY <1>5, <1>14, <2>2, OnlyItsOwn
  <2> QED
    BY <1>17, <2>1, <2>2
<1>24. \A u \in Socks \ C : Holds(u)' = Holds(u) /\ sock'[u] = sock[u]
       /\ Holds(u) \cap {g, b} = {}
  <2> TAKE u \in Socks \ C
  <2>1. sock'[u] = sock[u]
    BY <1>13
  <2>2. Holds(u)' = Holds(u)
    BY <2>1 DEF Holds, Valid, Fd, State
  <2>3. Holds(u) \cap Holds(s) = {}
    BY DEF IInv, DescriptorsAreOwned
  <2> QED
    BY <1>5, <1>17, <2>1, <2>2, <2>3
<1> HIDE DEF C
<1>25. \A c \in C : HoldOf(c)' /\ StageOf(c)'
  BY <1>18, <1>19, <1>22
<1>26. \A c \in C, u \in Socks : c # u => Holds(c)' \cap Holds(u)' = {}
  <2> SUFFICES ASSUME NEW c \in C, NEW u \in Socks, c # u PROVE Holds(c)' \cap Holds(u)' = {}
    OBVIOUS
  <2>1. CASE u \in C
    BY <1>4, <1>17, <1>18, <1>19, <1>22, <2>1
  <2>2. CASE u \notin C
    BY <1>18, <1>19, <1>22, <1>24, <2>2
  <2> QED
    BY <2>1, <2>2
<1>27. \A h \in Fds : kernel'[h].st \notin {"closed", "leaked"} =>
          \/ \E c \in C : h \in Holds(c)'
          \/ kernel[h].st \notin {"closed", "leaked"} /\ \A c \in C : h \notin Holds(c)
  <2> TAKE h \in Fds
  <2>1. CASE h = g \/ h = b
    BY <1>18, <1>19, <1>22, <2>1
  <2>2. CASE h # g /\ h # b
    BY <1>5, <1>12, <1>17, <1>22, <2>2
  <2> QED
    BY <2>1, <2>2
<1> QED
  BY <1>12, <1>16, <1>22, <1>23, <1>24, <1>25, <1>26, <1>27, Changes
----------------------------------------------------------------------------
(* The network session, and the whole step.                                 *)

LEMMA ShutdownKeeps == ASSUME IInv, NetworkShutdown PROVE IInv'
<1>1. /\ sock' = [s \in Socks |-> Unused] /\ aio' = [f \in Fds |-> Unwatched]
      /\ \A f \in Fds : kernel'[f] \in {Closed, Opened("leaked")}
  BY DEF NetworkShutdown
<1>2. TypeOK'
  <2>1. /\ kernel' \in [Fds -> KernelType] /\ thisNetSession' \in BOOLEAN
        /\ waits' \in [Socks -> SUBSET What] /\ signals' \in [Socks -> SUBSET What]
    BY Records DEF NetworkShutdown, What
  <2> QED
    BY <1>1, <2>1, Records, TypesPrimed
<1>3. \A s \in Socks : ~Live(s)' /\ ~Valid(s)' /\ Holds(s)' = {}
  BY <1>1 DEF Live, Valid, Holds, Unused
<1>4. \A s \in Socks : HoldOf(s)' /\ StageOf(s)'
  BY <1>3 DEF HoldOf, StageOf
<1>5. \A f \in Fds : WatchOf(f)'
  BY <1>1 DEF WatchOf, Runs, Unwatched
<1>6. \A f \in Fds : kernel'[f].st \in {"closed", "leaked"}
  BY <1>1, Records DEF Closed
<1>7. \A t \in Socks \ Socks : sock'[t] = sock[t] /\ \A f \in Holds(t) \cap Fds : kernel'[f] = kernel[f]
  OBVIOUS
<1> QED
  BY <1>2, <1>3, <1>4, <1>5, <1>6, <1>7, Changes

LEMMA UnchangedKeeps ==
    ASSUME IInv, thisNetSession' \in BOOLEAN, UNCHANGED <<sock, kernel, aio, waits, signals>>
    PROVE  IInv'
<1>1. TypeOK'
  BY Types, TypesPrimed DEF IInv
<1>2. \A s \in Socks : Same(s)
  BY DEF Same
<1> QED
  BY <1>1, <1>2, QuietStep, KeptWatch DEF Open

LEMMA NextKeeps == IInv /\ [Next]_vars => IInv'
<1> SUFFICES ASSUME IInv, [Next]_vars PROVE IInv'
  OBVIOUS
<1>1. CASE Kernel
  BY <1>1, KernelKeeps
<1>2. ASSUME NEW f \in Fds, Dispatch(f) PROVE IInv'
  BY <1>2, AcceptEndsKeep, AcceptsKeeps, QuietHandlersKeep DEF Dispatch
<1>3. ASSUME NEW s \in Socks, Image(s) PROVE IInv'
  <2>1. ASSUME NEW multi \in BOOLEAN, Listen(s, multi) PROVE IInv'
    BY <2>1, ListenKeeps
  <2>2. ASSUME NEW st \in {"up", "connecting"}, Connect(s, st) PROVE IInv'
    BY <2>2, ConnectKeeps
  <2>3. ASSUME NEW t \in Socks, AcceptFrom(t, s) PROVE IInv'
    BY <2>3, AcceptFromKeeps
  <2>4. CASE Create(s) \/ ConnectError(s) \/ WaitForData(s)
    BY <2>4, CreateKeeps, ConnectErrorKeeps, WaitKeeps
  <2>5. CASE Receive(s) \/ SendBlocks(s) \/ Send(s)
    BY <2>5, StreamsKeep
  <2>6. CASE CloseConnection(s) \/ Destroy(s)
    BY <2>6, CloseKeeps, DestroyKeeps
  <2> QED
    BY <1>3, <2>1, <2>2, <2>3, <2>4, <2>5, <2>6 DEF Image
<1>4. ASSUME NEW s \in Socks, NEW for \in {"conn", "read", "write"}, Wake(s, for) PROVE IInv'
  BY <1>4, WakeKeeps DEF What
<1>5. CASE NetworkShutdown
  BY <1>5, ShutdownKeeps
<1>6. CASE NetworkInit
  BY <1>6, UnchangedKeeps DEF NetworkInit
<1>7. CASE UNCHANGED vars
  BY <1>7, UnchangedKeeps, Types DEF vars, IInv
<1> QED
  BY <1>1, <1>2, <1>3, <1>4, <1>5, <1>6, <1>7 DEF Next

LEMMA InitHolds == Init => IInv
<1> SUFFICES ASSUME Init PROVE IInv
  OBVIOUS
<1>1. TypeOK
  BY Types, Records DEF Init, What
<1>2. \A s \in Socks : ~Live(s) /\ ~Valid(s) /\ Holds(s) = {}
  BY DEF Init, Live, Valid, Holds, Unused
<1>3. HoldInv /\ StageInv
  BY <1>2 DEF HoldInv, HoldOf, StageInv, StageOf
<1>4. WatchInv
  BY DEF Init, WatchInv, WatchOf, Runs, Unwatched
<1>5. DescriptorsAreOwned
  BY <1>1, <1>2 DEF Init, DescriptorsAreOwned, Closed
<1> QED
  BY <1>1, <1>3, <1>4, <1>5 DEF IInv

LEMMA Invariance == SafeSpec => []IInv
BY InitHolds, NextKeeps, PTL DEF SafeSpec

----------------------------------------------------------------------------

\* Every variable keeps its type, through every primitive, handler and wake-up.
THEOREM TypeCorrect == Spec => []TypeOK
<1>1. IInv => TypeOK
  BY DEF IInv
<1> QED
  BY <1>1, Invariance, PTL DEF Spec

\* aio never calls a handler for a private struct that was freed, nor for a descriptor
\* that is not the socket's own any more: closing, destroying, accepting in place and
\* the failures of accept() all forget the watch of the number they give back.
THEOREM HandlersMeetTheirSocket == Spec => []WatchesAreOwn
<1>1. IInv => WatchesAreOwn
  <2> SUFFICES ASSUME IInv, NEW f \in Fds, aio[f].clientData # NULL
               PROVE  LET s == aio[f].clientData
                      IN  Valid(s) /\ Fd(s) = f /\ kernel[f].st # "closed"
    BY DEF WatchesAreOwn
  <2>1. PICK s \in Socks : s = aio[f].clientData
    BY Types DEF IInv, AioType
  <2>2. Live(s) /\ Fd(s) = f
    BY <2>1 DEF IInv, WatchInv, WatchOf, Client
  <2> QED
    BY <2>1, <2>2, LiveFacts DEF Live
<1> QED
  BY <1>1, Invariance, PTL DEF Spec

\* Two sockets never hold one descriptor, not even as the connection that nobody has
\* accepted yet, and as long as the network session lasts every open descriptor is
\* held by a socket that can close it.
THEOREM OneSocketPerDescriptor == Spec => []DescriptorsAreOwned
<1>1. IInv => DescriptorsAreOwned
  BY DEF IInv
<1> QED
  BY <1>1, Invariance, PTL DEF Spec

(***************************************************************************)
(* Resolver: who holds resolverMutex and which lookup each thread works    *)
(* for make up the inductive invariant.                                    *)
(***************************************************************************)


Jobs == Slots \cup {0}
Holding == {"locked", "stored", "answered", "told"}
Pending == {"created", "looking", "found", "locked", "stored"}
ResolverLive(x) == job[x].pc # "none"
Counted == {x \in Slots : job[x].pc \in {"looking", "found", "unlocked"} \cup Holding}

LookupType ==
    [session : BOOLEAN, sema : Semas \cup {0}, busy : BOOLEAN, error : Errors,
     generation : Nat, wanted : Nat, answer : Nat, mutex : BOOLEAN,
     pid : {"none", "own", "parent"}]
GuardType == [installed : {"not yet", "yes", "no"}, mutex : BOOLEAN, running : Nat]
JobType == [pc : Pcs, generation : Nat, error : Errors, sema : Semas \cup {0}]

\* ResolverTypeOK, part by part.
TypeInv ==
    /\ loaded \in BOOLEAN /\ vm \in {"image", "preparing", "forking"}
    /\ lookup \in LookupType
    /\ guard \in GuardType
    /\ job \in [Jobs -> JobType]
    /\ used \subseteq Slots
    /\ signal \in [sema : Semas \cup {0}, generation : Nat]

\* lookupsRunning counts the threads between its increment and its decrement.
Counting == guard.running = Cardinality(Counted)

\* The fork guard knows nothing of a lookup inline.
Inline == job[0].pc \in {"none", "looking", "found"} \cup Holding

\* A thread has an entry of lookupWorkers, and belongs to the process that began
\* its lookup; the module's code is there for it.
Threads ==
    \A x \in Jobs : ResolverLive(x) => /\ loaded /\ lookup.pid = "own"
                               /\ x \in used \cup {0}
                               /\ job[x].generation <= lookup.generation

\* No two threads work for one lookup.
OneGeneration ==
    \A x, y \in Jobs :
        ResolverLive(x) /\ ResolverLive(y) /\ job[x].generation = job[y].generation => x = y

\* One thread at a time is in finishLookup's critical section.
Locking ==
    \A x \in Jobs : job[x].pc \in Holding =>
        lookup.mutex /\ \A y \in Jobs : job[y].pc \in Holding => x = y

\* A thread that stores an answer works for the lookup the image waits for.
Current ==
    \A x \in Jobs :
        /\ job[x].pc \in {"locked", "stored", "answered"} =>
               job[x].generation = lookup.generation
        /\ job[x].pc = "answered" => job[x].sema = lookup.sema
        /\ job[x].pc \in Pending /\ job[x].generation = lookup.generation =>
               lookup.busy /\ lookup.wanted = lookup.generation
        /\ job[x].pc = "stored" => lookup.answer = job[x].generation

ResolverIInv == /\ TypeInv /\ Counting /\ Inline /\ Threads /\ OneGeneration /\ Locking /\ Current
        /\ ResultIsOfLastLookup

----------------------------------------------------------------------------
(* Facts about the data.                                                    *)

\* Entry 0 stands for the VM thread alone, and every set of entries is finite.
LEMMA SlotFacts ==
    /\ 0 \notin Slots
    /\ \A S \in SUBSET Slots : IsFiniteSet(S) /\ Cardinality(S) \in Nat
<1>1. IsFiniteSet(Slots)
  BY ResolverAssumption, FS_Interval DEF Slots
<1>2. ASSUME NEW S \in SUBSET Slots PROVE IsFiniteSet(S) /\ Cardinality(S) \in Nat
  BY <1>1, FS_Subset, FS_CardinalityType
<1> QED
  BY <1>2 DEF Slots

\* A job that has not begun has the type of a job, and so has the empty one.
LEMMA JobFacts == NoJob \in JobType /\ NoJob.pc = "none"
BY DEF NoJob, JobType, Pcs, Errors

\* The parts are ResolverTypeOK.
LEMMA TypeFollows == TypeInv => ResolverTypeOK
BY DEF TypeInv, ResolverTypeOK, LookupType, GuardType, JobType, Jobs

\* An abandoned lookup leaves nothing that looks like an answer.
LEMMA AbandonFacts ==
    ASSUME NEW l \in LookupType
    PROVE  /\ AbandonLookup(l) \in LookupType
           /\ AbandonLookup(l).generation = l.generation + 1
           /\ ~AbandonLookup(l).busy
           /\ AbandonLookup(l).mutex = l.mutex /\ AbandonLookup(l).pid = l.pid
           /\ AbandonLookup(l).sema = l.sema
           /\ (~l.busy /\ l.error = "none" => l.answer = l.wanted) =>
              (AbandonLookup(l).error = "none" =>
                   AbandonLookup(l).answer = AbandonLookup(l).wanted)
<1> DEFINE next == [l EXCEPT !.generation = @ + 1]
           error == [next EXCEPT !.busy = FALSE, !.error = "again"]
<1>1. /\ next \in LookupType /\ next.generation = l.generation + 1
      /\ next.busy = l.busy /\ next.mutex = l.mutex /\ next.pid = l.pid
      /\ next.sema = l.sema /\ next.error = l.error
      /\ next.answer = l.answer /\ next.wanted = l.wanted
  BY DEF LookupType
<1>2. CASE l.busy
  <2> HIDE DEF next
  <2>1. error \in LookupType /\ error.generation = next.generation
        /\ ~error.busy /\ error.mutex = next.mutex /\ error.pid = next.pid
        /\ error.sema = next.sema /\ error.error = "again"
    BY <1>1 DEF LookupType, Errors
  <2> HIDE DEF error
  <2> DEFINE over == [error EXCEPT !.wanted = 0, !.answer = 0]
  <2>2. over \in LookupType /\ over.generation = error.generation
        /\ over.busy = error.busy /\ over.mutex = error.mutex /\ over.pid = error.pid
        /\ over.sema = error.sema /\ over.error = error.error
    BY <2>1 DEF LookupType
  <2>3. AbandonLookup(l) = over
    BY <1>2 DEF AbandonLookup, next, error
  <2> HIDE DEF over
  <2> QED
    BY <1>1, <2>1, <2>2, <2>3
<1>3. CASE ~l.busy
  BY <1>1, <1>3 DEF AbandonLookup
<1> QED
  BY <1>2, <1>3

\* What a primitive finds after resolverForkCheck.
LEMMA HereFacts ==
    ASSUME TypeInv, ResultIsOfLastLookup
    PROVE  /\ Here \in LookupType /\ Here.pid = "own"
           /\ lookup.pid = "parent" =>
                  Here.generation = lookup.generation + 1 /\ ~Here.mutex
           /\ lookup.pid # "parent" => Here = [lookup EXCEPT !.pid = "own"]
           /\ ~Here.busy /\ Here.error = "none" => Here.answer = Here.wanted
<1>1. lookup \in LookupType
  BY DEF TypeInv
<1>2. AbandonLookup(lookup) \in LookupType
  BY <1>1, AbandonFacts
<1>3. CASE lookup.pid = "parent"
  <2> DEFINE abandoned == AbandonLookup(lookup)
             own == [abandoned EXCEPT !.mutex = FALSE, !.pid = "own"]
  <2>1. /\ abandoned \in LookupType /\ abandoned.generation = lookup.generation + 1
        /\ ~abandoned.busy /\ (abandoned.error = "none" => abandoned.answer = abandoned.wanted)
    BY <1>1, AbandonFacts DEF ResultIsOfLastLookup
  <2> HIDE DEF abandoned
  <2>2. /\ own \in LookupType /\ own.pid = "own" /\ ~own.mutex
        /\ own.generation = abandoned.generation /\ own.error = abandoned.error
        /\ own.answer = abandoned.answer /\ own.wanted = abandoned.wanted
    BY <2>1 DEF LookupType
  <2>3. Here = own
    BY <1>3 DEF Here, ForkCheck, abandoned
  <2> HIDE DEF own
  <2> QED
    BY <1>3, <2>1, <2>2, <2>3
<1>4. CASE lookup.pid # "parent"
  BY <1>1, <1>4 DEF Here, ForkCheck, LookupType, ResultIsOfLastLookup
<1> QED
  BY <1>3, <1>4

----------------------------------------------------------------------------
(* The steps of a lookup.                                                   *)

\* Nothing is looked up at first.
LEMMA InvInit == ResolverInit => ResolverIInv
<1> SUFFICES ASSUME ResolverInit PROVE ResolverIInv
  OBVIOUS
<1>1. \A x \in Jobs : job[x] = NoJob
  BY DEF ResolverInit, Jobs
<1>2. TypeInv
  <2>1. lookup \in LookupType
    BY DEF ResolverInit, LookupType, Errors
  <2>2. job \in [Jobs -> JobType]
    BY JobFacts DEF ResolverInit, Jobs
  <2>3. guard \in GuardType
    <3>1. guard = [installed |-> "not yet", mutex |-> FALSE, running |-> 0]
      BY DEF ResolverInit
    <3> QED
      BY <3>1 DEF GuardType
  <2>4. signal \in [sema : Semas \cup {0}, generation : Nat]
    BY DEF ResolverInit
  <2> QED
    BY <2>1, <2>2, <2>3, <2>4 DEF ResolverInit, TypeInv
<1>3. Counting
  <2>1. Counted = {}
    BY <1>1, JobFacts DEF Counted, Jobs, Holding
  <2> QED
    BY <2>1, FS_EmptySet DEF Counting, ResolverInit
<1>4. Inline /\ Threads /\ OneGeneration /\ Locking /\ Current
  BY <1>1, JobFacts DEF Inline, Jobs, Threads, OneGeneration, Locking, Current, ResolverLive, Holding, Pending
<1>5. ResultIsOfLastLookup
  BY DEF ResolverInit, ResultIsOfLastLookup
<1> QED
  BY <1>2, <1>3, <1>4, <1>5 DEF ResolverIInv

\* One lookup's step leaves the others where they are.
LEMMA Moved ==
    ASSUME TypeInv, NEW x \in Jobs, NEW j \in JobType, job' = [job EXCEPT ![x] = j]
    PROVE  /\ job' \in [Jobs -> JobType] /\ job'[x] = j
           /\ \A y \in Jobs : y # x => job'[y] = job[y]
BY DEF TypeInv

\* The count of the fork guard, moved.
LEMMA Recounted ==
    ASSUME guard \in GuardType, NEW n \in Nat, guard' = [guard EXCEPT !.running = n]
    PROVE  guard' \in GuardType /\ guard'.running = n
BY DEF GuardType

\* A lookup whose step keeps its generation, or ends it, is in nobody's way.
LEMMA StillApart ==
    ASSUME TypeInv, Threads, OneGeneration,
           NEW x \in Jobs, ResolverLive(x), NEW j \in JobType, job' = [job EXCEPT ![x] = j],
           j.generation = job[x].generation \/ j = NoJob,
           UNCHANGED <<loaded, used>>,
           lookup'.pid = lookup.pid, lookup'.generation = lookup.generation
    PROVE  Threads' /\ OneGeneration'
<1>1. /\ job'[x] = j /\ \A y \in Jobs : y # x => job'[y] = job[y]
  BY Moved
<1>2. \A y \in Jobs : ResolverLive(y)' => ResolverLive(y) /\ job'[y].generation = job[y].generation
  BY <1>1, JobFacts DEF ResolverLive
<1>3. Threads'
  BY <1>2 DEF Threads
<1>4. OneGeneration'
  BY <1>2 DEF OneGeneration
<1> QED
  BY <1>3, <1>4

\* A step within the part of a lookup that the fork guard counts, or outside it.
LEMMA CountKept ==
    ASSUME TypeInv, Counting, NEW x \in Jobs, NEW j \in JobType,
           job' = [job EXCEPT ![x] = j], guard' = guard,
           x \in Slots => (j.pc \in {"looking", "found", "unlocked"} \cup Holding
                            <=> x \in Counted)
    PROVE  Counting'
<1>1. /\ job'[x] = j /\ \A y \in Jobs : y # x => job'[y] = job[y]
  BY Moved
<1>2. Counted' = Counted
  BY <1>1 DEF Counted, Jobs
<1> QED
  BY <1>2 DEF Counting

\* Every step of a lookup keeps the invariant.
LEMMA LookupStepKeeps ==
    ASSUME ResolverIInv, NEW x \in Jobs, LookupStep(x)
    PROVE  ResolverIInv'
<1> USE DEF ResolverIInv
<1>0. /\ job[x] \in JobType /\ job \in [Jobs -> JobType]
      /\ lookup \in LookupType /\ guard \in GuardType
  BY DEF TypeInv
<1>1. CASE Count(x)
  <2> DEFINE j == [job[x] EXCEPT !.pc = "looking"]
  <2>1. j \in JobType /\ j.pc = "looking" /\ j.generation = job[x].generation
    BY <1>0 DEF JobType, Pcs
  <2>2. job' = [job EXCEPT ![x] = j] /\ ResolverLive(x)
    BY <1>1 DEF Count, Go, At, ResolverLive
  <2> HIDE DEF j
  <2>3. /\ job' \in [Jobs -> JobType] /\ job'[x] = j
        /\ \A y \in Jobs : y # x => job'[y] = job[y]
    BY <2>1, <2>2, Moved
  <2>4. Threads' /\ OneGeneration'
    BY <1>1, <2>1, <2>2, StillApart DEF Count
  <2>5. guard' \in GuardType /\ guard'.running = guard.running + 1
    <3> DEFINE n == guard.running + 1
    <3>1. n \in Nat
      <4>1. guard.running \in Nat
        BY <1>0 DEF GuardType
      <4> QED
        BY <4>1
    <3>2. guard' = [guard EXCEPT !.running = n]
      BY <1>1 DEF Count
    <3> HIDE DEF n
    <3>3. guard' \in GuardType /\ guard'.running = n
      BY <1>0, <3>1, <3>2, Recounted
    <3> QED
      BY <3>3 DEF n
  <2>6. Counting'
    <3>1. x \in Slots
      BY <1>1 DEF Count, At, Inline, Jobs, Holding
    <3>2. Counted' = Counted \cup {x} /\ x \notin Counted
      BY <1>1, <2>1, <2>3, <3>1 DEF Counted, Count, At, Jobs, Holding
    <3>3. Counted \in SUBSET Slots
      BY DEF Counted
    <3> QED
      BY <2>5, <3>2, <3>3, SlotFacts, FS_AddElement DEF Counting
  <2>7. TypeInv'
    BY <1>1, <2>3, <2>5 DEF TypeInv, Count
  <2>8. Inline' /\ Locking' /\ Current'
    BY <1>1, <2>1, <2>3 DEF Count, At, Inline, Jobs, Locking, Current, Holding, Pending
  <2> QED
    BY <1>1, <2>4, <2>6, <2>7, <2>8 DEF Count, ResultIsOfLastLookup
<1>2. CASE RunLookup(x)
  <2>0. PICK e \in {"none", "failed"} :
             job' = [job EXCEPT ![x].pc = "found", ![x].error = e]
    BY <1>2 DEF RunLookup
  <2> DEFINE j == [job[x] EXCEPT !.pc = "found", !.error = e]
  <2>1. j \in JobType /\ j.pc = "found" /\ j.generation = job[x].generation
    BY <1>0 DEF JobType, Pcs, Errors
  <2>2. job' = [job EXCEPT ![x] = j] /\ ResolverLive(x)
    BY <1>0, <1>2, <2>0 DEF RunLookup, At, ResolverLive
  <2> HIDE DEF j
  <2>3. /\ job' \in [Jobs -> JobType] /\ job'[x] = j
        /\ \A y \in Jobs : y # x => job'[y] = job[y]
    BY <2>1, <2>2, Moved
  <2>4. lookup' = lookup
    BY <1>2 DEF RunLookup
  <2>5. Threads' /\ OneGeneration'
    BY <1>2, <2>1, <2>2, <2>4, StillApart DEF RunLookup
  <2>6. Counting'
    <3>1. x \in Slots => (j.pc \in {"looking", "found", "unlocked"} \cup Holding
                         <=> x \in Counted)
      BY <1>2, <2>1, SlotFacts DEF RunLookup, At, Counted, Holding
    <3> QED
      BY <1>2, <2>1, <2>2, <3>1, CountKept DEF RunLookup
  <2>7. TypeInv'
    BY <1>0, <1>2, <2>3, <2>4 DEF TypeInv, RunLookup
  <2>8. Inline' /\ Locking' /\ Current'
    BY <1>2, <2>1, <2>3, <2>4, SlotFacts
       DEF RunLookup, At, Inline, Jobs, Locking, Current, Holding, Pending, ResultIsOfLastLookup
  <2>9. ResultIsOfLastLookup'
    BY <1>2, <2>4 DEF RunLookup, At, Current, Pending, ResultIsOfLastLookup
  <2> QED
    BY <2>5, <2>6, <2>7, <2>8, <2>9
<1>3. CASE LockAnswer(x)
  <2> DEFINE j == [job[x] EXCEPT !.pc = IF job[x].generation = lookup.generation THEN "locked" ELSE "told"]
  <2>1. j \in JobType /\ j.generation = job[x].generation
        /\ j.pc = (IF job[x].generation = lookup.generation THEN "locked" ELSE "told")
    BY <1>0 DEF JobType, Pcs
  <2>2. job' = [job EXCEPT ![x] = j] /\ ResolverLive(x)
    BY <1>3 DEF LockAnswer, Go, At, ResolverLive
  <2> HIDE DEF j
  <2>3. /\ job' \in [Jobs -> JobType] /\ job'[x] = j
        /\ \A y \in Jobs : y # x => job'[y] = job[y]
    BY <2>1, <2>2, Moved
  <2>4. /\ lookup' \in LookupType
        /\ lookup'.busy = lookup.busy /\ lookup'.mutex /\ lookup'.error = lookup.error
        /\ lookup'.answer = lookup.answer
        /\ lookup'.generation = lookup.generation /\ lookup'.pid = lookup.pid
        /\ lookup'.sema = lookup.sema /\ lookup'.wanted = lookup.wanted
    BY <1>0, <1>3 DEF LockAnswer, LookupType
  <2>5. Threads' /\ OneGeneration'
    BY <1>3, <2>1, <2>2, <2>4, StillApart DEF LockAnswer
  <2>6. Counting'
    <3>1. x \in Slots => (j.pc \in {"looking", "found", "unlocked"} \cup Holding
                         <=> x \in Counted)
      BY <1>3, <2>1, SlotFacts DEF LockAnswer, At, Counted, Holding
    <3> QED
      BY <1>3, <2>1, <2>2, <3>1, CountKept DEF LockAnswer
  <2>7. TypeInv'
    BY <1>0, <1>3, <2>3, <2>4 DEF TypeInv, LockAnswer
  <2>8. Inline' /\ Locking' /\ Current'
    BY <1>3, <2>1, <2>3, <2>4, SlotFacts
       DEF LockAnswer, At, Inline, Jobs, Locking, Current, Holding, Pending, ResultIsOfLastLookup
  <2>9. ResultIsOfLastLookup'
    BY <1>3, <2>4 DEF LockAnswer, At, Current, Pending, ResultIsOfLastLookup
  <2> QED
    BY <2>5, <2>6, <2>7, <2>8, <2>9
<1>4. CASE StoreAnswer(x)
  <2> DEFINE j == [job[x] EXCEPT !.pc = "stored"]
  <2>1. j \in JobType /\ j.pc = "stored" /\ j.generation = job[x].generation
    BY <1>0 DEF JobType, Pcs
  <2>2. job' = [job EXCEPT ![x] = j] /\ ResolverLive(x)
    BY <1>4 DEF StoreAnswer, Go, At, ResolverLive
  <2> HIDE DEF j
  <2>3. /\ job' \in [Jobs -> JobType] /\ job'[x] = j
        /\ \A y \in Jobs : y # x => job'[y] = job[y]
    BY <2>1, <2>2, Moved
  <2>4. /\ lookup' \in LookupType
        /\ lookup'.busy = lookup.busy /\ lookup'.mutex = lookup.mutex
        /\ lookup'.answer = job[x].generation
        /\ lookup'.generation = lookup.generation /\ lookup'.pid = lookup.pid
        /\ lookup'.sema = lookup.sema /\ lookup'.wanted = lookup.wanted
    BY <1>0, <1>4 DEF StoreAnswer, LookupType, JobType
  <2>5. Threads' /\ OneGeneration'
    BY <1>4, <2>1, <2>2, <2>4, StillApart DEF StoreAnswer
  <2>6. Counting'
    <3>1. x \in Slots => (j.pc \in {"looking", "found", "unlocked"} \cup Holding
                         <=> x \in Counted)
      BY <1>4, <2>1, SlotFacts DEF StoreAnswer, At, Counted, Holding
    <3> QED
      BY <1>4, <2>1, <2>2, <3>1, CountKept DEF StoreAnswer
  <2>7. TypeInv'
    BY <1>0, <1>4, <2>3, <2>4 DEF TypeInv, StoreAnswer
  <2>8. Inline' /\ Locking' /\ Current'
    BY <1>4, <2>1, <2>3, <2>4, SlotFacts
       DEF StoreAnswer, At, Inline, Jobs, Locking, Current, Holding, Pending, ResultIsOfLastLookup
  <2>9. ResultIsOfLastLookup'
    BY <1>4, <2>4 DEF StoreAnswer, At, Current, Pending, ResultIsOfLastLookup
  <2> QED
    BY <2>5, <2>6, <2>7, <2>8, <2>9
<1>5. CASE ClearBusy(x)
  <2> DEFINE j == [job[x] EXCEPT !.pc = "answered", !.sema = lookup.sema]
  <2>1. j \in JobType /\ j.pc = "answered" /\ j.generation = job[x].generation
        /\ j.sema = lookup.sema
    <3>1. lookup.sema \in Semas \cup {0}
      BY <1>0 DEF LookupType
    <3> QED
      BY <1>0, <3>1 DEF JobType, Pcs
  <2>2. job' = [job EXCEPT ![x] = j] /\ ResolverLive(x)
    BY <1>5 DEF ClearBusy, Go, At, ResolverLive
  <2> HIDE DEF j
  <2>3. /\ job' \in [Jobs -> JobType] /\ job'[x] = j
        /\ \A y \in Jobs : y # x => job'[y] = job[y]
    BY <2>1, <2>2, Moved
  <2>4. /\ lookup' \in LookupType
        /\ ~lookup'.busy /\ lookup'.mutex = lookup.mutex
        /\ lookup'.answer = lookup.answer /\ lookup'.error = lookup.error
        /\ lookup'.generation = lookup.generation /\ lookup'.pid = lookup.pid
        /\ lookup'.sema = lookup.sema /\ lookup'.wanted = lookup.wanted
    BY <1>0, <1>5 DEF ClearBusy, LookupType
  <2>5. Threads' /\ OneGeneration'
    BY <1>5, <2>1, <2>2, <2>4, StillApart DEF ClearBusy
  <2>6. Counting'
    <3>1. x \in Slots => (j.pc \in {"looking", "found", "unlocked"} \cup Holding
                         <=> x \in Counted)
      BY <1>5, <2>1, SlotFacts DEF ClearBusy, At, Counted, Holding
    <3> QED
      BY <1>5, <2>1, <2>2, <3>1, CountKept DEF ClearBusy
  <2>7. TypeInv'
    BY <1>0, <1>5, <2>3, <2>4 DEF TypeInv, ClearBusy
  <2>8. Inline' /\ Locking' /\ Current'
    <3>1. Inline' /\ Locking'
      BY <1>5, <2>1, <2>3, <2>4, SlotFacts DEF ClearBusy, At, Inline, Jobs, Locking, Holding
    <3>2. \A y \in Jobs : y # x /\ job[y].pc \in Pending => job[y].generation # lookup.generation
      BY <1>5 DEF ClearBusy, At, OneGeneration, ResolverLive, Current, Pending
    <3>3. \A y \in Jobs : y # x => job[y].pc \notin Holding
      BY <1>5 DEF ClearBusy, At, Locking, Holding
    <3>4. Current'
      BY <1>5, <2>1, <2>3, <2>4, <3>2, <3>3 DEF ClearBusy, At, Current, Holding, Pending
    <3> QED
      BY <3>1, <3>4
  <2>9. ResultIsOfLastLookup'
    BY <1>5, <2>4 DEF ClearBusy, At, Current, Pending, ResultIsOfLastLookup
  <2> QED
    BY <2>5, <2>6, <2>7, <2>8, <2>9
<1>6. CASE Tell(x)
  <2> DEFINE j == [job[x] EXCEPT !.pc = "told"]
  <2>1. j \in JobType /\ j.pc = "told" /\ j.generation = job[x].generation
    BY <1>0 DEF JobType, Pcs
  <2>2. job' = [job EXCEPT ![x] = j] /\ ResolverLive(x)
    BY <1>6 DEF Tell, Go, At, ResolverLive
  <2> HIDE DEF j
  <2>3. /\ job' \in [Jobs -> JobType] /\ job'[x] = j
        /\ \A y \in Jobs : y # x => job'[y] = job[y]
    BY <2>1, <2>2, Moved
  <2>4. lookup' = lookup
    BY <1>6 DEF Tell
  <2>5. Threads' /\ OneGeneration'
    BY <1>6, <2>1, <2>2, <2>4, StillApart DEF Tell
  <2>6. Counting'
    <3>1. x \in Slots => (j.pc \in {"looking", "found", "unlocked"} \cup Holding
                         <=> x \in Counted)
      BY <1>6, <2>1, SlotFacts DEF Tell, At, Counted, Holding
    <3> QED
      BY <1>6, <2>1, <2>2, <3>1, CountKept DEF Tell
  <2>7. TypeInv'
    BY <1>0, <1>6, <2>3, <2>4 DEF TypeInv, Tell, JobType
  <2>8. Inline' /\ Locking' /\ Current'
    BY <1>6, <2>1, <2>3, <2>4, SlotFacts
       DEF Tell, At, Inline, Jobs, Locking, Current, Holding, Pending, ResultIsOfLastLookup
  <2>9. ResultIsOfLastLookup'
    BY <1>6, <2>4 DEF Tell, At, Current, Pending, ResultIsOfLastLookup
  <2> QED
    BY <2>5, <2>6, <2>7, <2>8, <2>9
<1>7. CASE UnlockAnswer(x)
  <2> DEFINE j == IF x = 0 THEN NoJob ELSE [job[x] EXCEPT !.pc = "unlocked"]
  <2>1. j \in JobType /\ (x = 0 => j = NoJob /\ j.pc = "none")
        /\ (x # 0 => j.pc = "unlocked" /\ j.generation = job[x].generation)
    BY <1>0 DEF JobType, Pcs, NoJob, Errors
  <2>2. job' = [job EXCEPT ![x] = j] /\ ResolverLive(x)
    BY <1>7 DEF UnlockAnswer, Go, At, ResolverLive
  <2> HIDE DEF j
  <2>3. /\ job' \in [Jobs -> JobType] /\ job'[x] = j
        /\ \A y \in Jobs : y # x => job'[y] = job[y]
    BY <2>1, <2>2, Moved
  <2>4. /\ lookup' \in LookupType
        /\ lookup'.busy = lookup.busy /\ ~lookup'.mutex /\ lookup'.error = lookup.error
        /\ lookup'.answer = lookup.answer
        /\ lookup'.generation = lookup.generation /\ lookup'.pid = lookup.pid
        /\ lookup'.sema = lookup.sema /\ lookup'.wanted = lookup.wanted
    BY <1>0, <1>7 DEF UnlockAnswer, LookupType
  <2>5. Threads' /\ OneGeneration'
    BY <1>7, <2>1, <2>2, <2>4, StillApart DEF UnlockAnswer
  <2>6. Counting'
    <3>1. x \in Slots => (j.pc \in {"looking", "found", "unlocked"} \cup Holding
                         <=> x \in Counted)
      BY <1>7, <2>1, SlotFacts DEF UnlockAnswer, At, Counted, Holding
    <3> QED
      BY <1>7, <2>1, <2>2, <3>1, CountKept DEF UnlockAnswer
  <2>7. TypeInv'
    BY <1>0, <1>7, <2>3, <2>4 DEF TypeInv, UnlockAnswer
  <2>8. Inline' /\ Locking' /\ Current'
    BY <1>7, <2>1, <2>3, <2>4, SlotFacts
       DEF UnlockAnswer, At, Inline, Jobs, Locking, Current, Holding, Pending, ResultIsOfLastLookup
  <2>9. ResultIsOfLastLookup'
    BY <1>7, <2>4 DEF UnlockAnswer, At, Current, Pending, ResultIsOfLastLookup
  <2> QED
    BY <2>5, <2>6, <2>7, <2>8, <2>9
<1>8. CASE Uncount(x)
  <2> DEFINE j == [job[x] EXCEPT !.pc = "uncounted"]
  <2>1. j \in JobType /\ j.pc = "uncounted" /\ j.generation = job[x].generation
    BY <1>0 DEF JobType, Pcs
  <2>2. job' = [job EXCEPT ![x] = j] /\ ResolverLive(x)
    BY <1>8 DEF Uncount, Go, At, ResolverLive
  <2> HIDE DEF j
  <2>3. /\ job' \in [Jobs -> JobType] /\ job'[x] = j
        /\ \A y \in Jobs : y # x => job'[y] = job[y]
    BY <2>1, <2>2, Moved
  <2>4. Threads' /\ OneGeneration'
    BY <1>8, <2>1, <2>2, StillApart DEF Uncount
  <2>5. /\ Counted' = Counted \ {x} /\ Cardinality(Counted') = guard.running - 1
        /\ guard.running - 1 \in Nat
    <3>1. x \in Slots
      BY <1>8 DEF Uncount, At, Inline, Jobs, Holding
    <3>2. Counted' = Counted \ {x} /\ x \in Counted
      BY <1>8, <2>1, <2>3, <3>1 DEF Counted, Uncount, At, Jobs, Holding
    <3>3. Counted \in SUBSET Slots /\ Counted' \in SUBSET Slots
      BY DEF Counted
    <3>4. Cardinality(Counted') = Cardinality(Counted) - 1 /\ Cardinality(Counted') \in Nat
      BY <3>2, <3>3, SlotFacts, FS_RemoveElement
    <3> QED
      BY <3>2, <3>4 DEF Counting
  <2>6. guard' \in GuardType /\ Counting'
    <3> DEFINE n == guard.running - 1
    <3>1. n \in Nat
      BY <2>5
    <3>2. guard' = [guard EXCEPT !.running = n]
      BY <1>8 DEF Uncount
    <3> HIDE DEF n
    <3>3. guard' \in GuardType /\ guard'.running = n
      BY <1>0, <3>1, <3>2, Recounted
    <3> QED
      BY <2>5, <3>3 DEF Counting, n
  <2>7. TypeInv'
    BY <1>8, <2>3, <2>6 DEF TypeInv, Uncount
  <2>8. Inline' /\ Locking' /\ Current'
    BY <1>8, <2>1, <2>3 DEF Uncount, At, Inline, Jobs, Locking, Current, Holding, Pending
  <2> QED
    BY <1>8, <2>4, <2>6, <2>7, <2>8 DEF Uncount, ResultIsOfLastLookup
<1>9. CASE Return(x)
  <2> DEFINE j == [job[x] EXCEPT !.pc = "returned"]
  <2>1. j \in JobType /\ j.pc = "returned" /\ j.generation = job[x].generation
    BY <1>0 DEF JobType, Pcs
  <2>2. job' = [job EXCEPT ![x] = j] /\ ResolverLive(x)
    BY <1>9 DEF Return, Go, At, ResolverLive
  <2> HIDE DEF j
  <2>3. /\ job' \in [Jobs -> JobType] /\ job'[x] = j
        /\ \A y \in Jobs : y # x => job'[y] = job[y]
    BY <2>1, <2>2, Moved
  <2>4. lookup' = lookup
    BY <1>9 DEF Return
  <2>5. Threads' /\ OneGeneration'
    BY <1>9, <2>1, <2>2, <2>4, StillApart DEF Return
  <2>6. Counting'
    <3>1. x \in Slots => (j.pc \in {"looking", "found", "unlocked"} \cup Holding
                         <=> x \in Counted)
      BY <1>9, <2>1, SlotFacts DEF Return, At, Counted, Holding
    <3> QED
      BY <1>9, <2>1, <2>2, <3>1, CountKept DEF Return
  <2>7. TypeInv'
    BY <1>0, <1>9, <2>3, <2>4 DEF TypeInv, Return
  <2>8. Inline' /\ Locking' /\ Current'
    BY <1>9, <2>1, <2>3, <2>4, SlotFacts
       DEF Return, At, Inline, Jobs, Locking, Current, Holding, Pending, ResultIsOfLastLookup
  <2>9. ResultIsOfLastLookup'
    BY <1>9, <2>4 DEF Return, At, Current, Pending, ResultIsOfLastLookup
  <2> QED
    BY <2>5, <2>6, <2>7, <2>8, <2>9
<1> QED
  BY <1>1, <1>2, <1>3, <1>4, <1>5, <1>6, <1>7, <1>8, <1>9 DEF LookupStep

----------------------------------------------------------------------------
(* The primitives of the image.                                             *)

\* What is left of the threads once the finished ones are joined.
LEMMA JoinedFacts ==
    ASSUME ResolverIInv, InImage
    PROVE  /\ Joined \in [Jobs -> JobType] /\ Joined[0] = job[0]
           /\ \A y \in Jobs :
                  Joined[y] = job[y] \/ (job[y].pc = "returned" /\ Joined[y] = NoJob)
           /\ UsedHere \in SUBSET Slots /\ Finished \in SUBSET Slots
           /\ \A y \in Jobs : job[y].pc # "none" => lookup.pid = "own" /\ y \in UsedHere
           /\ \A y \in Jobs : Joined[y].pc # "none" => y \in UsedHere \ Finished
<1> USE DEF ResolverIInv
<1>1. DOMAIN job = Jobs /\ job \in [Jobs -> JobType] /\ 0 \in Jobs
  BY DEF TypeInv, Jobs
<1>2. UsedHere \in SUBSET Slots
  BY DEF UsedHere, TypeInv
<1>3. Finished \in SUBSET Slots
  BY <1>2 DEF Finished
<1>4. \A y \in Jobs : Joined[y] = IF y \in Finished THEN NoJob ELSE job[y]
  BY <1>1 DEF Joined
<1>5. Joined \in [Jobs -> JobType]
  BY <1>1, JobFacts DEF Joined
<1>6. \A y \in Jobs : job[y].pc # "none" => lookup.pid = "own" /\ y \in UsedHere
  BY DEF Threads, ResolverLive, InImage, UsedHere, Jobs
<1> QED
  BY <1>1, <1>2, <1>3, <1>4, <1>5, <1>6, SlotFacts, JobFacts DEF Finished

\* A primitive that begins no lookup keeps the invariant, when it either leaves
\* what the threads read alone or finds nobody in finishLookup.
LEMMA PrimitiveKeeps ==
    ASSUME ResolverIInv, InImage,
           job' \in [Jobs -> JobType],
           \A y \in Jobs :
               job'[y] = job[y] \/ (job[y].pc = "returned" /\ job'[y] = NoJob),
           used' \in SUBSET Slots,
           \A y \in Jobs : job'[y].pc # "none" => loaded' /\ y \in used',
           loaded' \in BOOLEAN, vm' \in {"image", "preparing", "forking"},
           guard' = guard, signal' = signal,
           lookup' \in LookupType, lookup'.pid = "own",
           lookup'.generation >= lookup.generation,
           lookup.pid = "own" =>
               \/ lookup' = lookup
               \/ \A y \in Jobs : job'[y].pc \notin Holding,
           lookup.pid = "own" =>
               \/ lookup'.generation > lookup.generation
               \/ /\ lookup'.generation = lookup.generation
                  /\ lookup'.busy = lookup.busy /\ lookup'.wanted = lookup.wanted,
           ResultIsOfLastLookup'
    PROVE  ResolverIInv'
<1> USE DEF ResolverIInv
<1>1. TypeInv'
  BY DEF TypeInv
<1>2. Counting'
  <2>1. Counted' = Counted
    BY JobFacts DEF Counted, Jobs, Holding
  <2> QED
    BY <2>1 DEF Counting
<1>3. \A y \in Jobs : job'[y].pc # "none" => job'[y] = job[y] /\ ResolverLive(y) /\ lookup.pid = "own"
  BY JobFacts DEF ResolverLive, Threads
<1>4. Inline'
  BY JobFacts DEF Inline, Jobs, Holding
<1>5. Threads'
  <2>1. lookup.generation \in Nat /\ lookup'.generation \in Nat
        /\ \A y \in Jobs : job[y].generation \in Nat
    BY DEF TypeInv, LookupType, JobType
  <2> QED
    BY <1>3, <2>1 DEF Threads, ResolverLive
<1>6. OneGeneration'
  BY <1>3 DEF OneGeneration, ResolverLive
<1>7. Locking'
  BY <1>3 DEF Locking, Holding
<1>8. Current'
  <2>1. SUFFICES ASSUME NEW y \in Jobs, job'[y].pc # "none" PROVE
        /\ job'[y].pc \in {"locked", "stored", "answered"} =>
               job'[y].generation = lookup'.generation
        /\ job'[y].pc = "answered" => job'[y].sema = lookup'.sema
        /\ job'[y].pc \in Pending /\ job'[y].generation = lookup'.generation =>
               lookup'.busy /\ lookup'.wanted = lookup'.generation
        /\ job'[y].pc = "stored" => lookup'.answer = job'[y].generation
    BY DEF Current, Pending
  <2>2. job'[y] = job[y] /\ ResolverLive(y) /\ lookup.pid = "own"
    BY <1>3, <2>1
  <2>3. /\ lookup.generation \in Nat /\ lookup'.generation \in Nat
        /\ job[y].generation \in Nat /\ job[y].generation <= lookup.generation
    BY <2>2 DEF TypeInv, LookupType, JobType, Threads
  <2>4. CASE lookup' = lookup
    BY <2>2, <2>4 DEF Current
  <2>5. CASE job'[y].pc \notin Holding
    BY <2>2, <2>3, <2>5 DEF Current, Holding
  <2> QED
    BY <2>2, <2>4, <2>5
<1> QED
  BY <1>1, <1>2, <1>4, <1>5, <1>6, <1>7, <1>8

\* The primitives that leave the threads alone do nothing wrong when they do not
\* lower the generation, and have the mutex for what they change.
LEMMA QuietPrimitive ==
    ASSUME ResolverIInv, InImage, UNCHANGED <<job, guard, signal>>,
           loaded' = loaded, vm' \in {"image", "preparing"},
           used' = UsedHere, NEW l \in LookupType, lookup' = l, l.pid = "own",
           l.generation >= lookup.generation,
           lookup.pid = "own" => lookup' = lookup \/ CanLock,
           lookup.pid = "own" =>
               \/ l.generation > lookup.generation
               \/ /\ l.generation = lookup.generation
                  /\ l.busy = lookup.busy /\ l.wanted = lookup.wanted,
           ~l.busy /\ l.error = "none" => l.answer = l.wanted
    PROVE  ResolverIInv'
<1>1. \A y \in Jobs : job'[y].pc # "none" => loaded' /\ y \in used'
  BY JoinedFacts DEF InImage
<1>2. lookup.pid = "own" => lookup' = lookup \/ \A y \in Jobs : job'[y].pc \notin Holding
  <2>1. lookup.pid = "own" => Here.mutex = lookup.mutex
    BY DEF Here, ForkCheck, ResolverIInv, TypeInv, LookupType
  <2> QED
    BY <2>1 DEF CanLock, ResolverIInv, Locking
<1>3. used' \in SUBSET Slots /\ job' \in [Jobs -> JobType] /\ loaded' \in BOOLEAN
  BY JoinedFacts DEF ResolverIInv, TypeInv
<1>4. ResultIsOfLastLookup'
  BY DEF ResultIsOfLastLookup
<1> QED
  BY <1>1, <1>2, <1>3, <1>4, PrimitiveKeeps

\* Here, as the primitives that change little of it use it.
LEMMA HereOwn ==
    ASSUME ResolverIInv
    PROVE  /\ Here \in LookupType /\ Here.pid = "own"
           /\ lookup.generation \in Nat /\ Here.generation \in Nat
           /\ Here.generation >= lookup.generation
           /\ lookup.pid = "own" => Here = lookup
           /\ ~Here.busy /\ Here.error = "none" => Here.answer = Here.wanted
<1>1. lookup \in LookupType /\ Here \in LookupType
  BY HereFacts DEF ResolverIInv, TypeInv
<1>2. lookup.generation \in Nat /\ Here.generation \in Nat
  BY <1>1 DEF LookupType
<1>3. lookup.pid # "parent" => Here.generation = lookup.generation
  BY <1>1, HereFacts DEF ResolverIInv, LookupType
<1>4. lookup.pid = "own" => Here = lookup
  BY <1>1, HereFacts DEF ResolverIInv, LookupType
<1> QED
  BY <1>1, <1>2, <1>3, <1>4, HereFacts DEF ResolverIInv

\* A session that starts finds the lookups as they were.
LEMMA NetworkInitKeeps ==
    ASSUME ResolverIInv, NEW s \in Semas, SqNetworkInit(s) PROVE ResolverIInv'
<1> DEFINE l == [Here EXCEPT !.session = TRUE, !.sema = s]
<1>1. /\ l \in LookupType /\ l.pid = "own" /\ l.generation = Here.generation
      /\ l.busy = Here.busy /\ l.wanted = Here.wanted
      /\ l.error = Here.error /\ l.answer = Here.answer
  BY HereOwn DEF LookupType
<1>2. lookup' = l /\ CanLock /\ InImage /\ used' = UsedHere
      /\ UNCHANGED <<loaded, vm, guard, job, signal>> /\ vm = "image"
  BY DEF SqNetworkInit, InImage
<1> HIDE DEF l
<1> QED
  BY <1>1, <1>2, HereOwn, QuietPrimitive

\* What a shut down session leaves.
LEMMA ShutDownFacts ==
    ASSUME ResolverIInv
    PROVE  /\ ShutDown(Here) \in LookupType /\ ShutDown(Here).pid = "own"
           /\ ShutDown(Here).generation > lookup.generation
           /\ ~ShutDown(Here).busy
           /\ ShutDown(Here).error = "none" =>
                  ShutDown(Here).answer = ShutDown(Here).wanted
           /\ AbandonLookup(Here) \in LookupType /\ AbandonLookup(Here).pid = "own"
           /\ AbandonLookup(Here).generation > lookup.generation
           /\ ~AbandonLookup(Here).busy
           /\ AbandonLookup(Here).error = "none" =>
                  AbandonLookup(Here).answer = AbandonLookup(Here).wanted
<1> DEFINE a == AbandonLookup(Here)
           l == [a EXCEPT !.session = FALSE, !.sema = 0]
<1>1. /\ a \in LookupType /\ a.pid = "own" /\ ~a.busy
      /\ a.generation = Here.generation + 1
      /\ a.error = "none" => a.answer = a.wanted
  BY HereOwn, AbandonFacts
<1>2. a.generation > lookup.generation
  BY <1>1, HereOwn
<1> HIDE DEF a
<1>3. /\ l \in LookupType /\ l.pid = a.pid /\ l.busy = a.busy
      /\ l.generation = a.generation /\ l.error = a.error
      /\ l.answer = a.answer /\ l.wanted = a.wanted
  BY <1>1 DEF LookupType
<1>4. ShutDown(Here) = l
  BY DEF ShutDown, a
<1> HIDE DEF l
<1> QED
  BY <1>1, <1>2, <1>3, <1>4 DEF a

\* A session that ends gives the last lookup up.
LEMMA NetworkShutdownKeeps == ASSUME ResolverIInv, SqNetworkShutdown PROVE ResolverIInv'
<1> DEFINE l == ShutDown(Here)
<1>1. lookup' = l /\ CanLock /\ InImage /\ used' = UsedHere
      /\ UNCHANGED <<loaded, vm, guard, job, signal>> /\ vm = "image"
  BY DEF SqNetworkShutdown, InImage
<1>2. l.generation \in Nat /\ lookup.generation \in Nat
  BY HereOwn, ShutDownFacts DEF LookupType
<1>3. l.generation >= lookup.generation
  BY <1>2, ShutDownFacts
<1> QED
  BY <1>1, <1>3, ShutDownFacts, QuietPrimitive

\* An abort gives the last lookup up.
LEMMA ResolverAbortKeeps == ASSUME ResolverIInv, ResolverAbort PROVE ResolverIInv'
<1> DEFINE l == AbandonLookup(Here)
<1>1. lookup' = l /\ CanLock /\ InImage /\ used' = UsedHere
      /\ UNCHANGED <<loaded, vm, guard, job, signal>> /\ vm = "image"
  BY DEF ResolverAbort, InImage
<1>2. l.generation \in Nat /\ lookup.generation \in Nat
  BY HereOwn, ShutDownFacts DEF LookupType
<1>3. l.generation >= lookup.generation
  BY <1>2, ShutDownFacts
<1> QED
  BY <1>1, <1>3, ShutDownFacts, QuietPrimitive

\* The accessors only make the variables the process's own.
LEMMA ResolverStatusKeeps == ASSUME ResolverIInv, ResolverStatus PROVE ResolverIInv'
<1>1. lookup' = Here /\ InImage /\ used' = UsedHere
      /\ UNCHANGED <<loaded, vm, guard, job, signal>> /\ vm = "image"
  BY DEF ResolverStatus, InImage
<1> QED
  BY <1>1, HereOwn, QuietPrimitive

\* A lookup begun is a new one, and the image waits for it.
LEMMA BeginFacts ==
    ASSUME NEW l \in LookupType
    PROVE  /\ BeginLookup(l) \in LookupType
           /\ BeginLookup(l).generation = l.generation + 1
           /\ BeginLookup(l).wanted = l.generation + 1 /\ BeginLookup(l).busy
           /\ BeginLookup(l).pid = l.pid
<1> DEFINE n == l.generation + 1
           started == [l EXCEPT !.error = "none", !.busy = TRUE]
           begun == [started EXCEPT !.generation = n, !.wanted = n]
<1>1. n \in Nat
  <2>1. l.generation \in Nat
    BY DEF LookupType
  <2> QED
    BY <2>1
<1> HIDE DEF n
<1>2. started \in LookupType /\ started.busy /\ started.pid = l.pid
      /\ started.generation = l.generation
  BY DEF LookupType, Errors
<1>3. BeginLookup(l) = begun
  BY <1>2 DEF BeginLookup, n, LookupType
<1> HIDE DEF started
<1>4. begun \in LookupType /\ begun.generation = n /\ begun.wanted = n
      /\ begun.busy = started.busy /\ begun.pid = started.pid
  BY <1>1, <1>2 DEF LookupType
<1> HIDE DEF begun
<1> QED
  BY <1>2, <1>3, <1>4 DEF n

\* A lookup that starts does so on an entry no thread has, under a generation no
\* thread has, while none is in finishLookup.
LEMMA StartLookupKeeps == ASSUME ResolverIInv, StartLookup PROVE ResolverIInv'
<1> USE DEF ResolverIInv
<1> DEFINE busy == UsedHere \ Finished
           g == lookup'.generation
<1>1. InImage /\ CanLock /\ loaded /\ job[0].pc = "none" /\ vm = "image"
      /\ lookup' = BeginLookup(Here) /\ UNCHANGED <<loaded, vm, signal>>
  BY DEF StartLookup, InImage
<1>2. /\ lookup' \in LookupType /\ lookup'.pid = "own" /\ lookup'.busy
      /\ g \in Nat /\ lookup.generation \in Nat /\ g > lookup.generation
      /\ lookup'.wanted = g
  BY <1>1, HereOwn, BeginFacts DEF LookupType
<1>3. guard' \in GuardType /\ guard'.running = guard.running
  <2>1. PICK i \in {"not yet", "yes", "no"} : guard' = [guard EXCEPT !.installed = i]
    BY DEF StartLookup, TypeInv, GuardType
  <2>2. guard \in GuardType
    BY DEF TypeInv
  <2> QED
    BY <2>1, <2>2 DEF GuardType
<1>4. PICK x \in Jobs, pc \in {"created", "looking"} :
         /\ RunOn(x, pc) /\ x \notin busy
         /\ x = 0 <=> pc = "looking"
         /\ used' = busy \cup ({x} \ {0})
  <2>1. 0 \notin busy /\ 0 \in Jobs /\ Slots \subseteq Jobs /\ 0 \notin Slots
    BY <1>1, SlotFacts, JoinedFacts DEF Jobs
  <2>2. CASE \E x \in Slots \ busy : RunOn(x, "created") /\ used' = busy \cup {x}
    BY <2>1, <2>2
  <2>3. CASE RunOn(0, "looking") /\ used' = busy
    BY <2>1, <2>3
  <2> QED
    BY <2>2, <2>3 DEF StartLookup
<1> DEFINE j == [NoJob EXCEPT !.pc = pc, !.generation = g]
<1>5. j \in JobType /\ j.pc = pc /\ j.generation = g
  BY <1>2 DEF NoJob, JobType, Pcs, Errors
<1>6. job' = [Joined EXCEPT ![x] = j]
  BY <1>4 DEF RunOn
<1> HIDE DEF j, busy, g
<1>7. Joined[x].pc = "none" /\ job[x].pc \in {"none", "returned"}
  BY <1>1, <1>4, JoinedFacts DEF busy, Jobs
<1>8. /\ job' \in [Jobs -> JobType] /\ job'[x] = j
      /\ \A y \in Jobs : y # x => job'[y] = Joined[y]
  BY <1>1, <1>5, <1>6, JoinedFacts
<1>9. \A y \in Jobs : y # x /\ job'[y].pc # "none" =>
          job'[y] = job[y] /\ ResolverLive(y) /\ lookup.pid = "own" /\ y \in busy
  BY <1>1, <1>8, JoinedFacts, JobFacts DEF ResolverLive, busy
<1>10. \A y \in Jobs : y # x /\ job'[y].pc # "none" =>
          job[y].generation \in Nat /\ job[y].generation <= lookup.generation
  BY <1>9 DEF Threads, TypeInv, JobType
<1>11. TypeInv'
  BY <1>1, <1>2, <1>3, <1>4, <1>8, JoinedFacts DEF TypeInv, Jobs, busy
<1>12. Counting'
  <2>1. Counted' = Counted
    <3>1. job'[x].pc \in {"looking", "found", "unlocked"} \cup Holding => x \notin Slots
      BY <1>4, <1>5, <1>8, SlotFacts DEF Holding
    <3>2. x \notin Counted /\ x \notin Counted'
      BY <1>7, <3>1 DEF Counted, Holding
    <3>3. \A y \in Slots : y # x => (y \in Counted <=> y \in Counted')
      BY <1>1, <1>8, JoinedFacts, JobFacts DEF Counted, Jobs, Holding
    <3> QED
      BY <3>2, <3>3 DEF Counted
  <2> QED
    BY <1>3, <2>1 DEF Counting
<1>13. Inline'
  BY <1>1, <1>4, <1>5, <1>8, JoinedFacts DEF Inline, Jobs, Holding
<1>14. Threads'
  BY <1>1, <1>2, <1>4, <1>5, <1>8, <1>9, <1>10 DEF Threads, ResolverLive, Jobs, g
<1>15. OneGeneration'
  BY <1>2, <1>5, <1>8, <1>9, <1>10 DEF OneGeneration, ResolverLive
<1>16. \A y \in Jobs : job'[y].pc \notin Holding
  <2>1. lookup.pid = "own" => ~lookup.mutex
    BY <1>1, HereOwn DEF CanLock
  <2>2. \A y \in Jobs : y # x => job'[y].pc \notin Holding
    BY <1>9, <2>1 DEF Locking, Holding
  <2> QED
    BY <1>4, <1>5, <1>8, <2>2 DEF Holding
<1>17. Locking' /\ Current'
  BY <1>2, <1>9, <1>10, <1>16 DEF Locking, Current, Holding, Pending, g
<1> QED
  BY <1>2, <1>11, <1>12, <1>13, <1>14, <1>15, <1>17 DEF ResultIsOfLastLookup

\* The module is unmapped when the last thread was joined, and not before.
LEMMA SocketShutdownKeeps == ASSUME ResolverIInv, SocketShutdown PROVE ResolverIInv'
<1>1. /\ InImage /\ loaded /\ vm = "image" /\ job' = Joined /\ used' = UsedHere \ Finished
      /\ UNCHANGED <<vm, guard, signal>>
  BY DEF SocketShutdown, InImage
<1>2. /\ job' \in [Jobs -> JobType] /\ used' \in SUBSET Slots
      /\ \A y \in Jobs :
             job'[y] = job[y] \/ (job[y].pc = "returned" /\ job'[y] = NoJob)
      /\ \A y \in Jobs : job'[y].pc # "none" => y \in used'
  BY <1>1, JoinedFacts
<1>3. CASE Quiescent
  <2>1. loaded' = FALSE /\ lookup' = ShutDown(Here)
    BY <1>3 DEF SocketShutdown
  <2>2. \A y \in Jobs : job'[y].pc = "none"
    BY <1>1, <1>2, <1>3 DEF Quiescent
  <2>3. lookup'.generation \in Nat /\ lookup.generation \in Nat
    BY <2>1, HereOwn, ShutDownFacts DEF LookupType
  <2>4. lookup'.generation >= lookup.generation
    BY <2>1, <2>3, ShutDownFacts
  <2>5. ResultIsOfLastLookup'
    BY <2>1, ShutDownFacts DEF ResultIsOfLastLookup
  <2>6. \A y \in Jobs : job'[y].pc \notin Holding
    BY <2>2 DEF Holding
  <2> QED
    BY <1>1, <1>2, <2>1, <2>2, <2>4, <2>5, <2>6, ShutDownFacts, PrimitiveKeeps
<1>4. CASE ~Quiescent
  <2>1. loaded' = loaded /\ lookup' = Here
    BY <1>4 DEF SocketShutdown
  <2>2. ResultIsOfLastLookup'
    BY <2>1, HereOwn DEF ResultIsOfLastLookup
  <2> QED
    BY <1>1, <1>2, <2>1, <2>2, HereOwn, PrimitiveKeeps
<1> QED
  BY <1>3, <1>4

----------------------------------------------------------------------------
(* fork().                                                                  *)

\* A step that only moves the VM thread and the fork guard's mutex.
LEMMA ForkParentKeeps ==
    ASSUME ResolverIInv, Fork \/ ForkGuardPrepare \/ ForkGuardParent
    PROVE  ResolverIInv'
<1> USE DEF ResolverIInv
<1>1. UNCHANGED <<loaded, lookup, job, used, signal>>
      /\ vm' \in {"image", "preparing", "forking"}
  BY DEF Fork, ForkGuardPrepare, ForkGuardParent
<1>2. guard' \in GuardType /\ guard'.running = guard.running
  <2>1. guard \in GuardType
    BY DEF TypeInv
  <2>2. guard' = guard \/ \E b \in BOOLEAN : guard' = [guard EXCEPT !.mutex = b]
    BY DEF Fork, ForkGuardPrepare, ForkGuardParent
  <2> QED
    BY <2>1, <2>2 DEF GuardType
<1>3. TypeInv'
  BY <1>1, <1>2 DEF TypeInv
<1>4. Counting'
  BY <1>1, <1>2 DEF Counting, Counted
<1> QED
  BY <1>1, <1>3, <1>4
     DEF Inline, Threads, OneGeneration, Locking, Current, ResolverLive, ResultIsOfLastLookup

\* The child starts without threads, and without their marks.
LEMMA ForkGuardChildKeeps == ASSUME ResolverIInv, ForkGuardChild PROVE ResolverIInv'
<1> USE DEF ResolverIInv
<1>1. /\ job' \in [Jobs -> JobType] /\ \A y \in Jobs : job'[y] = NoJob
      /\ 0 \in Jobs /\ Slots \subseteq Jobs
  BY JobFacts DEF ForkGuardChild, TypeInv, Jobs
<1>2. guard' \in GuardType /\ guard'.running = 0
  BY DEF ForkGuardChild, TypeInv, GuardType
<1>3. /\ lookup' \in LookupType /\ lookup'.busy = lookup.busy
      /\ lookup'.error = lookup.error /\ lookup'.answer = lookup.answer
      /\ lookup'.wanted = lookup.wanted
  <2>1. PICK p \in {"none", "own", "parent"} : lookup' = [lookup EXCEPT !.pid = p]
    BY DEF ForkGuardChild, TypeInv, LookupType
  <2>2. lookup \in LookupType
    BY DEF TypeInv
  <2> QED
    BY <2>1, <2>2 DEF LookupType
<1>4. TypeInv'
  BY <1>1, <1>2, <1>3 DEF TypeInv, ForkGuardChild
<1>5. Counting'
  <2>1. Counted' = {}
    BY <1>1, JobFacts DEF Counted, Holding
  <2> QED
    BY <1>2, <2>1, FS_EmptySet DEF Counting
<1>6. Inline' /\ Threads' /\ OneGeneration' /\ Locking' /\ Current'
  BY <1>1, JobFacts DEF Inline, Threads, OneGeneration, Locking, Current, ResolverLive, Holding, Pending
<1> QED
  BY <1>3, <1>4, <1>5, <1>6 DEF ResultIsOfLastLookup

----------------------------------------------------------------------------
(* The theorems.                                                            *)

\* Every step keeps the invariant.
LEMMA InvStep == ResolverIInv /\ [ResolverNext]_resolverVars => ResolverIInv'
<1> SUFFICES ASSUME ResolverIInv, [ResolverNext]_resolverVars PROVE ResolverIInv'
  OBVIOUS
<1>1. CASE UNCHANGED resolverVars
  BY <1>1 DEF resolverVars, ResolverIInv, TypeInv, Counting, Counted, Inline, Threads, OneGeneration,
              Locking, Current, ResolverLive, ResultIsOfLastLookup
<1>2. CASE \E s \in Semas : SqNetworkInit(s)
  BY <1>2, NetworkInitKeeps
<1>3. CASE \E x \in Slots \cup {0} : LookupStep(x)
  BY <1>3, LookupStepKeeps DEF Jobs
<1>4. CASE Fork \/ ForkStep
  BY <1>4, ForkParentKeeps, ForkGuardChildKeeps DEF ForkStep
<1> QED
  BY <1>1, <1>2, <1>3, <1>4, NetworkShutdownKeeps, ResolverAbortKeeps, ResolverStatusKeeps,
     StartLookupKeeps, SocketShutdownKeeps DEF ResolverNext

\* The invariant holds in every state.
THEOREM ResolverInvariance == ResolverSpec => []ResolverIInv
<1> QED
  BY InvInit, InvStep, PTL DEF ResolverSpec

\* The resolver's variables keep their types; above all, lookupsRunning never
\* falls below zero.
THEOREM ResolverTypeCorrect == ResolverSpec => []ResolverTypeOK
<1>1. ResolverIInv => ResolverTypeOK
  BY TypeFollows DEF ResolverIInv
<1> QED
  BY ResolverInvariance, <1>1, PTL

\* Whatever is superseded, aborted, shut down or forked, a success answered by
\* sqResolverStatus is the result of the last lookup begun.
THEOREM AnswersAreCurrent == ResolverSpec => []ResultIsOfLastLookup
<1>1. ResolverIInv => ResultIsOfLastLookup
  BY DEF ResolverIInv
<1> QED
  BY ResolverInvariance, <1>1, PTL

\* The module's code is never unmapped under a thread (socketShutdown).
THEOREM UnloadIsSafe == ResolverSpec => []NoCodeUnmapped
<1>1. ResolverIInv => NoCodeUnmapped
  BY DEF ResolverIInv, Threads, ResolverLive, NoCodeUnmapped, Jobs
<1> QED
  BY ResolverInvariance, <1>1, PTL

\* The only signal is that of a thread in finishLookup, which finds the session
\* and the lookup that it was started for.
THEOREM SignalsAreCurrent == ResolverSpec => SignalsFindTheirSession
<1> DEFINE told == signal' # signal => /\ signal'.sema = lookup.sema
                                       /\ signal'.generation = lookup.generation
<1>1. ResolverIInv /\ [ResolverNext]_resolverVars => [told]_resolverVars
  <2> SUFFICES ASSUME ResolverIInv, [ResolverNext]_resolverVars, signal' # signal PROVE told
    BY DEF resolverVars
  <2>1. PICK x \in Jobs : Tell(x)
    BY DEF resolverVars, ResolverNext, SqNetworkInit, SqNetworkShutdown, ResolverAbort, ResolverStatus,
           StartLookup, SocketShutdown, LookupStep, Count, RunLookup, LockAnswer,
           StoreAnswer, ClearBusy, UnlockAnswer, Uncount, Return, Fork, ForkStep,
           ForkGuardPrepare, ForkGuardParent, ForkGuardChild, Jobs
  <2>2. job[x].sema = lookup.sema /\ job[x].generation = lookup.generation
    BY <2>1 DEF ResolverIInv, Current, Tell, At
  <2> QED
    BY <2>1, <2>2 DEF Tell
<1> QED
  BY ResolverInvariance, <1>1, PTL DEF ResolverSpec, SignalsFindTheirSession
==============================================================================
