----------------------------- MODULE TSQueueProofs -----------------------------
(***************************************************************************)
(* Proofs about TSQueue, for any threads, nodes and elements and any       *)
(* number of puts.                                                         *)
(*                                                                         *)
(* The inductive invariant says that there is a sequence of nodes which    *)
(* first, last and the next pointers represent.  TSQueue walks the list    *)
(* with the recursive function At; that the walk visits that sequence is   *)
(* shown by looking at the first place where it would not.                 *)
(***************************************************************************)
EXTENDS TSQueue, TLAPS, FiniteSetTheorems

N == Cardinality(Nodes)

Injective(q) == \A i, j \in 1 .. Len(q) : q[i] = q[j] => i = j
Members(q) == {q[i] : i \in 1 .. Len(q)}

\* first, last and next represent the nodes q, in this order.
IsList(q) ==
    /\ q \in Seq(Nodes)
    /\ Injective(q)
    /\ first = IF q = <<>> THEN NULL ELSE q[1]
    /\ last = IF q = <<>> THEN NULL ELSE q[Len(q)]
    /\ \A i \in 1 .. Len(q) : next[q[i]] = IF i = Len(q) THEN NULL ELSE q[i + 1]

\* What is between taking queue->mutex and giving it back.
Critical == {"link", "unlockPut", "takeFirst", "advance", "unlockTake", "firstNode", "count"}

MutexInv ==
    \A t \in Threads : pc[t] \in Critical =>
        /\ mutex = 0
        /\ \A u \in Threads : pc[u] \in Critical => u = t

\* A thread at one of these has a node of its own: one it will link, or one it took.
Private == {"lockPut", "link", "unlockTake", "freeNode"}

NodeInv(q) ==
    \A t \in Threads :
        /\ pc[t] \in Private =>
              /\ node[t] \notin Members(q) \cup free
              /\ \A u \in Threads :
                    pc[u] \in Private /\ node[u] = node[t] => u = t \/ node[t] = NULL
        /\ pc[t] \in {"lockPut", "link"} =>
              node[t] # NULL /\ next[node[t]] = NULL /\ element[node[t]] \in Elements
        /\ blocking /\ pc[t] \in {"unlockTake", "freeNode"} => node[t] # NULL
        /\ pc[t] = "advance" => q # <<>> /\ node[t] = q[1]
        /\ pc[t] \notin Private \cup {"advance", "count"} => node[t] = NULL

CountInv(q) ==
    \A c \in Threads :
        pc[c] = "count" =>
            /\ c \in Consumers
            /\ size[c] <= Len(q)
            /\ node[c] = IF size[c] < Len(q) THEN q[size[c] + 1] ELSE NULL

\* The threads whose next step is one of A.
ThreadsAt(f, A) == {t \in Threads : f[t] \in A}

Putting    == {"lockPut", "link", "unlockPut", "signal"}
Signalling == {"unlockPut", "signal"}
Taking     == {"lockTake", "takeFirst", "advance"}

\* Every element in the list has been signalled, is going to be, or belongs to a
\* consumer which has waited for it and has not yet taken it.
SemaphoreInv(q) ==
    /\ \A A \in {Putting, Signalling, Taking} : IsFiniteSet(ThreadsAt(pc, A))
    /\ semaphore + Cardinality(ThreadsAt(pc, Putting)) <= puts
    /\ blocking => Len(q) = semaphore + Cardinality(ThreadsAt(pc, Signalling))
                                      + Cardinality(ThreadsAt(pc, Taking))

Typing ==
    /\ blocking \in BOOLEAN
    /\ first \in Pointers /\ last \in Pointers
    /\ next \in [Nodes -> Pointers]
    /\ element \in [Nodes -> Elements \cup {NULL}]
    /\ free \subseteq Nodes
    /\ mutex \in {0, 1}
    /\ semaphore \in Nat
    /\ pc \in [Threads -> PCs]
    /\ node \in [Threads -> Pointers]
    /\ size \in [Consumers -> 0 .. N]
    /\ puts \in 0 .. MaxPuts

Inv(q) ==
    /\ Typing /\ MutexInv
    /\ IsList(q) /\ Members(q) \cap free = {}
    /\ NodeInv(q) /\ CountInv(q) /\ SemaphoreInv(q)

IInv == \E q : Inv(q)

-------------------------------------------------------------------------------
(***************************************************************************)
(* Data.                                                                   *)
(***************************************************************************)
\* Among natural numbers there is a smallest.
LEMMA Smallest ==
    ASSUME NEW T, T \subseteq Nat, T # {}
    PROVE  \E x \in T : \A y \in T : x <= y
<1> DEFINE Below(n) == 0 .. n
           R == StrictSubsetOrdering(Nat)
           U == {Below(n) : n \in T}
<1>1. U \subseteq FiniteSubsetsOf(Nat) /\ U # {}
  <2>1. ASSUME NEW n \in T PROVE Below(n) \in FiniteSubsetsOf(Nat)
    <3>1. IsFiniteSet(Below(n))
      BY FS_Interval
    <3>2. Below(n) \in SUBSET Nat
      OBVIOUS
    <3> HIDE DEF Below
    <3> QED
      BY <3>1, <3>2 DEF FiniteSubsetsOf
  <2> QED
    BY <2>1
<1>2. IsWellFoundedOn(R, FiniteSubsetsOf(Nat))
  BY FS_StrictSubsetOrderingWellFounded
<1> HIDE DEF R, U
<1>3. PICK s \in U : \A u \in U : <<u, s>> \notin R
  BY <1>1, <1>2, WFMin, Zenon
<1>4. PICK x \in T : s = 0 .. x
  BY <1>3 DEF U
<1>5. ASSUME NEW y \in T PROVE x <= y
  <2>1. <<0 .. y, 0 .. x>> \notin R
    BY <1>3, <1>4 DEF U
  <2>2. 0 .. y \in SUBSET Nat /\ 0 .. x \in SUBSET Nat
    OBVIOUS
  <2>3. ~ (0 .. y \subseteq 0 .. x) \/ 0 .. y = 0 .. x
    BY <2>1, <2>2 DEF R, StrictSubsetOrdering
  <2>4. x \in Nat /\ y \in Nat
    OBVIOUS
  <2> QED
    BY <2>3, <2>4
<1> QED
  BY <1>5

LEMMA NodesAreFinite == N \in Nat
BY FS_CardinalityType, ConstantsAssumption DEF N

\* A list without repetition is not longer than there are nodes.
LEMMA ListFits ==
    ASSUME NEW q \in Seq(Nodes), Injective(q)
    PROVE  Len(q) <= N
<1>1. q \in Injection(1 .. Len(q), Nodes)
  BY DEF Injective, Injection, IsInjective
<1>2. Cardinality(1 .. Len(q)) <= N
  BY <1>1, FS_Injection, ConstantsAssumption DEF N
<1>3. Cardinality(1 .. Len(q)) = Len(q)
  <2>1. 1 \in Int /\ Len(q) \in Int /\ Len(q) >= 0
    OBVIOUS
  <2>2. Cardinality(1 .. Len(q)) = IF 1 > Len(q) THEN 0 ELSE Len(q) - 1 + 1
    BY <2>1, FS_Interval
  <2> QED
    BY <2>1, <2>2
<1> QED
  BY <1>2, <1>3

\* How the number of threads at some steps changes when one of them goes on.
CountMoves(f, g, A, from, to) ==
    /\ IsFiniteSet(ThreadsAt(g, A))
    /\ Cardinality(ThreadsAt(f, A)) \in Nat /\ Cardinality(ThreadsAt(g, A)) \in Nat
    /\ (from \in A <=> to \in A)
         => Cardinality(ThreadsAt(g, A)) = Cardinality(ThreadsAt(f, A))
    /\ from \notin A /\ to \in A
         => Cardinality(ThreadsAt(g, A)) = Cardinality(ThreadsAt(f, A)) + 1
    /\ from \in A /\ to \notin A
         => Cardinality(ThreadsAt(g, A)) = Cardinality(ThreadsAt(f, A)) - 1

LEMMA OneMoves ==
    ASSUME NEW f \in [Threads -> PCs], NEW t \in Threads, NEW to,
           NEW g, g = [f EXCEPT ![t] = to], NEW A, IsFiniteSet(ThreadsAt(f, A))
    PROVE  CountMoves(f, g, A, f[t], to)
<1> USE DEF CountMoves
<1> DEFINE S == ThreadsAt(f, A)
<1>0. /\ \A u \in Threads : u # t => g[u] = f[u]
      /\ Cardinality(S) \in Nat
  BY FS_CardinalityType
<1>1. CASE f[t] \in A <=> to \in A
  <2>1. ThreadsAt(g, A) = S
    BY <1>0, <1>1 DEF ThreadsAt
  <2> QED
    BY <1>1, <2>1, FS_CardinalityType
<1>2. CASE f[t] \notin A /\ to \in A
  <2>1. ThreadsAt(g, A) = S \cup {t} /\ t \notin S
    BY <1>0, <1>2 DEF ThreadsAt
  <2>2. /\ IsFiniteSet(S \cup {t})
        /\ Cardinality(S \cup {t}) = Cardinality(S) + 1
    BY <2>1, FS_AddElement
  <2>3. Cardinality(S \cup {t}) \in Nat
    BY <2>2, FS_CardinalityType
  <2> QED
    BY <1>2, <1>0, <2>1, <2>2, <2>3
<1>3. CASE f[t] \in A /\ to \notin A
  <2>1. ThreadsAt(g, A) = S \ {t} /\ t \in S
    BY <1>0, <1>3 DEF ThreadsAt
  <2>2. /\ IsFiniteSet(S \ {t})
        /\ Cardinality(S \ {t}) = Cardinality(S) - 1
    BY <2>1, FS_RemoveElement
  <2>3. Cardinality(S \ {t}) \in Nat
    BY <2>2, FS_CardinalityType
  <2> QED
    BY <1>3, <1>0, <2>1, <2>2, <2>3
<1> QED
  BY <1>1, <1>2, <1>3

\* The walk of At visits the nodes of the list in their order, and then NULL.
LEMMA Walk ==
    ASSUME NEW q, IsList(q)
    PROVE  At = [k \in 0 .. N |-> IF k < Len(q) THEN q[k + 1] ELSE NULL]
<1> DEFINE W == [k \in 0 .. N |-> IF k < Len(q) THEN q[k + 1] ELSE NULL]
           F(f) == [k \in 0 .. N |->
                      IF k = 0 THEN first
                      ELSE IF f[k - 1] = NULL THEN NULL ELSE next[f[k - 1]]]
<1>1. q \in Seq(Nodes) /\ NULL \notin Nodes /\ N \in Nat
  BY NodesAreFinite, ConstantsAssumption DEF IsList
<1>2. W = F(W)
  <2>1. ASSUME NEW k \in 0 .. N PROVE W[k] = F(W)[k]
    <3>1. CASE k = 0
      BY <1>1, <3>1 DEF IsList
    <3>2. CASE k # 0 /\ k - 1 < Len(q)
      <4>1. W[k - 1] = q[k] /\ k \in 1 .. Len(q) /\ q[k] # NULL
        BY <1>1, <3>2
      <4>2. next[q[k]] = IF k = Len(q) THEN NULL ELSE q[k + 1]
        BY <4>1 DEF IsList
      <4> QED
        BY <1>1, <3>2, <4>1, <4>2
    <3>3. CASE k # 0 /\ k - 1 >= Len(q)
      BY <1>1, <3>3
    <3> QED
      BY <1>1, <3>1, <3>2, <3>3
  <2> QED
    BY <2>1
<1>3. At = F(At)
  <2>1. \E f : f = F(f)
    BY <1>2
  <2> QED
    BY <2>1 DEF At, N
<1> DEFINE T == {k \in 0 .. N : At[k] # W[k]}
<1>4. ASSUME NEW x \in T, \A y \in T : x <= y PROVE FALSE
  <2>1. x \in 0 .. N /\ At[x] # W[x]
    BY <1>4
  <2>2. CASE x = 0
    <3>1. At[x] = F(At)[x] /\ W[x] = F(W)[x]
      BY <1>2, <1>3
    <3> QED
      BY <2>1, <2>2, <3>1
  <2>3. CASE x # 0
    <3>1. x - 1 \in 0 .. N /\ ~(x <= x - 1)
      BY <1>1, <2>1, <2>3
    <3>2. At[x - 1] = W[x - 1]
      BY <1>4, <3>1
    <3>3. At[x] = F(At)[x] /\ W[x] = F(W)[x]
      BY <1>2, <1>3
    <3> HIDE DEF W, T
    <3> QED
      BY <2>1, <2>3, <3>1, <3>2, <3>3
  <2> QED
    BY <2>2, <2>3
<1>5. T = {}
  <2>1. T \subseteq Nat
    BY <1>1
  <2> HIDE DEF T
  <2> QED
    BY <1>4, <2>1, Smallest
<1>6. At = [k \in 0 .. N |-> At[k]]
  BY <1>3
<1> QED
  BY <1>5, <1>6
\* What TSQueue's properties say of the list, they say of its nodes.
LEMMA ListFacts ==
    \A q : IsList(q) =>
        /\ Linked = Members(q)
        /\ Length = Len(q)
        /\ Contents = [k \in 1 .. Len(q) |-> element[q[k]]]
<1> SUFFICES ASSUME NEW q, IsList(q)
             PROVE  /\ Linked = Members(q)
                    /\ Length = Len(q)
                    /\ Contents = [k \in 1 .. Len(q) |-> element[q[k]]]
  OBVIOUS
<1>1. /\ q \in Seq(Nodes) /\ NULL \notin Nodes /\ N \in Nat /\ Len(q) \in Nat
      /\ Len(q) <= N
  BY NodesAreFinite, ListFits, ConstantsAssumption DEF IsList
<1>2. /\ DOMAIN At = 0 .. N
      /\ \A k \in 0 .. N : At[k] = IF k < Len(q) THEN q[k + 1] ELSE NULL
  BY Walk
<1>3. \A i \in 1 .. Len(q) : i - 1 \in 0 .. N /\ At[i - 1] = q[i] /\ q[i] # NULL
  <2> SUFFICES ASSUME NEW i \in 1 .. Len(q)
               PROVE  i - 1 \in 0 .. N /\ At[i - 1] = q[i] /\ q[i] # NULL
    OBVIOUS
  <2>1. i - 1 \in 0 .. N /\ i - 1 < Len(q) /\ (i - 1) + 1 = i
    BY <1>1
  <2>2. At[i - 1] = q[i]
    BY <1>2, <2>1
  <2> QED
    BY <1>1, <2>1, <2>2
<1>4. Linked = Members(q)
  <2>1. ASSUME NEW n \in Linked PROVE n \in Members(q)
    <3>1. PICK k \in 0 .. N : At[k] = n /\ n # NULL
      BY <1>2, <2>1 DEF Linked
    <3>2. k < Len(q) /\ n = q[k + 1] /\ k + 1 \in 1 .. Len(q)
      BY <1>1, <1>2, <3>1
    <3> QED
      BY <3>2 DEF Members
  <2>2. ASSUME NEW n \in Members(q) PROVE n \in Linked
    <3>1. PICK i \in 1 .. Len(q) : n = q[i]
      BY DEF Members
    <3> QED
      BY <1>2, <1>3, <3>1 DEF Linked
  <2> QED
    BY <2>1, <2>2
<1>5. Length = Len(q)
  <2>1. {k \in DOMAIN At : At[k] # NULL} = 0 .. Len(q) - 1
    <3>1. ASSUME NEW k \in 0 .. N PROVE At[k] # NULL <=> k \in 0 .. Len(q) - 1
      <4>1. CASE k < Len(q)
        <5>1. k + 1 \in 1 .. Len(q) /\ At[k] = q[k + 1]
          BY <1>1, <1>2, <4>1
        <5> QED
          BY <1>1, <4>1, <5>1
      <4>2. CASE ~(k < Len(q))
        BY <1>1, <1>2, <4>2
      <4> QED
        BY <4>1, <4>2
    <3>2. 0 .. Len(q) - 1 \subseteq 0 .. N
      BY <1>1
    <3> QED
      BY <1>2, <3>1, <3>2
  <2> DEFINE b == Len(q) - 1
  <2>2. 0 \in Int /\ b \in Int
    BY <1>1
  <2> HIDE DEF b
  <2>3. Cardinality(0 .. b) = IF 0 > b THEN 0 ELSE b - 0 + 1
    BY <2>2, FS_Interval
  <2>4. Cardinality(0 .. b) = Len(q)
    BY <1>1, <2>3 DEF b
  <2> QED
    BY <2>1, <2>4 DEF Length, b
<1>6. Contents = [k \in 1 .. Len(q) |-> element[q[k]]]
  BY <1>3, <1>5 DEF Contents
<1> QED
  BY <1>4, <1>5, <1>6

-------------------------------------------------------------------------------
(***************************************************************************)
(* The invariant implies the properties, and holds at first.               *)
(***************************************************************************)
LEMMA InvTypeOK == IInv => TypeOK
<1> SUFFICES ASSUME NEW q, Inv(q) PROVE TypeOK
  BY DEF IInv
<1>1. Cardinality(ThreadsAt(pc, Putting)) \in Nat
  BY FS_CardinalityType DEF Inv, SemaphoreInv
<1>2. semaphore \in 0 .. MaxPuts
  BY <1>1, ConstantsAssumption DEF Inv, SemaphoreInv, Typing
<1> QED
  BY <1>2 DEF Inv, Typing, TypeOK, N

LEMMA InvOwner == IInv => NodesHaveOneOwner
<1> SUFFICES ASSUME NEW q, Inv(q) PROVE NodesHaveOneOwner
  BY DEF IInv
<1>1. TypeOK
  BY InvTypeOK DEF IInv
<1>2. Linked = Members(q)
  BY ListFacts DEF Inv
<1>3. \A c \in Consumers : \A n \in Owned(c) :
          /\ pc[c] = "freeNode" /\ n = node[c] /\ n # NULL
          /\ n \notin Members(q) \cup free
  BY DEF Owned, Inv, NodeInv, Private, Threads
<1>4. \A c, d \in Consumers : c # d => Owned(c) \cap Owned(d) = {}
  BY <1>3 DEF Inv, NodeInv, Private, Threads
<1>5. ASSUME NEW t \in Threads PROVE node[t] \notin free
  <2>1. NULL \notin free /\ Members(q) \cap free = {} /\ q \in Seq(Nodes)
    BY ConstantsAssumption DEF Inv, Typing, IsList
  <2>2. CASE pc[t] \in Private
    BY <2>2 DEF Inv, NodeInv
  <2>3. CASE pc[t] = "advance"
    <3>1. q # <<>> /\ node[t] = q[1]
      BY <2>3 DEF Inv, NodeInv
    <3>2. 1 \in 1 .. Len(q)
      BY <2>1, <3>1
    <3> QED
      BY <2>1, <3>1, <3>2 DEF Members
  <2>4. CASE pc[t] = "count"
    <3>1. size[t] \in Nat /\ node[t] = IF size[t] < Len(q) THEN q[size[t] + 1] ELSE NULL
      BY <2>4, NodesAreFinite DEF Inv, CountInv, Typing
    <3>2. size[t] < Len(q) => size[t] + 1 \in 1 .. Len(q)
      BY <2>1, <3>1
    <3> QED
      BY <2>1, <3>1, <3>2 DEF Members
  <2> QED
    BY <2>1, <2>2, <2>3, <2>4 DEF Inv, NodeInv
<1> QED
  BY <1>1, <1>2, <1>3, <1>4, <1>5 DEF NodesHaveOneOwner, Inv
LEMMA InvCount == IInv => CountExact
<1> SUFFICES ASSUME NEW q, Inv(q) PROVE CountExact
  BY DEF IInv
<1>1. q \in Seq(Nodes) /\ NULL \notin Nodes /\ Length = Len(q)
  BY ListFacts, ConstantsAssumption DEF Inv, IsList
<1>2. ASSUME NEW c \in Consumers, pc[c] = "count", node[c] = NULL PROVE size[c] = Length
  <2>1. size[c] \in Nat /\ size[c] <= Len(q)
    BY <1>2, NodesAreFinite DEF Inv, Typing, CountInv, Threads
  <2>2. size[c] < Len(q) => node[c] = q[size[c] + 1] /\ size[c] + 1 \in 1 .. Len(q)
    BY <1>1, <1>2, <2>1 DEF Inv, CountInv, Threads
  <2> QED
    BY <1>1, <1>2, <2>1, <2>2
<1>3. ASSUME NEW c \in Consumers, blocking, pc[c] = "freeNode" PROVE node[c] # NULL
  BY <1>3 DEF Inv, NodeInv, Threads
<1> QED
  BY <1>2, <1>3 DEF CountExact

LEMMA InvInit == Init => Inv(<<>>)
<1> SUFFICES ASSUME Init PROVE Inv(<<>>)
  OBVIOUS
<1>1. Typing
  BY NodesAreFinite, ConstantsAssumption DEF Init, Typing, Pointers, PCs
<1>2. MutexInv
  BY DEF Init, MutexInv, Critical
<1>3. IsList(<<>>) /\ Members(<<>>) = {}
  BY DEF Init, IsList, Injective, Members
<1>4. NodeInv(<<>>) /\ CountInv(<<>>)
  BY DEF Init, NodeInv, CountInv, Private
<1>5. SemaphoreInv(<<>>)
  <2>1. \A A \in {Putting, Signalling, Taking} : ThreadsAt(pc, A) = {}
    BY DEF Init, ThreadsAt, Putting, Signalling, Taking
  <2>2. \A A \in {Putting, Signalling, Taking} :
            IsFiniteSet(ThreadsAt(pc, A)) /\ Cardinality(ThreadsAt(pc, A)) = 0
    BY <2>1, FS_EmptySet
  <2>3. semaphore = 0 /\ puts = 0 /\ Len(<<>>) = 0
    BY DEF Init
  <2> QED
    BY <2>2, <2>3 DEF SemaphoreInv
<1> QED
  BY <1>1, <1>2, <1>3, <1>4, <1>5 DEF Inv

-------------------------------------------------------------------------------
(***************************************************************************)
(* Every step keeps the invariant.                                         *)
(***************************************************************************)
\* What a thread's going on from one place to another does to the three counts.
LEMMA CountsMove ==
    ASSUME NEW q, Inv(q), NEW t \in Threads, NEW from, NEW to \in PCs, Goto(t, from, to)
    PROVE  /\ pc' = [pc EXCEPT ![t] = to] /\ pc' \in [Threads -> PCs] /\ pc[t] = from
           /\ CountMoves(pc, pc', Putting, from, to)
           /\ CountMoves(pc, pc', Signalling, from, to)
           /\ CountMoves(pc, pc', Taking, from, to)
<1>1. /\ pc \in [Threads -> PCs] /\ pc' = [pc EXCEPT ![t] = to] /\ pc[t] = from
      /\ \A A \in {Putting, Signalling, Taking} : IsFiniteSet(ThreadsAt(pc, A))
  BY DEF Goto, Inv, Typing, SemaphoreInv
<1>2. pc' \in [Threads -> PCs]
  BY <1>1
<1>3. \A A \in {Putting, Signalling, Taking} : CountMoves(pc, pc', A, pc[t], to)
  BY <1>1, OneMoves
<1> QED
  BY <1>1, <1>2, <1>3
\* A step that leaves the list alone leaves it a list.
LEMMA SameList ==
    ASSUME NEW q, Inv(q), UNCHANGED <<list, free>>
    PROVE  IsList(q)' /\ (Members(q) \cap free = {})'
BY DEF Inv, IsList, list

LEMMA LockStep ==
    ASSUME NEW q, Inv(q), NEW t \in Threads, NEW from, NEW to,
           <<from, to>> \in {<<"lockPut", "link">>, <<"lockTake", "takeFirst">>,
                             <<"idle", "firstNode">>},
           Lock(t, from, to)
    PROVE  Inv(q)'
<1> USE DEF PCs, Critical, Private, Putting, Signalling, Taking
<1>1. /\ mutex > 0 /\ mutex' = mutex - 1 /\ Goto(t, from, to) /\ to \in PCs
      /\ UNCHANGED <<blocking, list, free, semaphore, local, puts>>
  BY DEF Lock
<1>2. /\ pc' = [pc EXCEPT ![t] = to] /\ pc' \in [Threads -> PCs] /\ pc[t] = from
      /\ pc \in [Threads -> PCs]
  BY <1>1, CountsMove DEF Inv, Typing
<1>3. Typing'
  BY <1>1, <1>2 DEF Inv, Typing, list, local
<1>4. MutexInv'
  BY <1>1, <1>2 DEF Inv, Typing, MutexInv
<1>5. NodeInv(q)'
  BY <1>1, <1>2 DEF Inv, NodeInv, list, local
<1>6. CountInv(q)'
  BY <1>1, <1>2 DEF Inv, CountInv, local
<1>7. SemaphoreInv(q)'
  BY <1>1, CountsMove DEF Inv, SemaphoreInv, CountMoves
<1> QED
  BY <1>1, <1>3, <1>4, <1>5, <1>6, <1>7, SameList DEF Inv

LEMMA UnlockStep ==
    ASSUME NEW q, Inv(q), NEW t \in Threads, NEW from, NEW to,
           <<from, to>> \in {<<"unlockPut", "signal">>, <<"unlockTake", "freeNode">>},
           Unlock(t, from, to)
    PROVE  Inv(q)'
<1> USE DEF PCs, Critical, Private, Putting, Signalling, Taking
<1>1. /\ mutex' = mutex + 1 /\ Goto(t, from, to) /\ to \in PCs
      /\ UNCHANGED <<blocking, list, free, semaphore, local, puts>>
  BY DEF Unlock
<1>2. /\ pc' = [pc EXCEPT ![t] = to] /\ pc' \in [Threads -> PCs] /\ pc[t] = from
      /\ pc \in [Threads -> PCs]
  BY <1>1, CountsMove DEF Inv, Typing
<1>3. mutex = 0
  BY <1>2 DEF Inv, MutexInv
<1>4. Typing'
  BY <1>1, <1>2, <1>3 DEF Inv, Typing, list, local
<1>5. MutexInv'
  BY <1>1, <1>2 DEF Inv, Typing, MutexInv
<1>6. NodeInv(q)'
  BY <1>1, <1>2 DEF Inv, NodeInv, list, local
<1>7. CountInv(q)'
  BY <1>1, <1>2 DEF Inv, CountInv, local
<1>8. SemaphoreInv(q)'
  BY <1>1, CountsMove DEF Inv, SemaphoreInv, CountMoves
<1> QED
  BY <1>1, <1>4, <1>5, <1>6, <1>7, <1>8, SameList DEF Inv
LEMMA NewNodeStep ==
    ASSUME NEW q, Inv(q), NEW p \in Producers, NEW n \in Nodes, NEW e \in Elements,
           NewNode(p, n, e)
    PROVE  Inv(q)'
<1> USE DEF PCs, Critical, Private, Putting, Signalling, Taking, Threads
<1>1. /\ puts < MaxPuts /\ n \in free /\ Goto(p, "idle", "lockPut")
      /\ puts' = puts + 1 /\ free' = free \ {n}
      /\ element' = [element EXCEPT ![n] = e] /\ next' = [next EXCEPT ![n] = NULL]
      /\ node' = [node EXCEPT ![p] = n]
      /\ UNCHANGED <<blocking, first, last, mutex, semaphore, size>>
  BY DEF NewNode
<1>2. /\ pc' = [pc EXCEPT ![p] = "lockPut"] /\ pc' \in [Threads -> PCs] /\ pc[p] = "idle"
      /\ pc \in [Threads -> PCs] /\ p \in Threads
  BY <1>1, CountsMove DEF Inv, Typing
<1>3. /\ n # NULL /\ n \notin Members(q) /\ q \in Seq(Nodes)
      /\ \A i \in 1 .. Len(q) : q[i] \in Nodes /\ q[i] # n
  BY <1>1, ConstantsAssumption DEF Inv, IsList, Members
<1>4. Typing'
  BY <1>1, <1>2, ConstantsAssumption DEF Inv, Typing, Pointers
<1>5. MutexInv'
  BY <1>1, <1>2 DEF Inv, MutexInv
<1>6. IsList(q)' /\ (Members(q) \cap free = {})'
  <2>1. \A i \in 1 .. Len(q) : next'[q[i]] = next[q[i]]
    BY <1>1, <1>3 DEF Inv, Typing
  <2> QED
    BY <1>1, <2>1 DEF Inv, IsList
<1>7. NodeInv(q)'
  <2>1. node'[p] = n /\ next'[n] = NULL /\ element'[n] \in Elements /\ n \notin free'
    BY <1>1, <1>2 DEF Inv, Typing
  <2>2. ASSUME NEW u \in Threads, u # p
        PROVE  node'[u] = node[u] /\ pc'[u] = pc[u]
    BY <1>1, <1>2, <2>2 DEF Inv, Typing
  <2>3. ASSUME NEW u \in Threads, u # p, pc[u] \in Private
        PROVE  node[u] # n /\ node[u] \notin free'
    BY <1>1, <2>3 DEF Inv, NodeInv
  <2>4. ASSUME NEW u \in Threads, u # p, pc[u] \in {"lockPut", "link"}
        PROVE  next'[node[u]] = NULL /\ element'[node[u]] \in Elements
    BY <1>1, <2>3, <2>4 DEF Inv, NodeInv, Typing, Pointers
  <2> QED
    BY <1>1, <1>2, <1>3, <2>1, <2>2, <2>3, <2>4 DEF Inv, NodeInv
<1>8. CountInv(q)'
  BY <1>1, <1>2 DEF Inv, CountInv, Typing
<1>9. SemaphoreInv(q)'
  <2>1. /\ CountMoves(pc, pc', Putting, "idle", "lockPut")
        /\ CountMoves(pc, pc', Signalling, "idle", "lockPut")
        /\ CountMoves(pc, pc', Taking, "idle", "lockPut")
    BY <1>1, CountsMove
  <2>2. puts \in Nat /\ semaphore \in Nat
    BY ConstantsAssumption DEF Inv, Typing
  <2> QED
    BY <1>1, <2>1, <2>2 DEF Inv, SemaphoreInv, CountMoves
<1> QED
  BY <1>4, <1>5, <1>6, <1>7, <1>8, <1>9 DEF Inv

LEMMA LinkStep ==
    ASSUME NEW q, Inv(q), NEW p \in Producers, Link(p), NEW n, n = node[p]
    PROVE  n \in Nodes /\ Inv(Append(q, n))'
<1> DEFINE r == Append(q, n)
<1> USE DEF PCs, Critical, Private, Putting, Signalling, Taking, Threads
<1>1. /\ Goto(p, "link", "unlockPut")
      /\ first' = IF first = NULL THEN n ELSE first
      /\ next' = IF first = NULL THEN next ELSE [next EXCEPT ![last] = n]
      /\ last' = n
      /\ node' = [node EXCEPT ![p] = NULL]
      /\ UNCHANGED <<blocking, element, free, mutex, semaphore, size, puts>>
  BY DEF Link
<1>2. /\ pc' = [pc EXCEPT ![p] = "unlockPut"] /\ pc' \in [Threads -> PCs] /\ pc[p] = "link"
      /\ pc \in [Threads -> PCs] /\ p \in Threads
  BY <1>1, CountsMove DEF Inv, Typing
<1>3. /\ n \in Nodes /\ n # NULL /\ n \notin Members(q) \cup free /\ next[n] = NULL
  BY <1>2 DEF Inv, Typing, NodeInv, Pointers
<1>4. /\ q \in Seq(Nodes) /\ r \in Seq(Nodes) /\ Len(r) = Len(q) + 1 /\ r # <<>>
      /\ \A i \in 1 .. Len(r) : r[i] = IF i = Len(q) + 1 THEN n ELSE q[i]
      /\ Len(q) \in Nat
      /\ \A i \in 1 .. Len(q) : q[i] \in Nodes /\ q[i] # n /\ q[i] # NULL
  <2>1. q \in Seq(Nodes)
    BY DEF Inv, IsList
  <2>2. \A i \in 1 .. Len(q) : q[i] \in Nodes /\ q[i] # n /\ q[i] # NULL
    BY <1>3, <2>1, ConstantsAssumption DEF Members
  <2> QED
    BY <1>3, <2>1, <2>2
<1> HIDE DEF r
<1>5. Typing'
  BY <1>1, <1>2, <1>3, ConstantsAssumption DEF Inv, Typing, Pointers
<1>6. MutexInv'
  BY <1>1, <1>2 DEF Inv, MutexInv
<1>7. IsList(r)'
  <2>1. Injective(r)
    BY <1>4 DEF Inv, IsList, Injective
  <2>2. first = NULL <=> q = <<>>
    BY <1>4 DEF Inv, IsList
  <2>3. first' = r[1] /\ last' = r[Len(r)]
    BY <1>1, <1>4, <2>2 DEF Inv, IsList
  <2>4. ASSUME NEW i \in 1 .. Len(r)
        PROVE  next'[r[i]] = IF i = Len(r) THEN NULL ELSE r[i + 1]
    <3>1. CASE q = <<>>
      BY <1>1, <1>3, <1>4, <2>2, <3>1
    <3>2. CASE q # <<>>
      <4>1. /\ last = q[Len(q)] /\ Len(q) \in 1 .. Len(q) /\ last \in Nodes
            /\ next' = [next EXCEPT ![last] = n] /\ next \in [Nodes -> Pointers]
        BY <1>1, <1>4, <2>2, <3>2 DEF Inv, IsList, Typing
      <4>2. CASE i = Len(r)
        BY <1>3, <1>4, <4>1, <4>2
      <4>3. CASE i = Len(q)
        BY <1>3, <1>4, <4>1, <4>3
      <4>4. CASE i # Len(r) /\ i # Len(q)
        <5>1. i \in 1 .. Len(q) /\ i + 1 \in 1 .. Len(q) /\ r[i] = q[i] /\ r[i + 1] = q[i + 1]
          BY <1>4, <4>4
        <5>2. q[i] # last
          BY <4>1, <4>4, <5>1 DEF Inv, IsList, Injective
        <5>3. next[q[i]] = q[i + 1]
          BY <4>4, <5>1 DEF Inv, IsList
        <5> QED
          BY <1>4, <4>1, <4>4, <5>1, <5>2, <5>3
      <4> QED
        BY <4>2, <4>3, <4>4
    <3> QED
      BY <3>1, <3>2
  <2> QED
    BY <1>4, <2>1, <2>3, <2>4 DEF IsList
<1>8. Members(r) = Members(q) \cup {n}
  BY <1>4 DEF Members
<1>9. NodeInv(r)'
  <2>1. node'[p] = NULL /\ pc'[p] = "unlockPut"
    BY <1>1, <1>2 DEF Inv, Typing
  <2>2. ASSUME NEW u \in Threads, u # p
        PROVE  node'[u] = node[u] /\ pc'[u] = pc[u] /\ pc[u] \notin Critical
    BY <1>1, <1>2, <2>2 DEF Inv, Typing, MutexInv
  <2>3. ASSUME NEW u \in Threads, u # p, pc[u] \in Private
        PROVE  node[u] # n /\ node[u] \notin Members(r)
    BY <1>2, <1>3, <1>8, <2>3 DEF Inv, NodeInv
  <2>4. ASSUME NEW u \in Threads, u # p, pc[u] = "lockPut"
        PROVE  next'[node[u]] = NULL
    <3>1. node[u] \in Nodes /\ node[u] \notin Members(q) /\ next[node[u]] = NULL
      BY <2>4 DEF Inv, NodeInv, Typing, Pointers
    <3>2. q # <<>> => last \in Members(q)
      BY <1>4 DEF Inv, IsList, Members
    <3>3. first = NULL <=> q = <<>>
      BY <1>4 DEF Inv, IsList
    <3> QED
      BY <1>1, <3>1, <3>2, <3>3 DEF Inv, Typing
  <2> QED
    BY <1>1, <2>1, <2>2, <2>3, <2>4 DEF Inv, NodeInv
<1>10. CountInv(r)'
  BY <1>1, <1>2 DEF Inv, CountInv, Typing, MutexInv
<1>11. SemaphoreInv(r)'
  <2>1. /\ CountMoves(pc, pc', Putting, "link", "unlockPut")
        /\ CountMoves(pc, pc', Signalling, "link", "unlockPut")
        /\ CountMoves(pc, pc', Taking, "link", "unlockPut")
    BY <1>1, CountsMove
  <2>2. puts \in Nat /\ semaphore \in Nat
    BY ConstantsAssumption DEF Inv, Typing
  <2> QED
    <3>1. /\ Cardinality(ThreadsAt(pc', Putting)) = Cardinality(ThreadsAt(pc, Putting))
          /\ Cardinality(ThreadsAt(pc', Signalling)) = Cardinality(ThreadsAt(pc, Signalling)) + 1
          /\ Cardinality(ThreadsAt(pc', Taking)) = Cardinality(ThreadsAt(pc, Taking))
          /\ Cardinality(ThreadsAt(pc, Signalling)) \in Nat
          /\ Cardinality(ThreadsAt(pc, Taking)) \in Nat
          /\ \A A \in {Putting, Signalling, Taking} : IsFiniteSet(ThreadsAt(pc', A))
      BY <2>1 DEF CountMoves
    <3> QED
      BY <1>1, <1>4, <2>2, <3>1 DEF Inv, SemaphoreInv
<1>12. (Members(r) \cap free = {})'
  BY <1>1, <1>3, <1>8 DEF Inv
<1> QED
  BY <1>3, <1>5, <1>6, <1>7, <1>9, <1>10, <1>11, <1>12 DEF Inv, r
LEMMA SignalStep ==
    ASSUME NEW q, Inv(q), NEW p \in Producers, Signal(p)
    PROVE  Inv(q)'
<1> USE DEF PCs, Critical, Private, Putting, Signalling, Taking, Threads
<1>1. /\ Goto(p, "signal", "idle") /\ semaphore' = semaphore + 1
      /\ UNCHANGED <<blocking, list, free, mutex, local, puts>>
  BY DEF Signal
<1>2. /\ pc' = [pc EXCEPT ![p] = "idle"] /\ pc' \in [Threads -> PCs] /\ pc[p] = "signal"
      /\ pc \in [Threads -> PCs] /\ p \in Threads
  BY <1>1, CountsMove DEF Inv, Typing
<1>3. Typing'
  BY <1>1, <1>2 DEF Inv, Typing, list, local
<1>4. MutexInv'
  BY <1>1, <1>2 DEF Inv, MutexInv
<1>5. NodeInv(q)'
  BY <1>1, <1>2 DEF Inv, NodeInv, list, local
<1>6. CountInv(q)'
  BY <1>1, <1>2 DEF Inv, CountInv, local
<1>7. SemaphoreInv(q)'
  <2>1. /\ CountMoves(pc, pc', Putting, "signal", "idle")
        /\ CountMoves(pc, pc', Signalling, "signal", "idle")
        /\ CountMoves(pc, pc', Taking, "signal", "idle")
    BY <1>1, CountsMove
  <2>2. /\ Cardinality(ThreadsAt(pc', Putting)) = Cardinality(ThreadsAt(pc, Putting)) - 1
        /\ Cardinality(ThreadsAt(pc', Signalling)) = Cardinality(ThreadsAt(pc, Signalling)) - 1
        /\ Cardinality(ThreadsAt(pc', Taking)) = Cardinality(ThreadsAt(pc, Taking))
        /\ \A A \in {Putting, Signalling, Taking} :
              IsFiniteSet(ThreadsAt(pc', A)) /\ Cardinality(ThreadsAt(pc, A)) \in Nat
    BY <2>1 DEF CountMoves
  <2>3. semaphore \in Nat /\ puts \in Nat
    BY ConstantsAssumption DEF Inv, Typing
  <2> QED
    BY <1>1, <2>2, <2>3 DEF Inv, SemaphoreInv
<1> QED
  BY <1>1, <1>3, <1>4, <1>5, <1>6, <1>7, SameList DEF Inv

LEMMA WaitStep ==
    ASSUME NEW q, Inv(q), NEW c \in Consumers, Wait(c)
    PROVE  Inv(q)'
<1> USE DEF PCs, Critical, Private, Putting, Signalling, Taking, Threads
<1>1. /\ Goto(c, "idle", "lockTake")
      /\ IF blocking THEN semaphore > 0 /\ semaphore' = semaphore - 1
                     ELSE UNCHANGED semaphore
      /\ UNCHANGED <<blocking, list, free, mutex, local, puts>>
  BY DEF Wait
<1>2. /\ pc' = [pc EXCEPT ![c] = "lockTake"] /\ pc' \in [Threads -> PCs] /\ pc[c] = "idle"
      /\ pc \in [Threads -> PCs] /\ c \in Threads
  BY <1>1, CountsMove DEF Inv, Typing
<1>3. Typing'
  BY <1>1, <1>2 DEF Inv, Typing, list, local
<1>4. MutexInv'
  BY <1>1, <1>2 DEF Inv, MutexInv
<1>5. NodeInv(q)'
  BY <1>1, <1>2 DEF Inv, NodeInv, list, local
<1>6. CountInv(q)'
  BY <1>1, <1>2 DEF Inv, CountInv, local
<1>7. SemaphoreInv(q)'
  <2>1. /\ CountMoves(pc, pc', Putting, "idle", "lockTake")
        /\ CountMoves(pc, pc', Signalling, "idle", "lockTake")
        /\ CountMoves(pc, pc', Taking, "idle", "lockTake")
    BY <1>1, CountsMove
  <2>2. /\ Cardinality(ThreadsAt(pc', Putting)) = Cardinality(ThreadsAt(pc, Putting))
        /\ Cardinality(ThreadsAt(pc', Signalling)) = Cardinality(ThreadsAt(pc, Signalling))
        /\ Cardinality(ThreadsAt(pc', Taking)) = Cardinality(ThreadsAt(pc, Taking)) + 1
        /\ \A A \in {Putting, Signalling, Taking} :
              IsFiniteSet(ThreadsAt(pc', A)) /\ Cardinality(ThreadsAt(pc, A)) \in Nat
    BY <2>1 DEF CountMoves
  <2>3. semaphore \in Nat /\ puts \in Nat
    BY ConstantsAssumption DEF Inv, Typing
  <2> QED
    BY <1>1, <2>2, <2>3 DEF Inv, SemaphoreInv
<1> QED
  BY <1>1, <1>3, <1>4, <1>5, <1>6, <1>7, SameList DEF Inv

LEMMA TakeFirstStep ==
    ASSUME NEW q, Inv(q), NEW c \in Consumers, TakeFirst(c)
    PROVE  Inv(q)'
<1> USE DEF PCs, Critical, Private, Putting, Signalling, Taking, Threads
<1> DEFINE to == IF first = NULL THEN "unlockTake" ELSE "advance"
<1>1. /\ Goto(c, "takeFirst", to) /\ to \in PCs
      /\ node' = [node EXCEPT ![c] = first]
      /\ UNCHANGED <<blocking, list, free, mutex, semaphore, size, puts>>
  BY DEF TakeFirst
<1>2. /\ pc' = [pc EXCEPT ![c] = to] /\ pc' \in [Threads -> PCs] /\ pc[c] = "takeFirst"
      /\ pc \in [Threads -> PCs] /\ c \in Threads
  BY <1>1, CountsMove DEF Inv, Typing
<1>3. /\ CountMoves(pc, pc', Putting, "takeFirst", to)
      /\ CountMoves(pc, pc', Signalling, "takeFirst", to)
      /\ CountMoves(pc, pc', Taking, "takeFirst", to)
  BY <1>1, CountsMove
<1>4. (first = NULL <=> q = <<>>) /\ (q # <<>> => first = q[1])
  <2>1. q \in Seq(Nodes)
    BY DEF Inv, IsList
  <2>2. q # <<>> => q[1] # NULL
    BY <2>1, ConstantsAssumption
  <2> QED
    BY <2>2 DEF Inv, IsList
\* The consumer itself is counted among those for whom there is an element.
<1>5. blocking => first # NULL
  <2> SUFFICES ASSUME blocking, first = NULL PROVE FALSE
    OBVIOUS
  <2>1. Cardinality(ThreadsAt(pc, Taking)) > 0
    BY <1>3 DEF CountMoves
  <2>2. Cardinality(ThreadsAt(pc, Signalling)) \in Nat /\ semaphore \in Nat
    BY <1>3 DEF CountMoves, Inv, Typing
  <2>3. Len(q) = 0
    BY <1>4
  <2> QED
    BY <1>3, <2>1, <2>2, <2>3 DEF Inv, SemaphoreInv, CountMoves
<1>6. Typing'
  BY <1>1, <1>2 DEF Inv, Typing, list
<1>7. MutexInv'
  BY <1>1, <1>2 DEF Inv, MutexInv
<1>8. NodeInv(q)'
  <2>1. NULL \notin Members(q) \cup free
    BY ConstantsAssumption DEF Inv, Typing, IsList, Members
  <2> QED
    BY <1>1, <1>2, <1>4, <1>5, <2>1 DEF Inv, Typing, NodeInv, list
<1>9. CountInv(q)'
  BY <1>1, <1>2 DEF Inv, Typing, CountInv
<1>10. SemaphoreInv(q)'
  BY <1>1, <1>3, <1>5 DEF Inv, SemaphoreInv, CountMoves
<1> QED
  BY <1>1, <1>6, <1>7, <1>8, <1>9, <1>10, SameList DEF Inv

LEMMA AdvanceStep ==
    ASSUME NEW q, Inv(q), NEW c \in Consumers, Advance(c)
    PROVE  q # <<>> /\ Inv(Tail(q))'
<1> DEFINE r == Tail(q)
<1> USE DEF PCs, Critical, Private, Putting, Signalling, Taking, Threads
<1>1. /\ Goto(c, "advance", "unlockTake")
      /\ first' = next[node[c]]
      /\ last' = IF next[node[c]] = NULL THEN NULL ELSE last
      /\ UNCHANGED <<blocking, next, element, free, mutex, semaphore, local, puts>>
  BY DEF Advance
<1>2. /\ pc' = [pc EXCEPT ![c] = "unlockTake"] /\ pc' \in [Threads -> PCs] /\ pc[c] = "advance"
      /\ pc \in [Threads -> PCs] /\ c \in Threads
  BY <1>1, CountsMove DEF Inv, Typing
<1>3. q # <<>> /\ node[c] = q[1]
  BY <1>2 DEF Inv, NodeInv
<1>4. /\ q \in Seq(Nodes) /\ r \in Seq(Nodes) /\ Len(r) = Len(q) - 1 /\ Len(q) \in Nat
      /\ \A i \in 1 .. Len(r) : r[i] = q[i + 1] /\ i + 1 \in 1 .. Len(q)
      /\ 1 \in 1 .. Len(q) /\ (r = <<>> <=> Len(q) = 1)
      /\ \A i \in 1 .. Len(q) : q[i] \in Nodes /\ q[i] # NULL
  <2>1. q \in Seq(Nodes)
    BY DEF Inv, IsList
  <2>2. \A i \in 1 .. Len(q) : q[i] \in Nodes /\ q[i] # NULL
    BY <2>1, ConstantsAssumption
  <2>3. r \in Seq(Nodes) /\ Len(r) = Len(q) - 1 /\ \A i \in 1 .. Len(r) : r[i] = q[i + 1]
    BY <1>3, <2>1
  <2>4. Len(q) \in Nat /\ Len(q) # 0
    BY <1>3, <2>1
  <2> HIDE DEF r
  <2>5. r = <<>> <=> Len(q) = 1
    BY <2>3, <2>4
  <2> QED
    BY <2>1, <2>2, <2>3, <2>4, <2>5
<1> HIDE DEF r
<1>5. next[q[1]] = IF r = <<>> THEN NULL ELSE r[1]
  <2>1. next[q[1]] = IF 1 = Len(q) THEN NULL ELSE q[2]
    BY <1>4 DEF Inv, IsList
  <2>2. r # <<>> => r[1] = q[2]
    BY <1>4
  <2> QED
    BY <1>4, <2>1, <2>2
<1>6. Typing'
  <2>1. next[node[c]] \in Pointers
    BY <1>3, <1>4 DEF Inv, Typing
  <2> QED
    BY <1>1, <1>2, <2>1 DEF Inv, Typing, Pointers, local
<1>7. MutexInv'
  BY <1>1, <1>2 DEF Inv, MutexInv
<1>8. IsList(r)'
  <2>1. Injective(r)
    BY <1>4 DEF Inv, IsList, Injective
  <2>2. first' = IF r = <<>> THEN NULL ELSE r[1]
    BY <1>1, <1>3, <1>5
  <2>3. last' = IF r = <<>> THEN NULL ELSE r[Len(r)]
    <3>1. r # <<>> => r[1] # NULL /\ r[Len(r)] = q[Len(q)]
      BY <1>4
    <3> QED
      BY <1>1, <1>3, <1>5, <3>1 DEF Inv, IsList
  <2>4. ASSUME NEW i \in 1 .. Len(r)
        PROVE  next'[r[i]] = IF i = Len(r) THEN NULL ELSE r[i + 1]
    <3>1. next[q[i + 1]] = IF i + 1 = Len(q) THEN NULL ELSE q[(i + 1) + 1]
      BY <1>4 DEF Inv, IsList
    <3>2. i # Len(r) => r[i + 1] = q[(i + 1) + 1]
      BY <1>4
    <3> QED
      BY <1>1, <1>4, <3>1, <3>2
  <2> QED
    BY <1>4, <2>1, <2>2, <2>3, <2>4 DEF IsList
<1>9. Members(r) \subseteq Members(q) /\ q[1] \in Members(q) /\ q[1] \notin Members(r)
  <2>1. \A i \in 1 .. Len(r) : q[i + 1] # q[1]
    BY <1>4 DEF Inv, IsList, Injective
  <2> QED
    BY <1>4, <2>1 DEF Members
<1>10. NodeInv(r)'
  <2>1. /\ node' = node /\ next' = next /\ element' = element
        /\ free' = free /\ blocking' = blocking
    BY <1>1 DEF local
  <2>2. node[c] \notin Members(r) \cup free /\ node[c] # NULL
    BY <1>3, <1>4, <1>9 DEF Inv
  <2>3. ASSUME NEW u \in Threads, u # c
        PROVE  pc'[u] = pc[u] /\ pc[u] \notin Critical
    BY <1>1, <1>2, <2>3 DEF Inv, MutexInv
  <2>4. ASSUME NEW u \in Threads, u # c, pc[u] \in Private
        PROVE  node[u] # node[c] /\ node[u] \notin Members(r)
    BY <1>3, <1>9, <2>4 DEF Inv, NodeInv
  <2> QED
    BY <1>2, <2>1, <2>2, <2>3, <2>4 DEF Inv, NodeInv
<1>11. CountInv(r)'
  BY <1>1, <1>2 DEF Inv, MutexInv, CountInv, local
<1>12. SemaphoreInv(r)'
  <2>1. /\ CountMoves(pc, pc', Putting, "advance", "unlockTake")
        /\ CountMoves(pc, pc', Signalling, "advance", "unlockTake")
        /\ CountMoves(pc, pc', Taking, "advance", "unlockTake")
    BY <1>1, CountsMove
  <2>2. semaphore \in Nat
    BY DEF Inv, Typing
  <2> QED
    BY <1>1, <1>4, <2>1, <2>2 DEF Inv, SemaphoreInv, CountMoves
<1>13. (Members(r) \cap free = {})'
  BY <1>1, <1>9 DEF Inv
<1> QED
  BY <1>3, <1>6, <1>7, <1>8, <1>10, <1>11, <1>12, <1>13 DEF Inv, r
LEMMA FreeNodeStep ==
    ASSUME NEW q, Inv(q), NEW c \in Consumers, FreeNode(c)
    PROVE  Inv(q)'
<1> USE DEF PCs, Critical, Private, Putting, Signalling, Taking, Threads
<1>1. /\ Goto(c, "freeNode", "idle")
      /\ free' = free \cup ({node[c]} \ {NULL})
      /\ node' = [node EXCEPT ![c] = NULL]
      /\ UNCHANGED <<blocking, list, mutex, semaphore, size, puts>>
  BY DEF FreeNode
<1>2. /\ pc' = [pc EXCEPT ![c] = "idle"] /\ pc' \in [Threads -> PCs] /\ pc[c] = "freeNode"
      /\ pc \in [Threads -> PCs] /\ c \in Threads
  BY <1>1, CountsMove DEF Inv, Typing
<1>3. node[c] \notin Members(q) \cup free /\ node[c] \in Pointers
  BY <1>2 DEF Inv, NodeInv, Typing
<1>4. Typing'
  BY <1>1, <1>2, <1>3 DEF Inv, Typing, Pointers, list
<1>5. MutexInv'
  BY <1>1, <1>2 DEF Inv, MutexInv
<1>6. IsList(q)' /\ (Members(q) \cap free = {})'
  BY <1>1, <1>3 DEF Inv, IsList, list
<1>7. NodeInv(q)'
  <2>1. node'[c] = NULL /\ pc'[c] = "idle"
    BY <1>1, <1>2 DEF Inv, Typing
  <2>2. ASSUME NEW u \in Threads, u # c
        PROVE  node'[u] = node[u] /\ pc'[u] = pc[u]
    BY <1>1, <1>2, <2>2 DEF Inv, Typing
  <2>3. ASSUME NEW u \in Threads, u # c, pc[u] \in Private
        PROVE  node[u] \notin free'
    BY <1>1, <1>2, <2>3 DEF Inv, NodeInv
  <2> QED
    BY <1>1, <2>1, <2>2, <2>3 DEF Inv, NodeInv, list
<1>8. CountInv(q)'
  BY <1>1, <1>2 DEF Inv, Typing, CountInv
<1>9. SemaphoreInv(q)'
  BY <1>1, CountsMove DEF Inv, SemaphoreInv, CountMoves
<1> QED
  BY <1>4, <1>5, <1>6, <1>7, <1>8, <1>9 DEF Inv

LEMMA FirstNodeStep ==
    ASSUME NEW q, Inv(q), NEW c \in Consumers, FirstNode(c)
    PROVE  Inv(q)'
<1> USE DEF PCs, Critical, Private, Putting, Signalling, Taking, Threads
<1>1. /\ Goto(c, "firstNode", "count")
      /\ size' = [size EXCEPT ![c] = 0] /\ node' = [node EXCEPT ![c] = first]
      /\ UNCHANGED <<blocking, list, free, mutex, semaphore, puts>>
  BY DEF FirstNode
<1>2. /\ pc' = [pc EXCEPT ![c] = "count"] /\ pc' \in [Threads -> PCs] /\ pc[c] = "firstNode"
      /\ pc \in [Threads -> PCs] /\ c \in Threads
  BY <1>1, CountsMove DEF Inv, Typing
<1>3. Typing'
  BY <1>1, <1>2, NodesAreFinite DEF Inv, Typing, list
<1>4. MutexInv'
  BY <1>1, <1>2 DEF Inv, MutexInv
<1>5. NodeInv(q)'
  BY <1>1, <1>2 DEF Inv, Typing, NodeInv, list
<1>6. CountInv(q)'
  <2>1. size'[c] = 0 /\ node'[c] = first
    BY <1>1 DEF Inv, Typing
  <2>2. first = IF 0 < Len(q) THEN q[0 + 1] ELSE NULL
    BY DEF Inv, IsList
  <2>3. 0 <= Len(q)
    BY DEF Inv, IsList
  <2> QED
    BY <1>1, <1>2, <2>1, <2>2, <2>3 DEF Inv, Typing, CountInv, MutexInv
<1>7. SemaphoreInv(q)'
  BY <1>1, CountsMove DEF Inv, SemaphoreInv, CountMoves
<1> QED
  BY <1>1, <1>3, <1>4, <1>5, <1>6, <1>7, SameList DEF Inv

LEMMA CountStep ==
    ASSUME NEW q, Inv(q), NEW c \in Consumers, Count(c)
    PROVE  Inv(q)'
<1> USE DEF PCs, Critical, Private, Putting, Signalling, Taking, Threads
<1>1. /\ Goto(c, "count", "count") /\ node[c] # NULL
      /\ size' = [size EXCEPT ![c] = @ + 1] /\ node' = [node EXCEPT ![c] = next[@]]
      /\ UNCHANGED <<blocking, list, free, mutex, semaphore, puts>>
  BY DEF Count
<1>2. /\ pc' = [pc EXCEPT ![c] = "count"] /\ pc' \in [Threads -> PCs] /\ pc[c] = "count"
      /\ pc \in [Threads -> PCs] /\ c \in Threads
  BY <1>1, CountsMove DEF Inv, Typing
<1>3. pc' = pc
  BY <1>2
<1>4. /\ q \in Seq(Nodes) /\ Len(q) \in Nat /\ Len(q) <= N /\ N \in Nat
      /\ size[c] \in 0 .. N /\ size[c] < Len(q) /\ node[c] = q[size[c] + 1]
  BY <1>1, <1>2, ListFits, NodesAreFinite DEF Inv, IsList, CountInv, Typing
<1>5. next[node[c]] = IF size[c] + 1 < Len(q) THEN q[(size[c] + 1) + 1] ELSE NULL
  <2>1. size[c] + 1 \in 1 .. Len(q)
    BY <1>4
  <2> QED
    BY <1>4, <2>1 DEF Inv, IsList
<1>6. Typing'
  <2>1. next[node[c]] \in Pointers
    BY <1>1 DEF Inv, Typing, Pointers
  <2>2. size[c] + 1 \in 0 .. N
    BY <1>4
  <2> QED
    BY <1>1, <1>2, <2>1, <2>2 DEF Inv, Typing, list
<1>7. MutexInv'
  BY <1>1, <1>3 DEF Inv, MutexInv
<1>8. NodeInv(q)'
  BY <1>1, <1>2, <1>3 DEF Inv, Typing, NodeInv, list
<1>9. CountInv(q)'
  <2>1. size'[c] = size[c] + 1 /\ node'[c] = next[node[c]]
    BY <1>1 DEF Inv, Typing
  <2>2. size[c] + 1 <= Len(q)
    BY <1>4
  <2>3. \A u \in Threads : u # c => pc[u] # "count"
    BY <1>2 DEF Inv, MutexInv
  <2> QED
    BY <1>3, <1>5, <2>1, <2>2, <2>3 DEF CountInv
<1>10. SemaphoreInv(q)'
  BY <1>1, <1>3 DEF Inv, SemaphoreInv
<1> QED
  BY <1>1, <1>6, <1>7, <1>8, <1>9, <1>10, SameList DEF Inv

LEMMA CountedStep ==
    ASSUME NEW q, Inv(q), NEW c \in Consumers, Counted(c)
    PROVE  Inv(q)'
<1> USE DEF PCs, Critical, Private, Putting, Signalling, Taking, Threads
<1>1. /\ Goto(c, "count", "idle") /\ node[c] = NULL
      /\ mutex' = mutex + 1 /\ size' = [size EXCEPT ![c] = 0]
      /\ UNCHANGED <<blocking, list, free, semaphore, node, puts>>
  BY DEF Counted
<1>2. /\ pc' = [pc EXCEPT ![c] = "idle"] /\ pc' \in [Threads -> PCs] /\ pc[c] = "count"
      /\ pc \in [Threads -> PCs] /\ c \in Threads
  BY <1>1, CountsMove DEF Inv, Typing
<1>3. mutex = 0
  BY <1>2 DEF Inv, MutexInv
<1>4. Typing'
  BY <1>1, <1>2, <1>3, NodesAreFinite DEF Inv, Typing, list
<1>5. MutexInv'
  BY <1>1, <1>2 DEF Inv, MutexInv
<1>6. NodeInv(q)'
  BY <1>1, <1>2 DEF Inv, NodeInv, list
<1>7. CountInv(q)'
  BY <1>1, <1>2 DEF Inv, MutexInv, CountInv, Typing
<1>8. SemaphoreInv(q)'
  BY <1>1, CountsMove DEF Inv, SemaphoreInv, CountMoves
<1> QED
  BY <1>1, <1>4, <1>5, <1>6, <1>7, <1>8, SameList DEF Inv
-------------------------------------------------------------------------------
(***************************************************************************)
(* Theorems.                                                               *)
(***************************************************************************)
ElementsOf(q) == [k \in 1 .. Len(q) |-> element[q[k]]]

\* A step keeps the list, adds an element at its end, or takes its first.
MovesOn(q, r) ==
    \/ ElementsOf(r)' = ElementsOf(q)
    \/ \E e \in Elements : ElementsOf(r)' = Append(ElementsOf(q), e)
    \/ ElementsOf(q) # <<>> /\ ElementsOf(r)' = Tail(ElementsOf(q))

LEMMA InvNext ==
    ASSUME NEW q, Inv(q), [Next]_vars
    PROVE  \E r : Inv(r)' /\ IsList(r)' /\ MovesOn(q, r)
<1> USE DEF Threads
<1>1. q \in Seq(Nodes) /\ \A i \in 1 .. Len(q) : q[i] \in Nodes
  BY DEF Inv, IsList
<1>2. ASSUME Inv(q)', element' = element PROVE Inv(q)' /\ IsList(q)' /\ MovesOn(q, q)
  BY <1>2 DEF MovesOn, ElementsOf, Inv
<1>3. ASSUME NEW p \in Producers, NEW n \in Nodes, NEW e \in Elements, NewNode(p, n, e)
      PROVE  Inv(q)' /\ IsList(q)' /\ MovesOn(q, q)
  <2>1. Inv(q)'
    BY <1>3, NewNodeStep
  <2>2. \A i \in 1 .. Len(q) : q[i] # n
    BY <1>3 DEF NewNode, Inv, Members
  <2>3. ElementsOf(q)' = ElementsOf(q)
    BY <1>1, <1>3, <2>2 DEF NewNode, ElementsOf, Inv, Typing
  <2> QED
    BY <2>1, <2>3 DEF MovesOn, Inv
<1>4. ASSUME NEW p \in Producers, Put(p)
      PROVE  \E r : Inv(r)' /\ IsList(r)' /\ MovesOn(q, r)
  <2>1. CASE Lock(p, "lockPut", "link")
    <3>1. Inv(q)' /\ element' = element
      BY <2>1, LockStep DEF Lock, list
    <3> QED
      BY <1>2, <3>1
  <2>2. CASE Link(p)
    <3> DEFINE m == node[p]
    <3>1. PICK n : n = m
      OBVIOUS
    <3>2. n \in Nodes /\ Inv(Append(q, n))' /\ element' = element /\ element[n] \in Elements
      <4>1. pc[p] = "link" /\ element' = element
        BY <2>2 DEF Link, Goto
      <4>2. element[n] \in Elements
        BY <3>1, <4>1 DEF Inv, NodeInv
      <4> QED
        BY <2>2, <3>1, <4>1, <4>2, LinkStep
    <3> DEFINE r == Append(q, n)
    <3>3. /\ Len(r) = Len(q) + 1
          /\ \A k \in 1 .. Len(r) : r[k] = IF k = Len(q) + 1 THEN n ELSE q[k]
      BY <1>1, <3>2
    <3> HIDE DEF r
    <3>4. ElementsOf(r)' = Append(ElementsOf(q), element[n])
      <4>1. Len(ElementsOf(q)) = Len(q)
        BY <1>1 DEF ElementsOf
      <4> QED
        BY <1>1, <3>2, <3>3, <4>1 DEF ElementsOf
    <3>5. MovesOn(q, r)
      BY <3>2, <3>4 DEF MovesOn
    <3> QED
      BY <3>2, <3>5 DEF Inv, r
  <2>3. CASE Unlock(p, "unlockPut", "signal")
    <3>1. Inv(q)' /\ element' = element
      BY <2>3, UnlockStep DEF Unlock, list
    <3> QED
      BY <1>2, <3>1
  <2>4. CASE Signal(p)
    <3>1. Inv(q)' /\ element' = element
      BY <2>4, SignalStep DEF Signal, list
    <3> QED
      BY <1>2, <3>1
  <2> QED
    BY <1>4, <2>1, <2>2, <2>3, <2>4 DEF Put
<1>5. ASSUME NEW c \in Consumers, Take(c)
      PROVE  \E r : Inv(r)' /\ IsList(r)' /\ MovesOn(q, r)
  <2>1. CASE Wait(c)
    <3>1. Inv(q)' /\ element' = element
      BY <2>1, WaitStep DEF Wait, list
    <3> QED
      BY <1>2, <3>1
  <2>2. CASE LockTake(c)
    <3>1. Inv(q)' /\ element' = element
      BY <2>2, LockStep DEF LockTake, Lock, list
    <3> QED
      BY <1>2, <3>1
  <2>3. CASE TakeFirst(c)
    <3>1. Inv(q)' /\ element' = element
      BY <2>3, TakeFirstStep DEF TakeFirst, list
    <3> QED
      BY <1>2, <3>1
  <2>4. CASE Advance(c)
    <3> DEFINE r == Tail(q)
    <3>1. q # <<>> /\ Inv(r)' /\ element' = element
      BY <2>4, AdvanceStep DEF Advance
    <3>2. Len(r) = Len(q) - 1 /\ \A k \in 1 .. Len(r) : r[k] = q[k + 1]
      BY <1>1, <3>1
    <3> HIDE DEF r
    <3>3. ElementsOf(q) # <<>> /\ ElementsOf(r)' = Tail(ElementsOf(q))
      <4>1. Len(ElementsOf(q)) = Len(q) /\ Len(q) # 0 /\ Len(q) \in Nat
        BY <1>1, <3>1 DEF ElementsOf
      <4> QED
        BY <1>1, <3>1, <3>2, <4>1 DEF ElementsOf
    <3>4. MovesOn(q, r)
      BY <3>3 DEF MovesOn
    <3> QED
      BY <3>1, <3>4 DEF Inv
  <2>5. CASE Unlock(c, "unlockTake", "freeNode")
    <3>1. Inv(q)' /\ element' = element
      BY <2>5, UnlockStep DEF Unlock, list
    <3> QED
      BY <1>2, <3>1
  <2>6. CASE FreeNode(c)
    <3>1. Inv(q)' /\ element' = element
      BY <2>6, FreeNodeStep DEF FreeNode, list
    <3> QED
      BY <1>2, <3>1
  <2> QED
    BY <1>5, <2>1, <2>2, <2>3, <2>4, <2>5, <2>6 DEF Take
<1>6. ASSUME NEW c \in Consumers, Size(c)
      PROVE  Inv(q)' /\ IsList(q)' /\ MovesOn(q, q)
  <2>1. Inv(q)'
    BY <1>6, LockStep, FirstNodeStep, CountStep, CountedStep DEF Size, LockCount
  <2>2. element' = element
    BY <1>6 DEF Size, LockCount, Lock, FirstNode, Count, Counted, list
  <2> QED
    BY <1>2, <2>1, <2>2
<1>7. CASE UNCHANGED vars
  <2>1. Inv(q)' /\ element' = element
    BY <1>7 DEF vars, list, local, Inv, Typing, MutexInv, IsList, NodeInv, CountInv,
                SemaphoreInv
  <2> QED
    BY <1>2, <2>1
<1> QED
  BY <1>3, <1>4, <1>5, <1>6, <1>7 DEF Next
LEMMA IInvInit == Init => IInv
BY InvInit DEF IInv

LEMMA IInvNext == IInv /\ [Next]_vars => IInv'
BY InvNext DEF IInv

LEMMA Inductive == Spec => []IInv
BY IInvInit, IInvNext, PTL DEF Spec

\* The state keeps its type; in particular the semaphore that serves as the mutex
\* of the queue never lets two threads in.
THEOREM TypeCorrect == Spec => []TypeOK
BY Inductive, InvTypeOK, PTL

\* However puts, takes and counts overlap, and whatever node malloc hands out: no
\* node of the queue is taken or freed twice, or freed while it can be reached.
THEOREM EveryNodeHasOneOwner == Spec => []NodesHaveOneOwner
BY Inductive, InvOwner, PTL

\* A take that has waited for the semaphore finds an element, and
\* threadsafe_queue_size counts right.
THEOREM CountsAreExact == Spec => []CountExact
BY Inductive, InvCount, PTL

\* The linked list under its mutex is a first-in first-out queue.
THEOREM QueueIsFifo == Spec => ImplementsFifo
<1>1. Init => Abs!Init
  <2> SUFFICES ASSUME Init PROVE Abs!Init
    OBVIOUS
  <2>1. IsList(<<>>)
    BY InvInit DEF Inv
  <2>2. Contents = [k \in 1 .. Len(<<>>) |-> element[<<>>[k]]]
    BY <2>1, ListFacts
  <2>3. Contents = <<>>
    BY <2>2
  <2> QED
    BY <2>3 DEF Abs!Init
<1> DEFINE Read == \A q : IsList(q) => Contents = ElementsOf(q)
<1>2. Read
  BY ListFacts DEF ElementsOf
<1>3. IInv /\ [Next]_vars /\ Read /\ Read' => [Abs!Next]_Contents
  <2> SUFFICES ASSUME NEW q, Inv(q), [Next]_vars, Read, Read' PROVE [Abs!Next]_Contents
    BY DEF IInv
  <2>1. PICK r : IsList(r)' /\ MovesOn(q, r)
    BY InvNext
  <2>2. Contents = ElementsOf(q) /\ Contents' = ElementsOf(r)'
    BY <2>1 DEF Inv
  <2> QED
    BY <2>1, <2>2 DEF MovesOn, Abs!Next, Abs!Put, Abs!Take
<1> QED
  BY <1>1, <1>2, <1>3, Inductive, PTL DEF Spec, ImplementsFifo, Abs!Spec
===============================================================================
