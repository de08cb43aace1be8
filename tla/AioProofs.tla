------------------------------ MODULE AioProofs ------------------------------
(***************************************************************************)
(* Proofs about the two models of aio.c.  AioDispatch: for any             *)
(* descriptors, any memory, any kinds and masks and any size of the array  *)
(* of events.  IdlePoll: for every set of signallers and of waits, every   *)
(* pipe capacity and every limit of the heartbeat semaphore.               *)
(***************************************************************************)
EXTENDS AioDispatch, IdlePoll, TLAPS, SequenceTheorems, FiniteSetTheorems, WellFoundedInduction

\* An event of a batch.
IncomingEvents ==
    [node : Nodes \cup {NULL}, of : Fds \cup {NULL}, events : SUBSET {"IN", "OUT", "HUP"}]

\* A descriptor is found by its number, and a node outside the list is nobody's.
ListInv ==
    /\ \A d \in Listed : node[d].fd \in Fds
    /\ \A d, e \in Listed : node[d].fd = node[e].fd => d = e
    /\ \A d \in Nodes \ Listed : node[d] = Empty
    /\ retired \cap Listed = {}

\* Between turns nothing is left of the last one, and a handler was called for an event.
TurnInv ==
    /\ at = "image" => retired = {} /\ batch = <<>>
    /\ at \in {"read handler", "write", "write handler"} => batch # <<>> /\ Subject # NULL

\* An event goes to the descriptor it was reported for, or to nobody.
BatchInv ==
    /\ \A i \in 1 .. Len(batch) :
          batch[i].node # NULL => /\ batch[i].node \in Listed \cup retired
                                  /\ node[batch[i].node].fd \in {batch[i].of, NULL}
    /\ Len(batch) <= EventsSize
    /\ \A i, j \in 1 .. Len(batch) :
          i # j /\ batch[i].node # NULL => batch[i].node # batch[j].node

IInv == TypeOK /\ ListInv /\ TurnInv /\ BatchInv

----------------------------------------------------------------------------
(* The sequences Select makes.                                              *)

\* Every set of natural numbers has a least one: induction over positions.
LEMMA Smallest ==
    ASSUME NEW T, T \subseteq Nat, T # {}
    PROVE  \E x \in T : \A y \in T : x <= y
<1> DEFINE Below(n) == 0 .. n
           R == StrictSubsetOrdering(Nat)
           U == {Below(n) : n \in T}
<1>1. U \subseteq FiniteSubsetsOf(Nat) /\ U # {}
  <2>1. ASSUME NEW n \in T PROVE Below(n) \in FiniteSubsetsOf(Nat)
    <3>1. IsFiniteSet(Below(n))
      BY FS_Interval
    <3>2. Below(n) \in SUBSET Nat
      OBVIOUS
    <3> HIDE DEF Below
    <3> QED
      BY <3>1, <3>2 DEF FiniteSubsetsOf
  <2> QED
    BY <2>1
<1>2. IsWellFoundedOn(R, FiniteSubsetsOf(Nat))
  BY FS_StrictSubsetOrderingWellFounded
<1> HIDE DEF R, U
<1>3. PICK s \in U : \A u \in U : <<u, s>> \notin R
  BY <1>1, <1>2, WFMin, Zenon
<1>4. PICK x \in T : s = 0 .. x
  BY <1>3 DEF U
<1>5. ASSUME NEW y \in T PROVE x <= y
  <2>1. <<0 .. y, 0 .. x>> \notin R
    BY <1>3, <1>4 DEF U
  <2>2. 0 .. y \in SUBSET Nat /\ 0 .. x \in SUBSET Nat
    OBVIOUS
  <2>3. ~ (0 .. y \subseteq 0 .. x) \/ 0 .. y = 0 .. x
    BY <2>1, <2>2 DEF R, StrictSubsetOrdering
  <2>4. x \in Nat /\ y \in Nat
    OBVIOUS
  <2> QED
    BY <2>3, <2>4
<1> QED
  BY <1>5

\* The equation of the recursive function in Select.
Step(q, S, f) ==
    [n \in 0 .. Len(q) |-> IF n = 0 THEN <<>>
                           ELSE IF q[n] \in S THEN Append(f[n - 1], q[n])
                           ELSE f[n - 1]]

\* It has a solution: one up to n makes one up to n + 1.
LEMMA StepHasSolution ==
    ASSUME NEW X, NEW q \in Seq(X), NEW S
    PROVE  \E f : f = Step(q, S, f)
<1> DEFINE Part(n, f) == f = [k \in 0 .. n |-> IF k = 0 THEN <<>>
                                               ELSE IF q[k] \in S THEN Append(f[k - 1], q[k])
                                               ELSE f[k - 1]]
           T == {n \in 0 .. Len(q) : ~ \E f : Part(n, f)}
<1>0. Len(q) \in Nat
  OBVIOUS
<1>1. ASSUME NEW x \in T, \A y \in T : x <= y PROVE FALSE
  <2>1. x \in 0 .. Len(q) /\ ~ \E f : Part(x, f)
    BY <1>1
  <2>2. CASE x = 0
    <3>1. Part(0, [k \in 0 .. 0 |-> <<>>])
      OBVIOUS
    <3> QED
      BY <2>1, <2>2, <3>1
  <2>3. CASE x # 0
    <3>1. x - 1 \in 0 .. Len(q) /\ ~(x <= x - 1)
      BY <1>0, <2>1, <2>3
    <3>2. PICK f : Part(x - 1, f)
      BY <1>1, <3>1
    <3> DEFINE g == [k \in 0 .. x |-> IF k < x THEN f[k]
                                      ELSE IF q[x] \in S THEN Append(f[x - 1], q[x])
                                      ELSE f[x - 1]]
    <3>3. ASSUME NEW k \in 0 .. x
          PROVE  g[k] = IF k = 0 THEN <<>>
                        ELSE IF q[k] \in S THEN Append(g[k - 1], q[k]) ELSE g[k - 1]
      <4>1. CASE k = x
        <5>1. g[k - 1] = f[x - 1]
          BY <2>1, <2>3, <4>1
        <5> QED
          BY <2>1, <2>3, <4>1, <5>1
      <4>2. CASE k # x
        <5>1. k \in 0 .. (x - 1) /\ g[k] = f[k] /\ (k # 0 => g[k - 1] = f[k - 1])
          BY <2>1, <2>3, <4>2
        <5>2. f[k] = IF k = 0 THEN <<>>
                     ELSE IF q[k] \in S THEN Append(f[k - 1], q[k]) ELSE f[k - 1]
          BY <3>2, <5>1
        <5> HIDE DEF g
        <5> QED
          BY <5>1, <5>2
      <4> QED
        BY <4>1, <4>2
    <3>4. g = [k \in 0 .. x |-> g[k]]
      OBVIOUS
    <3>5. Part(x, g)
      <4> HIDE DEF g
      <4> QED
        BY <3>3, <3>4
    <3> QED
      BY <2>1, <3>5
  <2> QED
    BY <2>2, <2>3
<1>2. T = {}
  <2>1. T \subseteq Nat
    BY <1>0
  <2> HIDE DEF T
  <2> QED
    BY <1>1, <2>1, Smallest
<1>3. Len(q) \in 0 .. Len(q)
  BY <1>0
<1> QED
  BY <1>2, <1>3 DEF Step

\* What is selected are the elements of q that are in S, each as often as in q.
LEMMA SelectFacts ==
    ASSUME NEW X, NEW q \in Seq(X), NEW S
    PROVE  /\ Select(q, S) \in Seq(X)
           /\ ToSet(Select(q, S)) = ToSet(q) \cap S
           /\ IsInjective(q) => IsInjective(Select(q, S))
<1> DEFINE first == CHOOSE f : f = Step(q, S, f)
           Elements(n) == {q[i] : i \in 1 .. n}
           Good(n) == /\ first[n] \in Seq(X)
                      /\ \A x : x \in Elements(n) \cap S
                              <=> \E i \in 1 .. Len(first[n]) : first[n][i] = x
                      /\ IsInjective(q) =>
                            \A i, j \in 1 .. Len(first[n]) :
                                first[n][i] = first[n][j] => i = j
           T == {n \in 0 .. Len(q) : ~Good(n)}
<1>0. Len(q) \in Nat /\ DOMAIN q = 1 .. Len(q)
  OBVIOUS
<1>1. first = Step(q, S, first)
  BY StepHasSolution
<1>2. Select(q, S) = first[Len(q)]
  BY DEF Select, Step
<1> HIDE DEF first
<1>3. ASSUME NEW n \in 0 .. Len(q), Good(n - 1), n # 0, q[n] \in S PROVE Good(n)
  <2> DEFINE s == first[n - 1]
  <2>1. first[n] = Append(s, q[n]) /\ q[n] \in X
    <3>1. n \in 1 .. Len(q)
      BY <1>0, <1>3
    <3>2. first[n] = Append(s, q[n])
      BY <1>1, <1>3, <3>1 DEF Step
    <3> QED
      BY <3>1, <3>2
  <2>2. s \in Seq(X) /\ Len(s) \in Nat
    BY <1>3
  <2>3. /\ first[n] \in Seq(X) /\ Len(first[n]) = Len(s) + 1
        /\ \A i \in 1 .. Len(s) : first[n][i] = s[i]
        /\ first[n][Len(s) + 1] = q[n]
    <3> HIDE DEF s
    <3> QED
      BY <2>1, <2>2
  <2>4. Elements(n) = Elements(n - 1) \cup {q[n]}
    <3>1. 1 .. n = (1 .. (n - 1)) \cup {n}
      BY <1>0, <1>3
    <3> QED
      BY <3>1
  <2>5. \A x : x \in Elements(n) \cap S
               <=> \E i \in 1 .. Len(first[n]) : first[n][i] = x
    <3> SUFFICES ASSUME NEW x
                 PROVE  x \in Elements(n) \cap S
                        <=> \E i \in 1 .. Len(first[n]) : first[n][i] = x
      OBVIOUS
    <3>1. x \in Elements(n) \cap S <=> x \in Elements(n - 1) \cap S \/ x = q[n]
      BY <1>3, <2>4
    <3>2. x \in Elements(n - 1) \cap S <=> \E i \in 1 .. Len(s) : s[i] = x
      BY <1>3
    <3>3. (\E i \in 1 .. Len(first[n]) : first[n][i] = x)
          <=> (\E i \in 1 .. Len(s) : s[i] = x) \/ x = q[n]
      <4> DEFINE r == first[n]
      <4>1. \A i \in 1 .. Len(s) : i \in 1 .. Len(r) /\ r[i] = s[i]
        BY <2>2, <2>3
      <4>2. Len(s) + 1 \in 1 .. Len(r) /\ r[Len(s) + 1] = q[n]
        BY <2>2, <2>3
      <4>3. \A i \in 1 .. Len(r) : i \in 1 .. Len(s) \/ i = Len(s) + 1
        BY <2>2, <2>3
      <4> HIDE DEF s, r
      <4>4. (\E i \in 1 .. Len(r) : r[i] = x) <=> (\E i \in 1 .. Len(s) : s[i] = x) \/ x = q[n]
        BY <4>1, <4>2, <4>3
      <4> QED
        BY <4>4 DEF r
    <3> QED
      BY <3>1, <3>2, <3>3
  <2>6. ASSUME IsInjective(q) PROVE q[n] \notin Elements(n - 1)
    <3> SUFFICES ASSUME NEW i \in 1 .. (n - 1) PROVE q[i] # q[n]
      OBVIOUS
    <3>1. i \in DOMAIN q /\ n \in DOMAIN q /\ i # n
      BY <1>0, <1>3
    <3> QED
      BY <2>6, <3>1 DEF IsInjective
  <2>7. ASSUME IsInjective(q), NEW i \in 1 .. Len(first[n]), NEW j \in 1 .. Len(first[n]),
               first[n][i] = first[n][j]
        PROVE  i = j
    <3>1. \A k \in 1 .. Len(s) : s[k] # q[n]
      BY <1>3, <2>6, <2>7
    <3>2. \A k, l \in 1 .. Len(s) : s[k] = s[l] => k = l
      BY <1>3, <2>7
    <3> HIDE DEF s
    <3> QED
      BY <2>2, <2>3, <2>7, <3>1, <3>2
  <2> QED
    BY <2>3, <2>5, <2>7
<1>4. ASSUME NEW n \in 0 .. Len(q), Good(n - 1), n # 0, q[n] \notin S PROVE Good(n)
  <2>1. first[n] = first[n - 1]
    BY <1>1, <1>4 DEF Step
  <2>2. Elements(n) \cap S = Elements(n - 1) \cap S
    <3>1. 1 .. n = (1 .. (n - 1)) \cup {n}
      BY <1>0, <1>4
    <3> QED
      BY <1>4, <3>1
  <2> HIDE DEF Elements
  <2> QED
    BY <1>4, <2>1, <2>2
<1>5. Good(0)
  <2>1. first[0] = <<>>
    BY <1>0, <1>1 DEF Step
  <2> QED
    BY <2>1
<1>6. ASSUME NEW x \in T, \A y \in T : x <= y PROVE FALSE
  <2>1. x \in 0 .. Len(q) /\ ~Good(x)
    BY <1>6
  <2> HIDE DEF Good
  <2>2. x # 0
    BY <1>5, <2>1
  <2>3. x - 1 \in 0 .. Len(q) /\ ~(x <= x - 1)
    BY <1>0, <2>1, <2>2
  <2>4. Good(x - 1)
    BY <1>6, <2>3
  <2> QED
    BY <1>3, <1>4, <2>1, <2>2, <2>4
<1>7. Good(Len(q))
  <2>1. T \subseteq Nat /\ Len(q) \in 0 .. Len(q)
    BY <1>0
  <2>2. T = {}
    <3> HIDE DEF T
    <3> QED
      BY <1>6, <2>1, Smallest
  <2> HIDE DEF Good
  <2> QED
    BY <2>1, <2>2
<1> DEFINE r == Select(q, S)
<1>8. r \in Seq(X) /\ DOMAIN r = 1 .. Len(r)
  BY <1>2, <1>7
<1>9. ToSet(q) = Elements(Len(q)) /\ ToSet(r) = {r[i] : i \in 1 .. Len(r)}
  BY <1>0, <1>8 DEF ToSet
<1>10. \A x : x \in ToSet(q) \cap S <=> x \in ToSet(r)
  <2> HIDE DEF Elements
  <2>1. \A x : x \in Elements(Len(q)) \cap S <=> \E i \in 1 .. Len(r) : r[i] = x
    BY <1>2, <1>7
  <2> HIDE DEF r
  <2> QED
    BY <1>9, <2>1
<1>11. IsInjective(q) => IsInjective(r)
  BY <1>2, <1>7, <1>8 DEF IsInjective
<1> QED
  BY <1>8, <1>10, <1>11

----------------------------------------------------------------------------
(* What a turn reports.                                                     *)

\* The positions reported run from nextRefused on, then from the first one up to
\* nextRefused: none twice, and no more than MAX_REFUSED_DESCRIPTORS.
LEMMA TakenFacts ==
    ASSUME nextRefused \in Nat, NEW X, NEW all \in Seq(X)
    PROVE  /\ Taken(all) \in Seq(X)
           /\ Len(Taken(all)) <= MaxRefused
           /\ MaxRefused \in Nat /\ MaxRefused <= EventsSize
           /\ \A i \in 1 .. Len(Taken(all)) : Taken(all)[i] \in ToSet(all)
           /\ IsInjective(all) => IsInjective(Taken(all))
<1> DEFINE n == Len(all)
           m == nextRefused
           f == FromNext(all)
           w == Wrapped(all)
           place(i) == IF i <= Len(f) THEN m + i ELSE i - Len(f)
<1>1. MaxRefused \in Nat /\ MaxRefused <= EventsSize /\ EventsSize \in Nat
  BY ConstantsAssumption DEF MaxRefused
<1>2. n \in Nat /\ m \in Nat /\ DOMAIN all = 1 .. n
  OBVIOUS
<1>3. /\ f \in Seq(X) /\ Len(f) \in Nat /\ Len(f) <= MaxRefused
      /\ \A i \in 1 .. Len(f) : m + i \in 1 .. n /\ f[i] = all[m + i]
  <2> DEFINE last == Min2(m + MaxRefused, n)
  <2>1. last \in Nat /\ last <= m + MaxRefused /\ last <= n
    BY <1>1, <1>2 DEF Min2
  <2>2. \A i \in m + 1 .. last : all[i] \in X
    BY <1>2, <2>1
  <2>3. f = SubSeq(all, m + 1, last)
    BY DEF FromNext
  <2> HIDE DEF f, last
  <2>4. /\ f \in Seq(X)
        /\ Len(f) = IF m + 1 <= last THEN last - (m + 1) + 1 ELSE 0
        /\ \A i \in 1 .. last - (m + 1) + 1 : f[i] = all[m + 1 + i - 1]
    BY <1>2, <2>1, <2>2, <2>3, SubSeqProperties
  <2> QED
    BY <1>1, <1>2, <2>1, <2>4
<1>4. /\ w \in Seq(X) /\ Len(w) \in Nat /\ Len(f) + Len(w) <= MaxRefused
      /\ Len(w) <= m
      /\ \A i \in 1 .. Len(w) : i \in 1 .. n /\ w[i] = all[i]
  <2> DEFINE last == Min2(Min2(m, n), MaxRefused - Len(f))
  <2> HIDE DEF f
  <2>1. /\ last \in Nat /\ last <= m /\ last <= n /\ last <= MaxRefused - Len(f)
    BY <1>1, <1>2, <1>3 DEF Min2
  <2>2. \A i \in 1 .. last : all[i] \in X
    BY <1>2, <2>1
  <2>3. w = SubSeq(all, 1, last)
    BY DEF Wrapped, f
  <2> HIDE DEF w, last
  <2>4. /\ w \in Seq(X)
        /\ Len(w) = IF 1 <= last THEN last - 1 + 1 ELSE 0
        /\ \A i \in 1 .. last - 1 + 1 : w[i] = all[1 + i - 1]
    BY <2>1, <2>2, <2>3, SubSeqProperties
  <2> QED
    BY <1>1, <1>2, <1>3, <2>1, <2>4
<1> DEFINE t == Taken(all)
<1> HIDE DEF f, w
<1>5. t = f \o w
  BY DEF Taken, f, w
<1> HIDE DEF t
<1>6. /\ t \in Seq(X) /\ Len(t) = Len(f) + Len(w)
      /\ \A i \in 1 .. Len(t) : place(i) \in 1 .. n /\ t[i] = all[place(i)]
  <2>1. /\ t \in Seq(X) /\ Len(t) = Len(f) + Len(w)
        /\ \A i \in 1 .. Len(t) : t[i] = IF i <= Len(f) THEN f[i] ELSE w[i - Len(f)]
    BY <1>3, <1>4, <1>5, ConcatProperties
  <2>2. ASSUME NEW i \in 1 .. Len(t) PROVE place(i) \in 1 .. n /\ t[i] = all[place(i)]
    <3>1. CASE i <= Len(f)
      <4>1. i \in 1 .. Len(f)
        BY <1>3, <2>1, <3>1
      <4> QED
        BY <1>3, <2>1, <3>1, <4>1
    <3>2. CASE ~(i <= Len(f))
      <4>1. i - Len(f) \in 1 .. Len(w)
        BY <1>3, <1>4, <2>1, <3>2
      <4> QED
        BY <1>4, <2>1, <3>2, <4>1
    <3> QED
      BY <3>1, <3>2
  <2> QED
    BY <2>1, <2>2
<1>7. ASSUME IsInjective(all), NEW i \in 1 .. Len(t), NEW j \in 1 .. Len(t), t[i] = t[j]
      PROVE  i = j
  <2>1. place(i) = place(j)
    BY <1>2, <1>6, <1>7 DEF IsInjective
  <2> QED
    BY <1>2, <1>3, <1>4, <1>6, <2>1
<1>8. DOMAIN t = 1 .. Len(t) /\ Len(t) <= MaxRefused
  BY <1>4, <1>6
<1>9. \A i \in 1 .. Len(t) : t[i] \in ToSet(all)
  BY <1>2, <1>6 DEF ToSet
<1> QED
  BY <1>1, <1>6, <1>7, <1>8, <1>9 DEF IsInjective, t

\* The descriptors of the list are those of its nodes.
LEMMA ListedFacts ==
    ASSUME descriptorList \in Seq(Nodes)
    PROVE  /\ Listed \subseteq Nodes
           /\ \A i \in 1 .. Len(descriptorList) : descriptorList[i] \in Listed
BY DEF Listed, ToSet

LEMMA ReportedFacts ==
    ASSUME TypeOK
    PROVE  /\ Reported \in Seq(Nodes) /\ Len(Reported) <= MaxRefused
           /\ MaxRefused \in Nat /\ MaxRefused <= EventsSize
           /\ \A i \in 1 .. Len(Reported) : Reported[i] \in Listed /\ IsRefused(Reported[i])
           /\ IsInjective(Reported)
           /\ NextPosition \in Nat
<1>1. /\ descriptorList \in Seq(Nodes) /\ IsInjective(descriptorList) /\ nextRefused \in Nat
  BY DEF TypeOK
<1> DEFINE S == {d \in Listed : IsRefused(d)}
           all == Refused
<1>2. /\ all \in Seq(Nodes) /\ IsInjective(all)
      /\ ToSet(all) = Listed \cap S
  <2> HIDE DEF S
  <2> QED
    BY <1>1, SelectFacts DEF Refused, S, Listed
<1> HIDE DEF all
<1>3. /\ Taken(all) \in Seq(Nodes) /\ Len(Taken(all)) <= MaxRefused
      /\ MaxRefused \in Nat /\ MaxRefused <= EventsSize
      /\ \A i \in 1 .. Len(Taken(all)) : Taken(all)[i] \in ToSet(all)
      /\ IsInjective(Taken(all))
  BY <1>1, <1>2, TakenFacts
<1>4. Reported = Taken(all)
  BY DEF Reported, all
<1>5. NextPosition \in Nat
  <2>1. Len(all) \in Nat
    BY <1>2
  <2>2. Wrapped(all) \in Seq(Nodes) /\ FromNext(all) \in Seq(Nodes)
    <3>1. \A i \in 1 .. Len(all) : all[i] \in Nodes
      BY <1>2
    <3>2. Min2(nextRefused + MaxRefused, Len(all)) \in Nat
          /\ Min2(nextRefused + MaxRefused, Len(all)) <= Len(all)
      BY <1>1, <1>3, <2>1 DEF Min2
    <3>3. FromNext(all) \in Seq(Nodes)
      BY <1>1, <2>1, <3>1, <3>2, SubSeqProperties DEF FromNext
    <3>4. LET last == Min2(Min2(nextRefused, Len(all)), MaxRefused - Len(FromNext(all)))
          IN last \in Int /\ last <= Len(all)
      BY <1>1, <1>3, <2>1, <3>3 DEF Min2
    <3>5. Wrapped(all) \in Seq(Nodes)
      BY <2>1, <3>1, <3>4, SubSeqProperties DEF Wrapped
    <3> QED
      BY <3>3, <3>5
  <2>3. Len(Wrapped(all)) \in Nat /\ nextRefused + Len(FromNext(all)) \in Nat
    BY <1>1, <2>2
  <2> QED
    BY <2>3 DEF NextPosition, all
<1> QED
  BY <1>2, <1>3, <1>4, <1>5
\* What may be said of the events of a batch before any is dispatched: each is of a node
\* of S and names its descriptor, and no node has two.
Names(q, S) ==
    /\ q \in Seq(IncomingEvents)
    /\ \A i \in 1 .. Len(q) :
          q[i].node # NULL => q[i].node \in S /\ q[i].of = node[q[i].node].fd
    /\ \A i, j \in 1 .. Len(q) : i # j /\ q[i].node # NULL => q[i].node # q[j].node

\* One event for each node of a sequence without repetitions.
LEMMA EventsFacts ==
    ASSUME TypeOK, NEW S \in SUBSET Nodes, NEW q \in Seq(Nodes), IsInjective(q),
           \A i \in 1 .. Len(q) : q[i] \in S,
           NEW e \in [1 .. Len(q) -> SUBSET {"IN", "OUT", "HUP"}]
    PROVE  /\ Names([i \in 1 .. Len(q) |-> Event(q[i], e[i])], S)
           /\ Len([i \in 1 .. Len(q) |-> Event(q[i], e[i])]) = Len(q)
<1> DEFINE r == [i \in 1 .. Len(q) |-> Event(q[i], e[i])]
<1>1. ASSUME NEW i \in 1 .. Len(q)
      PROVE  /\ Event(q[i], e[i]) \in IncomingEvents
             /\ Event(q[i], e[i]).node = q[i] /\ Event(q[i], e[i]).of = node[q[i]].fd
  BY DEF Event, IncomingEvents, TypeOK
<1>2. Len(q) \in Nat
  OBVIOUS
<1>3. /\ r \in Seq(IncomingEvents) /\ Len(r) = Len(q)
      /\ \A i \in 1 .. Len(q) : r[i].node = q[i] /\ r[i].of = node[q[i]].fd
  BY <1>1, <1>2
<1> HIDE DEF r
<1>4. \A i, j \in 1 .. Len(q) : i # j => q[i] # q[j]
  BY DEF IsInjective
<1>5. Names(r, S)
  BY <1>3, <1>4 DEF Names
<1> QED
  BY <1>3, <1>5 DEF r

LEMMA NamesConcat ==
    ASSUME NEW S, NEW T, S \cap T = {}, NULL \notin S \cup T,
           NEW q, NEW r, Names(q, S), Names(r, T)
    PROVE  Names(q \o r, S \cup T) /\ Len(q \o r) = Len(q) + Len(r)
<1>1. q \in Seq(IncomingEvents) /\ r \in Seq(IncomingEvents)
  BY DEF Names
<1> DEFINE t == q \o r
<1>2. /\ t \in Seq(IncomingEvents) /\ Len(t) = Len(q) + Len(r)
      /\ \A i \in 1 .. Len(t) : t[i] = IF i <= Len(q) THEN q[i] ELSE r[i - Len(q)]
  BY <1>1, ConcatProperties
<1> HIDE DEF t
<1>3. Len(q) \in Nat /\ Len(r) \in Nat
  BY <1>1
<1>4. \A i \in 1 .. Len(t) : \/ i \in 1 .. Len(q) /\ t[i] = q[i]
                             \/ i - Len(q) \in 1 .. Len(r) /\ t[i] = r[i - Len(q)]
  BY <1>2, <1>3
<1>5. \A i \in 1 .. Len(t) :
         t[i].node # NULL => t[i].node \in S \cup T /\ t[i].of = node[t[i].node].fd
  BY <1>4 DEF Names
<1>6. ASSUME NEW i \in 1 .. Len(t), NEW j \in 1 .. Len(t), i # j, t[i].node # NULL
      PROVE  t[i].node # t[j].node
  <2>1. CASE i \in 1 .. Len(q) /\ t[i] = q[i] /\ j \in 1 .. Len(q) /\ t[j] = q[j]
    BY <1>6, <2>1 DEF Names
  <2>2. CASE i \in 1 .. Len(q) /\ t[i] = q[i]
             /\ j - Len(q) \in 1 .. Len(r) /\ t[j] = r[j - Len(q)]
    BY <1>6, <2>2 DEF Names
  <2>3. CASE i - Len(q) \in 1 .. Len(r) /\ t[i] = r[i - Len(q)]
             /\ j \in 1 .. Len(q) /\ t[j] = q[j]
    BY <1>6, <2>3 DEF Names
  <2>4. CASE i - Len(q) \in 1 .. Len(r) /\ t[i] = r[i - Len(q)]
             /\ j - Len(q) \in 1 .. Len(r) /\ t[j] = r[j - Len(q)]
    <3>1. i - Len(q) # j - Len(q)
      BY <1>3, <1>6
    <3> QED
      BY <1>6, <2>4, <3>1 DEF Names
  <2> QED
    BY <1>4, <2>1, <2>2, <2>3, <2>4
<1>7. Names(t, S \cup T)
  BY <1>2, <1>5, <1>6 DEF Names
<1> QED
  BY <1>2, <1>7 DEF t

\* What fits into the array names what it named.
LEMMA NamesCut ==
    ASSUME NEW S, NEW q, Names(q, S), NEW n \in Nat
    PROVE  Names(Cut(q, n), S) /\ Len(Cut(q, n)) <= n /\ Len(Cut(q, n)) \in Nat
<1>1. q \in Seq(IncomingEvents) /\ Len(q) \in Nat
  BY DEF Names
<1> DEFINE last == Min2(Len(q), n)
           t == Cut(q, n)
<1>2. last \in Nat /\ last <= Len(q) /\ last <= n
  BY <1>1 DEF Min2
<1>3. \A i \in 1 .. last : q[i] \in IncomingEvents
  BY <1>1, <1>2
<1>4. t = SubSeq(q, 1, last)
  BY DEF Cut
<1> HIDE DEF t, last
<1>5. /\ t \in Seq(IncomingEvents)
      /\ Len(t) = IF 1 <= last THEN last - 1 + 1 ELSE 0
      /\ \A i \in 1 .. last - 1 + 1 : t[i] = q[1 + i - 1]
  BY <1>2, <1>3, <1>4, SubSeqProperties
<1>6. Len(t) = last /\ \A i \in 1 .. Len(t) : i \in 1 .. Len(q) /\ t[i] = q[i]
  BY <1>1, <1>2, <1>5
<1>7. Names(t, S)
  BY <1>5, <1>6 DEF Names
<1> QED
  BY <1>2, <1>6, <1>7 DEF t

\* epoll reports of the descriptors it watches.
LEMMA ReadyFacts ==
    ASSUME TypeOK, NEW woken \in BOOLEAN, NEW e \in Reports
    PROVE  Names(Ready(woken, e), Watched)
<1> DEFINE S == {d \in Watched : e[d] # {}}
           ready == Select(descriptorList, S)
           events == [i \in 1 .. Len(ready) |-> e[ready[i]]]
           told == [i \in 1 .. Len(ready) |-> Event(ready[i], events[i])]
<1>1. descriptorList \in Seq(Nodes) /\ IsInjective(descriptorList)
  BY DEF TypeOK
<1>2. Watched \subseteq Nodes /\ NULL \notin Watched
  BY <1>1, ListedFacts, ConstantsAssumption DEF Watched
<1>3. ready \in Seq(Nodes) /\ IsInjective(ready) /\ ToSet(ready) \subseteq S
  <2> HIDE DEF S
  <2> QED
    BY <1>1, SelectFacts
<1>4. \A i \in 1 .. Len(ready) : ready[i] \in Watched
  <2> HIDE DEF ready
  <2> QED
    BY <1>3 DEF ToSet
<1>5. events \in [1 .. Len(ready) -> SUBSET {"IN", "OUT", "HUP"}]
  <2> HIDE DEF ready
  <2> QED
    BY <1>4 DEF Reports
<1>6. Names(told, Watched)
  <2> HIDE DEF ready, events
  <2> QED
    BY <1>2, <1>3, <1>4, <1>5, EventsFacts
<1>7. told = [i \in 1 .. Len(ready) |-> Event(ready[i], e[ready[i]])]
  <2> HIDE DEF ready
  <2> QED
    OBVIOUS
<1>8. Names(<<>>, {}) /\ Names(<<Pipe>>, {})
  <2>1. Pipe \in IncomingEvents /\ Pipe.node = NULL
    BY DEF Pipe, IncomingEvents
  <2> QED
    BY <2>1 DEF Names
<1>9. Ready(woken, e) = (IF woken THEN <<Pipe>> ELSE <<>>) \o told
  BY <1>7 DEF Ready
<1> HIDE DEF told
<1>10. Names(Ready(woken, e), {} \cup Watched)
  BY <1>2, <1>6, <1>8, <1>9, NamesConcat
<1> QED
  BY <1>10
----------------------------------------------------------------------------
(* The steps.                                                               *)

\* An unfolded TypeOK, and what the list says of nodes and numbers.
LEMMA StateFacts ==
    ASSUME TypeOK, ListInv
    PROVE  /\ descriptorList \in Seq(Nodes) /\ IsInjective(descriptorList)
           /\ Listed \subseteq Nodes /\ NULL \notin Nodes /\ NULL \notin Fds
           /\ \A f \in Fds : IsListed(f) => /\ Find(f) \in Listed
                                            /\ node[Find(f)].fd = f
           /\ \A d \in Nodes : node[d].fd = NULL <=> d \notin Listed
<1>1. descriptorList \in Seq(Nodes) /\ IsInjective(descriptorList) /\ Listed \subseteq Nodes
  BY ListedFacts DEF TypeOK
<1>2. NULL \notin Nodes /\ NULL \notin Fds
  BY ConstantsAssumption
<1>3. \A f \in Fds : IsListed(f) => Find(f) \in Listed /\ node[Find(f)].fd = f
  BY DEF IsListed, Find
<1>4. \A d \in Nodes : node[d].fd = NULL <=> d \notin Listed
  BY <1>2 DEF ListInv, Empty
<1> QED
  BY <1>1, <1>2, <1>3, <1>4

\* A step that keeps the list, what is retired, the number of every node and the place of
\* the dispatch, and the batch with them, keeps the invariant.
LEMMA Rewrites ==
    ASSUME IInv,
           kind' \in [Fds -> {"pollable", "regular", "closed"}],
           node' \in [Nodes -> [fd : Fds \cup {NULL}, read : BOOLEAN, write : BOOLEAN,
                                mask : SUBSET {"R", "W", "X"}]],
           \A d \in Nodes : node'[d].fd = node[d].fd,
           \A d \in Nodes \ Listed : node'[d] = node[d],
           UNCHANGED <<descriptorList, retired, nextRefused, at, batch>>
    PROVE  IInv'
<1>1. Listed' = Listed /\ Listed \subseteq Nodes /\ retired \subseteq Nodes
  BY ListedFacts DEF Listed, IInv, TypeOK
<1>2. TypeOK'
  BY DEF IInv, TypeOK
<1>3. ListInv'
  BY <1>1 DEF IInv, ListInv
<1>4. TurnInv'
  BY DEF IInv, TurnInv, Subject
<1>5. BatchInv'
  BY <1>1 DEF IInv, BatchInv
<1> QED
  BY <1>2, <1>3, <1>4, <1>5 DEF IInv

LEMMA InitStep == ASSUME Init PROVE IInv
<1>1. Listed = {}
  BY DEF Init, Listed, ToSet
<1>2. EventsSize \in Nat
  BY ConstantsAssumption
<1>3. Empty \in [fd : Fds \cup {NULL}, read : BOOLEAN, write : BOOLEAN,
                 mask : SUBSET {"R", "W", "X"}]
  BY DEF Empty
<1>4. TypeOK
  BY <1>3, ConstantsAssumption DEF Init, TypeOK, IsInjective
<1> QED
  BY <1>1, <1>2, <1>4 DEF Init, IInv, ListInv, TurnInv, BatchInv

LEMMA AioEnableStep == ASSUME IInv, NEW f \in Fds, AioEnable(f) PROVE IInv'
<1> USE DEF IInv
<1>1. PICK d \in Nodes \ (Listed \cup retired) :
         /\ descriptorList' = <<d>> \o descriptorList
         /\ node' = [node EXCEPT ![d] = [Empty EXCEPT !.fd = f]]
  BY DEF AioEnable
<1>2. UNCHANGED <<kind, retired, nextRefused, at, batch>> /\ ~IsListed(f)
  BY DEF AioEnable
<1>3. /\ descriptorList \in Seq(Nodes) /\ IsInjective(descriptorList)
      /\ NULL \notin Nodes /\ NULL \notin Fds /\ Listed \subseteq Nodes
  BY StateFacts
<1>4. /\ descriptorList' \in Seq(Nodes) /\ Len(descriptorList') = Len(descriptorList) + 1
      /\ descriptorList'[1] = d
      /\ \A i \in 2 .. Len(descriptorList') :
            i - 1 \in 1 .. Len(descriptorList) /\ descriptorList'[i] = descriptorList[i - 1]
  BY <1>1, <1>3
<1>5. Listed' = Listed \cup {d}
  <2>1. Listed' = {descriptorList'[i] : i \in 1 .. Len(descriptorList')}
    <3>1. DOMAIN descriptorList' = 1 .. Len(descriptorList')
      BY <1>4
    <3> QED
      BY <3>1, Zenon DEF Listed, ToSet
  <2>2. Listed = {descriptorList[i] : i \in 1 .. Len(descriptorList)}
    BY <1>3 DEF Listed, ToSet
  <2>3. \A i \in 1 .. Len(descriptorList) :
           i + 1 \in 2 .. Len(descriptorList') /\ descriptorList'[i + 1] = descriptorList[i]
    BY <1>3, <1>4
  <2>4. \A i \in 1 .. Len(descriptorList') : i = 1 \/ i \in 2 .. Len(descriptorList')
    BY <1>4
  <2>5. 1 \in 1 .. Len(descriptorList')
    BY <1>3, <1>4
  <2> QED
    BY <1>4, <2>1, <2>2, <2>3, <2>4, <2>5
<1>6. IsInjective(descriptorList')
  <2>1. DOMAIN descriptorList' = 1 .. Len(descriptorList')
        /\ DOMAIN descriptorList = 1 .. Len(descriptorList)
    BY <1>3, <1>4
  <2>2. \A i \in 2 .. Len(descriptorList') : descriptorList'[i] \in Listed
    BY <1>3, <1>4, <2>1 DEF Listed, ToSet
  <2>3. \A i \in 1 .. Len(descriptorList') : i = 1 \/ i \in 2 .. Len(descriptorList')
    BY <1>4
  <2> SUFFICES ASSUME NEW i \in 1 .. Len(descriptorList'), NEW j \in 1 .. Len(descriptorList'),
                      descriptorList'[i] = descriptorList'[j]
               PROVE  i = j
    BY <2>1 DEF IsInjective
  <2>4. CASE i = 1 \/ j = 1
    BY <1>4, <2>2, <2>3, <2>4
  <2>5. CASE i # 1 /\ j # 1
    <3>1. i - 1 = j - 1
      BY <1>3, <1>4, <2>1, <2>3, <2>5 DEF IsInjective
    <3> QED
      BY <3>1
  <2> QED
    BY <2>4, <2>5
<1> DEFINE r == [Empty EXCEPT !.fd = f]
<1>7. r.fd = f /\ r \in [fd : Fds \cup {NULL}, read : BOOLEAN, write : BOOLEAN,
                         mask : SUBSET {"R", "W", "X"}]
  BY DEF Empty
<1>8. /\ node' \in [Nodes -> [fd : Fds \cup {NULL}, read : BOOLEAN, write : BOOLEAN,
                              mask : SUBSET {"R", "W", "X"}]]
      /\ node'[d].fd = f
      /\ \A e \in Nodes \ {d} : node'[e] = node[e]
  <2>1. node' = [node EXCEPT ![d] = r]
    BY <1>1
  <2> HIDE DEF r
  <2> QED
    BY <1>7, <2>1 DEF TypeOK
<1>9. TypeOK'
  BY <1>2, <1>4, <1>6, <1>8 DEF TypeOK
<1>10. ListInv'
  <2>1. \A e \in Listed : node'[e] = node[e] /\ node[e].fd # f
    BY <1>2, <1>3, <1>8 DEF IsListed
  <2> QED
    BY <1>2, <1>3, <1>5, <1>8, <2>1 DEF ListInv
<1>11. TurnInv'
  BY <1>2 DEF TurnInv, Subject
<1>12. BatchInv'
  <2>1. \A i \in 1 .. Len(batch) : batch[i].node # NULL =>
           batch[i].node # d /\ batch[i].node \in Nodes
    BY <1>3 DEF BatchInv, TypeOK
  <2> QED
    BY <1>2, <1>5, <1>8, <2>1 DEF BatchInv
<1> QED
  BY <1>9, <1>10, <1>11, <1>12

LEMMA AioHandleStep ==
    ASSUME IInv, NEW f \in Fds, NEW mask \in Masks[f], AioHandle(f, mask) PROVE IInv'
<1> DEFINE d == Find(f)
           r == [fd |-> f, read |-> "R" \in mask, write |-> "W" \in mask, mask |-> mask]
<1>1. /\ node' = [node EXCEPT ![d] = r] /\ IsListed(f)
      /\ UNCHANGED <<kind, descriptorList, retired, nextRefused, at, batch>>
  BY DEF AioHandle
<1>2. d \in Listed /\ d \in Nodes /\ node[d].fd = f
  BY <1>1, StateFacts DEF IInv
<1>3. mask \in SUBSET {"R", "W", "X"}
  BY ConstantsAssumption
<1>4. r \in [fd : Fds \cup {NULL}, read : BOOLEAN, write : BOOLEAN,
             mask : SUBSET {"R", "W", "X"}]
  BY <1>3
<1> HIDE DEF d
<1>5. \A e \in Nodes : node'[e] = IF e = d THEN r ELSE node[e]
  BY <1>1, <1>2 DEF IInv, TypeOK
<1>6. r.fd = f
  OBVIOUS
<1> HIDE DEF r
<1> QED
  BY <1>1, <1>2, <1>4, <1>5, <1>6, Rewrites DEF IInv, TypeOK

LEMMA AioSuspendStep ==
    ASSUME IInv, NEW f \in Fds, NEW mask \in Masks[f], AioSuspend(f, mask) PROVE IInv'
<1> DEFINE d == Find(f)
           r == [fd |-> f, read |-> node[d].read /\ "R" \notin mask,
                 write |-> node[d].write /\ "W" \notin mask, mask |-> node[d].mask \ mask]
<1>2. IsListed(f) /\ UNCHANGED <<kind, descriptorList, retired, nextRefused, at, batch>>
  BY DEF AioSuspend
<1>3. d \in Listed /\ d \in Nodes /\ node[d].fd = f
  BY <1>2, StateFacts DEF IInv
<1>1. node' = [node EXCEPT ![d] = r]
  BY <1>3 DEF AioSuspend, IInv, TypeOK
<1>4. r \in [fd : Fds \cup {NULL}, read : BOOLEAN, write : BOOLEAN,
             mask : SUBSET {"R", "W", "X"}]
  <2> HIDE DEF d
  <2>1. node[d].mask \in SUBSET {"R", "W", "X"}
    BY <1>3 DEF IInv, TypeOK
  <2> QED
    BY <2>1
<1>5. r.fd = f
  OBVIOUS
<1> HIDE DEF d, r
<1>6. \A e \in Nodes : node'[e] = IF e = d THEN r ELSE node[e]
  BY <1>1, <1>3 DEF IInv, TypeOK
<1> QED
  BY <1>1, <1>2, <1>3, <1>4, <1>5, <1>6, Rewrites DEF IInv, TypeOK
\* What Retire makes of the memory of some descriptors.
LEMMA RetireFacts ==
    ASSUME TypeOK, NEW ds \in SUBSET Nodes, Retire(ds)
    PROVE  /\ node' \in [Nodes -> [fd : Fds \cup {NULL}, read : BOOLEAN, write : BOOLEAN,
                                   mask : SUBSET {"R", "W", "X"}]]
           /\ \A d \in Nodes : node'[d] = IF d \in ds THEN Empty ELSE node[d]
           /\ retired' = IF at = "image" THEN {} ELSE retired \cup ds
           /\ retired' \subseteq Nodes
<1>1. Empty \in [fd : Fds \cup {NULL}, read : BOOLEAN, write : BOOLEAN,
                 mask : SUBSET {"R", "W", "X"}]
  BY DEF Empty
<1>2. \A d \in Nodes : node'[d] = IF d \in ds THEN Empty ELSE node[d]
  BY DEF Retire
<1>3. node' = [d \in Nodes |-> IF d \in ds THEN Empty ELSE node[d]]
  BY DEF Retire
<1>4. retired' = IF at = "image" THEN {} ELSE retired \cup ds
  BY DEF Retire
<1>5. node' \in [Nodes -> [fd : Fds \cup {NULL}, read : BOOLEAN, write : BOOLEAN,
                           mask : SUBSET {"R", "W", "X"}]]
  <2> HIDE DEF Empty
  <2> QED
    BY <1>1, <1>3 DEF TypeOK
<1> QED
  BY <1>2, <1>4, <1>5 DEF TypeOK

\* Descriptors leave the list and are retired: an event that was for one of them finds it
\* still parked, and nobody's.
LEMMA Retires ==
    ASSUME IInv, NEW ds \in SUBSET Nodes, Retire(ds),
           descriptorList' \in Seq(Nodes), IsInjective(descriptorList'),
           Listed' = Listed \ ds, ds \subseteq Listed,
           UNCHANGED <<kind, nextRefused, at, batch>>
    PROVE  IInv'
<1> USE DEF IInv
<1>1. /\ node' \in [Nodes -> [fd : Fds \cup {NULL}, read : BOOLEAN, write : BOOLEAN,
                              mask : SUBSET {"R", "W", "X"}]]
      /\ \A d \in Nodes : node'[d] = IF d \in ds THEN Empty ELSE node[d]
      /\ retired' = IF at = "image" THEN {} ELSE retired \cup ds
      /\ retired' \subseteq Nodes
  BY RetireFacts
<1>2. Listed \subseteq Nodes /\ NULL \notin Nodes
  BY StateFacts
<1>3. TypeOK'
  BY <1>1 DEF TypeOK
<1>4. ListInv'
  BY <1>1, <1>2 DEF ListInv
<1>5. TurnInv'
  BY <1>1 DEF TurnInv, Subject
<1>6. BatchInv'
  <2>1. at = "image" => batch = <<>>
    BY DEF TurnInv
  <2>2. ASSUME at # "image", NEW i \in 1 .. Len(batch), batch[i].node # NULL
        PROVE  /\ batch[i].node \in Listed' \cup retired'
               /\ node'[batch[i].node].fd \in {batch[i].of, NULL}
    <3>1. batch[i].node \in Listed \cup retired /\ batch[i].node \in Nodes
          /\ node[batch[i].node].fd \in {batch[i].of, NULL}
      BY <1>2, <2>2 DEF BatchInv, TypeOK
    <3>2. Empty.fd = NULL
      BY DEF Empty
    <3> QED
      BY <1>1, <2>2, <3>1, <3>2
  <2>3. Len(<<>>) = 0
    OBVIOUS
  <2> QED
    BY <2>1, <2>2, <2>3 DEF BatchInv
<1> QED
  BY <1>3, <1>4, <1>5, <1>6

LEMMA AioDisableStep == ASSUME IInv, NEW f \in Fds, AioDisable(f) PROVE IInv'
<1> DEFINE d == Find(f)
           S == Nodes \ {d}
<1>1. /\ IsListed(f) /\ descriptorList' = Select(descriptorList, S)
      /\ Retire({d}) /\ UNCHANGED <<kind, nextRefused, at, batch>>
  BY DEF AioDisable
<1>2. /\ d \in Listed /\ Listed \subseteq Nodes
      /\ descriptorList \in Seq(Nodes) /\ IsInjective(descriptorList)
  BY <1>1, StateFacts DEF IInv
<1>3. /\ descriptorList' \in Seq(Nodes) /\ IsInjective(descriptorList')
      /\ ToSet(descriptorList') = ToSet(descriptorList) \cap S
  <2> HIDE DEF S
  <2> QED
    BY <1>1, <1>2, SelectFacts
<1>4. Listed' = Listed \ {d}
  BY <1>2, <1>3 DEF Listed
<1> HIDE DEF d
<1>5. {d} \in SUBSET Nodes /\ {d} \subseteq Listed
  BY <1>2
<1> QED
  BY <1>1, <1>3, <1>4, <1>5, Retires

LEMMA AioFiniStep == ASSUME IInv, AioFini PROVE IInv'
<1>1. /\ descriptorList' = <<>> /\ Retire(Listed)
      /\ UNCHANGED <<kind, nextRefused, at, batch>>
  BY DEF AioFini
<1>2. Listed \in SUBSET Nodes
  BY StateFacts DEF IInv
<1>3. Listed' = {} /\ IsInjective(<<>>) /\ <<>> \in Seq(Nodes)
  BY <1>1 DEF Listed, ToSet, IsInjective
<1> QED
  BY <1>1, <1>2, <1>3, Retires

LEMMA CloseUnderneathStep == ASSUME IInv, NEW f \in Fds, CloseUnderneath(f) PROVE IInv'
<1>1. /\ kind' = [kind EXCEPT ![f] = "closed"]
      /\ UNCHANGED <<descriptorList, node, retired, nextRefused, at, batch>>
  BY DEF CloseUnderneath
<1>2. kind' \in [Fds -> {"pollable", "regular", "closed"}]
  BY <1>1 DEF IInv, TypeOK
<1> QED
  BY <1>1, <1>2, Rewrites DEF IInv, TypeOK

\* A turn: the answer of epoll and the refused ones, which epoll does not watch.
LEMMA PollStep == ASSUME IInv, Poll PROVE IInv'
<1> USE DEF IInv
<1> DEFINE refused == {d \in Listed : IsRefused(d)}
           n == Len(Reported)
           asked == [i \in 1 .. n |->
                       (IF node[Reported[i]].read THEN {"IN"} ELSE {})
                       \cup (IF node[Reported[i]].write THEN {"OUT"} ELSE {})]
           told == [i \in 1 .. n |-> Event(Reported[i], asked[i])]
<1>1. /\ at = "image" /\ nextRefused' = NextPosition
      /\ UNCHANGED <<kind, descriptorList, node, retired>>
      /\ at' = IF batch' = <<>> THEN "image" ELSE "event"
  BY DEF Poll
<1>2. /\ Reported \in Seq(Nodes) /\ n <= MaxRefused /\ n \in Nat
      /\ MaxRefused \in Nat /\ MaxRefused <= EventsSize /\ EventsSize \in Nat
      /\ \A i \in 1 .. n : Reported[i] \in refused
      /\ IsInjective(Reported) /\ NextPosition \in Nat
  BY ReportedFacts, ConstantsAssumption
<1>3. Listed \subseteq Nodes /\ NULL \notin Nodes
  BY StateFacts
<1>4. Names(told, refused) /\ Len(told) = n
  <2>1. asked \in [1 .. n -> SUBSET {"IN", "OUT", "HUP"}]
    OBVIOUS
  <2>2. refused \in SUBSET Nodes
    BY <1>3
  <2> HIDE DEF asked, refused
  <2> QED
    BY <1>2, <2>1, <2>2, EventsFacts
<1>5. told = [i \in 1 .. n |-> RefusedEvent(Reported[i])]
  BY DEF RefusedEvent
<1>6. PICK answer \in Answers(EventsSize - n) : batch' = answer \o told
  BY <1>5, Zenon DEF Poll
<1>7. PICK woken \in BOOLEAN, e \in Reports : answer = Cut(Ready(woken, e), EventsSize - n)
  BY <1>6 DEF Answers
<1>8. EventsSize - n \in Nat
  BY <1>2
<1> HIDE DEF told, n
<1>9. Names(answer, Watched) /\ Len(answer) <= EventsSize - n /\ Len(answer) \in Nat
  BY <1>7, <1>8, ReadyFacts, NamesCut
<1>10. Watched \cap refused = {} /\ NULL \notin Watched \cup refused
  BY <1>3 DEF Watched, IsRefused
<1>11. Names(batch', Watched \cup refused) /\ Len(batch') = Len(answer) + Len(told)
  <2>1. Names(told, refused) /\ Names(answer, Watched)
    BY <1>4, <1>9
  <2>2. batch' = answer \o told
    BY <1>6
  <2> HIDE DEF refused
  <2> QED
    BY <1>10, <2>1, <2>2, NamesConcat
<1>12. Watched \cup refused \subseteq Listed
  BY DEF Watched
<1> HIDE DEF refused
<1>13. Len(batch') <= EventsSize
  BY <1>2, <1>4, <1>9, <1>11
<1>14. batch' \in Seq(IncomingEvents)
  BY <1>11 DEF Names
<1>15. TypeOK'
  BY <1>1, <1>2, <1>14 DEF TypeOK, IncomingEvents
<1>16. Listed' = Listed
  BY <1>1 DEF Listed
<1>17. ListInv'
  BY <1>1, <1>16 DEF ListInv
<1>18. TurnInv'
  BY <1>1 DEF TurnInv
<1>19. BatchInv'
  BY <1>1, <1>11, <1>12, <1>13, <1>16 DEF BatchInv, Names
<1> QED
  BY <1>15, <1>17, <1>18, <1>19

\* The event at hand is done with.
LEMMA PopStep ==
    ASSUME IInv, batch # <<>>, Pop, at # "image",
           UNCHANGED <<kind, descriptorList, node, retired, nextRefused>>
    PROVE  IInv'
<1> USE DEF IInv
<1>1. batch \in Seq(IncomingEvents) /\ batch' = Tail(batch) /\ at' = "event"
  BY DEF TypeOK, IncomingEvents, Pop
<1>2. /\ batch' \in Seq(IncomingEvents) /\ Len(batch') = Len(batch) - 1
      /\ \A i \in 1 .. Len(batch') : i + 1 \in 1 .. Len(batch) /\ batch'[i] = batch[i + 1]
  BY <1>1
<1>3. Listed' = Listed
  BY DEF Listed
<1>4. TypeOK'
  BY <1>1, <1>2 DEF TypeOK, IncomingEvents
<1>5. ListInv'
  BY <1>3 DEF ListInv
<1>6. TurnInv'
  BY <1>1 DEF TurnInv
<1>7. BatchInv'
  <2>1. Len(batch) \in Nat /\ EventsSize \in Nat
    BY <1>1, ConstantsAssumption
  <2>2. \A i, j \in 1 .. Len(batch') : i # j => i + 1 # j + 1
    BY <1>2
  <2>3. Len(batch') <= EventsSize
    BY <1>2, <2>1 DEF BatchInv
  <2>4. \A i \in 1 .. Len(batch') :
           batch'[i].node # NULL => /\ batch'[i].node \in Listed' \cup retired'
                                    /\ node'[batch'[i].node].fd \in {batch'[i].of, NULL}
    BY <1>2, <1>3 DEF BatchInv
  <2>5. \A i, j \in 1 .. Len(batch') :
           i # j /\ batch'[i].node # NULL => batch'[i].node # batch'[j].node
    BY <1>2, <2>2 DEF BatchInv
  <2> QED
    BY <2>3, <2>4, <2>5 DEF BatchInv
<1> QED
  BY <1>4, <1>5, <1>6, <1>7

LEMMA TakeEventStep == ASSUME IInv, TakeEvent PROVE IInv'
<1> USE DEF IInv
<1> DEFINE d == Subject
<1>0. node' = [node EXCEPT ![d].mask = {}]
  BY DEF TakeEvent
<1>1. /\ at = "event" /\ batch # <<>> /\ d # NULL
      /\ at' \in {"read handler", "write"}
      /\ UNCHANGED <<kind, descriptorList, retired, nextRefused, batch>>
  BY DEF TakeEvent
<1>2. \A i \in 1 .. Len(batch) : batch[i].node # NULL => batch[i].node \in Nodes
  <2>1. batch \in Seq(IncomingEvents)
    BY DEF TypeOK, IncomingEvents
  <2>2. \A i \in 1 .. Len(batch) : batch[i] \in IncomingEvents
    BY <2>1
  <2> QED
    BY <2>2 DEF IncomingEvents
<1>3. d \in Nodes
  <2>1. batch \in Seq(IncomingEvents)
    BY DEF TypeOK, IncomingEvents
  <2>2. batch # <<>>
    BY <1>1
  <2>3. 1 \in 1 .. Len(batch)
    BY <2>1, <2>2, EmptySeq
  <2> QED
    BY <1>1, <1>2, <2>3 DEF Subject
<1> DEFINE r == [node[d] EXCEPT !.mask = {}]
<1>4. r.fd = node[d].fd /\ r \in [fd : Fds \cup {NULL}, read : BOOLEAN, write : BOOLEAN,
                                  mask : SUBSET {"R", "W", "X"}]
  BY <1>3 DEF TypeOK
<1>5. node' = [node EXCEPT ![d] = r]
  BY <1>0
<1> HIDE DEF d, r
<1>6. /\ node' \in [Nodes -> [fd : Fds \cup {NULL}, read : BOOLEAN, write : BOOLEAN,
                              mask : SUBSET {"R", "W", "X"}]]
      /\ \A e \in Nodes : node'[e] = IF e = d THEN r ELSE node[e]
  BY <1>3, <1>4, <1>5 DEF TypeOK
<1>7. Listed' = Listed
  BY <1>1 DEF Listed
<1>8. d \in Listed
  <2>1. node[d].fd # NULL
    BY DEF TakeEvent, d
  <2> QED
    BY <1>3, <2>1, StateFacts
<1>9. TypeOK'
  BY <1>1, <1>6 DEF TypeOK
<1>10. ListInv'
  <2>1. /\ Listed \subseteq Nodes /\ \A e \in Nodes : node'[e].fd = node[e].fd
        /\ \A e \in Nodes \ Listed : node'[e] = node[e]
    BY <1>4, <1>6, <1>8, StateFacts
  <2>2. UNCHANGED retired
    BY <1>1
  <2>3. \A e \in Nodes \ Listed' : node'[e] = Empty
    BY <1>7, <2>1 DEF ListInv
  <2>4. \A c \in Listed' : node'[c].fd \in Fds
    BY <1>7, <2>1 DEF ListInv
  <2>5. \A c, e \in Listed' : node'[c].fd = node'[e].fd => c = e
    BY <1>7, <2>1 DEF ListInv
  <2>6. retired' \cap Listed' = {}
    BY <1>7, <2>2 DEF ListInv
  <2> QED
    BY <2>3, <2>4, <2>5, <2>6 DEF ListInv, Empty
<1>11. TurnInv'
  BY <1>1 DEF TurnInv, Subject, d
<1>12. BatchInv'
  BY <1>1, <1>2, <1>4, <1>6, <1>7 DEF BatchInv
<1> QED
  BY <1>9, <1>10, <1>11, <1>12

\* A step of the dispatch that changes nothing but where it is.
LEMMA MovesOn ==
    ASSUME IInv, at' \in {"write", "write handler"}, at \in {"read handler", "write"},
           UNCHANGED <<kind, descriptorList, node, retired, nextRefused, batch>>
    PROVE  IInv'
<1> USE DEF IInv
<1>1. Listed' = Listed
  BY DEF Listed
<1>2. TypeOK' /\ ListInv' /\ BatchInv'
  BY <1>1 DEF TypeOK, ListInv, BatchInv
<1>3. TurnInv'
  BY DEF TurnInv, Subject
<1> QED
  BY <1>2, <1>3

LEMMA EndBatchStep == ASSUME IInv, EndBatch PROVE IInv'
<1> USE DEF IInv
<1>1. /\ batch = <<>> /\ retired' = {} /\ at' = "image"
      /\ UNCHANGED <<kind, descriptorList, node, nextRefused, batch>>
  BY DEF EndBatch
<1>2. Listed' = Listed
  BY <1>1 DEF Listed
<1>3. TypeOK' /\ ListInv' /\ TurnInv'
  BY <1>1, <1>2 DEF TypeOK, ListInv, TurnInv
<1>4. BatchInv'
  BY <1>1 DEF BatchInv
<1> QED
  BY <1>3, <1>4

LEMMA TurnStep == ASSUME IInv, Turn PROVE IInv'
<1>1. CASE SkipEvent
  BY <1>1, PopStep DEF SkipEvent
<1>2. CASE TakeEvent
  BY <1>2, TakeEventStep
<1>3. CASE ReadReturns
  BY <1>3, MovesOn DEF ReadReturns
<1>4. CASE CallWrite
  <2>1. /\ at = "write" /\ batch # <<>>
        /\ UNCHANGED <<kind, descriptorList, node, retired, nextRefused>>
        /\ (at' = "write handler" /\ UNCHANGED batch) \/ Pop
    BY <1>4 DEF CallWrite, IInv, TurnInv
  <2> QED
    BY <2>1, PopStep, MovesOn
<1>5. CASE WriteReturns
  <2>1. at = "write handler" /\ batch # <<>>
    BY <1>5 DEF WriteReturns, IInv, TurnInv
  <2> QED
    BY <1>5, <2>1, PopStep DEF WriteReturns
<1>6. CASE EndBatch
  BY <1>6, EndBatchStep
<1> QED
  BY <1>1, <1>2, <1>3, <1>4, <1>5, <1>6 DEF Turn

LEMMA ClientStep == ASSUME IInv, Client PROVE IInv'
<1>1. ASSUME NEW f \in Fds, AioEnable(f) \/ AioDisable(f) \/ CloseUnderneath(f) PROVE IInv'
  BY <1>1, AioEnableStep, AioDisableStep, CloseUnderneathStep
<1>2. ASSUME NEW f \in Fds, NEW mask \in Masks[f], AioHandle(f, mask) \/ AioSuspend(f, mask)
      PROVE  IInv'
  BY <1>2, AioHandleStep, AioSuspendStep
<1> QED
  BY <1>1, <1>2, AioFiniStep DEF Client

LEMMA NextStep == ASSUME IInv, [Next]_vars PROVE IInv'
<1>1. CASE UNCHANGED vars
  <2>1. Listed' = Listed /\ UNCHANGED <<kind, descriptorList, node, retired, nextRefused,
                                        at, batch>>
    BY <1>1 DEF vars, Listed
  <2> QED
    BY <2>1 DEF IInv, TypeOK, ListInv, TurnInv, BatchInv, Subject
<1> QED
  BY <1>1, ClientStep, PollStep, TurnStep DEF Next

LEMMA Invariance == Spec => []IInv
BY InitStep, NextStep, PTL DEF Spec, SafeSpec

----------------------------------------------------------------------------
\* The state keeps its type.
THEOREM TypeCorrect == Spec => []TypeOK
<1>1. IInv => TypeOK
  BY DEF IInv
<1> QED
  BY <1>1, Invariance, PTL

\* However many descriptors there are, and whatever the handlers of a batch enable and
\* disable: no event leads to freed memory or to another descriptor, the events fit into
\* the array, and no descriptor is reported twice in a turn.
THEOREM EventsReachTheirDescriptors == Spec => []EventsNameLiveNodes
<1>1. IInv => EventsNameLiveNodes
  BY ReportedFacts DEF IInv, BatchInv, EventsNameLiveNodes
<1> QED
  BY <1>1, Invariance, PTL

(***************************************************************************)
(* IdlePoll.                                                               *)
(***************************************************************************)


\* isPooling is up for as long as the VM relies on signallers seeing it.
PoolingInv ==
    vm \in {"recheckPending", "recheckCheck", "epoll", "clearPooling"} => isPooling

PollIInv == PollTypeOK /\ PoolingInv /\ NoMissedWakeup /\ HeartbeatNotStuck

\* A wait of zero is among the timeouts.
LEMMA NoWait == 0 \in Waits \cup {0} /\ 0 \in Millis
<1>1. 0 = 0 \div 1000
  OBVIOUS
<1> QED
  BY <1>1 DEF Millis

\* The inductive invariant holds at first.
LEMMA InductiveInit == PollInit => PollIInv
<1> SUFFICES ASSUME PollInit PROVE PollIInv
  OBVIOUS
<1> USE PollAssumption DEF PollInit
<1>1. PollTypeOK
  <2>1. 0 \in 0 .. PipeSize /\ 0 \in 0 .. MaxTokens
    OBVIOUS
  <2> QED
    BY <2>1, NoWait DEF PollTypeOK
<1> QED
  BY <1>1 DEF PollIInv, PoolingInv, NoMissedWakeup, HeartbeatNotStuck

\* No step of a signaller breaks it.
LEMMA SignallerKeeps ==
    ASSUME PollIInv, NEW s \in Signallers, SetCheck(s) \/ SignallerStep(s)
    PROVE  PollIInv'
<1> USE PollAssumption
    DEF PollIInv, PollTypeOK, PoolingInv, NoMissedWakeup, HeartbeatNotStuck, Awake, Goto,
        aioVars, stopVars, waitVars
<1>1. CASE SetCheck(s)
  BY <1>1 DEF SetCheck
<1>2. CASE ForceCheck(s)
  BY <1>2 DEF ForceCheck
<1>3. CASE ReadPooling(s)
  BY <1>3 DEF ReadPooling
<1>4. CASE WritePipe(s)
  BY <1>4 DEF WritePipe
<1>5. CASE SetPending(s)
  BY <1>5 DEF SetPending
<1> QED
  BY <1>1, <1>2, <1>3, <1>4, <1>5 DEF SignallerStep

\* No step of the VM thread breaks it.
LEMMA VMKeeps == ASSUME PollIInv, VMStep \/ EpollReturn PROVE PollIInv'
<1> USE PollAssumption, NoWait
    DEF PollIInv, PollTypeOK, PoolingInv, NoMissedWakeup, HeartbeatNotStuck, Awake, VMGoto,
        aioVars, stopVars, waitVars
<1>1. ASSUME NEW w \in Waits, Relinquish(w)
      PROVE  PollIInv'
  BY <1>1 DEF Relinquish
<1>2. CASE Interpret \/ EnterCheck \/ RefuseCheck
  <2>1. vm' \in {"interpret", "eventCheck", "relinquish"} /\ forced' \in BOOLEAN
    BY <1>2 DEF Interpret, EnterCheck, RefuseCheck
  <2>2. /\ UNCHANGED <<check, pending, isPooling, pipe, polling, stopped, tokens, held>>
        /\ UNCHANGED <<pc, micros, millis, beat>>
    BY <1>2 DEF Interpret, EnterCheck, RefuseCheck
  <2>3. PollTypeOK'
    BY <2>1, <2>2
  <2>4. PoolingInv' /\ NoMissedWakeup'
    BY <2>1
  <2>5. HeartbeatNotStuck'
    BY <2>2
  <2> QED
    BY <2>3, <2>4, <2>5
<1>3. CASE EventCheck
  BY <1>3 DEF EventCheck
<1>4. CASE ExchangePending
  BY <1>4 DEF ExchangePending
<1>5. CASE IsPendingSemaphores
  BY <1>5 DEF IsPendingSemaphores
<1>6. CASE PollEnter
  BY <1>6 DEF PollEnter, Millis
<1>7. CASE SetPooling
  BY <1>7 DEF SetPooling
<1>8. CASE RecheckPending
  BY <1>8 DEF RecheckPending
<1>9. CASE RecheckCheck
  BY <1>9 DEF RecheckCheck
<1>10. CASE EpollReturn
  BY <1>10 DEF EpollReturn
<1>11. CASE ClearPooling
  BY <1>11 DEF ClearPooling
<1>12. CASE ClearPending
  BY <1>12 DEF ClearPending
<1>13. CASE PollExit
  <2>1. /\ vm' = "flushPending"
        /\ UNCHANGED <<check, forced, pending, isPooling, pipe, pc, micros, millis, beat, stopped>>
    BY <1>13 DEF PollExit
  <2>2. CASE micros <= 1000 /\ ~polling
    BY <1>13, <2>1, <2>2 DEF PollExit
  <2>3. CASE ~ (micros <= 1000 /\ ~polling)
    <3>1. /\ polling' = FALSE /\ held' = FALSE
          /\ tokens' = IF stopped /\ tokens < MaxTokens THEN tokens + 1 ELSE tokens
      BY <1>13, <2>3 DEF PollExit
    <3>2. tokens' \in 0 .. MaxTokens /\ (tokens > 0 \/ stopped => tokens' > 0)
      BY <3>1
    <3> QED
      BY <2>1, <3>1, <3>2
  <2> QED
    BY <2>2, <2>3
<1>14. CASE FlushPending
  BY <1>14 DEF FlushPending
<1>15. CASE FlushPipe
  BY <1>15 DEF FlushPipe
<1> QED
  BY <1>1, <1>2, <1>3, <1>4, <1>5, <1>6, <1>7, <1>8, <1>9, <1>10, <1>11, <1>12, <1>13, <1>14, <1>15 DEF VMStep

\* No step of the heartbeat thread breaks it.
LEMMA HeartbeatKeeps == ASSUME PollIInv, HeartbeatStep PROVE PollIInv'
<1> USE PollAssumption
    DEF PollIInv, PollTypeOK, PoolingInv, NoMissedWakeup, HeartbeatNotStuck, Awake, BeatGoto,
        aioVars, stopVars, waitVars
<1>1. CASE WakeUp
  BY <1>1 DEF WakeUp
<1>2. CASE TestPolling
  BY <1>2 DEF TestPolling
<1>3. CASE PassSemaphore
  BY <1>3 DEF PassSemaphore
<1>4. CASE Beat
  BY <1>4 DEF Beat
<1> QED
  BY <1>1, <1>2, <1>3, <1>4 DEF HeartbeatStep

\* No step at all breaks it.
LEMMA InductiveStep == PollIInv /\ [PollNext]_pollVars => PollIInv'
<1> SUFFICES ASSUME PollIInv, [PollNext]_pollVars PROVE PollIInv'
  OBVIOUS
<1>1. CASE UNCHANGED pollVars
  BY <1>1 DEF pollVars, aioVars, stopVars, waitVars, PollIInv, PollTypeOK, PoolingInv, NoMissedWakeup,
              HeartbeatNotStuck, Awake
<1> QED
  BY <1>1, SignallerKeeps, VMKeeps, HeartbeatKeeps DEF PollNext

\* Every variable keeps its type: no timeout in milliseconds is ever a wait of the
\* idle process that was not converted.
THEOREM PollTypeCorrect == PollSafeSpec => []PollTypeOK
<1>1. PollIInv => PollTypeOK
  BY DEF PollIInv
<1> QED
  BY InductiveInit, InductiveStep, <1>1, PTL DEF PollSafeSpec

\* The VM thread never sleeps in epoll_wait over a request that was announced
\* unless its wake-up is in the pipe or on its way there.
THEOREM WakeupNeverMissed == PollSafeSpec => []NoMissedWakeup
<1>1. PollIInv => NoMissedWakeup
  BY DEF PollIInv
<1> QED
  BY InductiveInit, InductiveStep, <1>1, PTL DEF PollSafeSpec

\* The heartbeat thread waits only for a token that is there or that the poll
\* in progress is bound to give when it ends.
THEOREM HeartbeatNeverStuck == PollSafeSpec => []HeartbeatNotStuck
<1>1. PollIInv => HeartbeatNotStuck
  BY DEF PollIInv
<1> QED
  BY InductiveInit, InductiveStep, <1>1, PTL DEF PollSafeSpec
==============================================================================
