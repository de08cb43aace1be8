------------------------------ MODULE ScavengerProofs ------------------------------
(********************************************************************************************)
(* Scavenger: the roots and the permanent objects are mapped, the survivor spaces exchanged, *)
(* the image allocates, stores and takes mourners, and the invariant of ScavengerInvariant   *)
(* holds of every state.  From it: the types, that the remembered sets are sound whenever the *)
(* image runs, and that a scavenge leaves no reference to what it frees.                     *)
(********************************************************************************************)
EXTENDS ScavengerInvariant, TLAPS, SequenceTheorems, FiniteSetTheorems, WellFoundedInduction

\* Mapping a list of references is the iteration of mapping one.
LEMMA RemapFold ==
    ASSUME NEW m, NEW s, Len(s) \in Nat,
           NEW g, g \in [0 .. Len(s) -> Memories], g[0] = m,
           \A i \in 1 .. Len(s) : g[i] = Remap(g[i - 1], s[i])
    PROVE  ForEach(m, s, Remap) = g[Len(s)]
<1> DEFINE N == Len(s)
           F(n, a) == Remap(n, a)
           Is(h) == h = [i \in 0 .. N |-> IF i = 0 THEN m ELSE With(h[i - 1], LAMBDA n : F(n, s[i]))]
           f == CHOOSE h : Is(h)
<1>1. ForEach(m, s, Remap) = f[N]
  BY DEF ForEach
<1>2. \A i \in 1 .. N : g[i] = F(g[i - 1], s[i])
  OBVIOUS
<1> HIDE DEF F, N
<1>3. N \in Nat /\ g \in [0 .. N -> Memories]
  BY DEF N
<1>4. Is(g)
  <2>1. \A i \in 0 .. N : g[i] = IF i = 0 THEN m ELSE With(g[i - 1], LAMBDA n : F(n, s[i]))
    <3> TAKE i \in 0 .. N
    <3>1. CASE i = 0
      BY <3>1
    <3>2. CASE i \in 1 .. N
      <4>1. g[i] = F(g[i - 1], s[i])
        BY <1>2, <3>2
      <4> QED
        BY <3>2, <4>1 DEF With
    <3> QED
      BY <1>3, <3>1, <3>2
  <2>2. g = [i \in 0 .. N |-> g[i]]
    BY <1>3
  <2> QED
    BY Zenon, <2>1, <2>2
<1>5. Is(f)
  BY <1>4
<1> HIDE DEF f
<1>6. f = [i \in 0 .. N |-> IF i = 0 THEN m ELSE With(f[i - 1], LAMBDA n : F(n, s[i]))]
  BY Zenon, <1>5
<1>7. f[0] = m /\ \A i \in 1 .. N : f[i] = F(f[i - 1], s[i])
  <2>1. f[0] = m
    BY <1>3, <1>6
  <2>2. ASSUME NEW i \in 1 .. N PROVE f[i] = F(f[i - 1], s[i])
    <3>0. i \in 0 .. N /\ i # 0
      BY <1>3
    <3>1. f[i] = With(f[i - 1], LAMBDA n : F(n, s[i]))
      BY Zenon, <1>6, <3>0
    <3> QED
      BY <3>1 DEF With
  <2> QED
    BY <2>1, <2>2
<1> DEFINE T == {i \in 0 .. N : f[i] = g[i]}
<1>8. 0 \in T
  BY <1>3, <1>7
<1>9. ASSUME NEW i \in 1 .. N, i - 1 \in T PROVE i \in T
  <2>1. f[i] = F(f[i - 1], s[i]) /\ f[i - 1] = g[i - 1] /\ g[i] = F(g[i - 1], s[i])
    BY <1>2, <1>7, <1>9
  <2> QED
    BY <1>3, <2>1
<1>10. N \in T
  <2> HIDE DEF T
  <2>1. N \in 0 .. N
    BY <1>3
  <2> QED
    BY Zenon, <1>3, <1>8, <1>9, <2>1, UpTo
<1> QED
  BY <1>1, <1>10 DEF N

\* Mapping a list of mourners is the iteration of mapping one.
LEMMA MournerFold ==
    ASSUME NEW m, NEW s, Len(s) \in Nat,
           NEW g, g \in [0 .. Len(s) -> Memories], g[0] = m,
           \A i \in 1 .. Len(s) : g[i] = MapMourner(g[i - 1], s[i])
    PROVE  ForEach(m, s, MapMourner) = g[Len(s)]
<1> DEFINE N == Len(s)
           F(n, a) == MapMourner(n, a)
           Is(h) == h = [i \in 0 .. N |-> IF i = 0 THEN m ELSE With(h[i - 1], LAMBDA n : F(n, s[i]))]
           f == CHOOSE h : Is(h)
<1>1. ForEach(m, s, MapMourner) = f[N]
  BY DEF ForEach
<1>2. \A i \in 1 .. N : g[i] = F(g[i - 1], s[i])
  OBVIOUS
<1> HIDE DEF F, N
<1>3. N \in Nat /\ g \in [0 .. N -> Memories]
  BY DEF N
<1>4. Is(g)
  <2>1. \A i \in 0 .. N : g[i] = IF i = 0 THEN m ELSE With(g[i - 1], LAMBDA n : F(n, s[i]))
    <3> TAKE i \in 0 .. N
    <3>1. CASE i = 0
      BY <3>1
    <3>2. CASE i \in 1 .. N
      <4>1. g[i] = F(g[i - 1], s[i])
        BY <1>2, <3>2
      <4> QED
        BY <3>2, <4>1 DEF With
    <3> QED
      BY <1>3, <3>1, <3>2
  <2>2. g = [i \in 0 .. N |-> g[i]]
    BY <1>3
  <2> QED
    BY <2>1, <2>2
<1>5. Is(f)
  BY <1>4
<1> HIDE DEF f
<1>6. f = [i \in 0 .. N |-> IF i = 0 THEN m ELSE With(f[i - 1], LAMBDA n : F(n, s[i]))]
  BY <1>5
<1>7. f[0] = m /\ \A i \in 1 .. N : f[i] = F(f[i - 1], s[i])
  <2>1. f[0] = m
    BY <1>3, <1>6
  <2>2. ASSUME NEW i \in 1 .. N PROVE f[i] = F(f[i - 1], s[i])
    <3>0. i \in 0 .. N /\ i # 0
      BY <1>3
    <3>1. f[i] = With(f[i - 1], LAMBDA n : F(n, s[i]))
      BY <1>6, <3>0
    <3> QED
      BY <3>1 DEF With
  <2> QED
    BY <2>1, <2>2
<1> DEFINE T == {i \in 0 .. N : f[i] = g[i]}
<1>8. 0 \in T
  BY <1>3, <1>7
<1>9. ASSUME NEW i \in 1 .. N, i - 1 \in T PROVE i \in T
  <2>1. f[i] = F(f[i - 1], s[i]) /\ f[i - 1] = g[i - 1] /\ g[i] = F(g[i - 1], s[i])
    BY <1>2, <1>7, <1>9
  <2> QED
    BY <1>3, <2>1
<1>10. N \in T
  <2> HIDE DEF T
  <2>1. N \in 0 .. N
    BY <1>3
  <2> QED
    BY <1>3, <1>8, <1>9, <2>1, UpTo
<1> QED
  BY <1>1, <1>10 DEF N

\* Mapping the permanent objects is the iteration of mapping one.
LEMMA PermFold ==
    ASSUME NEW m, NEW s, Len(s) \in Nat,
           NEW g, g \in [0 .. Len(s) -> Memories], g[0] = m,
           \A i \in 1 .. Len(s) : g[i] = MapPermReferrer(g[i - 1], s[i])
    PROVE  ForEach(m, s, MapPermReferrer) = g[Len(s)]
<1> DEFINE N == Len(s)
           F(n, a) == MapPermReferrer(n, a)
           Is(h) == h = [i \in 0 .. N |-> IF i = 0 THEN m ELSE With(h[i - 1], LAMBDA n : F(n, s[i]))]
           f == CHOOSE h : Is(h)
<1>1. ForEach(m, s, MapPermReferrer) = f[N]
  BY DEF ForEach
<1>2. \A i \in 1 .. N : g[i] = F(g[i - 1], s[i])
  OBVIOUS
<1> HIDE DEF F, N
<1>3. N \in Nat /\ g \in [0 .. N -> Memories]
  BY DEF N
<1>4. Is(g)
  <2>1. \A i \in 0 .. N : g[i] = IF i = 0 THEN m ELSE With(g[i - 1], LAMBDA n : F(n, s[i]))
    <3> TAKE i \in 0 .. N
    <3>1. CASE i = 0
      BY <3>1
    <3>2. CASE i \in 1 .. N
      <4>1. g[i] = F(g[i - 1], s[i])
        BY <1>2, <3>2
      <4> QED
        BY <3>2, <4>1 DEF With
    <3> QED
      BY <1>3, <3>1, <3>2
  <2>2. g = [i \in 0 .. N |-> g[i]]
    BY <1>3
  <2> QED
    BY <2>1, <2>2
<1>5. Is(f)
  BY <1>4
<1> HIDE DEF f
<1>6. f = [i \in 0 .. N |-> IF i = 0 THEN m ELSE With(f[i - 1], LAMBDA n : F(n, s[i]))]
  BY <1>5
<1>7. f[0] = m /\ \A i \in 1 .. N : f[i] = F(f[i - 1], s[i])
  <2>1. f[0] = m
    BY <1>3, <1>6
  <2>2. ASSUME NEW i \in 1 .. N PROVE f[i] = F(f[i - 1], s[i])
    <3>0. i \in 0 .. N /\ i # 0
      BY <1>3
    <3>1. f[i] = With(f[i - 1], LAMBDA n : F(n, s[i]))
      BY <1>6, <3>0
    <3> QED
      BY <3>1 DEF With
  <2> QED
    BY <2>1, <2>2
<1> DEFINE T == {i \in 0 .. N : f[i] = g[i]}
<1>8. 0 \in T
  BY <1>3, <1>7
<1>9. ASSUME NEW i \in 1 .. N, i - 1 \in T PROVE i \in T
  <2>1. f[i] = F(f[i - 1], s[i]) /\ f[i - 1] = g[i - 1] /\ g[i] = F(g[i - 1], s[i])
    BY <1>2, <1>7, <1>9
  <2> QED
    BY <1>3, <2>1
<1>10. N \in T
  <2> HIDE DEF T
  <2>1. N \in 0 .. N
    BY <1>3
  <2> QED
    BY <1>3, <1>8, <1>9, <2>1, UpTo
<1> QED
  BY <1>1, <1>10 DEF N

\* The interpreter's oops, each remapped.
LEMMA RemapAll ==
    ASSUME NEW m, HeapOK(m), NEW s, Len(s) \in Nat, \A i \in 1 .. Len(s) : Ref(m, s[i]),
           NEW n, n = ForEach(m, s, Remap)
    PROVE  /\ HeapOK(n) /\ Grows(m, n)
           /\ \A i \in 1 .. Len(s) : IsScavengeSurvivor(n, s[i])
<1> DEFINE N == Len(s)
           S == {k \in Memories : HeapOK(k) /\ Grows(m, k)}
           R == [p \in S \X (1 .. N) |-> Remap(p[1], s[p[2]])]
<1>1. N \in Nat
  OBVIOUS
<1> HIDE DEF N
<1>2. m \in S
  BY GrowsReflexive DEF HeapOK
<1>3. ASSUME NEW k \in S, NEW i \in 1 .. N
      PROVE  LET l == Remap(k, s[i]) IN
             l \in S /\ Grows(k, l) /\ HeapOK(k) /\ HeapOK(l) /\ IsScavengeSurvivor(l, s[i])
  <2> DEFINE l == Remap(k, s[i])
  <2>1. HeapOK(k) /\ Grows(m, k)
    OBVIOUS
  <2>2. Ref(k, s[i])
    BY <2>1, GrowsUsed DEF N
  <2>3. HeapOK(l) /\ Grows(k, l) /\ IsScavengeSurvivor(l, s[i])
    BY <2>1, <2>2, RemapGrows
  <2> HIDE DEF l
  <2>4. Grows(m, l)
    BY <2>1, <2>3, GrowsTwice
  <2> QED
    BY <2>1, <2>3, <2>4 DEF HeapOK, l
<1>4. R \in [S \X (1 .. N) -> S]
  <2>1. \A p \in S \X (1 .. N) : p[1] \in S /\ p[2] \in 1 .. N
    OBVIOUS
  <2> HIDE DEF S
  <2> QED
    BY <1>3, <2>1
<1> DEFINE g == Iteration(S, m, R, N)
<1> HIDE DEF S, R
<1>5. g \in [0 .. N -> S] /\ g[0] = m /\ \A i \in 1 .. N : g[i] = R[<<g[i - 1], i>>]
  <2>1. IsIteration(g, S, m, R, N)
    BY Zenon, <1>1, <1>2, <1>4, Iterates
  <2> HIDE DEF g
  <2> QED
    BY <2>1 DEF IsIteration
<1> HIDE DEF g
<1>6. \A i \in 1 .. N : g[i] = Remap(g[i - 1], s[i]) /\ g[i - 1] \in S
  <2> TAKE i \in 1 .. N
  <2>1. i - 1 \in 0 .. N
    BY <1>1
  <2>2. g[i - 1] \in S
    BY <1>5, <2>1
  <2> QED
    BY Zenon, <1>5, <2>2 DEF R
<1>7. n = g[N]
  <2>1. g \in [0 .. N -> Memories]
    BY <1>5 DEF S
  <2> QED
    BY <1>1, <1>5, <1>6, <2>1, RemapFold DEF N
<1> DEFINE T == {i \in 0 .. N : \A j \in 1 .. i : IsScavengeSurvivor(g[i], s[j])}
<1>8. 0 \in T
  BY <1>1
<1>9. ASSUME NEW i \in 1 .. N, i - 1 \in T PROVE i \in T
  <2> DEFINE k == g[i - 1]
             l == g[i]
  <2>1. k \in S /\ l = Remap(k, s[i]) /\ \A j \in 1 .. i - 1 : IsScavengeSurvivor(k, s[j])
    BY <1>6, <1>9
  <2> HIDE DEF k, l
  <2>2. Grows(k, l) /\ HeapOK(k) /\ HeapOK(l) /\ Grows(m, k) /\ IsScavengeSurvivor(l, s[i])
    BY <1>3, <2>1 DEF S
  <2>3. ASSUME NEW j \in 1 .. i PROVE IsScavengeSurvivor(l, s[j])
    <3>1. CASE j = i
      BY <2>2, <3>1
    <3>2. CASE j # i
      <4>1. j \in 1 .. i - 1 /\ j \in 1 .. N
        BY <1>1, <3>2
      <4>2. Ref(m, s[j])
        BY <4>1 DEF N
      <4>3. Ref(k, s[j])
        <5>1. HeapOK(m) /\ HeapOK(k) /\ Grows(m, k)
          BY <2>2
        <5> QED
          BY <4>2, <5>1, GrowsUsed
      <4> QED
        BY <2>1, <2>2, <4>1, <4>3, GrowsUsed
    <3> QED
      BY <3>1, <3>2
  <2>4. i \in 0 .. N
    BY <1>1
  <2> QED
    BY <2>3, <2>4 DEF l
<1>10. N \in T
  <2> HIDE DEF T
  <2>1. N \in 0 .. N
    BY <1>1
  <2> QED
    BY Zenon, <1>1, <1>8, <1>9, <2>1, UpTo
<1>11. n \in S
  <2>1. N \in 0 .. N
    BY <1>1
  <2> QED
    BY <1>5, <1>7, <2>1
<1> QED
  BY <1>7, <1>10, <1>11 DEF N, S

\* The mourners, each mapped.
LEMMA MapMourners ==
    ASSUME NEW m, HeapOK(m), NEW s, Len(s) \in Nat,
           \A i \in 1 .. Len(s) : Used(m, s[i]) /\ ~IsKind(m, s[i], "ephemeron"),
           NEW n, n = ForEach(m, s, MapMourner)
    PROVE  /\ HeapOK(n) /\ Grows(m, n)
           /\ \A i \in 1 .. Len(s) : IsScavengeSurvivor(n, s[i])
<1> DEFINE N == Len(s)
           Mourns(k) == \A i \in 1 .. N : Used(k, s[i]) /\ ~IsKind(k, s[i], "ephemeron")
           S == {k \in Memories : HeapOK(k) /\ Grows(m, k) /\ Mourns(k)}
           R == [p \in S \X (1 .. N) |-> MapMourner(p[1], s[p[2]])]
<1>1. N \in Nat
  OBVIOUS
<1> HIDE DEF N
<1>2. m \in S
  BY GrowsReflexive DEF HeapOK, N
<1>3. ASSUME NEW k \in S, NEW i \in 1 .. N
      PROVE  LET l == MapMourner(k, s[i]) IN
             l \in S /\ Grows(k, l) /\ HeapOK(k) /\ HeapOK(l) /\ IsScavengeSurvivor(l, s[i])
  <2> DEFINE l == MapMourner(k, s[i])
  <2>1. HeapOK(k) /\ Grows(m, k) /\ Mourns(k)
    OBVIOUS
  <2>2. HeapOK(l) /\ Grows(k, l) /\ IsScavengeSurvivor(l, s[i])
    BY <2>1, MapMournerGrows
  <2> HIDE DEF l
  <2>3. Grows(m, l)
    BY <2>1, <2>2, GrowsTwice
  <2>4. Mourns(l)
    <3> SUFFICES ASSUME NEW j \in 1 .. N PROVE Used(l, s[j]) /\ ~IsKind(l, s[j], "ephemeron")
      OBVIOUS
    <3>1. Used(k, s[j]) /\ ~IsKind(k, s[j], "ephemeron")
      BY <2>1
    <3>2. Used(l, s[j])
      BY <2>1, <2>2, <3>1, GrowsUsed
    <3>3. CASE Live(k, s[j])
      BY <2>1, <2>2, <3>1, <3>2, <3>3, LiveStays
    <3>4. CASE InSource(k, s[j])
      BY <2>2, <3>1, <3>2, <3>4 DEF Grows, SourceMoves, Used, IsKind
    <3> QED
      BY <3>1, <3>3, <3>4 DEF Live
  <2> HIDE DEF Mourns
  <2> QED
    BY <2>1, <2>2, <2>3, <2>4 DEF HeapOK, l
<1>4. R \in [S \X (1 .. N) -> S]
  <2>1. \A p \in S \X (1 .. N) : p[1] \in S /\ p[2] \in 1 .. N
    OBVIOUS
  <2> HIDE DEF S
  <2> QED
    BY <1>3, <2>1
<1> DEFINE g == Iteration(S, m, R, N)
<1> HIDE DEF S, R
<1>5. g \in [0 .. N -> S] /\ g[0] = m /\ \A i \in 1 .. N : g[i] = R[<<g[i - 1], i>>]
  <2>1. IsIteration(g, S, m, R, N)
    BY Zenon, <1>1, <1>2, <1>4, Iterates
  <2> HIDE DEF g
  <2> QED
    BY <2>1 DEF IsIteration
<1> HIDE DEF g
<1>6. \A i \in 1 .. N : g[i] = MapMourner(g[i - 1], s[i]) /\ g[i - 1] \in S
  <2> TAKE i \in 1 .. N
  <2>1. i - 1 \in 0 .. N
    BY <1>1
  <2>2. g[i - 1] \in S
    BY <1>5, <2>1
  <2> QED
    BY Zenon, <1>5, <2>2 DEF R
<1>7. n = g[N]
  <2>1. g \in [0 .. N -> Memories]
    BY <1>5 DEF S
  <2> QED
    BY <1>1, <1>5, <1>6, <2>1, MournerFold DEF N
<1> DEFINE T == {i \in 0 .. N : \A j \in 1 .. i : IsScavengeSurvivor(g[i], s[j])}
<1>8. 0 \in T
  BY <1>1
<1>9. ASSUME NEW i \in 1 .. N, i - 1 \in T PROVE i \in T
  <2> DEFINE k == g[i - 1]
             l == g[i]
  <2>1. k \in S /\ l = MapMourner(k, s[i]) /\ \A j \in 1 .. i - 1 : IsScavengeSurvivor(k, s[j])
    BY <1>6, <1>9
  <2> HIDE DEF k, l
  <2>2. Grows(k, l) /\ HeapOK(k) /\ HeapOK(l) /\ Mourns(k) /\ IsScavengeSurvivor(l, s[i])
    BY <1>3, <2>1 DEF S
  <2>3. ASSUME NEW j \in 1 .. i PROVE IsScavengeSurvivor(l, s[j])
    <3>1. CASE j = i
      BY <2>2, <3>1
    <3>2. CASE j # i
      <4>1. j \in 1 .. i - 1 /\ j \in 1 .. N
        BY <1>1, <3>2
      <4>2. Ref(k, s[j])
        BY <2>2, <4>1 DEF Ref
      <4> QED
        BY <2>1, <2>2, <4>1, <4>2, GrowsUsed
    <3> QED
      BY <3>1, <3>2
  <2>4. i \in 0 .. N
    BY <1>1
  <2> QED
    BY <2>3, <2>4 DEF l
<1>10. N \in T
  <2> HIDE DEF T
  <2>1. N \in 0 .. N
    BY <1>1
  <2> QED
    BY Zenon, <1>1, <1>8, <1>9, <2>1, UpTo
<1>11. n \in S
  <2>1. N \in 0 .. N
    BY <1>1
  <2> QED
    BY <1>5, <1>7, <2>1
<1> QED
  BY <1>7, <1>10, <1>11 DEF N, S

\* The memory with another set of permanent objects.
WithPerm(m, s) == [m EXCEPT !.permToNew = s]

\* A memory with another set of permanent objects, field by field.
LEMMA WithPermFields ==
    ASSUME NEW m \in Memories, NEW s \in Seq(PermAddresses), NEW n, n = WithPerm(m, s)
    PROVE  /\ n \in Memories /\ n.permToNew = s
           /\ n.heap = m.heap /\ n.past = m.past /\ n.survivorStart = m.survivorStart
           /\ n.freeStart = m.freeStart /\ n.criterion = m.criterion
           /\ n.permToOld = m.permToOld /\ n.rememberedSet = m.rememberedSet
           /\ n.previousSize = m.previousSize /\ n.ephemerons = m.ephemerons
           /\ n.weakList = m.weakList /\ n.ephemeronList = m.ephemeronList
           /\ n.mournQueue = m.mournQueue
           /\ n.finalizations = m.finalizations
           /\ n.threshold = m.threshold /\ n.shrinkCount = m.shrinkCount
  BY Zenon DEF WithPerm, Memories

\* What does not look at that set.
LEMMA WithPermFacts ==
    ASSUME NEW m \in Memories, NEW s \in Seq(PermAddresses), NEW n, n = WithPerm(m, s)
    PROVE  /\ HeapOK(m) => HeapOK(n)
           /\ FutureStart(n) = FutureStart(m) /\ FutureLimit(n) = FutureLimit(m)
           /\ \A x : InSource(n, x) <=> InSource(m, x)
           /\ \A x : InFuture(n, x) <=> InFuture(m, x)
           /\ \A x : Settled(n, x) <=> Settled(m, x)
           /\ \A x : Used(n, x) <=> Used(m, x)
           /\ \A x : Live(n, x) <=> Live(m, x)
           /\ \A x : Ref(n, x) <=> Ref(m, x)
           /\ \A x : FollowForwarded(n, x) = FollowForwarded(m, x)
           /\ \A x : /\ Cell(n, x) = Cell(m, x) /\ Size(n, x) = Size(m, x)
                     /\ SlotIndices(n, x) = SlotIndices(m, x)
                     /\ Remembered(n, x) <=> Remembered(m, x)
                     /\ RefersToOld(n, x) <=> RefersToOld(m, x)
                     /\ RefersToYoung(n, x) <=> RefersToYoung(m, x)
                     /\ Done(n, x) <=> Done(m, x)
                     /\ HasNew(n, x) <=> HasNew(m, x)
                     /\ IsUnfired(n, x) <=> IsUnfired(m, x)
           /\ \A x, i : Slot(n, x, i) = Slot(m, x, i)
           /\ \A x, kind : IsKind(n, x, kind) <=> IsKind(m, x, kind)
           /\ Objects(n) = Objects(m)
<1>1. /\ n \in Memories /\ n.heap = m.heap /\ n.past = m.past /\ n.survivorStart = m.survivorStart
      /\ n.freeStart = m.freeStart /\ n.criterion = m.criterion
  BY WithPermFields
<1> USE <1>1
<1>2. /\ FutureStart(n) = FutureStart(m) /\ FutureLimit(n) = FutureLimit(m)
      /\ \A x : InSource(n, x) <=> InSource(m, x)
      /\ \A x : InFuture(n, x) <=> InFuture(m, x)
      /\ \A x : Settled(n, x) <=> Settled(m, x)
  BY DEF FutureStart, FutureLimit, InSource, InFuture, Settled
<1>3. /\ \A x, kind : IsKind(n, x, kind) <=> IsKind(m, x, kind)
      /\ \A x, i : Slot(n, x, i) = Slot(m, x, i)
      /\ \A x : /\ Cell(n, x) = Cell(m, x) /\ Size(n, x) = Size(m, x)
                /\ SlotIndices(n, x) = SlotIndices(m, x)
                /\ Remembered(n, x) <=> Remembered(m, x)
  BY DEF IsKind, Slot, Cell, Size, SlotIndices, Remembered
<1>4. /\ \A x : Used(n, x) <=> Used(m, x)
      /\ \A x : Live(n, x) <=> Live(m, x)
      /\ \A x : Ref(n, x) <=> Ref(m, x)
      /\ \A x : FollowForwarded(n, x) = FollowForwarded(m, x)
  BY <1>2, <1>3 DEF Used, Live, Ref, FollowForwarded
<1>5. \A x : /\ RefersToOld(n, x) <=> RefersToOld(m, x)
             /\ RefersToYoung(n, x) <=> RefersToYoung(m, x)
             /\ Done(n, x) <=> Done(m, x)
             /\ HasNew(n, x) <=> HasNew(m, x)
  BY <1>2, <1>3 DEF RefersToOld, RefersToYoung, Done, HasNew
<1>6. \A x : IsUnfired(n, x) <=> IsUnfired(m, x)
  BY <1>2, <1>3, <1>4 DEF IsUnfired, IsScavengeSurvivor
<1>7. Objects(n) = Objects(m)
  BY DEF Objects, Cell
<1>8. HeapOK(m) => HeapOK(n)
  <2> SUFFICES ASSUME HeapOK(m) PROVE HeapOK(n)
    OBVIOUS
  <2>1. \A x \in Addresses : CellOK(n, x)
    <3> TAKE x \in Addresses
    <3>1. CellOK(m, x)
      BY DEF HeapOK
    <3> QED
      BY <1>2, <1>3, <1>4, <3>1 DEF CellOK
  <2> QED
    BY <1>2, <1>7, <2>1 DEF HeapOK
<1> QED
  BY <1>2, <1>3, <1>4, <1>5, <1>6, <1>7, <1>8

\* A growth is one under any set of permanent objects.
LEMMA WithPermGrows ==
    ASSUME NEW m, HeapOK(m), NEW n, HeapOK(n), Grows(m, n), NEW s \in Seq(PermAddresses),
           NEW u, u = WithPerm(m, s), NEW v, v = WithPerm(n, s)
    PROVE  HeapOK(u) /\ HeapOK(v) /\ Grows(u, v)
<1>1. m \in Memories /\ n \in Memories
  BY DEF HeapOK
<1>2. /\ SameRest(m, n) /\ n.survivorStart >= m.survivorStart
      /\ Cardinality(Objects(n)) = Cardinality(Objects(m))
      /\ Extends(m, n) /\ ListsGrow(m, n) /\ LivesOn(m, n) /\ SourceMoves(m, n) /\ FreshOK(m, n)
  BY DEF Grows
<1>3. /\ u.heap = m.heap /\ v.heap = n.heap
      /\ u.survivorStart = m.survivorStart /\ v.survivorStart = n.survivorStart
      /\ u.rememberedSet = m.rememberedSet /\ v.rememberedSet = n.rememberedSet
      /\ u.weakList = m.weakList /\ v.weakList = n.weakList
      /\ u.ephemeronList = m.ephemeronList /\ v.ephemeronList = n.ephemeronList
      /\ SameRest(u, v)
  BY <1>1, <1>2, WithPermFields DEF SameRest
<1>4. /\ \A x : InSource(u, x) <=> InSource(m, x)
      /\ \A x : Live(u, x) <=> Live(m, x)
      /\ \A x : /\ Cell(u, x) = Cell(m, x) /\ Size(u, x) = Size(m, x)
                /\ SlotIndices(u, x) = SlotIndices(m, x)
      /\ \A x, i : Slot(u, x, i) = Slot(m, x, i)
      /\ \A x, kind : IsKind(u, x, kind) <=> IsKind(m, x, kind)
      /\ Objects(u) = Objects(m) /\ HeapOK(u)
  BY <1>1, WithPermFacts
<1>5. /\ \A x : InFuture(v, x) <=> InFuture(n, x)
      /\ \A x : FollowForwarded(v, x) = FollowForwarded(n, x)
      /\ \A x : /\ Cell(v, x) = Cell(n, x) /\ Size(v, x) = Size(n, x)
                /\ Remembered(v, x) <=> Remembered(n, x)
                /\ RefersToYoung(v, x) <=> RefersToYoung(n, x)
                /\ IsUnfired(v, x) <=> IsUnfired(n, x)
      /\ \A x, i : Slot(v, x, i) = Slot(n, x, i)
      /\ \A x, kind : IsKind(v, x, kind) <=> IsKind(n, x, kind)
      /\ Objects(v) = Objects(n) /\ HeapOK(v)
  BY <1>1, WithPermFacts
<1>6. \A x : Fresh(u, v, x) <=> Fresh(m, n, x)
  BY <1>4, <1>5 DEF Fresh
<1>7. Saved(u, v) = Saved(m, n)
  BY <1>4, <1>5 DEF Saved
<1>8. \A a, b : Moved(u, a, v, b) <=> Moved(m, a, n, b)
  BY <1>4, <1>5 DEF Moved
<1>9. NewPositions(u, v) = NewPositions(m, n)
  BY <1>3 DEF NewPositions
<1>10. Extends(u, v)
  BY <1>2, <1>3, <1>6, <1>9 DEF Extends
<1>11. ListsGrow(u, v)
  BY <1>2, <1>3, <1>5 DEF ListsGrow
<1>12. LivesOn(u, v)
  BY <1>2, <1>4, <1>5, <1>8 DEF LivesOn
<1>13. SourceMoves(u, v)
  <2>1. \A a : Copied(u, a) <=> Copied(m, a)
    BY <1>4 DEF Copied
  <2> QED
    BY <1>2, <1>3, <1>4, <1>5, <1>6, <1>7, <1>8, <2>1 DEF SourceMoves
<1>14. FreshOK(u, v)
  <2>1. \A D, x : Listed(v, D, x) <=> Listed(n, D, x)
    BY <1>5 DEF Listed
  <2> QED
    BY <1>2, <1>3, <1>5, <1>6, <1>7, <1>9, <2>1 DEF FreshOK
<1> QED
  BY <1>2, <1>3, <1>4, <1>5, <1>10, <1>11, <1>12, <1>13, <1>14 DEF Grows

\* n is m with another bit of the permanent object at a, and other sets of those objects.
SameButPerm(m, n, a) ==
    /\ n \in Memories /\ SameLists(m, n)
    /\ n.past = m.past /\ n.survivorStart = m.survivorStart /\ n.freeStart = m.freeStart
    /\ n.criterion = m.criterion /\ n.rememberedSet = m.rememberedSet
    /\ n.mournQueue = m.mournQueue
    /\ n.previousSize = m.previousSize /\ n.ephemerons = m.ephemerons
    /\ \A x \in Addresses : x # a => n.heap[x] = m.heap[x]
    /\ n.heap[a].kind = m.heap[a].kind /\ n.heap[a].slots = m.heap[a].slots
    /\ n.heap[a].bits \in {0, 1}

\* Other sets of permanent objects leave every classification of the heap as it is.
LEMMA SameButPermFacts ==
    ASSUME NEW m, HeapOK(m), NEW a \in PermAddresses, NEW n, SameButPerm(m, n, a)
    PROVE  /\ HeapOK(n) /\ a \in Addresses
           /\ \A x : InSource(n, x) <=> InSource(m, x)
           /\ \A x : InFuture(n, x) <=> InFuture(m, x)
           /\ \A x : Settled(n, x) <=> Settled(m, x)
           /\ \A x : Used(n, x) <=> Used(m, x)
           /\ \A x : Live(n, x) <=> Live(m, x)
           /\ \A x : Ref(n, x) <=> Ref(m, x)
           /\ \A x : x \in Oops => FollowForwarded(n, x) = FollowForwarded(m, x)
           /\ \A x \in Addresses :
                 /\ Cell(n, x).kind = Cell(m, x).kind /\ Size(n, x) = Size(m, x)
                 /\ SlotIndices(n, x) = SlotIndices(m, x)
                 /\ \A i : Slot(n, x, i) = Slot(m, x, i)
                 /\ \A kind : IsKind(n, x, kind) <=> IsKind(m, x, kind)
                 /\ x # a => (Remembered(n, x) <=> Remembered(m, x))
           /\ Objects(n) = Objects(m)
<1>1. a \in Addresses /\ ~IsYoung(a) /\ m \in Memories /\ n \in Memories
  BY Layout DEF OldAddresses, IsYoung, HeapOK, SameButPerm
<1>2. \A x \in Addresses : n.heap[x].kind = m.heap[x].kind /\ n.heap[x].slots = m.heap[x].slots
  BY DEF SameButPerm
<1>3. /\ FutureStart(n) = FutureStart(m) /\ FutureLimit(n) = FutureLimit(m)
      /\ \A x : InSource(n, x) <=> InSource(m, x)
  BY SameSpaces DEF SameButPerm
<1>4. \A x : InFuture(n, x) <=> InFuture(m, x)
  BY <1>3 DEF InFuture, SameButPerm
<1>5. \A x \in Addresses :
                 /\ Cell(n, x).kind = Cell(m, x).kind /\ Size(n, x) = Size(m, x)
                 /\ SlotIndices(n, x) = SlotIndices(m, x)
                 /\ \A i : Slot(n, x, i) = Slot(m, x, i)
                 /\ \A kind : IsKind(n, x, kind) <=> IsKind(m, x, kind)
                 /\ x # a => (Remembered(n, x) <=> Remembered(m, x))
  BY <1>2 DEF Cell, Size, SlotIndices, Slot, IsKind, Remembered, SameButPerm
<1>6. \A x : Used(n, x) <=> Used(m, x)
  BY <1>5 DEF Used
<1>7. \A x : (Live(n, x) <=> Live(m, x)) /\ (Ref(n, x) <=> Ref(m, x))
  BY <1>3, <1>6 DEF Live, Ref
<1>8. \A x : x \in Oops => FollowForwarded(n, x) = FollowForwarded(m, x)
  BY <1>5 DEF Oops, FollowForwarded
<1>9. \A x : Settled(n, x) <=> Settled(m, x)
  BY <1>4 DEF Settled
<1>10. ASSUME NEW x \in Addresses PROVE CellOK(n, x)
  <2>1. CellOK(m, x)
    BY DEF HeapOK
  <2>2. /\ Cell(n, x).bits \in {0, 1} \/ InSource(n, x)
        /\ IsYoung(x) => Cell(n, x).bits = 0 \/ (InSource(n, x) /\ n.criterion = "ToShrinkRT")
    BY <1>1, <1>3, <2>1 DEF CellOK, Cell, SameButPerm
  <2>3. n.survivorStart = m.survivorStart
    BY DEF SameButPerm
  <2> QED
    BY <1>3, <1>4, <1>5, <1>7, <2>1, <2>2, <2>3 DEF CellOK
<1>11. Objects(n) = Objects(m)
  <2>1. 1 .. PermStart - 1 \subseteq Addresses
    BY Layout
  <2> QED
    BY <1>5, <2>1 DEF Objects
<1>12. HeapOK(n)
  BY <1>1, <1>3, <1>10, <1>11 DEF HeapOK, SameButPerm
<1> QED
  BY <1>1, <1>3, <1>4, <1>5, <1>6, <1>7, <1>8, <1>9, <1>11, <1>12

\* n is m without the permanent object at a in the set of those that refer to new space.
PermForgotten(m, n, a) ==
    /\ SameButPerm(m, n, a) /\ ~Remembered(n, a)
    /\ Range(n.permToNew) = Range(m.permToNew) \ {a}
    /\ \A p, q \in 1 .. Len(n.permToNew) : n.permToNew[p] = n.permToNew[q] => p = q
    /\ Range(m.permToOld) \subseteq Range(n.permToOld)
    /\ RefersToOld(m, a) => a \in Range(n.permToOld)

\* Forgetting a permanent object that refers to nothing young keeps the state of the loop.
LEMMA PermSurgery ==
    ASSUME NEW m, NEW n, NEW P, NEW U, NEW C, NEW W, NEW E, NEW K, NEW from, NEW mapped, ~mapped,
           Loop(m, P, from, U, C, mapped, W, E, K),
           NEW a \in PermAddresses, PermForgotten(m, n, a), Done(m, a), ~RefersToYoung(m, a)
    PROVE  Loop(n, P, from, U, C, mapped, W, E, K)
<1>1. /\ HeapOK(m)
      /\ P \subseteq 1 .. Len(m.rememberedSet) /\ U \subseteq P /\ W \subseteq P
      /\ E \subseteq P /\ K \subseteq P
      /\ C \subseteq Addresses /\ Range(m.ephemeronList) \subseteq C
      /\ from \in FutureStart(m) .. m.survivorStart
      /\ SetsOK(m, P) /\ Covered(m, from, U, C, mapped) /\ UnfiredListed(m, C)
      /\ WeakHeld(m, W) /\ CorpsesOK(m, C) /\ EphemeronsOK(m, E) /\ Kept(m, K)
  BY DEF Loop
<1>2. /\ SameButPerm(m, n, a) /\ ~Remembered(n, a)
      /\ Range(n.permToNew) = Range(m.permToNew) \ {a}
      /\ \A p, q \in 1 .. Len(n.permToNew) : n.permToNew[p] = n.permToNew[q] => p = q
      /\ Range(m.permToOld) \subseteq Range(n.permToOld)
      /\ RefersToOld(m, a) => a \in Range(n.permToOld)
  BY DEF PermForgotten
<1>3. /\ HeapOK(n) /\ a \in Addresses
      /\ \A x : InSource(n, x) <=> InSource(m, x)
      /\ \A x : InFuture(n, x) <=> InFuture(m, x)
      /\ \A x : Settled(n, x) <=> Settled(m, x)
      /\ \A x : Used(n, x) <=> Used(m, x)
      /\ \A x : Live(n, x) <=> Live(m, x)
      /\ \A x : x \in Oops => FollowForwarded(n, x) = FollowForwarded(m, x)
      /\ \A x \in Addresses :
            /\ Cell(n, x).kind = Cell(m, x).kind /\ Size(n, x) = Size(m, x)
            /\ SlotIndices(n, x) = SlotIndices(m, x)
            /\ \A i : Slot(n, x, i) = Slot(m, x, i)
            /\ \A kind : IsKind(n, x, kind) <=> IsKind(m, x, kind)
            /\ x # a => (Remembered(n, x) <=> Remembered(m, x))
  BY <1>1, <1>2, SameButPermFacts
<1>4. \A x \in Addresses :
            /\ Done(n, x) <=> Done(m, x)
            /\ AllSettled(n, x) <=> AllSettled(m, x)
            /\ HasNew(n, x) <=> HasNew(m, x)
            /\ RefersToYoung(n, x) <=> RefersToYoung(m, x)
            /\ RefersToOld(n, x) <=> RefersToOld(m, x)
  BY <1>3 DEF Done, AllSettled, HasNew, RefersToYoung, RefersToOld
<1>5. \A x \in Addresses : HasYoungReferents(n, x) <=> HasYoungReferents(m, x)
  BY <1>1, <1>3, <1>4, YoungReferents DEF HeapOK
<1>6. \A D : D \subseteq Addresses => \A x : Listed(n, D, x) <=> Listed(m, D, x)
  BY <1>3 DEF Listed, Oops
<1>7. FutureStart(n) = FutureStart(m) /\ n.survivorStart = m.survivorStart
      /\ n.weakList = m.weakList /\ n.ephemeronList = m.ephemeronList
      /\ n.rememberedSet = m.rememberedSet
  BY <1>2 DEF SameButPerm, SameLists, FutureStart
<1>8. \A x \in Addresses : IsUnfired(n, x) <=> IsUnfired(m, x)
  <2> SUFFICES ASSUME NEW x \in Addresses, IsKind(m, x, "ephemeron")
               PROVE  IsScavengeSurvivor(n, Slot(m, x, 1)) <=> IsScavengeSurvivor(m, Slot(m, x, 1))
    BY <1>3 DEF IsUnfired
  <2>1. CellOK(m, x) /\ Size(m, x) >= 1 /\ Size(m, x) \in Nat
    BY <1>1, CellFields DEF HeapOK, CellOK
  <2>2. Slot(m, x, 1) \in Oops
    <3>1. 1 \in SlotIndices(m, x)
      BY <2>1 DEF SlotIndices
    <3> QED
      BY <1>1, <3>1, CellFields DEF HeapOK
  <2> QED
    BY <1>3, <2>2 DEF IsScavengeSurvivor
<1>9. SetsOK(n, P)
  <2>1. \A x \in OldAddresses : x \in Addresses /\ x # a
    BY Layout DEF OldAddresses, PermAddresses
  <2>2. InSet(n, n.rememberedSet, P, OldAddresses)
    BY <1>1, <1>3, <1>5, <1>7, <2>1 DEF SetsOK, InSet
  <2>3. \A x \in PermAddresses : x \in Addresses
    BY Layout
  <2>4. n.permToNew \in Seq(PermAddresses) /\ m.permToNew \in Seq(PermAddresses)
    BY <1>1, <1>3, Fields DEF HeapOK
  <2>5. \A x \in PermAddresses : Used(m, x) /\ Remembered(m, x) <=> x \in Range(m.permToNew)
    BY <1>1, <2>4, InRange DEF SetsOK, InSet
  <2>6. \A x \in PermAddresses : Used(n, x) /\ Remembered(n, x) <=> x \in Range(n.permToNew)
    BY <1>2, <1>3, <2>3, <2>5
  <2>7. \A x \in PermAddresses : Used(n, x) /\ HasYoungReferents(n, x) => Remembered(n, x)
    <3> SUFFICES ASSUME NEW x \in PermAddresses, Used(n, x), HasYoungReferents(n, x)
                 PROVE  Remembered(n, x)
      OBVIOUS
    <3>1. HasYoungReferents(m, x) /\ Used(m, x) /\ x # a
      BY <1>1, <1>3, <1>5, <2>3, YoungReferents DEF HeapOK
    <3> QED
      BY <1>1, <1>3, <2>3, <3>1 DEF SetsOK, InSet
  <2>8. InSet(n, n.permToNew, 1 .. Len(n.permToNew), PermAddresses)
    <3>1. \A x \in PermAddresses : Used(n, x) /\ Remembered(n, x)
                                     <=> \E p \in 1 .. Len(n.permToNew) : n.permToNew[p] = x
      BY <2>4, <2>6, InRange
    <3> QED
      BY <1>2, <2>7, <3>1 DEF InSet
  <2>9. \A x \in PermAddresses : Used(n, x) /\ RefersToOld(n, x) => Remembered(n, x) \/ x \in Range(n.permToOld)
    BY <1>1, <1>2, <1>3, <1>4, <2>3 DEF SetsOK
  <2> QED
    BY <2>2, <2>8, <2>9 DEF SetsOK
<1>10. Covered(n, from, U, C, mapped)
  <2> SUFFICES ASSUME NEW x \in Addresses, Live(n, x), ~Done(n, x)
               PROVE  \/ InFuture(n, x) /\ x >= from
                      \/ \E p \in U : n.rememberedSet[p] = x
                      \/ Listed(n, C, x)
                      \/ IsPerm(x) /\ Remembered(n, x) /\ ~mapped
    BY DEF Covered
  <2>1. \/ InFuture(m, x) /\ x >= from
        \/ \E p \in U : m.rememberedSet[p] = x
        \/ Listed(m, C, x)
        \/ IsPerm(x) /\ Remembered(m, x) /\ ~mapped
    BY <1>1, <1>3, <1>4 DEF Covered
  <2>2. x # a
    BY <1>4
  <2> QED
    BY <1>1, <1>3, <1>6, <1>7, <2>1, <2>2
<1>11. UnfiredListed(n, C)
  BY <1>1, <1>3, <1>6, <1>8 DEF UnfiredListed
<1>12. WeakHeld(n, W)
  <2>1. Range(m.weakList) \subseteq Addresses
    BY <1>1, Fields, InRange DEF HeapOK
  <2> QED
    BY <1>1, <1>3, <1>4, <1>6, <1>7, <2>1 DEF WeakHeld
<1>13. CorpsesOK(n, C)
  <2>1. ASSUME NEW c \in Addresses, IsKind(m, c, "forwarded")
        PROVE  Slot(m, c, 1) \in Addresses /\ Slot(n, c, 1) = Slot(m, c, 1) /\ IsKind(n, c, "forwarded")
    BY <1>1, <1>3, <2>1 DEF HeapOK, CellOK, Live, Used
  <2>2. Range(m.weakList) \subseteq Addresses
    BY <1>1, Fields, InRange DEF HeapOK
  <2> QED
    BY <1>1, <1>3, <1>7, <2>1, <2>2 DEF CorpsesOK
<1>14. \A p \in P : m.rememberedSet[p] \in Addresses
  BY <1>1, MembersLive DEF Members
<1>15. EphemeronsOK(n, E)
  BY <1>1, <1>3, <1>7, <1>14 DEF EphemeronsOK
<1>16. Kept(n, K)
  BY <1>1, <1>3, <1>4, <1>7, <1>14 DEF Kept
<1> QED
  BY <1>1, <1>3, <1>7, <1>9, <1>10, <1>11, <1>12, <1>13, <1>15, <1>16 DEF Loop

\* The permanent objects still to map when i of q are.
Rest(q, i) == SubSeq(q, i + 1, Len(q))

\* s: p and the rest before i; t: p and the rest after it; b: p with i.
RestCase(S, p, q, i, s, t, b) ==
    /\ p \in Seq(S) /\ q \in Seq(S) /\ i \in 1 .. Len(q)
    /\ s = p \o Rest(q, i - 1) /\ t = p \o Rest(q, i) /\ b = Append(p, q[i])

\* No two are the same.
Distinct(s) == \A x, y \in 1 .. Len(s) : s[x] = s[y] => x = y

\* The first of the rest goes behind what is kept, or goes away.
LEMMA RestFacts ==
    ASSUME NEW S, NEW p, NEW q, NEW i, NEW s, NEW t, NEW b, RestCase(S, p, q, i, s, t, b)
    PROVE  /\ s \in Seq(S) /\ t \in Seq(S) /\ q[i] \in S /\ q[i] \in Range(s)
           /\ b \in Seq(S) /\ b \o Rest(q, i) = s
           /\ Range(b) = Range(p) \cup {q[i]}
           /\ Distinct(s) => Range(t) = Range(s) \ {q[i]} /\ Distinct(t)
<1> DEFINE r == Rest(q, i - 1)
           u == Rest(q, i)
           a == q[i]
<1>00. p \in Seq(S) /\ q \in Seq(S) /\ i \in 1 .. Len(q) /\ s = p \o r /\ t = p \o u /\ b = Append(p, a)
  BY DEF RestCase
<1>0. /\ Len(p) \in Nat /\ Len(q) \in Nat /\ i \in Nat /\ i >= 1 /\ i <= Len(q)
      /\ \A x \in 1 .. Len(p) : p[x] \in S
      /\ \A x \in 1 .. Len(q) : q[x] \in S
      /\ p \in Seq(S) /\ q \in Seq(S) /\ a \in S
  BY <1>00
<1>1. /\ r \in Seq(S) /\ Len(r) = Len(q) - i + 1
      /\ \A x \in 1 .. Len(q) - i + 1 : r[x] = q[x + i - 1]
  BY <1>0 DEF Rest
<1>2. /\ u \in Seq(S) /\ Len(u) = Len(q) - i
      /\ \A x \in 1 .. Len(q) - i : u[x] = q[x + i]
  BY <1>0 DEF Rest
<1> HIDE DEF r, u
<1>3. /\ s \in Seq(S) /\ Len(s) = Len(p) + Len(r)
      /\ \A x \in 1 .. Len(s) : s[x] = IF x <= Len(p) THEN p[x] ELSE r[x - Len(p)]
  <2>1. /\ p \o r \in Seq(S) /\ Len(p \o r) = Len(p) + Len(r)
        /\ \A x \in 1 .. Len(p) + Len(r) : (p \o r)[x] = IF x <= Len(p) THEN p[x] ELSE r[x - Len(p)]
    <3>1. p \in Seq(S) /\ r \in Seq(S)
      BY <1>0, <1>1
    <3> QED
      BY ONLY <3>1, ConcatProperties
  <2> QED
    BY <1>00, <2>1
<1>4. /\ t \in Seq(S) /\ Len(t) = Len(p) + Len(u)
      /\ \A x \in 1 .. Len(t) : t[x] = IF x <= Len(p) THEN p[x] ELSE u[x - Len(p)]
  <2>1. /\ p \o u \in Seq(S) /\ Len(p \o u) = Len(p) + Len(u)
        /\ \A x \in 1 .. Len(p) + Len(u) : (p \o u)[x] = IF x <= Len(p) THEN p[x] ELSE u[x - Len(p)]
    <3>1. p \in Seq(S) /\ u \in Seq(S)
      BY <1>0, <1>2
    <3> QED
      BY ONLY <3>1, ConcatProperties
  <2> QED
    BY <1>00, <2>1
<1>6. Append(p, a) \o u = s
  <2>1. Append(p, a) = p \o <<a>>
    BY <1>0, AppendIsConcat
  <2>2. <<a>> \o u = r
    <3>1. a \in S /\ <<a>> \in Seq(S) /\ Len(<<a>>) = 1 /\ <<a>>[1] = a
      BY <1>0
    <3>2. /\ <<a>> \o u \in Seq(S) /\ Len(<<a>> \o u) = Len(u) + 1
          /\ \A x \in 1 .. Len(u) + 1 : (<<a>> \o u)[x] = IF x <= 1 THEN a ELSE u[x - 1]
      <4>1. /\ <<a>> \o u \in Seq(S) /\ Len(<<a>> \o u) = Len(<<a>>) + Len(u)
            /\ \A x \in 1 .. Len(<<a>>) + Len(u) :
                  (<<a>> \o u)[x] = IF x <= Len(<<a>>) THEN <<a>>[x] ELSE u[x - Len(<<a>>)]
        BY <1>2, <3>1, ConcatProperties
      <4>2. Len(<<a>>) + Len(u) = Len(u) + 1 /\ \A x \in 1 .. Len(u) + 1 : x <= 1 => x = 1
        BY <1>0, <1>2, <3>1
      <4> DEFINE v == <<a>> \o u
      <4> HIDE DEF v
      <4> QED
        BY <3>1, <4>1, <4>2 DEF v
    <3>3. ASSUME NEW x \in 1 .. Len(r) PROVE (<<a>> \o u)[x] = r[x]
      <4>1. CASE x = 1
        BY <1>0, <1>1, <1>2, <3>2, <4>1
      <4>2. CASE x # 1
        <5>1. x - 1 \in 1 .. Len(q) - i /\ ~(x <= 1)
          BY <1>0, <1>1, <4>2
        <5>2. u[x - 1] = q[x - 1 + i] /\ r[x] = q[x + i - 1]
          BY Zenon, <1>0, <1>1, <1>2, <5>1
        <5>3. x - 1 + i = x + i - 1
          BY <1>0
        <5> QED
          BY <1>0, <1>1, <1>2, <3>2, <5>1, <5>2, <5>3
      <4> QED
        BY Zenon, <4>1, <4>2
    <3>4. Len(<<a>> \o u) = Len(r)
      BY <1>0, <1>1, <1>2, <3>2
    <3> DEFINE v == <<a>> \o u
    <3> HIDE DEF v
    <3>5. v \in Seq(S) /\ Len(v) = Len(r) /\ \A x \in 1 .. Len(v) : v[x] = r[x]
      BY Zenon, <3>2, <3>3, <3>4 DEF v
    <3> QED
      BY Zenon, <1>1, <3>5, SeqEqual DEF v
  <2>3. (p \o <<a>>) \o u = p \o (<<a>> \o u)
    <3>1. <<a>> \in Seq(S)
      BY <1>0
    <3> QED
      BY <1>2, <3>1, ConcatAssociative
  <2> QED
    BY Zenon, <1>00, <2>1, <2>2, <2>3
<1>7. b \in Seq(S) /\ Range(b) = Range(p) \cup {a} /\ b \o u = s
  BY <1>0, <1>00, <1>6, AppendRange
<1>8. a \in Range(s) /\ s[Len(p) + 1] = a /\ Len(p) + 1 \in 1 .. Len(s)
  <2>1. Len(p) + 1 \in 1 .. Len(s) /\ ~(Len(p) + 1 <= Len(p)) /\ Len(p) + 1 - Len(p) = 1 /\ 1 \in 1 .. Len(q) - i + 1
    BY <1>0, <1>1, <1>3
  <2>2. s[Len(p) + 1] = r[1]
    BY <1>3, <2>1
  <2>3. r[1] = q[1 + i - 1] /\ 1 + i - 1 = i
    BY <1>0, <1>1, <2>1
  <2> QED
    <3>1. s[Len(p) + 1] = a
      BY <2>2, <2>3
    <3>2. s[Len(p) + 1] \in Range(s)
      BY Zenon, <1>3, <2>1, InRange
    <3> QED
      BY <2>1, <3>1, <3>2
<1> DEFINE At2(x) == IF x <= Len(p) THEN x ELSE x + 1
<1>9. Len(s) = Len(t) + 1 /\ Len(t) \in Nat
  BY <1>0, <1>1, <1>2, <1>3, <1>4
<1>10. ASSUME NEW x \in 1 .. Len(t)
       PROVE  /\ At2(x) \in 1 .. Len(s) /\ At2(x) # Len(p) + 1 /\ t[x] = s[At2(x)]
  <2>1. CASE x <= Len(p)
    <3>1. At2(x) = x /\ x \in 1 .. Len(s) /\ x # Len(p) + 1
      BY <1>0, <1>9, <2>1
    <3>2. t[x] = p[x] /\ s[x] = p[x]
      BY <1>3, <1>4, <2>1, <3>1
    <3> QED
      BY <3>1, <3>2
  <2>2. CASE ~(x <= Len(p))
    <3>1. x + 1 \in 1 .. Len(s) /\ ~(x + 1 <= Len(p)) /\ x + 1 # Len(p) + 1
      BY <1>0, <1>9, <2>2
    <3>2. t[x] = u[x - Len(p)] /\ s[x + 1] = r[x + 1 - Len(p)]
      BY <1>3, <1>4, <2>2, <3>1
    <3>3. x - Len(p) \in 1 .. Len(q) - i /\ x + 1 - Len(p) \in 1 .. Len(q) - i + 1
      BY <1>0, <1>2, <1>4, <2>2
    <3>4. u[x - Len(p)] = q[x - Len(p) + i] /\ r[x + 1 - Len(p)] = q[x + 1 - Len(p) + i - 1]
      BY Zenon, <1>1, <1>2, <3>3
    <3>5. x - Len(p) + i = x + 1 - Len(p) + i - 1
      BY <1>0
    <3> QED
      BY <2>2, <3>1, <3>2, <3>4, <3>5
  <2> QED
    BY <2>1, <2>2
<1>11. \A x, y \in 1 .. Len(t) : At2(x) = At2(y) => x = y
  BY <1>0, <1>9
<1>12. ASSUME NEW y \in 1 .. Len(s), y # Len(p) + 1
       PROVE  \E x \in 1 .. Len(t) : At2(x) = y
  <2>1. CASE y <= Len(p)
    BY <1>0, <1>4, <1>9, <2>1, <1>2
  <2>2. CASE ~(y <= Len(p))
    <3>1. y - 1 \in 1 .. Len(t) /\ ~(y - 1 <= Len(p)) /\ y - 1 + 1 = y
      BY <1>0, <1>9, <1>12, <2>2
    <3> QED
      BY <3>1
  <2> QED
    BY <2>1, <2>2
<1>13. ASSUME \A x, y \in 1 .. Len(s) : s[x] = s[y] => x = y
       PROVE  /\ Range(t) = Range(s) \ {a}
              /\ \A x, y \in 1 .. Len(t) : t[x] = t[y] => x = y
  <2> HIDE DEF At2
  <2>1. ASSUME NEW x \in 1 .. Len(t), NEW y \in 1 .. Len(t), t[x] = t[y] PROVE x = y
    BY <1>10, <1>11, <1>13, <2>1
  <2>2. ASSUME NEW z \in Range(t) PROVE z \in Range(s) \ {a}
    <3>1. PICK x \in 1 .. Len(t) : t[x] = z
      BY <1>4, InRange
    <3>2. At2(x) \in 1 .. Len(s) /\ At2(x) # Len(p) + 1 /\ z = s[At2(x)]
      BY <1>10, <3>1
    <3> QED
      BY Zenon, <1>3, <1>8, <1>13, <3>2, InRange
  <2>3. ASSUME NEW z \in Range(s), z # a PROVE z \in Range(t)
    <3>1. PICK y \in 1 .. Len(s) : s[y] = z
      BY <1>3, InRange
    <3>2. PICK x \in 1 .. Len(t) : At2(x) = y
      BY <1>8, <1>12, <2>3, <3>1
    <3> QED
      BY Zenon, <1>4, <1>10, <3>1, <3>2, InRange
  <2> QED
    BY <2>1, <2>2, <2>3
<1>14. Distinct(s) => Range(t) = Range(s) \ {a} /\ Distinct(t)
  BY <1>13 DEF Distinct
<1>15. s \in Seq(S) /\ t \in Seq(S)
  BY <1>3, <1>4
<1> HIDE DEF u, r
<1> QED
  BY <1>0, <1>7, <1>8, <1>14, <1>15 DEF u

\* Of two sets of permanent objects the last counts.
LEMMA WithPermTwice ==
    ASSUME NEW m \in Memories, NEW s, NEW t
    PROVE  WithPerm(WithPerm(m, s), t) = WithPerm(m, t)
  BY Zenon DEF WithPerm, Memories

\* What the interpreter and the mourners refer to is found at its new place.
Rooted(m, rs) ==
    /\ \A i \in DOMAIN rs : Ref(m, rs[i]) /\ IsScavengeSurvivor(m, rs[i])
    /\ \A i \in DOMAIN m.mournQueue : Live(m, m.mournQueue[i]) /\ ~IsKind(m, m.mournQueue[i], "ephemeron")

\* Mapped roots stay mapped through a growth.
LEMMA RootedGrows ==
    ASSUME NEW m, HeapOK(m), NEW n, HeapOK(n), Grows(m, n), NEW rs, Rooted(m, rs)
    PROVE  Rooted(n, rs)
<1>1. n.mournQueue = m.mournQueue
  BY GrowsCounts
<1>2. ASSUME NEW i \in DOMAIN rs PROVE Ref(n, rs[i]) /\ IsScavengeSurvivor(n, rs[i])
  <2>1. Ref(m, rs[i]) /\ IsScavengeSurvivor(m, rs[i])
    BY DEF Rooted
  <2> QED
    BY <2>1, GrowsUsed
<1>3. ASSUME NEW i \in DOMAIN m.mournQueue
      PROVE  Live(n, m.mournQueue[i]) /\ ~IsKind(n, m.mournQueue[i], "ephemeron")
  <2>1. Live(m, m.mournQueue[i]) /\ ~IsKind(m, m.mournQueue[i], "ephemeron")
    BY DEF Rooted
  <2> QED
    BY <2>1, LiveFacts, LiveStays
<1> QED
  BY <1>1, <1>2, <1>3 DEF Rooted

\* The permanent objects that are kept so far.
PermKept(m) == \A a \in Range(m.permToNew) : Live(m, a) /\ Done(m, a) /\ HasNew(m, a)

\* Other sets of permanent objects keep mapped roots mapped, and what is kept kept.
LEMMA SamePermKeeps ==
    ASSUME NEW m, HeapOK(m), NEW a \in PermAddresses, NEW n, SameButPerm(m, n, a)
    PROVE  /\ \A rs \in Seq(Oops) : Rooted(m, rs) => Rooted(n, rs)
           /\ PermKept(m) /\ n.permToNew = m.permToNew => PermKept(n)
           /\ Onwards(m, n)
<1>1. /\ HeapOK(n) /\ a \in Addresses
      /\ \A x : Settled(n, x) <=> Settled(m, x)
      /\ \A x : InFuture(n, x) <=> InFuture(m, x)
      /\ \A x : Live(n, x) <=> Live(m, x)
      /\ \A x : Ref(n, x) <=> Ref(m, x)
      /\ \A x : x \in Oops => FollowForwarded(n, x) = FollowForwarded(m, x)
      /\ \A x \in Addresses :
            /\ Cell(n, x).kind = Cell(m, x).kind /\ Size(n, x) = Size(m, x)
            /\ SlotIndices(n, x) = SlotIndices(m, x)
            /\ \A i : Slot(n, x, i) = Slot(m, x, i)
            /\ \A kind : IsKind(n, x, kind) <=> IsKind(m, x, kind)
      /\ Objects(n) = Objects(m)
  BY SameButPermFacts
<1>2. /\ m \in Memories /\ n \in Memories /\ SameLists(m, n)
      /\ n.past = m.past /\ n.survivorStart = m.survivorStart
      /\ n.rememberedSet = m.rememberedSet /\ n.mournQueue = m.mournQueue
      /\ n.previousSize = m.previousSize /\ n.ephemerons = m.ephemerons
  BY <1>1 DEF SameButPerm, HeapOK
<1>3. FutureStart(n) = FutureStart(m)
  BY <1>2, SameSpaces
<1>4. \A x \in Addresses : (Done(n, x) <=> Done(m, x)) /\ (HasNew(n, x) <=> HasNew(m, x))
  BY <1>1 DEF Done, HasNew
<1>5. \A x : x \in Oops => (IsScavengeSurvivor(n, x) <=> IsScavengeSurvivor(m, x))
  BY <1>1, <1>2, <1>3 DEF IsScavengeSurvivor, InFuture
<1>6. ASSUME NEW rs \in Seq(Oops), Rooted(m, rs) PROVE Rooted(n, rs)
  <2>1. \A i \in DOMAIN rs : rs[i] \in Oops
    OBVIOUS
  <2>2. \A i \in DOMAIN m.mournQueue : m.mournQueue[i] \in Addresses
    BY <1>2, Fields
  <2> QED
    BY <1>1, <1>2, <1>5, <1>6, <2>1, <2>2 DEF Rooted
<1>7. PermKept(m) /\ n.permToNew = m.permToNew => PermKept(n)
  BY <1>1, <1>4 DEF PermKept, Live, Used
<1>8. Onwards(m, n)
  <2>1. RSize(n) = RSize(m) /\ RSize(m) \in Nat /\ FutureStart(m) \in Nat
        /\ m.survivorStart \in Nat /\ n.survivorStart >= m.survivorStart
    BY <1>2, Fields, Future, InRange DEF RSize
  <2>2. \A c \in Addresses : FollowForwarded(n, c) = FollowForwarded(m, c)
    BY <1>1 DEF Oops
  <2> QED
    BY <1>1, <1>2, <1>3, <2>1, <2>2 DEF Onwards, SameLists, Live, Used
<1> QED
  BY <1>6, <1>7, <1>8

\* Permanent objects that are kept stay so through a growth.
LEMMA PermKeptGrows ==
    ASSUME NEW m, HeapOK(m), NEW n, HeapOK(n), Grows(m, n), PermKept(m)
    PROVE  PermKept(n)
<1>1. n.permToNew = m.permToNew
  BY GrowsCounts
<1>2. ASSUME NEW a \in Range(m.permToNew) PROVE Live(n, a) /\ Done(n, a) /\ HasNew(n, a)
  <2>1. Live(m, a) /\ Done(m, a) /\ HasNew(m, a)
    BY DEF PermKept
  <2> QED
    BY <2>1, LiveFacts, LiveStays
<1> QED
  BY <1>1, <1>2 DEF PermKept

\* The walk over the permanent objects in q, when i of them are mapped.
PermWalk(m, q, i, from, E, mapped, rs) ==
    /\ HeapOK(m) /\ PermKept(m) /\ Rooted(m, rs)
    /\ Walked(WithPerm(m, m.permToNew \o Rest(q, i)), from, Range(m.ephemeronList), E, mapped)

\* An object that is mapped: the next one, after what is kept and before the rest.
PermCase(k, q, i, from, E, mapped, rs, s, a, n) ==
    /\ q \in Seq(PermAddresses) /\ i \in 1 .. Len(q) /\ ~mapped
    /\ PermWalk(k, q, i - 1, from, E, mapped, rs)
    /\ k.previousSize <= RSize(k) /\ E \subseteq 1 .. k.previousSize
    /\ s = k.permToNew \o Rest(q, i - 1)
    /\ a = q[i] /\ n = ScavengeReferentsOf(k, a)

\* Mapping one permanent object scans it.
LEMMA MapPermFacts ==
    ASSUME NEW k, NEW q, NEW i, NEW from, NEW E, NEW mapped, NEW rs, NEW s, NEW a, NEW n,
           PermCase(k, q, i, from, E, mapped, rs, s, a, n)
    PROVE  /\ HeapOK(k) /\ HeapOK(n) /\ Grows(k, n) /\ s \in Seq(PermAddresses)
           /\ a \in PermAddresses /\ Live(n, a) /\ Done(n, a)
           /\ KeepsNew(n, a) => HasNew(n, a)
           /\ ~KeepsNew(n, a) => ~RefersToYoung(n, a)
           /\ Distinct(s)
           /\ Cell(n, a).bits \in {0, 1}
           /\ Walked(WithPerm(n, s), from, Range(n.ephemeronList), E, mapped)
<1> USE DEF PermCase
<1>1. /\ HeapOK(k) /\ k \in Memories
      /\ Walked(WithPerm(k, s), from, Range(k.ephemeronList), E, mapped)
  BY DEF PermWalk, HeapOK
<1>2. s \in Seq(PermAddresses) /\ a \in PermAddresses /\ a \in Range(s)
  <2>1. RestCase(PermAddresses, k.permToNew, q, i, s, k.permToNew \o Rest(q, i), Append(k.permToNew, q[i]))
    BY <1>1, Fields DEF RestCase
  <2>2. s \in Seq(PermAddresses) /\ q[i] \in PermAddresses /\ q[i] \in Range(s)
    BY ONLY <2>1, RestFacts
  <2> QED
    BY <2>2
<1> DEFINE u == WithPerm(k, s)
           v == WithPerm(n, s)
<1>0. u = WithPerm(k, s) /\ v = WithPerm(n, s)
  OBVIOUS
<1> HIDE DEF u, v
<1>01. Walked(u, from, Range(k.ephemeronList), E, mapped)
  BY <1>0, <1>1
<1>3. /\ u \in Memories /\ u.permToNew = s /\ u.previousSize = k.previousSize
      /\ RSize(u) = RSize(k) /\ u.ephemeronList = k.ephemeronList
  <2>1. k \in Memories /\ s \in Seq(PermAddresses) /\ u = WithPerm(k, s)
    BY <1>0, <1>1, <1>2
  <2>2. /\ u \in Memories /\ u.permToNew = s /\ u.previousSize = k.previousSize
        /\ u.rememberedSet = k.rememberedSet /\ u.ephemeronList = k.ephemeronList
    BY ONLY <2>1, WithPermFields
  <2> QED
    BY <2>2 DEF RSize
<1>4. /\ \A x : Used(u, x) <=> Used(k, x)
      /\ \A x : Live(u, x) <=> Live(k, x)
      /\ \A x, kind : IsKind(u, x, kind) <=> IsKind(k, x, kind)
  BY ZenonT(60), <1>0, <1>1, <1>2, WithPermFacts
<1>5. HeapOK(u) /\ Distinct(s)
  <2>1. HeapOK(u) /\ SetsOK(u, 1 .. RSize(u))
    BY <1>01 DEF Walked, Loop
  <2>2. \A x, y \in 1 .. Len(u.permToNew) : u.permToNew[x] = u.permToNew[y] => x = y
    BY <2>1 DEF SetsOK, InSet
  <2> QED
    BY Zenon, <1>3, <2>1, <2>2 DEF Distinct
<1>6. Used(u, a)
  <2>1. \E p \in 1 .. Len(u.permToNew) : u.permToNew[p] = a
    <3>1. s \in Seq(PermAddresses) /\ a \in Range(s) /\ u.permToNew = s
      BY <1>2, <1>3
    <3> QED
      BY ONLY <3>1, InRange
  <2>2. SetsOK(u, 1 .. RSize(u))
    BY <1>01 DEF Walked, Loop
  <2> QED
    BY <1>2, <2>1, <2>2 DEF SetsOK, InSet
<1>7. a \in Addresses /\ IsPerm(a) /\ ~IsYoung(a)
  BY <1>2, Layout
<1>8. Live(k, a) /\ CellOK(k, a)
  BY <1>1, <1>4, <1>6, <1>7 DEF Live, InSource, HeapOK
<1>9. ~IsUnfired(k, a) /\ ~IsKind(k, a, "weak")
  BY <1>7, <1>8 DEF CellOK, IsUnfired
<1>10. HeapOK(n) /\ Grows(k, n)
  BY <1>1, <1>8, ScavengeReferents
<1>11. /\ Live(n, a) /\ Done(n, a)
       /\ KeepsNew(n, a) => IsKind(n, a, "weak") \/ HasNew(n, a)
       /\ ~KeepsNew(n, a) => ~RefersToYoung(n, a)
  BY <1>1, <1>8, <1>9, Scanned
<1>12. ~IsKind(n, a, "weak")
  BY <1>1, <1>8, <1>9, <1>10, LiveStays
<1>13. HeapOK(u) /\ HeapOK(v) /\ Grows(u, v) /\ v.ephemeronList = n.ephemeronList
  <2>1. n \in Memories
    BY <1>10 DEF HeapOK
  <2> QED
    <3>1. /\ HeapOK(k) /\ HeapOK(n) /\ Grows(k, n) /\ s \in Seq(PermAddresses) /\ k \in Memories
          /\ u = WithPerm(k, s) /\ v = WithPerm(n, s)
      BY <1>0, <1>1, <1>2, <1>10
    <3>2. HeapOK(u) /\ HeapOK(v) /\ Grows(u, v)
      BY ONLY <3>1, WithPermGrows
    <3>3. v.ephemeronList = n.ephemeronList
      BY ONLY <2>1, <3>1, WithPermFields
    <3> QED
      BY <3>2, <3>3
<1>14. Walked(v, from, Range(k.ephemeronList) \cup Range(v.ephemeronList), E, mapped)
  <2>2. u.previousSize <= RSize(u) /\ E \subseteq 1 .. u.previousSize
    BY <1>3
  <2> QED
    BY Zenon, <1>01, <1>13, <2>2, WalkedGrows
<1>15. Range(k.ephemeronList) \cup Range(v.ephemeronList) = Range(n.ephemeronList)
  BY Zenon, <1>1, <1>10, <1>13, GrowsCounts
<1>16. Cell(n, a).bits \in {0, 1}
  BY <1>7, <1>10, <1>11 DEF HeapOK, CellOK, InSource
<1> QED
  BY Zenon, <1>1, <1>2, <1>5, <1>10, <1>11, <1>12, <1>14, <1>15, <1>16, <1>0

\* Another set of permanent objects keeps mapped roots mapped.
LEMMA WithPermKeeps ==
    ASSUME NEW m, HeapOK(m), NEW s \in Seq(PermAddresses), NEW n, n = WithPerm(m, s)
    PROVE  /\ \A rs : Rooted(m, rs) => Rooted(n, rs)
           /\ Onwards(m, n)
<1>1. m \in Memories
  BY DEF HeapOK
<1>2. /\ n.rememberedSet = m.rememberedSet /\ n.mournQueue = m.mournQueue
      /\ n.previousSize = m.previousSize /\ n.ephemerons = m.ephemerons
      /\ n.ephemeronList = m.ephemeronList /\ n.survivorStart = m.survivorStart
  BY <1>1, WithPermFields
<1>3. /\ HeapOK(n)
      /\ FutureStart(n) = FutureStart(m)
      /\ \A x : InFuture(n, x) <=> InFuture(m, x)
      /\ \A x : Live(n, x) <=> Live(m, x)
      /\ \A x : Ref(n, x) <=> Ref(m, x)
      /\ \A x : FollowForwarded(n, x) = FollowForwarded(m, x)
      /\ \A x : Size(n, x) = Size(m, x)
      /\ \A x, kind : IsKind(n, x, kind) <=> IsKind(m, x, kind)
      /\ Objects(n) = Objects(m)
  BY <1>1, WithPermFacts
<1>4. \A rs : Rooted(m, rs) => Rooted(n, rs)
  BY <1>2, <1>3 DEF Rooted, IsScavengeSurvivor
<1>5. Onwards(m, n)
  <2>1. RSize(n) = RSize(m) /\ RSize(m) \in Nat /\ FutureStart(m) \in Nat
        /\ m.survivorStart \in Nat /\ n.survivorStart >= m.survivorStart
    BY <1>1, <1>2, Fields, Future, InRange DEF RSize
  <2> QED
    BY <1>2, <1>3, <2>1 DEF Onwards
<1> QED
  BY <1>4, <1>5

\* The memory with the bit of the object at a reset, and w for the other set.
Unremembered(m, a, w) == [SetRemembered(m, a, FALSE) EXCEPT !.permToOld = w]

\* Forgetting a permanent object, field by field.
LEMMA UnrememberedFacts ==
    ASSUME NEW m \in Memories, NEW a \in PermAddresses, NEW w \in Seq(PermAddresses),
           Cell(m, a).bits \in {0, 1}, NEW n, n = Unremembered(m, a, w)
    PROVE  /\ SameButPerm(m, n, a) /\ ~Remembered(n, a)
           /\ n.permToNew = m.permToNew /\ n.permToOld = w
<1>1. a \in Addresses /\ m.heap \in [Addresses -> Cells] /\ m.heap[a] \in Cells
  BY Zenon, Layout, Fields
<1> DEFINE c == [m.heap[a] EXCEPT !.bits = 2 * (@ \div 2) + 0]
<1>2. 2 * (m.heap[a].bits \div 2) + 0 = 0
  BY DEF Cell
<1>3. c \in Cells /\ c.kind = m.heap[a].kind /\ c.slots = m.heap[a].slots /\ c.bits = 0
  BY SMTT(60), <1>1, <1>2 DEF Cells, MaxRTRefCount
<1>4. n = [m EXCEPT !.heap = [m.heap EXCEPT ![a] = c], !.permToOld = w]
  BY <1>1 DEF Unremembered, SetRemembered, Memories, Cells
<1> HIDE DEF c
<1>5. [m.heap EXCEPT ![a] = c] \in [Addresses -> Cells]
  BY <1>1, <1>3
<1>6. /\ n \in Memories /\ n.heap = [m.heap EXCEPT ![a] = c] /\ n.permToOld = w
      /\ n.permToNew = m.permToNew /\ SameLists(m, n)
      /\ n.past = m.past /\ n.survivorStart = m.survivorStart /\ n.freeStart = m.freeStart
      /\ n.criterion = m.criterion /\ n.rememberedSet = m.rememberedSet
      /\ n.mournQueue = m.mournQueue
      /\ n.previousSize = m.previousSize /\ n.ephemerons = m.ephemerons
  BY ZenonT(60), <1>4, <1>5 DEF Memories, SameLists
<1>7. n.heap[a] = c /\ \A x \in Addresses : x # a => n.heap[x] = m.heap[x]
  BY <1>1, <1>6
<1>8. ~Remembered(n, a)
  BY <1>3, <1>7 DEF Remembered
<1> QED
  BY <1>3, <1>6, <1>7, <1>8 DEF SameButPerm

\* A permanent object that goes away leaves the walk over the others.
LEMMA PermLeaves ==
    ASSUME NEW n, HeapOK(n), NEW s \in Seq(PermAddresses), NEW t \in Seq(PermAddresses),
           NEW a \in PermAddresses, NEW w \in Seq(PermAddresses), NEW k, k = Unremembered(n, a, w),
           Cell(n, a).bits \in {0, 1}, Done(n, a), ~RefersToYoung(n, a),
           Range(n.permToOld) \subseteq Range(w), RefersToOld(n, a) => a \in Range(w),
           Range(t) = Range(s) \ {a}, Distinct(t),
           NEW from, NEW C, NEW E, NEW mapped, ~mapped, Walked(WithPerm(n, s), from, C, E, mapped)
    PROVE  Walked(WithPerm(k, t), from, C, E, mapped)
<1> DEFINE v == WithPerm(n, s)
           u == WithPerm(k, t)
<1>0. v = WithPerm(n, s) /\ u = WithPerm(k, t) /\ Walked(v, from, C, E, mapped)
  OBVIOUS
<1> HIDE DEF u, v
<1>1. n \in Memories
  BY DEF HeapOK
<1>2. /\ SameButPerm(n, k, a) /\ ~Remembered(k, a) /\ k.permToOld = w /\ k \in Memories
  <2>1. SameButPerm(n, k, a) /\ ~Remembered(k, a) /\ k.permToOld = w
    BY <1>1, UnrememberedFacts
  <2> QED
    BY <2>1 DEF SameButPerm
<1>3. /\ v \in Memories /\ v.permToNew = s
      /\ v.heap = n.heap /\ v.past = n.past /\ v.survivorStart = n.survivorStart
      /\ v.freeStart = n.freeStart /\ v.criterion = n.criterion
      /\ v.permToOld = n.permToOld /\ v.rememberedSet = n.rememberedSet
      /\ v.previousSize = n.previousSize /\ v.ephemerons = n.ephemerons
      /\ v.weakList = n.weakList /\ v.ephemeronList = n.ephemeronList
      /\ v.mournQueue = n.mournQueue
  <2>1. n \in Memories /\ v = WithPerm(n, s)
    BY <1>0, <1>1
  <2> QED
    BY ONLY SMTT(60), <2>1, WithPermFields, s \in Seq(PermAddresses)
<1>4. /\ u \in Memories /\ u.permToNew = t
      /\ u.heap = k.heap /\ u.past = k.past /\ u.survivorStart = k.survivorStart
      /\ u.freeStart = k.freeStart /\ u.criterion = k.criterion
      /\ u.permToOld = k.permToOld /\ u.rememberedSet = k.rememberedSet
      /\ u.previousSize = k.previousSize /\ u.ephemerons = k.ephemerons
      /\ u.weakList = k.weakList /\ u.ephemeronList = k.ephemeronList
      /\ u.mournQueue = k.mournQueue
  <2>1. k \in Memories /\ u = WithPerm(k, t)
    BY <1>0, <1>2
  <2> QED
    BY ONLY SMTT(60), <2>1, WithPermFields, t \in Seq(PermAddresses)
<1>5. SameButPerm(v, u, a)
  BY <1>2, <1>3, <1>4 DEF SameButPerm, SameLists
<1>6. ~Remembered(u, a) /\ (RefersToOld(v, a) <=> RefersToOld(n, a))
      /\ Done(v, a) /\ ~RefersToYoung(v, a)
  <2>1. n \in Memories /\ v = WithPerm(n, s) /\ k \in Memories /\ u = WithPerm(k, t)
        /\ s \in Seq(PermAddresses) /\ t \in Seq(PermAddresses)
    BY <1>0, <1>1, <1>2
  <2>2. (RefersToOld(v, a) <=> RefersToOld(n, a)) /\ (Done(v, a) <=> Done(n, a))
        /\ (RefersToYoung(v, a) <=> RefersToYoung(n, a)) /\ (Remembered(u, a) <=> Remembered(k, a))
    BY ONLY <2>1, WithPermFacts
  <2> QED
    BY <1>2, <2>2
<1>7. PermForgotten(v, u, a)
  BY <1>2, <1>3, <1>4, <1>5, <1>6 DEF PermForgotten, Distinct
<1> DEFINE U == (v.previousSize + 1 .. RSize(v)) \cup E
           P == 1 .. RSize(v)
           K == P \ U
<1>8. Loop(v, P, from, U, C, mapped, P, E, K)
  BY <1>0 DEF Walked
<1>9. /\ P = 1 .. RSize(u) /\ U = (u.previousSize + 1 .. RSize(u)) \cup E
  BY <1>5 DEF SameButPerm, RSize
<1> HIDE DEF U, P, K
<1>10. Loop(u, P, from, U, C, mapped, P, E, K)
  BY <1>6, <1>7, <1>8, PermSurgery
<1>11. Walked(u, from, C, E, mapped)
  BY <1>9, <1>10 DEF Walked, K
<1> QED
  BY <1>0, <1>11

\* Mapping one more permanent object moves the walk on, whether it is kept or forgotten.
LEMMA PermStep ==
    ASSUME NEW k, NEW q \in Seq(PermAddresses), NEW i \in 1 .. Len(q), NEW from, NEW E, NEW mapped, ~mapped,
           NEW rs \in Seq(Oops), PermWalk(k, q, i - 1, from, E, mapped, rs),
           k.previousSize <= RSize(k), E \subseteq 1 .. k.previousSize,
           NEW l, l = MapPermReferrer(k, q[i])
    PROVE  PermWalk(l, q, i, from, E, mapped, rs) /\ Onwards(k, l)
<1> DEFINE a == q[i]
           n == ScavengeReferentsOf(k, a)
           p == k.permToNew
           s == p \o Rest(q, i - 1)
           t == p \o Rest(q, i)
           C == Range(n.ephemeronList)
           b == Append(p, a)
<1>0. /\ a = q[i] /\ n = ScavengeReferentsOf(k, a) /\ p = k.permToNew /\ s = p \o Rest(q, i - 1)
      /\ s = k.permToNew \o Rest(q, i - 1) /\ t = p \o Rest(q, i) /\ C = Range(n.ephemeronList)
      /\ b = Append(p, a)
  OBVIOUS
<1>00. l = IF KeepsNew(n, a) THEN [n EXCEPT !.permToNew = Append(@, a)]
           ELSE IF \E x \in DOMAIN Cell(n, a).slots : IsOld(Slot(n, a, x))
           THEN [SetRemembered(n, a, FALSE) EXCEPT !.permToOld = Append(@, a)]
           ELSE SetRemembered(n, a, FALSE)
  <2> DEFINE R(y) == IF KeepsNew(y, a) THEN [y EXCEPT !.permToNew = Append(@, a)]
                     ELSE IF \E x \in DOMAIN Cell(y, a).slots : IsOld(Slot(y, a, x))
                     THEN [SetRemembered(y, a, FALSE) EXCEPT !.permToOld = Append(@, a)]
                     ELSE SetRemembered(y, a, FALSE)
  <2>1. MapPermReferrer(k, a) = With(n, LAMBDA y : R(y))
    BY DEF MapPermReferrer
  <2> HIDE DEF R
  <2>2. With(n, LAMBDA y : R(y)) = R(n)
    BY DEF With
  <2>3. l = R(n)
    BY <2>1, <2>2
  <2> QED
    BY <2>3 DEF R
<1> HIDE DEF n, s, t, p, C, a, b
<1>1. /\ HeapOK(k) /\ HeapOK(n) /\ Grows(k, n) /\ s \in Seq(PermAddresses)
      /\ a \in PermAddresses /\ Live(n, a) /\ Done(n, a)
      /\ KeepsNew(n, a) => HasNew(n, a)
      /\ ~KeepsNew(n, a) => ~RefersToYoung(n, a)
      /\ Distinct(s)
      /\ Cell(n, a).bits \in {0, 1}
      /\ Walked(WithPerm(n, s), from, C, E, mapped)
  <2>1. PermCase(k, q, i, from, E, mapped, rs, s, a, n)
    BY <1>0 DEF PermCase
  <2>2. HeapOK(k) /\ HeapOK(n) /\ Grows(k, n) /\ s \in Seq(PermAddresses)
    BY ONLY <2>1, MapPermFacts
  <2>3. a \in PermAddresses /\ Live(n, a) /\ Done(n, a) /\ Cell(n, a).bits \in {0, 1}
    BY ONLY <2>1, MapPermFacts
  <2>4. (KeepsNew(n, a) => HasNew(n, a)) /\ (~KeepsNew(n, a) => ~RefersToYoung(n, a))
    BY ONLY <2>1, MapPermFacts
  <2>5. Distinct(s)
    BY ONLY <2>1, MapPermFacts
  <2>6. Walked(WithPerm(n, s), from, Range(n.ephemeronList), E, mapped)
    BY ONLY <2>1, MapPermFacts
  <2> QED
    BY <1>0, <2>2, <2>3, <2>4, <2>5, <2>6
<1>2. HeapOK(k) /\ PermKept(k) /\ Rooted(k, rs)
  BY DEF PermWalk
<1>3. PermKept(n) /\ Rooted(n, rs) /\ n.permToNew = p /\ Onwards(k, n) /\ n \in Memories
  BY Zenon, <1>0, <1>1, <1>2, PermKeptGrows, RootedGrows, GrowsCounts, GrowsOnwards DEF HeapOK
<1>4. p \in Seq(PermAddresses) /\ n.permToOld \in Seq(PermAddresses)
  BY Zenon, <1>0, <1>1, <1>2, Fields DEF HeapOK
<1>5. /\ t \in Seq(PermAddresses)
      /\ b \in Seq(PermAddresses) /\ b \o Rest(q, i) = s
      /\ Range(b) = Range(p) \cup {a}
      /\ Range(t) = Range(s) \ {a}
      /\ Distinct(t)
  <2>1. RestCase(PermAddresses, p, q, i, s, t, b)
    BY <1>0, <1>4 DEF RestCase
  <2>2. /\ t \in Seq(PermAddresses)
        /\ b \in Seq(PermAddresses) /\ b \o Rest(q, i) = s
        /\ Range(b) = Range(p) \cup {q[i]}
    BY ONLY <2>1, RestFacts
  <2>3. (Distinct(s)) => Range(t) = Range(s) \ {q[i]}
    BY ONLY <2>1, RestFacts
  <2>4. (Distinct(s)) =>
           Distinct(t)
    BY ONLY <2>1, RestFacts
  <2> QED
    BY <1>0, <1>1, <2>2, <2>3, <2>4
<1>6. l = IF KeepsNew(n, a) THEN WithPerm(n, b)
          ELSE IF \E x \in DOMAIN Cell(n, a).slots : IsOld(Slot(n, a, x))
          THEN Unremembered(n, a, Append(n.permToOld, a))
          ELSE Unremembered(n, a, n.permToOld)
  <2>1. [SetRemembered(n, a, FALSE) EXCEPT !.permToOld = n.permToOld] = SetRemembered(n, a, FALSE)
    BY Zenon, <1>3 DEF SetRemembered, Memories
  <2>2. [n EXCEPT !.permToNew = Append(@, a)] = WithPerm(n, b)
    BY <1>0, <1>3 DEF WithPerm, Memories
  <2>3. [SetRemembered(n, a, FALSE) EXCEPT !.permToOld = Append(@, a)]
           = Unremembered(n, a, Append(n.permToOld, a))
    BY <1>3 DEF Unremembered, SetRemembered, Memories
  <2>5. Unremembered(n, a, n.permToOld) = SetRemembered(n, a, FALSE)
    BY <2>1 DEF Unremembered
  <2> QED
    BY Zenon, <1>00, <2>2, <2>3, <2>5
<1>7. CASE KeepsNew(n, a)
  <2>1. l = WithPerm(n, b) /\ b \in Seq(PermAddresses)
    BY <1>5, <1>6, <1>7
  <2>2. l.permToNew = b /\ l.ephemeronList = n.ephemeronList
    BY ONLY <1>3, <2>1, WithPermFields
  <2>3. /\ HeapOK(l) /\ \A x : Live(l, x) <=> Live(n, x)
        /\ \A x : (Done(l, x) <=> Done(n, x)) /\ (HasNew(l, x) <=> HasNew(n, x))
    BY <1>1, <1>3, <2>1, WithPermFacts
  <2>4. Rooted(l, rs) /\ Onwards(n, l)
    BY <1>1, <1>3, <2>1, WithPermKeeps
  <2>5. PermKept(l)
    <3>1. \A x \in Range(l.permToNew) : x \in Range(p) \/ x = a
      BY <1>5, <2>2
    <3> QED
      BY <1>1, <1>3, <1>7, <2>3, <3>1 DEF PermKept
  <2>6. WithPerm(l, l.permToNew \o Rest(q, i)) = WithPerm(n, s)
    <3>1. l.permToNew \o Rest(q, i) = s
      BY <1>5, <2>2
    <3>2. WithPerm(WithPerm(n, b), s) = WithPerm(n, s)
      BY <1>3, WithPermTwice
    <3> QED
      BY <2>1, <3>1, <3>2
  <2>7. Walked(WithPerm(l, l.permToNew \o Rest(q, i)), from, Range(l.ephemeronList), E, mapped)
    BY <1>0, <1>1, <2>2, <2>6
  <2>8. Onwards(k, l)
    BY <1>3, <2>4, OnwardsTwice
  <2> QED
    BY <2>3, <2>4, <2>5, <2>7, <2>8 DEF PermWalk
<1>8. ASSUME ~KeepsNew(n, a), NEW w \in Seq(PermAddresses), l = Unremembered(n, a, w),
             Range(n.permToOld) \subseteq Range(w), RefersToOld(n, a) => a \in Range(w)
      PROVE  PermWalk(l, q, i, from, E, mapped, rs) /\ Onwards(k, l)
  <2>1. SameButPerm(n, l, a) /\ l.permToNew = p
    BY <1>1, <1>3, <1>8, UnrememberedFacts
  <2>2. Rooted(l, rs) /\ PermKept(l) /\ Onwards(n, l) /\ HeapOK(l)
    <3>1. Rooted(l, rs) /\ PermKept(l) /\ Onwards(n, l)
      BY <1>1, <1>3, <2>1, SamePermKeeps
    <3> QED
      BY <3>1 DEF Onwards
  <2>3. Walked(WithPerm(l, t), from, C, E, mapped)
    <3>1. /\ HeapOK(n) /\ s \in Seq(PermAddresses) /\ t \in Seq(PermAddresses)
          /\ a \in PermAddresses /\ w \in Seq(PermAddresses) /\ l = Unremembered(n, a, w)
          /\ Cell(n, a).bits \in {0, 1} /\ Done(n, a) /\ ~RefersToYoung(n, a)
          /\ Range(n.permToOld) \subseteq Range(w) /\ (RefersToOld(n, a) => a \in Range(w))
          /\ Range(t) = Range(s) \ {a} /\ Distinct(t)
      BY <1>1, <1>5, <1>8
    <3>2. Walked(WithPerm(n, s), from, C, E, mapped) /\ ~mapped
      BY <1>1
    <3> QED
      BY ONLY <3>1, <3>2, PermLeaves
  <2>4. l.ephemeronList = n.ephemeronList
    BY <2>1 DEF SameButPerm, SameLists
  <2>5. l.permToNew \o Rest(q, i) = t
    BY <1>0, <2>1
  <2>6. Walked(WithPerm(l, l.permToNew \o Rest(q, i)), from, Range(l.ephemeronList), E, mapped)
    BY <1>0, <2>3, <2>4, <2>5
  <2>7. Onwards(k, l)
    BY <1>3, <2>2, OnwardsTwice
  <2> QED
    BY <2>2, <2>6, <2>7 DEF PermWalk
<1>9. RefersToOld(n, a) <=> \E x \in DOMAIN Cell(n, a).slots : IsOld(Slot(n, a, x))
  <2>1. a \in Addresses
    BY <1>1 DEF Live, Used
  <2>2. DOMAIN Cell(n, a).slots = SlotIndices(n, a)
    BY <1>3, <2>1, CellFields
  <2> QED
    BY <2>2 DEF RefersToOld
<1>10. CASE ~KeepsNew(n, a) /\ RefersToOld(n, a)
  <2>1. l = Unremembered(n, a, Append(n.permToOld, a))
    BY <1>6, <1>9, <1>10
  <2>2. Append(n.permToOld, a) \in Seq(PermAddresses)
        /\ Range(Append(n.permToOld, a)) = Range(n.permToOld) \cup {a}
    BY <1>1, <1>4, AppendRange
  <2> QED
    BY Zenon, <1>8, <1>10, <2>1, <2>2
<1>11. CASE ~KeepsNew(n, a) /\ ~RefersToOld(n, a)
  <2>1. l = Unremembered(n, a, n.permToOld)
    BY <1>6, <1>9, <1>11
  <2> QED
    BY <1>4, <1>8, <1>11, <2>1
<1> QED
  BY <1>7, <1>10, <1>11

\* Nothing is left of the sequence, or nothing of it is taken yet.
LEMMA RestEnds ==
    ASSUME NEW S, NEW q \in Seq(S)
    PROVE  Rest(q, 0) = q /\ Rest(q, Len(q)) = <<>> /\ <<>> \o Rest(q, 0) = q /\ q \o Rest(q, Len(q)) = q
           /\ q \o <<>> = q
<1>1. Len(q) \in Nat
  OBVIOUS
<1>2. Rest(q, 0) = q
  <2>1. Rest(q, 0) \in Seq(S) /\ Len(Rest(q, 0)) = Len(q) /\ \A i \in 1 .. Len(q) : Rest(q, 0)[i] = q[i]
    BY <1>1 DEF Rest
  <2> QED
    BY <2>1, SeqEqual
<1>3. Rest(q, Len(q)) = <<>>
  BY <1>1 DEF Rest
<1>4. <<>> \o q = q /\ q \o <<>> = q
  BY ConcatEmptySeq
<1>5. <<>> \o Rest(q, 0) = q
  BY <1>2, <1>4
<1>6. q \o Rest(q, Len(q)) = q
  BY <1>3, <1>4
<1> QED
  BY <1>2, <1>3, <1>4, <1>5, <1>6

\* A memory with its own set of permanent objects.
LEMMA WithPermItself ==
    ASSUME NEW m \in Memories
    PROVE  WithPerm(m, m.permToNew) = m
  BY DEF WithPerm, Memories

\* With all of them mapped, those that are left are done.
LEMMA PermDone ==
    ASSUME NEW m, NEW from, NEW C, NEW E, NEW mapped, Walked(m, from, C, E, mapped), PermKept(m),
           NEW done
    PROVE  Walked(m, from, C, E, done) /\ PermNew(m)
<1> DEFINE U == (m.previousSize + 1 .. RSize(m)) \cup E
           P == 1 .. RSize(m)
           K == P \ U
<1>1. Loop(m, P, from, U, C, mapped, P, E, K)
  BY DEF Walked
<1> HIDE DEF U, P, K
<1>2. /\ HeapOK(m)
      /\ P \subseteq 1 .. Len(m.rememberedSet) /\ U \subseteq P /\ P \subseteq P
      /\ E \subseteq P /\ K \subseteq P
      /\ C \subseteq Addresses /\ Range(m.ephemeronList) \subseteq C
      /\ from \in FutureStart(m) .. m.survivorStart
      /\ SetsOK(m, P) /\ Covered(m, from, U, C, mapped) /\ UnfiredListed(m, C)
      /\ WeakHeld(m, P) /\ CorpsesOK(m, C) /\ EphemeronsOK(m, E) /\ Kept(m, K)
  BY <1>1 DEF Loop
<1>3. ASSUME NEW a \in PermAddresses, Used(m, a), Remembered(m, a)
      PROVE  Done(m, a) /\ HasNew(m, a)
  <2>1. m.permToNew \in Seq(PermAddresses)
    BY <1>2, Fields DEF HeapOK
  <2>2. a \in Range(m.permToNew)
    BY <1>2, <1>3, <2>1, InRange DEF SetsOK, InSet
  <2> QED
    BY <2>2 DEF PermKept
<1>4. PermNew(m)
  BY <1>3 DEF PermNew
<1>5. Covered(m, from, U, C, done)
  <2> SUFFICES ASSUME NEW x \in Addresses, Live(m, x), ~Done(m, x)
               PROVE  \/ InFuture(m, x) /\ x >= from
                      \/ \E p \in U : m.rememberedSet[p] = x
                      \/ Listed(m, C, x)
                      \/ IsPerm(x) /\ Remembered(m, x) /\ ~done
    BY DEF Covered
  <2>1. \/ InFuture(m, x) /\ x >= from
        \/ \E p \in U : m.rememberedSet[p] = x
        \/ Listed(m, C, x)
        \/ IsPerm(x) /\ Remembered(m, x) /\ ~mapped
    BY <1>2 DEF Covered
  <2>2. ~(IsPerm(x) /\ Remembered(m, x))
    BY <1>3, Layout DEF Live
  <2> QED
    BY <2>1, <2>2
<1>6. Loop(m, P, from, U, C, done, P, E, K)
  BY <1>2, <1>4, <1>5 DEF Loop
<1> QED
  BY <1>4, <1>6 DEF Walked, U, P, K

\* Mapping all the permanent objects leaves those kept that refer to a survivor, and the roots mapped.
LEMMA MapPermAll ==
    ASSUME NEW m, HeapOK(m), NEW rs \in Seq(Oops), Rooted(m, rs), NEW from, NEW E, NEW mapped, ~mapped,
           Walked(m, from, Range(m.ephemeronList), E, mapped),
           m.previousSize <= RSize(m), E \subseteq 1 .. m.previousSize,
           NEW n, n = MapOopsFromPermSpace(m)
    PROVE  /\ HeapOK(n) /\ Rooted(n, rs) /\ Onwards(m, n) /\ PermKept(n)
           /\ Walked(n, from, Range(n.ephemeronList), E, mapped)
<1> DEFINE q == m.permToNew
           N == Len(q)
           k0 == WithPerm(m, <<>>)
           R == [p \in Memories \X (1 .. N) |->
                    IF MapPermReferrer(p[1], q[p[2]]) \in Memories
                    THEN MapPermReferrer(p[1], q[p[2]]) ELSE p[1]]
           g == Iteration(Memories, k0, R, N)
<1>1. m \in Memories /\ q \in Seq(PermAddresses) /\ N \in Nat
  BY Fields DEF HeapOK
<1>2. <<>> \in Seq(PermAddresses)
  OBVIOUS
<1> DEFINE empty == <<>>
<1>3. k0 = WithPerm(m, empty) /\ empty \in Seq(PermAddresses) /\ empty \o Rest(q, 0) = q /\ Range(empty) = {}
  BY <1>1, <1>2, RestEnds, NoRange
<1>4. n = ForEach(k0, q, MapPermReferrer)
  BY DEF MapOopsFromPermSpace, WithPerm
<1> HIDE DEF empty, k0, R, g, N
<1>5. k0 \in Memories /\ k0.permToNew = empty /\ k0.ephemeronList = m.ephemeronList
  BY <1>1, <1>3, WithPermFields
<1>6. HeapOK(k0) /\ Rooted(k0, rs) /\ Onwards(m, k0)
  <2>1. Rooted(k0, rs) /\ Onwards(m, k0)
    BY <1>1, <1>3, WithPermKeeps
  <2> QED
    BY <2>1 DEF Onwards
<1>7. WithPerm(k0, k0.permToNew \o Rest(q, 0)) = m
  <2>1. k0.permToNew \o Rest(q, 0) = q
    BY <1>3, <1>5
  <2>2. WithPerm(WithPerm(m, empty), q) = WithPerm(m, q)
    BY <1>1, WithPermTwice
  <2> QED
    BY Zenon, <1>1, <1>3, <2>1, <2>2, WithPermItself
<1>8. PermWalk(k0, q, 0, from, E, mapped, rs)
  <2>1. PermKept(k0)
    BY <1>3, <1>5 DEF PermKept
  <2> QED
    BY <1>5, <1>6, <1>7, <2>1 DEF PermWalk
<1>9. R \in [Memories \X (1 .. N) -> Memories]
  BY DEF R
<1>10. g \in [0 .. N -> Memories] /\ g[0] = k0 /\ \A i \in 1 .. N : g[i] = R[<<g[i - 1], i>>]
  <2>1. N \in Nat
    BY <1>1 DEF N
  <2>2. IsIteration(g, Memories, k0, R, N)
    BY Zenon, <1>5, <1>9, <2>1, Iterates DEF g
  <2> QED
    BY <2>2 DEF IsIteration
<1>11. \A i \in 1 .. N : g[i] = IF MapPermReferrer(g[i - 1], q[i]) \in Memories
                                THEN MapPermReferrer(g[i - 1], q[i]) ELSE g[i - 1]
  <2> TAKE i \in 1 .. N
  <2>1. i - 1 \in 0 .. N
    BY <1>1 DEF N
  <2>2. g[i - 1] \in Memories
    BY <1>10, <2>1
  <2> QED
    BY Zenon, <1>10, <2>2 DEF R
<1> DEFINE T == {i \in 0 .. N : /\ PermWalk(g[i], q, i, from, E, mapped, rs) /\ Onwards(m, g[i])
                                /\ i # 0 => g[i] = MapPermReferrer(g[i - 1], q[i])}
<1>12. 0 \in T
  BY <1>1, <1>6, <1>8, <1>10 DEF N
<1>13. ASSUME NEW i \in 1 .. N, i - 1 \in T PROVE i \in T
  <2> DEFINE k == g[i - 1]
             l == MapPermReferrer(k, q[i])
             a == q[i]
             j == i - 1
  <2>1. PermWalk(k, q, i - 1, from, E, mapped, rs) /\ Onwards(m, k)
    BY <1>13
  <2>2. l = MapPermReferrer(k, q[i]) /\ i \in 1 .. Len(q)
    BY DEF N
  <2> HIDE DEF k, l
  <2>3. k.previousSize <= RSize(k) /\ E \subseteq 1 .. k.previousSize
    <3>1. m.previousSize \in Nat
      BY <1>1, Fields
    <3> QED
      BY <2>1, <3>1 DEF Onwards
  <2>4. PermWalk(l, q, i, from, E, mapped, rs) /\ Onwards(k, l)
    BY ZenonT(60), <1>1, <2>1, <2>2, <2>3, PermStep
  <2>5. l \in Memories
    BY <2>4 DEF PermWalk, HeapOK
  <2>6. g[i] = l
    BY <1>11, <2>5 DEF k, l
  <2>7. Onwards(m, l)
    BY <2>1, <2>4, OnwardsTwice
  <2>8. i \in 0 .. N
    BY <1>1 DEF N
  <2>9. PermWalk(g[i], q, i, from, E, mapped, rs) /\ Onwards(m, g[i])
    BY <2>4, <2>6, <2>7
  <2>10. g[i] = MapPermReferrer(g[i - 1], q[i])
    BY <2>6 DEF k, l
  <2> QED
    BY <2>8, <2>9, <2>10
<1>14. \A i \in 0 .. N : i \in T
  <2> HIDE DEF T
  <2>1. N \in Nat
    BY <1>1 DEF N
  <2> QED
    BY Zenon, <1>12, <1>13, <2>1, UpTo
<1>15. \A i \in 1 .. N : g[i] = MapPermReferrer(g[i - 1], q[i])
  <2> TAKE i \in 1 .. N
  <2>1. i \in 0 .. N /\ i # 0
    BY <1>1 DEF N
  <2> QED
    BY <1>14, <2>1
<1>16. n = g[N]
  <2>1. Len(q) \in Nat /\ g \in [0 .. Len(q) -> Memories]
    BY <1>1, <1>10 DEF N
  <2>2. \A i \in 1 .. Len(q) : g[i] = MapPermReferrer(g[i - 1], q[i])
    BY <1>15 DEF N
  <2>3. ForEach(k0, q, MapPermReferrer) = g[Len(q)]
    BY Zenon, <1>10, <2>1, <2>2, PermFold
  <2> QED
    BY <1>4, <2>3 DEF N
<1>17. PermWalk(n, q, Len(q), from, E, mapped, rs) /\ Onwards(m, n)
  <2>1. N \in 0 .. N
    BY <1>1 DEF N
  <2> QED
    BY <1>14, <1>16, <2>1 DEF N
<1>18. /\ HeapOK(n) /\ PermKept(n) /\ Rooted(n, rs)
       /\ Walked(WithPerm(n, n.permToNew \o Rest(q, Len(q))), from, Range(n.ephemeronList), E, mapped)
  BY <1>17 DEF PermWalk
<1>19. n.permToNew \o Rest(q, Len(q)) = n.permToNew /\ n \in Memories
  <2>1. n \in Memories /\ n.permToNew \in Seq(PermAddresses)
    BY <1>18, Fields DEF HeapOK
  <2>2. n.permToNew \o <<>> = n.permToNew
    BY <2>1, RestEnds
  <2>3. Rest(q, Len(q)) = <<>>
    BY <1>1, RestEnds
  <2> QED
    BY <2>1, <2>2, <2>3
<1> QED
  BY <1>17, <1>18, <1>19, WithPermItself

\* The loop goes on with the roots mapped.
LEMMA RootsMapped ==
    ASSUME Inv, pc = "roots", NEW n, mem' = n, Onwards(mem, n), NEW yes, yes,
           Walked(n, at.previous, Range(n.ephemeronList), 1 .. n.ephemerons, yes), PermNew(n),
           Held(n, roots', yes), UNCHANGED <<births, stores, scavenges>>,
           IF NothingNew(n) THEN pc' = "weaklings" /\ at' = From(1)
           ELSE pc' = "future" /\ at' = From(at.previous)
    PROVE  Inv'
<1> DEFINE C == Range(n.ephemeronList)
           E == 1 .. n.ephemerons
           U == (n.previousSize + 1 .. RSize(n)) \cup E
           P == 1 .. RSize(n)
<1>1. /\ at \in Walks /\ Numbers(mem, pc, at)
      /\ RSize(mem) \in Nat /\ mem.ephemerons \in Nat /\ FutureStart(mem) \in Nat \ {0}
      /\ mem.survivorStart \in Nat /\ mem.previousSize \in Nat
      /\ mem.previousSize <= RSize(mem) /\ mem.ephemerons <= mem.previousSize
      /\ at.previous \in FutureStart(mem) .. mem.survivorStart
  BY InvWalked DEF Walking
<1>2. /\ RSize(n) \in Nat /\ RSize(n) >= RSize(mem)
      /\ n.previousSize = mem.previousSize /\ n.ephemerons = mem.ephemerons
      /\ FutureStart(n) = FutureStart(mem) /\ n.survivorStart \in Nat /\ n.survivorStart >= mem.survivorStart
      /\ Cardinality(Objects(n)) = Cardinality(Objects(mem))
  BY DEF Onwards
<1>3. /\ at.previous \in FutureStart(n) .. n.survivorStart /\ at.previous \in Nat \ {0}
      /\ n.previousSize <= RSize(n) /\ n.ephemerons <= n.previousSize
      /\ n.previousSize \in Nat /\ n.ephemerons \in Nat
  BY <1>1, <1>2
<1>4. Loop(n, P, at.previous, U, C, yes, P, E, P \ U)
  BY Zenon DEF Walked
<1>5. Bounded(n, births') /\ stores' \in Nat /\ scavenges' \in Nat
  BY <1>2 DEF Inv, Bounded
<1>6. CASE NothingNew(n)
  <2> DEFINE w == From(1)
  <2>1. pc' = "weaklings" /\ at' = w
    BY <1>6
  <2>2. n.ephemerons = 0 /\ n.ephemeronList = <<>> /\ at.previous = n.survivorStart
        /\ n.previousSize = RSize(n)
    BY <1>6 DEF NothingNew, NoEphemerons, KeepSameSize, RSize
  <2>3. /\ w \in Walks /\ w.i = 1 /\ w.dest = 1 /\ w.previous = at.previous
        /\ w.firstTime = FALSE /\ w.todo = <<>> /\ w.kept = <<>>
    <3>1. 1 \in Nat \ {0}
      OBVIOUS
    <3> QED
      BY Zenon, <1>1, <3>1, FromFields
  <2> HIDE DEF w
  <2>4. Numbers(n, "weaklings", w)
    BY <1>3, <2>2, <2>3 DEF Numbers, Pcs, Walking, Ends
  <2>5. /\ Positions(n, "weaklings", w) = P /\ WeakAt(n, "weaklings", w) = P
        /\ Unscanned(n, "weaklings", w) = {} /\ EphemeronsAt(n, "weaklings", w) = E
        /\ CorpsesAt(n, w) = C
        /\ FromAt(n, "weaklings", w) = at.previous
    BY <1>2, <2>2, <2>3, NoRange DEF Positions, WeakAt, Unscanned, EphemeronsAt, CorpsesAt, FromAt, Ends
  <2>6. n.previousSize + 1 .. RSize(n) = {}
    BY <1>2, <2>2
  <2>7. {} \cup E = U
    BY <2>6
  <2>8. KeptNew(n, (1 .. w.i - 1) \cap (1 .. RSize(n)))
    BY <2>3 DEF KeptNew
  <2>9. MappedAt("weaklings", w)
    BY DEF MappedAt
  <2> HIDE DEF E, C, U, P
  <2>10. Loop(n, P, at.previous, U, C, MappedAt("weaklings", w), P, E, P \ U)
    BY Zenon, <1>4, <2>9
  <2>11. Held(n, roots', MappedAt("weaklings", w))
    BY Zenon, <2>9
  <2>12. Scavenging(n, "weaklings", w, roots')
    BY Zenon, <2>4, <2>5, <2>7, <2>8, <2>10, <2>11 DEF Scavenging
  <2> QED
    BY <1>5, <2>1, <2>12 DEF Inv
<1>7. CASE ~NothingNew(n)
  <2> DEFINE w == From(at.previous)
  <2>1. pc' = "future" /\ at' = w
    BY <1>7
  <2>3. /\ w \in Walks /\ w.i = at.previous /\ w.dest = at.previous /\ w.previous = at.previous
        /\ w.firstTime = FALSE /\ w.todo = <<>> /\ w.kept = <<>>
    BY Zenon, <1>1, <1>3, FromFields
  <2> HIDE DEF w
  <2>4. Numbers(n, "future", w)
    BY <1>2, <1>3, <2>3 DEF Numbers, Pcs, Walking, Ends
  <2>5. /\ Positions(n, "future", w) = P /\ WeakAt(n, "future", w) = P
        /\ Unscanned(n, "future", w) \cup EphemeronsAt(n, "future", w) = U
        /\ EphemeronsAt(n, "future", w) = E
        /\ CorpsesAt(n, w) = C
        /\ FromAt(n, "future", w) = at.previous
    BY <2>3, NoRange DEF Positions, WeakAt, Unscanned, EphemeronsAt, CorpsesAt, FromAt, Ends
  <2>9. MappedAt("future", w)
    BY DEF MappedAt
  <2> HIDE DEF E, C, U, P
  <2>10. Loop(n, P, at.previous, U, C, MappedAt("future", w), P, E, P \ U)
    BY Zenon, <1>4, <2>9
  <2>11. Held(n, roots', MappedAt("future", w))
    BY Zenon, <2>9
  <2>12. Scavenging(n, "future", w, roots')
    BY Zenon, <2>4, <2>5, <2>10, <2>11 DEF Scavenging
  <2> QED
    BY <1>5, <2>1, <2>12 DEF Inv
<1> QED
  BY <1>6, <1>7

\* The mourners are found where they are now.
LEMMA MournersFollowed ==
    ASSUME NEW m, HeapOK(m), NEW rs, NEW mapped, ~mapped, Held(m, rs, mapped),
           \A i \in DOMAIN rs : IsScavengeSurvivor(m, rs[i]),
           \A i \in DOMAIN m.mournQueue : IsScavengeSurvivor(m, m.mournQueue[i]),
           NEW n, n = [m EXCEPT !.mournQueue = Followed(m, @)]
    PROVE  /\ SameHeap(m, n) /\ HeapOK(n) /\ Rooted(n, rs) /\ Onwards(m, n)
           /\ n.rememberedSet = m.rememberedSet /\ n.previousSize = m.previousSize
           /\ n.weakList = m.weakList /\ n.ephemeronList = m.ephemeronList
           /\ n.ephemerons = m.ephemerons
<1> DEFINE q == m.mournQueue
           f == Followed(m, q)
<1>1. m \in Memories /\ q \in Seq(Addresses) /\ DOMAIN q = 1 .. Len(q) /\ Len(q) \in Nat
  BY Fields, InRange DEF HeapOK
<1>2. ASSUME NEW i \in DOMAIN q
      PROVE  /\ Live(m, FollowForwarded(m, q[i])) /\ FollowForwarded(m, q[i]) \in Addresses
             /\ ~IsKind(m, FollowForwarded(m, q[i]), "ephemeron")
  <2>1. Used(m, q[i]) /\ ~IsKind(m, FollowForwarded(m, q[i]), "ephemeron")
    BY <1>2 DEF Held
  <2>2. Ref(m, q[i]) /\ q[i] # Nil
    BY Zenon, <2>1, Layout DEF Ref, Used, Nil
  <2>3. Live(m, FollowForwarded(m, q[i]))
    BY <1>2, <2>2, Following
  <2> QED
    BY <2>1, <2>3 DEF Live, Used
<1>3. f \in Seq(Addresses) /\ DOMAIN f = DOMAIN q /\ \A i \in DOMAIN q : f[i] = FollowForwarded(m, q[i])
  BY <1>1, <1>2 DEF Followed
<1> HIDE DEF f
<1>4. n = [m EXCEPT !.mournQueue = f]
  BY DEF f
<1>5. /\ n \in Memories /\ n.mournQueue = f
      /\ n.heap = m.heap /\ n.past = m.past /\ n.survivorStart = m.survivorStart
      /\ n.freeStart = m.freeStart /\ n.criterion = m.criterion
      /\ n.permToNew = m.permToNew /\ n.permToOld = m.permToOld
      /\ n.rememberedSet = m.rememberedSet /\ n.previousSize = m.previousSize
      /\ n.weakList = m.weakList /\ n.ephemeronList = m.ephemeronList
      /\ n.ephemerons = m.ephemerons
  <2> HIDE DEF q
  <2> QED
    BY ZenonT(60), <1>1, <1>3, <1>4 DEF Memories
<1>6. SameHeap(m, n)
  BY <1>5 DEF SameHeap
<1>7. HeapOK(n)
  BY <1>6, SameHeapFacts
<1>8. /\ \A x : Live(n, x) <=> Live(m, x)
      /\ \A x : Ref(n, x) <=> Ref(m, x)
      /\ \A x : FollowForwarded(n, x) = FollowForwarded(m, x)
      /\ \A x : Size(n, x) = Size(m, x)
      /\ \A x, kind : IsKind(n, x, kind) <=> IsKind(m, x, kind)
      /\ \A x : InFuture(n, x) <=> InFuture(m, x)
      /\ FutureStart(n) = FutureStart(m)
      /\ Objects(n) = Objects(m)
  BY <1>6, SameHeapFacts
<1>9. \A x : IsScavengeSurvivor(n, x) <=> IsScavengeSurvivor(m, x)
  BY <1>8 DEF IsScavengeSurvivor
<1>10. \A i \in DOMAIN rs : Ref(n, rs[i]) /\ IsScavengeSurvivor(n, rs[i])
  BY <1>8, <1>9 DEF Held
<1>11. \A i \in DOMAIN f : Live(n, f[i]) /\ ~IsKind(n, f[i], "ephemeron")
  BY <1>2, <1>3, <1>8
<1>12. Rooted(n, rs)
  BY <1>5, <1>10, <1>11 DEF Rooted
<1>13. RSize(m) \in Nat /\ FutureStart(m) \in Nat /\ m.survivorStart \in Nat
  BY <1>1, Fields, InRange, Future DEF RSize
<1>14. Onwards(m, n)
  BY <1>5, <1>7, <1>8, <1>13 DEF Onwards, RSize
<1> QED
  BY <1>5, <1>6, <1>7, <1>12, <1>14

\* The interpreter's oops and the mourners, mapped.
LEMMA MappedFacts ==
    ASSUME NEW m, HeapOK(m), NEW rs, NEW mapped, ~mapped, Held(m, rs, mapped),
           NEW c, c = ForEach(m, rs, Remap),
           NEW d, d = ForEach(c, Reverse(c.mournQueue), MapMourner)
    PROVE  /\ HeapOK(d) /\ Grows(m, d) /\ Held(d, rs, mapped)
           /\ \A i \in DOMAIN rs : IsScavengeSurvivor(d, rs[i])
           /\ \A i \in DOMAIN d.mournQueue : IsScavengeSurvivor(d, d.mournQueue[i])
<1>1. rs \in Seq(Oops) /\ Len(rs) \in Nat /\ DOMAIN rs = 1 .. Len(rs)
  BY InRange DEF Held
<1>2. \A i \in 1 .. Len(rs) : Ref(m, rs[i])
  BY <1>1 DEF Held
<1>3. HeapOK(c) /\ Grows(m, c) /\ \A i \in 1 .. Len(rs) : IsScavengeSurvivor(c, rs[i])
  BY <1>1, <1>2, RemapAll
<1>4. Held(c, rs, mapped)
  BY <1>3, HeldGrows
<1> DEFINE q == c.mournQueue
           s == Reverse(q)
<1>5. q \in Seq(Addresses) /\ Len(q) \in Nat /\ DOMAIN q = 1 .. Len(q)
  BY <1>3, Fields, InRange DEF HeapOK
<1>6. Len(s) = Len(q) /\ \A i \in 1 .. Len(q) : s[i] = q[(Len(q) - i) + 1]
  BY <1>5 DEF Reverse
<1>7. \A i \in DOMAIN q : Used(c, q[i]) /\ ~IsKind(c, q[i], "ephemeron")
  BY <1>4 DEF Held
<1> HIDE DEF s
<1>8. \A i \in 1 .. Len(s) : Used(c, s[i]) /\ ~IsKind(c, s[i], "ephemeron")
  <2> TAKE i \in 1 .. Len(s)
  <2>1. (Len(q) - i) + 1 \in DOMAIN q /\ s[i] = q[(Len(q) - i) + 1]
    BY <1>5, <1>6
  <2> QED
    BY <1>7, <2>1
<1>9. d = ForEach(c, s, MapMourner) /\ Len(s) \in Nat
  BY <1>5, <1>6 DEF s
<1>10. HeapOK(d) /\ Grows(c, d)
  BY <1>3, <1>8, <1>9, MapMourners
<1>11. \A i \in 1 .. Len(s) : IsScavengeSurvivor(d, s[i])
  BY <1>3, <1>8, <1>9, MapMourners
<1>12. Grows(m, d)
  BY <1>3, <1>10, GrowsTwice
<1>13. Held(d, rs, mapped)
  BY <1>12, <1>10, HeldGrows
<1>14. \A i \in DOMAIN rs : IsScavengeSurvivor(d, rs[i])
  <2> TAKE i \in DOMAIN rs
  <2>1. Ref(c, rs[i]) /\ IsScavengeSurvivor(c, rs[i])
    BY <1>1, <1>3, <1>4 DEF Held
  <2> QED
    BY <1>3, <1>10, <2>1, GrowsUsed
<1>15. d.mournQueue = q
  BY <1>10 DEF Grows, SameRest
<1>16. \A i \in DOMAIN q : IsScavengeSurvivor(d, q[i])
  <2> TAKE i \in DOMAIN q
  <2>1. (Len(q) - i) + 1 \in 1 .. Len(s) /\ s[(Len(q) - i) + 1] = q[i]
    BY <1>5, <1>6
  <2> QED
    BY <1>11, <2>1
<1> QED
  BY <1>10, <1>12, <1>13, <1>14, <1>15, <1>16

\* What the interpreter finds of its oops.
LEMMA RootsFollowed ==
    ASSUME NEW n, HeapOK(n), NEW rs \in Seq(Oops), Rooted(n, rs), NEW yes, yes
    PROVE  Held(n, Followed(n, rs), yes)
<1> DEFINE f == Followed(n, rs)
<1>1. DOMAIN rs = 1 .. Len(rs) /\ Len(rs) \in Nat
  BY InRange
<1>2. ASSUME NEW i \in DOMAIN rs
      PROVE  /\ FollowForwarded(n, rs[i]) \in Oops
             /\ FollowForwarded(n, rs[i]) = Nil \/ Live(n, FollowForwarded(n, rs[i]))
  <2>1. Ref(n, rs[i]) /\ IsScavengeSurvivor(n, rs[i])
    BY <1>2 DEF Rooted
  <2>2. FollowForwarded(n, rs[i]) = Nil \/ Live(n, FollowForwarded(n, rs[i]))
    BY <2>1, Following
  <2> QED
    BY <2>2 DEF Live, Used, Oops
<1>3. f \in Seq(Oops) /\ DOMAIN f = DOMAIN rs /\ \A i \in DOMAIN rs : f[i] = FollowForwarded(n, rs[i])
  BY <1>1, <1>2 DEF Followed
<1>4. \A i \in DOMAIN f : f[i] = Nil \/ Live(n, f[i])
  BY <1>2, <1>3
<1> HIDE DEF f
<1>5. Held(n, f, yes)
  BY <1>3, <1>4 DEF Held, Rooted
<1> QED
  BY Zenon, <1>5 DEF f

\* The step MapRoots preserves the invariant.
LEMMA MapRootsInv ==
    ASSUME Inv, MapRoots
    PROVE  Inv'
<1> DEFINE c == ForEach(mem, roots, Remap)
           d == ForEach(c, Reverse(c.mournQueue), MapMourner)
           e == [d EXCEPT !.mournQueue = Followed(d, @)]
           n == MapOopsFromPermSpace(e)
           mapped == MappedAt(pc, at)
           E == 1 .. mem.ephemerons
           C == Range(mem.ephemeronList)
<1>1. pc = "roots" /\ mem' = n /\ roots' = Followed(n, roots)
      /\ UNCHANGED <<births, stores, scavenges>>
      /\ IF NothingNew(n) THEN pc' = "weaklings" /\ at' = From(1)
         ELSE pc' = "future" /\ at' = From(at.previous)
  BY DEF MapRoots, MapMournQueue, MapInterpreterOops
<1>2. ~mapped
  BY <1>1 DEF MappedAt
<1>3. /\ Held(mem, roots, mapped) /\ HeapOK(mem) /\ mem \in Memories
      /\ mem.previousSize <= RSize(mem) /\ mem.ephemerons <= mem.previousSize
      /\ mem.ephemerons \in Nat /\ mem.previousSize \in Nat
      /\ Walked(mem, FromAt(mem, pc, at), CorpsesAt(mem, at), EphemeronsAt(mem, pc, at), mapped)
      /\ Numbers(mem, pc, at)
  BY <1>1, InvWalked DEF Walking
<1>4. FromAt(mem, pc, at) = at.previous /\ CorpsesAt(mem, at) = C /\ EphemeronsAt(mem, pc, at) = E
  BY <1>1, <1>3, NoRange DEF FromAt, CorpsesAt, EphemeronsAt, Ends, Numbers
<1>5. Walked(mem, at.previous, C, E, mapped)
  BY <1>3, <1>4
<1>6. E \subseteq 1 .. mem.previousSize
  BY <1>3
<1> HIDE DEF mapped, E, C, c, d, e, n
<1>7. /\ HeapOK(d) /\ Grows(mem, d) /\ Held(d, roots, mapped)
      /\ \A i \in DOMAIN roots : IsScavengeSurvivor(d, roots[i])
      /\ \A i \in DOMAIN d.mournQueue : IsScavengeSurvivor(d, d.mournQueue[i])
  BY <1>2, <1>3, MappedFacts DEF c, d
<1>8. /\ SameHeap(d, e) /\ HeapOK(e) /\ Rooted(e, roots) /\ Onwards(d, e)
      /\ e.rememberedSet = d.rememberedSet /\ e.previousSize = d.previousSize
      /\ e.weakList = d.weakList /\ e.ephemeronList = d.ephemeronList
      /\ e.ephemerons = d.ephemerons
  BY <1>2, <1>7, MournersFollowed DEF e
<1>9. /\ d.previousSize = mem.previousSize /\ d.ephemerons = mem.ephemerons
      /\ Onwards(mem, d) /\ C \subseteq Range(d.ephemeronList)
  BY <1>3, <1>7, GrowsOnwards DEF Grows, SameRest, Onwards, C
<1>10. Walked(d, at.previous, Range(d.ephemeronList), E, mapped)
  <2>1. Walked(d, at.previous, C \cup Range(d.ephemeronList), E, mapped)
    BY Zenon, <1>3, <1>5, <1>6, <1>7, WalkedGrows
  <2>2. C \cup Range(d.ephemeronList) = Range(d.ephemeronList)
    BY <1>9
  <2> QED
    BY <2>1, <2>2
<1>11. Walked(e, at.previous, Range(e.ephemeronList), E, mapped)
  <2> DEFINE D == Range(e.ephemeronList)
  <2>1. D = Range(d.ephemeronList)
    BY <1>8
  <2>2. Walked(d, at.previous, D, E, mapped)
    BY <1>10, <2>1
  <2>3. Range(e.ephemeronList) \subseteq D
    OBVIOUS
  <2> HIDE DEF D
  <2>4. \A x \in D \ D : Done(d, FollowForwarded(d, x)) /\ ~IsUnfired(d, FollowForwarded(d, x))
    OBVIOUS
  <2>5. Walked(e, at.previous, D, E, mapped)
    BY <1>8, <2>2, <2>3, <2>4, WalkedLess
  <2> QED
    BY <2>5 DEF D
<1>12. roots \in Seq(Oops)
  BY <1>3 DEF Held
<1>13. e.previousSize <= RSize(e) /\ E \subseteq 1 .. e.previousSize
  <2>1. RSize(d) \in Nat /\ RSize(d) >= RSize(mem) /\ RSize(mem) \in Nat
    BY <1>9 DEF Onwards
  <2>2. RSize(e) = RSize(d)
    BY <1>8 DEF RSize
  <2> QED
    BY <1>3, <1>6, <1>8, <1>9, <2>1, <2>2
<1>14. /\ HeapOK(n) /\ Rooted(n, roots) /\ Onwards(e, n) /\ PermKept(n)
       /\ Walked(n, at.previous, Range(n.ephemeronList), E, mapped)
  BY Zenon, <1>2, <1>8, <1>11, <1>12, <1>13, MapPermAll DEF n
<1>15. PICK yes : yes
  OBVIOUS
<1>16. Walked(n, at.previous, Range(n.ephemeronList), E, yes) /\ PermNew(n)
  BY <1>14, PermDone
<1>17. Onwards(mem, n)
  BY <1>8, <1>9, <1>14, OnwardsTwice
<1>18. E = 1 .. n.ephemerons
  BY <1>17 DEF Onwards, E
<1>19. Held(n, roots', yes)
  BY Zenon, <1>1, <1>12, <1>14, <1>15, RootsFollowed DEF n, e, d, c
<1>20. mem' = n /\ IF NothingNew(n) THEN pc' = "weaklings" /\ at' = From(1)
                   ELSE pc' = "future" /\ at' = From(at.previous)
  BY <1>1 DEF n, e, d, c
<1> QED
  BY Zenon, <1>1, <1>15, <1>16, <1>17, <1>18, <1>19, <1>20, RootsMapped

\* When the collector is done no reference leads to a space that is emptied.
LEMMA ScavengedFacts ==
    ASSUME Inv, pc = "scavenged"
    PROVE  /\ HeapOK(mem) /\ mem \in Memories /\ SetsOK(mem, 1 .. RSize(mem)) /\ PermNew(mem)
           /\ KeptNew(mem, 1 .. RSize(mem))
           /\ \A a \in Addresses : Live(mem, a) => AllSettled(mem, a)
           /\ roots \in Seq(Oops)
           /\ \A i \in DOMAIN roots : roots[i] = Nil \/ Live(mem, roots[i])
           /\ \A i \in DOMAIN mem.mournQueue :
                 Live(mem, mem.mournQueue[i]) /\ ~IsKind(mem, mem.mournQueue[i], "ephemeron")
           /\ mem.ephemerons = 0 /\ at \in Walks
<1> DEFINE P == Positions(mem, pc, at)
           E == EphemeronsAt(mem, pc, at)
           U == Unscanned(mem, pc, at) \cup E
           C == CorpsesAt(mem, at)
           W == WeakAt(mem, pc, at)
           mapped == MappedAt(pc, at)
<1>1. /\ Scavenging(mem, pc, at, roots)
      /\ Numbers(mem, pc, at) /\ at \in Walks
      /\ HeapOK(mem) /\ mem \in Memories
      /\ RSize(mem) \in Nat /\ mem.survivorStart \in Nat
      /\ Held(mem, roots, mapped)
      /\ Loop(mem, P, FromAt(mem, pc, at), U, C, mapped, W, E, P \ U)
  BY InvFacts
<1>2. /\ mem.ephemerons = 0 /\ mem.ephemeronList = <<>> /\ mem.weakList = <<>>
      /\ at.todo = <<>> /\ at.kept = <<>>
  BY <1>1 DEF Numbers, Ends
<1>3. /\ P = 1 .. RSize(mem) /\ E = {} /\ U = {} /\ C = {} /\ W = {} /\ mapped
      /\ FromAt(mem, pc, at) = mem.survivorStart
  <2>1. Positions(mem, pc, at) = 1 .. RSize(mem) /\ WeakAt(mem, pc, at) = {} /\ MappedAt(pc, at)
    BY DEF Positions, WeakAt, MappedAt
  <2>2. EphemeronsAt(mem, pc, at) = {} /\ Unscanned(mem, pc, at) = {}
    BY <1>2 DEF EphemeronsAt, Unscanned, Ends
  <2>3. CorpsesAt(mem, at) = {}
    BY <1>2, NoRange DEF CorpsesAt
  <2>4. FromAt(mem, pc, at) = mem.survivorStart
    BY DEF FromAt, Ends
  <2> QED
    BY <2>1, <2>2, <2>3, <2>4
<1> HIDE DEF P, E, U, C, W, mapped
<1>4. /\ SetsOK(mem, P) /\ Covered(mem, mem.survivorStart, U, C, mapped)
      /\ WeakHeld(mem, W) /\ PermNew(mem)
  BY Zenon, <1>1, <1>3 DEF Loop
<1>5. ASSUME NEW a \in Addresses, Live(mem, a) PROVE AllSettled(mem, a)
  <2>1. CASE IsKind(mem, a, "weak")
    <3>1. ~Listed(mem, Range(mem.weakList), a)
      BY <1>2, NoRange DEF Listed
    <3> QED
      BY <1>3, <1>4, <1>5, <2>1, <3>1 DEF WeakHeld
  <2>2. CASE ~IsKind(mem, a, "weak")
    <3>1. ~Listed(mem, C, a) /\ ~(InFuture(mem, a) /\ a >= mem.survivorStart)
      BY <1>1, <1>3, Layout, Future DEF Listed, InFuture
    <3>2. Done(mem, a)
      BY <1>3, <1>4, <1>5, <3>1 DEF Covered
    <3>3. StrongSlots(Cell(mem, a).kind, Size(mem, a)) = SlotIndices(mem, a)
      BY <2>2 DEF StrongSlots, SlotIndices, IsKind, Cell
    <3> QED
      BY <3>2, <3>3 DEF Done, AllSettled
  <2> QED
    BY <2>1, <2>2
<1>6. KeptNew(mem, 1 .. RSize(mem))
  BY <1>1 DEF Scavenging
<1>7. /\ roots \in Seq(Oops)
      /\ \A i \in DOMAIN roots : roots[i] = Nil \/ Live(mem, roots[i])
      /\ \A i \in DOMAIN mem.mournQueue :
            Live(mem, mem.mournQueue[i]) /\ ~IsKind(mem, mem.mournQueue[i], "ephemeron")
  BY <1>1, <1>3 DEF Held
<1> QED
  BY <1>1, <1>2, <1>3, <1>4, <1>5, <1>6, <1>7

\* n is m with all of new space but future space freed, and the survivor spaces exchanged.
Exchanged(m, n) ==
    /\ n \in Memories
    /\ n.past = FutureStart(m) /\ n.survivorStart = m.past /\ n.freeStart = EdenStart
    /\ n.rememberedSet = m.rememberedSet /\ n.mournQueue = m.mournQueue
    /\ n.permToNew = m.permToNew /\ n.permToOld = m.permToOld /\ n.ephemerons = m.ephemerons
    /\ n.criterion = m.criterion
    /\ \A a \in Addresses : n.heap[a] = IF IsYoung(a) /\ ~InFuture(m, a) THEN Free ELSE m.heap[a]

\* The exchange of the survivor spaces, field by field.
LEMMA ExchangedFacts ==
    ASSUME NEW m \in Memories, NEW n,
           n = [m EXCEPT
                  !.threshold = IF FutureSpaceIsFull(m) THEN TenureCells + FutureStart(m) ELSE 0,
                  !.past = FutureStart(m),
                  !.survivorStart = m.past,
                  !.freeStart = EdenStart,
                  !.heap = [a \in Addresses |-> IF IsYoung(a) /\ ~InFuture(m, a) THEN Free ELSE @[a]],
                  !.previousSize = 0, !.shrinkCount = 0]
    PROVE  Exchanged(m, n)
<1> DEFINE t == IF FutureSpaceIsFull(m) THEN TenureCells + FutureStart(m) ELSE 0
           h == [a \in Addresses |-> IF IsYoung(a) /\ ~InFuture(m, a) THEN Free ELSE m.heap[a]]
<1>1. Free \in Cells
  <2>1. "free" \in Kinds /\ 0 \in 0 .. MaxRTRefCount /\ <<>> \in Seq(Oops)
    BY NewKind DEF MaxRTRefCount
  <2> QED
    BY <2>1 DEF Free, Cells
<1>2. h \in [Addresses -> Cells]
  BY <1>1, Fields
<1>3. t \in Nat
  BY Future, SizesAssumption
<1>4. EdenStart \in Nat /\ FutureStart(m) \in {1, Survivor + 1} /\ m.past \in Nat
  <2>1. m.past \in {1, Survivor + 1} /\ Survivor \in Nat
    BY Fields, Layout
  <2> QED
    BY SMTT(60), <2>1, Layout, Future
<1> HIDE DEF t, h
<1>5. n = [m EXCEPT !.threshold = t, !.past = FutureStart(m), !.survivorStart = m.past,
                    !.freeStart = EdenStart, !.heap = h, !.previousSize = 0, !.shrinkCount = 0]
  BY DEF t, h
<1>6. /\ n \in Memories
      /\ n.past = FutureStart(m) /\ n.survivorStart = m.past /\ n.freeStart = EdenStart
      /\ n.rememberedSet = m.rememberedSet /\ n.mournQueue = m.mournQueue
      /\ n.permToNew = m.permToNew /\ n.permToOld = m.permToOld /\ n.ephemerons = m.ephemerons
      /\ n.criterion = m.criterion /\ n.heap = h
  <2> DEFINE start == FutureStart(m)
             eden == EdenStart
  <2>1. start \in {1, Survivor + 1} /\ eden \in Nat /\ m.past \in Nat
    BY <1>4
  <2>2. n = [m EXCEPT !.threshold = t, !.past = start, !.survivorStart = m.past,
                      !.freeStart = eden, !.heap = h, !.previousSize = 0, !.shrinkCount = 0]
    BY <1>5
  <2>3. 0 \in Nat
    OBVIOUS
  <2> HIDE DEF start, eden
  <2> DEFINE k == [m EXCEPT !.threshold = t, !.past = start, !.survivorStart = m.past]
  <2>4. /\ k \in Memories
        /\ k.past = start /\ k.survivorStart = m.past
        /\ k.rememberedSet = m.rememberedSet /\ k.mournQueue = m.mournQueue
        /\ k.permToNew = m.permToNew /\ k.permToOld = m.permToOld /\ k.ephemerons = m.ephemerons
        /\ k.criterion = m.criterion
    BY Zenon, <1>3, <2>1 DEF Memories
  <2>5. n = [k EXCEPT !.freeStart = eden, !.heap = h, !.previousSize = 0, !.shrinkCount = 0]
    BY <2>2 DEF Memories
  <2> HIDE DEF k
  <2>6. /\ n \in Memories
        /\ n.past = k.past /\ n.survivorStart = k.survivorStart /\ n.freeStart = eden
        /\ n.rememberedSet = k.rememberedSet /\ n.mournQueue = k.mournQueue
        /\ n.permToNew = k.permToNew /\ n.permToOld = k.permToOld /\ n.ephemerons = k.ephemerons
        /\ n.criterion = k.criterion /\ n.heap = h
    BY ZenonT(60), <1>2, <2>1, <2>3, <2>4, <2>5 DEF Memories
  <2>7. /\ n \in Memories
        /\ n.past = start /\ n.survivorStart = m.past /\ n.freeStart = eden
        /\ n.rememberedSet = m.rememberedSet /\ n.mournQueue = m.mournQueue
        /\ n.permToNew = m.permToNew /\ n.permToOld = m.permToOld /\ n.ephemerons = m.ephemerons
        /\ n.criterion = m.criterion /\ n.heap = h
    BY <2>4, <2>6
  <2> QED
    BY <2>7 DEF start, eden
<1>7. \A a \in Addresses : h[a] = IF IsYoung(a) /\ ~InFuture(m, a) THEN Free ELSE m.heap[a]
  BY DEF h
<1> QED
  BY <1>6, <1>7 DEF Exchanged

\* What was live and nothing else is there after the exchange.
LEMMA ExchangedHeap ==
    ASSUME NEW m, HeapOK(m), NEW n, Exchanged(m, n),
           \A a \in Addresses : Live(m, a) => AllSettled(m, a)
    PROVE  /\ \A a : Used(n, a) <=> Live(m, a)
           /\ \A a \in Addresses : Live(m, a) => n.heap[a] = m.heap[a]
           /\ \A a \in Addresses : ~Live(m, a) => IsKind(n, a, "free") /\ Size(n, a) = 0
           /\ FutureStart(n) = m.past /\ FutureLimit(n) = m.past + Survivor
           /\ \A a \in Addresses : Live(m, a) /\ IsYoung(a) => InSource(n, a)
           /\ \A a \in Addresses : ~IsKind(n, a, "forwarded")
           /\ \A a \in Addresses : IsYoung(a) => n.heap[a].bits = 0
           /\ \A a \in Addresses : Live(m, a) => n.heap[a].bits \in {0, 1}
<1>1. /\ m \in Memories /\ m.past \in {1, Survivor + 1} /\ m.survivorStart \in FutureStart(m) .. FutureLimit(m)
      /\ \A a \in Addresses : CellOK(m, a)
  BY Fields DEF HeapOK
<1>2. \A a \in Addresses : /\ n.heap[a] = IF IsYoung(a) /\ ~InFuture(m, a) THEN Free ELSE m.heap[a]
                           /\ n.heap[a] \in Cells
  BY Fields DEF Exchanged
<1>3. ASSUME NEW a \in Addresses
      PROVE  Live(m, a) <=> ~(IsYoung(a) /\ ~InFuture(m, a)) /\ ~IsKind(m, a, "free")
  <2>1. CASE InFuture(m, a)
    BY <1>1, <2>1, Future, Layout DEF Live, Used, InSource, InFuture
  <2>2. CASE ~IsYoung(a)
    BY <2>2 DEF Live, Used, InSource
  <2>3. CASE IsYoung(a) /\ ~InFuture(m, a)
    <3>1. CASE a \in FutureStart(m) .. FutureLimit(m) - 1
      <4>1. a \in m.survivorStart .. FutureLimit(m) - 1
        BY <1>1, <2>3, <3>1, Future, Layout DEF InFuture
      <4> QED
        BY <1>1, <2>3, <4>1 DEF CellOK, Live, Used
    <3>2. CASE a \notin FutureStart(m) .. FutureLimit(m) - 1
      BY <2>3, <3>2 DEF Live, InSource
    <3> QED
      BY <3>1, <3>2
  <2> QED
    BY <2>1, <2>2, <2>3
<1>4. ASSUME NEW a \in Addresses, Live(m, a) PROVE n.heap[a] = m.heap[a]
  BY <1>2, <1>3, <1>4
<1>5. ASSUME NEW a \in Addresses, ~Live(m, a) PROVE IsKind(n, a, "free") /\ Size(n, a) = 0 /\ n.heap[a].kind = "free"
  <2>1. CASE IsYoung(a) /\ ~InFuture(m, a)
    <3>1. n.heap[a] = Free
      BY <1>2, <2>1
    <3> QED
      BY <3>1 DEF Free, IsKind, Size, Cell
  <2>2. CASE ~(IsYoung(a) /\ ~InFuture(m, a))
    <3>1. n.heap[a] = m.heap[a] /\ IsKind(m, a, "free") /\ Size(m, a) = 0
      BY <1>1, <1>2, <1>3, <1>5, <2>2 DEF CellOK
    <3> QED
      BY <3>1 DEF IsKind, Size, Cell
  <2> QED
    BY <2>1, <2>2
<1>6. \A a : Used(n, a) <=> Live(m, a)
  BY <1>4, <1>5 DEF Used, Live, IsKind
<1>7. FutureStart(n) = m.past /\ FutureLimit(n) = m.past + Survivor
  BY <1>1, Layout DEF FutureStart, FutureLimit, Exchanged
<1>8. ASSUME NEW a \in Addresses, Live(m, a), IsYoung(a) PROVE InSource(n, a)
  <2>1. InFuture(m, a)
    BY <1>3, <1>8
  <2>2. a \notin m.past .. m.past + Survivor - 1
    BY <1>1, <2>1, Layout DEF InFuture, FutureStart, FutureLimit
  <2>3. FutureStart(n) .. FutureLimit(n) - 1 = m.past .. m.past + Survivor - 1
    BY <1>1, <1>7, Layout
  <2> QED
    BY Zenon, <1>8, <2>2, <2>3 DEF InSource
<1>9. ASSUME NEW a \in Addresses PROVE ~IsKind(n, a, "forwarded")
  <2>1. CASE Live(m, a)
    <3>1. CellOK(m, a) /\ ~InSource(m, a)
      BY <1>1, <2>1 DEF Live
    <3> QED
      BY <1>4, <2>1, <3>1 DEF CellOK, IsKind, Cell
  <2> QED
    BY <1>5, <2>1 DEF IsKind, Cell
<1>10. ASSUME NEW a \in Addresses, Live(m, a)
       PROVE  n.heap[a].bits \in {0, 1} /\ (IsYoung(a) => n.heap[a].bits = 0)
  <2>1. CellOK(m, a) /\ ~InSource(m, a)
    BY <1>1, <1>10 DEF Live
  <2> QED
    BY <1>4, <1>10, <2>1 DEF CellOK, Cell
<1>11. ASSUME NEW a \in Addresses, IsYoung(a), ~Live(m, a) PROVE n.heap[a].bits = 0
  <2>1. CASE InFuture(m, a)
    BY <1>1, <1>3, <1>11, <2>1 DEF CellOK
  <2>2. CASE ~InFuture(m, a)
    BY <1>2, <1>11, <2>2 DEF Free
  <2> QED
    BY <2>1, <2>2
<1> QED
  BY <1>4, <1>5, <1>6, <1>7, <1>8, <1>9, <1>10, <1>11

\* Objects are finitely many.
LEMMA ObjectsFinite ==
    ASSUME NEW m
    PROVE  IsFiniteSet(Objects(m)) /\ Cardinality(Objects(m)) \in Nat
<1>1. Objects(m) \subseteq 1 .. PermStart - 1
  BY DEF Objects
<1>2. 1 \in Int /\ PermStart - 1 \in Int
  BY Layout
<1>3. IsFiniteSet(1 .. PermStart - 1)
  BY <1>2, FS_Interval
<1>4. IsFiniteSet(Objects(m))
  BY Zenon, <1>1, <1>3, FS_Subset
<1> QED
  BY <1>4, FS_CardinalityType

\* The exchange leaves the objects that live on.
LEMMA ExchangedObjects ==
    ASSUME NEW m, HeapOK(m), NEW n, Exchanged(m, n),
           \A a \in Addresses : Live(m, a) => AllSettled(m, a)
    PROVE  /\ Cardinality(Objects(n)) <= Cardinality(Objects(m))
           /\ Cardinality(Objects(n)) \in Nat /\ Cardinality(Objects(m)) \in Nat
<1>1. /\ \A a \in Addresses : Live(m, a) => n.heap[a] = m.heap[a]
      /\ \A a \in Addresses : ~Live(m, a) => IsKind(n, a, "free")
  BY ExchangedHeap
<1>2. Objects(n) \subseteq Objects(m)
  <2> SUFFICES ASSUME NEW a \in Objects(n) PROVE a \in Objects(m)
    OBVIOUS
  <2>1. a \in 1 .. PermStart - 1 /\ Cell(n, a).kind \notin {"free", "forwarded"}
    BY DEF Objects
  <2>2. a \in Addresses
    BY <2>1, Layout
  <2>3. Live(m, a)
    BY <1>1, <2>1, <2>2 DEF IsKind, Cell
  <2> QED
    BY <1>1, <2>1, <2>2, <2>3 DEF Objects, Cell
<1>3. IsFiniteSet(Objects(m))
  BY ObjectsFinite
<1>4. Cardinality(Objects(n)) <= Cardinality(Objects(m))
  BY <1>2, <1>3, FS_Subset
<1> QED
  BY <1>4, ObjectsFinite

\* The heap is in order after the exchange.
LEMMA ExchangedHeapOK ==
    ASSUME NEW m, HeapOK(m), NEW n, Exchanged(m, n),
           \A a \in Addresses : Live(m, a) => AllSettled(m, a)
    PROVE  HeapOK(n)
<1>1. /\ m \in Memories /\ m.past \in {1, Survivor + 1} /\ \A a \in Addresses : CellOK(m, a)
      /\ Cardinality(Objects(m)) <= Old
  BY Fields DEF HeapOK
<1>2. /\ \A a : Used(n, a) <=> Live(m, a)
      /\ \A a \in Addresses : Live(m, a) => n.heap[a] = m.heap[a]
      /\ \A a \in Addresses : ~Live(m, a) => IsKind(n, a, "free") /\ Size(n, a) = 0
      /\ FutureStart(n) = m.past /\ FutureLimit(n) = m.past + Survivor
      /\ \A a \in Addresses : Live(m, a) /\ IsYoung(a) => InSource(n, a)
      /\ \A a \in Addresses : ~IsKind(n, a, "forwarded")
      /\ \A a \in Addresses : IsYoung(a) => n.heap[a].bits = 0
      /\ \A a \in Addresses : Live(m, a) => n.heap[a].bits \in {0, 1}
  BY ExchangedHeap
<1>3. /\ n \in Memories /\ n.survivorStart = m.past /\ n.freeStart = EdenStart
      /\ n.criterion = m.criterion
  BY DEF Exchanged
<1>4. ASSUME NEW v, Ref(m, v), Settled(m, v) PROVE Ref(n, v)
  BY <1>2, <1>4, Places DEF Ref
<1>5. \A a : ~InFuture(n, a)
  <2>1. m.past \in Nat
    BY <1>1, Layout
  <2> QED
    BY <1>2, <1>3, <2>1 DEF InFuture
<1>6. ASSUME NEW a \in Addresses, Live(m, a) PROVE CellOK(n, a)
  <2>1. CellOK(m, a) /\ AllSettled(m, a) /\ ~InSource(m, a) /\ ~IsKind(m, a, "free")
    BY <1>1, <1>6 DEF Live, Used
  <2>2. /\ Cell(n, a) = Cell(m, a) /\ Size(n, a) = Size(m, a) /\ SlotIndices(n, a) = SlotIndices(m, a)
        /\ \A i : Slot(n, a, i) = Slot(m, a, i)
        /\ \A kind : IsKind(n, a, kind) <=> IsKind(m, a, kind)
    BY <1>2, <1>6 DEF Cell, Size, SlotIndices, Slot, IsKind
  <2>3. \A i \in SlotIndices(n, a) : Ref(n, Slot(n, a, i))
    BY <1>4, <2>1, <2>2 DEF CellOK, AllSettled
  <2>4. Cell(n, a).bits \in {0, 1} /\ (IsYoung(a) => Cell(n, a).bits = 0)
    BY <1>2, <1>6 DEF Cell
  <2>5. a \notin n.survivorStart .. FutureLimit(n) - 1
    <3>1. CASE IsYoung(a)
      <4>1. InSource(n, a)
        BY <1>2, <1>6, <3>1
      <4> QED
        BY <1>1, <1>2, <1>3, <4>1, Layout DEF InSource
    <3>2. CASE ~IsYoung(a)
      BY SMTT(60), <1>1, <1>2, <1>3, <3>2, Layout DEF IsYoung
    <3> QED
      BY <3>1, <3>2
  <2>6. ~IsKind(n, a, "forwarded")
    BY <1>2
  <2>7. IsKind(n, a, "ephemeron") \/ IsKind(n, a, "weak") => Size(n, a) >= 1 /\ ~IsPerm(a)
    BY <2>1, <2>2 DEF CellOK
  <2> QED
    BY <1>5, <2>1, <2>2, <2>3, <2>4, <2>5, <2>6, <2>7 DEF CellOK
<1>7. ASSUME NEW a \in Addresses, ~Live(m, a) PROVE CellOK(n, a)
  <2>1. IsKind(n, a, "free") /\ Size(n, a) = 0
    BY <1>2, <1>7
  <2>2. ~IsKind(n, a, "forwarded") /\ ~IsKind(n, a, "ephemeron") /\ ~IsKind(n, a, "weak")
    BY <2>1 DEF IsKind
  <2>3. SlotIndices(n, a) = {}
    BY <2>1 DEF SlotIndices
  <2>4. Cell(n, a).bits \in {0, 1}
    <3>1. CASE IsYoung(a)
      BY <1>2, <3>1 DEF Cell
    <3>2. CASE ~IsYoung(a)
      <4>1. n.heap[a] = m.heap[a] /\ CellOK(m, a) /\ ~InSource(m, a)
        BY <1>1, <3>2 DEF Exchanged, InSource
      <4> QED
        BY <4>1 DEF CellOK, Cell
    <3> QED
      BY <3>1, <3>2
  <2>5. IsYoung(a) => Cell(n, a).bits = 0
    BY <1>2 DEF Cell
  <2> QED
    BY <1>5, <2>1, <2>2, <2>3, <2>4, <2>5 DEF CellOK
<1>8. Cardinality(Objects(n)) <= Old
  <2>1. /\ Cardinality(Objects(n)) <= Cardinality(Objects(m))
        /\ Cardinality(Objects(n)) \in Nat /\ Cardinality(Objects(m)) \in Nat
    BY ExchangedObjects
  <2> QED
    BY <1>1, <2>1, Layout
<1>9. /\ n.survivorStart \in FutureStart(n) .. FutureLimit(n)
      /\ n.freeStart \in EdenStart .. OldStart
  BY <1>1, <1>2, <1>3, Layout
<1> QED
  BY <1>3, <1>6, <1>7, <1>8, <1>9 DEF HeapOK

\* The sets are in order while old and permanent space are as they were.
LEMMA SetsSame ==
    ASSUME NEW m, NEW n, SetsOK(m, 1 .. RSize(m)),
           \A a \in Addresses : ~IsYoung(a) => n.heap[a] = m.heap[a],
           n.rememberedSet = m.rememberedSet, n.permToNew = m.permToNew, n.permToOld = m.permToOld
    PROVE  SetsOK(n, 1 .. RSize(n))
<1>1. RSize(n) = RSize(m)
  BY DEF RSize
<1>2. ASSUME NEW a \in Addresses, ~IsYoung(a)
      PROVE  /\ Used(n, a) <=> Used(m, a)
             /\ Remembered(n, a) <=> Remembered(m, a)
             /\ HasYoungReferents(n, a) <=> HasYoungReferents(m, a)
             /\ RefersToOld(n, a) <=> RefersToOld(m, a)
  <2>1. n.heap[a] = m.heap[a]
    BY <1>2
  <2> QED
    BY <2>1 DEF Used, IsKind, Remembered, HasYoungReferents, RefersToOld, SlotIndices, Size, Cell, Slot
<1>3. \A a \in OldAddresses \cup PermAddresses : a \in Addresses /\ ~IsYoung(a)
  BY Layout
<1>4. ASSUME NEW A, A \subseteq OldAddresses \cup PermAddresses, NEW s, NEW P, InSet(m, s, P, A)
      PROVE  InSet(n, s, P, A)
  BY <1>2, <1>3, <1>4 DEF InSet
<1>6. InSet(n, n.rememberedSet, 1 .. RSize(n), OldAddresses)
  BY <1>1, <1>4 DEF SetsOK
<1>7. InSet(n, n.permToNew, 1 .. Len(n.permToNew), PermAddresses)
  BY <1>1, <1>4 DEF SetsOK
<1> QED
  BY <1>2, <1>3, <1>6, <1>7 DEF SetsOK

\* What the interpreter holds between two scavenges.
LEMMA HeldUnmapped ==
    ASSUME NEW n, NEW rs \in Seq(Oops), \A i \in DOMAIN rs : Ref(n, rs[i]),
           \A a \in Addresses : ~IsKind(n, a, "forwarded"),
           \A i \in DOMAIN n.mournQueue :
              Used(n, n.mournQueue[i]) /\ ~IsKind(n, n.mournQueue[i], "ephemeron")
    PROVE  Held(n, rs, FALSE)
<1>1. \A i \in DOMAIN n.mournQueue : FollowForwarded(n, n.mournQueue[i]) = n.mournQueue[i]
  BY DEF FollowForwarded, Used
<1> QED
  BY <1>1 DEF Held

\* The step ExchangeSurvivorSpaces preserves the invariant.
LEMMA ExchangeSurvivorSpacesInv ==
    ASSUME Inv, ExchangeSurvivorSpaces
    PROVE  Inv'
<1> DEFINE n == mem'
<1>1. /\ pc = "scavenged" /\ pc' = "mutator" /\ at' = Place
      /\ UNCHANGED <<roots, births, stores, scavenges>>
  BY DEF ExchangeSurvivorSpaces
<1>2. /\ HeapOK(mem) /\ mem \in Memories /\ SetsOK(mem, 1 .. RSize(mem))
      /\ \A a \in Addresses : Live(mem, a) => AllSettled(mem, a)
      /\ roots \in Seq(Oops)
      /\ \A i \in DOMAIN roots : roots[i] = Nil \/ Live(mem, roots[i])
      /\ \A i \in DOMAIN mem.mournQueue :
            Live(mem, mem.mournQueue[i]) /\ ~IsKind(mem, mem.mournQueue[i], "ephemeron")
      /\ mem.ephemerons = 0
  BY <1>1, ScavengedFacts
<1>3. Exchanged(mem, n)
  BY <1>2, ExchangedFacts DEF ExchangeSurvivorSpaces
<1> HIDE DEF n
<1>4. HeapOK(n)
  BY <1>2, <1>3, ExchangedHeapOK
<1>5. SetsOK(n, 1 .. RSize(n))
  BY <1>2, <1>3, SetsSame DEF Exchanged
<1>6. /\ \A a : Used(n, a) <=> Live(mem, a)
      /\ \A a \in Addresses : Live(mem, a) => n.heap[a] = mem.heap[a]
      /\ \A a \in Addresses : ~Live(mem, a) => IsKind(n, a, "free")
      /\ FutureStart(n) = mem.past
      /\ \A a \in Addresses : ~IsKind(n, a, "forwarded")
      /\ \A a \in Addresses : IsYoung(a) => Cell(n, a).bits = 0
  BY <1>2, <1>3, ExchangedHeap DEF Cell
<1>7. n.mournQueue = mem.mournQueue /\ n.survivorStart = mem.past /\ n.ephemerons = 0 /\ n.freeStart = EdenStart
  BY <1>2, <1>3 DEF Exchanged
<1>8. Held(n, roots, FALSE)
  <2>1. \A i \in DOMAIN roots : Ref(n, roots[i])
    BY <1>2, <1>6 DEF Ref
  <2>2. \A i \in DOMAIN n.mournQueue :
           Used(n, n.mournQueue[i]) /\ ~IsKind(n, n.mournQueue[i], "ephemeron")
    <3> TAKE i \in DOMAIN n.mournQueue
    <3>1. Live(mem, mem.mournQueue[i]) /\ ~IsKind(mem, mem.mournQueue[i], "ephemeron")
      BY <1>2, <1>7
    <3> QED
      BY <1>6, <1>7, <3>1 DEF Live, Used, IsKind
  <2> QED
    BY Zenon, <1>2, <1>6, <2>1, <2>2, HeldUnmapped
<1>9. \A a \in n.freeStart .. OldStart - 1 : IsKind(n, a, "free")
  <2> TAKE a \in n.freeStart .. OldStart - 1
  <2>1. a \in Addresses /\ IsYoung(a) /\ a >= EdenStart /\ a \in Nat /\ EdenStart \in Nat
    BY <1>7, Layout DEF IsYoung
  <2>2. ~InFuture(mem, a)
    <3>1. FutureLimit(mem) <= EdenStart /\ FutureLimit(mem) \in Nat /\ mem.survivorStart \in FutureStart(mem) .. FutureLimit(mem)
          /\ FutureStart(mem) \in Nat
      BY <1>2, Future DEF HeapOK
    <3> QED
      BY <2>1, <3>1 DEF InFuture
  <2>3. n.heap[a] = Free
    BY <1>3, <2>1, <2>2 DEF Exchanged
  <2> QED
    BY <2>3 DEF Free, IsKind
<1>10. Mutating(n, Place, roots)
  <2>1. Place \in Walks /\ Place.i = 1 /\ Place.dest = 1
    BY PlaceFields
  <2>2. n.survivorStart = FutureStart(n)
    BY <1>6, <1>7
  <2>3. HeapOK(n) /\ SetsOK(n, 1 .. RSize(n)) /\ Held(n, roots, FALSE)
    BY Zenon, <1>4, <1>5, <1>8
  <2>4. Place.dest <= Place.i
    BY <2>1
  <2>5. /\ \A a \in Addresses : ~IsKind(n, a, "forwarded")
        /\ \A a \in Addresses : IsYoung(a) => Cell(n, a).bits = 0
    BY <1>6
  <2> QED
    BY Zenon, <1>7, <1>9, <2>1, <2>2, <2>3, <2>4, <2>5 DEF Mutating
<1>11. Bounded(n, births)
  <2>3. /\ Cardinality(Objects(n)) <= Cardinality(Objects(mem))
        /\ Cardinality(Objects(n)) \in Nat /\ Cardinality(Objects(mem)) \in Nat
    BY <1>2, <1>3, ExchangedObjects
  <2>5. births \in Seq(DOMAIN Slots) /\ Cardinality(Objects(mem)) + Len(births) <= Old
    BY DEF Inv, Bounded
  <2>6. Len(births) \in Nat
    BY <2>5
  <2> QED
    BY <2>3, <2>5, <2>6, Layout DEF Bounded
<1>12. stores \in Nat /\ scavenges \in Nat
  BY DEF Inv
<1> QED
  BY <1>1, <1>10, <1>11, <1>12 DEF Inv, n

\* What Inv says between two scavenges.
LEMMA MutatorFacts ==
    ASSUME Inv, pc = "mutator"
    PROVE  /\ HeapOK(mem) /\ mem \in Memories /\ SetsOK(mem, 1 .. RSize(mem))
           /\ roots \in Seq(Oops) /\ \A i \in DOMAIN roots : Ref(mem, roots[i])
           /\ \A i \in DOMAIN mem.mournQueue :
                 Used(mem, mem.mournQueue[i]) /\ ~IsKind(mem, mem.mournQueue[i], "ephemeron")
           /\ at \in Walks /\ at.dest <= at.i /\ mem.ephemerons = 0
           /\ mem.survivorStart = FutureStart(mem)
           /\ \A a \in Addresses : ~IsKind(mem, a, "forwarded")
           /\ \A a \in Addresses : IsYoung(a) => Cell(mem, a).bits = 0
           /\ \A a \in mem.freeStart .. OldStart - 1 : IsKind(mem, a, "free")
           /\ births \in Seq(DOMAIN Slots) /\ Cardinality(Objects(mem)) + Len(births) <= Old
           /\ Len(births) \in Nat /\ stores \in Nat /\ scavenges \in Nat
           /\ \A a : ~InFuture(mem, a)
<1>1. Mutating(mem, at, roots)
  BY DEF Inv, Scavenging, Numbers, Pcs, Walking
<1>2. Held(mem, roots, FALSE)
  BY Zenon, <1>1 DEF Mutating
<1>3. /\ HeapOK(mem) /\ SetsOK(mem, 1 .. RSize(mem))
      /\ at \in Walks /\ at.dest <= at.i /\ mem.ephemerons = 0
      /\ mem.survivorStart = FutureStart(mem)
      /\ \A a \in Addresses : ~IsKind(mem, a, "forwarded")
      /\ \A a \in Addresses : IsYoung(a) => Cell(mem, a).bits = 0
      /\ \A a \in mem.freeStart .. OldStart - 1 : IsKind(mem, a, "free")
  BY <1>1 DEF Mutating
<1>4. /\ roots \in Seq(Oops) /\ \A i \in DOMAIN roots : Ref(mem, roots[i])
      /\ \A i \in DOMAIN mem.mournQueue :
            Used(mem, mem.mournQueue[i]) /\ ~IsKind(mem, mem.mournQueue[i], "ephemeron")
  BY <1>2 DEF Held
<1>5. /\ births \in Seq(DOMAIN Slots) /\ Cardinality(Objects(mem)) + Len(births) <= Old
      /\ stores \in Nat /\ scavenges \in Nat
  BY DEF Inv, Bounded
<1>6. Len(births) \in Nat
  BY <1>5
<1>7. mem \in Memories /\ FutureStart(mem) \in Nat
  BY <1>3, Future DEF HeapOK
<1>8. \A a : ~InFuture(mem, a)
  BY <1>3, <1>7 DEF InFuture
<1> QED
  BY <1>3, <1>4, <1>5, <1>6, <1>7, <1>8

\* What is left to show of a step of the image.
LEMMA MutatorInv ==
    ASSUME Inv, pc = "mutator", pc' = "mutator", at' = at,
           HeapOK(mem'), SetsOK(mem', 1 .. RSize(mem')),
           roots' \in Seq(Oops), \A i \in DOMAIN roots' : Ref(mem', roots'[i]),
           \A i \in DOMAIN mem'.mournQueue :
                 Used(mem', mem'.mournQueue[i]) /\ ~IsKind(mem', mem'.mournQueue[i], "ephemeron"),
           mem'.ephemerons = 0, mem'.survivorStart = FutureStart(mem'),
           \A a \in Addresses : ~IsKind(mem', a, "forwarded"),
           \A a \in Addresses : IsYoung(a) => Cell(mem', a).bits = 0,
           \A a \in mem'.freeStart .. OldStart - 1 : IsKind(mem', a, "free"),
           Bounded(mem', births'), stores' \in Nat, scavenges' \in Nat
    PROVE  Inv'
<1>1. at' \in Walks /\ at'.dest <= at'.i
  BY MutatorFacts
<1>2. Held(mem', roots', FALSE)
  BY Zenon, HeldUnmapped
<1>3. Mutating(mem', at', roots')
  BY Zenon, <1>1, <1>2 DEF Mutating
<1> QED
  BY <1>3 DEF Inv

\* A new object.
LEMMA ObjectFacts ==
    ASSUME NEW kind \in DOMAIN Slots
    PROVE  /\ Object(kind) \in Cells /\ Object(kind).kind = kind /\ Object(kind).bits = 0
           /\ kind \notin {"free", "forwarded"}
           /\ Len(Object(kind).slots) = Slots[kind] /\ Slots[kind] \in Nat
           /\ \A i \in 1 .. Slots[kind] : Object(kind).slots[i] = Nil
           /\ kind \in {"ephemeron", "weak"} => Slots[kind] >= 1
<1>1. kind \notin {"free", "forwarded"} /\ kind \in Kinds /\ Slots[kind] \in Nat
  BY SlotsAssumption DEF Kinds
<1>2. kind \in {"ephemeron", "weak"} => Slots[kind] >= 1
  BY SlotsAssumption DEF WeakFixed
<1> DEFINE s == [i \in 1 .. Slots[kind] |-> Nil]
<1>3. s \in Seq(Oops) /\ Len(s) = Slots[kind] /\ \A i \in 1 .. Slots[kind] : s[i] = Nil
  BY <1>1 DEF Oops
<1> HIDE DEF s
<1>4. Object(kind) = [kind |-> kind, bits |-> 0, slots |-> s]
  BY DEF Object, s
<1>5. 0 \in 0 .. MaxRTRefCount
  BY DEF MaxRTRefCount
<1> QED
  BY <1>1, <1>2, <1>3, <1>4, <1>5 DEF Cells

\* n is m with a new object at the start of free eden.
LEMMA Allocated ==
    ASSUME Inv, pc = "mutator", births # <<>>, mem.freeStart < OldStart,
           NEW n, n = [mem EXCEPT !.heap[mem.freeStart] = Object(Head(births)), !.freeStart = @ + 1]
    PROVE  LET f == mem.freeStart IN
           /\ n \in Memories /\ f \in Addresses /\ IsYoung(f) /\ f >= EdenStart /\ f \in Nat
           /\ IsKind(mem, f, "free")
           /\ n.heap[f] = Object(Head(births)) /\ \A a \in Addresses : a # f => n.heap[a] = mem.heap[a]
           /\ n.freeStart = f + 1
           /\ n.past = mem.past /\ n.survivorStart = mem.survivorStart /\ n.criterion = mem.criterion
           /\ n.rememberedSet = mem.rememberedSet /\ n.mournQueue = mem.mournQueue
           /\ n.permToNew = mem.permToNew /\ n.permToOld = mem.permToOld /\ n.ephemerons = mem.ephemerons
           /\ Head(births) \in DOMAIN Slots
           /\ Tail(births) \in Seq(DOMAIN Slots) /\ Len(Tail(births)) = Len(births) - 1
<1> DEFINE f == mem.freeStart
           c == Object(Head(births))
           g == f + 1
<1>1. /\ HeapOK(mem) /\ mem \in Memories /\ births \in Seq(DOMAIN Slots)
      /\ \A a \in mem.freeStart .. OldStart - 1 : IsKind(mem, a, "free")
  BY MutatorFacts
<1>2. Head(births) \in DOMAIN Slots /\ Tail(births) \in Seq(DOMAIN Slots) /\ Len(Tail(births)) = Len(births) - 1
  BY <1>1
<1>3. c \in Cells
  BY <1>2, ObjectFacts
<1>4. f \in EdenStart .. OldStart /\ f \in Nat /\ EdenStart \in Nat /\ OldStart \in Nat
  BY SMTT(60), <1>1, Layout DEF HeapOK
<1>5. f \in Addresses /\ IsYoung(f) /\ f >= EdenStart /\ g \in Nat
  BY SMTT(60), <1>4, Layout DEF IsYoung
<1>6. IsKind(mem, f, "free")
  BY <1>1, <1>4
<1> HIDE DEF c
<1>7. n = [mem EXCEPT !.heap[f] = c, !.freeStart = g]
  BY DEF c
<1> HIDE DEF f, g
<1>8. /\ n \in Memories
      /\ n.heap[f] = c /\ \A a \in Addresses : a # f => n.heap[a] = mem.heap[a]
      /\ n.freeStart = g
      /\ n.past = mem.past /\ n.survivorStart = mem.survivorStart /\ n.criterion = mem.criterion
      /\ n.rememberedSet = mem.rememberedSet /\ n.mournQueue = mem.mournQueue
      /\ n.permToNew = mem.permToNew /\ n.permToOld = mem.permToOld /\ n.ephemerons = mem.ephemerons
  <2> DEFINE h == [mem.heap EXCEPT ![f] = c]
  <2>1. mem.heap \in [Addresses -> Cells]
    BY <1>1, Fields
  <2>2. h \in [Addresses -> Cells] /\ h[f] = c /\ \A a \in Addresses : a # f => h[a] = mem.heap[a]
    BY <1>3, <1>5, <2>1
  <2>3. n = [mem EXCEPT !.heap = h, !.freeStart = g]
    BY <1>1, <1>7 DEF Memories
  <2> HIDE DEF h
  <2>4. /\ n \in Memories /\ n.heap = h /\ n.freeStart = g
        /\ n.past = mem.past /\ n.survivorStart = mem.survivorStart /\ n.criterion = mem.criterion
        /\ n.rememberedSet = mem.rememberedSet /\ n.mournQueue = mem.mournQueue
        /\ n.permToNew = mem.permToNew /\ n.permToOld = mem.permToOld /\ n.ephemerons = mem.ephemerons
    BY ZenonT(60), <1>1, <1>5, <2>2, <2>3 DEF Memories
  <2> QED
    BY Zenon, <2>2, <2>4
<1> QED
  BY <1>2, <1>4, <1>5, <1>6, <1>8 DEF f, g, c

\* A new object in eden leaves the heap in order, with room for its copy.
LEMMA AllocatedHeapOK ==
    ASSUME Inv, pc = "mutator", births # <<>>, mem.freeStart < OldStart,
           NEW n, n = [mem EXCEPT !.heap[mem.freeStart] = Object(Head(births)), !.freeStart = @ + 1]
    PROVE  /\ HeapOK(n) /\ Bounded(n, Tail(births))
           /\ \A v : Ref(mem, v) => Ref(n, v)
           /\ Ref(n, mem.freeStart)
           /\ \A a \in Addresses : ~IsKind(n, a, "forwarded") /\ (IsYoung(a) => Cell(n, a).bits = 0)
<1> DEFINE f == mem.freeStart
           kind == Head(births)
<1>1. /\ HeapOK(mem) /\ mem \in Memories /\ \A a \in Addresses : CellOK(mem, a)
      /\ mem.survivorStart = FutureStart(mem) /\ mem.freeStart \in EdenStart .. OldStart
      /\ Cardinality(Objects(mem)) + Len(births) <= Old /\ Len(births) \in Nat
      /\ \A a : ~InFuture(mem, a)
      /\ \A a \in Addresses : ~IsKind(mem, a, "forwarded")
      /\ \A a \in Addresses : IsYoung(a) => Cell(mem, a).bits = 0
  BY MutatorFacts DEF HeapOK
<1>2. /\ n \in Memories /\ f \in Addresses /\ IsYoung(f) /\ f >= EdenStart /\ f \in Nat
      /\ IsKind(mem, f, "free")
      /\ n.heap[f] = Object(kind) /\ \A a \in Addresses : a # f => n.heap[a] = mem.heap[a]
      /\ n.freeStart = f + 1
      /\ n.past = mem.past /\ n.survivorStart = mem.survivorStart /\ n.criterion = mem.criterion
      /\ kind \in DOMAIN Slots
      /\ Tail(births) \in Seq(DOMAIN Slots) /\ Len(Tail(births)) = Len(births) - 1
  BY Zenon, Allocated
<1>3. /\ n.heap[f].kind = kind /\ n.heap[f].bits = 0 /\ kind \notin {"free", "forwarded"}
      /\ Size(n, f) = Slots[kind] /\ Slots[kind] \in Nat
      /\ \A i \in 1 .. Slots[kind] : Slot(n, f, i) = Nil
      /\ kind \in {"ephemeron", "weak"} => Slots[kind] >= 1
  BY <1>2, ObjectFacts DEF Size, Cell, Slot
<1> HIDE DEF f, kind
<1>4. /\ FutureStart(n) = FutureStart(mem) /\ FutureLimit(n) = FutureLimit(mem)
      /\ \A x : InSource(n, x) <=> InSource(mem, x)
      /\ FutureLimit(mem) <= EdenStart /\ FutureLimit(mem) \in Nat /\ EdenStart \in Nat
      /\ FutureStart(mem) \in Nat
  <2>1. /\ FutureStart(n) = FutureStart(mem) /\ FutureLimit(n) = FutureLimit(mem)
        /\ \A x : InSource(n, x) <=> InSource(mem, x)
    BY Zenon, <1>2, SameSpaces
  <2>2. /\ FutureLimit(mem) <= EdenStart /\ FutureLimit(mem) \in Nat /\ FutureStart(mem) \in Nat
    BY <1>1, Future
  <2> QED
    BY <2>1, <2>2, Layout
<1>5. \A v : Ref(mem, v) => Ref(n, v)
  BY <1>2, <1>3 DEF Ref, Used, IsKind
<1>6. Ref(n, f)
  BY <1>2, <1>3 DEF Ref, Used, IsKind
<1>7. \A a : ~InFuture(n, a)
  BY <1>1, <1>2, <1>4 DEF InFuture
<1>8. CellOK(n, f)
  <2>1. ~IsPerm(f) /\ f \notin n.survivorStart .. FutureLimit(n) - 1
    <3>1. f \in Addresses /\ f \in Nat /\ f >= EdenStart /\ IsYoung(f) /\ FutureLimit(n) <= EdenStart /\ FutureLimit(n) \in Nat
          /\ n.survivorStart \in Nat
      BY <1>1, <1>2, <1>4, Fields
    <3>2. ~IsPerm(f)
      BY ONLY <3>1, Layout
    <3> QED
      BY ONLY <3>1, <3>2, Layout
  <2>2. \A i \in SlotIndices(n, f) : Ref(n, Slot(n, f, i))
    BY <1>3 DEF Ref, SlotIndices
  <2>3. ~IsKind(n, f, "free") /\ ~IsKind(n, f, "forwarded") /\ Cell(n, f).bits = 0
    BY <1>3 DEF IsKind, Cell
  <2>4. IsKind(n, f, "ephemeron") \/ IsKind(n, f, "weak") => Size(n, f) >= 1
    BY <1>3 DEF IsKind
  <2> QED
    BY <1>7, <2>1, <2>2, <2>3, <2>4 DEF CellOK
<1>9. ASSUME NEW x \in Addresses, x # f PROVE CellOK(n, x)
  <2>1. CellOK(mem, x)
    BY <1>1
  <2>2. /\ Cell(n, x) = Cell(mem, x) /\ Size(n, x) = Size(mem, x) /\ SlotIndices(n, x) = SlotIndices(mem, x)
        /\ \A i : Slot(n, x, i) = Slot(mem, x, i)
        /\ \A k : IsKind(n, x, k) <=> IsKind(mem, x, k)
    BY <1>2, <1>9 DEF Cell, Size, SlotIndices, Slot, IsKind
  <2>3. ~IsKind(n, x, "forwarded")
    BY <1>1, <2>2
  <2> QED
    BY <1>2, <1>4, <1>5, <1>7, <2>1, <2>2, <2>3 DEF CellOK
<1>10. Cardinality(Objects(n)) = Cardinality(Objects(mem)) + 1
  <2>1. f \notin Objects(mem)
    BY <1>2 DEF Objects, IsKind, Cell
  <2>2. f \in 1 .. PermStart - 1
    <3>1. f \in Addresses /\ IsYoung(f)
      BY Zenon, <1>2
    <3> QED
      BY ONLY <3>1, Layout
  <2>3. Objects(n) = Objects(mem) \cup {f}
    <3>1. ASSUME NEW x \in 1 .. PermStart - 1, x # f PROVE x \in Objects(n) <=> x \in Objects(mem)
      <4>1. x \in Addresses
        BY ONLY Layout, x \in 1 .. PermStart - 1
      <4> QED
        BY <1>2, <3>1, <4>1 DEF Objects, Cell
    <3>2. f \in Objects(n)
      BY <1>3, <2>2 DEF Objects, Cell
    <3>3. Objects(n) \subseteq 1 .. PermStart - 1 /\ Objects(mem) \subseteq 1 .. PermStart - 1
      BY DEF Objects
    <3> QED
      BY <2>2, <3>1, <3>2, <3>3
  <2> QED
    BY <2>1, <2>3, ObjectsFinite, FS_AddElement
<1>11. Cardinality(Objects(n)) + Len(Tail(births)) <= Old /\ Cardinality(Objects(n)) <= Old
  <2>1. Cardinality(Objects(mem)) \in Nat
    BY ObjectsFinite
  <2>2. Len(births) >= 1
    BY <1>1, EmptySeq, MutatorFacts
  <2>3. Old \in Nat
    BY Layout
  <2> DEFINE y == Cardinality(Objects(mem))
             z == Cardinality(Objects(n))
             l == Len(births)
             k == Len(Tail(births))
  <2>4. y \in Nat /\ l \in Nat /\ l >= 1 /\ k = l - 1 /\ z = y + 1 /\ y + l <= Old
    BY <1>1, <1>2, <1>10, <2>1, <2>2
  <2> HIDE DEF y, z, l, k
  <2>5. z + k <= Old /\ z <= Old
    BY <2>3, <2>4
  <2> QED
    BY <2>5 DEF z, k
<1>12. HeapOK(n)
  <2>1. n.survivorStart \in FutureStart(n) .. FutureLimit(n)
    BY <1>1, <1>2, <1>4 DEF HeapOK
  <2>2. n.freeStart \in EdenStart .. OldStart
    <3>1. n.freeStart = f + 1 /\ f \in Nat /\ EdenStart <= f /\ f < OldStart
      BY <1>2 DEF f
    <3> QED
      BY ONLY <3>1, Layout
  <2> QED
    BY <1>2, <1>8, <1>9, <1>11, <2>1, <2>2 DEF HeapOK
<1>13. \A a \in Addresses : ~IsKind(n, a, "forwarded") /\ (IsYoung(a) => Cell(n, a).bits = 0)
  BY <1>1, <1>2, <1>3 DEF IsKind, Cell
<1> QED
  BY <1>2, <1>5, <1>6, <1>11, <1>12, <1>13 DEF Bounded, f

\* The step AllocateNewSpace preserves the invariant.
LEMMA AllocateNewSpaceInv ==
    ASSUME Inv, AllocateNewSpace
    PROVE  Inv'
<1> DEFINE f == mem.freeStart
           n == [mem EXCEPT !.heap[mem.freeStart] = Object(Head(births)), !.freeStart = @ + 1]
<1>1. /\ pc = "mutator" /\ births # <<>> /\ mem.freeStart < OldStart
      /\ mem' = n /\ roots' = Append(roots, f) /\ births' = Tail(births)
      /\ pc' = pc /\ at' = at /\ stores' = stores /\ scavenges' = scavenges
  BY DEF AllocateNewSpace
<1>2. /\ SetsOK(mem, 1 .. RSize(mem))
      /\ roots \in Seq(Oops) /\ \A i \in DOMAIN roots : Ref(mem, roots[i])
      /\ \A i \in DOMAIN mem.mournQueue :
            Used(mem, mem.mournQueue[i]) /\ ~IsKind(mem, mem.mournQueue[i], "ephemeron")
      /\ mem.ephemerons = 0 /\ mem.survivorStart = FutureStart(mem)
      /\ \A a \in mem.freeStart .. OldStart - 1 : IsKind(mem, a, "free")
      /\ stores \in Nat /\ scavenges \in Nat
  BY <1>1, MutatorFacts
<1>3. /\ n \in Memories /\ f \in Addresses /\ IsYoung(f) /\ f \in Nat
      /\ IsKind(mem, f, "free")
      /\ \A a \in Addresses : a # f => n.heap[a] = mem.heap[a]
      /\ n.freeStart = f + 1
      /\ n.past = mem.past /\ n.survivorStart = mem.survivorStart
      /\ n.rememberedSet = mem.rememberedSet /\ n.mournQueue = mem.mournQueue
      /\ n.permToNew = mem.permToNew /\ n.permToOld = mem.permToOld /\ n.ephemerons = mem.ephemerons
  BY <1>1, Allocated
<1>4. /\ HeapOK(n) /\ Bounded(n, Tail(births))
      /\ \A v : Ref(mem, v) => Ref(n, v)
      /\ Ref(n, f)
      /\ \A a \in Addresses : ~IsKind(n, a, "forwarded") /\ (IsYoung(a) => Cell(n, a).bits = 0)
  BY <1>1, AllocatedHeapOK
<1> HIDE DEF n, f
<1>5. SetsOK(n, 1 .. RSize(n))
  BY <1>2, <1>3, SetsSame
<1>6. roots' \in Seq(Oops) /\ \A i \in DOMAIN roots' : Ref(n, roots'[i])
  BY <1>1, <1>2, <1>3, <1>4 DEF Oops
<1>7. ASSUME NEW i \in DOMAIN n.mournQueue
      PROVE  Used(n, n.mournQueue[i]) /\ ~IsKind(n, n.mournQueue[i], "ephemeron")
  <2>1. Used(mem, mem.mournQueue[i]) /\ ~IsKind(mem, mem.mournQueue[i], "ephemeron")
    BY <1>2, <1>3, <1>7
  <2> QED
    BY ZenonT(60), <1>3, <2>1 DEF Used, IsKind
<1>8. n.ephemerons = 0 /\ n.survivorStart = FutureStart(n)
  BY <1>2, <1>3, SameSpaces
<1>9. ASSUME NEW a \in n.freeStart .. OldStart - 1 PROVE IsKind(n, a, "free")
  <2>1. a \in f .. OldStart - 1 /\ a # f /\ a \in Addresses
    BY <1>3, <1>9, Layout
  <2>2. IsKind(mem, a, "free")
    BY <1>2, <2>1 DEF f
  <2> QED
    BY <1>3, <2>1, <2>2 DEF IsKind
<1> QED
  BY <1>1, <1>2, <1>4, <1>5, <1>6, <1>7, <1>8, <1>9, MutatorInv

\* The step DequeueMourner preserves the invariant.
LEMMA DequeueMournerInv ==
    ASSUME Inv, DequeueMourner
    PROVE  Inv'
<1> DEFINE q == mem.mournQueue
           n == [mem EXCEPT !.mournQueue = Front(@)]
<1>1. /\ pc = "mutator" /\ q # <<>> /\ mem' = n /\ roots' = Append(roots, Last(q))
      /\ pc' = pc /\ at' = at /\ stores' = stores /\ scavenges' = scavenges /\ births' = births
  BY DEF DequeueMourner
<1>2. /\ HeapOK(mem) /\ mem \in Memories /\ SetsOK(mem, 1 .. RSize(mem))
      /\ roots \in Seq(Oops) /\ \A i \in DOMAIN roots : Ref(mem, roots[i])
      /\ \A i \in DOMAIN q : Used(mem, q[i]) /\ ~IsKind(mem, q[i], "ephemeron")
      /\ mem.ephemerons = 0 /\ mem.survivorStart = FutureStart(mem)
      /\ \A a \in Addresses : ~IsKind(mem, a, "forwarded")
      /\ \A a \in Addresses : IsYoung(a) => Cell(mem, a).bits = 0
      /\ \A a \in mem.freeStart .. OldStart - 1 : IsKind(mem, a, "free")
      /\ stores \in Nat /\ scavenges \in Nat
  BY <1>1, MutatorFacts
<1>3. q \in Seq(Addresses) /\ Len(q) \in Nat /\ Len(q) >= 1 /\ DOMAIN q = 1 .. Len(q)
  BY <1>1, <1>2, Fields, EmptySeq
<1> DEFINE t == Front(q)
<1>4. t \in Seq(Addresses) /\ DOMAIN t \subseteq DOMAIN q /\ \A i \in DOMAIN t : t[i] = q[i]
  <2>1. t \in Seq(Addresses) /\ Len(t) = Len(q) - 1 /\ \A i \in 1 .. Len(q) - 1 : t[i] = q[i]
    BY Zenon, <1>3, FrontFacts
  <2>2. DOMAIN t = 1 .. Len(q) - 1
    BY <2>1, InRange
  <2> QED
    BY <1>3, <2>1, <2>2
<1>5. Last(q) = q[Len(q)] /\ Len(q) \in DOMAIN q
  BY <1>3 DEF Last
<1> HIDE DEF t
<1>6. n = [mem EXCEPT !.mournQueue = t]
  BY DEF t
<1> HIDE DEF n
<1>7. /\ n \in Memories /\ n.heap = mem.heap /\ n.past = mem.past /\ n.survivorStart = mem.survivorStart
      /\ n.freeStart = mem.freeStart /\ n.criterion = mem.criterion
      /\ n.permToNew = mem.permToNew /\ n.permToOld = mem.permToOld
      /\ n.rememberedSet = mem.rememberedSet /\ n.ephemerons = mem.ephemerons /\ n.mournQueue = t
  BY Zenon, <1>2, <1>4, <1>6 DEF Memories
<1>8. SameHeap(mem, n)
  BY <1>7 DEF SameHeap
<1>9. /\ HeapOK(n) /\ FutureStart(n) = FutureStart(mem)
      /\ \A x : Used(n, x) <=> Used(mem, x)
      /\ \A x : Ref(n, x) <=> Ref(mem, x)
      /\ \A x : Cell(n, x) = Cell(mem, x)
      /\ \A x, kind : IsKind(n, x, kind) <=> IsKind(mem, x, kind)
      /\ Objects(n) = Objects(mem)
  BY <1>2, <1>8, SameHeapFacts
<1>10. SetsOK(n, 1 .. RSize(n))
  BY <1>2, <1>7, SetsSame
<1>11. roots' \in Seq(Oops) /\ \A i \in DOMAIN roots' : Ref(n, roots'[i])
  <2>1. Last(q) \in Oops /\ Ref(n, Last(q))
    BY <1>2, <1>5, <1>9 DEF Ref, Oops, Used
  <2>2. \A i \in DOMAIN roots : Ref(n, roots[i])
    BY <1>2, <1>9
  <2> QED
    BY <1>1, <1>2, <2>1, <2>2
<1>12. \A i \in DOMAIN n.mournQueue :
          Used(n, n.mournQueue[i]) /\ ~IsKind(n, n.mournQueue[i], "ephemeron")
  BY <1>2, <1>4, <1>7, <1>9
<1>13. Bounded(n, births')
  BY <1>1, <1>9 DEF Inv, Bounded
<1>14. n.ephemerons = 0 /\ n.survivorStart = FutureStart(n)
  BY <1>2, <1>7, <1>9
<1>15. /\ \A a \in Addresses : ~IsKind(n, a, "forwarded")
       /\ \A a \in Addresses : IsYoung(a) => Cell(n, a).bits = 0
       /\ \A a \in n.freeStart .. OldStart - 1 : IsKind(n, a, "free")
  BY <1>2, <1>7, <1>9
<1> QED
  BY Zenon, <1>1, <1>2, <1>9, <1>10, <1>11, <1>12, <1>13, <1>14, <1>15, MutatorInv DEF n

\* What the image can get at is there.
LEMMA AccessibleUsed ==
    ASSUME Inv, pc = "mutator"
    PROVE  \A a \in Accessible : Used(mem, a)
<1> DEFINE A == {a \in Addresses : Used(mem, a)}
           Referents(a) == {Slot(mem, a, i) : i \in DOMAIN Cell(mem, a).slots} \ {Nil}
           N == Cardinality(Addresses)
           S == (ToSet(roots) \cup Permanent(mem.heap)) \ {Nil}
           G(T) == T \cup UNION {Referents(a) : a \in T}
           Is(h) == h = [n \in 0 .. N |-> IF n = 0 THEN S ELSE G(h[n - 1])]
           f == CHOOSE h : Is(h)
<1>1. Accessible = f[N]
  BY DEF Accessible, Closure, Grown
<1>2. N \in Nat
  <2>1. 1 \in Int /\ PermStart + Perm - 1 \in Int /\ Addresses = 1 .. PermStart + Perm - 1
    BY Layout
  <2> QED
    BY <2>1, FS_Interval, FS_CardinalityType
<1>3. /\ mem \in Memories /\ HeapOK(mem) /\ roots \in Seq(Oops)
      /\ \A i \in DOMAIN roots : Ref(mem, roots[i])
  BY MutatorFacts
<1>4. S \in SUBSET A
  <2>1. ASSUME NEW a \in ToSet(roots), a # Nil PROVE a \in A
    BY <1>3, <2>1 DEF ToSet, Ref, Used
  <2>2. ASSUME NEW a \in Permanent(mem.heap) PROVE a \in A
    BY <2>2 DEF Permanent, Used, IsKind
  <2> QED
    BY <2>1, <2>2
<1>5. ASSUME NEW a \in A PROVE Referents(a) \subseteq A
  <2>1. CellOK(mem, a) /\ DOMAIN Cell(mem, a).slots = SlotIndices(mem, a)
    BY <1>3, CellFields DEF HeapOK
  <2> QED
    BY <2>1 DEF CellOK, Ref, Used
<1> HIDE DEF Referents, S, A, N
<1>6. ASSUME NEW T \in SUBSET A PROVE G(T) \in SUBSET A
  BY <1>5
<1> HIDE DEF G
<1>7. \E h : Is(h)
  <2> DEFINE R == [z \in (SUBSET A) \X (1 .. N) |-> G(z[1])]
  <2>1. R \in [(SUBSET A) \X (1 .. N) -> SUBSET A] /\ \A T \in SUBSET A, i \in 1 .. N : R[<<T, i>>] = G(T)
    BY <1>6
  <2> HIDE DEF R
  <2> DEFINE g == Iteration(SUBSET A, S, R, N)
  <2>2. IsIteration(g, SUBSET A, S, R, N)
    BY Zenon, <1>2, <1>4, <2>1, Iterates
  <2> HIDE DEF g
  <2>3. g \in [0 .. N -> SUBSET A] /\ g[0] = S /\ \A i \in 1 .. N : g[i] = R[<<g[i - 1], i>>]
    BY <2>2 DEF IsIteration
  <2>4. ASSUME NEW i \in 0 .. N PROVE g[i] = IF i = 0 THEN S ELSE G(g[i - 1])
    <3>1. CASE i = 0
      BY <2>3, <3>1
    <3>2. CASE i # 0
      <4>1. i \in 1 .. N /\ i - 1 \in 0 .. N
        BY <1>2, <3>2
      <4> QED
        BY Zenon, <2>1, <2>3, <3>2, <4>1
    <3> QED
      BY <3>1, <3>2
  <2>5. g = [i \in 0 .. N |-> g[i]]
    BY <2>3
  <2>6. Is(g)
    BY Zenon, <2>4, <2>5
  <2> QED
    BY Zenon, <2>6
<1>8. Is(f)
  BY Zenon, <1>7
<1> HIDE DEF f
<1> DEFINE T == {n \in 0 .. N : f[n] \in SUBSET A}
<1>9. 0 \in T
  BY <1>2, <1>4, <1>8
<1>10. ASSUME NEW i \in 1 .. N, i - 1 \in T PROVE i \in T
  <2>1. i \in 0 .. N /\ i # 0 /\ f[i - 1] \in SUBSET A
    BY <1>2, <1>10
  <2>2. f[i] = G(f[i - 1])
    BY Zenon, <1>8, <2>1
  <2> QED
    BY <1>6, <2>1, <2>2
<1>11. \A i \in 0 .. N : i \in T
  <2> HIDE DEF T
  <2> QED
    BY <1>2, <1>9, <1>10, UpTo
<1>12. f[N] \in SUBSET A
  BY <1>2, <1>11
<1> QED
  BY <1>1, <1>12 DEF A

\* A set that is left alone.
LEMMA InSetSame ==
    ASSUME NEW m, NEW n, NEW s, NEW P, NEW A, InSet(m, s, P, A),
           \A x \in A : /\ Used(n, x) <=> Used(m, x)
                        /\ Remembered(n, x) <=> Remembered(m, x)
                        /\ HasYoungReferents(n, x) => Remembered(n, x) \/ HasYoungReferents(m, x)
    PROVE  InSet(n, s, P, A)
  BY DEF InSet

\* A set that an object joins.
LEMMA InSetJoined ==
    ASSUME NEW m, NEW n, NEW A, NEW s \in Seq(A), InSet(m, s, 1 .. Len(s), A),
           NEW a \in A, Used(m, a), ~Remembered(m, a), Remembered(n, a),
           \A x \in A : /\ Used(n, x) <=> Used(m, x)
                        /\ x # a => (Remembered(n, x) <=> Remembered(m, x))
                        /\ HasYoungReferents(n, x) => Remembered(n, x) \/ HasYoungReferents(m, x)
    PROVE  InSet(n, Append(s, a), 1 .. Len(Append(s, a)), A)
<1> DEFINE t == Append(s, a)
           z == Len(s)
<1>1. /\ z \in Nat /\ Len(t) = z + 1 /\ t[z + 1] = a
      /\ \A p \in 1 .. z : t[p] = s[p] /\ s[p] \in A
  OBVIOUS
<1> HIDE DEF t
<1>2. 1 .. Len(t) = (1 .. z) \cup {z + 1} /\ z + 1 \notin 1 .. z
  BY <1>1
<1>3. \A p \in 1 .. z : t[p] # a
  BY <1>1 DEF InSet
<1>4. ASSUME NEW x \in A
      PROVE  Used(n, x) /\ Remembered(n, x) <=> \E p \in 1 .. Len(t) : t[p] = x
  <2>1. CASE x = a
    BY <1>1, <1>2, <2>1
  <2>2. CASE x # a
    BY <1>1, <1>2, <2>2 DEF InSet
  <2> QED
    BY <2>1, <2>2
<1>5. \A p, q \in 1 .. Len(t) : t[p] = t[q] => p = q
  BY <1>1, <1>2, <1>3 DEF InSet
<1>6. \A x \in A : Used(n, x) /\ HasYoungReferents(n, x) => Remembered(n, x)
  BY DEF InSet
<1>7. InSet(n, t, 1 .. Len(t), A)
  BY <1>4, <1>5, <1>6 DEF InSet
<1> QED
  BY <1>7 DEF t

\* What the write barrier does to the memory.
Barred(m, k, a, value) ==
    \/ /\ k = m
       /\ IsOld(a) /\ IsYoung(value) => Remembered(m, a)
       /\ IsPerm(a) /\ value # Nil /\ ~IsPerm(value) => Remembered(m, a)
    \/ /\ IsOld(a) /\ ~Remembered(m, a) /\ Remembered(k, a) /\ SameButSet(m, k, a)
       /\ k.rememberedSet = Append(m.rememberedSet, a)
       /\ k.mournQueue = m.mournQueue /\ k.ephemerons = m.ephemerons
    \/ /\ IsPerm(a) /\ ~Remembered(m, a) /\ Remembered(k, a) /\ SameButPerm(m, k, a)
       /\ k.permToNew = Append(m.permToNew, a) /\ k.permToOld = m.permToOld

\* The memory with the object at a marked as remembered.
Marked(m, a) == SetRemembered(m, a, TRUE)

\* Setting the bit of an object that has none, field by field.
LEMMA RememberedBit ==
    ASSUME NEW m, HeapOK(m), NEW a, Live(m, a), ~Remembered(m, a),
           NEW n, n = Marked(m, a)
    PROVE  /\ n \in Memories /\ SameLists(m, n)
           /\ n.past = m.past /\ n.survivorStart = m.survivorStart /\ n.freeStart = m.freeStart
           /\ n.criterion = m.criterion /\ n.rememberedSet = m.rememberedSet
           /\ n.permToNew = m.permToNew /\ n.permToOld = m.permToOld
           /\ n.mournQueue = m.mournQueue
           /\ n.previousSize = m.previousSize /\ n.ephemerons = m.ephemerons
           /\ \A x \in Addresses : x # a => n.heap[x] = m.heap[x]
           /\ n.heap[a].kind = m.heap[a].kind /\ n.heap[a].slots = m.heap[a].slots
           /\ n.heap[a].bits = 1
<1>1. m \in Memories /\ a \in Addresses /\ m.heap \in [Addresses -> Cells] /\ m.heap[a] \in Cells
  BY Fields DEF HeapOK, Live, Used
<1>2. Cell(m, a).bits \in {0, 1}
  BY <1>1 DEF HeapOK, CellOK, Live
<1>3. m.heap[a].bits = 0
  BY <1>2 DEF Remembered, Cell
<1>4. 2 * (m.heap[a].bits \div 2) + 1 = 1
  BY <1>3
<1> DEFINE c == [m.heap[a] EXCEPT !.bits = 1]
           h == [m.heap EXCEPT ![a] = c]
<1>5. c \in Cells /\ c.kind = m.heap[a].kind /\ c.slots = m.heap[a].slots /\ c.bits = 1
  <2>1. 1 \in 0 .. MaxRTRefCount
    BY DEF MaxRTRefCount
  <2> QED
    BY Zenon, <1>1, <2>1 DEF Cells
<1>6. n = [m EXCEPT !.heap = h]
  <2>1. n = [m EXCEPT !.heap[a].bits = 2 * (m.heap[a].bits \div 2) + 1]
    BY DEF SetRemembered, Marked
  <2>2. n = [m EXCEPT !.heap[a].bits = 1]
    BY <1>4, <2>1
  <2> QED
    BY <1>1, <2>2 DEF Memories
<1> HIDE DEF c
<1>7. h \in [Addresses -> Cells] /\ h[a] = c /\ \A x \in Addresses : x # a => h[x] = m.heap[x]
  BY <1>1, <1>5
<1> HIDE DEF h
<1>8. /\ n \in Memories /\ n.heap = h
      /\ n.past = m.past /\ n.survivorStart = m.survivorStart /\ n.freeStart = m.freeStart
      /\ n.criterion = m.criterion /\ n.rememberedSet = m.rememberedSet
      /\ n.permToNew = m.permToNew /\ n.permToOld = m.permToOld
      /\ n.mournQueue = m.mournQueue /\ n.weakList = m.weakList /\ n.ephemeronList = m.ephemeronList
      /\ n.previousSize = m.previousSize /\ n.ephemerons = m.ephemerons
  BY ZenonT(60), <1>1, <1>6, <1>7 DEF Memories
<1> QED
  BY <1>5, <1>7, <1>8 DEF SameLists

\* The write barrier, case by case: what is remembered, and in which of the three sets.
LEMMA StoreBarrier ==
    ASSUME NEW m, HeapOK(m), NEW a, Used(m, a), NEW value
    PROVE  Barred(m, RememberStore(m, a, value), a, value)
<1> DEFINE k == RememberStore(m, a, value)
<1>1. m \in Memories /\ a \in Addresses
  BY DEF HeapOK, Used
<1>2. CASE IsOld(a) /\ IsYoung(value) /\ ~Remembered(m, a)
  <2> DEFINE n == Marked(m, a)
             s == Append(m.rememberedSet, a)
  <2>1. k = [n EXCEPT !.rememberedSet = Append(@, a)]
    BY <1>2 DEF RememberStore, Remember, Marked
  <2>0. n = Marked(m, a)
    OBVIOUS
  <2> HIDE DEF n, k
  <2>2. /\ n \in Memories /\ SameLists(m, n)
        /\ n.past = m.past /\ n.survivorStart = m.survivorStart /\ n.freeStart = m.freeStart
        /\ n.criterion = m.criterion /\ n.rememberedSet = m.rememberedSet
        /\ n.permToNew = m.permToNew /\ n.permToOld = m.permToOld
        /\ n.mournQueue = m.mournQueue /\ n.ephemerons = m.ephemerons
        /\ \A x \in Addresses : x # a => n.heap[x] = m.heap[x]
        /\ n.heap[a].kind = m.heap[a].kind /\ n.heap[a].slots = m.heap[a].slots
        /\ n.heap[a].bits = 1
    <3>1. Live(m, a)
      BY <1>1, <1>2, Layout DEF Live, InSource
    <3> QED
      BY <1>2, <2>0, <3>1, RememberedBit
  <2>3. k = [n EXCEPT !.rememberedSet = s]
    BY <2>1, <2>2
  <2>4. s \in Seq(OldAddresses)
    BY <1>1, <1>2, Fields, Layout
  <2> HIDE DEF s
  <2>5. /\ k \in Memories /\ k.heap = n.heap /\ k.rememberedSet = s
        /\ k.past = n.past /\ k.survivorStart = n.survivorStart /\ k.freeStart = n.freeStart
        /\ k.criterion = n.criterion /\ k.weakList = n.weakList /\ k.ephemeronList = n.ephemeronList
        /\ k.permToNew = n.permToNew /\ k.permToOld = n.permToOld
        /\ k.mournQueue = n.mournQueue /\ k.ephemerons = n.ephemerons
    BY Zenon, <2>2, <2>3, <2>4 DEF Memories
  <2>6. SameButSet(m, k, a)
    BY <2>2, <2>5 DEF SameButSet, SameLists
  <2>7. Remembered(k, a)
    BY <2>2, <2>5 DEF Remembered
  <2> QED
    BY <1>2, <2>2, <2>5, <2>6, <2>7 DEF Barred, k, s
<1>3. CASE ~(IsOld(a) /\ IsYoung(value) /\ ~Remembered(m, a))
           /\ IsPerm(a) /\ value # Nil /\ ~IsPerm(value) /\ ~Remembered(m, a)
  <2> DEFINE n == Marked(m, a)
             s == Append(m.permToNew, a)
  <2>1. k = [n EXCEPT !.permToNew = Append(@, a)]
    BY <1>3 DEF RememberStore, Marked
  <2>0. n = Marked(m, a)
    OBVIOUS
  <2> HIDE DEF n, k
  <2>2. /\ n \in Memories /\ SameLists(m, n)
        /\ n.past = m.past /\ n.survivorStart = m.survivorStart /\ n.freeStart = m.freeStart
        /\ n.criterion = m.criterion /\ n.rememberedSet = m.rememberedSet
        /\ n.permToNew = m.permToNew /\ n.permToOld = m.permToOld
        /\ n.mournQueue = m.mournQueue
        /\ n.previousSize = m.previousSize /\ n.ephemerons = m.ephemerons
        /\ \A x \in Addresses : x # a => n.heap[x] = m.heap[x]
        /\ n.heap[a].kind = m.heap[a].kind /\ n.heap[a].slots = m.heap[a].slots
        /\ n.heap[a].bits = 1
    <3>1. Live(m, a)
      BY <1>1, <1>3, Layout DEF Live, InSource
    <3> QED
      BY <1>3, <2>0, <3>1, RememberedBit
  <2>3. k = [n EXCEPT !.permToNew = s]
    BY <2>1, <2>2
  <2>4. s \in Seq(PermAddresses)
    BY <1>1, <1>3, Fields, Layout
  <2> HIDE DEF s
  <2>5. /\ k \in Memories /\ k.heap = n.heap /\ k.permToNew = s
        /\ k.past = n.past /\ k.survivorStart = n.survivorStart /\ k.freeStart = n.freeStart
        /\ k.criterion = n.criterion /\ k.weakList = n.weakList /\ k.ephemeronList = n.ephemeronList
        /\ k.rememberedSet = n.rememberedSet /\ k.permToOld = n.permToOld
        /\ k.mournQueue = n.mournQueue /\ k.ephemerons = n.ephemerons /\ k.previousSize = n.previousSize
    BY Zenon, <2>2, <2>3, <2>4 DEF Memories
  <2>6. SameButPerm(m, k, a)
    BY <2>2, <2>5 DEF SameButPerm, SameLists
  <2>7. Remembered(k, a)
    BY <2>2, <2>5 DEF Remembered
  <2> QED
    BY <1>3, <2>2, <2>5, <2>6, <2>7 DEF Barred, k, s
<1>4. CASE /\ ~(IsOld(a) /\ IsYoung(value) /\ ~Remembered(m, a))
           /\ ~(IsPerm(a) /\ value # Nil /\ ~IsPerm(value) /\ ~Remembered(m, a))
  BY Zenon, <1>4 DEF RememberStore, Barred
<1> QED
  BY <1>2, <1>3, <1>4

\* What the write barrier leaves alone.
LEMMA BarredFacts ==
    ASSUME NEW m, HeapOK(m), NEW a, Used(m, a), NEW value, NEW k, Barred(m, k, a, value)
    PROVE  /\ HeapOK(k) /\ k \in Memories /\ a \in Addresses
           /\ k.past = m.past /\ k.survivorStart = m.survivorStart /\ k.freeStart = m.freeStart
           /\ k.mournQueue = m.mournQueue /\ k.ephemerons = m.ephemerons
           /\ \A x \in Addresses : x # a => k.heap[x] = m.heap[x]
           /\ k.heap[a].kind = m.heap[a].kind /\ k.heap[a].slots = m.heap[a].slots
           /\ Objects(k) = Objects(m)
           /\ IsYoung(a) => k = m
<1>1. m \in Memories /\ a \in Addresses
  BY DEF HeapOK, Used
<1>2. CASE k = m
  BY <1>1, <1>2
<1>3. CASE IsOld(a) /\ SameButSet(m, k, a) /\ k.mournQueue = m.mournQueue /\ k.ephemerons = m.ephemerons
  <2>1. a \in OldAddresses /\ ~IsYoung(a)
    BY <1>1, <1>3, Layout
  <2>2. HeapOK(k) /\ Objects(k) = Objects(m)
    BY <1>3, <2>1, SameButSetFacts
  <2> QED
    BY <1>1, <1>3, <2>1, <2>2 DEF SameButSet
<1>4. CASE IsPerm(a) /\ SameButPerm(m, k, a)
  <2>1. a \in PermAddresses /\ ~IsYoung(a)
    BY <1>1, <1>4, Layout
  <2>2. HeapOK(k) /\ Objects(k) = Objects(m)
    BY <1>4, <2>1, SameButPermFacts
  <2> QED
    BY <1>1, <1>4, <2>1, <2>2 DEF SameButPerm
<1> QED
  BY <1>2, <1>3, <1>4 DEF Barred

\* The sets are in order after a store, with its barrier.
LEMMA StoredSets ==
    ASSUME NEW m, HeapOK(m), SetsOK(m, 1 .. RSize(m)), NEW a, Used(m, a), ~IsKind(m, a, "forwarded"),
           NEW i \in SlotIndices(m, a), NEW value, Ref(m, value),
           NEW k, Barred(m, k, a, value), NEW n, Stores(k, n, a, i, value)
    PROVE  /\ HeapOK(n) /\ SetsOK(n, 1 .. RSize(n))
           /\ Objects(n) = Objects(m)
           /\ n.past = m.past /\ n.survivorStart = m.survivorStart /\ n.freeStart = m.freeStart
           /\ n.mournQueue = m.mournQueue /\ n.ephemerons = m.ephemerons
           /\ \A x \in Addresses : Cell(n, x).kind = Cell(m, x).kind
           /\ \A x \in Addresses : IsYoung(x) => Cell(n, x).bits = Cell(m, x).bits
           /\ \A x : Used(n, x) <=> Used(m, x)
<1>1. /\ HeapOK(k) /\ k \in Memories /\ a \in Addresses
      /\ k.past = m.past /\ k.survivorStart = m.survivorStart /\ k.freeStart = m.freeStart
      /\ k.mournQueue = m.mournQueue /\ k.ephemerons = m.ephemerons
      /\ \A x \in Addresses : x # a => k.heap[x] = m.heap[x]
      /\ k.heap[a].kind = m.heap[a].kind /\ k.heap[a].slots = m.heap[a].slots
      /\ Objects(k) = Objects(m)
      /\ IsYoung(a) => k = m
  BY BarredFacts
<1>2. \A x : Used(k, x) <=> Used(m, x)
  BY <1>1 DEF Used, IsKind
<1>3. Used(k, a) /\ ~IsKind(k, a, "forwarded") /\ i \in SlotIndices(k, a) /\ Ref(k, value)
  BY <1>1, <1>2 DEF IsKind, SlotIndices, Size, Cell, Ref
<1>4. /\ HeapOK(n) /\ Objects(n) = Objects(k)
      /\ \A x : Used(n, x) <=> Used(k, x)
      /\ \A x \in Addresses : Cell(n, x).kind = Cell(k, x).kind /\ Cell(n, x).bits = Cell(k, x).bits
      /\ \A x \in Addresses : SlotIndices(n, x) = SlotIndices(k, x)
      /\ \A x \in Addresses : x # a => Cell(n, x) = Cell(k, x)
  BY <1>1, <1>3, StoreHeapOK
<1>5. /\ n.past = k.past /\ n.survivorStart = k.survivorStart /\ n.freeStart = k.freeStart
      /\ n.mournQueue = k.mournQueue /\ n.ephemerons = k.ephemerons
      /\ n.rememberedSet = k.rememberedSet /\ n.permToNew = k.permToNew /\ n.permToOld = k.permToOld
      /\ Slot(n, a, i) = value /\ \A j \in SlotIndices(k, a) \ {i} : Slot(n, a, j) = Slot(k, a, j)
  BY DEF Stores, SameRest
<1>6. m \in Memories /\ n \in Memories
  BY <1>4 DEF HeapOK
<1>7. ASSUME NEW x \in Addresses
      PROVE  /\ Used(n, x) <=> Used(m, x)
             /\ Remembered(n, x) <=> Remembered(k, x)
             /\ x # a => (Remembered(n, x) <=> Remembered(m, x))
             /\ x # a => Cell(n, x) = Cell(m, x)
             /\ SlotIndices(n, x) = SlotIndices(m, x)
  <2>1. SlotIndices(k, x) = SlotIndices(m, x)
    BY <1>1 DEF SlotIndices, Size, Cell
  <2>2. x # a => Cell(n, x) = Cell(m, x)
    BY <1>1, <1>4 DEF Cell
  <2>3. Remembered(n, x) <=> Remembered(k, x)
    BY <1>4 DEF Remembered, Cell
  <2>4. x # a => (Remembered(n, x) <=> Remembered(m, x))
    BY <2>2 DEF Remembered, Cell
  <2> QED
    BY <1>2, <1>4, <2>1, <2>2, <2>3, <2>4
<1>8. \A j \in SlotIndices(m, a) : j # i => Slot(n, a, j) = Slot(m, a, j)
  BY <1>1, <1>5 DEF SlotIndices, Size, Cell, Slot
<1>9. IsOld(a) /\ IsYoung(value) => Remembered(n, a)
  BY <1>1, <1>7, Layout DEF Barred
<1>10. IsPerm(a) /\ value # Nil /\ ~IsPerm(value) => Remembered(n, a)
  BY <1>1, <1>7, Layout DEF Barred
<1>11. Remembered(m, a) => Remembered(n, a)
  BY <1>1, <1>7 DEF Barred
<1>12. ASSUME NEW x \in Addresses, ~IsYoung(x), HasYoungReferents(n, x)
       PROVE  Remembered(n, x) \/ HasYoungReferents(m, x)
  <2>1. PICK j \in SlotIndices(n, x) : IsYoung(Slot(n, x, j))
    BY <1>6, <1>12, YoungReferents DEF RefersToYoung
  <2>2. CASE x # a \/ j # i
    <3>1. j \in SlotIndices(m, x) /\ Slot(n, x, j) = Slot(m, x, j)
      BY <1>7, <1>8, <2>1, <2>2 DEF Slot, Cell
    <3>2. RefersToYoung(m, x)
      BY <2>1, <3>1 DEF RefersToYoung
    <3> QED
      BY <1>6, <3>2, YoungReferents
  <2>3. CASE x = a /\ j = i
    <3>1. IsYoung(value) /\ value # Nil /\ ~IsPerm(value)
      <4>1. IsYoung(value)
        BY <1>5, <2>1, <2>3
      <4> QED
        BY <4>1, Layout DEF IsYoung, IsPerm, Nil
    <3>2. IsOld(a) \/ IsPerm(a)
      BY <1>1, <1>12, <2>3, Layout
    <3> QED
      BY <1>9, <1>10, <2>3, <3>1, <3>2
  <2> QED
    BY <2>2, <2>3
<1>13. ASSUME NEW x \in PermAddresses, Used(n, x), RefersToOld(n, x)
       PROVE  Remembered(n, x) \/ x \in Range(m.permToOld)
  <2>0. x \in Addresses /\ IsPerm(x)
    BY Layout
  <2>1. PICK j \in SlotIndices(n, x) : IsOld(Slot(n, x, j))
    BY <1>13 DEF RefersToOld
  <2>2. CASE x # a \/ j # i
    <3>1. j \in SlotIndices(m, x) /\ Slot(n, x, j) = Slot(m, x, j)
      BY <1>7, <1>8, <2>0, <2>1, <2>2 DEF Slot, Cell
    <3>2. RefersToOld(m, x) /\ Used(m, x)
      BY <1>7, <1>13, <2>0, <2>1, <3>1 DEF RefersToOld
    <3>3. Remembered(m, x) \/ x \in Range(m.permToOld)
      BY <3>2 DEF SetsOK
    <3> QED
      BY <1>7, <1>11, <2>0, <3>3
  <2>3. CASE x = a /\ j = i
    <3>1. IsOld(value) /\ value # Nil /\ ~IsPerm(value)
      <4>1. IsOld(value)
        BY <1>5, <2>1, <2>3
      <4> QED
        BY <4>1, Layout DEF IsOld, IsPerm, Nil
    <3> QED
      BY <1>10, <2>0, <2>3, <3>1
  <2> QED
    BY <2>2, <2>3
<1>14. /\ \A x \in OldAddresses : x \in Addresses /\ ~IsYoung(x) /\ IsOld(x) /\ ~IsPerm(x)
       /\ \A x \in PermAddresses : x \in Addresses /\ ~IsYoung(x) /\ IsPerm(x) /\ ~IsOld(x)
  BY Layout DEF IsYoung, IsOld, IsPerm
<1>15. InSet(m, m.rememberedSet, 1 .. RSize(m), OldAddresses) /\ InSet(m, m.permToNew, 1 .. Len(m.permToNew), PermAddresses)
  BY DEF SetsOK
<1>16. /\ InSet(n, n.rememberedSet, 1 .. RSize(n), OldAddresses)
       /\ InSet(n, n.permToNew, 1 .. Len(n.permToNew), PermAddresses)
       /\ n.permToOld = m.permToOld
  <2>1. CASE k = m
    <3>1. n.rememberedSet = m.rememberedSet /\ n.permToNew = m.permToNew /\ n.permToOld = m.permToOld
          /\ RSize(n) = RSize(m)
      BY <1>5, <2>1 DEF RSize
    <3>2. InSet(n, m.rememberedSet, 1 .. RSize(m), OldAddresses)
      BY <1>7, <1>12, <1>14, <1>15, <2>1, InSetSame
    <3>3. InSet(n, m.permToNew, 1 .. Len(m.permToNew), PermAddresses)
      BY <1>7, <1>12, <1>14, <1>15, <2>1, InSetSame
    <3> QED
      BY <3>1, <3>2, <3>3
  <2>2. CASE /\ IsOld(a) /\ ~Remembered(m, a) /\ Remembered(k, a) /\ SameButSet(m, k, a)
             /\ k.rememberedSet = Append(m.rememberedSet, a)
    <3>1. n.rememberedSet = Append(m.rememberedSet, a) /\ n.permToNew = m.permToNew /\ n.permToOld = m.permToOld
      BY <1>5, <2>2 DEF SameButSet
    <3>2. a \in OldAddresses /\ a \notin PermAddresses /\ Used(m, a) /\ Remembered(n, a)
          /\ m.rememberedSet \in Seq(OldAddresses)
      BY <1>1, <1>6, <1>7, <1>14, <2>2, Layout, Fields
    <3>3. InSet(n, Append(m.rememberedSet, a), 1 .. Len(Append(m.rememberedSet, a)), OldAddresses)
      BY <1>7, <1>12, <1>14, <1>15, <2>2, <3>2, InSetJoined DEF RSize
    <3>4. InSet(n, m.permToNew, 1 .. Len(m.permToNew), PermAddresses)
      BY <1>7, <1>12, <1>14, <1>15, <3>2, InSetSame
    <3> QED
      BY <3>1, <3>3, <3>4 DEF RSize
  <2>3. CASE /\ IsPerm(a) /\ ~Remembered(m, a) /\ Remembered(k, a) /\ SameButPerm(m, k, a)
             /\ k.permToNew = Append(m.permToNew, a) /\ k.permToOld = m.permToOld
    <3>1. n.rememberedSet = m.rememberedSet /\ n.permToNew = Append(m.permToNew, a) /\ n.permToOld = m.permToOld
          /\ RSize(n) = RSize(m)
      BY <1>5, <2>3 DEF SameButPerm, RSize
    <3>2. a \in PermAddresses /\ a \notin OldAddresses /\ Used(m, a) /\ Remembered(n, a)
          /\ m.permToNew \in Seq(PermAddresses)
      BY <1>1, <1>6, <1>7, <1>14, <2>3, Layout, Fields
    <3>3. InSet(n, Append(m.permToNew, a), 1 .. Len(Append(m.permToNew, a)), PermAddresses)
      BY <1>7, <1>12, <1>14, <1>15, <2>3, <3>2, InSetJoined
    <3>4. InSet(n, m.rememberedSet, 1 .. RSize(m), OldAddresses)
      BY <1>7, <1>12, <1>14, <1>15, <3>2, InSetSame
    <3> QED
      BY <3>1, <3>3, <3>4
  <2> QED
    BY <2>1, <2>2, <2>3 DEF Barred
<1>17. SetsOK(n, 1 .. RSize(n))
  BY <1>13, <1>16 DEF SetsOK
<1>18. /\ \A x \in Addresses : Cell(n, x).kind = Cell(m, x).kind
       /\ \A x \in Addresses : IsYoung(x) => Cell(n, x).bits = Cell(m, x).bits
  BY <1>1, <1>4 DEF Cell
<1> QED
  BY <1>1, <1>2, <1>4, <1>5, <1>17, <1>18

\* The step StorePointer preserves the invariant.
LEMMA StorePointerInv ==
    ASSUME Inv, pc = "mutator", stores > 0, NEW a \in Accessible, NEW value \in Accessible \cup {Nil},
           NEW i \in DOMAIN Cell(mem, a).slots, StorePointer(a, i, value)
    PROVE  Inv'
<1> DEFINE k == RememberStore(mem, a, value)
           n == [k EXCEPT !.heap[a].slots[i] = value]
<1>1. /\ mem' = n /\ stores' = stores - 1
      /\ roots' = roots /\ pc' = pc /\ at' = at /\ births' = births /\ scavenges' = scavenges
  BY DEF StorePointer
<1>2. /\ HeapOK(mem) /\ mem \in Memories /\ SetsOK(mem, 1 .. RSize(mem))
      /\ roots \in Seq(Oops) /\ \A x \in DOMAIN roots : Ref(mem, roots[x])
      /\ \A x \in DOMAIN mem.mournQueue :
            Used(mem, mem.mournQueue[x]) /\ ~IsKind(mem, mem.mournQueue[x], "ephemeron")
      /\ mem.ephemerons = 0 /\ mem.survivorStart = FutureStart(mem)
      /\ \A x \in Addresses : ~IsKind(mem, x, "forwarded")
      /\ \A x \in Addresses : IsYoung(x) => Cell(mem, x).bits = 0
      /\ \A x \in mem.freeStart .. OldStart - 1 : IsKind(mem, x, "free")
      /\ stores \in Nat /\ scavenges \in Nat
  BY MutatorFacts
<1>3. Used(mem, a) /\ Ref(mem, value) /\ a \in Addresses /\ value \in Oops
  BY AccessibleUsed DEF Ref, Used, Oops
<1>4. i \in SlotIndices(mem, a) /\ ~IsKind(mem, a, "forwarded")
  BY <1>2, <1>3, CellFields
<1> HIDE DEF n
<1>5. /\ HeapOK(n) /\ SetsOK(n, 1 .. RSize(n))
      /\ Objects(n) = Objects(mem)
      /\ n.past = mem.past /\ n.survivorStart = mem.survivorStart /\ n.freeStart = mem.freeStart
      /\ n.mournQueue = mem.mournQueue /\ n.ephemerons = mem.ephemerons
      /\ \A x \in Addresses : Cell(n, x).kind = Cell(mem, x).kind
      /\ \A x \in Addresses : IsYoung(x) => Cell(n, x).bits = Cell(mem, x).bits
      /\ \A x : Used(n, x) <=> Used(mem, x)
  <2>1. Barred(mem, k, a, value)
    BY <1>2, <1>3, StoreBarrier
  <2>2. n = [k EXCEPT !.heap[a].slots[i] = value]
    BY DEF n
  <2> HIDE DEF k
  <2>3. k \in Memories /\ k.heap[a].slots = mem.heap[a].slots
    BY <1>2, <1>3, <2>1, BarredFacts
  <2>4. i \in SlotIndices(k, a)
    BY <1>4, <2>3 DEF SlotIndices, Size, Cell
  <2>5. Stores(k, n, a, i, value)
    BY <1>3, <2>2, <2>3, <2>4, StoreFacts
  <2> QED
    BY <1>2, <1>3, <1>4, <2>1, <2>5, StoredSets
<1>6. \A x \in Addresses : \A kind : IsKind(n, x, kind) <=> IsKind(mem, x, kind)
  BY <1>5 DEF IsKind, Cell
<1>7. \A x \in DOMAIN roots' : Ref(n, roots'[x])
  BY <1>1, <1>2, <1>5 DEF Ref
<1>8. ASSUME NEW x \in DOMAIN n.mournQueue
      PROVE  Used(n, n.mournQueue[x]) /\ ~IsKind(n, n.mournQueue[x], "ephemeron")
  BY <1>2, <1>5, <1>6, <1>8 DEF Used
<1>9. n.ephemerons = 0 /\ n.survivorStart = FutureStart(n)
  BY <1>2, <1>5, SameSpaces
<1>10. /\ \A x \in Addresses : ~IsKind(n, x, "forwarded")
       /\ \A x \in Addresses : IsYoung(x) => Cell(n, x).bits = 0
  BY <1>2, <1>5, <1>6
<1>11. \A x \in n.freeStart .. OldStart - 1 : IsKind(n, x, "free")
  <2> TAKE x \in n.freeStart .. OldStart - 1
  <2>1. IsKind(mem, x, "free") /\ n.freeStart = mem.freeStart
    BY <1>2, <1>5
  <2>2. x \in Addresses
    <3>1. mem.freeStart \in EdenStart .. OldStart
      BY <1>2 DEF HeapOK
    <3> QED
      BY <2>1, <3>1, Layout
  <2> QED
    BY <1>6, <2>1, <2>2
<1>12. Bounded(n, births')
  BY <1>1, <1>5 DEF Inv, Bounded
<1>13. stores' \in Nat
  BY <1>1, <1>2
<1> QED
  BY <1>1, <1>2, <1>5, <1>7, <1>8, <1>9, <1>10, <1>11, <1>12, <1>13, MutatorInv

\* A reference count fits in the bits it borrows.
LEMMA ReferenceCountFits ==
    ASSUME NEW m, NEW a, RSize(m) \in Nat
    PROVE  ReferenceCount(m, a) \in 0 .. MaxRTRefCount
<1> DEFINE X == {place \in (1 .. Len(m.rememberedSet)) \X (1 .. 2) :
                   LET referrer == m.rememberedSet[place[1]]
                   IN  /\ place[2] \in DOMAIN Cell(m, referrer).slots
                       /\ Slot(m, referrer, place[2]) = a}
           c == Cardinality(X)
<1>1. ReferenceCount(m, a) = Min({MaxRTRefCount, c})
  BY DEF ReferenceCount
<1>2. c \in Nat
  <2>0. 1 \in Int /\ 2 \in Int /\ RSize(m) \in Int
    OBVIOUS
  <2>1. IsFiniteSet(1 .. RSize(m)) /\ IsFiniteSet(1 .. 2)
    <3>1. IsFiniteSet(1 .. RSize(m))
      BY <2>0, FS_Interval
    <3>2. IsFiniteSet(1 .. 2)
      BY Zenon, <2>0, FS_Interval
    <3> QED
      BY <3>1, <3>2
  <2>2. IsFiniteSet((1 .. RSize(m)) \X (1 .. 2))
    BY <2>1, FS_Product
  <2>3. X \subseteq (1 .. RSize(m)) \X (1 .. 2)
    BY DEF RSize
  <2> HIDE DEF X
  <2> QED
    BY <2>2, <2>3, FS_Subset, FS_CardinalityType
<1> HIDE DEF c
<1>3. Min({MaxRTRefCount, c}) \in {MaxRTRefCount, c}
      /\ \A y \in {MaxRTRefCount, c} : Min({MaxRTRefCount, c}) <= y
  <2>1. \E x \in {MaxRTRefCount, c} : \A y \in {MaxRTRefCount, c} : x <= y
    BY <1>2 DEF MaxRTRefCount
  <2> QED
    BY <2>1 DEF Min
<1> QED
  BY <1>1, <1>2, <1>3 DEF MaxRTRefCount

\* An address nothing refers to has none.
LEMMA NoReferences ==
    ASSUME NEW m, RSize(m) \in Nat,
           NEW a, \A p \in 1 .. RSize(m) : \A i \in DOMAIN Cell(m, m.rememberedSet[p]).slots :
                     Slot(m, m.rememberedSet[p], i) # a
    PROVE  ReferenceCount(m, a) = 0
<1> DEFINE X == {place \in (1 .. Len(m.rememberedSet)) \X (1 .. 2) :
                   LET referrer == m.rememberedSet[place[1]]
                   IN  /\ place[2] \in DOMAIN Cell(m, referrer).slots
                       /\ Slot(m, referrer, place[2]) = a}
           c == Cardinality(X)
<1>1. ReferenceCount(m, a) = Min({MaxRTRefCount, c})
  BY DEF ReferenceCount
<1>2. X = {}
  BY Zenon DEF RSize
<1>3. c = 0
  BY <1>2, FS_EmptySet
<1>4. Min({MaxRTRefCount, 0}) = 0
  <2>1. Min({MaxRTRefCount, 0}) \in {MaxRTRefCount, 0} /\ \A y \in {MaxRTRefCount, 0} : Min({MaxRTRefCount, 0}) <= y
    <3>1. \E x \in {MaxRTRefCount, 0} : \A y \in {MaxRTRefCount, 0} : x <= y
      BY DEF MaxRTRefCount
    <3> QED
      BY <3>1 DEF Min
  <2> QED
    BY <2>1 DEF MaxRTRefCount
<1> QED
  BY Zenon, <1>1, <1>3, <1>4

\* The limit on reference counts is a number, for all the counts there can be.
LEMMA RefCountFits ==
    ASSUME NEW N \in Nat, NEW count \in [1 .. N -> 0 .. MaxRTRefCount]
    PROVE  RefCountToShrinkRT(count) \in Nat
<1> DEFINE AtLeast(c) == Cardinality({a \in DOMAIN count : count[a] >= c})
           half == AtLeast(1) \div 2
           X == {c \in 1 .. MaxRTRefCount : AtLeast(c) >= half}
<1>1. RefCountToShrinkRT(count) = IF half = 0 THEN MaxRTRefCount + 1 ELSE Max(X)
  BY DEF RefCountToShrinkRT
<1>2. AtLeast(1) \in Nat
  <2>1. 1 \in Int /\ N \in Int
    OBVIOUS
  <2>2. IsFiniteSet(1 .. N)
    BY <2>1, FS_Interval
  <2>3. {a \in DOMAIN count : count[a] >= 1} \subseteq 1 .. N
    OBVIOUS
  <2> QED
    BY <2>2, <2>3, FS_Subset, FS_CardinalityType
<1> HIDE DEF AtLeast
<1>3. AtLeast(1) >= half
  BY <1>2
<1>4. 1 \in X
  BY <1>3 DEF MaxRTRefCount
<1> HIDE DEF half
<1>5. X \subseteq 1 .. 7
  BY DEF MaxRTRefCount
<1> HIDE DEF X
<1>6. \E x \in X : \A y \in X : x >= y
  <2> DEFINE T == {8 - x : x \in X}
  <2>1. T \subseteq Nat /\ T # {}
    BY <1>4, <1>5
  <2> HIDE DEF T
  <2>2. PICK t \in T : \A u \in T : t <= u
    BY Zenon, <2>1, Smallest
  <2>3. PICK x \in X : t = 8 - x
    BY DEF T
  <2>4. \A y \in X : x >= y
    <3> TAKE y \in X
    <3>1. 8 - y \in T
      BY DEF T
    <3>2. 8 - x <= 8 - y /\ x \in 1 .. 7 /\ y \in 1 .. 7
      BY <1>5, <2>2, <2>3, <3>1
    <3> QED
      BY <3>2
  <2> QED
    BY <2>4
<1>7. Max(X) \in X
  BY <1>6 DEF Max
<1>8. Max(X) \in Nat /\ MaxRTRefCount + 1 \in Nat
  <2>1. Max(X) \in 1 .. 7
    BY Zenon, <1>5, <1>7
  <2> DEFINE y == Max(X)
  <2>2. y \in 1 .. 7
    BY <2>1
  <2> HIDE DEF y
  <2>3. y \in Nat /\ MaxRTRefCount + 1 \in Nat
    BY <2>2 DEF MaxRTRefCount
  <2> QED
    BY <2>3 DEF y
<1> QED
  BY <1>1, <1>8

\* n is m at the start of a scavenge.
Started(m, n) ==
    /\ n \in Memories
    /\ n.past = m.past /\ n.survivorStart = m.survivorStart /\ n.freeStart = m.freeStart
    /\ n.rememberedSet = m.rememberedSet /\ n.mournQueue = m.mournQueue
    /\ n.permToNew = m.permToNew /\ n.permToOld = m.permToOld
    /\ n.weakList = <<>> /\ n.ephemeronList = <<>> /\ n.ephemerons = 0
    /\ \A x \in Addresses : n.heap[x].kind = m.heap[x].kind /\ n.heap[x].slots = m.heap[x].slots
    /\ \A x \in Addresses : ~IsYoung(x) => n.heap[x] = m.heap[x]
    /\ \A x \in Addresses : IsYoung(x) =>
          n.heap[x].bits = 0 \/ (~IsKind(m, x, "free") /\ n.criterion = "ToShrinkRT")

\* The start of a scavenge, field by field.
LEMMA StartingFacts ==
    ASSUME NEW m \in Memories, NEW criterion \in Criteria, NEW n, n = StartingLoop(m, criterion)
    PROVE  /\ n \in Memories /\ n.heap = m.heap
           /\ n.past = m.past /\ n.survivorStart = m.survivorStart /\ n.freeStart = m.freeStart
           /\ n.rememberedSet = m.rememberedSet /\ n.mournQueue = m.mournQueue
           /\ n.permToNew = m.permToNew /\ n.permToOld = m.permToOld
           /\ n.weakList = <<>> /\ n.ephemeronList = <<>> /\ n.ephemerons = 0
<1>1. criterion \in {"ByAge", "ByClass", "DontTenure", "ToShrinkRT"}
  BY SizesAssumption
<1>2. <<>> \in Seq(Addresses) /\ 0 \in Nat
  OBVIOUS
<1> DEFINE k == [m EXCEPT !.criterion = criterion, !.weakList = <<>>, !.ephemeronList = <<>>]
<1>3. /\ k \in Memories /\ k.heap = m.heap
      /\ k.past = m.past /\ k.survivorStart = m.survivorStart /\ k.freeStart = m.freeStart
      /\ k.rememberedSet = m.rememberedSet /\ k.mournQueue = m.mournQueue
      /\ k.permToNew = m.permToNew /\ k.permToOld = m.permToOld
      /\ k.weakList = <<>> /\ k.ephemeronList = <<>>
  BY Zenon, <1>1, <1>2 DEF Memories
<1>4. n = [k EXCEPT !.ephemerons = 0, !.previousSize = 0]
  BY DEF StartingLoop, Memories
<1> HIDE DEF k
<1>5. /\ n \in Memories /\ n.heap = k.heap
      /\ n.past = k.past /\ n.survivorStart = k.survivorStart /\ n.freeStart = k.freeStart
      /\ n.rememberedSet = k.rememberedSet /\ n.mournQueue = k.mournQueue
      /\ n.permToNew = k.permToNew /\ n.permToOld = k.permToOld
      /\ n.weakList = k.weakList /\ n.ephemeronList = k.ephemeronList /\ n.ephemerons = 0
  BY ZenonT(60), <1>2, <1>3, <1>4 DEF Memories
<1> QED
  BY <1>3, <1>5

\* The reference counts borrow the bits of young objects only.
LEMMA StartedFacts ==
    ASSUME NEW m, HeapOK(m), \A x \in Addresses : IsYoung(x) => Cell(m, x).bits = 0,
           NEW criterion \in Criteria,
           NEW n, n = StrategizeToLimitRememberedSet(StartingLoop(m, criterion))
    PROVE  Started(m, n)
<1> DEFINE k == StartingLoop(m, criterion)
<1>1. m \in Memories
  BY DEF HeapOK
<1>2. /\ k \in Memories /\ k.heap = m.heap
      /\ k.past = m.past /\ k.survivorStart = m.survivorStart /\ k.freeStart = m.freeStart
      /\ k.rememberedSet = m.rememberedSet /\ k.mournQueue = m.mournQueue
      /\ k.permToNew = m.permToNew /\ k.permToOld = m.permToOld
      /\ k.weakList = <<>> /\ k.ephemeronList = <<>> /\ k.ephemerons = 0
  BY <1>1, StartingFacts
<1>3. n = StrategizeToLimitRememberedSet(k)
  OBVIOUS
<1> HIDE DEF k
<1>4. CASE ~(k.criterion = "ByAge" /\ Len(k.rememberedSet) >= RedZone)
  <2>1. n = k
    BY <1>3, <1>4 DEF StrategizeToLimitRememberedSet
  <2> QED
    BY <1>2, <2>1 DEF Started, Cell
<1>5. CASE k.criterion = "ByAge" /\ Len(k.rememberedSet) >= RedZone
  <2> DEFINE count == [a \in 1 .. OldStart - 1 |-> ReferenceCount(k, a)]
             h == [a \in Addresses |-> IF a \in DOMAIN count
                                       THEN [k.heap[a] EXCEPT !.bits = count[a]] ELSE k.heap[a]]
             c == RefCountToShrinkRT(count)
  <2>1. n = [k EXCEPT !.criterion = "ToShrinkRT", !.shrinkCount = c, !.heap = h]
    BY <1>3, <1>5 DEF StrategizeToLimitRememberedSet
  <2>2. RSize(k) \in Nat /\ k.rememberedSet \in Seq(OldAddresses) /\ k.heap \in [Addresses -> Cells]
    BY <1>2, Fields, InRange DEF RSize
  <2>3. OldStart - 1 \in Nat /\ \A a \in Addresses : a \in 1 .. OldStart - 1 <=> IsYoung(a)
    BY Layout DEF IsYoung
  <2>4. /\ count \in [1 .. OldStart - 1 -> 0 .. MaxRTRefCount]
        /\ \A a \in 1 .. OldStart - 1 : count[a] = ReferenceCount(k, a)
    BY <2>2, ReferenceCountFits
  <2> HIDE DEF count
  <2>5. c \in Nat
    BY <2>3, <2>4, RefCountFits
  <2>6. DOMAIN count = 1 .. OldStart - 1
    BY <2>4
  <2>7. ASSUME NEW a \in Addresses
        PROVE  /\ h[a] \in Cells /\ h[a].kind = m.heap[a].kind /\ h[a].slots = m.heap[a].slots
               /\ ~IsYoung(a) => h[a] = m.heap[a]
               /\ IsYoung(a) => h[a].bits = ReferenceCount(k, a)
    <3>0. k.heap[a] \in Cells
      BY <2>2
    <3>1. CASE IsYoung(a)
      <4>1. a \in DOMAIN count /\ count[a] \in 0 .. MaxRTRefCount /\ count[a] = ReferenceCount(k, a)
        BY <2>3, <2>4, <2>6, <3>1
      <4>2. h[a] = [k.heap[a] EXCEPT !.bits = count[a]]
        BY <4>1
      <4> HIDE DEF h
      <4> QED
        BY <1>2, <3>0, <3>1, <4>1, <4>2 DEF Cells
    <3>2. CASE ~IsYoung(a)
      <4>1. a \notin DOMAIN count
        BY <2>3, <2>6, <3>2
      <4>2. h[a] = k.heap[a]
        BY <4>1
      <4> QED
        BY <1>2, <3>0, <3>2, <4>2
    <3> QED
      BY <3>1, <3>2
  <2>8. h \in [Addresses -> Cells]
    BY <2>7
  <2> HIDE DEF h, c
  <2>9. /\ n \in Memories /\ n.heap = h /\ n.criterion = "ToShrinkRT"
        /\ n.past = k.past /\ n.survivorStart = k.survivorStart /\ n.freeStart = k.freeStart
        /\ n.rememberedSet = k.rememberedSet /\ n.mournQueue = k.mournQueue
        /\ n.permToNew = k.permToNew /\ n.permToOld = k.permToOld
        /\ n.weakList = k.weakList /\ n.ephemeronList = k.ephemeronList /\ n.ephemerons = k.ephemerons
    BY ZenonT(60), <1>2, <2>1, <2>5, <2>8 DEF Memories
  <2>10. ASSUME NEW a \in Addresses, IsKind(m, a, "free") PROVE ReferenceCount(k, a) = 0
    <3>1. ASSUME NEW p \in 1 .. RSize(k), NEW i \in DOMAIN Cell(k, k.rememberedSet[p]).slots
          PROVE  Slot(k, k.rememberedSet[p], i) # a
      <4> DEFINE r == k.rememberedSet[p]
      <4>1. r \in Addresses
        <5>1. r \in OldAddresses
          BY <2>2, InRange DEF RSize
        <5> QED
          BY Zenon, <5>1, Layout
      <4>2. CellOK(m, r) /\ DOMAIN Cell(m, r).slots = SlotIndices(m, r)
        BY <1>1, <4>1, CellFields DEF HeapOK
      <4>3. Cell(k, r) = Cell(m, r) /\ Slot(k, r, i) = Slot(m, r, i)
        BY <1>2 DEF Cell, Slot
      <4>4. Ref(m, Slot(m, r, i))
        BY <4>2, <4>3 DEF CellOK
      <4>5. a # Nil
        BY Layout DEF Nil
      <4> QED
        BY <2>10, <4>3, <4>4, <4>5 DEF Ref, Used
    <3> QED
      BY Zenon, <2>2, <3>1, NoReferences
  <2> QED
    BY <1>2, <2>7, <2>9, <2>10 DEF Started
<1> QED
  BY <1>4, <1>5

\* The start of a scavenge leaves the heap in order: reference counts are written on young objects only.
LEMMA StartedHeapOK ==
    ASSUME NEW m, HeapOK(m), m.survivorStart = FutureStart(m),
           \A x \in Addresses : ~IsKind(m, x, "forwarded"),
           \A x \in Addresses : IsYoung(x) => Cell(m, x).bits = 0,
           NEW n, Started(m, n)
    PROVE  /\ HeapOK(n) /\ Objects(n) = Objects(m)
           /\ FutureStart(n) = FutureStart(m)
           /\ \A x : InSource(n, x) <=> InSource(m, x)
           /\ \A x : Used(n, x) <=> Used(m, x)
           /\ \A x : Ref(n, x) <=> Ref(m, x)
           /\ \A x \in Addresses : \A kind : IsKind(n, x, kind) <=> IsKind(m, x, kind)
           /\ \A x \in Addresses : \A i : Slot(n, x, i) = Slot(m, x, i)
           /\ \A x \in Addresses : Size(n, x) = Size(m, x) /\ SlotIndices(n, x) = SlotIndices(m, x)
           /\ \A x : ~InFuture(n, x)
           /\ \A x : Live(n, x) => ~IsYoung(x)
<1>1. /\ n \in Memories
      /\ n.past = m.past /\ n.survivorStart = m.survivorStart /\ n.freeStart = m.freeStart
      /\ \A x \in Addresses : n.heap[x].kind = m.heap[x].kind /\ n.heap[x].slots = m.heap[x].slots
      /\ \A x \in Addresses : ~IsYoung(x) => n.heap[x] = m.heap[x]
      /\ \A x \in Addresses : IsYoung(x) =>
            n.heap[x].bits = 0 \/ (~IsKind(m, x, "free") /\ n.criterion = "ToShrinkRT")
  BY DEF Started
<1>2. /\ FutureStart(n) = FutureStart(m) /\ FutureLimit(n) = FutureLimit(m)
      /\ \A x : InSource(n, x) <=> InSource(m, x)
  BY <1>1, SameSpaces
<1>3. /\ \A x \in Addresses : \A kind : IsKind(n, x, kind) <=> IsKind(m, x, kind)
      /\ \A x \in Addresses : \A i : Slot(n, x, i) = Slot(m, x, i)
      /\ \A x \in Addresses : Size(n, x) = Size(m, x) /\ SlotIndices(n, x) = SlotIndices(m, x)
  BY <1>1 DEF IsKind, Slot, Size, SlotIndices, Cell
<1>4. /\ \A x : Used(n, x) <=> Used(m, x)
      /\ \A x : Ref(n, x) <=> Ref(m, x)
  BY <1>3 DEF Used, Ref
<1>5. m \in Memories /\ FutureStart(m) \in Nat /\ \A x \in Addresses : CellOK(m, x)
  BY Future DEF HeapOK
<1>6. \A x : ~InFuture(n, x)
  BY <1>1, <1>2, <1>5 DEF InFuture
<1>7. ASSUME NEW x \in Addresses, IsYoung(x), ~InSource(m, x) PROVE IsKind(m, x, "free")
  <2>1. x \in m.survivorStart .. FutureLimit(m) - 1
    BY <1>7 DEF InSource
  <2> QED
    BY <1>5, <2>1 DEF CellOK
<1>8. Objects(n) = Objects(m)
  <2>1. 1 .. PermStart - 1 \subseteq Addresses
    BY Layout
  <2> QED
    BY <1>1, <2>1 DEF Objects, Cell
<1>9. ASSUME NEW x \in Addresses PROVE CellOK(n, x)
  <2>1. CellOK(m, x) /\ ~IsKind(m, x, "forwarded")
    BY <1>5
  <2>2. IsYoung(x) => Cell(n, x).bits = 0 \/ (InSource(n, x) /\ n.criterion = "ToShrinkRT")
    BY <1>1, <1>2, <1>7 DEF Cell
  <2>3. Cell(n, x).bits \in {0, 1} \/ InSource(n, x)
    <3>1. CASE IsYoung(x)
      BY <2>2, <3>1
    <3>2. CASE ~IsYoung(x)
      <4>1. Cell(n, x) = Cell(m, x)
        BY <1>1, <3>2 DEF Cell
      <4> QED
        BY <1>2, <2>1, <4>1 DEF CellOK
    <3> QED
      BY <3>1, <3>2
  <2> QED
    BY <1>1, <1>2, <1>3, <1>4, <1>6, <2>1, <2>2, <2>3 DEF CellOK
<1>10. HeapOK(n)
  BY <1>1, <1>2, <1>8, <1>9 DEF HeapOK
<1>11. \A x : Live(n, x) => ~IsYoung(x)
  BY <1>2, <1>3, <1>7 DEF Live, Used
<1> QED
  BY <1>2, <1>3, <1>4, <1>6, <1>8, <1>10, <1>11

\* At the start of the loop every remembered object is to be scanned.
LEMMA StartedLoop ==
    ASSUME Inv, pc = "mutator", NEW n, Started(mem, n), NEW no, ~no,
           NEW P, P = 1 .. RSize(n)
    PROVE  Loop(n, P, n.survivorStart, P, {}, no, P, {}, {})
<1>1. /\ HeapOK(mem) /\ mem \in Memories /\ SetsOK(mem, 1 .. RSize(mem))
      /\ mem.survivorStart = FutureStart(mem)
      /\ \A x \in Addresses : ~IsKind(mem, x, "forwarded")
      /\ \A x \in Addresses : IsYoung(x) => Cell(mem, x).bits = 0
  BY MutatorFacts
<1>2. /\ HeapOK(n) /\ FutureStart(n) = FutureStart(mem)
      /\ \A x : Used(n, x) <=> Used(mem, x)
      /\ \A x : ~InFuture(n, x)
      /\ \A x : Live(n, x) => ~IsYoung(x)
  BY <1>1, StartedHeapOK
<1>3. /\ n \in Memories /\ n.rememberedSet = mem.rememberedSet /\ n.survivorStart = mem.survivorStart
      /\ n.permToNew = mem.permToNew /\ n.permToOld = mem.permToOld
      /\ n.weakList = <<>> /\ n.ephemeronList = <<>>
      /\ \A x \in Addresses : ~IsYoung(x) => n.heap[x] = mem.heap[x]
  BY DEF Started
<1>4. SetsOK(n, P)
  BY <1>1, <1>3, SetsSame
<1>5. RSize(n) = Len(n.rememberedSet) /\ n.survivorStart \in FutureStart(n) .. n.survivorStart
  <2>1. FutureStart(mem) \in Nat
    BY <1>1, Future
  <2> QED
    BY <1>1, <1>2, <1>3, <2>1 DEF RSize
<1>6. ASSUME NEW a \in Addresses, Live(n, a), ~AllSettled(n, a)
      PROVE  (\E p \in P : n.rememberedSet[p] = a) \/ (IsPerm(a) /\ Remembered(n, a))
  <2>1. Used(n, a) /\ ~IsYoung(a)
    BY <1>2, <1>6 DEF Live
  <2>2. HasYoungReferents(n, a)
    <3>1. RefersToYoung(n, a)
      BY <1>6 DEF AllSettled, Settled, RefersToYoung
    <3> QED
      BY <1>3, <3>1, YoungReferents
  <2>3. CASE a \in OldAddresses
    <3>1. Remembered(n, a)
      BY <1>4, <2>1, <2>2, <2>3 DEF SetsOK, InSet
    <3> QED
      BY <1>4, <2>1, <2>3, <3>1 DEF SetsOK, InSet
  <2>4. CASE a \in PermAddresses
    <3>1. Remembered(n, a) /\ IsPerm(a)
      BY <1>4, <2>1, <2>2, <2>4, Layout DEF SetsOK, InSet
    <3> QED
      BY <3>1
  <2>5. a \in OldAddresses \/ a \in PermAddresses
    BY <2>1, Layout
  <2> QED
    BY <2>3, <2>4, <2>5
<1>7. ASSUME NEW a \in Addresses, Live(n, a), AllSettled(n, a) PROVE Done(n, a)
  <2>1. StrongSlots(Cell(n, a).kind, Size(n, a)) \subseteq SlotIndices(n, a)
    <3>1. IsKind(n, a, "weak") => Size(n, a) >= 1
      BY <1>2 DEF HeapOK, CellOK
    <3>2. Size(n, a) \in Nat
      BY <1>3, CellFields
    <3> QED
      BY <3>1, <3>2 DEF StrongSlots, SlotIndices, IsKind, Cell, WeakFixed
  <2> QED
    BY <1>7, <2>1 DEF Done, AllSettled
<1>8. Covered(n, n.survivorStart, P, {}, no)
  BY <1>6, <1>7 DEF Covered
<1>9. UnfiredListed(n, {})
  BY <1>2 DEF UnfiredListed
<1>10. WeakHeld(n, P)
  <2> SUFFICES ASSUME NEW a \in Addresses, Live(n, a), IsKind(n, a, "weak"), ~AllSettled(n, a)
               PROVE  \E p \in P : n.rememberedSet[p] = a
    BY DEF WeakHeld
  <2>1. ~IsPerm(a)
    BY <1>2 DEF HeapOK, CellOK
  <2> QED
    BY <1>6, <2>1
<1>11. CorpsesOK(n, {})
  BY <1>3, NoRange DEF CorpsesOK
<1>12. EphemeronsOK(n, {}) /\ Kept(n, {})
  BY DEF EphemeronsOK, Kept
<1>13. Range(n.ephemeronList) \subseteq {}
  BY <1>3, NoRange
<1> QED
  BY <1>2, <1>4, <1>5, <1>8, <1>9, <1>10, <1>11, <1>12, <1>13 DEF Loop

\* The step Scavenge preserves the invariant.
LEMMA ScavengeInv ==
    ASSUME Inv, NEW held, NEW criterion \in Criteria, Scavenge(held, criterion)
    PROVE  Inv'
<1> DEFINE n == StrategizeToLimitRememberedSet(StartingLoop(mem, criterion))
           w == [Place EXCEPT !.previous = mem.survivorStart, !.firstTime = TRUE]
           rs == [i \in DOMAIN roots |-> IF roots[i] \in held THEN roots[i] ELSE Nil]
           P == 1 .. RSize(n)
<1>1. /\ pc = "mutator" /\ scavenges > 0 /\ mem' = n /\ roots' = rs /\ pc' = "remembered" /\ at' = w
      /\ scavenges' = scavenges - 1 /\ births' = births /\ stores' = stores
  BY DEF Scavenge
<1>2. /\ HeapOK(mem) /\ mem \in Memories
      /\ roots \in Seq(Oops) /\ \A i \in DOMAIN roots : Ref(mem, roots[i])
      /\ \A i \in DOMAIN mem.mournQueue :
            Used(mem, mem.mournQueue[i]) /\ ~IsKind(mem, mem.mournQueue[i], "ephemeron")
      /\ mem.survivorStart = FutureStart(mem)
      /\ \A x \in Addresses : ~IsKind(mem, x, "forwarded")
      /\ \A x \in Addresses : IsYoung(x) => Cell(mem, x).bits = 0
      /\ stores \in Nat /\ scavenges \in Nat
  BY <1>1, MutatorFacts
<1>3. Started(mem, n)
  BY <1>2, StartedFacts
<1>4. mem.survivorStart \in Nat
  BY <1>2, Fields
<1>5. /\ w \in Walks /\ w.i = 1 /\ w.dest = 1 /\ w.previous = mem.survivorStart
      /\ w.firstTime = TRUE /\ w.todo = <<>> /\ w.kept = <<>>
  BY Zenon, <1>4, PlaceFields DEF Walks
<1>6. /\ rs \in Seq(Oops) /\ \A i \in DOMAIN rs : Ref(mem, rs[i])
  <2>1. DOMAIN roots = 1 .. Len(roots) /\ Len(roots) \in Nat
    BY <1>2, InRange
  <2>2. \A i \in DOMAIN roots : roots[i] \in Oops /\ Nil \in Oops
    BY <1>2 DEF Oops
  <2>3. rs \in Seq(Oops)
    BY <2>1, <2>2
  <2>4. DOMAIN rs = DOMAIN roots /\ \A i \in DOMAIN roots : rs[i] = roots[i] \/ rs[i] = Nil
    OBVIOUS
  <2> HIDE DEF rs
  <2> QED
    BY <1>2, <2>3, <2>4 DEF Ref
<1> HIDE DEF n, w, rs, P
<1>7. /\ HeapOK(n) /\ Objects(n) = Objects(mem) /\ FutureStart(n) = FutureStart(mem)
      /\ \A x : Used(n, x) <=> Used(mem, x)
      /\ \A x : Ref(n, x) <=> Ref(mem, x)
      /\ \A x \in Addresses : \A kind : IsKind(n, x, kind) <=> IsKind(mem, x, kind)
  BY <1>2, <1>3, StartedHeapOK
<1>8. n.ephemerons = 0 /\ n.ephemeronList = <<>> /\ n.survivorStart = mem.survivorStart
      /\ n.mournQueue = mem.mournQueue
  BY <1>3 DEF Started
<1>9. RSize(n) \in Nat /\ FutureStart(n) \in Nat /\ n.survivorStart = FutureStart(n)
  <2>1. n \in Memories
    BY <1>7 DEF HeapOK
  <2> QED
    BY <1>2, <1>7, <1>8, <2>1, Fields, InRange, Future DEF RSize
<1>10. ~MappedAt("remembered", w)
  BY <1>5 DEF MappedAt
<1>11. Loop(n, P, n.survivorStart, P, {}, MappedAt("remembered", w), P, {}, {})
  BY <1>1, <1>3, <1>10, StartedLoop DEF P
<1>12. Numbers(n, "remembered", w)
  BY <1>5, <1>8, <1>9 DEF Numbers, Pcs, Walking, Ends
<1>13. /\ Positions(n, "remembered", w) = P
       /\ Unscanned(n, "remembered", w) = P
       /\ EphemeronsAt(n, "remembered", w) = {}
       /\ CorpsesAt(n, w) = {}
       /\ FromAt(n, "remembered", w) = n.survivorStart
       /\ WeakAt(n, "remembered", w) = P
  BY <1>5, <1>8, <1>9, NoRange DEF Positions, Unscanned, EphemeronsAt, CorpsesAt, FromAt, WeakAt, Ends, P
<1>14. Held(n, rs, FALSE)
  <2>1. \A i \in DOMAIN rs : Ref(n, rs[i])
    BY <1>6, <1>7
  <2>2. \A x \in Addresses : ~IsKind(n, x, "forwarded")
    BY <1>2, <1>7
  <2>3. \A i \in DOMAIN n.mournQueue :
           Used(n, n.mournQueue[i]) /\ ~IsKind(n, n.mournQueue[i], "ephemeron")
    BY <1>2, <1>7, <1>8 DEF Used
  <2> QED
    BY Zenon, <1>6, <2>1, <2>2, <2>3, HeldUnmapped
<1>15. Held(n, rs, MappedAt("remembered", w))
  BY <1>10, <1>14 DEF Held
<1>16. Scavenging(n, "remembered", w, rs)
  <2>1. P \cup {} = P /\ P \ P = {}
    OBVIOUS
  <2> QED
    BY Zenon, <1>11, <1>12, <1>13, <1>15, <2>1 DEF Scavenging
<1>17. Bounded(n, births')
  BY <1>1, <1>7 DEF Inv, Bounded
<1> QED
  BY <1>1, <1>2, <1>16, <1>17 DEF Inv

\* Where an image has put what it starts with, and what it has put there.
InEdenOf(image) == EdenStart .. EdenStart + Len(image.eden) - 1
InOldOf(image) == OldStart .. OldStart + Len(image.old) - 1
FirstCell(image, a) ==
    IF a - OldStart + 1 \in DOMAIN image.old /\ IsOld(a)
    THEN Object(image.old[a - OldStart + 1])
    ELSE IF a - PermStart + 1 \in DOMAIN image.perm
    THEN Object(image.perm[a - PermStart + 1])
    ELSE IF a - EdenStart + 1 \in DOMAIN image.eden
    THEN image.eden[a - EdenStart + 1] ELSE Free

\* What is put at a, of an image with eden E and old objects O.
FirstCellOK(E, O, a, c) ==
    /\ c \in Cells /\ c.bits = 0 /\ c.kind # "forwarded"
    /\ c.kind = "free" => Len(c.slots) = 0
    /\ c.kind \in {"ephemeron", "weak"} => Len(c.slots) >= 1 /\ ~IsPerm(a)
    /\ \A i \in 1 .. Len(c.slots) : c.slots[i] = Nil \/ (IsYoung(a) /\ c.slots[i] \in E)
    /\ a \in E => c.kind # "free"
    /\ IsYoung(a) /\ c.kind # "free" => a \in E
    /\ IsOld(a) /\ c.kind # "free" => a \in O

\* A sequence of the image, and what it says of its members.
LEMMA ImageFacts ==
    ASSUME NEW image \in Images
    PROVE  /\ image.old \in Seq(DOMAIN Slots) /\ image.births \in Seq(DOMAIN Slots)
           /\ image.perm \in Seq(DOMAIN Slots \ {"weak", "ephemeron"})
           /\ image.eden \in Seq([kind : DOMAIN Slots, bits : {0}, slots : Seq(InEdenOf(image) \cup {Nil})])
           /\ \A i \in DOMAIN image.eden : Len(image.eden[i].slots) = Slots[image.eden[i].kind]
           /\ image.stores \in Nat /\ image.scavenges \in Nat
           /\ Len(image.perm) <= Perm /\ Len(image.eden) <= Eden
           /\ Len(image.old) + Len(image.eden) + Len(image.births) <= Old
           /\ Len(image.old) \in Nat /\ Len(image.eden) \in Nat /\ Len(image.births) \in Nat
           /\ Len(image.perm) \in Nat
           /\ DOMAIN image.old = 1 .. Len(image.old) /\ DOMAIN image.eden = 1 .. Len(image.eden)
           /\ DOMAIN image.perm = 1 .. Len(image.perm)
           /\ InEdenOf(image) \subseteq Addresses
<1>1. /\ image.old \in Seq(DOMAIN Slots) /\ image.births \in Seq(DOMAIN Slots)
      /\ image.perm \in Seq(DOMAIN Slots \ {"weak", "ephemeron"})
      /\ image.eden \in Seq([kind : DOMAIN Slots, bits : {0}, slots : Seq(InEdenOf(image) \cup {Nil})])
      /\ \A i \in DOMAIN image.eden : Len(image.eden[i].slots) = Slots[image.eden[i].kind]
      /\ image.stores \in Nat /\ image.scavenges \in Nat
      /\ Len(image.perm) <= Perm /\ Len(image.eden) <= Eden
      /\ Len(image.old) + Len(image.eden) + Len(image.births) <= Old
  BY Zenon, ImagesAssumption DEF InEdenOf
<1>2. /\ Len(image.old) \in Nat /\ Len(image.eden) \in Nat /\ Len(image.births) \in Nat
      /\ Len(image.perm) \in Nat
      /\ DOMAIN image.old = 1 .. Len(image.old) /\ DOMAIN image.eden = 1 .. Len(image.eden)
      /\ DOMAIN image.perm = 1 .. Len(image.perm)
  BY <1>1, LenProperties
<1>3. InEdenOf(image) \subseteq Addresses
  <2> DEFINE n == Len(image.eden)
  <2>1. n \in Nat /\ n <= Eden
    BY <1>1, <1>2
  <2> HIDE DEF n
  <2>2. InEdenOf(image) = EdenStart .. EdenStart + n - 1
    BY DEF InEdenOf, n
  <2>3. OldStart = EdenStart + Eden /\ EdenStart >= 1
    BY SizesAssumption DEF OldStart, EdenStart
  <2> QED
    BY <2>1, <2>2, <2>3, Layout
<1> QED
  BY Zenon, <1>1, <1>2, <1>3

\* The cells of an image.
LEMMA FirstCellFacts ==
    ASSUME NEW image \in Images, NEW a \in Addresses
    PROVE  FirstCellOK(InEdenOf(image), InOldOf(image), a, FirstCell(image, a))
<1> DEFINE c == FirstCell(image, a)
<1>1. a \in Nat /\ OldStart \in Nat /\ PermStart \in Nat /\ EdenStart \in Nat /\ Eden \in Nat
      /\ OldStart = EdenStart + Eden /\ PermStart >= OldStart
      /\ EdenStart >= 1 /\ a >= 1
  BY SizesAssumption DEF Addresses, PermStart, OldStart, EdenStart
<1> DEFINE old == image.old  perm == image.perm  eden == image.eden
           E == InEdenOf(image)  o == Len(old)  p == Len(perm)  e == Len(eden)
<1>6. /\ o \in Nat /\ p \in Nat /\ e \in Nat /\ e <= Eden
      /\ DOMAIN old = 1 .. o /\ DOMAIN perm = 1 .. p /\ DOMAIN eden = 1 .. e
      /\ E = EdenStart .. EdenStart + e - 1 /\ InOldOf(image) = OldStart .. OldStart + o - 1
  BY Zenon, ImageFacts DEF InEdenOf, InOldOf
<1>7. \A j \in 1 .. o : old[j] \in DOMAIN Slots
  BY Zenon, ImageFacts, ElementOfSeq
<1>8. \A j \in 1 .. p : perm[j] \in DOMAIN Slots \ {"weak", "ephemeron"}
  BY Zenon, ImageFacts, ElementOfSeq
<1>9. \A j \in 1 .. e : eden[j] \in [kind : DOMAIN Slots, bits : {0}, slots : Seq(E \cup {Nil})]
  BY Zenon, ImageFacts, ElementOfSeq
<1>10. \A j \in 1 .. e : Len(eden[j].slots) = Slots[eden[j].kind]
  BY Zenon, <1>6, ImageFacts
<1>11. E \cup {Nil} \subseteq Oops
  BY Zenon, ImageFacts DEF Oops
<1> HIDE DEF old, perm, eden, E, o, p, e
<1>12. FirstCell(image, a) =
          IF a - OldStart + 1 \in DOMAIN old /\ IsOld(a) THEN Object(old[a - OldStart + 1])
          ELSE IF a - PermStart + 1 \in DOMAIN perm THEN Object(perm[a - PermStart + 1])
          ELSE IF a - EdenStart + 1 \in DOMAIN eden THEN eden[a - EdenStart + 1] ELSE Free
  BY DEF FirstCell, old, perm, eden
<1> HIDE DEF c
<1>2. CASE a - OldStart + 1 \in DOMAIN old /\ IsOld(a)
  <2>1. old[a - OldStart + 1] \in DOMAIN Slots
    BY <1>2, <1>6, <1>7
  <2>2. c = Object(old[a - OldStart + 1])
    BY <1>2, <1>12 DEF c
  <2> DEFINE kind == old[a - OldStart + 1]
  <2>3. /\ c \in Cells /\ c.kind = kind /\ c.bits = 0
        /\ kind \notin {"free", "forwarded"}
        /\ Len(c.slots) = Slots[kind]
        /\ \A i \in 1 .. Slots[kind] : c.slots[i] = Nil
        /\ kind \in {"ephemeron", "weak"} => Slots[kind] >= 1
    BY <2>1, <2>2, ObjectFacts
  <2>4. a \in InOldOf(image) /\ ~IsPerm(a) /\ ~IsYoung(a)
    BY <1>1, <1>2, <1>6 DEF IsOld, IsPerm, IsYoung
  <2> QED
    BY <2>3, <2>4 DEF FirstCellOK, c, E
<1>3. CASE ~(a - OldStart + 1 \in DOMAIN old /\ IsOld(a)) /\ a - PermStart + 1 \in DOMAIN perm
  <2>1. perm[a - PermStart + 1] \in DOMAIN Slots \ {"weak", "ephemeron"}
    BY <1>3, <1>6, <1>8
  <2>2. c = Object(perm[a - PermStart + 1])
    BY <1>3, <1>12 DEF c
  <2> DEFINE kind == perm[a - PermStart + 1]
  <2>3. /\ c \in Cells /\ c.kind = kind /\ c.bits = 0
        /\ kind \notin {"free", "forwarded"}
        /\ Len(c.slots) = Slots[kind]
        /\ \A i \in 1 .. Slots[kind] : c.slots[i] = Nil
    BY <2>1, <2>2, ObjectFacts
  <2>4. IsPerm(a) /\ ~IsYoung(a) /\ ~IsOld(a)
    BY <1>1, <1>3, <1>6 DEF IsOld, IsPerm, IsYoung
  <2>5. kind \notin {"ephemeron", "weak"}
    BY <2>1
  <2> QED
    BY <2>3, <2>4, <2>5 DEF FirstCellOK, c, E
<1>4. CASE /\ ~(a - OldStart + 1 \in DOMAIN old /\ IsOld(a)) /\ ~(a - PermStart + 1 \in DOMAIN perm)
           /\ a - EdenStart + 1 \in DOMAIN eden
  <2> DEFINE i == a - EdenStart + 1
  <2>1. eden[i] \in [kind : DOMAIN Slots, bits : {0}, slots : Seq(E \cup {Nil})]
    BY Zenon, <1>4, <1>6, <1>9
  <2>2. c = eden[i]
    BY <1>4, <1>12 DEF c
  <2>3. a \in E /\ IsYoung(a) /\ ~IsOld(a) /\ ~IsPerm(a)
    BY <1>1, <1>4, <1>6 DEF IsOld, IsPerm, IsYoung
  <2>4. /\ c.kind \in DOMAIN Slots /\ c.bits = 0 /\ c.slots \in Seq(E \cup {Nil})
        /\ c = [kind |-> c.kind, bits |-> c.bits, slots |-> c.slots]
    BY <2>1, <2>2
  <2>5. Len(c.slots) = Slots[c.kind]
    BY <1>4, <1>6, <1>10, <2>2
    <2>6. c.kind \notin {"free", "forwarded"} /\ c.kind \in Kinds
        /\ (c.kind \in {"ephemeron", "weak"} => Slots[c.kind] >= 1)
    BY <2>4, SlotsAssumption DEF Kinds, WeakFixed
  <2>8. c.slots \in Seq(Oops)
    BY <1>11, <2>4, SeqDef
  <2>9. c \in Cells
    <3>1. 0 \in 0 .. MaxRTRefCount
      BY DEF MaxRTRefCount
    <3> QED
      BY <2>4, <2>6, <2>8, <3>1 DEF Cells
  <2>10. \A j \in 1 .. Len(c.slots) : c.slots[j] = Nil \/ c.slots[j] \in E
    BY <2>4
  <2> QED
    BY <2>3, <2>4, <2>5, <2>6, <2>9, <2>10 DEF FirstCellOK, c, E
<1>5. CASE /\ ~(a - OldStart + 1 \in DOMAIN old /\ IsOld(a)) /\ ~(a - PermStart + 1 \in DOMAIN perm)
           /\ ~(a - EdenStart + 1 \in DOMAIN eden)
  <2>1. c = Free
    BY <1>5, <1>12 DEF c
  <2>2. c \in Cells /\ c.bits = 0 /\ c.kind = "free" /\ Len(c.slots) = 0
    BY <2>1 DEF Free, Cells, Kinds, MaxRTRefCount
  <2>3. a \notin E
    BY <1>1, <1>5, <1>6
  <2> QED
    BY <2>2, <2>3 DEF FirstCellOK, c, E
<1> QED
  BY <1>2, <1>3, <1>4, <1>5

\* The memory of an image before it has run.
FirstMemory(E, O, e, m) ==
    /\ m \in Memories
    /\ \A a \in Addresses : FirstCellOK(E, O, a, m.heap[a])
    /\ m.past = 1 /\ m.survivorStart = Survivor + 1 /\ m.freeStart = EdenStart + e
    /\ m.rememberedSet = <<>> /\ m.mournQueue = <<>> /\ m.permToNew = <<>> /\ m.permToOld = <<>>
    /\ m.ephemerons = 0

\* The memory, the roots and the bounds of an image.
LEMMA FirstMemoryFacts ==
    ASSUME Init
    PROVE  \E image \in Images :
              /\ FirstMemory(InEdenOf(image), InOldOf(image), Len(image.eden), mem)
              /\ births = image.births /\ stores = image.stores /\ scavenges = image.scavenges
              /\ roots = [i \in DOMAIN image.eden |-> EdenStart + i - 1]
<1> DEFINE First(image) ==
              [heap |-> [a \in Addresses |-> FirstCell(image, a)],
               past |-> 1, survivorStart |-> Survivor + 1,
               freeStart |-> EdenStart + Len(image.eden),
               rememberedSet |-> <<>>, previousSize |-> 0, ephemerons |-> 0,
               weakList |-> <<>>, ephemeronList |-> <<>>, mournQueue |-> <<>>,
               permToNew |-> <<>>, permToOld |-> <<>>, finalizations |-> 0,
               criterion |-> "ByAge", threshold |-> 0, shrinkCount |-> 0]
<1>1. PICK image \in Images :
         /\ mem = First(image)
         /\ births = image.births /\ stores = image.stores /\ scavenges = image.scavenges
         /\ roots = [i \in DOMAIN image.eden |-> EdenStart + i - 1]
  BY Zenon DEF Init, FirstCell
<1> DEFINE h == [a \in Addresses |-> FirstCell(image, a)]
           E == InEdenOf(image)  O == InOldOf(image)
<1>2. \A a \in Addresses : FirstCellOK(E, O, a, FirstCell(image, a))
  BY FirstCellFacts
<1>3. \A a \in Addresses : FirstCell(image, a) \in Cells
  BY <1>2 DEF FirstCellOK
<1>4. h \in [Addresses -> Cells] /\ \A a \in Addresses : FirstCellOK(E, O, a, h[a])
  BY <1>2, <1>3
<1>5. EdenStart + Len(image.eden) \in Nat /\ Survivor + 1 \in Nat
  <2>1. Len(image.eden) \in Nat
    BY ImageFacts
  <2>2. EdenStart \in Nat /\ Survivor \in Nat
    BY Zenon, Layout, SizesAssumption
  <2> QED
    BY ONLY <2>1, <2>2
<1>6. /\ mem = [heap |-> h,
               past |-> 1, survivorStart |-> Survivor + 1,
               freeStart |-> EdenStart + Len(image.eden),
               rememberedSet |-> <<>>, previousSize |-> 0, ephemerons |-> 0,
               weakList |-> <<>>, ephemeronList |-> <<>>, mournQueue |-> <<>>,
               permToNew |-> <<>>, permToOld |-> <<>>, finalizations |-> 0,
               criterion |-> "ByAge", threshold |-> 0, shrinkCount |-> 0]
  BY <1>1
<1> HIDE DEF h, First, E, O
<1>7. <<>> \in Seq(OldAddresses) /\ <<>> \in Seq(Addresses) /\ <<>> \in Seq(PermAddresses)
  OBVIOUS
<1>8. mem \in Memories
  BY ONLY <1>4, <1>5, <1>6, <1>7 DEF Memories
<1>9. /\ mem.heap = h /\ mem.past = 1 /\ mem.survivorStart = Survivor + 1
      /\ mem.freeStart = EdenStart + Len(image.eden)
      /\ mem.rememberedSet = <<>> /\ mem.mournQueue = <<>> /\ mem.permToNew = <<>> /\ mem.permToOld = <<>>
      /\ mem.ephemerons = 0
  BY <1>6
<1>10. FirstMemory(E, O, Len(image.eden), mem)
  BY <1>4, <1>8, <1>9 DEF FirstMemory
<1> QED
  BY <1>1, <1>10 DEF E, O

\* What Inv needs of it.
FirstInOrder(E, size, m) ==
    /\ HeapOK(m) /\ SetsOK(m, 1 .. RSize(m)) /\ Cardinality(Objects(m)) <= size
    /\ Cardinality(Objects(m)) \in Nat
    /\ m.survivorStart = FutureStart(m)
    /\ \A a \in Addresses : ~IsKind(m, a, "forwarded")
    /\ \A a \in Addresses : IsYoung(a) => Cell(m, a).bits = 0
    /\ \A a \in m.freeStart .. OldStart - 1 : IsKind(m, a, "free")
    /\ \A a \in E : Used(m, a)

\* It is in order.
LEMMA FirstHeapOK ==
    ASSUME NEW o \in Nat, NEW e \in Nat, o + e <= Old, e <= Eden,
           NEW E, E = EdenStart .. EdenStart + e - 1, NEW O, O = OldStart .. OldStart + o - 1,
           NEW m, FirstMemory(E, O, e, m)
    PROVE  FirstInOrder(E, o + e, m)
<1>1. /\ m \in Memories /\ m.past = 1 /\ m.survivorStart = Survivor + 1 /\ m.freeStart = EdenStart + e
      /\ m.rememberedSet = <<>> /\ m.permToNew = <<>> /\ m.permToOld = <<>>
  BY DEF FirstMemory
<1>2. FutureStart(m) = Survivor + 1 /\ FutureLimit(m) = EdenStart /\ EdenStart \in Nat /\ Survivor \in Nat
  BY <1>1, Layout DEF FutureStart, FutureLimit
<1>3. OldStart = EdenStart + Eden /\ OldStart \in Nat /\ PermStart = OldStart + Old /\ Old \in Nat
  BY Layout DEF OldStart
<1>4. \A a : ~InFuture(m, a)
  BY <1>1, <1>2 DEF InFuture
<1>5. E \subseteq Addresses
  BY <1>2, <1>3, Layout
<1>6. ASSUME NEW a \in Addresses
      PROVE  /\ Cell(m, a).bits = 0 /\ ~IsKind(m, a, "forwarded")
             /\ IsKind(m, a, "free") => Size(m, a) = 0
             /\ IsKind(m, a, "ephemeron") \/ IsKind(m, a, "weak") => Size(m, a) >= 1 /\ ~IsPerm(a)
             /\ \A i \in SlotIndices(m, a) : Slot(m, a, i) = Nil \/ (IsYoung(a) /\ Slot(m, a, i) \in E)
             /\ a \in E => ~IsKind(m, a, "free")
             /\ IsYoung(a) /\ ~IsKind(m, a, "free") => a \in E
             /\ IsOld(a) /\ ~IsKind(m, a, "free") => a \in O
  <2>1. FirstCellOK(E, O, a, Cell(m, a))
    BY <1>6 DEF FirstMemory, Cell
  <2> QED
    BY <2>1 DEF FirstCellOK, Cell, IsKind, Size, Slot, SlotIndices
<1>7. \A a \in E : Used(m, a)
  BY <1>5, <1>6 DEF Used
<1>8. ASSUME NEW a \in Addresses PROVE CellOK(m, a)
  <2>1. a \in Nat /\ (IsYoung(a) <=> a < OldStart)
    BY <1>8, Layout
  <2>2. a \in m.survivorStart .. FutureLimit(m) - 1 => IsYoung(a) /\ a \notin E
    BY <1>1, <1>2, <1>3, <2>1, Layout
  <2>3. \A i \in SlotIndices(m, a) : Ref(m, Slot(m, a, i))
    BY <1>6, <1>7, <1>8 DEF Ref
  <2>4. Cell(m, a).bits \in {0, 1}
    BY <1>6, <1>8
  <2> QED
    BY <1>4, <1>6, <1>8, <2>2, <2>3, <2>4 DEF CellOK
<1>9. Cardinality(Objects(m)) <= o + e
  <2>1. Objects(m) \subseteq O \cup E
    <3> SUFFICES ASSUME NEW a \in Objects(m) PROVE a \in O \cup E
      OBVIOUS
    <3>1. a \in Addresses /\ a < PermStart /\ ~IsKind(m, a, "free")
      BY Layout DEF Objects, IsKind, Cell
    <3>2. IsYoung(a) \/ IsOld(a)
      BY <3>1, Layout
    <3> QED
      BY <1>6, <3>1, <3>2
  <2>2. IsFiniteSet(O) /\ Cardinality(O) = o
    <3>1. OldStart \in Int /\ OldStart + o - 1 \in Int
      BY <1>3
    <3>2. IsFiniteSet(O) /\ Cardinality(O) = IF OldStart > OldStart + o - 1 THEN 0
                                              ELSE OldStart + o - 1 - OldStart + 1
      BY <3>1, FS_Interval
    <3> QED
      BY <1>3, <3>2
  <2>3. IsFiniteSet(E) /\ Cardinality(E) = e
    <3>1. EdenStart \in Int /\ EdenStart + e - 1 \in Int
      BY <1>2
    <3>2. IsFiniteSet(E) /\ Cardinality(E) = IF EdenStart > EdenStart + e - 1 THEN 0
                                              ELSE EdenStart + e - 1 - EdenStart + 1
      BY <3>1, FS_Interval
    <3> QED
      BY <1>2, <3>2
  <2>4. /\ IsFiniteSet(O \cup E)
        /\ Cardinality(O \cup E) = Cardinality(O) + Cardinality(E) - Cardinality(O \cap E)
    BY Zenon, <2>2, <2>3, FS_Union
  <2>5. Cardinality(O \cap E) \in Nat
    BY Zenon, <2>2, FS_Intersection, FS_CardinalityType
  <2>6. Cardinality(Objects(m)) <= Cardinality(O \cup E)
    BY <2>1, <2>4, FS_Subset
  <2> QED
    BY <2>2, <2>3, <2>4, <2>5, <2>6, ObjectsFinite
<1>10. Cardinality(Objects(m)) \in Nat
  BY ObjectsFinite
<1>11. HeapOK(m)
  <2>1. m.survivorStart \in FutureStart(m) .. FutureLimit(m)
    BY <1>1, <1>2, Layout
  <2>2. m.freeStart \in EdenStart .. OldStart
    BY <1>1, <1>2, <1>3, Layout
  <2>3. Cardinality(Objects(m)) <= Old
    BY <1>3, <1>9, <1>10
  <2> QED
    BY <1>1, <1>8, <2>1, <2>2, <2>3 DEF HeapOK
<1>12. SetsOK(m, 1 .. RSize(m))
  <2>1. ASSUME NEW a \in Addresses, ~IsYoung(a)
        PROVE  ~Remembered(m, a) /\ ~HasYoungReferents(m, a) /\ ~RefersToOld(m, a)
    <3>1. ~Remembered(m, a)
      BY <1>6, <2>1 DEF Remembered, Cell
    <3>2. \A i \in SlotIndices(m, a) : Slot(m, a, i) = Nil
      BY <1>6, <2>1
    <3>3. DOMAIN Cell(m, a).slots = SlotIndices(m, a)
      BY <1>1, <2>1, CellFields
    <3> QED
      BY <3>1, <3>2, <3>3, Layout DEF HasYoungReferents, RefersToOld
  <2>2. \A a \in OldAddresses \cup PermAddresses : a \in Addresses /\ ~IsYoung(a)
    BY Layout
  <2>3. 1 .. RSize(m) = {} /\ 1 .. Len(m.permToNew) = {}
    BY <1>1 DEF RSize
  <2> QED
    BY Zenon, <2>1, <2>2, <2>3 DEF SetsOK, InSet
<1>13. \A a \in m.freeStart .. OldStart - 1 : IsKind(m, a, "free")
  <2> SUFFICES ASSUME NEW a \in m.freeStart .. OldStart - 1 PROVE IsKind(m, a, "free")
    OBVIOUS
  <2>1. a \in Addresses /\ a < OldStart /\ a \notin E
    BY <1>1, <1>2, <1>3, Layout
  <2> QED
    BY <1>6, <2>1, Layout
<1> QED
  BY <1>1, <1>2, <1>6, <1>7, <1>9, <1>10, <1>11, <1>12, <1>13 DEF FirstInOrder

\* The step Init preserves the invariant.
LEMMA InitInv ==
    ASSUME Init
    PROVE  Inv
<1>1. PICK image \in Images :
         /\ FirstMemory(InEdenOf(image), InOldOf(image), Len(image.eden), mem)
         /\ births = image.births /\ stores = image.stores /\ scavenges = image.scavenges
         /\ roots = [i \in DOMAIN image.eden |-> EdenStart + i - 1]
  BY FirstMemoryFacts
<1> DEFINE o == Len(image.old)  e == Len(image.eden)  b == Len(births)
           E == InEdenOf(image)  O == InOldOf(image)
<1>2. /\ o \in Nat /\ e \in Nat /\ e <= Eden /\ b \in Nat /\ o + e + b <= Old
      /\ E = EdenStart .. EdenStart + e - 1 /\ O = OldStart .. OldStart + o - 1
      /\ DOMAIN image.eden = 1 .. e
      /\ births \in Seq(DOMAIN Slots) /\ stores \in Nat /\ scavenges \in Nat
      /\ E \subseteq Addresses
  BY Zenon, <1>1, ImageFacts DEF InEdenOf, InOldOf
<1>3. FirstMemory(E, O, e, mem) /\ roots = [i \in 1 .. e |-> EdenStart + i - 1]
  BY <1>1, <1>2
<1> HIDE DEF o, e, b, E, O
<1>4. o + e <= Old
  BY <1>2, Layout
<1>14. /\ o \in Nat /\ e \in Nat /\ o + e <= Old /\ e <= Eden
       /\ E = EdenStart .. EdenStart + e - 1 /\ O = OldStart .. OldStart + o - 1
       /\ FirstMemory(E, O, e, mem)
  BY <1>2, <1>3, <1>4
<1>15. FirstInOrder(E, o + e, mem)
  BY ONLY <1>14, FirstHeapOK
<1>5. /\ HeapOK(mem) /\ SetsOK(mem, 1 .. RSize(mem)) /\ Cardinality(Objects(mem)) <= o + e
      /\ Cardinality(Objects(mem)) \in Nat
      /\ mem.survivorStart = FutureStart(mem)
      /\ \A a \in Addresses : ~IsKind(mem, a, "forwarded")
      /\ \A a \in Addresses : IsYoung(a) => Cell(mem, a).bits = 0
      /\ \A a \in mem.freeStart .. OldStart - 1 : IsKind(mem, a, "free")
      /\ \A a \in E : Used(mem, a)
  BY <1>15 DEF FirstInOrder
<1>6. \A i \in 1 .. e : EdenStart + i - 1 \in E
  <2>1. EdenStart \in Nat
    BY Layout
  <2> QED
    BY ONLY <1>2, <2>1
<1>7. roots \in Seq(Oops) /\ \A i \in DOMAIN roots : Ref(mem, roots[i])
  <2>1. \A i \in 1 .. e : EdenStart + i - 1 \in Oops
    BY <1>2, <1>6 DEF Oops
  <2>2. roots \in Seq(Oops) /\ DOMAIN roots = 1 .. e
    BY <1>2, <1>3, <2>1
  <2> QED
    BY <1>3, <1>5, <1>6, <2>2 DEF Ref
<1>8. Held(mem, roots, FALSE)
  <2>1. mem.mournQueue = <<>>
    BY <1>3 DEF FirstMemory
  <2>2. \A i \in DOMAIN mem.mournQueue :
           Used(mem, mem.mournQueue[i]) /\ ~IsKind(mem, mem.mournQueue[i], "ephemeron")
    BY <2>1
  <2>3. \A a \in Addresses : ~IsKind(mem, a, "forwarded")
    BY <1>5
  <2> QED
    BY ONLY <1>7, <2>2, <2>3, HeldUnmapped
<1>9. at \in Walks /\ at.dest <= at.i
  <2>1. at = Place
    BY DEF Init
  <2> QED
    BY <2>1 DEF Place, Walks
<1>10. mem.ephemerons = 0
  BY <1>3 DEF FirstMemory
<1>11. Mutating(mem, at, roots)
  BY Zenon, <1>5, <1>8, <1>9, <1>10 DEF Mutating
<1>12. Bounded(mem, births)
  <2>1. Cardinality(Objects(mem)) + b <= Old
    BY <1>2, <1>5, Layout
  <2> QED
    BY <1>2, <2>1 DEF Bounded, b
<1>13. pc = "mutator"
  BY DEF Init
<1> QED
  BY <1>2, <1>11, <1>12, <1>13 DEF Inv

\* The step Mutate preserves the invariant.
LEMMA MutateInv ==
    ASSUME Inv, Mutate
    PROVE  Inv'
<1>1. CASE AllocateNewSpace
  BY <1>1, AllocateNewSpaceInv
<1>2. CASE DequeueMourner
  BY <1>2, DequeueMournerInv
<1>3. CASE /\ pc = "mutator" /\ stores > 0
           /\ \E accessible \in {Accessible} :
                 \E a \in accessible, value \in accessible \cup {Nil} :
                    \E i \in DOMAIN Cell(mem, a).slots : StorePointer(a, i, value)
  <2>1. PICK a \in Accessible, value \in Accessible \cup {Nil} :
           \E i \in DOMAIN Cell(mem, a).slots : StorePointer(a, i, value)
    BY <1>3
  <2>2. PICK i \in DOMAIN Cell(mem, a).slots : StorePointer(a, i, value)
    BY <2>1
  <2> QED
    BY <1>3, <2>2, StorePointerInv
<1>4. CASE \E held \in SUBSET (ToSet(roots) \ {Nil}), criterion \in Criteria : Scavenge(held, criterion)
  BY <1>4, ScavengeInv
<1> QED
  BY <1>1, <1>2, <1>3, <1>4 DEF Mutate

\* The step Collect preserves the invariant.
LEMMA CollectInv ==
    ASSUME Inv, Collect
    PROVE  Inv'
<1> QED
  BY ScavengeRememberedSetInv, RememberedSetScavengedInv, MapRootsInv, ScavengeFutureSpaceInv,
     FutureSpaceScavengedInv, ScavengeUnfiredInRememberedSetInv, UnfiredInRememberedSetScavengedInv,
     ScavengeUnfiredOnEphemeronListInv, UnfiredOnEphemeronListScavengedInv, FireInRememberedSetInv,
     FiredInRememberedSetInv, FireOnEphemeronListInv, FiredOnEphemeronListInv,
     ProcessRememberedWeaklingsInv, ProcessWeakListInv, WeaklingsProcessedInv,
     ExchangeSurvivorSpacesInv DEF Collect

\* A stuttering step preserves the invariant.
LEMMA StutterInv ==
    ASSUME Inv, UNCHANGED vars
    PROVE  Inv'
<1>1. /\ mem' = mem /\ roots' = roots /\ pc' = pc /\ at' = at /\ births' = births
      /\ stores' = stores /\ scavenges' = scavenges
  BY DEF vars
<1>2. Bounded(mem', births') /\ stores' \in Nat /\ scavenges' \in Nat
  BY <1>1 DEF Inv
<1>3. CASE pc = "mutator" /\ Mutating(mem, at, roots)
  <2>1. pc' = "mutator" /\ Mutating(mem', at', roots')
    BY <1>1, <1>3
  <2> QED
    BY <1>2, <2>1 DEF Inv
<1>4. CASE Scavenging(mem, pc, at, roots)
  <2>1. Scavenging(mem', pc', at', roots')
    BY <1>1, <1>4
  <2> QED
    BY <1>2, <2>1 DEF Inv
<1> QED
  BY <1>3, <1>4 DEF Inv

\* Every state of every run satisfies the inductive invariant: between scavenges the memory is in order for the
\* interpreter, and between two steps of one every object in use that has not been scanned is in a part of the
\* memory the loop of scavengeLoop has still to go over.
THEOREM Inductive == Spec => []Inv
<1>1. Init => Inv
  BY InitInv
<1>2. Inv /\ [Next]_vars => Inv'
  BY MutateInv, CollectInv, StutterInv DEF Next
<1> QED
  BY <1>1, <1>2, PTL DEF Spec

\* What Inv says of every state.
LEMMA EverywhereFacts ==
    ASSUME Inv
    PROVE  /\ HeapOK(mem) /\ mem \in Memories /\ mem.ephemerons <= RSize(mem)
           /\ roots \in Seq(Oops) /\ at \in Walks /\ at.dest <= at.i
<1>1. CASE pc = "mutator"
  <2>1. /\ HeapOK(mem) /\ mem \in Memories /\ roots \in Seq(Oops)
        /\ at \in Walks /\ at.dest <= at.i /\ mem.ephemerons = 0
    BY <1>1, MutatorFacts
  <2>2. RSize(mem) \in Nat
    BY <2>1, Fields DEF RSize
  <2> QED
    BY <2>1, <2>2
<1>2. CASE pc # "mutator"
  <2>1. Scavenging(mem, pc, at, roots)
    BY <1>2 DEF Inv
  <2>2. Numbers(mem, pc, at) /\ Held(mem, roots, MappedAt(pc, at))
    BY <2>1 DEF Scavenging
  <2>3. HeapOK(mem)
    BY <2>1 DEF Scavenging, Loop
  <2> QED
    BY <2>2, <2>3 DEF Numbers, Held, HeapOK
<1> QED
  BY <1>1, <1>2

\* The invariant says what the state is made of.
LEMMA InvTypeOK ==
    ASSUME Inv
    PROVE  TypeOK
<1>1. /\ HeapOK(mem) /\ mem \in Memories /\ mem.ephemerons <= RSize(mem)
      /\ roots \in Seq(Oops) /\ at \in Walks /\ at.dest <= at.i
  BY EverywhereFacts
<1>2. ASSUME NEW a \in Addresses
      PROVE  /\ Cell(mem, a).kind \in Kinds /\ Cell(mem, a).bits \in 0 .. MaxRTRefCount
             /\ Range(Cell(mem, a).slots) \subseteq Oops
  <2>1. /\ Cell(mem, a).kind \in Kinds /\ Cell(mem, a).bits \in 0 .. MaxRTRefCount
        /\ Cell(mem, a).slots \in Seq(Oops)
    BY <1>1, <1>2, CellFields
  <2> QED
    BY <2>1 DEF Range
<1>3. /\ mem.past \in {1, Survivor + 1}
      /\ mem.rememberedSet \in Seq(OldAddresses) /\ mem.ephemerons \in Nat
      /\ mem.mournQueue \in Seq(Addresses)
      /\ mem.permToNew \in Seq(PermAddresses) /\ mem.permToOld \in Seq(PermAddresses)
  BY <1>1, Fields
<1>4. /\ mem.survivorStart \in FutureStart(mem) .. FutureLimit(mem)
      /\ mem.freeStart \in EdenStart .. OldStart
  BY <1>1 DEF HeapOK
<1>5. mem.ephemerons \in 0 .. Len(mem.rememberedSet)
  BY <1>1, <1>3 DEF RSize
<1>6. ToSet(mem.rememberedSet) \subseteq {a \in Addresses : IsOld(a)}
  <2>1. ToSet(mem.rememberedSet) \subseteq OldAddresses
    BY <1>3 DEF ToSet
  <2> QED
    BY Zenon, <2>1, Layout
<1>7. ToSet(mem.permToNew \o mem.permToOld) \subseteq {a \in Addresses : IsPerm(a)}
  <2>1. mem.permToNew \o mem.permToOld \in Seq(PermAddresses)
    BY <1>3
  <2>2. ToSet(mem.permToNew \o mem.permToOld) \subseteq PermAddresses
    <3> DEFINE s == mem.permToNew \o mem.permToOld
    <3>1. s \in Seq(PermAddresses)
      BY <2>1
    <3> HIDE DEF s
    <3>2. \A i \in DOMAIN s : s[i] \in PermAddresses
      BY <3>1
    <3>3. ToSet(s) \subseteq PermAddresses
      BY <3>2 DEF ToSet
    <3> QED
      BY <3>3 DEF s
  <2> QED
    BY Zenon, <2>2, Layout
<1>8. ToSet(mem.mournQueue \o roots) \subseteq Oops
  <2>1. mem.mournQueue \in Seq(Oops)
    BY <1>3, SeqMonotonic DEF Oops
  <2>2. mem.mournQueue \o roots \in Seq(Oops)
    BY <1>1, <2>1
  <2> QED
    BY <2>2 DEF ToSet
<1>9. at.i \in Nat \ {0}
  BY <1>1 DEF Walks
<1> QED
  BY Zenon, <1>1, <1>2, <1>3, <1>4, <1>5, <1>6, <1>7, <1>8, <1>9 DEF TypeOK

\* A member of a set is there once.
LEMMA InSetOnce ==
    ASSUME NEW m, NEW s, s \in Seq(Addresses), NEW A, InSet(m, s, 1 .. Len(s), A), NEW a \in A, Used(m, a)
    PROVE  Cardinality({i \in DOMAIN s : s[i] = a}) = IF Remembered(m, a) THEN 1 ELSE 0
<1> DEFINE I == {i \in DOMAIN s : s[i] = a}
<1>1. DOMAIN s = 1 .. Len(s)
  OBVIOUS
<1>2. /\ Remembered(m, a) <=> \E p \in 1 .. Len(s) : s[p] = a
      /\ \A p, q \in 1 .. Len(s) : s[p] = s[q] => p = q
  BY DEF InSet
<1>3. CASE Remembered(m, a)
  <2>1. PICK p \in 1 .. Len(s) : s[p] = a
    BY <1>2, <1>3
  <2>2. I = {p}
    BY <1>1, <1>2, <2>1
  <2> QED
    BY Zenon, <1>3, <2>2, FS_Singleton
<1>4. CASE ~Remembered(m, a)
  <2>1. I = {}
    BY <1>1, <1>2, <1>4
  <2> QED
    BY Zenon, <1>4, <2>1, FS_EmptySet
<1> QED
  BY <1>3, <1>4

\* The sets at a state where they are to be sound.
LEMMA SoundSets ==
    ASSUME Inv, pc \in {"mutator", "scavenged"}
    PROVE  /\ SetsOK(mem, 1 .. RSize(mem))
           /\ pc = "scavenged" => PermNew(mem) /\ KeptNew(mem, 1 .. RSize(mem))
<1>1. CASE pc = "mutator"
  BY <1>1, MutatorFacts
<1>2. CASE pc = "scavenged"
  <2>1. Scavenging(mem, pc, at, roots)
    BY <1>2 DEF Inv
  <2>2. KeptNew(mem, 1 .. RSize(mem))
    BY <1>2, <2>1 DEF Scavenging
  <2>3. Positions(mem, pc, at) = 1 .. RSize(mem) /\ MappedAt(pc, at)
    BY <1>2 DEF Positions, MappedAt
  <2>4. SetsOK(mem, 1 .. RSize(mem)) /\ PermNew(mem)
    BY <2>1, <2>3 DEF Scavenging, Loop
  <2> QED
    BY <1>2, <2>2, <2>4
<1> QED
  BY <1>1, <1>2

\* The invariant makes the remembered sets sound.
LEMMA InvSound ==
    ASSUME Inv
    PROVE  RememberedSetsAreSound
<1>1. TypeOK
  BY InvTypeOK
<1>2. ASSUME pc \in {"mutator", "scavenged"}, NEW a \in Permanent(mem.heap)
      PROVE  LET set == IF IsOld(a) THEN mem.rememberedSet ELSE mem.permToNew
                 times == Cardinality({i \in DOMAIN set : set[i] = a})
                 refersToOld == \E i \in DOMAIN Cell(mem, a).slots : IsOld(Slot(mem, a, i))
             IN  /\ times = IF Remembered(mem, a) THEN 1 ELSE 0
                 /\ HasYoungReferents(mem, a) => Remembered(mem, a)
                 /\ pc = "scavenged" /\ Remembered(mem, a) => HasYoungReferents(mem, a)
                 /\ IsPerm(a) /\ refersToOld => Remembered(mem, a) \/ a \in ToSet(mem.permToOld)
  <2> DEFINE set == IF IsOld(a) THEN mem.rememberedSet ELSE mem.permToNew
  <2>1. HeapOK(mem) /\ mem \in Memories
    BY EverywhereFacts
  <2>2. /\ SetsOK(mem, 1 .. RSize(mem))
        /\ pc = "scavenged" => PermNew(mem) /\ KeptNew(mem, 1 .. RSize(mem))
    BY <1>2, SoundSets
  <2>3. a \in Addresses /\ ~IsYoung(a) /\ Used(mem, a)
    BY DEF Permanent, Used, IsKind
  <2>4. (a \in OldAddresses /\ IsOld(a) /\ ~IsPerm(a)) \/ (a \in PermAddresses /\ IsPerm(a) /\ ~IsOld(a))
    BY <2>3, Layout
  <2>5. /\ InSet(mem, mem.rememberedSet, 1 .. Len(mem.rememberedSet), OldAddresses)
        /\ InSet(mem, mem.permToNew, 1 .. Len(mem.permToNew), PermAddresses)
        /\ IsPerm(a) /\ RefersToOld(mem, a) => Remembered(mem, a) \/ a \in Range(mem.permToOld)
    BY <2>2, <2>3, <2>4 DEF SetsOK, RSize
  <2>6. mem.rememberedSet \in Seq(Addresses) /\ mem.permToNew \in Seq(Addresses)
    <3>1. mem.rememberedSet \in Seq(OldAddresses) /\ mem.permToNew \in Seq(PermAddresses)
      BY <2>1, Fields
    <3>2. OldAddresses \subseteq Addresses /\ PermAddresses \subseteq Addresses
      BY Layout
    <3> QED
      BY <3>1, <3>2, SeqMonotonic
  <2>7. Cardinality({i \in DOMAIN set : set[i] = a}) = IF Remembered(mem, a) THEN 1 ELSE 0
    <3>1. CASE a \in OldAddresses /\ IsOld(a)
      BY <2>3, <2>5, <2>6, <3>1, InSetOnce
    <3>2. CASE a \in PermAddresses /\ ~IsOld(a)
      BY <2>3, <2>5, <2>6, <3>2, InSetOnce
    <3> QED
      BY <2>4, <3>1, <3>2
  <2>8. HasYoungReferents(mem, a) => Remembered(mem, a)
    BY <2>3, <2>4, <2>5 DEF InSet
  <2>9. DOMAIN Cell(mem, a).slots = SlotIndices(mem, a)
    BY <2>1, <2>3, CellFields
  <2>10. HasNew(mem, a) => HasYoungReferents(mem, a)
    <3>1. \A v : InFuture(mem, v) => IsYoung(v)
      BY SMTT(60), <2>1, Future, Layout DEF InFuture, IsYoung, HeapOK
    <3> QED
      BY <2>9, <3>1 DEF HasNew, HasYoungReferents
  <2>11. ASSUME pc = "scavenged", Remembered(mem, a) PROVE HasNew(mem, a)
    <3>1. CASE a \in OldAddresses
      <4>1. PICK p \in 1 .. RSize(mem) : mem.rememberedSet[p] = a
        BY <2>3, <2>5, <2>11, <3>1 DEF InSet, RSize
      <4> QED
        BY <2>2, <2>11, <4>1 DEF KeptNew
    <3>2. CASE a \in PermAddresses
      BY <2>2, <2>3, <2>11, <3>2 DEF PermNew
    <3> QED
      BY <2>4, <3>1, <3>2
  <2>12. (\E i \in DOMAIN Cell(mem, a).slots : IsOld(Slot(mem, a, i))) <=> RefersToOld(mem, a)
    BY <2>9 DEF RefersToOld
  <2>13. Range(mem.permToOld) = ToSet(mem.permToOld)
    BY DEF Range, ToSet
  <2> QED
    BY <2>5, <2>7, <2>8, <2>10, <2>11, <2>12, <2>13
<1> QED
  BY <1>1, <1>2 DEF RememberedSetsAreSound

\* The memory, the place in the loop, the roots and the bounds keep their types; rememberedSetSize and numRememberedEphemerons
\* stay within the set, and future space within its limits.
THEOREM TypeCorrect == Spec => []TypeOK
<1> QED
  BY Inductive, InvTypeOK, PTL

\* Whatever the interpreter stores and whenever a scavenge runs, the write barrier of storePointerofObjectwithValue
\* and the copies, moves and removals of a scavenge keep every old object that refers to a young one in
\* the remembered set, and every permanent object in its own set, each once, with the bit isRemembered set just
\* for members.
THEOREM RememberedSetsStaySound == Spec => []RememberedSetsAreSound
<1> QED
  BY Inductive, InvSound, PTL

\* Once a scavenge has scanned all it is to scan, nothing that stays refers into the spaces it is about to
\* empty: not a slot, weak or strong, of an object of future, old or permanent space, nor a root, nor a mourner.
NothingIsLeftBehind ==
    pc = "scavenged" =>
        /\ \A a \in Addresses : Live(mem, a) =>
              \A i \in SlotIndices(mem, a) : Slot(mem, a, i) = Nil \/ Live(mem, Slot(mem, a, i))
        /\ \A i \in DOMAIN roots : roots[i] = Nil \/ Live(mem, roots[i])
        /\ \A i \in DOMAIN mem.mournQueue : Live(mem, mem.mournQueue[i])

\* The invariant says that a scavenge leaves nothing behind: no object has a scan ahead of it at its end.
LEMMA InvLeavesNothing ==
    ASSUME Inv
    PROVE  NothingIsLeftBehind
<1> SUFFICES ASSUME pc = "scavenged"
             PROVE  /\ \A a \in Addresses : Live(mem, a) =>
                          \A i \in SlotIndices(mem, a) : Slot(mem, a, i) = Nil \/ Live(mem, Slot(mem, a, i))
                    /\ \A i \in DOMAIN roots : roots[i] = Nil \/ Live(mem, roots[i])
                    /\ \A i \in DOMAIN mem.mournQueue : Live(mem, mem.mournQueue[i])
  BY DEF NothingIsLeftBehind
<1>1. HeapOK(mem) /\ mem \in Memories /\ Scavenging(mem, pc, at, roots)
  BY EverywhereFacts DEF Inv
<1>2. /\ EphemeronsAt(mem, pc, at) = {} /\ Unscanned(mem, pc, at) = {} /\ CorpsesAt(mem, at) = {}
      /\ WeakAt(mem, pc, at) = {} /\ FromAt(mem, pc, at) = mem.survivorStart /\ MappedAt(pc, at)
      /\ Range(mem.weakList) = {}
  <2>1. /\ mem.ephemerons = 0 /\ mem.ephemeronList = <<>> /\ mem.weakList = <<>>
        /\ at.todo = <<>> /\ at.kept = <<>>
    BY <1>1 DEF Scavenging, Numbers, Ends
  <2>2. Range(<<>>) = {}
    BY DEF Range
  <2>3. EphemeronsAt(mem, pc, at) = {}
    BY <2>1 DEF EphemeronsAt
  <2>4. Unscanned(mem, pc, at) = {} /\ WeakAt(mem, pc, at) = {} /\ FromAt(mem, pc, at) = mem.survivorStart
    BY DEF Unscanned, WeakAt, FromAt, Ends
  <2>5. CorpsesAt(mem, at) = {}
    BY <2>1, <2>2 DEF CorpsesAt
  <2> QED
    BY <2>1, <2>2, <2>3, <2>4, <2>5 DEF MappedAt
<1>3. Covered(mem, mem.survivorStart, {}, {}, TRUE) /\ WeakHeld(mem, {})
  <2>1. /\ Covered(mem, FromAt(mem, pc, at), Unscanned(mem, pc, at) \cup EphemeronsAt(mem, pc, at),
                   CorpsesAt(mem, at), MappedAt(pc, at))
        /\ WeakHeld(mem, WeakAt(mem, pc, at))
    BY Zenon, <1>1 DEF Scavenging, Loop
  <2>2. MappedAt(pc, at) = TRUE /\ {} \cup {} = {}
    BY <1>2 DEF MappedAt
  <2> QED
    BY Zenon, <1>2, <2>1, <2>2
<1>4. ASSUME NEW a \in Addresses, Live(mem, a) PROVE AllSettled(mem, a)
  <2>1. ~(InFuture(mem, a) /\ a >= mem.survivorStart)
    BY <1>1, Fields, Layout, Future DEF InFuture, HeapOK
  <2>2. Done(mem, a)
    BY <1>3, <1>4, <2>1 DEF Covered, Listed
  <2>3. CASE IsKind(mem, a, "weak")
    BY <1>2, <1>3, <1>4, <2>3 DEF WeakHeld, Listed
  <2>4. CASE ~IsKind(mem, a, "weak")
    BY <2>2, <2>4 DEF Done, AllSettled, StrongSlots, IsKind, Cell, SlotIndices
  <2> QED
    BY <2>3, <2>4
<1>5. ASSUME NEW a \in Addresses, Live(mem, a), NEW i \in SlotIndices(mem, a)
      PROVE  Slot(mem, a, i) = Nil \/ Live(mem, Slot(mem, a, i))
  <2> DEFINE v == Slot(mem, a, i)
  <2>1. Ref(mem, v) /\ Settled(mem, v)
    BY <1>1, <1>4, <1>5 DEF HeapOK, CellOK, AllSettled
  <2> HIDE DEF v
  <2>2. InFuture(mem, v) => ~InSource(mem, v)
    BY <1>1, Future DEF InFuture, InSource, HeapOK
  <2>3. v = Nil \/ Live(mem, v)
    BY <2>1, <2>2 DEF Ref, Settled, Live, InSource
  <2> QED
    BY <2>3 DEF v
<1>6. /\ \A i \in DOMAIN roots : roots[i] = Nil \/ Live(mem, roots[i])
      /\ \A i \in DOMAIN mem.mournQueue : Live(mem, mem.mournQueue[i])
  BY <1>1, <1>2 DEF Scavenging, Held
<1> QED
  BY <1>5, <1>6

\* No step of a scavenge forgets an object: when the last scan is done, exchangeSurvivorSpaces frees nothing
\* that the image can reach.
THEOREM NothingIsEverLeftBehind == Spec => []NothingIsLeftBehind
<1> QED
  BY Inductive, InvLeavesNothing, PTL
================================================================================
