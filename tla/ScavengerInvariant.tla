------------------------------ MODULE ScavengerInvariant ------------------------------
(********************************************************************************************)
(* The inductive invariant of Scavenger, and that the steps of the loop of a scavenge keep it: *)
(* the scans of the remembered set and of future space, the walks over ephemerons, and the   *)
(* weak objects.  ScavengerProofs does the roots, the exchange of the spaces and the image's *)
(* own steps, and draws the theorems.                                                        *)
(*                                                                                           *)
(* While a scavenge runs an object may refer to a corpse or to an object that has not been   *)
(* copied, so the invariant says where such an object waits for its scan: past the pointer   *)
(* into future space, at a position of the remembered set that is still to be read, behind a *)
(* corpse of a list, or among the permanent objects before they are mapped (Covered).  That a *)
(* step loses none follows from what all copies have in common (Grows): what is live stays   *)
(* where it is, what is copied leaves a corpse that leads to the copy, and the copy is itself *)
(* where a scan will find it.                                                                *)
(********************************************************************************************)
EXTENDS Scavenger, TLAPS, SequenceTheorems, FiniteSetTheorems, WellFoundedInduction

\* Old and permanent space, and the memory as it is typed.
OldAddresses == OldStart .. PermStart - 1
PermAddresses == PermStart .. PermStart + Perm - 1

Cells == [kind : Kinds, bits : 0 .. MaxRTRefCount, slots : Seq(Oops)]

Memories ==
    [heap : [Addresses -> Cells], past : {1, Survivor + 1},
     survivorStart : Nat, freeStart : Nat,
     rememberedSet : Seq(OldAddresses), previousSize : Nat, ephemerons : Nat,
     weakList : Seq(Addresses), ephemeronList : Seq(Addresses), mournQueue : Seq(Addresses),
     permToNew : Seq(PermAddresses), permToOld : Seq(PermAddresses), finalizations : Nat,
     criterion : {"ByAge", "ByClass", "DontTenure", "ToShrinkRT"},
     threshold : Nat, shrinkCount : Nat]

\* The spaces a scavenge empties, what lies outside them, and what may be referred to.
InSource(m, a) == IsYoung(a) /\ a \notin FutureStart(m) .. FutureLimit(m) - 1
Used(m, a) == a \in Addresses /\ ~IsKind(m, a, "free")
Live(m, a) == Used(m, a) /\ ~InSource(m, a)
Ref(m, v) == v = Nil \/ Used(m, v)
Settled(m, v) == IsYoung(v) => InFuture(m, v)

\* The slots of an object.
Size(m, a) == Len(Cell(m, a).slots)
SlotIndices(m, a) == 1 .. Size(m, a)

\* A corpse lies in a space that is emptied and leads to a live object; a count of
\* references is on an object that is emptied only; past the survivors future space is free.
CellOK(m, a) ==
    /\ IsKind(m, a, "forwarded") =>
          InSource(m, a) /\ Size(m, a) = 1 /\ Live(m, Slot(m, a, 1))
    /\ IsKind(m, a, "ephemeron") \/ IsKind(m, a, "weak") => Size(m, a) >= 1 /\ ~IsPerm(a)
    /\ Cell(m, a).bits \in {0, 1} \/ InSource(m, a)
    /\ IsYoung(a) => Cell(m, a).bits = 0 \/ (InSource(m, a) /\ m.criterion = "ToShrinkRT")
    /\ \A i \in SlotIndices(m, a) : Ref(m, Slot(m, a, i))
    /\ a \in m.survivorStart .. FutureLimit(m) - 1 => IsKind(m, a, "free")
    /\ InFuture(m, a) => ~IsKind(m, a, "free")
    /\ IsKind(m, a, "free") => Size(m, a) = 0

\* What may have to be copied to old space: it never has more than old space has room for.
Objects(m) == {a \in 1 .. PermStart - 1 : Cell(m, a).kind \notin {"free", "forwarded"}}

\* The heap: every reference is to an object or a corpse, at all times.
HeapOK(m) ==
    /\ m \in Memories
    /\ m.survivorStart \in FutureStart(m) .. FutureLimit(m)
    /\ m.freeStart \in EdenStart .. OldStart
    /\ \A a \in Addresses : CellOK(m, a)
    /\ Cardinality(Objects(m)) <= Old

\* The object at a is scanned: its strong slots, or all of them, refer to survivors.
Done(m, a) == \A i \in StrongSlots(Cell(m, a).kind, Size(m, a)) : Settled(m, Slot(m, a, i))
AllSettled(m, a) == \A i \in SlotIndices(m, a) : Settled(m, Slot(m, a, i))
HasNew(m, a) == \E i \in SlotIndices(m, a) : InFuture(m, Slot(m, a, i))

\* The set s, as far as its positions P go, holds the remembered ones of A once.
InSet(m, s, P, A) ==
    /\ \A a \in A : Used(m, a) /\ Remembered(m, a) <=> \E p \in P : s[p] = a
    /\ \A p, q \in P : s[p] = s[q] => p = q
    /\ \A a \in A : Used(m, a) /\ HasYoungReferents(m, a) => Remembered(m, a)

\* The three sets: who must be in one, and that the bit says who is.
RefersToOld(m, a) == \E i \in SlotIndices(m, a) : IsOld(Slot(m, a, i))

SetsOK(m, P) ==
    /\ InSet(m, m.rememberedSet, P, OldAddresses)
    /\ InSet(m, m.permToNew, 1 .. Len(m.permToNew), PermAddresses)
    /\ \A a \in PermAddresses : Used(m, a) /\ RefersToOld(m, a) => Remembered(m, a) \/ a \in Range(m.permToOld)

\* A list of corpses leads to the object at a.
Listed(m, corpses, a) == \E c \in corpses : FollowForwarded(m, c) = a

\* from: Future space is scanned to here.  P: positions in the remembered set.
Covered(m, from, P, corpses, mapped) ==
    \A a \in Addresses : Live(m, a) =>
       \/ Done(m, a)
       \/ (InFuture(m, a) /\ a >= from)
       \/ \E p \in P : m.rememberedSet[p] = a
       \/ Listed(m, corpses, a)
       \/ (IsPerm(a) /\ Remembered(m, a) /\ ~mapped)

\* An unfired ephemeron of future space is on the list of ephemerons.
UnfiredListed(m, corpses) ==
    \A a \in Addresses : InFuture(m, a) /\ IsUnfired(m, a) => Listed(m, corpses, a)

\* A weak object that has not been processed is on a list or in the remembered set.
WeakHeld(m, P) ==
    \A a \in Addresses : Live(m, a) /\ IsKind(m, a, "weak") =>
       AllSettled(m, a) \/ Listed(m, Range(m.weakList), a) \/ \E p \in P : m.rememberedSet[p] = a

\* The lists are of corpses of ephemerons, fired or not, and of weak objects.
CorpsesOK(m, corpses) ==
    /\ \A c \in corpses : /\ c \in Addresses /\ IsKind(m, c, "forwarded")
                          /\ Cell(m, Slot(m, c, 1)).kind \in {"ephemeron", "plain"}
                          /\ Size(m, Slot(m, c, 1)) >= 1
    /\ \A c \in Range(m.weakList) : IsKind(m, c, "forwarded") /\ IsKind(m, Slot(m, c, 1), "weak")

\* The first of the remembered set are ephemerons, fired or not.
EphemeronsOK(m, P) ==
    \A p \in P : /\ Cell(m, m.rememberedSet[p]).kind \in {"ephemeron", "plain"}
                 /\ Size(m, m.rememberedSet[p]) >= 1

\* What a scan has kept in a set refers to a survivor, or is weak and processed later.
Kept(m, P) == \A p \in P : IsKind(m, m.rememberedSet[p], "weak") \/ HasNew(m, m.rememberedSet[p])
KeptNew(m, P) == \A p \in P : HasNew(m, m.rememberedSet[p])

PermNew(m) == \A a \in PermAddresses : Used(m, a) /\ Remembered(m, a) => HasNew(m, a)

\* The members of the remembered set at some positions.
Members(m, P) == {m.rememberedSet[p] : p \in P}

\* P: positions of the set; U: those with something to scan, of their objects,
\* C: of corpses; W: those with weak objects; E: with ephemerons; K: with kept objects.
Loop(m, P, from, U, C, mapped, W, E, K) ==
    /\ HeapOK(m)
    /\ P \subseteq 1 .. Len(m.rememberedSet) /\ U \subseteq P /\ W \subseteq P
    /\ E \subseteq P /\ K \subseteq P
    /\ C \subseteq Addresses /\ Range(m.ephemeronList) \subseteq C
    /\ from \in FutureStart(m) .. m.survivorStart
    /\ SetsOK(m, P)
    /\ Covered(m, from, U, C, mapped)
    /\ UnfiredListed(m, C)
    /\ WeakHeld(m, W)
    /\ CorpsesOK(m, C)
    /\ EphemeronsOK(m, E)
    /\ Kept(m, K)
    /\ mapped => PermNew(m)

\* m: the memory, p: the loop, w: the place in it.
RSize(m) == Len(m.rememberedSet)
\* The steps of a scavenge in which no object is scanned any more.
Ends(p) == p \in {"weaklings", "scavenged"}
\* The positions of the remembered set that hold members, and those still to be scanned.
Positions(m, p, w) ==
    IF p = "remembered" THEN (1 .. w.dest - 1) \cup (w.i .. RSize(m)) ELSE 1 .. RSize(m)
Unscanned(m, p, w) ==
    IF p = "remembered" THEN w.i .. RSize(m)
    ELSE IF Ends(p) THEN {} ELSE m.previousSize + 1 .. RSize(m)
\* The positions of its ephemerons, and the part of future space, still to be scanned.
EphemeronsAt(m, p, w) == IF p = "fire" THEN w.i .. m.ephemerons ELSE 1 .. m.ephemerons
FromAt(m, p, w) ==
    IF p = "future" THEN w.i ELSE IF Ends(p) THEN m.survivorStart ELSE w.previous
\* The corpses of ephemerons that are on a list, being walked over or not.
CorpsesAt(m, w) == Range(m.ephemeronList) \cup Range(w.todo) \cup Range(w.kept)
\* The roots are mapped; the positions of weak objects still to be processed.
MappedAt(p, w) == ~(p = "roots" \/ (p = "remembered" /\ w.firstTime))
WeakAt(m, p, w) ==
    IF p = "scavenged" THEN {} ELSE IF p = "weaklings" THEN w.i .. RSize(m) ELSE Positions(m, p, w)

\* A place in the loop, and the steps there are.
Walks == [i : Nat \ {0}, dest : Nat \ {0}, previous : Nat, firstTime : BOOLEAN,
          todo : Seq(Addresses), kept : Seq(Addresses), scanned : BOOLEAN]
Walking == {"roots", "future", "unfired", "unfired_list", "fire", "fire_list"}
Pcs == Walking \cup {"remembered", "weaklings", "scavenged"}

\* What the indices of the loop are between.
Numbers(m, p, w) ==
    /\ p \in Pcs /\ w \in Walks /\ w.dest <= w.i
    /\ m.ephemerons <= RSize(m)
    /\ p = "remembered" => w.i <= RSize(m) + 1 /\ m.ephemerons < w.dest
    /\ p \in Walking => m.previousSize <= RSize(m) /\ m.ephemerons <= m.previousSize
    /\ Ends(p) => m.ephemerons = 0 /\ m.ephemeronList = <<>>
    /\ ~Ends(p) => w.previous \in FutureStart(m) .. m.survivorStart
    /\ p = "future" => w.i \in w.previous .. m.survivorStart
    /\ p \in {"unfired", "unfired_list", "fire", "fire_list"} => w.dest = 1
    /\ p = "fire_list" => m.ephemerons = 0
    /\ p \notin {"unfired_list", "fire_list"} => w.todo = <<>>
    /\ p # "unfired_list" => w.kept = <<>>
    /\ p = "scavenged" => m.weakList = <<>>

\* The roots rs and the mourners refer to objects; once mapped, to live ones.
Held(m, rs, mapped) ==
    /\ rs \in Seq(Oops)
    /\ \A i \in DOMAIN m.mournQueue : ~IsKind(m, m.mournQueue[i], "ephemeron")
    /\ IF mapped
       THEN /\ \A i \in DOMAIN rs : rs[i] = Nil \/ Live(m, rs[i])
            /\ \A i \in DOMAIN m.mournQueue : Live(m, m.mournQueue[i])
       ELSE /\ \A i \in DOMAIN rs : Ref(m, rs[i])
            /\ \A i \in DOMAIN m.mournQueue :
                  Used(m, m.mournQueue[i]) /\ ~IsKind(m, FollowForwarded(m, m.mournQueue[i]), "ephemeron")

\* All the objects, and those yet to be born, have room in old space.
Bounded(m, b) == b \in Seq(DOMAIN Slots) /\ Cardinality(Objects(m)) + Len(b) <= Old

\* Between two steps of a scavenge.
Scavenging(m, p, w, rs) ==
    /\ Numbers(m, p, w)
    /\ LET E == EphemeronsAt(m, p, w)
           U == Unscanned(m, p, w) \cup E
       IN  Loop(m, Positions(m, p, w), FromAt(m, p, w), U, CorpsesAt(m, w), MappedAt(p, w),
                WeakAt(m, p, w), E, Positions(m, p, w) \ U)
    /\ p = "weaklings" => KeptNew(m, (1 .. w.i - 1) \cap (1 .. RSize(m)))
    /\ p = "scavenged" => KeptNew(m, 1 .. RSize(m))
    /\ Held(m, rs, MappedAt(p, w))

\* Between two scavenges.
Mutating(m, w, rs) ==
    /\ HeapOK(m) /\ SetsOK(m, 1 .. RSize(m)) /\ Held(m, rs, FALSE)
    /\ w \in Walks /\ w.dest <= w.i /\ m.ephemerons = 0
    /\ m.survivorStart = FutureStart(m)
    /\ \A a \in Addresses : ~IsKind(m, a, "forwarded")
    /\ \A a \in Addresses : IsYoung(a) => Cell(m, a).bits = 0
    /\ \A a \in m.freeStart .. OldStart - 1 : IsKind(m, a, "free")

\* The inductive invariant.
Inv ==
    /\ Bounded(mem, births) /\ stores \in Nat /\ scavenges \in Nat
    /\ \/ pc = "mutator" /\ Mutating(mem, at, roots)
       \/ Scavenging(mem, pc, at, roots)

\* The order of the spaces.
LEMMA Layout ==
    /\ Survivor \in Nat \ {0} /\ Eden \in Nat \ {0} /\ Old \in Nat /\ Perm \in Nat
    /\ EdenStart \in Nat /\ OldStart \in Nat /\ PermStart \in Nat
    /\ EdenStart = 2 * Survivor + 1 /\ EdenStart < OldStart /\ OldStart <= PermStart
    /\ PermStart = OldStart + Old
    /\ Addresses = 1 .. PermStart + Perm - 1 /\ 0 \notin Addresses
    /\ OldAddresses \subseteq Addresses /\ PermAddresses \subseteq Addresses
    /\ \A a \in Addresses : /\ a \in Nat /\ (IsYoung(a) <=> a < OldStart)
                            /\ (IsOld(a) <=> OldStart <= a /\ a < PermStart)
                            /\ (IsPerm(a) <=> PermStart <= a)
                            /\ (IsOld(a) <=> a \in OldAddresses)
                            /\ (IsPerm(a) <=> a \in PermAddresses)
    /\ ~IsYoung(Nil) /\ ~IsOld(Nil) /\ ~IsPerm(Nil)
<1> QED
  BY SizesAssumption DEF EdenStart, OldStart, PermStart, Addresses, OldAddresses, PermAddresses,
     IsYoung, IsOld, IsPerm, Nil

\* What the fields of a memory are.
LEMMA Fields ==
    ASSUME NEW m \in Memories
    PROVE  /\ m.heap \in [Addresses -> Cells]
           /\ m.past \in {1, Survivor + 1}
           /\ m.survivorStart \in Nat /\ m.freeStart \in Nat
           /\ m.rememberedSet \in Seq(OldAddresses) /\ m.previousSize \in Nat /\ m.ephemerons \in Nat
           /\ m.weakList \in Seq(Addresses) /\ m.ephemeronList \in Seq(Addresses)
           /\ m.mournQueue \in Seq(Addresses)
           /\ m.permToNew \in Seq(PermAddresses) /\ m.permToOld \in Seq(PermAddresses)
           /\ m.finalizations \in Nat
           /\ m.criterion \in {"ByAge", "ByClass", "DontTenure", "ToShrinkRT"}
           /\ m.threshold \in Nat /\ m.shrinkCount \in Nat
<1> QED
  BY DEF Memories

\* What a cell is.
LEMMA CellFields ==
    ASSUME NEW m \in Memories, NEW a \in Addresses
    PROVE  /\ Cell(m, a) \in Cells /\ Cell(m, a).kind \in Kinds
           /\ Cell(m, a).bits \in 0 .. MaxRTRefCount /\ Cell(m, a).slots \in Seq(Oops)
           /\ Size(m, a) \in Nat /\ DOMAIN Cell(m, a).slots = SlotIndices(m, a)
           /\ \A i \in SlotIndices(m, a) : Slot(m, a, i) \in Oops
<1>1. Cell(m, a) \in Cells
  BY Fields DEF Cell
<1>2. /\ Cell(m, a).kind \in Kinds
      /\ Cell(m, a).bits \in 0 .. MaxRTRefCount /\ Cell(m, a).slots \in Seq(Oops)
  BY <1>1 DEF Cells
<1> QED
  BY <1>1, <1>2, LenProperties, ElementOfSeq DEF Size, SlotIndices, Slot, Cell

\* Future space lies between two addresses of the survivor spaces.
LEMMA Future ==
    ASSUME NEW m \in Memories
    PROVE  /\ FutureStart(m) \in {1, Survivor + 1} /\ FutureStart(m) \in Nat
           /\ FutureLimit(m) = FutureStart(m) + Survivor /\ FutureLimit(m) \in Nat
           /\ FutureLimit(m) <= EdenStart
           /\ m.survivorStart \in Nat
           /\ FutureStart(m) .. FutureLimit(m) - 1 \subseteq Addresses
<1> QED
  BY Fields, Layout DEF FutureStart, FutureLimit

\* A reference is to a place that is settled, or to a cell of a space that is emptied.
LEMMA Places ==
    ASSUME NEW m, HeapOK(m), NEW v, Ref(m, v)
    PROVE  /\ v \in Oops
           /\ ~Settled(m, v) <=> InSource(m, v)
           /\ InSource(m, v) => v \in Addresses /\ ~IsKind(m, v, "free")
           /\ v # Nil /\ ~InSource(m, v) => Live(m, v)
<1> USE DEF HeapOK
<1>1. CASE v = Nil
  BY <1>1, Layout DEF Settled, InSource, Oops, IsYoung
<1>2. CASE v # Nil
  <2>1. v \in Addresses /\ ~IsKind(m, v, "free") /\ CellOK(m, v) /\ v \in Nat
    BY <1>2, Layout DEF Ref, Used
  <2>2. v \notin m.survivorStart .. FutureLimit(m) - 1
    BY <2>1 DEF CellOK
  <2>3. /\ FutureStart(m) \in Nat /\ FutureLimit(m) \in Nat /\ m.survivorStart \in Nat
        /\ m.survivorStart \in FutureStart(m) .. FutureLimit(m) /\ FutureLimit(m) <= EdenStart
        /\ EdenStart \in Nat
    BY Future, Layout
  <2>4. v \in FutureStart(m) .. FutureLimit(m) - 1 <=> InFuture(m, v)
    BY <2>1, <2>2, <2>3 DEF InFuture
  <2> QED
    BY <1>2, <2>1, <2>4 DEF Settled, InSource, Live, Used, Oops
<1> QED
  BY <1>1, <1>2

\* What following a forwarding pointer finds.
LEMMA Following ==
    ASSUME NEW m, HeapOK(m), NEW v, Ref(m, v)
    PROVE  /\ Ref(m, FollowForwarded(m, v))
           /\ FollowForwarded(m, v) # v =>
                 IsKind(m, v, "forwarded") /\ InSource(m, v) /\ Live(m, FollowForwarded(m, v))
           /\ IsScavengeSurvivor(m, v) <=> Settled(m, FollowForwarded(m, v))
           /\ ~InSource(m, v) => FollowForwarded(m, v) = v /\ IsScavengeSurvivor(m, v)
           /\ ~IsScavengeSurvivor(m, v) =>
                 /\ FollowForwarded(m, v) = v /\ InSource(m, v) /\ v \in Addresses
                 /\ Cell(m, v).kind \notin {"free", "forwarded"}
           /\ IsScavengeSurvivor(m, v) =>
                 FollowForwarded(m, v) = Nil \/ Live(m, FollowForwarded(m, v))
           /\ v # Nil => FollowForwarded(m, v) # Nil
<1> DEFINE t == FollowForwarded(m, v)
<1>1. IsScavengeSurvivor(m, v) <=> Settled(m, t)
  BY DEF IsScavengeSurvivor, Settled
<1>2. CASE v # Nil /\ IsKind(m, v, "forwarded")
  <2>1. v \in Addresses /\ CellOK(m, v)
    BY <1>2 DEF Ref, Used, HeapOK
  <2>2. t = Slot(m, v, 1) /\ InSource(m, v) /\ Live(m, Slot(m, v, 1))
    BY <1>2, <2>1 DEF FollowForwarded, CellOK
  <2>3. Ref(m, t) /\ ~InSource(m, t) /\ t # Nil
    BY <2>2, Layout DEF Live, Ref, Used, Nil
  <2>4. Settled(m, t)
    BY <2>3, Places
  <2> QED
    BY <1>1, <1>2, <2>2, <2>3, <2>4
<1>3. CASE ~(v # Nil /\ IsKind(m, v, "forwarded"))
  <2>1. t = v
    BY <1>3 DEF FollowForwarded
  <2>2. ~Settled(m, v) <=> InSource(m, v)
    BY Places
  <2>3. InSource(m, v) => v \in Addresses /\ ~IsKind(m, v, "free") /\ v # Nil
    BY Places, Layout DEF Nil
  <2>4. v # Nil /\ ~InSource(m, v) => Live(m, v)
    BY Places
  <2>5. InSource(m, v) => Cell(m, v).kind \notin {"free", "forwarded"}
    BY <1>3, <2>3 DEF IsKind, Cell
  <2> QED
    BY <1>1, <2>1, <2>2, <2>3, <2>4, <2>5
<1> QED
  BY <1>2, <1>3

\* A set of natural numbers has a smallest one.
LEMMA Smallest ==
    ASSUME NEW T, T \subseteq Nat, T # {}
    PROVE  \E x \in T : \A y \in T : x <= y
<1> DEFINE Below(n) == 0 .. n
           R == StrictSubsetOrdering(Nat)
           U == {Below(n) : n \in T}
<1>1. U \subseteq FiniteSubsetsOf(Nat) /\ U # {}
  <2>1. ASSUME NEW n \in T PROVE Below(n) \in FiniteSubsetsOf(Nat)
    <3>1. IsFiniteSet(Below(n))
      BY FS_Interval
    <3>2. Below(n) \in SUBSET Nat
      OBVIOUS
    <3> HIDE DEF Below
    <3> QED
      BY <3>1, <3>2 DEF FiniteSubsetsOf
  <2> QED
    BY Zenon, <2>1
<1>2. IsWellFoundedOn(R, FiniteSubsetsOf(Nat))
  BY FS_StrictSubsetOrderingWellFounded
<1> HIDE DEF R, U
<1>3. PICK s \in U : \A u \in U : <<u, s>> \notin R
  BY <1>1, <1>2, WFMin, Zenon
<1>4. PICK x \in T : s = 0 .. x
  BY <1>3 DEF U
<1>5. ASSUME NEW y \in T PROVE x <= y
  <2>1. <<0 .. y, 0 .. x>> \notin R
    BY Zenon, <1>3, <1>4 DEF U
  <2>2. 0 .. y \in SUBSET Nat /\ 0 .. x \in SUBSET Nat
    OBVIOUS
  <2>3. ~ (0 .. y \subseteq 0 .. x) \/ 0 .. y = 0 .. x
    BY <2>1, <2>2 DEF R, StrictSubsetOrdering
  <2>4. x \in Nat /\ y \in Nat
    OBVIOUS
  <2> QED
    BY <2>3, <2>4
<1> QED
  BY <1>5

\* What a copy leaves alone.
SameRest(m, n) ==
    /\ n.past = m.past /\ n.freeStart = m.freeStart
    /\ n.previousSize = m.previousSize /\ n.ephemerons = m.ephemerons
    /\ n.mournQueue = m.mournQueue /\ n.permToNew = m.permToNew /\ n.permToOld = m.permToOld
    /\ n.finalizations = m.finalizations /\ n.criterion = m.criterion
    /\ n.threshold = m.threshold /\ n.shrinkCount = m.shrinkCount

\* The lists of corpses are the same.
SameLists(m, n) == n.weakList = m.weakList /\ n.ephemeronList = m.ephemeronList

\* A young object is referred to.
RefersToYoung(m, a) == \E i \in SlotIndices(m, a) : IsYoung(Slot(m, a, i))

\* n is m with the object at a copied to o, for any lists of corpses.
Moves(m, n, a, o) ==
    /\ n \in Memories /\ SameRest(m, n)
    /\ o \in Addresses /\ o # a /\ IsKind(m, o, "free")
    /\ n.heap[o].kind = m.heap[a].kind /\ n.heap[o].slots = m.heap[a].slots
    /\ n.heap[a].kind = "forwarded" /\ n.heap[a].slots = <<o>> /\ n.heap[a].bits = m.heap[a].bits
    /\ \A x \in Addresses \ {a, o} : n.heap[x] = m.heap[x]
    /\ \/ /\ o = m.survivorStart /\ o < FutureLimit(m) /\ n.survivorStart = o + 1
          /\ n.heap[o].bits = 0 /\ n.rememberedSet = m.rememberedSet
       \/ /\ IsOld(o) /\ n.survivorStart = m.survivorStart
          /\ IF RefersToYoung(m, a)
             THEN n.heap[o].bits = 1 /\ n.rememberedSet = Append(m.rememberedSet, o)
             ELSE n.heap[o].bits = 0 /\ n.rememberedSet = m.rememberedSet

\* n is m with the object at a copied to o.
Copies(m, n, a, o) == Moves(m, n, a, o) /\ SameLists(m, n)

\* An object a scavenge may copy.
Copied(m, a) == a \in Addresses /\ InSource(m, a) /\ Cell(m, a).kind \notin {"free", "forwarded"}

\* The kinds a scavenge writes are kinds.
LEMMA NewKind == {"free", "forwarded", "plain", "weak", "ephemeron"} \subseteq Kinds
<1> QED
  BY SlotsAssumption DEF Kinds

\* The copy of an object: its kind and its slots, and no bits.
LEMMA CopyOfFacts ==
    ASSUME NEW m, HeapOK(m), NEW a, Copied(m, a)
    PROVE  /\ CopyOf(m, a) \in Cells
           /\ CopyOf(m, a).kind = m.heap[a].kind
           /\ CopyOf(m, a).slots = m.heap[a].slots
           /\ CopyOf(m, a).bits = 0
<1>1. m \in Memories /\ a \in Addresses /\ CellOK(m, a) /\ IsYoung(a)
  BY DEF HeapOK, Copied, InSource
<1>2. m.heap[a] \in Cells /\ Cell(m, a) = m.heap[a]
  BY <1>1, Fields DEF Cell
<1>3. m.criterion # "ToShrinkRT" => m.heap[a].bits = 0
  BY <1>1, <1>2 DEF CellOK
<1>4. 0 \in 0 .. MaxRTRefCount
  BY DEF MaxRTRefCount
<1> QED
  BY <1>2, <1>3, <1>4 DEF CopyOf, Cells

\* A cell with another kind and other slots, field by field.
LEMMA CellWith ==
    ASSUME NEW c \in Cells, NEW k \in Kinds, NEW s \in Seq(Oops)
    PROVE  [c EXCEPT !.kind = k, !.slots = s] = [kind |-> k, bits |-> c.bits, slots |-> s]
<1> DEFINE d == [c EXCEPT !.kind = k, !.slots = s]
<1>1. d \in Cells
  BY Zenon DEF Cells
<1>2. d.kind = k /\ d.bits = c.bits /\ d.slots = s
  BY DEF Cells
<1>3. d = [kind |-> d.kind, bits |-> d.bits, slots |-> d.slots]
  <2> HIDE DEF d
  <2> QED
    BY <1>1 DEF Cells
<1> QED
  BY <1>2, <1>3

\* Forwarding changes two cells.
LEMMA ForwardFacts ==
    ASSUME NEW m, HeapOK(m), NEW a, Copied(m, a), NEW o \in Addresses, o # a
    PROVE  LET n == Forward(m, a, o) IN
           /\ n \in Memories /\ SameRest(m, n) /\ SameLists(m, n)
           /\ n.survivorStart = m.survivorStart /\ n.rememberedSet = m.rememberedSet
           /\ n.heap[o] = CopyOf(m, a)
           /\ n.heap[a].kind = "forwarded" /\ n.heap[a].slots = <<o>> /\ n.heap[a].bits = m.heap[a].bits
           /\ \A x \in Addresses \ {a, o} : n.heap[x] = m.heap[x]
<1> DEFINE n == Forward(m, a, o)
           h == [m.heap EXCEPT ![a].kind = "forwarded", ![a].slots = <<o>>, ![o] = CopyOf(m, a)]
<1>1. m \in Memories /\ a \in Addresses /\ m.heap \in [Addresses -> Cells]
  BY Fields DEF HeapOK, Copied
<1>2. n = [m EXCEPT !.heap = h]
  BY Zenon, <1>1 DEF Forward, Memories
<1>3. m.heap[a] \in Cells /\ CopyOf(m, a) \in Cells
  BY <1>1, CopyOfFacts
<1>4. <<o>> \in Seq(Oops) /\ "forwarded" \in Kinds
  BY NewKind DEF Oops
<1>5. /\ h \in [Addresses -> Cells]
      /\ h[o] = CopyOf(m, a)
      /\ h[a].kind = "forwarded" /\ h[a].slots = <<o>> /\ h[a].bits = m.heap[a].bits
      /\ \A x \in Addresses \ {a, o} : h[x] = m.heap[x]
  <2>1. h = [x \in Addresses |-> IF x = o THEN CopyOf(m, a)
                 ELSE IF x = a THEN [m.heap[a] EXCEPT !.kind = "forwarded", !.slots = <<o>>]
                 ELSE m.heap[x]]
    BY Zenon, <1>1
  <2>2. [m.heap[a] EXCEPT !.kind = "forwarded", !.slots = <<o>>]
           = [kind |-> "forwarded", bits |-> m.heap[a].bits, slots |-> <<o>>]
    BY <1>3, <1>4, CellWith
  <2>3. [kind |-> "forwarded", bits |-> m.heap[a].bits, slots |-> <<o>>] \in Cells
    BY <1>3, <1>4 DEF Cells
  <2> HIDE DEF h
  <2> QED
    BY <1>1, <1>3, <2>1, <2>2, <2>3
<1> HIDE DEF h
<1>6. n \in Memories /\ n.heap = h
  BY ZenonT(60), <1>1, <1>2, <1>5 DEF Memories
<1>7. /\ SameRest(m, n) /\ SameLists(m, n)
      /\ n.survivorStart = m.survivorStart /\ n.rememberedSet = m.rememberedSet
  BY <1>1, <1>2 DEF Memories, SameRest, SameLists
<1> HIDE DEF n
<1> QED
  BY <1>5, <1>6, <1>7 DEF n

\* Old space has a chunk while there is an object to copy.
LEMMA ChunkExists ==
    ASSUME NEW m, HeapOK(m), NEW a, Copied(m, a)
    PROVE  OldChunk(m) \in Addresses /\ IsOld(OldChunk(m)) /\ IsKind(m, OldChunk(m), "free")
<1> DEFINE T == {o \in OldAddresses : IsKind(m, o, "free")}
<1>1. m \in Memories /\ a \in Addresses /\ a \in Nat /\ a < OldStart /\ IsYoung(a)
  BY Layout DEF HeapOK, Copied, InSource
<1>2. T # {}
  <2> SUFFICES ASSUME T = {} PROVE FALSE
    OBVIOUS
  <2>1. OldAddresses \subseteq Objects(m) \ {a}
    <3> SUFFICES ASSUME NEW o \in OldAddresses PROVE o \in Objects(m) /\ o # a
      OBVIOUS
    <3>1. o \in Addresses /\ o \in 1 .. PermStart - 1 /\ ~IsYoung(o) /\ CellOK(m, o)
      BY Layout DEF OldAddresses, HeapOK
    <3>2. ~IsKind(m, o, "forwarded") /\ ~IsKind(m, o, "free")
      BY <3>1 DEF CellOK, InSource
    <3> QED
      BY <1>1, <3>1, <3>2 DEF Objects, IsKind, Cell
  <2>2. IsFiniteSet(Objects(m)) /\ a \in Objects(m)
    <3>1. IsFiniteSet(1 .. PermStart - 1)
      BY FS_Interval, Layout
    <3>2. Objects(m) \in SUBSET (1 .. PermStart - 1)
      BY DEF Objects
    <3>3. a \in 1 .. PermStart - 1 /\ Cell(m, a).kind \notin {"free", "forwarded"}
      BY <1>1, Layout DEF Copied
    <3> QED
      BY Zenon, <3>1, <3>2, <3>3, FS_Subset DEF Objects
  <2>3. /\ IsFiniteSet(Objects(m) \ {a})
        /\ Cardinality(Objects(m) \ {a}) = Cardinality(Objects(m)) - 1
        /\ Cardinality(Objects(m)) \in Nat
    BY <2>2, FS_RemoveElement, FS_CardinalityType
  <2>4. Cardinality(OldAddresses) = Old
    BY FS_Interval, Layout DEF OldAddresses
  <2>5. Cardinality(OldAddresses) <= Cardinality(Objects(m) \ {a})
    BY <2>1, <2>3, FS_Subset
  <2> QED
    BY <2>3, <2>4, <2>5, Layout DEF HeapOK
<1>3. PICK o \in T : \A p \in T : o <= p
  <2>1. T \subseteq Nat
    BY Layout DEF OldAddresses
  <2> QED
    BY Zenon, <1>2, <2>1, Smallest
<1>4. /\ o \in Addresses /\ IsOld(o) /\ IsKind(m, o, "free")
      /\ \A p \in OldStart .. o - 1 : ~IsKind(m, p, "free")
  <2>1. o \in Addresses /\ IsOld(o) /\ IsKind(m, o, "free") /\ o \in OldAddresses
    BY Layout
  <2>2. ASSUME NEW p \in OldStart .. o - 1 PROVE ~IsKind(m, p, "free")
    BY <1>3, <2>1, <2>2, Layout DEF OldAddresses
  <2> QED
    BY <2>1, <2>2
<1> QED
  BY <1>4 DEF OldChunk

\* The copy to old space.
LEMMA OldCopy ==
    ASSUME NEW m, HeapOK(m), NEW a, Copied(m, a)
    PROVE  \E o : Copies(m, CopyToOldSpace(m, a), a, o)
<1> DEFINE o == OldChunk(m)
           f == Forward(m, a, o)
           n == IF RefersToYoung(m, a) THEN Remember(f, o) ELSE f
<1>1. m \in Memories /\ a \in Addresses /\ InSource(m, a) /\ IsYoung(a)
  BY DEF HeapOK, Copied, InSource
<1>2. o \in Addresses /\ IsOld(o) /\ IsKind(m, o, "free") /\ o # a /\ ~IsYoung(o)
  <2>1. o \in Addresses /\ IsOld(o) /\ IsKind(m, o, "free")
    BY ChunkExists
  <2> QED
    BY <1>1, <2>1, Layout
<1>3. CopyToOldSpace(m, a) = n
  <2>1. (\E i \in DOMAIN Cell(m, a).slots : IsYoung(Slot(m, a, i))) <=> RefersToYoung(m, a)
    BY <1>1, CellFields DEF RefersToYoung
  <2> QED
    BY <2>1 DEF CopyToOldSpace, With
<1> HIDE DEF o
<1>4. /\ f \in Memories /\ SameRest(m, f) /\ SameLists(m, f)
      /\ f.survivorStart = m.survivorStart /\ f.rememberedSet = m.rememberedSet
      /\ f.heap[o] = CopyOf(m, a)
      /\ f.heap[a].kind = "forwarded" /\ f.heap[a].slots = <<o>> /\ f.heap[a].bits = m.heap[a].bits
      /\ \A x \in Addresses \ {a, o} : f.heap[x] = m.heap[x]
  BY <1>2, ForwardFacts
<1>5. CopyOf(m, a).kind = m.heap[a].kind /\ CopyOf(m, a).slots = m.heap[a].slots /\ CopyOf(m, a).bits = 0
  BY CopyOfFacts
<1> HIDE DEF f
<1>6. CASE ~RefersToYoung(m, a)
  BY <1>2, <1>3, <1>4, <1>5, <1>6 DEF Copies, Moves
<1>7. CASE RefersToYoung(m, a)
  <2> DEFINE h == [f.heap EXCEPT ![o].bits = 2 * (@ \div 2) + 1]
             r == Append(f.rememberedSet, o)
  <2>1. f.heap \in [Addresses -> Cells] /\ f.heap[o] \in Cells /\ f.heap[o].bits = 0
    BY <1>2, <1>4, <1>5, Fields
  <2>2. h = [f.heap EXCEPT ![o] = [f.heap[o] EXCEPT !.bits = 1]]
    <3>1. 2 * (f.heap[o].bits \div 2) + 1 = 1
      BY <2>1
    <3> QED
      BY <1>2, <2>1, <3>1
  <2>3. /\ [f.heap[o] EXCEPT !.bits = 1] \in Cells
        /\ [f.heap[o] EXCEPT !.bits = 1].bits = 1
        /\ [f.heap[o] EXCEPT !.bits = 1].kind = f.heap[o].kind
        /\ [f.heap[o] EXCEPT !.bits = 1].slots = f.heap[o].slots
    <3>1. 1 \in 0 .. MaxRTRefCount
      BY DEF MaxRTRefCount
    <3> QED
      BY Zenon, <2>1, <3>1 DEF Cells
  <2>4. h \in [Addresses -> Cells] /\ h[o] = [f.heap[o] EXCEPT !.bits = 1]
        /\ \A x \in Addresses \ {o} : h[x] = f.heap[x]
    BY <1>2, <2>1, <2>2, <2>3
  <2>5. n = [f EXCEPT !.heap = h, !.rememberedSet = r]
    BY Zenon, <1>4, <1>7 DEF Remember, SetRemembered, Memories
  <2>6. r \in Seq(OldAddresses)
    BY <1>2, <1>4, Fields, Layout, AppendProperties
  <2> HIDE DEF h, r
  <2>7. /\ n \in Memories /\ n.heap = h /\ n.rememberedSet = r
        /\ SameRest(f, n) /\ SameLists(f, n) /\ n.survivorStart = f.survivorStart
    BY ZenonT(60), <1>4, <2>4, <2>5, <2>6 DEF Memories, SameRest, SameLists
  <2>8. SameRest(m, n) /\ SameLists(m, n)
    BY <1>4, <2>7 DEF SameRest, SameLists
  <2>9. r = Append(m.rememberedSet, o)
    BY <1>4 DEF r
  <2> HIDE DEF n
  <2>10. /\ n.heap[o].kind = m.heap[a].kind /\ n.heap[o].slots = m.heap[a].slots /\ n.heap[o].bits = 1
         /\ n.heap[a] = f.heap[a]
         /\ \A x \in Addresses \ {a, o} : n.heap[x] = m.heap[x]
    BY ZenonT(60), <1>1, <1>2, <1>4, <1>5, <2>3, <2>4, <2>7
  <2> QED
    BY <1>2, <1>3, <1>4, <1>7, <2>7, <2>8, <2>9, <2>10 DEF Copies, Moves
<1> QED
  BY <1>6, <1>7

\* The copy to future space, when it has room.
LEMMA FutureCopy ==
    ASSUME NEW m, HeapOK(m), NEW a, Copied(m, a), m.survivorStart + 1 <= FutureLimit(m)
    PROVE  \E o : Copies(m, CopyToFutureSpace(m, a), a, o)
<1> DEFINE o == m.survivorStart
           f == Forward(m, a, o)
           n == CopyToFutureSpace(m, a)
<1>1. m \in Memories /\ a \in Addresses /\ InSource(m, a) /\ o \in Nat
  BY Fields DEF HeapOK, Copied
<1>2. o \in Addresses /\ IsKind(m, o, "free") /\ o # a /\ o < FutureLimit(m)
  <2>1. o \in FutureStart(m) .. FutureLimit(m) - 1 /\ o \in o .. FutureLimit(m) - 1
    BY <1>1, Future DEF HeapOK
  <2>2. o \in Addresses /\ CellOK(m, o)
    BY <1>1, <2>1, Future DEF HeapOK
  <2> QED
    BY <1>1, <2>1, <2>2, Future DEF CellOK, InSource
<1> HIDE DEF o
<1>4. /\ f \in Memories /\ SameRest(m, f) /\ SameLists(m, f)
      /\ f.survivorStart = m.survivorStart /\ f.rememberedSet = m.rememberedSet
      /\ f.heap[o] = CopyOf(m, a)
      /\ f.heap[a].kind = "forwarded" /\ f.heap[a].slots = <<o>> /\ f.heap[a].bits = m.heap[a].bits
      /\ \A x \in Addresses \ {a, o} : f.heap[x] = m.heap[x]
  BY <1>2, ForwardFacts
<1>5. CopyOf(m, a).kind = m.heap[a].kind /\ CopyOf(m, a).slots = m.heap[a].slots /\ CopyOf(m, a).bits = 0
  BY CopyOfFacts
<1>6. n = [f EXCEPT !.survivorStart = @ + 1]
  BY DEF CopyToFutureSpace, o
<1> HIDE DEF f, n
<1>7. /\ n \in Memories /\ n.heap = f.heap /\ n.rememberedSet = f.rememberedSet
      /\ SameRest(f, n) /\ SameLists(f, n) /\ n.survivorStart = f.survivorStart + 1
  <2>1. n = [f EXCEPT !.survivorStart = f.survivorStart + 1] /\ f.survivorStart + 1 \in Nat
    BY <1>4, <1>6, Fields
  <2>2. n \in Memories
    BY Zenon, <1>4, <2>1 DEF Memories
  <2> QED
    BY ZenonT(60), <1>4, <2>1, <2>2 DEF Memories, SameRest, SameLists
<1>8. SameRest(m, n) /\ SameLists(m, n)
  BY <1>4, <1>7 DEF SameRest, SameLists
<1>9. Copies(m, n, a, o)
  BY <1>2, <1>4, <1>5, <1>7, <1>8 DEF Copies, Moves, o
<1> QED
  BY <1>9 DEF n

\* The copy of an object, to whatever space it goes.
LEMMA CopyToCopies ==
    ASSUME NEW m, HeapOK(m), NEW a, Copied(m, a), NEW tenure
    PROVE  \E o : Copies(m, CopyTo(m, a, tenure), a, o)
<1>1. m \in Memories
  BY DEF HeapOK
<1>2. m.survivorStart + 1 > FutureLimit(m) \/ m.survivorStart + 1 <= FutureLimit(m)
  BY <1>1, Future
<1> QED
  BY <1>1, <1>2, Future, OldCopy, FutureCopy DEF CopyTo

\* What is forwarded in n and was not in m, and what is in use in n and was free.
Saved(m, n) == {a \in Addresses : IsKind(n, a, "forwarded") /\ ~IsKind(m, a, "forwarded")}
Fresh(m, n, x) == x \in Addresses /\ IsKind(m, x, "free") /\ ~IsKind(n, x, "free")

\* The spaces are where they were.
LEMMA SameSpaces ==
    ASSUME NEW m, NEW n, n.past = m.past
    PROVE  /\ FutureStart(n) = FutureStart(m) /\ FutureLimit(n) = FutureLimit(m)
           /\ \A x : InSource(n, x) <=> InSource(m, x)
<1> QED
  BY DEF FutureStart, FutureLimit, InSource

\* Where a copy is.
LEMMA CopyPlace ==
    ASSUME NEW m, HeapOK(m), NEW a, Copied(m, a), NEW n, NEW o, Moves(m, n, a, o)
    PROVE  /\ m \in Memories /\ n \in Memories /\ a \in Addresses /\ o \in Addresses /\ o # a
           /\ FutureStart(n) = FutureStart(m) /\ FutureLimit(n) = FutureLimit(m)
           /\ \A x : InSource(n, x) <=> InSource(m, x)
           /\ n.survivorStart \in m.survivorStart .. FutureLimit(m)
           /\ InSource(m, a) /\ ~InSource(m, o)
           /\ (InFuture(n, o) /\ o = m.survivorStart /\ IsYoung(o)) \/ (IsOld(o) /\ ~IsYoung(o))
           /\ ~IsPerm(o)
           /\ \A x : InFuture(n, x) <=> InFuture(m, x) \/ (x = o /\ IsYoung(o))
<1>1. m \in Memories /\ n \in Memories /\ a \in Addresses /\ o \in Addresses /\ o # a /\ n.past = m.past
  BY DEF HeapOK, Copied, Moves, SameRest
<1>2. /\ FutureStart(n) = FutureStart(m) /\ FutureLimit(n) = FutureLimit(m)
      /\ \A x : InSource(n, x) <=> InSource(m, x)
  BY <1>1, SameSpaces
<1>3. /\ m.survivorStart \in FutureStart(m) .. FutureLimit(m) /\ InSource(m, a)
      /\ FutureStart(m) \in Nat /\ FutureLimit(m) \in Nat /\ FutureLimit(m) <= EdenStart
      /\ m.survivorStart \in Nat /\ EdenStart < OldStart /\ EdenStart \in Nat /\ OldStart \in Nat
      /\ o \in Nat /\ (IsYoung(o) <=> o < OldStart) /\ (IsOld(o) <=> OldStart <= o /\ o < PermStart)
      /\ (IsPerm(o) <=> PermStart <= o) /\ OldStart <= PermStart /\ PermStart \in Nat
      /\ FutureStart(m) >= 1
  BY SMTT(60), <1>1, Future, Layout DEF HeapOK, Copied
<1>4. CASE o = m.survivorStart /\ o < FutureLimit(m) /\ n.survivorStart = o + 1
  BY <1>1, <1>2, <1>3, <1>4 DEF InFuture, InSource
<1>5. CASE IsOld(o) /\ n.survivorStart = m.survivorStart
  BY <1>1, <1>2, <1>3, <1>5 DEF InFuture, InSource
<1> QED
  BY <1>4, <1>5 DEF Moves

\* What was used is used still, and what lives on is as it was.
LEMMA CopyUsed ==
    ASSUME NEW m, HeapOK(m), NEW a, Copied(m, a), NEW n, NEW o, Moves(m, n, a, o)
    PROVE  /\ \A x \in Addresses : n.heap[x].kind # "free" <=> m.heap[x].kind # "free" \/ x = o
           /\ \A x : Used(m, x) => Used(n, x)
           /\ \A v : Ref(m, v) => Ref(n, v)
           /\ \A x : Live(m, x) => Live(n, x) /\ n.heap[x] = m.heap[x] /\ x # a /\ x # o
           /\ Live(n, o)
           /\ \A v : Ref(m, v) => v # o
           /\ \A v : Ref(m, v) => FollowForwarded(n, v) = IF v = a THEN o ELSE FollowForwarded(m, v)
           /\ Saved(m, n) = {a}
<1>1. /\ m \in Memories /\ a \in Addresses /\ o \in Addresses /\ o # a /\ InSource(m, a) /\ ~InSource(m, o)
      /\ \A x : InSource(n, x) <=> InSource(m, x)
      /\ Nil \notin Addresses
  BY CopyPlace, Layout DEF Nil
<1>2. /\ m.heap[a].kind # "free" /\ m.heap[a].kind # "forwarded" /\ m.heap[o].kind = "free"
      /\ n.heap[o].kind = m.heap[a].kind /\ n.heap[a].kind = "forwarded" /\ n.heap[a].slots = <<o>>
      /\ \A x \in Addresses \ {a, o} : n.heap[x] = m.heap[x]
  BY DEF Copied, Cell, Moves, IsKind
<1>3. \A x \in Addresses : n.heap[x].kind # "free" <=> m.heap[x].kind # "free" \/ x = o
  BY <1>1, <1>2
<1>4. /\ \A x : Used(m, x) => Used(n, x)
      /\ \A v : Ref(m, v) => Ref(n, v)
      /\ \A x : Live(m, x) => Live(n, x) /\ n.heap[x] = m.heap[x] /\ x # a /\ x # o
      /\ Live(n, o)
      /\ \A v : Ref(m, v) => v # o
  BY <1>1, <1>2, <1>3 DEF Used, Ref, Live, IsKind
<1>5. ASSUME NEW v, Ref(m, v)
      PROVE  FollowForwarded(n, v) = IF v = a THEN o ELSE FollowForwarded(m, v)
  BY <1>1, <1>2, <1>4, <1>5 DEF FollowForwarded, IsKind, Slot, Ref, Used
<1>6. Saved(m, n) = {a}
  BY <1>1, <1>2 DEF Saved, IsKind
<1> QED
  BY <1>3, <1>4, <1>5, <1>6

\* A copy adds one object and takes one away.
LEMMA CopyObjects ==
    ASSUME NEW m, HeapOK(m), NEW a, Copied(m, a), NEW n, NEW o, Moves(m, n, a, o)
    PROVE  Cardinality(Objects(n)) = Cardinality(Objects(m))
<1>1. /\ a \in Addresses /\ o \in Addresses /\ o # a /\ IsYoung(a) /\ ~IsPerm(o)
  BY CopyPlace DEF InSource
<1>2. /\ m.heap[a].kind \notin {"free", "forwarded"} /\ m.heap[o].kind = "free"
      /\ n.heap[o].kind = m.heap[a].kind /\ n.heap[a].kind = "forwarded"
      /\ \A x \in Addresses \ {a, o} : n.heap[x] = m.heap[x]
  BY DEF Copied, Cell, Moves, IsKind
<1>3. 1 .. PermStart - 1 \subseteq Addresses /\ a \in 1 .. PermStart - 1 /\ o \in 1 .. PermStart - 1
  BY <1>1, Layout
<1>4. Objects(n) = (Objects(m) \ {a}) \cup {o}
  BY <1>1, <1>2, <1>3 DEF Objects, Cell
<1>5. IsFiniteSet(Objects(m)) /\ a \in Objects(m) /\ o \notin Objects(m)
  <2>1. IsFiniteSet(1 .. PermStart - 1)
    BY FS_Interval, Layout
  <2>2. Objects(m) \in SUBSET (1 .. PermStart - 1)
    BY DEF Objects
  <2> QED
    BY Zenon, <1>2, <1>3, <2>1, <2>2, FS_Subset DEF Objects, Cell
<1>6. /\ IsFiniteSet(Objects(m) \ {a}) /\ Cardinality(Objects(m)) \in Nat
      /\ Cardinality(Objects(m) \ {a}) = Cardinality(Objects(m)) - 1
  BY <1>5, FS_RemoveElement, FS_CardinalityType
<1>7. Cardinality((Objects(m) \ {a}) \cup {o}) = Cardinality(Objects(m) \ {a}) + 1
  BY Zenon, <1>5, <1>6, FS_AddElement
<1> QED
  BY <1>4, <1>6, <1>7

\* The heap is in order after a copy.
LEMMA CopyHeapOK ==
    ASSUME NEW m, HeapOK(m), NEW a, Copied(m, a), NEW n, NEW o, Moves(m, n, a, o)
    PROVE  HeapOK(n)
<1>1. /\ m \in Memories /\ n \in Memories /\ a \in Addresses /\ o \in Addresses /\ o # a
      /\ FutureStart(n) = FutureStart(m) /\ FutureLimit(n) = FutureLimit(m)
      /\ \A x : InSource(n, x) <=> InSource(m, x)
      /\ n.survivorStart \in m.survivorStart .. FutureLimit(m)
      /\ InSource(m, a) /\ ~InSource(m, o) /\ ~IsPerm(o) /\ (IsYoung(o) => o = m.survivorStart)
      /\ n.freeStart = m.freeStart /\ n.criterion = m.criterion
      /\ IsYoung(o) => n.survivorStart = o + 1
  BY CopyPlace, Layout DEF Moves, SameRest
<1>2. /\ m.survivorStart \in FutureStart(m) .. FutureLimit(m)
      /\ m.freeStart \in EdenStart .. OldStart
      /\ \A x \in Addresses : CellOK(m, x)
      /\ Cardinality(Objects(m)) <= Old
      /\ FutureStart(m) \in Nat /\ FutureLimit(m) \in Nat /\ m.survivorStart \in Nat /\ n.survivorStart \in Nat
  BY <1>1, Future DEF HeapOK
<1>3. /\ \A v : Ref(m, v) => Ref(n, v)
      /\ \A x : Live(m, x) => Live(n, x) /\ n.heap[x] = m.heap[x] /\ x # a /\ x # o
      /\ Live(n, o)
  BY CopyUsed
<1>4. /\ m.heap[a].kind # "free" /\ m.heap[a].kind # "forwarded" /\ m.heap[o].kind = "free"
      /\ n.heap[o].kind = m.heap[a].kind /\ n.heap[a].kind = "forwarded" /\ n.heap[a].slots = <<o>>
      /\ n.heap[a].bits = m.heap[a].bits /\ n.heap[o].slots = m.heap[a].slots
      /\ n.heap[o].bits \in {0, 1} /\ (IsYoung(o) => n.heap[o].bits = 0)
      /\ \A x \in Addresses \ {a, o} : n.heap[x] = m.heap[x]
  <2>1. IsOld(o) => ~IsYoung(o)
    BY <1>1, Layout
  <2>2. IsYoung(o) \/ IsOld(o)
    BY <1>1, Layout
  <2> QED
    BY <2>1 DEF Copied, Cell, Moves, IsKind
<1>5. CellOK(n, a)
  <2>1. CellOK(m, a)
    BY <1>1, <1>2
  <2>2. Size(n, a) = 1 /\ Slot(n, a, 1) = o /\ SlotIndices(n, a) = {1} /\ Ref(n, o)
    BY <1>3, <1>4 DEF Size, Slot, Cell, SlotIndices, Live, Ref
  <2>3. a \notin n.survivorStart .. FutureLimit(n) - 1
    BY <1>1, <1>2, Layout DEF InSource
  <2> QED
    BY <1>1, <1>3, <1>4, <2>1, <2>2, <2>3 DEF CellOK, IsKind, Cell
<1>6. CellOK(n, o)
  <2>1. CellOK(m, a)
    BY <1>1, <1>2
  <2>2. /\ Size(n, o) = Size(m, a) /\ SlotIndices(n, o) = SlotIndices(m, a)
        /\ \A i : Slot(n, o, i) = Slot(m, a, i)
    BY <1>4 DEF Size, Slot, Cell, SlotIndices
  <2>3. o \notin n.survivorStart .. FutureLimit(n) - 1
    <3>1. IsYoung(o) => n.survivorStart = o + 1
      BY <1>1
    <3>2. ~IsYoung(o) => o > FutureLimit(n) - 1
      BY <1>1, Layout, Future
    <3> QED
      BY <1>1, <1>2, <3>1, <3>2, Layout
  <2> QED
    BY <1>1, <1>3, <1>4, <2>1, <2>2, <2>3 DEF CellOK, IsKind, Cell
<1>7. ASSUME NEW x \in Addresses \ {a, o} PROVE CellOK(n, x)
  <2>1. CellOK(m, x) /\ n.heap[x] = m.heap[x]
    BY <1>2, <1>4
  <2>2. /\ Size(n, x) = Size(m, x) /\ SlotIndices(n, x) = SlotIndices(m, x)
        /\ \A i : Slot(n, x, i) = Slot(m, x, i)
    BY <2>1 DEF Size, Slot, Cell, SlotIndices
  <2>3. x \in n.survivorStart .. FutureLimit(n) - 1 => x \in m.survivorStart .. FutureLimit(m) - 1
    BY <1>1, <1>2
  <2>4. InFuture(n, x) <=> InFuture(m, x)
    BY CopyPlace
  <2> QED
    BY <1>1, <1>3, <2>1, <2>2, <2>3, <2>4 DEF CellOK, IsKind, Cell
<1>8. Cardinality(Objects(n)) = Cardinality(Objects(m))
  BY CopyObjects
<1>9. n.survivorStart \in FutureStart(n) .. FutureLimit(n) /\ n.freeStart \in EdenStart .. OldStart
  BY <1>1, <1>2
<1> QED
  BY <1>1, <1>2, <1>5, <1>6, <1>7, <1>8, <1>9 DEF HeapOK

\* b in n is a in m, with slots followed or not.
Moved(m, a, n, b) ==
    /\ Cell(n, b).kind = Cell(m, a).kind /\ Size(n, b) = Size(m, a)
    /\ \A i \in SlotIndices(m, a) :
          Slot(n, b, i) = Slot(m, a, i) \/ Slot(n, b, i) = FollowForwarded(n, Slot(m, a, i))

\* What the remembered set has more.
NewPositions(m, n) == Len(m.rememberedSet) + 1 .. Len(n.rememberedSet)

\* The remembered set is longer at its end.
Extends(m, n) ==
    /\ Len(n.rememberedSet) >= Len(m.rememberedSet)
    /\ \A p \in 1 .. Len(m.rememberedSet) : n.rememberedSet[p] = m.rememberedSet[p]
    /\ \A p \in NewPositions(m, n) : Fresh(m, n, n.rememberedSet[p])
    /\ \A p, q \in NewPositions(m, n) : n.rememberedSet[p] = n.rememberedSet[q] => p = q

\* The lists of corpses grow by corpses, of the kind that each is of.
ListsGrow(m, n) ==
    /\ Range(m.weakList) \subseteq Range(n.weakList)
    /\ Range(m.ephemeronList) \subseteq Range(n.ephemeronList)
    /\ \A c \in Range(n.weakList) \ Range(m.weakList) :
          IsKind(n, c, "forwarded") /\ IsKind(n, Slot(n, c, 1), "weak")
    /\ \A c \in Range(n.ephemeronList) \ Range(m.ephemeronList) :
          IsKind(n, c, "forwarded") /\ IsKind(n, Slot(n, c, 1), "ephemeron")

\* A live object is where it was, and its slots are followed or not.
LivesOn(m, n) ==
    \A a \in Addresses : Live(m, a) => Moved(m, a, n, a) /\ Cell(n, a).bits = Cell(m, a).bits

\* What is to be copied is, or stays where it is.
SourceMoves(m, n) ==
    /\ \A a \in Addresses : InSource(m, a) =>
          \/ n.heap[a] = m.heap[a]
          \/ /\ Copied(m, a) /\ IsKind(n, a, "forwarded")
             /\ Fresh(m, n, Slot(n, a, 1)) /\ Moved(m, a, n, Slot(n, a, 1))
    /\ \A a, b \in Saved(m, n) : Slot(n, a, 1) = Slot(n, b, 1) => a = b

\* What is new in the heap is a copy.
FreshOK(m, n) ==
    \A x : Fresh(m, n, x) =>
       /\ \E a \in Saved(m, n) : Slot(n, a, 1) = x
       /\ (InFuture(n, x) /\ x >= m.survivorStart) \/ IsOld(x)
       /\ IsOld(x) => /\ Remembered(n, x) <=> \E p \in NewPositions(m, n) : n.rememberedSet[p] = x
                      /\ RefersToYoung(n, x) => Remembered(n, x)
       /\ IsKind(n, x, "weak") => Listed(n, Range(n.weakList), x)
       /\ IsUnfired(n, x) => Listed(n, Range(n.ephemeronList), x)

\* n is m after copies, and with references that follow them.
Grows(m, n) ==
    /\ SameRest(m, n)
    /\ n.survivorStart >= m.survivorStart
    /\ Cardinality(Objects(n)) = Cardinality(Objects(m))
    /\ Extends(m, n) /\ ListsGrow(m, n) /\ LivesOn(m, n) /\ SourceMoves(m, n) /\ FreshOK(m, n)

\* A memory grows into itself.
LEMMA GrowsReflexive == ASSUME NEW m, HeapOK(m) PROVE Grows(m, m) /\ Saved(m, m) = {}
<1>1. m \in Memories /\ m.survivorStart \in Nat /\ m.rememberedSet \in Seq(OldAddresses)
  BY Fields DEF HeapOK
<1>2. Len(m.rememberedSet) \in Nat /\ NewPositions(m, m) = {}
  BY <1>1, LenProperties DEF NewPositions
<1>3. \A x : ~Fresh(m, m, x)
  BY DEF Fresh
<1>4. Saved(m, m) = {}
  BY DEF Saved
<1>5. SameRest(m, m) /\ Extends(m, m) /\ ListsGrow(m, m)
  BY <1>1, <1>2 DEF SameRest, Extends, ListsGrow
<1>6. LivesOn(m, m) /\ SourceMoves(m, m) /\ FreshOK(m, m)
  BY <1>3, <1>4 DEF LivesOn, SourceMoves, FreshOK, Moved
<1> QED
  BY <1>1, <1>4, <1>5, <1>6 DEF Grows

\* What a growth leaves alone, in terms a later one can use.
LEMMA GrowsUsed ==
    ASSUME NEW m, HeapOK(m), NEW n, HeapOK(n), Grows(m, n)
    PROVE  /\ FutureStart(n) = FutureStart(m) /\ FutureLimit(n) = FutureLimit(m)
           /\ \A x : InSource(n, x) <=> InSource(m, x)
           /\ \A x : Used(m, x) => Used(n, x)
           /\ \A x : Live(m, x) => Live(n, x)
           /\ \A v : Ref(m, v) => Ref(n, v)
           /\ \A x : InFuture(m, x) => InFuture(n, x)
           /\ \A x : IsKind(m, x, "forwarded") /\ x \in Addresses =>
                 IsKind(n, x, "forwarded") /\ Slot(n, x, 1) = Slot(m, x, 1)
           /\ \A v : Ref(m, v) /\ IsScavengeSurvivor(m, v) =>
                 FollowForwarded(n, v) = FollowForwarded(m, v) /\ IsScavengeSurvivor(n, v)
           /\ \A v : Settled(m, v) => Settled(n, v)
<1>1. /\ FutureStart(n) = FutureStart(m) /\ FutureLimit(n) = FutureLimit(m)
      /\ \A x : InSource(n, x) <=> InSource(m, x)
  BY SameSpaces DEF Grows, SameRest
<1>2. ASSUME NEW x, Used(m, x) PROVE Used(n, x)
  <2>1. CASE InSource(m, x)
    BY <1>2, <2>1 DEF Grows, SourceMoves, Used, IsKind
  <2>2. CASE ~InSource(m, x)
    BY <1>2, <2>2 DEF Grows, LivesOn, Moved, Live, Used, IsKind, Cell
  <2> QED
    BY <2>1, <2>2
<1>3. /\ \A x : Live(m, x) => Live(n, x)
      /\ \A v : Ref(m, v) => Ref(n, v)
  BY <1>1, <1>2 DEF Live, Ref
<1>4. /\ m.survivorStart \in Nat /\ n.survivorStart \in Nat /\ FutureStart(m) \in Nat
      /\ n.survivorStart >= m.survivorStart
  BY Future DEF HeapOK, Grows
<1>5. \A x : InFuture(m, x) => InFuture(n, x)
  BY <1>1, <1>4 DEF InFuture
<1>6. ASSUME NEW x \in Addresses, IsKind(m, x, "forwarded")
      PROVE  IsKind(n, x, "forwarded") /\ Slot(n, x, 1) = Slot(m, x, 1)
  <2>1. CellOK(m, x)
    BY DEF HeapOK
  <2> QED
    BY <1>6, <2>1 DEF CellOK, Grows, SourceMoves, Copied, IsKind, Cell, Slot
<1>7. ASSUME NEW v, Ref(m, v), IsScavengeSurvivor(m, v)
      PROVE  FollowForwarded(n, v) = FollowForwarded(m, v) /\ IsScavengeSurvivor(n, v)
  <2>1. CASE v # Nil /\ IsKind(m, v, "forwarded")
    <3>1. FollowForwarded(n, v) = FollowForwarded(m, v)
      BY <1>6, <1>7, <2>1 DEF FollowForwarded, Ref, Used
    <3>2. Settled(n, FollowForwarded(n, v))
      BY <1>5, <1>7, <3>1, Following DEF Settled
    <3> QED
      BY <1>3, <1>7, <3>1, <3>2, Following
  <2>2. CASE ~(v # Nil /\ IsKind(m, v, "forwarded"))
    <3>1. FollowForwarded(m, v) = v /\ Settled(m, v)
      BY <1>7, <2>2, Following DEF FollowForwarded
    <3>2. ~InSource(m, v)
      BY <1>7, <3>1, Places
    <3> QED
      BY <1>1, <1>3, <1>7, <3>1, <3>2, Following
  <2> QED
    BY <2>1, <2>2
<1>8. \A v : Settled(m, v) => Settled(n, v)
  BY <1>5 DEF Settled
<1> QED
  BY <1>1, <1>2, <1>3, <1>5, <1>6, <1>7, <1>8

\* The corpse of a weak object or of an ephemeron to be looked at is listed.
Threaded(m, n, a, o) ==
    /\ Range(n.weakList) = Range(m.weakList) \cup IF IsKind(m, a, "weak") THEN {a} ELSE {}
    /\ Range(n.ephemeronList) = Range(m.ephemeronList) \cup IF IsUnfired(n, o) THEN {a} ELSE {}

\* A copy is a growth: one object is saved, the copied one, and it is live where its corpse says.
LEMMA CopyGrows ==
    ASSUME NEW m, HeapOK(m), NEW a, Copied(m, a), NEW n, NEW o, Moves(m, n, a, o), Threaded(m, n, a, o)
    PROVE  HeapOK(n) /\ Grows(m, n) /\ Saved(m, n) = {a} /\ FollowForwarded(n, a) = o /\ Live(n, o)
<1>1. /\ m \in Memories /\ n \in Memories /\ a \in Addresses /\ o \in Addresses /\ o # a /\ HeapOK(n)
      /\ InSource(m, a) /\ ~InSource(m, o)
      /\ \A x : InSource(n, x) <=> InSource(m, x)
      /\ (InFuture(n, o) /\ o = m.survivorStart /\ IsYoung(o)) \/ (IsOld(o) /\ ~IsYoung(o))
      /\ o \in Nat /\ (IsOld(o) <=> o \in OldAddresses)
  BY CopyPlace, CopyHeapOK, Layout
<1>2. /\ m.heap[a].kind # "free" /\ m.heap[a].kind # "forwarded" /\ m.heap[o].kind = "free"
      /\ n.heap[o].kind = m.heap[a].kind /\ n.heap[a].kind = "forwarded" /\ n.heap[a].slots = <<o>>
      /\ n.heap[o].slots = m.heap[a].slots
      /\ \A x \in Addresses \ {a, o} : n.heap[x] = m.heap[x]
  BY DEF Copied, Cell, Moves, IsKind
<1>3. /\ Saved(m, n) = {a} /\ \A x : Live(m, x) => Live(n, x) /\ n.heap[x] = m.heap[x] /\ x # a /\ x # o
      /\ \A v : Ref(m, v) => FollowForwarded(n, v) = IF v = a THEN o ELSE FollowForwarded(m, v)
      /\ Live(n, o) /\ Ref(m, a)
  BY <1>1, <1>2, CopyUsed DEF Ref, Used, IsKind
<1>4. \A x : Fresh(m, n, x) <=> x = o
  <2>1. \A x \in Addresses : n.heap[x].kind # "free" <=> m.heap[x].kind # "free" \/ x = o
    BY CopyUsed
  <2> QED
    BY Zenon, <1>1, <1>2, <2>1 DEF Fresh, IsKind
<1>5. Slot(n, a, 1) = o
  BY <1>2 DEF Slot
<1>6. Moved(m, a, n, o)
  BY <1>2 DEF Moved, Cell, Size, Slot
<1>7. SourceMoves(m, n)
  <2>1. \A x \in Addresses : InSource(m, x) => x # o
    BY <1>1
  <2> QED
    BY <1>1, <1>2, <1>3, <1>4, <1>5, <1>6, <2>1 DEF SourceMoves, IsKind
<1>8. LivesOn(m, n)
  BY <1>3 DEF LivesOn, Moved, Cell, Size, Slot
<1>9. /\ m.rememberedSet \in Seq(OldAddresses) /\ Len(m.rememberedSet) \in Nat
      /\ m.survivorStart \in Nat
  BY <1>1, Fields, LenProperties
<1>10. \/ /\ n.rememberedSet = m.rememberedSet /\ NewPositions(m, n) = {}
          /\ IsOld(o) => ~RefersToYoung(m, a) /\ n.heap[o].bits = 0
       \/ /\ n.rememberedSet = Append(m.rememberedSet, o) /\ IsOld(o)
          /\ n.heap[o].bits = 1 /\ NewPositions(m, n) = {Len(m.rememberedSet) + 1}
          /\ n.rememberedSet[Len(m.rememberedSet) + 1] = o
          /\ Len(n.rememberedSet) = Len(m.rememberedSet) + 1
          /\ \A p \in 1 .. Len(m.rememberedSet) : n.rememberedSet[p] = m.rememberedSet[p]
  <2>1. CASE n.rememberedSet = m.rememberedSet
    <3>1. NewPositions(m, n) = {}
      BY <1>9, <2>1 DEF NewPositions
    <3>2. IsOld(o) => ~RefersToYoung(m, a) /\ n.heap[o].bits = 0
      <4> SUFFICES ASSUME IsOld(o) PROVE ~RefersToYoung(m, a) /\ n.heap[o].bits = 0
        OBVIOUS
      <4>1. Append(m.rememberedSet, o) # m.rememberedSet
        BY <1>1, <1>9, AppendProperties
      <4>2. ~(o < FutureLimit(m))
        BY <1>1, <1>9, Future, Layout
      <4> QED
        BY <2>1, <4>1, <4>2 DEF Moves
    <3> QED
      BY <2>1, <3>1, <3>2
  <2>2. CASE n.rememberedSet = Append(m.rememberedSet, o) /\ IsOld(o) /\ n.heap[o].bits = 1
    <3>1. /\ Len(n.rememberedSet) = Len(m.rememberedSet) + 1
          /\ n.rememberedSet[Len(m.rememberedSet) + 1] = o
          /\ \A p \in 1 .. Len(m.rememberedSet) : n.rememberedSet[p] = m.rememberedSet[p]
      BY <1>1, <1>9, <2>2, AppendProperties
    <3>2. NewPositions(m, n) = {Len(m.rememberedSet) + 1}
      BY <1>9, <3>1 DEF NewPositions
    <3> QED
      BY <2>2, <3>1, <3>2
  <2> QED
    BY <1>1, <2>1, <2>2 DEF Moves
<1>11. Extends(m, n)
  BY <1>4, <1>9, <1>10 DEF Extends
<1>12. ListsGrow(m, n)
  <2>1. IsKind(n, a, "forwarded") /\ Slot(n, a, 1) = o
    BY <1>2, <1>5 DEF IsKind
  <2>2. IsKind(m, a, "weak") => IsKind(n, o, "weak")
    BY <1>2 DEF IsKind
  <2>3. IsUnfired(n, o) => IsKind(n, o, "ephemeron")
    BY DEF IsUnfired
  <2> QED
    BY <2>1, <2>2, <2>3 DEF ListsGrow, Threaded
<1>13. FreshOK(m, n)
  <2>1. RefersToYoung(n, o) <=> RefersToYoung(m, a)
    BY <1>2 DEF RefersToYoung, SlotIndices, Size, Slot, Cell
  <2>2. IsOld(o) => /\ Remembered(n, o) <=> \E p \in NewPositions(m, n) : n.rememberedSet[p] = o
                    /\ RefersToYoung(n, o) => Remembered(n, o)
    <3>1. 0 % 2 = 0 /\ 1 % 2 = 1
      OBVIOUS
    <3> QED
      BY <1>10, <2>1, <3>1 DEF Remembered
  <2>3. FollowForwarded(n, a) = o
    BY <1>3
  <2>4. IsKind(n, o, "weak") => Listed(n, Range(n.weakList), o)
    BY <1>2, <2>3 DEF Threaded, Listed, IsKind
  <2>5. IsUnfired(n, o) => Listed(n, Range(n.ephemeronList), o)
    BY <2>3 DEF Threaded, Listed
  <2>6. (InFuture(n, o) /\ o >= m.survivorStart) \/ IsOld(o)
    BY <1>1, <1>9
  <2>7. \E c \in Saved(m, n) : Slot(n, c, 1) = o
    BY <1>3, <1>5
  <2> QED
    BY <1>4, <2>2, <2>4, <2>5, <2>6, <2>7 DEF FreshOK
<1>14. Cardinality(Objects(n)) = Cardinality(Objects(m))
  BY CopyObjects
<1>15. n.survivorStart >= m.survivorStart
  BY <1>9 DEF Moves
<1>16. FollowForwarded(n, a) = o
  BY <1>3
<1> QED
  BY <1>1, <1>3, <1>7, <1>8, <1>11, <1>12, <1>13, <1>14, <1>15, <1>16 DEF Grows, Moves

\* What becomes of an object that lives on.
LEMMA LiveFacts ==
    ASSUME NEW m, HeapOK(m), NEW n, HeapOK(n), Grows(m, n), NEW a, Live(m, a)
    PROVE  /\ a \in Addresses /\ Live(n, a)
           /\ Cell(n, a).kind = Cell(m, a).kind /\ Cell(n, a).bits = Cell(m, a).bits
           /\ Size(n, a) = Size(m, a) /\ SlotIndices(n, a) = SlotIndices(m, a)
           /\ \A i \in SlotIndices(m, a) :
                 /\ Ref(m, Slot(m, a, i)) /\ Ref(n, Slot(n, a, i))
                 /\ \/ Slot(n, a, i) = Slot(m, a, i)
                    \/ Slot(n, a, i) = FollowForwarded(n, Slot(m, a, i))
                 /\ Settled(m, Slot(m, a, i)) => Slot(n, a, i) = Slot(m, a, i) /\ Settled(n, Slot(n, a, i))
                 /\ IsYoung(Slot(n, a, i)) => IsYoung(Slot(m, a, i))
                 /\ IsScavengeSurvivor(m, Slot(m, a, i)) => IsScavengeSurvivor(n, Slot(n, a, i))
<1>1. a \in Addresses /\ Live(n, a) /\ Moved(m, a, n, a) /\ Cell(n, a).bits = Cell(m, a).bits
  BY GrowsUsed DEF Grows, LivesOn, Live, Used
<1>2. CellOK(m, a) /\ CellOK(n, a)
  BY <1>1 DEF HeapOK
<1>3. /\ Cell(n, a).kind = Cell(m, a).kind
      /\ Size(n, a) = Size(m, a) /\ SlotIndices(n, a) = SlotIndices(m, a)
  BY <1>1 DEF Moved, SlotIndices
<1>4. ASSUME NEW i \in SlotIndices(m, a)
      PROVE  /\ Ref(m, Slot(m, a, i)) /\ Ref(n, Slot(n, a, i))
             /\ \/ Slot(n, a, i) = Slot(m, a, i)
                \/ Slot(n, a, i) = FollowForwarded(n, Slot(m, a, i))
             /\ Settled(m, Slot(m, a, i)) => Slot(n, a, i) = Slot(m, a, i) /\ Settled(n, Slot(n, a, i))
             /\ IsYoung(Slot(n, a, i)) => IsYoung(Slot(m, a, i))
             /\ IsScavengeSurvivor(m, Slot(m, a, i)) => IsScavengeSurvivor(n, Slot(n, a, i))
  <2> DEFINE v == Slot(m, a, i)
             w == Slot(n, a, i)
  <2>1. Ref(m, v) /\ Ref(n, w) /\ (w = v \/ w = FollowForwarded(n, v))
    BY <1>1, <1>2, <1>3, <1>4 DEF CellOK, Moved
  <2> HIDE DEF v, w
  <2>2. Ref(n, v)
    BY <2>1, GrowsUsed
  <2>3. Settled(m, v) => w = v /\ Settled(n, w)
    <3> SUFFICES ASSUME Settled(m, v) PROVE w = v /\ Settled(n, w)
      OBVIOUS
    <3>1. Settled(n, v)
      BY GrowsUsed
    <3>2. ~InSource(n, v)
      BY <2>2, <3>1, Places
    <3> QED
      BY <2>1, <2>2, <3>1, <3>2, Following
  <2>4. IsYoung(w) => IsYoung(v)
    BY <2>1, <2>2, Following DEF InSource
  <2>5. IsScavengeSurvivor(m, v) => IsScavengeSurvivor(n, w)
    <3> SUFFICES ASSUME IsScavengeSurvivor(m, v) PROVE IsScavengeSurvivor(n, w)
      OBVIOUS
    <3>1. IsScavengeSurvivor(n, v)
      BY <2>1, GrowsUsed
    <3>2. CASE w = FollowForwarded(n, v)
      <4>1. Settled(n, w)
        BY <2>2, <3>1, <3>2, Following
      <4>2. ~InSource(n, w)
        BY <2>1, <4>1, Places
      <4> QED
        BY <2>1, <4>2, Following
    <3> QED
      BY <2>1, <3>1, <3>2
  <2> QED
    BY <2>1, <2>3, <2>4, <2>5 DEF v, w
<1> QED
  BY <1>1, <1>3, <1>4

\* What was done stays so, and an ephemeron is put off no later than it was.
LEMMA LiveStays ==
    ASSUME NEW m, HeapOK(m), NEW n, HeapOK(n), Grows(m, n), NEW a, Live(m, a)
    PROVE  /\ Done(m, a) => Done(n, a)
           /\ AllSettled(m, a) => AllSettled(n, a)
           /\ HasNew(m, a) => HasNew(n, a)
           /\ RefersToYoung(n, a) => RefersToYoung(m, a)
           /\ IsUnfired(n, a) => IsUnfired(m, a)
           /\ \A kind : IsKind(n, a, kind) <=> IsKind(m, a, kind)
           /\ Remembered(n, a) <=> Remembered(m, a)
<1>1. /\ a \in Addresses /\ CellOK(m, a)
      /\ Cell(n, a).kind = Cell(m, a).kind /\ Cell(n, a).bits = Cell(m, a).bits
      /\ Size(n, a) = Size(m, a) /\ SlotIndices(n, a) = SlotIndices(m, a) /\ Size(m, a) \in Nat
  BY LiveFacts, CellFields DEF HeapOK
<1>2. \A kind : IsKind(n, a, kind) <=> IsKind(m, a, kind)
  BY <1>1 DEF IsKind, Cell
<1>3. Remembered(n, a) <=> Remembered(m, a)
  BY <1>1 DEF Remembered, Cell
<1>4. Done(m, a) => Done(n, a)
  <2>1. StrongSlots(Cell(m, a).kind, Size(m, a)) \subseteq SlotIndices(m, a)
    BY <1>1 DEF StrongSlots, SlotIndices, WeakFixed, CellOK, IsKind, Cell
  <2> QED
    BY <1>1, <2>1, LiveFacts DEF Done
<1>5. AllSettled(m, a) => AllSettled(n, a)
  BY <1>1, LiveFacts DEF AllSettled
<1>6. HasNew(m, a) => HasNew(n, a)
  <2> SUFFICES ASSUME NEW i \in SlotIndices(m, a), InFuture(m, Slot(m, a, i))
               PROVE  InFuture(n, Slot(n, a, i))
    BY <1>1 DEF HasNew
  <2>1. Slot(n, a, i) = Slot(m, a, i)
    BY LiveFacts DEF Settled
  <2> QED
    BY <2>1, GrowsUsed
<1>7. RefersToYoung(n, a) => RefersToYoung(m, a)
  BY <1>1, LiveFacts DEF RefersToYoung
<1>8. IsUnfired(n, a) => IsUnfired(m, a)
  <2> SUFFICES ASSUME IsUnfired(n, a) PROVE IsUnfired(m, a)
    OBVIOUS
  <2>1. IsKind(m, a, "ephemeron") /\ 1 \in SlotIndices(m, a)
    BY <1>1, <1>2 DEF IsUnfired, CellOK, SlotIndices
  <2> QED
    BY <2>1, LiveFacts DEF IsUnfired
<1> QED
  BY <1>2, <1>3, <1>4, <1>5, <1>6, <1>7, <1>8

\* An object that a list of corpses leads to stays one through a growth.
LEMMA ListedStays ==
    ASSUME NEW m, HeapOK(m), NEW n, HeapOK(n), Grows(m, n), NEW a, Live(m, a),
           NEW C, C \subseteq Addresses, Listed(m, C, a)
    PROVE  Listed(n, C, a)
<1>1. PICK c \in C : FollowForwarded(m, c) = a
  BY DEF Listed
<1>2. CASE IsKind(m, c, "forwarded")
  <2>1. a = Slot(m, c, 1) /\ c # Nil
    BY <1>1, <1>2, Layout DEF FollowForwarded, Nil
  <2>2. IsKind(n, c, "forwarded") /\ Slot(n, c, 1) = a
    BY <1>2, <2>1, GrowsUsed
  <2> QED
    BY <2>1, <2>2 DEF Listed, FollowForwarded
<1>3. CASE ~IsKind(m, c, "forwarded")
  <2>1. c = a
    BY <1>1, <1>3 DEF FollowForwarded
  <2>2. Live(n, a)
    BY GrowsUsed
  <2>3. FollowForwarded(n, a) = a
    BY <2>2, Following DEF Live, Ref
  <2> QED
    BY <2>1, <2>3 DEF Listed
<1> QED
  BY <1>2, <1>3

\* A growth after a growth.
LEMMA MovedOn ==
    ASSUME NEW m, HeapOK(m), NEW n, HeapOK(n), Grows(m, n), NEW k, HeapOK(k), Grows(n, k),
           NEW a \in Addresses, \A i \in SlotIndices(m, a) : Ref(m, Slot(m, a, i)),
           NEW b, Live(n, b), Moved(m, a, n, b)
    PROVE  Moved(m, a, k, b)
<1>1. /\ Cell(k, b).kind = Cell(n, b).kind /\ Size(k, b) = Size(n, b)
      /\ SlotIndices(n, b) = SlotIndices(m, a)
  BY LiveFacts DEF Moved, SlotIndices
<1>2. ASSUME NEW i \in SlotIndices(m, a)
      PROVE  Slot(k, b, i) = Slot(m, a, i) \/ Slot(k, b, i) = FollowForwarded(k, Slot(m, a, i))
  <2> DEFINE v == Slot(m, a, i)
             w == Slot(n, b, i)
             x == Slot(k, b, i)
  <2>1. w = v \/ w = FollowForwarded(n, v)
    BY <1>2 DEF Moved
  <2>2. x = w \/ x = FollowForwarded(k, w)
    BY <1>1, <1>2, LiveFacts
  <2>3. Ref(m, v) /\ Ref(n, v)
    BY <1>2, GrowsUsed
  <2> HIDE DEF v, w, x
  <2>4. CASE w = v
    BY <2>2, <2>4 DEF v, x
  <2>5. CASE w # v
    <3>1. w = FollowForwarded(n, v) /\ IsKind(n, v, "forwarded") /\ Live(n, w) /\ IsScavengeSurvivor(n, v)
      BY <2>1, <2>3, <2>5, Following, Places DEF Live, Ref
    <3>2. FollowForwarded(k, v) = w
      BY <2>3, <3>1, GrowsUsed
    <3>3. Live(k, w) /\ Ref(k, w) /\ ~InSource(k, w)
      BY <3>1, GrowsUsed DEF Live, Ref
    <3>4. FollowForwarded(k, w) = w
      BY <3>3, Following
    <3> QED
      BY <2>2, <3>2, <3>4 DEF v, x
  <2> QED
    BY <2>4, <2>5
<1> QED
  BY <1>1, <1>2 DEF Moved

\* Two growths are one, and it saves what each of the two saves.
LEMMA GrowsTwice ==
    ASSUME NEW m, HeapOK(m), NEW n, HeapOK(n), Grows(m, n), NEW k, HeapOK(k), Grows(n, k)
    PROVE  Grows(m, k) /\ Saved(m, k) = Saved(m, n) \cup Saved(n, k)
<1>1. /\ \A x : InSource(n, x) <=> InSource(m, x)
      /\ \A x : Used(m, x) => Used(n, x)
      /\ \A x : Live(m, x) => Live(n, x)
      /\ \A x : InFuture(m, x) => InFuture(n, x)
      /\ \A x : Ref(m, x) => Ref(n, x)
      /\ \A x : IsKind(m, x, "forwarded") /\ x \in Addresses =>
            IsKind(n, x, "forwarded") /\ Slot(n, x, 1) = Slot(m, x, 1)
  BY GrowsUsed
<1>2. /\ \A x : InSource(k, x) <=> InSource(n, x)
      /\ \A x : Used(n, x) => Used(k, x)
      /\ \A x : Live(n, x) => Live(k, x)
      /\ \A x : InFuture(n, x) => InFuture(k, x)
      /\ \A x : IsKind(n, x, "forwarded") /\ x \in Addresses =>
            IsKind(k, x, "forwarded") /\ Slot(k, x, 1) = Slot(n, x, 1)
  BY GrowsUsed
<1>3. Saved(m, k) = Saved(m, n) \cup Saved(n, k)
  BY <1>1, <1>2 DEF Saved
<1>4. /\ m \in Memories /\ n \in Memories /\ k \in Memories
      /\ Len(m.rememberedSet) \in Nat /\ Len(n.rememberedSet) \in Nat /\ Len(k.rememberedSet) \in Nat
      /\ m.survivorStart \in Nat /\ n.survivorStart \in Nat /\ k.survivorStart \in Nat
  BY Zenon, Fields, LenProperties DEF HeapOK
<1>5. SameRest(m, k) /\ k.survivorStart >= m.survivorStart
      /\ Cardinality(Objects(k)) = Cardinality(Objects(m))
  BY <1>4 DEF Grows, SameRest
<1>6. \A x : Fresh(m, k, x) <=> Fresh(m, n, x) \/ Fresh(n, k, x)
  BY <1>1, <1>2 DEF Fresh, Used
<1>7. \A x : Fresh(m, n, x) => ~Fresh(n, k, x)
  BY DEF Fresh
<1>8. ASSUME NEW x, Fresh(m, n, x) PROVE Live(n, x)
  <2>1. PICK a \in Saved(m, n) : Slot(n, a, 1) = x
    BY <1>8 DEF Grows, FreshOK
  <2>2. CellOK(n, a) /\ IsKind(n, a, "forwarded")
    BY DEF Saved, HeapOK
  <2> QED
    BY <2>1, <2>2 DEF CellOK
<1>9. /\ NewPositions(m, k) = NewPositions(m, n) \cup NewPositions(n, k)
      /\ \A p \in NewPositions(m, n) : k.rememberedSet[p] = n.rememberedSet[p]
      /\ \A p \in NewPositions(m, n) : Fresh(m, n, n.rememberedSet[p])
      /\ \A p \in NewPositions(n, k) : Fresh(n, k, k.rememberedSet[p])
      /\ \A p \in 1 .. Len(m.rememberedSet) : k.rememberedSet[p] = m.rememberedSet[p]
      /\ Len(k.rememberedSet) >= Len(m.rememberedSet)
  <2>1. /\ Len(n.rememberedSet) >= Len(m.rememberedSet) /\ Len(k.rememberedSet) >= Len(n.rememberedSet)
        /\ \A p \in 1 .. Len(m.rememberedSet) : n.rememberedSet[p] = m.rememberedSet[p]
        /\ \A p \in 1 .. Len(n.rememberedSet) : k.rememberedSet[p] = n.rememberedSet[p]
        /\ \A p \in NewPositions(m, n) : Fresh(m, n, n.rememberedSet[p])
        /\ \A p \in NewPositions(n, k) : Fresh(n, k, k.rememberedSet[p])
    BY Zenon DEF Grows, Extends
  <2> QED
    BY ONLY <1>4, <2>1 DEF NewPositions
<1>10. Extends(m, k)
  <2>1. \A p \in NewPositions(m, k) : Fresh(m, k, k.rememberedSet[p])
    BY <1>6, <1>9
  <2>2. ASSUME NEW p \in NewPositions(m, k), NEW q \in NewPositions(m, k),
               k.rememberedSet[p] = k.rememberedSet[q]
        PROVE  p = q
    BY <1>7, <1>9, <2>2 DEF Grows, Extends
  <2> QED
    BY <1>9, <2>1, <2>2 DEF Extends
<1>11. ListsGrow(m, k)
  <2>1. ASSUME NEW c \in Addresses, NEW kind, IsKind(n, c, "forwarded"), IsKind(n, Slot(n, c, 1), kind)
        PROVE  IsKind(k, c, "forwarded") /\ IsKind(k, Slot(k, c, 1), kind)
    <3>1. CellOK(n, c)
      BY DEF HeapOK
    <3>2. Live(n, Slot(n, c, 1))
      BY <2>1, <3>1 DEF CellOK
    <3> QED
      BY <1>2, <2>1, <3>2, LiveStays
  <2>2. Range(n.weakList) \subseteq Addresses /\ Range(n.ephemeronList) \subseteq Addresses
    BY <1>4, Fields, RangeOfSeq
  <2> QED
    BY <2>1, <2>2 DEF Grows, ListsGrow
<1>12. LivesOn(m, k)
  <2> SUFFICES ASSUME NEW a \in Addresses, Live(m, a)
               PROVE  Moved(m, a, k, a) /\ Cell(k, a).bits = Cell(m, a).bits
    BY DEF LivesOn
  <2>1. Moved(m, a, n, a) /\ Cell(n, a).bits = Cell(m, a).bits /\ Live(n, a)
    BY <1>1 DEF Grows, LivesOn
  <2>2. Cell(k, a).bits = Cell(n, a).bits
    BY <2>1 DEF Grows, LivesOn
  <2>3. \A i \in SlotIndices(m, a) : Ref(m, Slot(m, a, i))
    BY DEF HeapOK, CellOK
  <2> QED
    BY <2>1, <2>2, <2>3, MovedOn
<1>13. SourceMoves(m, k)
  <2>1. ASSUME NEW a \in Addresses, InSource(m, a)
        PROVE  \/ k.heap[a] = m.heap[a]
               \/ /\ Copied(m, a) /\ IsKind(k, a, "forwarded")
                  /\ Fresh(m, k, Slot(k, a, 1)) /\ Moved(m, a, k, Slot(k, a, 1))
    <3>1. CASE n.heap[a] = m.heap[a]
      <4>1. \/ k.heap[a] = n.heap[a]
            \/ /\ Copied(n, a) /\ IsKind(k, a, "forwarded")
               /\ Fresh(n, k, Slot(k, a, 1)) /\ Moved(n, a, k, Slot(k, a, 1))
        BY <1>1, <2>1 DEF Grows, SourceMoves
      <4>2. Copied(n, a) => Copied(m, a)
        BY <2>1, <3>1 DEF Copied, Cell
      <4>3. \A x : Moved(n, a, k, x) => Moved(m, a, k, x)
        BY <3>1 DEF Moved, Cell, Size, SlotIndices, Slot
      <4> QED
        BY <1>6, <3>1, <4>1, <4>2, <4>3
    <3>2. CASE n.heap[a] # m.heap[a]
      <4>1. /\ Copied(m, a) /\ IsKind(n, a, "forwarded")
            /\ Fresh(m, n, Slot(n, a, 1)) /\ Moved(m, a, n, Slot(n, a, 1))
        BY <2>1, <3>2 DEF Grows, SourceMoves
      <4>2. IsKind(k, a, "forwarded") /\ Slot(k, a, 1) = Slot(n, a, 1)
        BY <1>2, <4>1
      <4>3. \A i \in SlotIndices(m, a) : Ref(m, Slot(m, a, i))
        BY DEF HeapOK, CellOK
      <4> QED
        BY <1>6, <1>8, <4>1, <4>2, <4>3, MovedOn
    <3> QED
      BY <3>1, <3>2
  <2>2. ASSUME NEW a \in Saved(m, k), NEW b \in Saved(m, k), Slot(k, a, 1) = Slot(k, b, 1)
        PROVE  a = b
    <3>1. ASSUME NEW x \in Saved(m, n)
          PROVE  Slot(k, x, 1) = Slot(n, x, 1) /\ Used(n, Slot(k, x, 1))
      <4>1. CellOK(n, x) /\ IsKind(n, x, "forwarded") /\ x \in Addresses
        BY DEF Saved, HeapOK
      <4> QED
        BY <1>2, <4>1 DEF CellOK, Live
    <3>2. ASSUME NEW x \in Saved(n, k)
          PROVE  ~Used(n, Slot(k, x, 1))
      <4>1. IsKind(k, x, "forwarded") /\ x \in Addresses /\ ~IsKind(n, x, "forwarded")
        BY DEF Saved
      <4>2. CellOK(k, x)
        BY <4>1 DEF HeapOK
      <4>3. InSource(n, x) /\ k.heap[x] # n.heap[x]
        BY <1>2, <4>1, <4>2 DEF CellOK, IsKind
      <4>4. Fresh(n, k, Slot(k, x, 1))
        BY <4>1, <4>3 DEF Grows, SourceMoves
      <4> QED
        BY <4>4 DEF Fresh, Used
    <3> QED
      BY <1>3, <2>2, <3>1, <3>2 DEF Grows, SourceMoves
  <2> QED
    BY <2>1, <2>2 DEF SourceMoves
<1>14. FreshOK(m, k)
  <2> SUFFICES ASSUME NEW x, Fresh(m, k, x)
               PROVE  /\ \E a \in Saved(m, k) : Slot(k, a, 1) = x
                      /\ (InFuture(k, x) /\ x >= m.survivorStart) \/ IsOld(x)
                      /\ IsOld(x) => /\ Remembered(k, x) <=> \E p \in NewPositions(m, k) : k.rememberedSet[p] = x
                                     /\ RefersToYoung(k, x) => Remembered(k, x)
                      /\ IsKind(k, x, "weak") => Listed(k, Range(k.weakList), x)
                      /\ IsUnfired(k, x) => Listed(k, Range(k.ephemeronList), x)
    BY DEF FreshOK
  <2>1. CASE Fresh(m, n, x)
    <3>1. /\ \E a \in Saved(m, n) : Slot(n, a, 1) = x
          /\ (InFuture(n, x) /\ x >= m.survivorStart) \/ IsOld(x)
          /\ IsOld(x) => /\ Remembered(n, x) <=> \E p \in NewPositions(m, n) : n.rememberedSet[p] = x
                         /\ RefersToYoung(n, x) => Remembered(n, x)
          /\ IsKind(n, x, "weak") => Listed(n, Range(n.weakList), x)
          /\ IsUnfired(n, x) => Listed(n, Range(n.ephemeronList), x)
      BY <2>1 DEF Grows, FreshOK
    <3>2. Live(n, x)
      BY <1>8, <2>1
    <3>3. \E a \in Saved(m, k) : Slot(k, a, 1) = x
      BY <1>2, <1>3, <3>1 DEF Saved
    <3>4. (InFuture(k, x) /\ x >= m.survivorStart) \/ IsOld(x)
      BY <1>2, <3>1
    <3>5. /\ Remembered(k, x) <=> Remembered(n, x)
          /\ RefersToYoung(k, x) => RefersToYoung(n, x)
          /\ IsKind(k, x, "weak") => IsKind(n, x, "weak")
          /\ IsUnfired(k, x) => IsUnfired(n, x)
      BY <3>2, LiveStays
    <3>6. (\E p \in NewPositions(m, n) : n.rememberedSet[p] = x)
             <=> \E p \in NewPositions(m, k) : k.rememberedSet[p] = x
      BY <1>7, <1>9, <2>1
    <3>7. Range(n.weakList) \subseteq Addresses /\ Range(n.ephemeronList) \subseteq Addresses
      BY <1>4, Fields, RangeOfSeq
    <3>8. \A C \in SUBSET Addresses : Listed(n, C, x) => Listed(k, C, x)
      BY <3>2, ListedStays
    <3>9. /\ Listed(k, Range(n.weakList), x) => Listed(k, Range(k.weakList), x)
          /\ Listed(k, Range(n.ephemeronList), x) => Listed(k, Range(k.ephemeronList), x)
      BY DEF Grows, ListsGrow, Listed
    <3> QED
      BY <3>1, <3>3, <3>4, <3>5, <3>6, <3>7, <3>8, <3>9
  <2>2. CASE Fresh(n, k, x)
    <3>1. /\ \E a \in Saved(n, k) : Slot(k, a, 1) = x
          /\ (InFuture(k, x) /\ x >= n.survivorStart) \/ IsOld(x)
          /\ IsOld(x) => /\ Remembered(k, x) <=> \E p \in NewPositions(n, k) : k.rememberedSet[p] = x
                         /\ RefersToYoung(k, x) => Remembered(k, x)
          /\ IsKind(k, x, "weak") => Listed(k, Range(k.weakList), x)
          /\ IsUnfired(k, x) => Listed(k, Range(k.ephemeronList), x)
      BY <2>2 DEF Grows, FreshOK
    <3>2. (\E p \in NewPositions(n, k) : k.rememberedSet[p] = x)
             <=> \E p \in NewPositions(m, k) : k.rememberedSet[p] = x
      BY <1>7, <1>9, <2>2
    <3>3. x \in Nat
      BY <2>2, Layout DEF Fresh
    <3>4. n.survivorStart >= m.survivorStart
      BY DEF Grows
    <3> QED
      BY <1>3, <1>4, <3>1, <3>2, <3>3, <3>4
  <2> QED
    BY <1>6, <2>1, <2>2
<1> QED
  BY <1>3, <1>5, <1>10, <1>11, <1>12, <1>13, <1>14 DEF Grows

\* A list with one more at its front.
LEMMA Pushed ==
    ASSUME NEW S, NEW s \in Seq(S), NEW c \in S
    PROVE  <<c>> \o s \in Seq(S) /\ Range(<<c>> \o s) = Range(s) \cup {c}
<1> DEFINE t == <<c>>
<1>1. t \in Seq(S) /\ Range(t) = {c}
  BY DEF Range
<1> HIDE DEF t
<1>2. t \o s \in Seq(S)
  BY <1>1, ConcatProperties
<1>3. Range(t \o s) = Range(t) \cup Range(s)
  BY Zenon, <1>1, RangeConcatenation
<1> QED
  BY <1>1, <1>2, <1>3 DEF t

\* Only the lists differ.
LEMMA MovesAnyLists ==
    ASSUME NEW m, NEW n, NEW a, NEW o, Moves(m, n, a, o), NEW k, k \in Memories, SameRest(n, k),
           k.heap = n.heap, k.survivorStart = n.survivorStart, k.rememberedSet = n.rememberedSet
    PROVE  Moves(m, k, a, o)
<1> QED
  BY DEF Moves, SameRest

\* The memory that threading a corpse leaves.
LEMMA ThreadWeakFacts ==
    ASSUME NEW m \in Memories, NEW a \in Addresses, NEW kind
    PROVE  LET n == ThreadWeak(m, a, kind) IN
           /\ n \in Memories /\ SameRest(m, n) /\ n.heap = m.heap
           /\ n.survivorStart = m.survivorStart /\ n.rememberedSet = m.rememberedSet
           /\ n.ephemeronList = m.ephemeronList
           /\ Range(n.weakList) = Range(m.weakList) \cup IF kind = "weak" THEN {a} ELSE {}
<1> DEFINE n == ThreadWeak(m, a, kind)
           w == <<a>> \o m.weakList
<1>1. w \in Seq(Addresses) /\ Range(w) = Range(m.weakList) \cup {a}
  BY Fields, Pushed
<1>2. n = IF kind = "weak" THEN [m EXCEPT !.weakList = w] ELSE m
  BY DEF ThreadWeak
<1> HIDE DEF w
<1>3. CASE kind = "weak"
  BY ZenonT(60), <1>1, <1>2, <1>3 DEF Memories, SameRest
<1>4. CASE kind # "weak"
  BY <1>2, <1>4 DEF SameRest
<1> QED
  BY <1>3, <1>4

\* An ephemeron is listed just when its key is not a survivor, and nothing else changes.
LEMMA ThreadEphemeronFacts ==
    ASSUME NEW m \in Memories, NEW a \in Addresses, NEW kind
    PROVE  LET n == ThreadEphemeron(m, a, kind)
               listed == kind = "ephemeron" /\ ~IsScavengeSurvivor(m, Slot(m, FollowForwarded(m, a), 1))
           IN
           /\ n \in Memories /\ SameRest(m, n) /\ n.heap = m.heap
           /\ n.survivorStart = m.survivorStart /\ n.rememberedSet = m.rememberedSet
           /\ n.weakList = m.weakList
           /\ Range(n.ephemeronList) = Range(m.ephemeronList) \cup IF listed THEN {a} ELSE {}
<1> DEFINE n == ThreadEphemeron(m, a, kind)
           w == <<a>> \o m.ephemeronList
           listed == kind = "ephemeron" /\ ~IsScavengeSurvivor(m, Slot(m, FollowForwarded(m, a), 1))
<1>1. w \in Seq(Addresses) /\ Range(w) = Range(m.ephemeronList) \cup {a}
  BY Fields, Pushed
<1>2. n = IF listed THEN [m EXCEPT !.ephemeronList = w] ELSE m
  BY DEF ThreadEphemeron
<1> HIDE DEF w
<1>3. CASE listed
  <2> HIDE DEF listed
  <2>1. n = [m EXCEPT !.ephemeronList = w]
    BY <1>2, <1>3
  <2>2. /\ n \in Memories /\ SameRest(m, n) /\ n.heap = m.heap
        /\ n.survivorStart = m.survivorStart /\ n.rememberedSet = m.rememberedSet
        /\ n.weakList = m.weakList /\ n.ephemeronList = w
    <3> HIDE DEF n
    <3> QED
      BY Zenon, <1>1, <2>1 DEF Memories, SameRest
  <2> QED
    BY <1>1, <1>3, <2>2 DEF listed
<1>4. CASE ~listed
  <2> HIDE DEF listed
  <2>1. n = m
    BY <1>2, <1>4
  <2> HIDE DEF n
  <2>2. /\ n \in Memories /\ SameRest(m, n) /\ n.heap = m.heap
        /\ n.survivorStart = m.survivorStart /\ n.rememberedSet = m.rememberedSet
        /\ n.weakList = m.weakList /\ n.ephemeronList = m.ephemeronList
    BY <2>1 DEF SameRest
  <2> QED
    BY <1>4, <2>2 DEF listed, n
<1> QED
  BY <1>3, <1>4

\* Copying an object, as every scan does it.
LEMMA CopyAndForwardGrows ==
    ASSUME NEW m, HeapOK(m), NEW a, Copied(m, a)
    PROVE  LET n == CopyAndForward(m, a) IN
           HeapOK(n) /\ Grows(m, n) /\ Saved(m, n) = {a} /\ Live(n, FollowForwarded(n, a))
<1> DEFINE kind == Cell(m, a).kind
           c == CopyTo(m, a, ShouldBeTenured(m, a))
           w == ThreadWeak(c, a, kind)
           n == ThreadEphemeron(w, a, kind)
<1>1. CopyAndForward(m, a) = n
  BY DEF CopyAndForward, With
<1>2. PICK o : Copies(m, c, a, o)
  BY CopyToCopies
<1>3. a \in Addresses /\ c \in Memories /\ Moves(m, c, a, o) /\ SameLists(m, c)
  BY <1>2 DEF Copied, Copies, Moves
<1> HIDE DEF c
<1>4. /\ w \in Memories /\ SameRest(c, w) /\ w.heap = c.heap
      /\ w.survivorStart = c.survivorStart /\ w.rememberedSet = c.rememberedSet
      /\ w.ephemeronList = c.ephemeronList
      /\ Range(w.weakList) = Range(c.weakList) \cup IF kind = "weak" THEN {a} ELSE {}
  BY <1>3, ThreadWeakFacts
<1> HIDE DEF w
<1>5. Moves(m, w, a, o)
  BY <1>3, <1>4, MovesAnyLists
<1>6. FollowForwarded(w, a) = o
  <2>1. Ref(m, a)
    BY DEF Copied, Ref, Used, IsKind, Cell
  <2> QED
    BY <1>5, <2>1, CopyUsed
<1>7. /\ n \in Memories /\ SameRest(w, n) /\ n.heap = w.heap
      /\ n.survivorStart = w.survivorStart /\ n.rememberedSet = w.rememberedSet
      /\ n.weakList = w.weakList
      /\ Range(n.ephemeronList) = Range(w.ephemeronList) \cup
            IF kind = "ephemeron" /\ ~IsScavengeSurvivor(w, Slot(w, o, 1)) THEN {a} ELSE {}
  BY <1>3, <1>4, <1>6, ThreadEphemeronFacts
<1> HIDE DEF n
<1>8. Moves(m, n, a, o)
  BY <1>5, <1>7, MovesAnyLists
<1>9. IsUnfired(n, o) <=> kind = "ephemeron" /\ ~IsScavengeSurvivor(w, Slot(w, o, 1))
  <2>1. n.heap[o].kind = kind
    BY <1>8 DEF Moves, Cell
  <2>2. n.past = w.past /\ n.survivorStart = w.survivorStart
    BY <1>7 DEF SameRest
  <2>3. IsScavengeSurvivor(n, Slot(n, o, 1)) <=> IsScavengeSurvivor(w, Slot(w, o, 1))
    BY SMTT(60), <1>7, <2>2 DEF IsScavengeSurvivor, FollowForwarded, IsKind, Slot, InFuture, FutureStart
  <2> QED
    BY <2>1, <2>3 DEF IsUnfired, IsKind
<1>10. Threaded(m, n, a, o)
  <2>1. Range(n.weakList) = Range(m.weakList) \cup IF IsKind(m, a, "weak") THEN {a} ELSE {}
    BY <1>3, <1>4, <1>7 DEF SameLists, IsKind, Cell
  <2>2. Range(n.ephemeronList) = Range(m.ephemeronList) \cup IF IsUnfired(n, o) THEN {a} ELSE {}
    BY <1>3, <1>4, <1>7, <1>9 DEF SameLists
  <2> QED
    BY <2>1, <2>2 DEF Threaded
<1>11. HeapOK(n) /\ Grows(m, n) /\ Saved(m, n) = {a} /\ FollowForwarded(n, a) = o /\ Live(n, o)
  BY <1>8, <1>10, CopyGrows
<1> QED
  BY <1>1, <1>11

\* Copying a mourner is a growth; a mourner is not an ephemeron, so none is left to list.
LEMMA CopyMournerGrows ==
    ASSUME NEW m, HeapOK(m), NEW a, Copied(m, a), ~IsKind(m, a, "ephemeron")
    PROVE  LET n == CopyAndForwardMourner(m, a) IN
           HeapOK(n) /\ Grows(m, n) /\ Saved(m, n) = {a} /\ Live(n, FollowForwarded(n, a))
<1> DEFINE kind == Cell(m, a).kind
           c == CopyTo(m, a, ShouldMournerBeTenured(m))
           n == ThreadWeak(c, a, kind)
<1>1. CopyAndForwardMourner(m, a) = n
  BY DEF CopyAndForwardMourner
<1>2. PICK o : Copies(m, c, a, o)
  BY CopyToCopies
<1>3. a \in Addresses /\ c \in Memories /\ Moves(m, c, a, o) /\ SameLists(m, c)
  BY <1>2 DEF Copied, Copies, Moves
<1> HIDE DEF c
<1>4. /\ n \in Memories /\ SameRest(c, n) /\ n.heap = c.heap
      /\ n.survivorStart = c.survivorStart /\ n.rememberedSet = c.rememberedSet
      /\ n.ephemeronList = c.ephemeronList
      /\ Range(n.weakList) = Range(c.weakList) \cup IF kind = "weak" THEN {a} ELSE {}
  BY ZenonT(60), <1>3, ThreadWeakFacts
<1> HIDE DEF n
<1>5. Moves(m, n, a, o)
  BY <1>3, <1>4, MovesAnyLists
<1>6. ~IsUnfired(n, o)
  BY <1>5 DEF Moves, IsUnfired, IsKind
<1>7. Threaded(m, n, a, o)
  BY <1>3, <1>4, <1>6 DEF SameLists, IsKind, Cell, Threaded
<1>8. HeapOK(n) /\ Grows(m, n) /\ Saved(m, n) = {a} /\ FollowForwarded(n, a) = o /\ Live(n, o)
  BY <1>5, <1>7, CopyGrows
<1> QED
  BY <1>1, <1>8

\* Mapping a reference is a growth after which it has survived.
LEMMA RemapGrows ==
    ASSUME NEW m, HeapOK(m), NEW v, Ref(m, v)
    PROVE  LET n == Remap(m, v) IN
           HeapOK(n) /\ Grows(m, n) /\ Saved(m, n) \subseteq {v} /\ IsScavengeSurvivor(n, v)
<1>1. CASE IsScavengeSurvivor(m, v)
  BY <1>1, GrowsReflexive DEF Remap
<1>2. CASE ~IsScavengeSurvivor(m, v)
  <2> DEFINE n == Remap(m, v)
  <2>1. FollowForwarded(m, v) = v /\ Copied(m, v)
    BY <1>2, Following DEF Copied
  <2>2. n = CopyAndForward(m, v)
    BY <1>2, <2>1 DEF Remap
  <2>3. HeapOK(n) /\ Grows(m, n) /\ Saved(m, n) = {v} /\ Live(n, FollowForwarded(n, v))
    BY <2>1, <2>2, CopyAndForwardGrows
  <2> HIDE DEF n
  <2>4. IsScavengeSurvivor(n, v)
    <3>1. Ref(n, v)
      BY <2>3, GrowsUsed
    <3>2. Settled(n, FollowForwarded(n, v))
      BY <2>3, Places DEF Live, Ref
    <3> QED
      BY <2>3, <3>1, <3>2, Following
  <2> QED
    BY <2>3, <2>4 DEF n
<1> QED
  BY <1>1, <1>2

\* Mapping a mourner is a growth after which it has survived.
LEMMA MapMournerGrows ==
    ASSUME NEW m, HeapOK(m), NEW v, Used(m, v), ~IsKind(m, v, "ephemeron")
    PROVE  LET n == MapMourner(m, v) IN
           HeapOK(n) /\ Grows(m, n) /\ Saved(m, n) \subseteq {v} /\ IsScavengeSurvivor(n, v)
<1>1. CASE IsScavengeSurvivor(m, v)
  BY <1>1, GrowsReflexive DEF MapMourner
<1>2. CASE ~IsScavengeSurvivor(m, v)
  <2> DEFINE n == MapMourner(m, v)
  <2>0. Ref(m, v)
    BY DEF Ref
  <2>1. Copied(m, v)
    BY <1>2, <2>0, Following DEF Copied
  <2>2. n = CopyAndForwardMourner(m, v)
    BY <1>2 DEF MapMourner
  <2>3. HeapOK(n) /\ Grows(m, n) /\ Saved(m, n) = {v} /\ Live(n, FollowForwarded(n, v))
    BY <2>1, <2>2, CopyMournerGrows
  <2> HIDE DEF n
  <2>4. IsScavengeSurvivor(n, v)
    <3>1. Ref(n, v)
      BY <2>0, <2>3, GrowsUsed
    <3>2. Settled(n, FollowForwarded(n, v))
      BY <2>3, Places DEF Live, Ref
    <3> QED
      BY <2>3, <3>1, <3>2, Following
  <2> QED
    BY <2>3, <2>4 DEF n
<1> QED
  BY <1>1, <1>2

\* k is m with t in slot i of the object at a.
Stores(m, k, a, i, t) ==
    /\ k \in Memories /\ SameRest(m, k) /\ SameLists(m, k)
    /\ k.survivorStart = m.survivorStart /\ k.rememberedSet = m.rememberedSet
    /\ \A x \in Addresses \ {a} : k.heap[x] = m.heap[x]
    /\ k.heap[a].kind = m.heap[a].kind /\ k.heap[a].bits = m.heap[a].bits
    /\ Size(k, a) = Size(m, a)
    /\ Slot(k, a, i) = t
    /\ \A j \in SlotIndices(m, a) \ {i} : Slot(k, a, j) = Slot(m, a, j)

\* An assignment to one slot, field by field.
LEMMA StoreFacts ==
    ASSUME NEW m \in Memories, NEW a \in Addresses, NEW i \in SlotIndices(m, a), NEW t \in Oops
    PROVE  Stores(m, [m EXCEPT !.heap[a].slots[i] = t], a, i, t)
<1> DEFINE k == [m EXCEPT !.heap[a].slots[i] = t]
           s == [m.heap[a].slots EXCEPT ![i] = t]
           c == [m.heap[a] EXCEPT !.slots = s]
           h == [m.heap EXCEPT ![a] = c]
<1>1. /\ m.heap \in [Addresses -> Cells] /\ m.heap[a] \in Cells /\ m.heap[a].slots \in Seq(Oops)
      /\ i \in 1 .. Len(m.heap[a].slots)
  BY Fields, CellFields DEF Cell, SlotIndices, Size
<1>2. /\ s \in Seq(Oops) /\ Len(s) = Len(m.heap[a].slots) /\ s[i] = t
      /\ \A j \in 1 .. Len(m.heap[a].slots) : j # i => s[j] = m.heap[a].slots[j]
  BY <1>1, ExceptSeq
<1> HIDE DEF s
<1>3. c \in Cells /\ c.kind = m.heap[a].kind /\ c.bits = m.heap[a].bits /\ c.slots = s
  BY Zenon, <1>1, <1>2 DEF Cells
<1>4. [m.heap EXCEPT ![a].slots[i] = t] = h
  BY <1>1 DEF s
<1> HIDE DEF c
<1>5. h \in [Addresses -> Cells] /\ h[a] = c /\ \A x \in Addresses \ {a} : h[x] = m.heap[x]
  BY <1>1, <1>3
<1>6. k = [m EXCEPT !.heap = h]
  <2>1. k = [m EXCEPT !.heap = [m.heap EXCEPT ![a].slots[i] = t]]
    BY DEF Memories
  <2> QED
    BY <1>4, <2>1
<1> HIDE DEF h, k
<1>7. /\ k \in Memories /\ k.heap = h /\ SameRest(m, k) /\ SameLists(m, k)
      /\ k.survivorStart = m.survivorStart /\ k.rememberedSet = m.rememberedSet
  BY Zenon, <1>5, <1>6 DEF Memories, SameRest, SameLists
<1>8. /\ \A x \in Addresses \ {a} : k.heap[x] = m.heap[x]
      /\ k.heap[a].kind = m.heap[a].kind /\ k.heap[a].bits = m.heap[a].bits /\ k.heap[a].slots = s
  BY <1>3, <1>5, <1>7
<1>9. Stores(m, k, a, i, t)
  BY <1>2, <1>7, <1>8 DEF Stores, Size, Slot, Cell, SlotIndices
<1> QED
  BY <1>9 DEF k

\* A store of a reference leaves the heap in order.
LEMMA StoreHeapOK ==
    ASSUME NEW m, HeapOK(m), NEW a, Used(m, a), ~IsKind(m, a, "forwarded"),
           NEW i \in SlotIndices(m, a), NEW t, Ref(m, t), NEW k, Stores(m, k, a, i, t)
    PROVE  /\ HeapOK(k) /\ Objects(k) = Objects(m)
           /\ \A x : Used(k, x) <=> Used(m, x)
           /\ \A x : Live(k, x) <=> Live(m, x)
           /\ \A x : InFuture(k, x) <=> InFuture(m, x)
           /\ \A x : Ref(m, x) => Ref(k, x) /\ FollowForwarded(k, x) = FollowForwarded(m, x)
           /\ \A x : Ref(m, x) => (IsScavengeSurvivor(k, x) <=> IsScavengeSurvivor(m, x))
           /\ \A x \in Addresses : Cell(k, x).kind = Cell(m, x).kind /\ Cell(k, x).bits = Cell(m, x).bits
           /\ \A x \in Addresses : Size(k, x) = Size(m, x) /\ SlotIndices(k, x) = SlotIndices(m, x)
           /\ \A x \in Addresses : x # a => Cell(k, x) = Cell(m, x)
           /\ \A x : InSource(k, x) <=> InSource(m, x)
<1>1. /\ m \in Memories /\ k \in Memories /\ k.past = m.past /\ k.survivorStart = m.survivorStart
      /\ a \in Addresses /\ k.freeStart = m.freeStart /\ k.criterion = m.criterion
  BY DEF HeapOK, Stores, SameRest, Used
<1>2. /\ \A x \in Addresses : k.heap[x].kind = m.heap[x].kind /\ k.heap[x].bits = m.heap[x].bits
      /\ \A x \in Addresses \ {a} : k.heap[x] = m.heap[x]
      /\ \A x \in Addresses : Size(k, x) = Size(m, x) /\ SlotIndices(k, x) = SlotIndices(m, x)
  BY Zenon, <1>1 DEF Stores, Size, SlotIndices, Cell
<1>3. /\ FutureStart(k) = FutureStart(m) /\ FutureLimit(k) = FutureLimit(m)
      /\ \A x : InSource(k, x) <=> InSource(m, x)
      /\ \A x : InFuture(k, x) <=> InFuture(m, x)
  BY <1>1, SameSpaces DEF InFuture
<1>4. /\ \A x : Used(k, x) <=> Used(m, x)
      /\ \A x : Live(k, x) <=> Live(m, x)
      /\ \A x : Ref(m, x) => Ref(k, x)
  BY <1>2, <1>3 DEF Used, Live, Ref, IsKind
<1>5. \A x \in Addresses : CellOK(m, x)
  BY DEF HeapOK
<1>6. ASSUME NEW x, Ref(m, x) PROVE FollowForwarded(k, x) = FollowForwarded(m, x)
  BY <1>2, <1>6, Layout DEF FollowForwarded, IsKind, Slot, Ref, Used, Nil
<1>7. CellOK(k, a)
  <2>1. CellOK(m, a)
    BY <1>1, <1>5
  <2>2. \A j \in SlotIndices(k, a) : Ref(k, Slot(k, a, j))
    BY <1>1, <1>2, <1>4, <2>1 DEF CellOK, Stores
  <2>3. ~IsKind(k, a, "forwarded") /\ \A kind : IsKind(k, a, kind) <=> IsKind(m, a, kind)
    BY <1>1, <1>2 DEF IsKind
  <2> QED
    BY <1>1, <1>2, <1>3, <2>1, <2>2, <2>3 DEF CellOK, Cell
<1>8. ASSUME NEW x \in Addresses, x # a PROVE CellOK(k, x)
  <2>1. CellOK(m, x) /\ k.heap[x] = m.heap[x]
    BY <1>2, <1>5, <1>8
  <2>2. \A j : Slot(k, x, j) = Slot(m, x, j)
    BY <2>1 DEF Slot
  <2> QED
    BY <1>1, <1>2, <1>3, <1>4, <2>1, <2>2 DEF CellOK, IsKind, Cell
<1>9. Objects(k) = Objects(m)
  <2>1. 1 .. PermStart - 1 \subseteq Addresses
    BY Layout
  <2> QED
    BY <1>2, <2>1 DEF Objects, Cell
<1>10. HeapOK(k)
  BY <1>1, <1>3, <1>7, <1>8, <1>9 DEF HeapOK
<1>11. \A x : Ref(m, x) => (IsScavengeSurvivor(k, x) <=> IsScavengeSurvivor(m, x))
  BY <1>3, <1>6 DEF IsScavengeSurvivor
<1> QED
  BY <1>2, <1>3, <1>4, <1>6, <1>9, <1>10, <1>11 DEF Cell

\* Following the reference in a slot of an object that lives on is a growth.
LEMMA FollowSlotGrows ==
    ASSUME NEW m, HeapOK(m), NEW a, Live(m, a), NEW i \in SlotIndices(m, a),
           IsScavengeSurvivor(m, Slot(m, a, i)),
           NEW k, Stores(m, k, a, i, FollowForwarded(m, Slot(m, a, i)))
    PROVE  HeapOK(k) /\ Grows(m, k) /\ Saved(m, k) = {} /\ Settled(k, Slot(k, a, i))
<1> DEFINE v == Slot(m, a, i)
           t == FollowForwarded(m, v)
<1>1. a \in Addresses /\ Used(m, a) /\ ~InSource(m, a) /\ CellOK(m, a) /\ ~IsKind(m, a, "forwarded") /\ Ref(m, v)
  BY DEF Live, Used, HeapOK, CellOK
<1>2. Ref(m, t) /\ Settled(m, t)
  BY <1>1, Following
<1>3. /\ HeapOK(k) /\ Objects(k) = Objects(m)
      /\ \A x : Used(k, x) <=> Used(m, x)
      /\ \A x : InFuture(k, x) <=> InFuture(m, x)
      /\ \A x : Ref(m, x) => Ref(k, x) /\ FollowForwarded(k, x) = FollowForwarded(m, x)
      /\ \A x \in Addresses : Cell(k, x).kind = Cell(m, x).kind /\ Cell(k, x).bits = Cell(m, x).bits
      /\ \A x \in Addresses : Size(k, x) = Size(m, x) /\ SlotIndices(k, x) = SlotIndices(m, x)
      /\ \A x \in Addresses : x # a => Cell(k, x) = Cell(m, x)
  BY <1>1, <1>2, StoreHeapOK
<1>4. Settled(k, Slot(k, a, i))
  BY <1>2, <1>3 DEF Settled, Stores
<1>5. \A x : ~Fresh(m, k, x)
  BY <1>3 DEF Fresh, Used
<1>6. Saved(m, k) = {}
  BY <1>3 DEF Saved, IsKind, Cell
<1>7. m.rememberedSet = k.rememberedSet /\ m.weakList = k.weakList /\ m.ephemeronList = k.ephemeronList
      /\ SameRest(m, k) /\ k.survivorStart = m.survivorStart
  BY DEF Stores, SameLists
<1>8. Len(m.rememberedSet) \in Nat /\ m.survivorStart \in Nat
  BY Fields, LenProperties DEF HeapOK
<1>9. Extends(m, k) /\ ListsGrow(m, k)
  BY <1>7, <1>8 DEF Extends, ListsGrow, NewPositions
<1>10. Moved(m, a, k, a)
  <2>1. Slot(k, a, i) = t
    BY DEF Stores
  <2>2. t = FollowForwarded(k, v)
    BY <1>1, <1>3
  <2>3. \A j \in SlotIndices(m, a) : j # i => Slot(k, a, j) = Slot(m, a, j)
    BY DEF Stores
  <2> QED
    BY <1>1, <1>3, <2>1, <2>2, <2>3 DEF Moved
<1>11. LivesOn(m, k)
  <2> SUFFICES ASSUME NEW x \in Addresses, Live(m, x), x # a
               PROVE  Moved(m, x, k, x)
    BY <1>3, <1>10 DEF LivesOn
  <2> QED
    BY <1>3 DEF Moved, Size, Slot, Cell
<1>12. SourceMoves(m, k)
  BY <1>1, <1>3, <1>6 DEF SourceMoves, Cell
<1>13. FreshOK(m, k)
  BY <1>5 DEF FreshOK
<1> QED
  BY <1>3, <1>4, <1>6, <1>7, <1>8, <1>9, <1>11, <1>12, <1>13 DEF Grows

\* Scavenging one slot is a growth that saves at most what it refers to and settles it.
LEMMA ScavengeSlotGrows ==
    ASSUME NEW m, HeapOK(m), NEW a, Live(m, a), NEW i \in SlotIndices(m, a)
    PROVE  LET k == ScavengeSlot(m, a, i) IN
           /\ HeapOK(k) /\ Grows(m, k) /\ Saved(m, k) \subseteq {Slot(m, a, i)}
           /\ Settled(k, Slot(k, a, i))
<1> DEFINE v == Slot(m, a, i)
           n == Remap(m, v)
           w == Slot(n, a, i)
           k == [n EXCEPT !.heap[a].slots[i] = FollowForwarded(n, w)]
<1>1. a \in Addresses /\ Ref(m, v)
  BY DEF Live, Used, HeapOK, CellOK
<1>2. HeapOK(n) /\ Grows(m, n) /\ Saved(m, n) \subseteq {v} /\ IsScavengeSurvivor(n, v)
  BY <1>1, RemapGrows
<1>3. ScavengeSlot(m, a, i) = k
  BY Zenon DEF ScavengeSlot, With, Slot
<1> HIDE DEF n
<1>4. /\ Live(n, a) /\ SlotIndices(n, a) = SlotIndices(m, a) /\ i \in SlotIndices(n, a)
      /\ Ref(n, w) /\ (w = v \/ w = FollowForwarded(n, v))
  BY <1>2, LiveFacts
<1>5. IsScavengeSurvivor(n, w)
  <2>1. Ref(n, v)
    BY <1>1, <1>2, GrowsUsed
  <2>2. CASE w = FollowForwarded(n, v)
    <3>1. Settled(n, w)
      BY <1>2, <2>1, <2>2, Following
    <3>2. ~InSource(n, w)
      BY <1>2, <1>4, <3>1, Places
    <3> QED
      BY <1>2, <1>4, <3>2, Following
  <2> QED
    BY <1>2, <1>4, <2>2
<1>6. FollowForwarded(n, w) \in Oops
  BY <1>2, <1>4, Following, Places
<1>7. Stores(n, k, a, i, FollowForwarded(n, w))
  BY <1>1, <1>2, <1>4, <1>6, StoreFacts DEF HeapOK
<1> HIDE DEF k
<1>8. HeapOK(k) /\ Grows(n, k) /\ Saved(n, k) = {} /\ Settled(k, Slot(k, a, i))
  BY <1>2, <1>4, <1>5, <1>7, FollowSlotGrows
<1>9. Grows(m, k) /\ Saved(m, k) = Saved(m, n)
  BY <1>2, <1>8, GrowsTwice
<1> QED
  BY <1>2, <1>3, <1>8, <1>9

\* N steps of R in S from x.
IsIteration(f, S, x, R, N) ==
    f \in [0 .. N -> S] /\ f[0] = x /\ \A i \in 1 .. N : f[i] = R[<<f[i - 1], i>>]
\* One such iteration.
Iteration(S, x, R, N) == CHOOSE f : IsIteration(f, S, x, R, N)

\* An iteration exists for every number of steps.
LEMMA Iterates ==
    ASSUME NEW N \in Nat, NEW S, NEW x \in S, NEW R \in [S \X (1 .. N) -> S]
    PROVE  IsIteration(Iteration(S, x, R, N), S, x, R, N)
<1> DEFINE Is(g, n) == IsIteration(g, S, x, R, n)
           Bad == {n \in 0 .. N : ~\E g : Is(g, n)}
<1> USE DEF IsIteration
<1>1. 0 \notin Bad
  <2>1. Is([i \in 0 .. 0 |-> x], 0)
    OBVIOUS
  <2> QED
    BY Zenon, <2>1
<1>2. ASSUME NEW n \in 1 .. N, NEW g, Is(g, n - 1) PROVE \E h : Is(h, n)
  <2> DEFINE h == [i \in 0 .. n |-> IF i = n THEN R[<<g[n - 1], n>>] ELSE g[i]]
  <2>0. n - 1 \in 0 .. n - 1 /\ n \in Nat /\ n # 0 /\ 0 \in 0 .. n
    OBVIOUS
  <2>1. \A i \in 0 .. n - 1 : h[i] = g[i]
    OBVIOUS
  <2>2. h[n] = R[<<h[n - 1], n>>]
    <3>1. h[n] = R[<<g[n - 1], n>>]
      BY <2>0
    <3>2. h[n - 1] = g[n - 1]
      BY <2>0, <2>1
    <3> QED
      BY Zenon, <3>1, <3>2
  <2>3. \A i \in 1 .. n - 1 : h[i] = R[<<h[i - 1], i>>]
    BY <1>2, <2>1
  <2>4. h \in [0 .. n -> S]
    <3>1. g[n - 1] \in S
      BY <1>2, <2>0
    <3>2. R[<<g[n - 1], n>>] \in S
      BY <3>1
    <3>3. \A i \in 0 .. n : i # n => g[i] \in S
      BY <1>2
    <3> QED
      BY <3>2, <3>3
  <2>5. h[0] = x
    BY <1>2, <2>0, <2>1
  <2> HIDE DEF h
  <2>6. \A i \in 1 .. n : h[i] = R[<<h[i - 1], i>>]
    <3> TAKE i \in 1 .. n
    <3>1. i = n \/ i \in 1 .. n - 1
      OBVIOUS
    <3> QED
      BY <2>2, <2>3, <3>1
  <2> QED
    BY <2>4, <2>5, <2>6
<1>3. Bad = {}
  <2> SUFFICES ASSUME Bad # {} PROVE FALSE
    OBVIOUS
  <2>1. PICK n \in Bad : \A k \in Bad : n <= k
    <3>1. Bad \subseteq Nat
      OBVIOUS
    <3> HIDE DEF Bad
    <3> QED
      BY Zenon, <3>1, Smallest
  <2>2. n \in 1 .. N
    <3>1. n \in 0 .. N /\ n # 0
      BY Zenon, <1>1, <2>1
    <3> QED
      BY <3>1
  <2>3. n - 1 \notin Bad /\ n - 1 \in 0 .. N
    <3>1. n - 1 \in 0 .. N /\ ~(n <= n - 1)
      BY <2>2
    <3> QED
      BY Zenon, <2>1, <3>1
  <2>4. PICK g : Is(g, n - 1)
    BY <2>3
  <2>5. \E h : Is(h, n)
    BY Zenon, <1>2, <2>2, <2>4
  <2> QED
    BY <2>1, <2>5
<1>4. \E g : Is(g, N)
  BY SMTT(60), <1>3
<1> HIDE DEF IsIteration
<1> QED
  BY <1>4 DEF Iteration

\* What holds of 0, and of a number when it holds of the one before.
LEMMA UpTo ==
    ASSUME NEW N \in Nat, NEW T, 0 \in T, \A i \in 1 .. N : i - 1 \in T => i \in T
    PROVE  \A i \in 0 .. N : i \in T
<1> DEFINE Bad == {i \in 0 .. N : i \notin T}
<1> SUFFICES ASSUME Bad # {} PROVE FALSE
  OBVIOUS
<1>1. PICK i \in Bad : \A k \in Bad : i <= k
  <2>1. Bad \subseteq Nat
    OBVIOUS
  <2> HIDE DEF Bad
  <2> QED
    BY Zenon, <2>1, Smallest
<1>2. i \in 0 .. N /\ i # 0 /\ i \notin T
  BY <1>1
<1>3. i \in 1 .. N /\ i - 1 \in 0 .. N /\ ~(i <= i - 1)
  BY <1>2
<1>4. i - 1 \in T
  BY <1>1, <1>3
<1> QED
  BY <1>2, <1>3, <1>4

\* Scavenging the referents of an object is the iteration of scavenging its slots.
LEMMA ReferentsFold ==
    ASSUME NEW m, NEW a, NumStrongSlotsOf(m, a) \in Nat,
           NEW g, g \in [0 .. NumStrongSlotsOf(m, a) -> Memories], g[0] = m,
           \A i \in 1 .. NumStrongSlotsOf(m, a) : g[i] = ScavengeSlot(g[i - 1], a, i)
    PROVE  ScavengeReferentsOf(m, a) = g[NumStrongSlotsOf(m, a)]
<1> DEFINE N == NumStrongSlotsOf(m, a)
           s == [i \in 1 .. N |-> i]
           F(n, i) == ScavengeSlot(n, a, i)
           Is(h) == h = [i \in 0 .. Len(s) |-> IF i = 0 THEN m ELSE With(h[i - 1], LAMBDA n : F(n, s[i]))]
           f == CHOOSE h : Is(h)
<1>1. Len(s) = N
  OBVIOUS
<1>2. \A i \in 1 .. N : s[i] = i
  OBVIOUS
<1>3. ScavengeReferentsOf(m, a) = f[Len(s)]
  BY DEF ScavengeReferentsOf, ForEach
<1> HIDE DEF F, s
<1>4. Is(g)
  <2>1. \A i \in 0 .. N : g[i] = IF i = 0 THEN m ELSE With(g[i - 1], LAMBDA n : F(n, s[i]))
    <3> TAKE i \in 0 .. N
    <3>1. CASE i = 0
      BY <3>1
    <3>2. CASE i \in 1 .. N
      <4>1. g[i] = F(g[i - 1], i)
        BY <3>2 DEF F
      <4>2. F(g[i - 1], s[i]) = F(g[i - 1], i)
        BY <1>2, <3>2
      <4> QED
        BY <3>2, <4>1, <4>2 DEF With
    <3> QED
      BY <3>1, <3>2
  <2>2. g = [i \in 0 .. N |-> g[i]]
    OBVIOUS
  <2> QED
    BY Zenon, <1>1, <2>1, <2>2
<1>5. Is(f)
  BY <1>4
<1> HIDE DEF f
<1>6. f = [i \in 0 .. N |-> IF i = 0 THEN m ELSE With(f[i - 1], LAMBDA n : F(n, s[i]))]
  BY Zenon, <1>1, <1>5
<1>7. f[0] = m /\ \A i \in 1 .. N : f[i] = F(f[i - 1], i)
  <2>1. f[0] = m
    BY <1>6
  <2>2. ASSUME NEW i \in 1 .. N PROVE f[i] = F(f[i - 1], i)
    <3>0. i \in 0 .. N /\ i # 0
      OBVIOUS
    <3>1. f[i] = With(f[i - 1], LAMBDA n : F(n, s[i]))
      BY Zenon, <1>6, <3>0
    <3>2. f[i] = F(f[i - 1], s[i])
      BY <3>1 DEF With
    <3> QED
      BY <1>2, <3>2
  <2> QED
    BY <2>1, <2>2
<1> DEFINE T == {i \in 0 .. N : f[i] = g[i]}
<1>8. 0 \in T
  BY <1>7
<1>9. ASSUME NEW i \in 1 .. N, i - 1 \in T PROVE i \in T
  <2>1. f[i] = F(f[i - 1], i) /\ f[i - 1] = g[i - 1] /\ g[i] = F(g[i - 1], i)
    BY <1>7, <1>9 DEF F
  <2> QED
    BY <2>1
<1>10. N \in T
  <2> HIDE DEF T
  <2>1. N \in 0 .. N
    OBVIOUS
  <2> QED
    BY Zenon, <1>8, <1>9, <2>1, UpTo
<1> QED
  BY <1>1, <1>3, <1>10

\* The slots a scan goes over.
LEMMA StrongFacts ==
    ASSUME NEW m, HeapOK(m), NEW a, Live(m, a)
    PROVE  /\ NumStrongSlotsOf(m, a) \in Nat
           /\ 1 .. NumStrongSlotsOf(m, a) \subseteq SlotIndices(m, a)
           /\ ~IsUnfired(m, a) => 1 .. NumStrongSlotsOf(m, a) = StrongSlots(Cell(m, a).kind, Size(m, a))
           /\ IsUnfired(m, a) => NumStrongSlotsOf(m, a) = 0
           /\ ~IsUnfired(m, a) /\ ~IsKind(m, a, "weak") => 1 .. NumStrongSlotsOf(m, a) = SlotIndices(m, a)
<1>1. a \in Addresses /\ CellOK(m, a) /\ Size(m, a) \in Nat
  BY CellFields DEF HeapOK, Live, Used
<1>2. CASE IsKind(m, a, "weak")
  <2>1. NumStrongSlotsOf(m, a) = 1 /\ Size(m, a) >= 1 /\ Cell(m, a).kind = "weak" /\ ~IsUnfired(m, a)
    BY <1>1, <1>2 DEF NumStrongSlotsOf, WeakFixed, CellOK, IsKind, Cell, IsUnfired
  <2> QED
    BY <1>1, <1>2, <2>1 DEF SlotIndices, StrongSlots, WeakFixed
<1>3. CASE ~IsKind(m, a, "weak")
  <2>1. NumStrongSlotsOf(m, a) = IF IsUnfired(m, a) THEN 0 ELSE Size(m, a)
    BY <1>3 DEF NumStrongSlotsOf, Size
  <2>2. Cell(m, a).kind # "weak"
    BY <1>3 DEF IsKind, Cell
  <2> QED
    BY <1>1, <1>3, <2>1, <2>2 DEF SlotIndices, StrongSlots
<1> QED
  BY <1>2, <1>3

\* Scavenging the referents of an object settles each of its strong slots and saves nothing else.
LEMMA ScavengeReferents ==
    ASSUME NEW m, HeapOK(m), NEW a, Live(m, a)
    PROVE  LET n == ScavengeReferentsOf(m, a) IN
           /\ HeapOK(n) /\ Grows(m, n)
           /\ Saved(m, n) \subseteq {Slot(m, a, i) : i \in 1 .. NumStrongSlotsOf(m, a)}
           /\ \A i \in 1 .. NumStrongSlotsOf(m, a) : Settled(n, Slot(n, a, i))
<1> DEFINE N == NumStrongSlotsOf(m, a)
           Strong == {Slot(m, a, i) : i \in 1 .. N}
           S == {n \in Memories : HeapOK(n) /\ Grows(m, n) /\ Saved(m, n) \subseteq Strong}
           R == [p \in S \X (1 .. N) |-> ScavengeSlot(p[1], a, p[2])]
<1>1. N \in Nat /\ 1 .. N \subseteq SlotIndices(m, a)
  BY StrongFacts
<1> HIDE DEF N
<1>2. m \in S
  BY GrowsReflexive DEF HeapOK
<1>3. ASSUME NEW n \in S, NEW i \in 1 .. N
      PROVE  LET k == ScavengeSlot(n, a, i) IN
             k \in S /\ Settled(k, Slot(k, a, i)) /\ Grows(n, k) /\ HeapOK(n) /\ HeapOK(k)
  <2> DEFINE k == ScavengeSlot(n, a, i)
  <2>1. HeapOK(n) /\ Grows(m, n) /\ Saved(m, n) \subseteq Strong /\ i \in SlotIndices(m, a)
    BY <1>1
  <2>2. /\ Live(n, a) /\ i \in SlotIndices(n, a) /\ Ref(m, Slot(m, a, i)) /\ Ref(n, Slot(m, a, i))
        /\ \/ Slot(n, a, i) = Slot(m, a, i)
           \/ Slot(n, a, i) = FollowForwarded(n, Slot(m, a, i))
    BY <2>1, LiveFacts, GrowsUsed
  <2>3. /\ HeapOK(k) /\ Grows(n, k) /\ Saved(n, k) \subseteq {Slot(n, a, i)}
        /\ Settled(k, Slot(k, a, i))
    BY <2>1, <2>2, ScavengeSlotGrows
  <2> HIDE DEF k
  <2>4. Grows(m, k) /\ Saved(m, k) = Saved(m, n) \cup Saved(n, k)
    BY <2>1, <2>3, GrowsTwice
  <2>5. ASSUME NEW x \in Saved(n, k) PROVE x \in Strong
    <3>1. x = Slot(n, a, i) /\ InSource(k, x)
      BY <2>3 DEF Saved, HeapOK, CellOK
    <3>2. InSource(n, x)
      BY <2>1, <2>3, <3>1, GrowsUsed
    <3>3. x = Slot(m, a, i)
      BY <2>1, <2>2, <3>1, <3>2, Following DEF Live
    <3> QED
      BY <3>3
  <2>6. k \in S
    BY <2>1, <2>3, <2>4, <2>5 DEF HeapOK
  <2> QED
    BY <2>1, <2>3, <2>6 DEF k
<1>4. R \in [S \X (1 .. N) -> S]
  <2>1. \A p \in S \X (1 .. N) : p[1] \in S /\ p[2] \in 1 .. N
    OBVIOUS
  <2> HIDE DEF S
  <2> QED
    BY <1>3, <2>1
<1> DEFINE g == Iteration(S, m, R, N)
<1> HIDE DEF S, R
<1>5. g \in [0 .. N -> S] /\ g[0] = m /\ \A i \in 1 .. N : g[i] = R[<<g[i - 1], i>>]
  <2>1. IsIteration(g, S, m, R, N)
    BY <1>1, <1>2, <1>4, Iterates
  <2> HIDE DEF g
  <2> QED
    BY <2>1 DEF IsIteration
<1> HIDE DEF g
<1> USE DEF S, R
<1>6. \A i \in 1 .. N : g[i] = ScavengeSlot(g[i - 1], a, i)
  <2> TAKE i \in 1 .. N
  <2>1. i - 1 \in 0 .. N
    BY <1>1
  <2>2. g[i - 1] \in S
    BY <1>5, <2>1
  <2> HIDE DEF S
  <2> QED
    BY Zenon, <1>5, <2>2
<1>7. ScavengeReferentsOf(m, a) = g[N]
  <2>1. g \in [0 .. N -> Memories]
    BY <1>5
  <2> QED
    BY <1>1, <1>5, <1>6, <2>1, ReferentsFold DEF N
<1> DEFINE T == {i \in 0 .. N : g[i] \in S /\ \A j \in 1 .. i : Settled(g[i], Slot(g[i], a, j))}
<1>8. 0 \in T
  BY <1>1, <1>2, <1>5
<1>9. ASSUME NEW i \in 1 .. N, i - 1 \in T PROVE i \in T
  <2> DEFINE n == g[i - 1]
             k == g[i]
  <2>1. n \in S /\ (\A j \in 1 .. i - 1 : Settled(n, Slot(n, a, j))) /\ k = ScavengeSlot(n, a, i)
    BY <1>6, <1>9
  <2> HIDE DEF n, k
  <2>2. k \in S /\ Settled(k, Slot(k, a, i)) /\ Grows(n, k) /\ HeapOK(n) /\ HeapOK(k) /\ Grows(m, n)
    <3>1. n \in S => Grows(m, n)
      OBVIOUS
    <3> HIDE DEF S
    <3> QED
      BY <1>3, <2>1, <3>1
  <2>3. Live(n, a) /\ SlotIndices(n, a) = SlotIndices(m, a)
    BY <2>2, LiveFacts
  <2>4. ASSUME NEW j \in 1 .. i PROVE Settled(k, Slot(k, a, j))
    <3>1. CASE j = i
      BY <2>2, <3>1
    <3>2. CASE j # i
      <4>1. j \in 1 .. i - 1 /\ j \in 1 .. N
        BY <1>1, <3>2
      <4>2. Settled(n, Slot(n, a, j)) /\ j \in SlotIndices(n, a)
        BY <1>1, <2>1, <2>3, <4>1
      <4> QED
        BY <2>2, <2>3, <4>2, LiveFacts
    <3> QED
      BY <3>1, <3>2
  <2>5. i \in 0 .. N
    BY <1>1
  <2> QED
    BY <2>2, <2>4, <2>5 DEF k
<1>10. N \in T
  <2> HIDE DEF T
  <2>1. N \in 0 .. N
    BY <1>1
  <2> QED
    BY <1>1, <1>8, <1>9, <2>1, UpTo
<1> QED
  BY <1>7, <1>10 DEF N

\* What a scanned object refers to.
LEMMA Scanned ==
    ASSUME NEW m, HeapOK(m), NEW a, Live(m, a), ~IsUnfired(m, a)
    PROVE  LET n == ScavengeReferentsOf(m, a) IN
           /\ Live(n, a) /\ Done(n, a)
           /\ KeepsNew(n, a) => IsKind(n, a, "weak") \/ HasNew(n, a)
           /\ ~KeepsNew(n, a) => ~IsKind(n, a, "weak") /\ ~RefersToYoung(n, a)
<1> DEFINE n == ScavengeReferentsOf(m, a)
<1>1. /\ HeapOK(n) /\ Grows(m, n)
      /\ \A i \in 1 .. NumStrongSlotsOf(m, a) : Settled(n, Slot(n, a, i))
  BY ScavengeReferents
<1> HIDE DEF n
<1>2. /\ Live(n, a) /\ Cell(n, a).kind = Cell(m, a).kind /\ Size(n, a) = Size(m, a)
      /\ ~IsUnfired(n, a)
  BY <1>1, LiveFacts, LiveStays
<1>3. 1 .. NumStrongSlotsOf(m, a) = 1 .. NumStrongSlotsOf(n, a)
  BY <1>1, <1>2, StrongFacts
<1>4. Done(n, a)
  BY <1>1, <1>2, StrongFacts DEF Done
<1>5. KeepsNew(n, a) => IsKind(n, a, "weak") \/ HasNew(n, a)
  BY <1>1, <1>2, <1>3, StrongFacts DEF KeepsNew, HasNew, Settled
<1>6. ~KeepsNew(n, a) => ~IsKind(n, a, "weak") /\ ~RefersToYoung(n, a)
  BY <1>1, <1>2, StrongFacts DEF KeepsNew, RefersToYoung
<1> QED
  BY <1>2, <1>4, <1>5, <1>6 DEF n

\* The scan of an object without strong slots does nothing.
LEMMA UnfiredScan ==
    ASSUME NEW m, HeapOK(m), NEW a, Live(m, a), NumStrongSlotsOf(m, a) = 0
    PROVE  ScavengeReferentsOf(m, a) = m
<1> DEFINE g == [i \in 0 .. 0 |-> m]
<1>1. g \in [0 .. 0 -> Memories] /\ g[0] = m
  BY DEF HeapOK
<1>2. \A i \in 1 .. 0 : g[i] = ScavengeSlot(g[i - 1], a, i)
  OBVIOUS
<1> HIDE DEF g
<1>3. NumStrongSlotsOf(m, a) \in Nat
  OBVIOUS
<1>4. g \in [0 .. NumStrongSlotsOf(m, a) -> Memories]
  BY <1>1
<1>5. \A i \in 1 .. NumStrongSlotsOf(m, a) : g[i] = ScavengeSlot(g[i - 1], a, i)
  BY <1>2
<1>6. ScavengeReferentsOf(m, a) = g[NumStrongSlotsOf(m, a)]
  BY Zenon, <1>1, <1>3, <1>4, <1>5, ReferentsFold
<1> QED
  BY <1>1, <1>6

\* What a step on a sequence of addresses keeps in its range.
LEMMA InRange ==
    ASSUME NEW S, NEW s \in Seq(S)
    PROVE  /\ Len(s) \in Nat /\ DOMAIN s = 1 .. Len(s) /\ Range(s) \subseteq S
           /\ \A i \in 1 .. Len(s) : s[i] \in S /\ s[i] \in Range(s)
           /\ \A x \in Range(s) : \E i \in 1 .. Len(s) : s[i] = x
<1> QED
  BY LenProperties, ElementOfSeq, RangeOfSeq DEF Range

\* An object that refers to new space.
LEMMA YoungReferents ==
    ASSUME NEW m \in Memories, NEW a \in Addresses
    PROVE  HasYoungReferents(m, a) <=> RefersToYoung(m, a)
<1> QED
  BY CellFields DEF HasYoungReferents, RefersToYoung

\* What lives after a growth.
LEMMA LiveAfter ==
    ASSUME NEW m, HeapOK(m), NEW n, HeapOK(n), Grows(m, n), NEW a
    PROVE  /\ Live(n, a) => Live(m, a) \/ Fresh(m, n, a)
           /\ Fresh(m, n, a) => Live(n, a) /\ ~Used(m, a)
           /\ a \in Addresses /\ ~IsYoung(a) => /\ Used(m, a) <=> Live(m, a)
                                                /\ Used(n, a) <=> Live(n, a)
<1>1. InSource(n, a) <=> InSource(m, a)
  BY GrowsUsed
<1>2. Fresh(m, n, a) => (InFuture(n, a) \/ IsOld(a)) /\ a \in Addresses
  BY DEF Grows, FreshOK, Fresh
<1>3. a \in Addresses /\ InFuture(n, a) => ~InSource(n, a)
  <2>1. n \in Memories /\ n.survivorStart \in FutureStart(n) .. FutureLimit(n)
    BY DEF HeapOK
  <2> QED
    BY <2>1, Future, Layout DEF InFuture, InSource
<1>4. a \in Addresses /\ IsOld(a) => ~InSource(n, a)
  BY Layout DEF InSource
<1> QED
  BY <1>1, <1>2, <1>3, <1>4 DEF Live, Used, Fresh, InSource

\* Positions of a remembered set that has grown.
LEMMA PositionsAfter ==
    ASSUME NEW m, HeapOK(m), NEW n, HeapOK(n), Grows(m, n)
    PROVE  /\ Len(m.rememberedSet) \in Nat /\ Len(n.rememberedSet) \in Nat
           /\ Len(n.rememberedSet) >= Len(m.rememberedSet)
           /\ \A p \in 1 .. Len(m.rememberedSet) :
                 /\ n.rememberedSet[p] = m.rememberedSet[p]
                 /\ m.rememberedSet[p] \in OldAddresses
           /\ \A p \in 1 .. Len(n.rememberedSet) : n.rememberedSet[p] \in OldAddresses
           /\ \A p \in NewPositions(m, n) : Fresh(m, n, n.rememberedSet[p])
           /\ NewPositions(m, n) \subseteq 1 .. Len(n.rememberedSet)
           /\ NewPositions(m, n) \cap 1 .. Len(m.rememberedSet) = {}
<1>1. m.rememberedSet \in Seq(OldAddresses) /\ n.rememberedSet \in Seq(OldAddresses)
  BY Fields DEF HeapOK
<1>2. /\ Len(m.rememberedSet) \in Nat /\ Len(n.rememberedSet) \in Nat
      /\ \A p \in 1 .. Len(m.rememberedSet) : m.rememberedSet[p] \in OldAddresses
      /\ \A p \in 1 .. Len(n.rememberedSet) : n.rememberedSet[p] \in OldAddresses
  BY <1>1, InRange
<1> QED
  BY <1>2 DEF Grows, Extends, NewPositions

\* The three sets stay in order through a growth, the remembered set with its new positions.
LEMMA SetsGrow ==
    ASSUME NEW m, HeapOK(m), NEW n, HeapOK(n), Grows(m, n),
           NEW P, P \subseteq 1 .. Len(m.rememberedSet), SetsOK(m, P)
    PROVE  SetsOK(n, P \cup NewPositions(m, n))
<1> DEFINE Q == NewPositions(m, n)
           r == m.rememberedSet
           s == n.rememberedSet
<1>0. m \in Memories /\ n \in Memories
  BY DEF HeapOK
<1>1. \A p \in P : s[p] = r[p] /\ r[p] \in OldAddresses /\ Used(m, r[p])
  <2>1. \A p \in P : s[p] = r[p] /\ r[p] \in OldAddresses
    BY PositionsAfter
  <2> QED
    BY <2>1 DEF SetsOK, InSet
<1>2. \A p \in Q : Fresh(m, n, s[p]) /\ s[p] \in OldAddresses
  BY PositionsAfter
<1>3. \A a \in OldAddresses \cup PermAddresses : a \in Addresses /\ ~IsYoung(a)
  BY Layout DEF OldAddresses, PermAddresses, IsYoung
<1>4. ASSUME NEW a \in OldAddresses \cup PermAddresses, Live(m, a)
      PROVE  /\ Live(n, a) /\ Used(m, a) /\ Used(n, a)
             /\ Remembered(n, a) <=> Remembered(m, a)
             /\ HasYoungReferents(n, a) => HasYoungReferents(m, a)
  BY <1>0, <1>3, <1>4, LiveFacts, LiveStays, YoungReferents DEF Live
<1>5. InSet(n, s, P \cup Q, OldAddresses)
  <2>1. ASSUME NEW a \in OldAddresses
        PROVE  /\ Used(n, a) /\ Remembered(n, a) <=> \E p \in P \cup Q : s[p] = a
               /\ Used(n, a) /\ HasYoungReferents(n, a) => Remembered(n, a)
    <3>1. a \in Addresses /\ ~IsYoung(a) /\ IsOld(a)
      BY <1>3, Layout
    <3>2. CASE Live(m, a)
      <4>1. Used(m, a) /\ Remembered(m, a) <=> \E p \in P : r[p] = a
        BY Zenon DEF SetsOK, InSet
      <4>2. \A p \in Q : s[p] # a
        BY <1>2, <3>2, LiveAfter DEF Live
      <4>3. Used(m, a) /\ HasYoungReferents(m, a) => Remembered(m, a)
        BY DEF SetsOK, InSet
      <4> QED
        BY <1>1, <1>4, <3>2, <4>1, <4>2, <4>3
    <3>3. CASE Fresh(m, n, a)
      <4>1. ~Used(m, a) /\ Live(n, a) /\ Used(n, a)
        BY <3>3, LiveAfter DEF Live
      <4>2. \A p \in P : s[p] # a
        BY <1>1, <4>1
      <4>3. /\ Remembered(n, a) <=> \E p \in Q : s[p] = a
            /\ RefersToYoung(n, a) => Remembered(n, a)
        BY <3>1, <3>3 DEF Grows, FreshOK
      <4> QED
        BY Zenon, <1>0, <3>1, <4>1, <4>2, <4>3, YoungReferents
    <3>4. CASE ~Live(m, a) /\ ~Fresh(m, n, a)
      <4>1. ~Used(n, a) /\ ~Used(m, a)
        BY <3>1, <3>4, LiveAfter
      <4>2. \A p \in P \cup Q : s[p] # a
        BY Zenon, <1>1, <1>2, <3>4, <4>1
      <4> QED
        BY <4>1, <4>2
    <3> QED
      BY <3>2, <3>3, <3>4
  <2>2. ASSUME NEW p \in P \cup Q, NEW q \in P \cup Q, s[p] = s[q] PROVE p = q
    <3>1. \A x : Fresh(m, n, x) => ~Used(m, x)
      BY LiveAfter
    <3>2. CASE p \in P /\ q \in P
      BY <1>1, <2>2, <3>2 DEF SetsOK, InSet
    <3>3. CASE p \in Q /\ q \in Q
      BY <2>2, <3>3 DEF Grows, Extends
    <3> QED
      BY Zenon, <1>1, <1>2, <2>2, <3>1, <3>2, <3>3
  <2> QED
    BY Zenon, <2>1, <2>2 DEF InSet
<1>6. ASSUME NEW a \in PermAddresses
      PROVE  /\ Used(n, a) <=> Used(m, a)
             /\ Used(n, a) => (Remembered(n, a) <=> Remembered(m, a))
             /\ Used(n, a) /\ HasYoungReferents(n, a) => HasYoungReferents(m, a)
             /\ Used(n, a) => Live(m, a)
  <2>1. a \in Addresses /\ ~IsYoung(a) /\ ~IsOld(a)
    BY <1>3, Layout
  <2>2. ~Fresh(m, n, a)
    <3>1. Fresh(m, n, a) => InFuture(n, a) \/ IsOld(a)
      BY DEF Grows, FreshOK
    <3>2. a \in Nat /\ a >= OldStart
      BY <2>1, Layout
    <3>3. ~InFuture(n, a)
      BY <1>0, <3>2, Future, Layout DEF InFuture, HeapOK
    <3> QED
      BY <2>1, <3>1, <3>3
  <2>3. Used(n, a) => Live(m, a)
    BY <2>1, <2>2, LiveAfter
  <2>4. Used(m, a) => Live(m, a)
    BY <2>1, LiveAfter
  <2> QED
    BY <1>4, <2>3, <2>4
<1>7. InSet(n, n.permToNew, 1 .. Len(n.permToNew), PermAddresses)
  <2>1. n.permToNew = m.permToNew
    BY DEF Grows, SameRest
  <2> QED
    BY <1>6, <2>1 DEF SetsOK, InSet
<1>8. ASSUME NEW a \in PermAddresses, Used(n, a), RefersToOld(n, a), ~Remembered(n, a)
      PROVE  a \in Range(n.permToOld)
  <2>1. Used(m, a) /\ Live(m, a) /\ ~Remembered(m, a)
    BY <1>6, <1>8
  <2>2. a \in Addresses
    BY <1>3
  <2>3. ~RefersToYoung(m, a)
    BY <1>0, <2>1, <2>2, YoungReferents DEF SetsOK, InSet
  <2>4. RefersToOld(m, a)
    <3>1. PICK i \in SlotIndices(n, a) : IsOld(Slot(n, a, i))
      BY <1>8 DEF RefersToOld
    <3>2. i \in SlotIndices(m, a) /\ ~IsYoung(Slot(m, a, i))
      BY <2>1, <2>3, <3>1, LiveFacts DEF RefersToYoung
    <3>3. Settled(m, Slot(m, a, i))
      BY <3>2 DEF Settled
    <3>4. Slot(n, a, i) = Slot(m, a, i)
      BY <2>1, <3>2, <3>3, LiveFacts
    <3> QED
      BY <3>1, <3>2, <3>4 DEF RefersToOld
  <2>5. n.permToOld = m.permToOld
    BY DEF Grows, SameRest
  <2> QED
    BY <2>1, <2>4, <2>5 DEF SetsOK
<1> QED
  BY <1>5, <1>7, <1>8 DEF SetsOK

\* What refers to old space only is done, and so is what has all its slots settled.
LEMMA Tenured ==
    ASSUME NEW m, HeapOK(m), NEW a, Used(m, a)
    PROVE  /\ ~RefersToYoung(m, a) => AllSettled(m, a)
           /\ AllSettled(m, a) => Done(m, a)
           /\ StrongSlots(Cell(m, a).kind, Size(m, a)) \subseteq SlotIndices(m, a)
           /\ ~IsKind(m, a, "weak") => (Done(m, a) <=> AllSettled(m, a))
<1>1. a \in Addresses /\ CellOK(m, a) /\ Size(m, a) \in Nat
  BY CellFields DEF HeapOK, Used
<1>2. CASE IsKind(m, a, "weak")
  <2>1. Cell(m, a).kind = "weak" /\ Size(m, a) >= 1
    BY <1>1, <1>2 DEF CellOK, IsKind, Cell
  <2> QED
    BY <1>1, <1>2, <2>1 DEF RefersToYoung, AllSettled, Done, Settled, StrongSlots, WeakFixed, SlotIndices
<1>3. CASE ~IsKind(m, a, "weak")
  <2>1. Cell(m, a).kind # "weak"
    BY <1>3 DEF IsKind, Cell
  <2> QED
    BY <1>1, <1>3, <2>1 DEF RefersToYoung, AllSettled, Done, Settled, StrongSlots, SlotIndices
<1> QED
  BY <1>2, <1>3

\* What has a scan ahead of it keeps one through a growth.
LEMMA CoveredGrows ==
    ASSUME NEW m, HeapOK(m), NEW n, HeapOK(n), Grows(m, n),
           NEW P, P \subseteq 1 .. Len(m.rememberedSet),
           NEW C, C \subseteq Addresses, NEW D, C \subseteq D,
           NEW from, from \in Nat, from <= m.survivorStart, NEW mapped,
           Covered(m, from, P, C, mapped)
    PROVE  Covered(n, from, P \cup NewPositions(m, n), D, mapped)
<1> DEFINE Q == P \cup NewPositions(m, n)
<1> SUFFICES ASSUME NEW a \in Addresses, Live(n, a)
             PROVE  \/ Done(n, a)
                    \/ InFuture(n, a) /\ a >= from
                    \/ \E p \in Q : n.rememberedSet[p] = a
                    \/ Listed(n, D, a)
                    \/ IsPerm(a) /\ Remembered(n, a) /\ ~mapped
  BY DEF Covered
<1>1. CASE Live(m, a)
  <2>1. CASE Done(m, a)
    BY <1>1, <2>1, LiveStays
  <2>2. CASE InFuture(m, a) /\ a >= from
    BY <2>2, GrowsUsed
  <2>3. CASE \E p \in P : m.rememberedSet[p] = a
    BY <2>3, PositionsAfter
  <2>4. CASE Listed(m, C, a)
    <3>1. Listed(n, C, a)
      BY <1>1, <2>4, ListedStays
    <3> QED
      BY <3>1 DEF Listed
  <2>5. CASE IsPerm(a) /\ Remembered(m, a) /\ ~mapped
    BY <1>1, <2>5, LiveStays
  <2> QED
    BY <1>1, <2>1, <2>2, <2>3, <2>4, <2>5 DEF Covered
<1>2. CASE Fresh(m, n, a)
  <2>1. (InFuture(n, a) /\ a >= m.survivorStart) \/ IsOld(a)
    BY <1>2 DEF Grows, FreshOK
  <2>2. CASE InFuture(n, a) /\ a >= m.survivorStart
    <3>1. m.survivorStart \in Nat /\ a \in Nat
      BY Fields, Layout DEF HeapOK
    <3> QED
      BY <2>2, <3>1
  <2>3. CASE IsOld(a) /\ RefersToYoung(n, a)
    BY Zenon, <1>2, <2>3 DEF Grows, FreshOK
  <2>4. CASE ~RefersToYoung(n, a)
    BY <2>4, Tenured DEF Live
  <2> QED
    BY <2>1, <2>2, <2>3, <2>4
<1> QED
  BY <1>1, <1>2, LiveAfter

\* A growth lists the unfired ephemerons it copies.
LEMMA UnfiredGrows ==
    ASSUME NEW m, HeapOK(m), NEW n, HeapOK(n), Grows(m, n),
           NEW C, C \subseteq Addresses, NEW D, C \subseteq D, Range(n.ephemeronList) \subseteq D,
           UnfiredListed(m, C)
    PROVE  UnfiredListed(n, D)
<1> SUFFICES ASSUME NEW a \in Addresses, InFuture(n, a), IsUnfired(n, a)
             PROVE  Listed(n, D, a)
  BY DEF UnfiredListed
<1>1. Live(n, a)
  <2>1. IsKind(n, a, "ephemeron") /\ ~IsKind(n, a, "free")
    BY DEF IsUnfired, IsKind
  <2>2. n \in Memories /\ n.survivorStart \in FutureStart(n) .. FutureLimit(n)
    BY DEF HeapOK
  <2>3. ~InSource(n, a)
    BY <2>2, Future, Layout DEF InFuture, InSource
  <2> QED
    BY <2>1, <2>3 DEF Live, Used
<1>2. CASE Fresh(m, n, a)
  BY <1>2 DEF Grows, FreshOK, Listed
<1>3. CASE Live(m, a)
  <2>1. IsUnfired(m, a)
    BY <1>3, LiveStays
  <2>2. InFuture(m, a)
    <3>1. Settled(m, a)
      BY <1>3, Places DEF Ref, Live
    <3>2. IsYoung(a)
      <4>1. n \in Memories /\ a \in Nat /\ a < n.survivorStart /\ n.survivorStart \in FutureStart(n) .. FutureLimit(n)
        BY Layout, Future DEF HeapOK, InFuture
      <4> QED
        BY <4>1, Layout, Future
    <3> QED
      BY <3>1, <3>2 DEF Settled
  <2>3. Listed(m, C, a)
    BY <2>1, <2>2 DEF UnfiredListed
  <2>4. Listed(n, C, a)
    BY <1>3, <2>3, ListedStays
  <2> QED
    BY <2>4 DEF Listed
<1> QED
  BY <1>1, <1>2, <1>3, LiveAfter

\* A growth keeps a weak object in a list or in the remembered set.
LEMMA WeakGrows ==
    ASSUME NEW m, HeapOK(m), NEW n, HeapOK(n), Grows(m, n),
           NEW P, P \subseteq 1 .. Len(m.rememberedSet), WeakHeld(m, P)
    PROVE  WeakHeld(n, P \cup NewPositions(m, n))
<1> SUFFICES ASSUME NEW a \in Addresses, Live(n, a), IsKind(n, a, "weak")
             PROVE  \/ AllSettled(n, a) \/ Listed(n, Range(n.weakList), a)
                    \/ \E p \in P \cup NewPositions(m, n) : n.rememberedSet[p] = a
  BY DEF WeakHeld
<1>1. CASE Live(m, a)
  <2>1. IsKind(m, a, "weak")
    BY <1>1, LiveStays
  <2>2. CASE AllSettled(m, a)
    BY <1>1, <2>2, LiveStays
  <2>3. CASE Listed(m, Range(m.weakList), a)
    <3>1. Range(m.weakList) \subseteq Addresses /\ Range(m.weakList) \subseteq Range(n.weakList)
      BY Fields, InRange DEF HeapOK, Grows, ListsGrow
    <3>2. Listed(n, Range(m.weakList), a)
      BY <1>1, <2>3, <3>1, ListedStays
    <3> QED
      BY <3>1, <3>2 DEF Listed
  <2>4. CASE \E p \in P : m.rememberedSet[p] = a
    BY <2>4, PositionsAfter
  <2> QED
    BY <1>1, <2>1, <2>2, <2>3, <2>4 DEF WeakHeld
<1>2. CASE Fresh(m, n, a)
  BY <1>2 DEF Grows, FreshOK
<1> QED
  BY <1>1, <1>2, LiveAfter

\* The lists of corpses stay lists of corpses through a growth.
LEMMA CorpsesGrow ==
    ASSUME NEW m, HeapOK(m), NEW n, HeapOK(n), Grows(m, n),
           NEW C, C \subseteq Addresses, Range(m.ephemeronList) \subseteq C, CorpsesOK(m, C)
    PROVE  /\ CorpsesOK(n, C \cup Range(n.ephemeronList))
           /\ C \cup Range(n.ephemeronList) \subseteq Addresses
<1>1. /\ Range(n.ephemeronList) \subseteq Addresses
      /\ Range(m.weakList) \subseteq Addresses /\ Range(n.weakList) \subseteq Addresses
  BY Fields, InRange DEF HeapOK
<1>2. ASSUME NEW c \in Addresses, IsKind(m, c, "forwarded")
      PROVE  /\ IsKind(n, c, "forwarded")
             /\ Cell(n, Slot(n, c, 1)).kind = Cell(m, Slot(m, c, 1)).kind
             /\ Size(n, Slot(n, c, 1)) = Size(m, Slot(m, c, 1))
  <2>1. Live(m, Slot(m, c, 1))
    BY <1>2 DEF HeapOK, CellOK
  <2> QED
    BY <1>2, <2>1, GrowsUsed, LiveFacts
<1>3. ASSUME NEW c \in C
      PROVE  /\ c \in Addresses /\ IsKind(n, c, "forwarded")
             /\ Cell(n, Slot(n, c, 1)).kind \in {"ephemeron", "plain"}
             /\ Size(n, Slot(n, c, 1)) >= 1
  BY <1>2 DEF CorpsesOK
<1>4. ASSUME NEW c \in Range(n.ephemeronList), c \notin C
      PROVE  /\ c \in Addresses /\ IsKind(n, c, "forwarded")
             /\ Cell(n, Slot(n, c, 1)).kind \in {"ephemeron", "plain"}
             /\ Size(n, Slot(n, c, 1)) >= 1
  <2>1. IsKind(n, c, "forwarded") /\ IsKind(n, Slot(n, c, 1), "ephemeron")
    BY <1>4 DEF Grows, ListsGrow
  <2>2. c \in Addresses /\ Live(n, Slot(n, c, 1))
    BY <1>1, <2>1 DEF HeapOK, CellOK
  <2>3. CellOK(n, Slot(n, c, 1))
    BY <2>2 DEF HeapOK, Live, Used
  <2> QED
    BY <2>1, <2>2, <2>3 DEF CellOK, IsKind, Cell
<1>5. ASSUME NEW c \in Range(n.weakList)
      PROVE  IsKind(n, c, "forwarded") /\ IsKind(n, Slot(n, c, 1), "weak")
  <2>1. CASE c \in Range(m.weakList)
    <3>1. IsKind(m, c, "forwarded") /\ IsKind(m, Slot(m, c, 1), "weak")
      BY <2>1 DEF CorpsesOK
    <3> QED
      BY <1>1, <1>2, <2>1, <3>1 DEF IsKind, Cell
  <2>2. CASE c \notin Range(m.weakList)
    BY <2>2 DEF Grows, ListsGrow
  <2> QED
    BY <2>1, <2>2
<1>6. CorpsesOK(n, C \cup Range(n.ephemeronList))
  BY <1>3, <1>4, <1>5 DEF CorpsesOK
<1> QED
  BY <1>1, <1>6

\* What remembered objects keep.
LEMMA RememberedGrow ==
    ASSUME NEW m, HeapOK(m), NEW n, HeapOK(n), Grows(m, n),
           NEW Q, Q \subseteq 1 .. Len(m.rememberedSet),
           \A p \in Q : Used(m, m.rememberedSet[p])
    PROVE  /\ \A p \in Q : Live(m, m.rememberedSet[p]) /\ Live(n, n.rememberedSet[p])
           /\ EphemeronsOK(m, Q) => EphemeronsOK(n, Q)
           /\ Kept(m, Q) => Kept(n, Q)
           /\ KeptNew(m, Q) => KeptNew(n, Q)
<1>1. ASSUME NEW p \in Q
      PROVE  n.rememberedSet[p] = m.rememberedSet[p] /\ Live(m, m.rememberedSet[p])
  <2>1. n.rememberedSet[p] = m.rememberedSet[p] /\ m.rememberedSet[p] \in OldAddresses
    BY PositionsAfter
  <2>2. ~IsYoung(m.rememberedSet[p]) /\ m.rememberedSet[p] \in Addresses
    BY <2>1, Layout DEF OldAddresses, IsYoung
  <2> QED
    BY <2>1, <2>2, LiveAfter
<1>2. ASSUME NEW p \in Q
      PROVE  LET a == m.rememberedSet[p] IN
             /\ Live(n, a)
             /\ Cell(n, a).kind = Cell(m, a).kind /\ Size(n, a) = Size(m, a)
             /\ \A kind : IsKind(n, a, kind) <=> IsKind(m, a, kind)
             /\ HasNew(m, a) => HasNew(n, a)
  BY <1>1, LiveFacts, LiveStays
<1> QED
  BY Zenon, <1>1, <1>2 DEF EphemeronsOK, Kept, KeptNew

\* The members of the set are objects that live on.
LEMMA MembersLive ==
    ASSUME NEW m, HeapOK(m), NEW P, P \subseteq 1 .. Len(m.rememberedSet), SetsOK(m, P)
    PROVE  \A x \in Members(m, P) :
              x \in OldAddresses /\ x \in Addresses /\ ~IsYoung(x) /\ Used(m, x) /\ Live(m, x) /\ Remembered(m, x)
<1> SUFFICES ASSUME NEW p \in P
             PROVE  LET x == m.rememberedSet[p] IN
                    x \in OldAddresses /\ x \in Addresses /\ ~IsYoung(x) /\ Used(m, x) /\ Live(m, x) /\ Remembered(m, x)
  BY DEF Members
<1>1. m.rememberedSet[p] \in OldAddresses
  BY Fields, InRange DEF HeapOK
<1>2. Used(m, m.rememberedSet[p]) /\ Remembered(m, m.rememberedSet[p])
  BY <1>1 DEF SetsOK, InSet
<1> QED
  BY <1>1, <1>2, Layout DEF Live, InSource, OldAddresses, IsYoung

\* A permanent object that refers to a survivor does so through a growth.
LEMMA PermGrows ==
    ASSUME NEW m, HeapOK(m), NEW n, HeapOK(n), Grows(m, n), PermNew(m)
    PROVE  PermNew(n)
<1> SUFFICES ASSUME NEW a \in PermAddresses, Used(n, a), Remembered(n, a)
             PROVE  HasNew(n, a)
  BY DEF PermNew
<1>1. a \in Addresses /\ ~IsYoung(a) /\ ~IsOld(a) /\ a \in Nat /\ a >= OldStart
  BY Layout DEF PermAddresses, IsYoung, IsOld
<1>2. Live(n, a)
  BY <1>1, LiveAfter
<1>3. ~Fresh(m, n, a)
  <2>1. Fresh(m, n, a) => InFuture(n, a) \/ IsOld(a)
    BY DEF Grows, FreshOK
  <2>2. ~InFuture(n, a)
    BY <1>1, Future, Layout DEF InFuture, HeapOK
  <2> QED
    BY <1>1, <2>1, <2>2
<1>4. Live(m, a)
  BY <1>2, <1>3, LiveAfter
<1>5. Remembered(m, a) /\ Used(m, a)
  BY <1>4, LiveStays DEF Live
<1> QED
  BY <1>4, <1>5, LiveStays DEF PermNew

\* A growth keeps the state of the loop, with its new positions to be scanned.
LEMMA LoopGrows ==
    ASSUME NEW m, NEW n, NEW P, NEW U, NEW C, NEW W, NEW E, NEW K, NEW from, NEW mapped, NEW D,
           Loop(m, P, from, U, C, mapped, W, E, K), HeapOK(n), Grows(m, n),
           D = C \cup Range(n.ephemeronList)
    PROVE  LET Q == NewPositions(m, n) IN
           /\ Loop(n, P \cup Q, from, U \cup Q, D, mapped, W \cup Q, E, K)
           /\ \A p \in P : n.rememberedSet[p] = m.rememberedSet[p]
           /\ Q = Len(m.rememberedSet) + 1 .. Len(n.rememberedSet)
           /\ Len(n.rememberedSet) >= Len(m.rememberedSet)
<1> DEFINE Q == NewPositions(m, n)
<1>1. /\ HeapOK(m)
      /\ P \subseteq 1 .. Len(m.rememberedSet) /\ U \subseteq P /\ W \subseteq P
      /\ E \subseteq P /\ K \subseteq P
      /\ C \subseteq Addresses /\ Range(m.ephemeronList) \subseteq C
      /\ from \in FutureStart(m) .. m.survivorStart
      /\ SetsOK(m, P) /\ Covered(m, from, U, C, mapped) /\ UnfiredListed(m, C)
      /\ WeakHeld(m, W) /\ CorpsesOK(m, C) /\ EphemeronsOK(m, E) /\ Kept(m, K)
      /\ mapped => PermNew(m)
  BY DEF Loop
<1>2. /\ Len(m.rememberedSet) \in Nat /\ Len(n.rememberedSet) \in Nat
      /\ Len(n.rememberedSet) >= Len(m.rememberedSet)
      /\ \A p \in 1 .. Len(m.rememberedSet) : n.rememberedSet[p] = m.rememberedSet[p]
      /\ Q \subseteq 1 .. Len(n.rememberedSet)
  BY <1>1, PositionsAfter
<1>3. /\ U \subseteq 1 .. Len(m.rememberedSet) /\ W \subseteq 1 .. Len(m.rememberedSet)
      /\ E \subseteq 1 .. Len(m.rememberedSet) /\ K \subseteq 1 .. Len(m.rememberedSet)
      /\ P \cup Q \subseteq 1 .. Len(n.rememberedSet)
  <2>1. 1 .. Len(m.rememberedSet) \subseteq 1 .. Len(n.rememberedSet)
    BY <1>2
  <2> HIDE DEF Q
  <2> QED
    BY <1>1, <1>2, <2>1
<1>4. /\ from \in Nat /\ from <= m.survivorStart /\ from \in FutureStart(n) .. n.survivorStart
  <2>1. FutureStart(m) \in Nat /\ m.survivorStart \in Nat /\ n.survivorStart \in Nat
        /\ FutureStart(n) = FutureStart(m) /\ n.survivorStart >= m.survivorStart
    BY Zenon, <1>1, Future, GrowsUsed DEF HeapOK, Grows
  <2> QED
    BY <1>1, <2>1
<1>5. SetsOK(n, P \cup Q)
  BY Zenon, <1>1, SetsGrow
<1>6. CorpsesOK(n, D) /\ D \subseteq Addresses
  BY Zenon, <1>1, CorpsesGrow
<1>7. Covered(n, from, U \cup Q, D, mapped)
  BY Zenon, <1>1, <1>3, <1>4, CoveredGrows
<1>8. UnfiredListed(n, D)
  BY <1>1, UnfiredGrows
<1>9. WeakHeld(n, W \cup Q)
  BY Zenon, <1>1, <1>3, WeakGrows
<1>10. \A p \in P : Used(m, m.rememberedSet[p])
  BY Zenon, <1>1, MembersLive DEF Members
<1>11. EphemeronsOK(n, E)
  BY Zenon, <1>1, <1>3, <1>10, RememberedGrow
<1>12. Kept(n, K)
  BY Zenon, <1>1, <1>3, <1>10, RememberedGrow
<1>13. mapped => PermNew(n)
  BY <1>1, PermGrows
<1> HIDE DEF Q
<1>14. Loop(n, P \cup Q, from, U \cup Q, D, mapped, W \cup Q, E, K)
  BY Zenon, <1>1, <1>3, <1>4, <1>5, <1>6, <1>7, <1>8, <1>9, <1>11, <1>12, <1>13 DEF Loop
<1> QED
  BY <1>1, <1>2, <1>14 DEF Q, NewPositions

\* n is m with another remembered set and another bit of the object at a.
SameButSet(m, n, a) ==
    /\ n \in Memories /\ SameLists(m, n)
    /\ n.past = m.past /\ n.survivorStart = m.survivorStart /\ n.freeStart = m.freeStart
    /\ n.permToNew = m.permToNew /\ n.permToOld = m.permToOld /\ n.criterion = m.criterion
    /\ \A x \in Addresses : x # a => n.heap[x] = m.heap[x]
    /\ n.heap[a].kind = m.heap[a].kind /\ n.heap[a].slots = m.heap[a].slots
    /\ n.heap[a].bits \in {0, 1}

\* Another remembered set leaves every classification of the heap as it is.
LEMMA SameButSetFacts ==
    ASSUME NEW m, HeapOK(m), NEW a \in OldAddresses, NEW n, SameButSet(m, n, a)
    PROVE  /\ HeapOK(n) /\ a \in Addresses
           /\ \A x : InSource(n, x) <=> InSource(m, x)
           /\ \A x : InFuture(n, x) <=> InFuture(m, x)
           /\ \A x : Settled(n, x) <=> Settled(m, x)
           /\ \A x : Used(n, x) <=> Used(m, x)
           /\ \A x : Live(n, x) <=> Live(m, x)
           /\ \A x : Ref(n, x) <=> Ref(m, x)
           /\ \A x : x \in Oops => FollowForwarded(n, x) = FollowForwarded(m, x)
           /\ \A x \in Addresses :
                 /\ Cell(n, x).kind = Cell(m, x).kind /\ Size(n, x) = Size(m, x)
                 /\ SlotIndices(n, x) = SlotIndices(m, x)
                 /\ \A i : Slot(n, x, i) = Slot(m, x, i)
                 /\ \A kind : IsKind(n, x, kind) <=> IsKind(m, x, kind)
                 /\ x # a => (Remembered(n, x) <=> Remembered(m, x))
           /\ Objects(n) = Objects(m)
<1>1. a \in Addresses /\ ~IsYoung(a) /\ m \in Memories /\ n \in Memories
  BY Layout DEF OldAddresses, IsYoung, HeapOK, SameButSet
<1>2. \A x \in Addresses : n.heap[x].kind = m.heap[x].kind /\ n.heap[x].slots = m.heap[x].slots
  BY DEF SameButSet
<1>3. /\ FutureStart(n) = FutureStart(m) /\ FutureLimit(n) = FutureLimit(m)
      /\ \A x : InSource(n, x) <=> InSource(m, x)
  BY SameSpaces DEF SameButSet
<1>4. \A x : InFuture(n, x) <=> InFuture(m, x)
  BY <1>3 DEF InFuture, SameButSet
<1>5. \A x \in Addresses :
                 /\ Cell(n, x).kind = Cell(m, x).kind /\ Size(n, x) = Size(m, x)
                 /\ SlotIndices(n, x) = SlotIndices(m, x)
                 /\ \A i : Slot(n, x, i) = Slot(m, x, i)
                 /\ \A kind : IsKind(n, x, kind) <=> IsKind(m, x, kind)
                 /\ x # a => (Remembered(n, x) <=> Remembered(m, x))
  BY <1>2 DEF Cell, Size, SlotIndices, Slot, IsKind, Remembered, SameButSet
<1>6. \A x : Used(n, x) <=> Used(m, x)
  BY <1>5 DEF Used
<1>7. \A x : (Live(n, x) <=> Live(m, x)) /\ (Ref(n, x) <=> Ref(m, x))
  BY <1>3, <1>6 DEF Live, Ref
<1>8. \A x : x \in Oops => FollowForwarded(n, x) = FollowForwarded(m, x)
  BY <1>5 DEF Oops, FollowForwarded
<1>9. \A x : Settled(n, x) <=> Settled(m, x)
  BY <1>4 DEF Settled
<1>10. ASSUME NEW x \in Addresses PROVE CellOK(n, x)
  <2>1. CellOK(m, x)
    BY DEF HeapOK
  <2>2. /\ Cell(n, x).bits \in {0, 1} \/ InSource(n, x)
        /\ IsYoung(x) => Cell(n, x).bits = 0 \/ (InSource(n, x) /\ n.criterion = "ToShrinkRT")
    BY <1>1, <1>3, <2>1 DEF CellOK, Cell, SameButSet
  <2>3. n.survivorStart = m.survivorStart
    BY DEF SameButSet
  <2> QED
    BY <1>3, <1>4, <1>5, <1>7, <2>1, <2>2, <2>3 DEF CellOK
<1>11. Objects(n) = Objects(m)
  <2>1. 1 .. PermStart - 1 \subseteq Addresses
    BY Layout
  <2> QED
    BY <1>5, <2>1 DEF Objects
<1>12. HeapOK(n)
  BY <1>1, <1>3, <1>10, <1>11 DEF HeapOK, SameButSet
<1> QED
  BY <1>1, <1>3, <1>4, <1>5, <1>6, <1>7, <1>8, <1>9, <1>11, <1>12

\* What becomes of the positions of a remembered set: P2, U2, ... are those of P, U, ...
\* in n, where the members in G are gone.
Rearranges(m, n, G, P, U, W, E, K, P2, U2, W2, E2, K2) ==
    /\ P2 \subseteq 1 .. Len(n.rememberedSet) /\ U2 \subseteq P2 /\ W2 \subseteq P2
    /\ E2 \subseteq P2 /\ K2 \subseteq P2
    /\ \A p, q \in P2 : n.rememberedSet[p] = n.rememberedSet[q] => p = q
    /\ Members(n, P2) = Members(m, P) \ G
    /\ \A x \in Members(m, U) : x \in Members(n, U2) \/ Done(m, x)
    /\ \A x \in Members(m, W) : x \in Members(n, W2) \/ AllSettled(m, x) \/ ~IsKind(m, x, "weak")
    /\ \A x \in Members(n, E2) : x \in Members(m, E)
    /\ \A x \in Members(n, K2) : x \in Members(m, K) \/ IsKind(m, x, "weak") \/ HasNew(m, x)

\* A remembered set with other positions, from which the object at a is gone if it is in G.
LEMMA Surgery ==
    ASSUME NEW m, NEW n, NEW P, NEW U, NEW C, NEW W, NEW E, NEW K, NEW from, NEW mapped,
           Loop(m, P, from, U, C, mapped, W, E, K),
           NEW a, a \in Members(m, P), SameButSet(m, n, a), NEW G, G \subseteq {a},
           Remembered(n, a) <=> a \notin G,
           a \in G => ~RefersToYoung(m, a),
           NEW P2, NEW U2, NEW W2, NEW E2, NEW K2,
           Rearranges(m, n, G, P, U, W, E, K, P2, U2, W2, E2, K2)
    PROVE  Loop(n, P2, from, U2, C, mapped, W2, E2, K2)
<1>0. /\ P2 \subseteq 1 .. Len(n.rememberedSet) /\ U2 \subseteq P2 /\ W2 \subseteq P2
      /\ E2 \subseteq P2 /\ K2 \subseteq P2
      /\ \A p, q \in P2 : n.rememberedSet[p] = n.rememberedSet[q] => p = q
      /\ Members(n, P2) = Members(m, P) \ G
      /\ \A x \in Members(m, U) : x \in Members(n, U2) \/ Done(m, x)
      /\ \A x \in Members(m, W) : x \in Members(n, W2) \/ AllSettled(m, x) \/ ~IsKind(m, x, "weak")
      /\ \A x \in Members(n, E2) : x \in Members(m, E)
      /\ \A x \in Members(n, K2) : x \in Members(m, K) \/ IsKind(m, x, "weak") \/ HasNew(m, x)
  BY DEF Rearranges
<1> USE <1>0
<1>1. /\ HeapOK(m)
      /\ P \subseteq 1 .. Len(m.rememberedSet) /\ U \subseteq P /\ W \subseteq P
      /\ E \subseteq P /\ K \subseteq P
      /\ C \subseteq Addresses /\ Range(m.ephemeronList) \subseteq C
      /\ from \in FutureStart(m) .. m.survivorStart
      /\ SetsOK(m, P) /\ Covered(m, from, U, C, mapped) /\ UnfiredListed(m, C)
      /\ WeakHeld(m, W) /\ CorpsesOK(m, C) /\ EphemeronsOK(m, E) /\ Kept(m, K)
      /\ mapped => PermNew(m)
  BY DEF Loop
<1>2. a \in OldAddresses /\ a \in Addresses /\ Used(m, a) /\ Live(m, a) /\ Remembered(m, a) /\ ~IsYoung(a)
  BY Zenon, <1>1, MembersLive
<1>3. /\ HeapOK(n)
      /\ \A x : InSource(n, x) <=> InSource(m, x)
      /\ \A x : InFuture(n, x) <=> InFuture(m, x)
      /\ \A x : Settled(n, x) <=> Settled(m, x)
      /\ \A x : Used(n, x) <=> Used(m, x)
      /\ \A x : Live(n, x) <=> Live(m, x)
      /\ \A x : x \in Oops => FollowForwarded(n, x) = FollowForwarded(m, x)
      /\ \A x \in Addresses :
            /\ Cell(n, x).kind = Cell(m, x).kind /\ Size(n, x) = Size(m, x)
            /\ SlotIndices(n, x) = SlotIndices(m, x)
            /\ \A i : Slot(n, x, i) = Slot(m, x, i)
            /\ \A kind : IsKind(n, x, kind) <=> IsKind(m, x, kind)
            /\ x # a => (Remembered(n, x) <=> Remembered(m, x))
  BY <1>1, <1>2, SameButSetFacts
<1>4. \A x \in Addresses :
            /\ Done(n, x) <=> Done(m, x)
            /\ AllSettled(n, x) <=> AllSettled(m, x)
            /\ HasNew(n, x) <=> HasNew(m, x)
            /\ RefersToYoung(n, x) <=> RefersToYoung(m, x)
            /\ RefersToOld(n, x) <=> RefersToOld(m, x)
  BY <1>3 DEF Done, AllSettled, HasNew, RefersToYoung, RefersToOld
<1>5. \A x \in Addresses : HasYoungReferents(n, x) <=> HasYoungReferents(m, x)
  BY <1>1, <1>3, <1>4, YoungReferents DEF HeapOK
<1>6. \A D : D \subseteq Addresses => \A x : Listed(n, D, x) <=> Listed(m, D, x)
  BY <1>3 DEF Listed, Oops
<1>7. FutureStart(n) = FutureStart(m) /\ n.survivorStart = m.survivorStart
      /\ n.weakList = m.weakList /\ n.ephemeronList = m.ephemeronList
      /\ n.permToNew = m.permToNew /\ n.permToOld = m.permToOld
  BY DEF SameButSet, SameLists, FutureStart
<1>8. \A x \in Addresses : IsUnfired(n, x) <=> IsUnfired(m, x)
  <2> SUFFICES ASSUME NEW x \in Addresses, IsKind(m, x, "ephemeron")
               PROVE  IsScavengeSurvivor(n, Slot(m, x, 1)) <=> IsScavengeSurvivor(m, Slot(m, x, 1))
    BY <1>3 DEF IsUnfired
  <2>1. CellOK(m, x) /\ Size(m, x) >= 1 /\ Size(m, x) \in Nat
    BY <1>1, CellFields DEF HeapOK, CellOK
  <2>2. Slot(m, x, 1) \in Oops
    <3>1. 1 \in SlotIndices(m, x)
      BY <2>1 DEF SlotIndices
    <3> QED
      BY <1>1, <3>1, CellFields DEF HeapOK
  <2> QED
    BY <1>3, <2>2 DEF IsScavengeSurvivor
<1>9. SetsOK(n, P2)
  <2>1. ASSUME NEW x \in OldAddresses
        PROVE  /\ Used(n, x) /\ Remembered(n, x) <=> \E p \in P2 : n.rememberedSet[p] = x
               /\ Used(n, x) /\ HasYoungReferents(n, x) => Remembered(n, x)
    <3>1. x \in Addresses
      BY Layout
    <3>2. Used(m, x) /\ Remembered(m, x) <=> x \in Members(m, P)
      BY <1>1 DEF SetsOK, InSet, Members
    <3>3. (\E p \in P2 : n.rememberedSet[p] = x) <=> x \in Members(n, P2)
      BY DEF Members
    <3>4. Used(m, x) /\ HasYoungReferents(m, x) => Remembered(m, x)
      BY <1>1 DEF SetsOK, InSet
    <3>5. CASE x = a
      <4>1. a \in G => ~HasYoungReferents(m, a)
        BY <1>1, <1>2, YoungReferents DEF HeapOK
      <4> QED
        BY <1>2, <1>3, <1>5, <3>3, <3>5, <4>1
    <3>6. CASE x # a
      BY <1>3, <1>5, <3>1, <3>2, <3>3, <3>4, <3>6
    <3> QED
      BY <3>5, <3>6
  <2>2. InSet(n, n.rememberedSet, P2, OldAddresses)
    BY Zenon, <2>1 DEF InSet
  <2>3. \A x \in PermAddresses : x \in Addresses /\ x # a
    BY <1>2, Layout DEF OldAddresses, PermAddresses
  <2>4. InSet(n, n.permToNew, 1 .. Len(n.permToNew), PermAddresses)
    BY <1>1, <1>3, <1>5, <1>7, <2>3 DEF SetsOK, InSet
  <2>5. \A x \in PermAddresses : Used(n, x) /\ RefersToOld(n, x) => Remembered(n, x) \/ x \in Range(n.permToOld)
    BY <1>1, <1>3, <1>4, <1>7, <2>3 DEF SetsOK
  <2> QED
    BY <2>2, <2>4, <2>5 DEF SetsOK
<1>10. Covered(n, from, U2, C, mapped)
  <2> SUFFICES ASSUME NEW x \in Addresses, Live(n, x), ~Done(n, x)
               PROVE  \/ InFuture(n, x) /\ x >= from
                      \/ \E p \in U2 : n.rememberedSet[p] = x
                      \/ Listed(n, C, x)
                      \/ IsPerm(x) /\ Remembered(n, x) /\ ~mapped
    BY DEF Covered
  <2>1. \/ InFuture(m, x) /\ x >= from
        \/ \E p \in U : m.rememberedSet[p] = x
        \/ Listed(m, C, x)
        \/ IsPerm(x) /\ Remembered(m, x) /\ ~mapped
    BY <1>1, <1>3, <1>4 DEF Covered
  <2>2. CASE \E p \in U : m.rememberedSet[p] = x
    <3>1. x \in Members(m, U) /\ ~Done(m, x)
      BY <1>4, <2>2 DEF Members
    <3>2. x \in Members(n, U2)
      BY <3>1
    <3> QED
      BY <3>2 DEF Members
  <2>3. CASE IsPerm(x) /\ Remembered(m, x) /\ ~mapped
    <3>1. x # a
      BY <1>2, <2>3, Layout DEF OldAddresses, IsPerm
    <3> QED
      BY <1>3, <2>3, <3>1
  <2> QED
    BY <1>1, <1>3, <1>6, <2>1, <2>2, <2>3
<1>11. UnfiredListed(n, C)
  BY <1>1, <1>3, <1>6, <1>8 DEF UnfiredListed
<1>12. WeakHeld(n, W2)
  <2> SUFFICES ASSUME NEW x \in Addresses, Live(n, x), IsKind(n, x, "weak"), ~AllSettled(n, x),
                      ~Listed(n, Range(n.weakList), x)
               PROVE  \E p \in W2 : n.rememberedSet[p] = x
    BY DEF WeakHeld
  <2>1. Range(m.weakList) \subseteq Addresses
    BY <1>1, Fields, InRange DEF HeapOK
  <2>2. \E p \in W : m.rememberedSet[p] = x
    BY <1>1, <1>3, <1>4, <1>6, <1>7, <2>1 DEF WeakHeld
  <2>3. x \in Members(m, W) /\ ~AllSettled(m, x) /\ IsKind(m, x, "weak")
    BY <1>3, <1>4, <2>2 DEF Members
  <2>4. x \in Members(n, W2)
    BY <2>3
  <2> QED
    BY <2>4 DEF Members
<1>13. CorpsesOK(n, C)
  <2>1. ASSUME NEW c \in Addresses, IsKind(m, c, "forwarded")
        PROVE  Slot(m, c, 1) \in Addresses /\ Slot(n, c, 1) = Slot(m, c, 1) /\ IsKind(n, c, "forwarded")
    BY <1>1, <1>3, <2>1 DEF HeapOK, CellOK, Live, Used
  <2>2. Range(m.weakList) \subseteq Addresses
    BY <1>1, Fields, InRange DEF HeapOK
  <2> QED
    BY <1>1, <1>3, <1>7, <2>1, <2>2 DEF CorpsesOK
<1>14. EphemeronsOK(n, E2)
  <2> SUFFICES ASSUME NEW p \in E2
               PROVE  /\ Cell(n, n.rememberedSet[p]).kind \in {"ephemeron", "plain"}
                      /\ Size(n, n.rememberedSet[p]) >= 1
    BY DEF EphemeronsOK
  <2>1. n.rememberedSet[p] \in Members(m, E) /\ n.rememberedSet[p] \in Members(m, P)
    BY Zenon, <1>1 DEF Members
  <2>2. n.rememberedSet[p] \in Addresses
    BY <1>1, <2>1, MembersLive
  <2> QED
    BY SMTT(60), <1>1, <1>3, <2>1, <2>2 DEF EphemeronsOK, Members
<1>15. Kept(n, K2)
  <2> SUFFICES ASSUME NEW p \in K2
               PROVE  IsKind(n, n.rememberedSet[p], "weak") \/ HasNew(n, n.rememberedSet[p])
    BY DEF Kept
  <2>1. n.rememberedSet[p] \in Members(n, K2) /\ n.rememberedSet[p] \in Members(n, P2)
    BY DEF Members
  <2>2. n.rememberedSet[p] \in Addresses
    BY Zenon, <1>1, <2>1, MembersLive
  <2>3. CASE n.rememberedSet[p] \in Members(m, K)
    BY <1>1, <1>3, <1>4, <2>2, <2>3 DEF Kept, Members
  <2> QED
    BY <1>3, <1>4, <2>1, <2>2, <2>3
<1>16. mapped => PermNew(n)
  <2>1. \A x \in PermAddresses : x \in Addresses /\ x # a
    BY <1>2, Layout DEF OldAddresses, PermAddresses
  <2> QED
    BY <1>1, <1>3, <1>4, <2>1 DEF PermNew
<1> QED
  BY <1>1, <1>3, <1>7, <1>9, <1>10, <1>11, <1>12, <1>13, <1>14, <1>15, <1>16 DEF Loop

\* Roots and mourners stay valid through a growth.
LEMMA HeldGrows ==
    ASSUME NEW m, HeapOK(m), NEW n, HeapOK(n), Grows(m, n), NEW rs, NEW mapped, Held(m, rs, mapped)
    PROVE  Held(n, rs, mapped)
<1>1. n.mournQueue = m.mournQueue
  BY DEF Grows, SameRest
<1>2. /\ \A x : Live(m, x) => Live(n, x)
      /\ \A x : Used(m, x) => Used(n, x)
      /\ \A x : Ref(m, x) => Ref(n, x)
  BY GrowsUsed
<1>3. ASSUME NEW x, Used(m, x), ~IsKind(m, x, "ephemeron") PROVE ~IsKind(n, x, "ephemeron")
  <2>1. CASE Live(m, x)
    BY <1>3, <2>1, LiveStays
  <2>2. CASE InSource(m, x)
    BY <1>3, <2>2 DEF Grows, SourceMoves, Used, IsKind
  <2> QED
    BY <1>3, <2>1, <2>2 DEF Live
<1>4. \A i \in DOMAIN m.mournQueue : Used(m, m.mournQueue[i])
  BY DEF Held, Live
<1>5. ASSUME NEW x, Used(m, x), ~IsKind(m, FollowForwarded(m, x), "ephemeron")
      PROVE  ~IsKind(n, FollowForwarded(n, x), "ephemeron")
  <2>0. x \in Addresses /\ x # Nil /\ Ref(m, x)
    BY <1>5, Layout DEF Used, Ref, Nil
  <2>1. CASE IsScavengeSurvivor(m, x)
    <3>1. Live(m, FollowForwarded(m, x)) /\ FollowForwarded(n, x) = FollowForwarded(m, x)
      BY <2>0, <2>1, Following, GrowsUsed
    <3> QED
      BY <1>5, <3>1, LiveStays
  <2>2. CASE ~IsScavengeSurvivor(m, x)
    <3>1. FollowForwarded(m, x) = x /\ InSource(m, x) /\ ~IsKind(m, x, "forwarded")
      <4>1. FollowForwarded(m, x) = x /\ InSource(m, x) /\ Cell(m, x).kind \notin {"free", "forwarded"}
        BY <2>0, <2>2, Following
      <4> QED
        BY <4>1 DEF IsKind, Cell
    <3>2. CASE n.heap[x] = m.heap[x]
      BY <1>5, <2>0, <3>1, <3>2 DEF FollowForwarded, IsKind, Cell
    <3>3. CASE n.heap[x] # m.heap[x]
      <4>1. IsKind(n, x, "forwarded") /\ Moved(m, x, n, Slot(n, x, 1))
        BY <2>0, <3>1, <3>3 DEF Grows, SourceMoves
      <4>2. FollowForwarded(n, x) = Slot(n, x, 1)
        BY <2>0, <4>1 DEF FollowForwarded
      <4> QED
        BY <1>5, <3>1, <4>1, <4>2 DEF Moved, IsKind, Cell
    <3> QED
      BY <3>2, <3>3
  <2> QED
    BY <2>1, <2>2
<1>6. CASE mapped
  BY <1>1, <1>2, <1>3, <1>4, <1>6 DEF Held
<1>7. CASE ~mapped
  BY <1>1, <1>2, <1>3, <1>4, <1>5, <1>7 DEF Held
<1> QED
  BY <1>6, <1>7

\* Roots and mourners stay valid under another remembered set.
LEMMA HeldSame ==
    ASSUME NEW m, HeapOK(m), NEW n, NEW a \in OldAddresses, SameButSet(m, n, a), n.mournQueue = m.mournQueue,
           NEW rs, NEW mapped, Held(m, rs, mapped)
    PROVE  Held(n, rs, mapped)
<1>1. /\ \A x : Used(n, x) <=> Used(m, x)
      /\ \A x : Live(n, x) <=> Live(m, x)
      /\ \A x : Ref(n, x) <=> Ref(m, x)
      /\ \A x \in Addresses : \A kind : IsKind(n, x, kind) <=> IsKind(m, x, kind)
  BY SameButSetFacts
<1>2. \A i \in DOMAIN m.mournQueue : m.mournQueue[i] \in Addresses /\ Used(m, m.mournQueue[i])
  BY DEF Held, Live, Used
<1>3. \A x : x \in Oops => FollowForwarded(n, x) = FollowForwarded(m, x)
  BY SameButSetFacts
<1>4. ASSUME NEW x \in Addresses, Used(m, x), ~IsKind(m, FollowForwarded(m, x), "ephemeron")
      PROVE  ~IsKind(n, FollowForwarded(n, x), "ephemeron")
  <2>1. Ref(m, x) /\ x # Nil /\ x \in Oops
    BY <1>4, Layout DEF Ref, Nil, Oops
  <2>2. FollowForwarded(m, x) \in Addresses
    BY <2>1, Following DEF Ref, Used
  <2> QED
    BY <1>1, <1>3, <1>4, <2>1, <2>2
<1>5. CASE mapped
  BY <1>1, <1>2, <1>5 DEF Held
<1>6. CASE ~mapped
  BY <1>1, <1>2, <1>4, <1>6 DEF Held
<1> QED
  BY <1>5, <1>6

\* Scanning a live object keeps the state of the loop.
LEMMA LoopScan ==
    ASSUME NEW m, NEW P, NEW U, NEW C, NEW W, NEW E, NEW K, NEW from, NEW mapped, NEW a,
           Loop(m, P, from, U, C, mapped, W, E, K), Live(m, a)
    PROVE  LET n == ScavengeReferentsOf(m, a)
               Q == NewPositions(m, n)
           IN
           /\ HeapOK(m) /\ HeapOK(n) /\ Grows(m, n)
           /\ Loop(n, P \cup Q, from, U \cup Q, C \cup Range(n.ephemeronList), mapped, W \cup Q, E, K)
           /\ \A p \in P : n.rememberedSet[p] = m.rememberedSet[p]
           /\ Q = Len(m.rememberedSet) + 1 .. Len(n.rememberedSet)
           /\ Len(n.rememberedSet) >= Len(m.rememberedSet)
           /\ Live(n, a)
           /\ ~IsUnfired(m, a) => /\ Done(n, a) /\ ~IsUnfired(n, a)
                                  /\ KeepsNew(n, a) => IsKind(n, a, "weak") \/ HasNew(n, a)
                                  /\ ~KeepsNew(n, a) => ~IsKind(n, a, "weak") /\ ~RefersToYoung(n, a)
<1> DEFINE n == ScavengeReferentsOf(m, a)
<1>1. HeapOK(m)
  BY DEF Loop
<1>2. HeapOK(n) /\ Grows(m, n)
  BY <1>1, ScavengeReferents
<1>3. ~IsUnfired(m, a) => /\ Done(n, a)
                          /\ KeepsNew(n, a) => IsKind(n, a, "weak") \/ HasNew(n, a)
                          /\ ~KeepsNew(n, a) => ~IsKind(n, a, "weak") /\ ~RefersToYoung(n, a)
  BY <1>1, Scanned
<1> HIDE DEF n
<1>4. Live(n, a) /\ (IsUnfired(n, a) => IsUnfired(m, a))
  BY <1>1, <1>2, LiveFacts, LiveStays
<1>5. LET Q == NewPositions(m, n) IN
      /\ Loop(n, P \cup Q, from, U \cup Q, C \cup Range(n.ephemeronList), mapped, W \cup Q, E, K)
      /\ \A p \in P : n.rememberedSet[p] = m.rememberedSet[p]
      /\ Q = Len(m.rememberedSet) + 1 .. Len(n.rememberedSet)
      /\ Len(n.rememberedSet) >= Len(m.rememberedSet)
  BY Zenon, <1>1, <1>2, LoopGrows
<1> QED
  BY <1>1, <1>2, <1>3, <1>4, <1>5 DEF n

\* n is m with other lists: what the heap is classified by is the same.
SameHeap(m, n) ==
    /\ n \in Memories
    /\ n.heap = m.heap /\ n.past = m.past /\ n.survivorStart = m.survivorStart
    /\ n.freeStart = m.freeStart /\ n.criterion = m.criterion
    /\ n.permToNew = m.permToNew /\ n.permToOld = m.permToOld

\* What does not look at the lists.
LEMMA SameHeapFacts ==
    ASSUME NEW m, NEW n, SameHeap(m, n)
    PROVE  /\ HeapOK(m) => HeapOK(n)
           /\ FutureStart(n) = FutureStart(m) /\ FutureLimit(n) = FutureLimit(m)
           /\ \A x : InSource(n, x) <=> InSource(m, x)
           /\ \A x : InFuture(n, x) <=> InFuture(m, x)
           /\ \A x : Settled(n, x) <=> Settled(m, x)
           /\ \A x : Used(n, x) <=> Used(m, x)
           /\ \A x : Live(n, x) <=> Live(m, x)
           /\ \A x : Ref(n, x) <=> Ref(m, x)
           /\ \A x : FollowForwarded(n, x) = FollowForwarded(m, x)
           /\ \A x : /\ Cell(n, x) = Cell(m, x) /\ Size(n, x) = Size(m, x)
                     /\ SlotIndices(n, x) = SlotIndices(m, x)
                     /\ Remembered(n, x) <=> Remembered(m, x)
                     /\ HasYoungReferents(n, x) <=> HasYoungReferents(m, x)
                     /\ RefersToOld(n, x) <=> RefersToOld(m, x)
                     /\ RefersToYoung(n, x) <=> RefersToYoung(m, x)
                     /\ Done(n, x) <=> Done(m, x)
                     /\ AllSettled(n, x) <=> AllSettled(m, x)
                     /\ HasNew(n, x) <=> HasNew(m, x)
                     /\ IsUnfired(n, x) <=> IsUnfired(m, x)
           /\ \A x, i : Slot(n, x, i) = Slot(m, x, i)
           /\ \A x, kind : IsKind(n, x, kind) <=> IsKind(m, x, kind)
           /\ Objects(n) = Objects(m)
<1>1. FutureStart(n) = FutureStart(m) /\ FutureLimit(n) = FutureLimit(m)
  BY DEF SameHeap, FutureStart, FutureLimit
<1>2. /\ \A x : InSource(n, x) <=> InSource(m, x)
      /\ \A x : InFuture(n, x) <=> InFuture(m, x)
  BY <1>1 DEF InSource, InFuture, SameHeap
<1>3. /\ \A x : Cell(n, x) = Cell(m, x)
      /\ \A x, i : Slot(n, x, i) = Slot(m, x, i)
      /\ \A x, kind : IsKind(n, x, kind) <=> IsKind(m, x, kind)
  BY DEF Cell, Slot, IsKind, SameHeap
<1>4. \A x : Used(n, x) <=> Used(m, x)
  BY <1>3 DEF Used
<1>5. /\ \A x : Settled(n, x) <=> Settled(m, x)
      /\ \A x : Live(n, x) <=> Live(m, x)
      /\ \A x : Ref(n, x) <=> Ref(m, x)
  BY <1>2, <1>4 DEF Settled, Live, Ref
<1>6. \A x : FollowForwarded(n, x) = FollowForwarded(m, x)
  BY <1>3 DEF FollowForwarded
<1>7. \A x : IsScavengeSurvivor(n, x) <=> IsScavengeSurvivor(m, x)
  BY <1>2, <1>6 DEF IsScavengeSurvivor
<1>8. \A x : Size(n, x) = Size(m, x) /\ SlotIndices(n, x) = SlotIndices(m, x)
  BY <1>3 DEF Size, SlotIndices
<1>9. \A x : /\ Remembered(n, x) <=> Remembered(m, x)
             /\ HasYoungReferents(n, x) <=> HasYoungReferents(m, x)
             /\ RefersToOld(n, x) <=> RefersToOld(m, x)
             /\ RefersToYoung(n, x) <=> RefersToYoung(m, x)
  BY <1>3, <1>8 DEF Remembered, HasYoungReferents, RefersToOld, RefersToYoung, Cell
<1>10. \A x : /\ Done(n, x) <=> Done(m, x)
              /\ AllSettled(n, x) <=> AllSettled(m, x)
              /\ HasNew(n, x) <=> HasNew(m, x)
              /\ IsUnfired(n, x) <=> IsUnfired(m, x)
  BY <1>2, <1>3, <1>5, <1>7, <1>8 DEF Done, AllSettled, HasNew, IsUnfired
<1>11. Objects(n) = Objects(m)
  BY <1>3 DEF Objects
<1>12. HeapOK(m) => HeapOK(n)
  <2> SUFFICES ASSUME HeapOK(m) PROVE HeapOK(n)
    OBVIOUS
  <2>1. \A x \in Addresses : CellOK(n, x)
    <3> TAKE x \in Addresses
    <3>1. CellOK(m, x)
      BY DEF HeapOK
    <3>2. n.survivorStart = m.survivorStart /\ n.criterion = m.criterion
      BY DEF SameHeap
    <3> QED
      BY <1>1, <1>2, <1>3, <1>5, <1>8, <3>1, <3>2 DEF CellOK
  <2> QED
    BY <1>1, <1>11, <2>1 DEF HeapOK, SameHeap
<1> QED
  BY <1>1, <1>2, <1>3, <1>4, <1>5, <1>6, <1>8, <1>9, <1>10, <1>11, <1>12

\* Another list of corpses, and another end of the remembered set.
LEMMA LoopSame ==
    ASSUME NEW m, NEW P, NEW U, NEW C, NEW W, NEW E, NEW K, NEW from, NEW mapped,
           Loop(m, P, from, U, C, mapped, W, E, K),
           NEW n, SameHeap(m, n), n.weakList = m.weakList,
           P \subseteq 1 .. Len(n.rememberedSet), \A p \in P : n.rememberedSet[p] = m.rememberedSet[p],
           NEW D, D \subseteq C, Range(n.ephemeronList) \subseteq D,
           \A c \in C \ D : Done(m, FollowForwarded(m, c)) /\ ~IsUnfired(m, FollowForwarded(m, c))
    PROVE  Loop(n, P, from, U, D, mapped, W, E, K)
<1>1. /\ HeapOK(m)
      /\ P \subseteq 1 .. Len(m.rememberedSet) /\ U \subseteq P /\ W \subseteq P
      /\ E \subseteq P /\ K \subseteq P
      /\ C \subseteq Addresses /\ Range(m.ephemeronList) \subseteq C
      /\ from \in FutureStart(m) .. m.survivorStart
      /\ SetsOK(m, P) /\ Covered(m, from, U, C, mapped) /\ UnfiredListed(m, C)
      /\ WeakHeld(m, W) /\ CorpsesOK(m, C) /\ EphemeronsOK(m, E) /\ Kept(m, K)
      /\ mapped => PermNew(m)
  BY DEF Loop
<1>2. /\ HeapOK(n) /\ FutureStart(n) = FutureStart(m)
      /\ \A x : InFuture(n, x) <=> InFuture(m, x)
      /\ \A x : Used(n, x) <=> Used(m, x)
      /\ \A x : Live(n, x) <=> Live(m, x)
      /\ \A x : FollowForwarded(n, x) = FollowForwarded(m, x)
      /\ \A x : /\ Cell(n, x) = Cell(m, x) /\ Size(n, x) = Size(m, x)
                /\ Remembered(n, x) <=> Remembered(m, x)
                /\ HasYoungReferents(n, x) <=> HasYoungReferents(m, x)
                /\ RefersToOld(n, x) <=> RefersToOld(m, x)
                /\ Done(n, x) <=> Done(m, x)
                /\ AllSettled(n, x) <=> AllSettled(m, x)
                /\ HasNew(n, x) <=> HasNew(m, x)
                /\ IsUnfired(n, x) <=> IsUnfired(m, x)
      /\ \A x, i : Slot(n, x, i) = Slot(m, x, i)
      /\ \A x, kind : IsKind(n, x, kind) <=> IsKind(m, x, kind)
  BY <1>1, SameHeapFacts
<1>3. /\ n.permToNew = m.permToNew /\ n.permToOld = m.permToOld /\ n.survivorStart = m.survivorStart
  BY DEF SameHeap
<1>4. SetsOK(n, P)
  BY <1>1, <1>2, <1>3 DEF SetsOK, InSet
<1>5. \A x, B : Listed(n, B, x) <=> Listed(m, B, x)
  BY <1>2 DEF Listed
<1>6. Covered(n, from, U, D, mapped)
  <2> SUFFICES ASSUME NEW x \in Addresses, Live(n, x), ~Done(n, x)
               PROVE  \/ InFuture(n, x) /\ x >= from
                      \/ \E p \in U : n.rememberedSet[p] = x
                      \/ Listed(n, D, x)
                      \/ IsPerm(x) /\ Remembered(n, x) /\ ~mapped
    BY DEF Covered
  <2>1. Live(m, x) /\ ~Done(m, x)
    BY <1>2
  <2>2. \/ InFuture(m, x) /\ x >= from
        \/ \E p \in U : m.rememberedSet[p] = x
        \/ Listed(m, C, x)
        \/ IsPerm(x) /\ Remembered(m, x) /\ ~mapped
    BY <1>1, <2>1 DEF Covered
  <2>3. Listed(m, C, x) => Listed(m, D, x)
    BY <2>1 DEF Listed
  <2> QED
    BY Zenon, <1>1, <1>2, <1>5, <2>2, <2>3
<1>7. UnfiredListed(n, D)
  <2> SUFFICES ASSUME NEW x \in Addresses, InFuture(n, x), IsUnfired(n, x)
               PROVE  Listed(n, D, x)
    BY DEF UnfiredListed
  <2>1. IsUnfired(m, x) /\ Listed(m, C, x)
    BY <1>1, <1>2 DEF UnfiredListed
  <2>2. Listed(m, D, x)
    BY <2>1 DEF Listed
  <2> QED
    BY <1>5, <2>2
<1>8. WeakHeld(n, W)
  BY <1>1, <1>2, <1>5 DEF WeakHeld
<1>9. CorpsesOK(n, D)
  BY <1>1, <1>2 DEF CorpsesOK
<1>10. EphemeronsOK(n, E) /\ Kept(n, K)
  BY <1>1, <1>2 DEF EphemeronsOK, Kept
<1>11. mapped => PermNew(n)
  BY <1>1, <1>2 DEF PermNew
<1>12. D \subseteq Addresses
  BY <1>1
<1> QED
  BY <1>1, <1>2, <1>3, <1>4, <1>6, <1>7, <1>8, <1>9, <1>10, <1>11, <1>12 DEF Loop

\* Less to look at.
LEMMA LoopLess ==
    ASSUME NEW m, NEW P, NEW U, NEW C, NEW W, NEW E, NEW K, NEW from, NEW mapped,
           Loop(m, P, from, U, C, mapped, W, E, K),
           NEW U2, U2 \subseteq P, \A p \in U \ U2 : Done(m, m.rememberedSet[p]),
           NEW E2, E2 \subseteq E, NEW K2, K2 \subseteq K,
           NEW W2, W2 \subseteq P, W \subseteq W2,
           NEW to \in FutureStart(m) .. m.survivorStart,
           \A x \in Addresses : Live(m, x) /\ InFuture(m, x) /\ x >= from /\ ~(x >= to)
                                   => Done(m, x) \/ Listed(m, C, x)
    PROVE  Loop(m, P, to, U2, C, mapped, W2, E2, K2)
<1>1. Covered(m, to, U2, C, mapped)
  BY DEF Loop, Covered
<1>2. WeakHeld(m, W2)
  BY DEF Loop, WeakHeld
<1>3. EphemeronsOK(m, E2) /\ Kept(m, K2) /\ E2 \subseteq P /\ K2 \subseteq P
  BY DEF Loop, EphemeronsOK, Kept
<1> QED
  BY <1>1, <1>2, <1>3 DEF Loop

\* A step of the collector.
LEMMA StepInv ==
    ASSUME Inv, NEW n, NEW to, NEW w, Step(n, to, w), Scavenging(n, to, w, roots),
           Cardinality(Objects(n)) = Cardinality(Objects(mem))
    PROVE  Inv'
<1>1. mem' = n /\ pc' = to /\ at' = w
      /\ roots' = roots /\ births' = births /\ stores' = stores /\ scavenges' = scavenges
  BY DEF Step
<1>2. Bounded(mem', births')
  BY <1>1 DEF Inv, Bounded
<1>3. Scavenging(mem', pc', at', roots')
  BY <1>1
<1> QED
  BY <1>1, <1>2, <1>3 DEF Inv

\* A place in the loop, field by field.
LEMMA WalkFields ==
    ASSUME NEW w \in Walks
    PROVE  /\ w.i \in Nat \ {0} /\ w.dest \in Nat \ {0} /\ w.previous \in Nat
           /\ w.firstTime \in BOOLEAN /\ w.todo \in Seq(Addresses) /\ w.kept \in Seq(Addresses)
           /\ w.scanned \in BOOLEAN
<1> QED
  BY DEF Walks

\* The first place, field by field.
LEMMA PlaceFields ==
    /\ Place \in Walks /\ Place.i = 1 /\ Place.dest = 1 /\ Place.previous = 0
    /\ Place.firstTime = FALSE /\ Place.todo = <<>> /\ Place.kept = <<>> /\ Place.scanned = FALSE
<1>1. <<>> \in Seq(Addresses)
  OBVIOUS
<1> QED
  BY <1>1 DEF Place, Walks

\* The place that a pass starts from, field by field.
LEMMA FromFields ==
    ASSUME at \in Walks, NEW i \in Nat \ {0}
    PROVE  LET w == From(i) IN
           /\ w \in Walks /\ w.i = i /\ w.dest = i /\ w.previous = at.previous
           /\ w.firstTime = FALSE /\ w.todo = <<>> /\ w.kept = <<>> /\ w.scanned = FALSE
<1>1. <<>> \in Seq(Addresses) /\ at.previous \in Nat
  BY WalkFields
<1> QED
  BY Zenon, <1>1 DEF Place, Walks, From

\* The next place, field by field.
LEMMA NextFields ==
    ASSUME at \in Walks
    PROVE  LET w == Next1 IN
           /\ w \in Walks /\ w.i = at.i + 1 /\ w.dest = at.dest /\ w.previous = at.previous
           /\ w.firstTime = at.firstTime /\ w.todo = at.todo /\ w.kept = at.kept /\ w.scanned = at.scanned
<1> QED
  BY SMTT(60) DEF Next1, Walks

\* The range of the empty list.
LEMMA NoRange == Range(<<>>) = {}
<1> QED
  BY DEF Range

\* What Inv says in the middle of a scavenge.
LEMMA InvFacts ==
    ASSUME Inv, pc # "mutator"
    PROVE  /\ Scavenging(mem, pc, at, roots)
           /\ Numbers(mem, pc, at) /\ at \in Walks /\ pc \in Pcs
           /\ HeapOK(mem) /\ mem \in Memories
           /\ RSize(mem) \in Nat /\ mem.ephemerons \in Nat /\ mem.previousSize \in Nat
           /\ mem.survivorStart \in Nat /\ FutureStart(mem) \in Nat \ {0}
           /\ Held(mem, roots, MappedAt(pc, at))
           /\ LET E == EphemeronsAt(mem, pc, at)
                  U == Unscanned(mem, pc, at) \cup E
              IN  Loop(mem, Positions(mem, pc, at), FromAt(mem, pc, at), U, CorpsesAt(mem, at),
                       MappedAt(pc, at), WeakAt(mem, pc, at), E, Positions(mem, pc, at) \ U)
<1>1. Scavenging(mem, pc, at, roots)
  BY DEF Inv
<1>2. Numbers(mem, pc, at) /\ at \in Walks /\ pc \in Pcs
  BY <1>1 DEF Scavenging, Numbers
<1>3. HeapOK(mem) /\ mem \in Memories
  BY <1>1 DEF Scavenging, Loop, HeapOK
<1>4. RSize(mem) \in Nat
  BY <1>3, Fields, InRange DEF RSize
<1>5. mem.ephemerons \in Nat /\ mem.previousSize \in Nat /\ mem.survivorStart \in Nat
  BY <1>3, Fields
<1>6. FutureStart(mem) \in Nat \ {0}
  BY <1>3, Future, Layout
<1>7. Held(mem, roots, MappedAt(pc, at))
  BY <1>1 DEF Scavenging
<1>8. LET E == EphemeronsAt(mem, pc, at)
          U == Unscanned(mem, pc, at) \cup E
      IN  Loop(mem, Positions(mem, pc, at), FromAt(mem, pc, at), U, CorpsesAt(mem, at),
               MappedAt(pc, at), WeakAt(mem, pc, at), E, Positions(mem, pc, at) \ U)
  BY <1>1 DEF Scavenging
<1> QED
  BY <1>1, <1>2, <1>3, <1>4, <1>5, <1>6, <1>7, <1>8

\* A place with another end of what was scanned, field by field.
LEMMA PreviousFields ==
    ASSUME NEW w \in Walks, NEW x \in Nat
    PROVE  LET v == [w EXCEPT !.previous = x] IN
           /\ v \in Walks /\ v.i = w.i /\ v.dest = w.dest /\ v.previous = x
           /\ v.firstTime = w.firstTime /\ v.todo = w.todo /\ v.kept = w.kept /\ v.scanned = w.scanned
<1> QED
  BY Zenon DEF Walks

\* A place with other indices, field by field.
LEMMA IndexFields ==
    ASSUME NEW w \in Walks, NEW x \in Nat \ {0}, NEW y \in Nat \ {0}
    PROVE  LET v == [w EXCEPT !.i = x, !.dest = y] IN
           /\ v \in Walks /\ v.i = x /\ v.dest = y /\ v.previous = w.previous
           /\ v.firstTime = w.firstTime /\ v.todo = w.todo /\ v.kept = w.kept /\ v.scanned = w.scanned
<1> QED
  BY Zenon DEF Walks

\* The step FutureSpaceScavenged preserves the invariant.
LEMMA FutureSpaceScavengedInv ==
    ASSUME Inv, FutureSpaceScavenged
    PROVE  Inv'
<1> DEFINE there == [From(1) EXCEPT !.previous = mem.survivorStart]
           again == [there EXCEPT !.i = mem.previousSize + 1, !.dest = mem.previousSize + 1]
<1>1. pc = "future" /\ at.i = mem.survivorStart
  BY DEF FutureSpaceScavenged
<1>2. /\ at \in Walks /\ Numbers(mem, pc, at) /\ Held(mem, roots, TRUE)
      /\ RSize(mem) \in Nat /\ mem.ephemerons \in Nat /\ mem.previousSize \in Nat
      /\ mem.survivorStart \in Nat /\ FutureStart(mem) \in Nat \ {0}
  BY Zenon, <1>1, InvFacts DEF MappedAt
<1>3. /\ there \in Walks /\ there.i = 1 /\ there.dest = 1 /\ there.previous = mem.survivorStart
      /\ there.firstTime = FALSE /\ there.todo = <<>> /\ there.kept = <<>>
  <2>1. 1 \in Nat \ {0}
    OBVIOUS
  <2> DEFINE f == From(1)
  <2>2. /\ f \in Walks /\ f.i = 1 /\ f.dest = 1 /\ f.firstTime = FALSE /\ f.todo = <<>> /\ f.kept = <<>>
    BY Zenon, <1>2, <2>1, FromFields
  <2> HIDE DEF f
  <2>3. there = [f EXCEPT !.previous = mem.survivorStart]
    BY DEF f
  <2> HIDE DEF there
  <2> QED
    BY <1>2, <2>2, <2>3, PreviousFields
<1>4. /\ again \in Walks /\ again.i = mem.previousSize + 1 /\ again.dest = mem.previousSize + 1
      /\ again.previous = mem.survivorStart
      /\ again.firstTime = FALSE /\ again.todo = <<>> /\ again.kept = <<>>
  <2>1. mem.previousSize + 1 \in Nat \ {0}
    BY <1>2
  <2>2. again = [there EXCEPT !.i = mem.previousSize + 1, !.dest = mem.previousSize + 1]
    OBVIOUS
  <2> HIDE DEF there, again
  <2> QED
    BY ZenonT(60), <1>3, <2>1, <2>2, IndexFields
<1> HIDE DEF there, again
<1> DEFINE E == 1 .. mem.ephemerons
           U == (mem.previousSize + 1 .. RSize(mem)) \cup E
           C == Range(mem.ephemeronList)
<1>5. Loop(mem, 1 .. RSize(mem), mem.survivorStart, U, C, TRUE, 1 .. RSize(mem), E, (1 .. RSize(mem)) \ U)
  <2>1. at.todo = <<>> /\ at.kept = <<>>
    BY <1>1, <1>2 DEF Numbers
  <2> QED
    BY Zenon, <1>1, <2>1, InvFacts, NoRange DEF Positions, FromAt, Unscanned, EphemeronsAt, CorpsesAt, MappedAt, WeakAt, Ends
<1>6. mem.previousSize <= RSize(mem) /\ mem.ephemerons <= mem.previousSize
      /\ mem.survivorStart \in FutureStart(mem) .. mem.survivorStart
  <2>1. "future" \in Walking /\ ~Ends("future")
    BY DEF Walking, Ends
  <2>2. at.previous \in FutureStart(mem) .. mem.survivorStart
    BY <1>1, <1>2, <2>1 DEF Numbers
  <2> QED
    BY <1>1, <1>2, <2>1, <2>2 DEF Numbers
<1>7. CorpsesAt(mem, there) = C /\ CorpsesAt(mem, again) = C
  BY <1>3, <1>4, NoRange DEF CorpsesAt
<1>8. CASE ~KeepSameSize(mem)
  <2>1. Step(mem, "remembered", again)
    BY <1>8 DEF FutureSpaceScavenged, there, again
  <2>2. Numbers(mem, "remembered", again)
    BY <1>2, <1>4, <1>6 DEF Numbers, Pcs, Ends, Walking
  <2>3. /\ Positions(mem, "remembered", again) = 1 .. RSize(mem)
        /\ WeakAt(mem, "remembered", again) = 1 .. RSize(mem)
        /\ Unscanned(mem, "remembered", again) = mem.previousSize + 1 .. RSize(mem)
        /\ EphemeronsAt(mem, "remembered", again) = E
        /\ FromAt(mem, "remembered", again) = mem.survivorStart /\ MappedAt("remembered", again)
    BY <1>2, <1>4, <1>6 DEF Positions, WeakAt, Unscanned, EphemeronsAt, FromAt, MappedAt, Ends
  <2>4. Scavenging(mem, "remembered", again, roots)
    BY Zenon, <1>2, <1>5, <1>7, <2>2, <2>3 DEF Scavenging
  <2> QED
    BY <2>1, <2>4, StepInv
<1>9. CASE KeepSameSize(mem) /\ NoEphemerons(mem)
  <2>1. Step(mem, "weaklings", there)
    BY <1>9 DEF FutureSpaceScavenged, there
  <2>2. mem.ephemerons = 0 /\ mem.ephemeronList = <<>> /\ mem.previousSize = RSize(mem)
    BY <1>9 DEF NoEphemerons, KeepSameSize, RSize
  <2>3. Numbers(mem, "weaklings", there)
    BY <1>2, <1>3, <1>6, <2>2 DEF Numbers, Pcs, Ends, Walking
  <2>4. /\ Positions(mem, "weaklings", there) = 1 .. RSize(mem)
        /\ WeakAt(mem, "weaklings", there) = 1 .. RSize(mem)
        /\ Unscanned(mem, "weaklings", there) = {} /\ EphemeronsAt(mem, "weaklings", there) = {}
        /\ U = {} /\ E = {}
        /\ FromAt(mem, "weaklings", there) = mem.survivorStart /\ MappedAt("weaklings", there)
    BY <1>2, <1>3, <1>6, <2>2 DEF Positions, WeakAt, Unscanned, EphemeronsAt, FromAt, MappedAt, Ends
  <2>5. KeptNew(mem, (1 .. there.i - 1) \cap (1 .. RSize(mem)))
    BY <1>3 DEF KeptNew
  <2>6. Scavenging(mem, "weaklings", there, roots)
    BY Zenon, <1>2, <1>5, <1>7, <2>3, <2>4, <2>5 DEF Scavenging
  <2> QED
    BY <2>1, <2>6, StepInv
<1>10. CASE KeepSameSize(mem) /\ ~NoEphemerons(mem)
  <2>1. Step(mem, "unfired", there)
    BY <1>10 DEF FutureSpaceScavenged, there
  <2>2. Numbers(mem, "unfired", there)
    BY <1>2, <1>3, <1>6 DEF Numbers, Pcs, Ends, Walking
  <2>3. /\ Positions(mem, "unfired", there) = 1 .. RSize(mem)
        /\ WeakAt(mem, "unfired", there) = 1 .. RSize(mem)
        /\ Unscanned(mem, "unfired", there) = mem.previousSize + 1 .. RSize(mem)
        /\ EphemeronsAt(mem, "unfired", there) = E
        /\ FromAt(mem, "unfired", there) = mem.survivorStart /\ MappedAt("unfired", there)
    BY <1>2, <1>3, <1>6 DEF Positions, WeakAt, Unscanned, EphemeronsAt, FromAt, MappedAt, Ends
  <2>4. Scavenging(mem, "unfired", there, roots)
    BY Zenon, <1>2, <1>5, <1>7, <2>2, <2>3 DEF Scavenging
  <2> QED
    BY <2>1, <2>4, StepInv
<1> QED
  BY <1>8, <1>9, <1>10

\* The first positions of a remembered set.
LEMMA CutFacts ==
    ASSUME NEW m \in Memories, NEW d \in Nat, d <= Len(m.rememberedSet)
    PROVE  LET n == [m EXCEPT !.rememberedSet = SubSeq(@, 1, d), !.previousSize = d] IN
           /\ SameHeap(m, n) /\ SameLists(m, n) /\ n.mournQueue = m.mournQueue
           /\ n.previousSize = d /\ n.ephemerons = m.ephemerons
           /\ Len(n.rememberedSet) = d
           /\ \A p \in 1 .. d : n.rememberedSet[p] = m.rememberedSet[p]
<1> DEFINE s == SubSeq(m.rememberedSet, 1, d)
<1>1. /\ m.rememberedSet \in Seq(OldAddresses)
      /\ s \in Seq(OldAddresses) /\ Len(s) = d /\ \A p \in 1 .. d : s[p] = m.rememberedSet[p]
  BY Fields, SubSeqProperties, InRange
<1> HIDE DEF s
<1> QED
  BY Zenon, <1>1 DEF Memories, SameHeap, SameLists, s

\* Roots and mourners stay valid under the same heap.
LEMMA HeldSameHeap ==
    ASSUME NEW m, NEW n, SameHeap(m, n), n.mournQueue = m.mournQueue,
           NEW rs, NEW mapped, Held(m, rs, mapped)
    PROVE  Held(n, rs, mapped)
<1> QED
  BY SameHeapFacts DEF Held

\* The step RememberedSetScavenged preserves the invariant.
LEMMA RememberedSetScavengedInv ==
    ASSUME Inv, RememberedSetScavenged
    PROVE  Inv'
<1> DEFINE d == at.dest - 1
           n == [mem EXCEPT !.rememberedSet = SubSeq(@, 1, at.dest - 1), !.previousSize = at.dest - 1]
           E == 1 .. mem.ephemerons
           C == Range(mem.ephemeronList)
<1>1. pc = "remembered" /\ at.i > RSize(mem)
  BY DEF RememberedSetScavenged, RSize
<1>2. /\ at \in Walks /\ Numbers(mem, pc, at) /\ HeapOK(mem) /\ mem \in Memories
      /\ RSize(mem) \in Nat /\ mem.ephemerons \in Nat /\ FutureStart(mem) \in Nat \ {0}
      /\ mem.survivorStart \in Nat
  BY <1>1, InvFacts
<1>3. /\ at.i = RSize(mem) + 1 /\ at.dest <= at.i /\ at.dest \in Nat \ {0} /\ mem.ephemerons < at.dest
      /\ at.todo = <<>> /\ at.kept = <<>> /\ at.previous \in Nat
  BY <1>1, <1>2, WalkFields DEF Numbers
<1>4. d \in Nat /\ d <= RSize(mem) /\ mem.ephemerons <= d
  BY <1>2, <1>3
<1>5. at.previous \in FutureStart(mem) .. mem.survivorStart /\ at.previous \in Nat \ {0}
  <2>1. ~Ends("remembered")
    BY DEF Ends
  <2> QED
    BY <1>1, <1>2, <2>1 DEF Numbers
<1>6. /\ SameHeap(mem, n) /\ SameLists(mem, n) /\ n.mournQueue = mem.mournQueue
      /\ n.previousSize = d /\ n.ephemerons = mem.ephemerons
      /\ RSize(n) = d /\ \A p \in 1 .. d : n.rememberedSet[p] = mem.rememberedSet[p]
  BY Zenon, <1>2, <1>4, CutFacts DEF RSize
<1>7. /\ IF at.firstTime THEN Step(n, "roots", at)
         ELSE IF NothingNew(n) THEN Step(n, "weaklings", From(1))
         ELSE Step(n, "future", From(at.previous))
  BY DEF RememberedSetScavenged
<1> HIDE DEF n
<1>8. Loop(mem, 1 .. d, at.previous, E, C, ~at.firstTime, 1 .. d, E, (1 .. d) \ E)
  <2>1. at.i .. RSize(mem) = {}
    BY <1>2, <1>3
  <2>2. /\ Positions(mem, pc, at) = 1 .. d /\ WeakAt(mem, pc, at) = 1 .. d
        /\ Unscanned(mem, pc, at) = {} /\ EphemeronsAt(mem, pc, at) = E /\ CorpsesAt(mem, at) = C
        /\ FromAt(mem, pc, at) = at.previous /\ MappedAt(pc, at) = ~at.firstTime
    BY <1>1, <1>3, <2>1, NoRange DEF Positions, WeakAt, Unscanned, EphemeronsAt, CorpsesAt, FromAt, MappedAt, Ends
  <2> HIDE DEF E, C, d
  <2>3. {} \cup E = E
    OBVIOUS
  <2> QED
    BY Zenon, <1>1, <2>2, <2>3, InvFacts
<1>9. Range(n.ephemeronList) = C /\ n.ephemeronList = mem.ephemeronList /\ n.weakList = mem.weakList
  BY <1>6 DEF SameLists
<1>10. Loop(n, 1 .. d, at.previous, E, C, ~at.firstTime, 1 .. d, E, (1 .. d) \ E)
  <2>1. 1 .. d \subseteq 1 .. Len(n.rememberedSet)
    BY <1>6 DEF RSize
  <2> HIDE DEF E, C
  <2> QED
    BY ZenonT(60), <1>6, <1>8, <1>9, <2>1, LoopSame
<1>11. Cardinality(Objects(n)) = Cardinality(Objects(mem))
       /\ FutureStart(n) = FutureStart(mem) /\ n.survivorStart = mem.survivorStart
  BY <1>6, SameHeapFacts DEF SameHeap
<1>12. Held(n, roots, ~at.firstTime)
  BY <1>1, <1>6, HeldSameHeap, InvFacts DEF MappedAt
<1>13. CASE at.firstTime
  <2>1. Step(n, "roots", at)
    BY <1>7, <1>13
  <2>2. Numbers(n, "roots", at)
    BY <1>1, <1>2, <1>3, <1>4, <1>5, <1>6, <1>11 DEF Numbers, Pcs, Walking, Ends
  <2>3. /\ Positions(n, "roots", at) = 1 .. d /\ WeakAt(n, "roots", at) = 1 .. d
        /\ Unscanned(n, "roots", at) \cup EphemeronsAt(n, "roots", at) = E
        /\ EphemeronsAt(n, "roots", at) = E /\ CorpsesAt(n, at) = C
        /\ FromAt(n, "roots", at) = at.previous /\ MappedAt("roots", at) = ~at.firstTime
    BY <1>3, <1>4, <1>6, <1>9, <1>13, NoRange DEF Positions, WeakAt, Unscanned, EphemeronsAt, CorpsesAt, FromAt, MappedAt, Ends
  <2> HIDE DEF E, C
  <2>4. Scavenging(n, "roots", at, roots)
    BY Zenon, <1>10, <1>12, <2>2, <2>3 DEF Scavenging
  <2> QED
    BY <1>11, <2>1, <2>4, StepInv
<1>14. CASE ~at.firstTime /\ NothingNew(n)
  <2> DEFINE w == From(1)
  <2>1. Step(n, "weaklings", w)
    BY <1>7, <1>14
  <2>2. n.ephemerons = 0 /\ n.ephemeronList = <<>> /\ at.previous = n.survivorStart
    BY <1>14 DEF NothingNew, NoEphemerons
  <2>3. /\ w \in Walks /\ w.i = 1 /\ w.dest = 1 /\ w.previous = at.previous
        /\ w.firstTime = FALSE /\ w.todo = <<>> /\ w.kept = <<>>
    <3>1. 1 \in Nat \ {0}
      OBVIOUS
    <3> QED
      BY <1>2, <3>1, FromFields
  <2> HIDE DEF w
  <2>4. Numbers(n, "weaklings", w)
    BY <1>4, <1>5, <1>6, <1>11, <2>2, <2>3 DEF Numbers, Pcs, Walking, Ends
  <2>5. /\ Positions(n, "weaklings", w) = 1 .. d /\ WeakAt(n, "weaklings", w) = 1 .. d
        /\ Unscanned(n, "weaklings", w) = {} /\ EphemeronsAt(n, "weaklings", w) = {} /\ E = {}
        /\ CorpsesAt(n, w) = C
        /\ FromAt(n, "weaklings", w) = at.previous /\ MappedAt("weaklings", w) = ~at.firstTime
    BY <1>4, <1>6, <1>9, <1>14, <2>2, <2>3, NoRange DEF Positions, WeakAt, Unscanned, EphemeronsAt, CorpsesAt, FromAt, MappedAt, Ends
  <2>6. KeptNew(n, (1 .. w.i - 1) \cap (1 .. RSize(n)))
    BY <2>3 DEF KeptNew
  <2>7. {} \cup E = E
    OBVIOUS
  <2> HIDE DEF E, C
  <2>8. Scavenging(n, "weaklings", w, roots)
    BY <1>10, <1>12, <1>14, <2>4, <2>5, <2>6, <2>7 DEF Scavenging
  <2> QED
    BY <1>11, <2>1, <2>8, StepInv
<1>15. CASE ~at.firstTime /\ ~NothingNew(n)
  <2> DEFINE w == From(at.previous)
  <2>1. Step(n, "future", w)
    BY <1>7, <1>15
  <2>3. /\ w \in Walks /\ w.i = at.previous /\ w.dest = at.previous /\ w.previous = at.previous
        /\ w.firstTime = FALSE /\ w.todo = <<>> /\ w.kept = <<>>
    BY Zenon, <1>2, <1>5, FromFields
  <2> HIDE DEF w
  <2>4. Numbers(n, "future", w)
    BY <1>2, <1>4, <1>5, <1>6, <1>11, <2>3 DEF Numbers, Pcs, Walking, Ends
  <2>5. /\ Positions(n, "future", w) = 1 .. d /\ WeakAt(n, "future", w) = 1 .. d
        /\ Unscanned(n, "future", w) \cup EphemeronsAt(n, "future", w) = E
        /\ EphemeronsAt(n, "future", w) = E
        /\ CorpsesAt(n, w) = C
        /\ FromAt(n, "future", w) = at.previous /\ MappedAt("future", w) = ~at.firstTime
    BY <1>4, <1>6, <1>9, <1>15, <2>3, NoRange DEF Positions, WeakAt, Unscanned, EphemeronsAt, CorpsesAt, FromAt, MappedAt, Ends
  <2> HIDE DEF E, C
  <2>8. Scavenging(n, "future", w, roots)
    BY Zenon, <1>10, <1>12, <1>15, <2>4, <2>5 DEF Scavenging
  <2> QED
    BY <1>11, <2>1, <2>8, StepInv
<1> QED
  BY <1>13, <1>14, <1>15

\* An object of future space is there to be scanned.
LEMMA InFutureLive ==
    ASSUME NEW m, HeapOK(m), NEW a \in FutureStart(m) .. m.survivorStart - 1
    PROVE  Live(m, a) /\ InFuture(m, a)
<1>1. m \in Memories /\ m.survivorStart \in FutureStart(m) .. FutureLimit(m)
  BY DEF HeapOK
<1>2. a \in Addresses /\ a \in FutureStart(m) .. FutureLimit(m) - 1 /\ InFuture(m, a)
  BY <1>1, Future, Layout DEF InFuture
<1>3. ~IsKind(m, a, "free")
  BY <1>2 DEF HeapOK, CellOK
<1> QED
  BY <1>2, <1>3 DEF Live, Used, InSource

\* The step ScavengeFutureSpace preserves the invariant.
LEMMA ScavengeFutureSpaceInv ==
    ASSUME Inv, ScavengeFutureSpace
    PROVE  Inv'
<1> DEFINE a == at.i
           n == ScavengeReferentsOf(mem, a)
           w == Next1
           z == mem.previousSize
           E == 1 .. mem.ephemerons
           U == (z + 1 .. RSize(mem)) \cup E
           V == (z + 1 .. RSize(n)) \cup E
           C == Range(mem.ephemeronList)
           D == Range(n.ephemeronList)
<1>1. pc = "future" /\ at.i < mem.survivorStart
  BY DEF ScavengeFutureSpace
<1>2. /\ at \in Walks /\ Numbers(mem, pc, at) /\ HeapOK(mem) /\ mem \in Memories
      /\ RSize(mem) \in Nat /\ mem.ephemerons \in Nat /\ FutureStart(mem) \in Nat \ {0}
      /\ mem.survivorStart \in Nat /\ z \in Nat /\ Held(mem, roots, TRUE)
  BY <1>1, InvFacts DEF MappedAt
<1>3. /\ z <= RSize(mem) /\ mem.ephemerons <= z /\ at.todo = <<>> /\ at.kept = <<>>
      /\ at.previous \in FutureStart(mem) .. mem.survivorStart
      /\ at.i \in at.previous .. mem.survivorStart /\ at.dest <= at.i
  <2>1. "future" \in Walking /\ ~Ends("future")
    BY DEF Walking, Ends
  <2> QED
    BY <1>1, <1>2, <2>1 DEF Numbers
<1>4. Loop(mem, 1 .. RSize(mem), a, U, C, TRUE, 1 .. RSize(mem), E, (1 .. RSize(mem)) \ U)
  BY Zenon, <1>1, <1>3, InvFacts, NoRange DEF Positions, FromAt, Unscanned, EphemeronsAt, CorpsesAt, MappedAt, WeakAt, Ends
<1>5. Live(mem, a) /\ InFuture(mem, a)
  BY <1>1, <1>2, <1>3, InFutureLive
<1>6. /\ HeapOK(n) /\ Grows(mem, n) /\ Live(n, a)
      /\ Loop(n, (1 .. RSize(mem)) \cup NewPositions(mem, n), a, U \cup NewPositions(mem, n), C \cup D,
              TRUE, (1 .. RSize(mem)) \cup NewPositions(mem, n), E, (1 .. RSize(mem)) \ U)
      /\ NewPositions(mem, n) = RSize(mem) + 1 .. RSize(n)
      /\ RSize(n) >= RSize(mem)
      /\ ~IsUnfired(mem, a) => Done(n, a)
  <2> DEFINE P == 1 .. RSize(mem)
             K == P \ U
  <2>1. Loop(mem, P, a, U, C, TRUE, P, E, K)
    BY Zenon, <1>4
  <2>2. n = ScavengeReferentsOf(mem, a)
    OBVIOUS
  <2> HIDE DEF U, E, C, P, K, n
  <2>3. HeapOK(n) /\ Grows(mem, n) /\ Live(n, a)
    BY Zenon, <1>5, <2>1, <2>2, LoopScan
  <2>4. LET Q == NewPositions(mem, n)
        IN  Loop(n, P \cup Q, a, U \cup Q, C \cup D, TRUE, P \cup Q, E, K)
    BY Zenon, <1>5, <2>1, <2>2, LoopScan
  <2>5. /\ NewPositions(mem, n) = Len(mem.rememberedSet) + 1 .. Len(n.rememberedSet)
        /\ Len(n.rememberedSet) >= Len(mem.rememberedSet)
    BY <1>2, <2>3, PositionsAfter DEF NewPositions
  <2>6. ~IsUnfired(mem, a) => Done(n, a)
    BY Zenon, <1>5, <2>1, <2>2, LoopScan
  <2> QED
    BY Zenon, <2>3, <2>4, <2>5, <2>6 DEF P, K, RSize
<1>7. Step(n, "future", w)
  BY DEF ScavengeFutureSpace
<1> HIDE DEF n
<1>8. /\ C \subseteq D /\ n.previousSize = z /\ n.ephemerons = mem.ephemerons
      /\ n.survivorStart \in Nat /\ n.survivorStart >= mem.survivorStart
      /\ Cardinality(Objects(n)) = Cardinality(Objects(mem))
      /\ FutureStart(n) = FutureStart(mem) /\ RSize(n) \in Nat
  BY Zenon, <1>2, <1>6, GrowsUsed, Fields, InRange DEF Grows, ListsGrow, SameRest, HeapOK, RSize
<1>9. /\ (1 .. RSize(mem)) \cup NewPositions(mem, n) = 1 .. RSize(n)
      /\ U \cup NewPositions(mem, n) = V
      /\ (1 .. RSize(mem)) \ U = (1 .. RSize(n)) \ V
      /\ C \cup D = D
  BY SMTT(60), <1>2, <1>3, <1>6, <1>8
<1>10. Loop(n, 1 .. RSize(n), a, V, D, TRUE, 1 .. RSize(n), E, (1 .. RSize(n)) \ V)
  <2> HIDE DEF U, V, E
  <2> QED
    BY Zenon, <1>6, <1>9
<1>11. /\ w \in Walks /\ w.i = a + 1 /\ w.dest = at.dest /\ w.previous = at.previous
       /\ w.todo = <<>> /\ w.kept = <<>>
  BY <1>2, <1>3, NextFields
<1> HIDE DEF w
<1>12. Done(n, a) \/ Listed(n, D, a)
  <2>1. CASE IsUnfired(n, a)
    <3>1. InFuture(n, a)
      BY <1>2, <1>5, <1>6, GrowsUsed
    <3>2. a \in Addresses
      BY <1>5 DEF Live, Used
    <3> QED
      BY <1>10, <2>1, <3>1, <3>2 DEF Loop, UnfiredListed
  <2>2. CASE ~IsUnfired(mem, a)
    BY <1>6, <2>2
  <2>3. CASE IsUnfired(mem, a) /\ ~IsUnfired(n, a)
    <3>1. n = mem
      <4>1. NumStrongSlotsOf(mem, a) = 0
        BY <1>2, <1>5, <2>3, StrongFacts
      <4> QED
        BY <1>2, <1>5, <4>1, UnfiredScan DEF n
    <3> QED
      BY <2>3, <3>1
  <2> QED
    BY <2>1, <2>2, <2>3
<1>13. Loop(n, 1 .. RSize(n), a + 1, V, D, TRUE, 1 .. RSize(n), E, (1 .. RSize(n)) \ V)
  <2>1. a + 1 \in FutureStart(n) .. n.survivorStart
    BY <1>1, <1>2, <1>3, <1>8
  <2>2. \A x \in Addresses : Live(n, x) /\ InFuture(n, x) /\ x >= a /\ ~(x >= a + 1)
                               => Done(n, x) \/ Listed(n, D, x)
    <3>1. a \in Nat /\ \A x \in Addresses : x \in Nat
      BY <1>2, <1>3, Layout
    <3>2. \A x \in Addresses : x >= a /\ ~(x >= a + 1) => x = a
      BY <3>1
    <3> QED
      BY <1>12, <3>2
  <2>3. V \subseteq 1 .. RSize(n)
    BY SMTT(60), <1>2, <1>3, <1>6, <1>8
  <2> HIDE DEF V, E, D
  <2> QED
    BY ZenonT(60), <1>10, <2>1, <2>2, <2>3, LoopLess
<1>14. Held(n, roots, TRUE)
  BY Zenon, <1>2, <1>6, HeldGrows
<1>15. Numbers(n, "future", w)
  <2>1. at.dest \in Nat /\ at.i \in Nat /\ at.previous \in Nat
    BY <1>2, WalkFields
  <2>2. /\ w.dest <= w.i /\ w.i \in w.previous .. n.survivorStart
        /\ w.previous \in FutureStart(n) .. n.survivorStart /\ z <= RSize(n) /\ n.ephemerons <= RSize(n)
    <3>1. /\ a \in Nat /\ a < mem.survivorStart /\ a \in at.previous .. mem.survivorStart /\ at.dest <= a
          /\ at.previous \in FutureStart(mem) .. mem.survivorStart
          /\ mem.survivorStart \in Nat /\ FutureStart(mem) \in Nat
      BY <1>1, <1>2, <1>3
    <3>2. /\ z \in Nat /\ z <= RSize(mem) /\ mem.ephemerons <= z /\ mem.ephemerons \in Nat
          /\ RSize(mem) \in Nat /\ RSize(n) \in Nat /\ RSize(n) >= RSize(mem)
      BY SMTT(60), <1>2, <1>3, <1>6, <1>8
    <3>3. w.i = a + 1 /\ w.dest = at.dest /\ w.previous = at.previous
      BY <1>11
    <3>4. /\ n.ephemerons = mem.ephemerons /\ FutureStart(n) = FutureStart(mem)
          /\ n.survivorStart \in Nat /\ n.survivorStart >= mem.survivorStart
      BY <1>8
    <3> QED
      BY ONLY <2>1, <3>1, <3>2, <3>3, <3>4
  <2> QED
    BY <1>3, <1>8, <1>11, <2>2 DEF Numbers, Pcs, Walking, Ends
<1>16. /\ Positions(n, "future", w) = 1 .. RSize(n) /\ WeakAt(n, "future", w) = 1 .. RSize(n)
       /\ Unscanned(n, "future", w) = z + 1 .. RSize(n)
       /\ EphemeronsAt(n, "future", w) = E
       /\ CorpsesAt(n, w) = D
       /\ FromAt(n, "future", w) = a + 1 /\ MappedAt("future", w)
  BY <1>8, <1>11, NoRange DEF Positions, WeakAt, Unscanned, EphemeronsAt, CorpsesAt, FromAt, MappedAt, Ends
<1>17. Scavenging(n, "future", w, roots)
  BY Zenon, <1>13, <1>14, <1>15, <1>16 DEF Scavenging
<1> QED
  BY <1>7, <1>8, <1>17, StepInv

\* The state of a loop that is not the one over the remembered set.
Walked(m, from, C, E, mapped) ==
    LET U == (m.previousSize + 1 .. RSize(m)) \cup E
    IN  Loop(m, 1 .. RSize(m), from, U, C, mapped, 1 .. RSize(m), E, (1 .. RSize(m)) \ U)

\* Away from the loop over the remembered set, the invariant is the state Walked, the roots and the numbers.
LEMMA WalkedPart ==
    ASSUME NEW m, NEW p \in Walking, NEW w, NEW rs, Numbers(m, p, w)
    PROVE  Scavenging(m, p, w, rs) <=>
              /\ Walked(m, FromAt(m, p, w), CorpsesAt(m, w), EphemeronsAt(m, p, w), MappedAt(p, w))
              /\ Held(m, rs, MappedAt(p, w))
<1>1. p \notin {"remembered", "weaklings", "scavenged"} /\ ~Ends(p)
  BY DEF Walking, Ends
<1>2. /\ Positions(m, p, w) = 1 .. RSize(m) /\ WeakAt(m, p, w) = 1 .. RSize(m)
      /\ Unscanned(m, p, w) = m.previousSize + 1 .. RSize(m)
  BY <1>1 DEF Positions, WeakAt, Unscanned
<1> QED
  BY <1>1, <1>2 DEF Walked, Scavenging

\* Scanning a live object keeps the state Walked.
LEMMA WalkedScan ==
    ASSUME NEW m, NEW from, NEW C, NEW E, NEW mapped, Walked(m, from, C, E, mapped),
           m.previousSize <= RSize(m), E \subseteq 1 .. m.previousSize,
           NEW a, Live(m, a), NEW n, n = ScavengeReferentsOf(m, a)
    PROVE  /\ HeapOK(m) /\ HeapOK(n) /\ Grows(m, n)
           /\ Walked(n, from, C \cup Range(n.ephemeronList), E, mapped)
           /\ \A p \in 1 .. RSize(m) : n.rememberedSet[p] = m.rememberedSet[p]
           /\ RSize(m) \in Nat /\ RSize(n) \in Nat /\ RSize(n) >= RSize(m)
           /\ n.previousSize = m.previousSize /\ n.ephemerons = m.ephemerons
           /\ Range(m.ephemeronList) \subseteq Range(n.ephemeronList)
           /\ FutureStart(n) = FutureStart(m) /\ n.survivorStart >= m.survivorStart
           /\ Cardinality(Objects(n)) = Cardinality(Objects(m))
           /\ Live(n, a)
           /\ ~IsUnfired(m, a) => /\ Done(n, a) /\ ~IsUnfired(n, a)
                                  /\ KeepsNew(n, a) => IsKind(n, a, "weak") \/ HasNew(n, a)
                                  /\ ~KeepsNew(n, a) => ~IsKind(n, a, "weak") /\ ~RefersToYoung(n, a)
<1> DEFINE z == m.previousSize
           P == 1 .. RSize(m)
           U == (z + 1 .. RSize(m)) \cup E
           K == P \ U
           V == (z + 1 .. RSize(n)) \cup E
           Q == NewPositions(m, n)
           D == C \cup Range(n.ephemeronList)
<1>1. Loop(m, P, from, U, C, mapped, P, E, K)
  BY DEF Walked
<1>2. HeapOK(m) /\ m \in Memories /\ z \in Nat /\ m.survivorStart \in Nat
  BY <1>1, Fields DEF Loop, HeapOK
<1> HIDE DEF P, U, K, Q, D
<1>3. HeapOK(n) /\ Grows(m, n) /\ Live(n, a)
  BY Zenon, <1>1, LoopScan
<1>4. Loop(n, P \cup Q, from, U \cup Q, D, mapped, P \cup Q, E, K)
  BY <1>1, LoopScan DEF Q, D
<1>5. ~IsUnfired(m, a) => /\ Done(n, a) /\ ~IsUnfired(n, a)
                          /\ KeepsNew(n, a) => IsKind(n, a, "weak") \/ HasNew(n, a)
                          /\ ~KeepsNew(n, a) => ~IsKind(n, a, "weak") /\ ~RefersToYoung(n, a)
  BY Zenon, <1>1, LoopScan
<1>6. /\ RSize(m) \in Nat /\ RSize(n) \in Nat /\ RSize(n) >= RSize(m)
      /\ \A p \in 1 .. RSize(m) : n.rememberedSet[p] = m.rememberedSet[p]
      /\ Q = RSize(m) + 1 .. RSize(n)
  BY <1>2, <1>3, PositionsAfter DEF NewPositions, RSize, Q
<1>7. /\ n.previousSize = z /\ n.ephemerons = m.ephemerons
      /\ Range(m.ephemeronList) \subseteq Range(n.ephemeronList)
      /\ FutureStart(n) = FutureStart(m) /\ n.survivorStart >= m.survivorStart
      /\ Cardinality(Objects(n)) = Cardinality(Objects(m))
  BY <1>2, <1>3, GrowsUsed DEF Grows, ListsGrow, SameRest
<1>8. P \cup Q = 1 .. RSize(n) /\ U \cup Q = V /\ K = (1 .. RSize(n)) \ V
  BY <1>2, <1>6 DEF P, U, K
<1>9. Walked(n, from, D, E, mapped)
  <2> HIDE DEF V
  <2>1. Loop(n, 1 .. RSize(n), from, V, D, mapped, 1 .. RSize(n), E, (1 .. RSize(n)) \ V)
    BY Zenon, <1>4, <1>8
  <2> QED
    BY <1>7, <2>1 DEF Walked, V
<1> QED
  BY <1>2, <1>3, <1>5, <1>6, <1>7, <1>9 DEF D

\* Other lists of corpses.
LEMMA WalkedLess ==
    ASSUME NEW m, NEW from, NEW C, NEW E, NEW mapped, Walked(m, from, C, E, mapped),
           NEW n, SameHeap(m, n), n.rememberedSet = m.rememberedSet,
           n.previousSize = m.previousSize, n.weakList = m.weakList,
           NEW D, D \subseteq C, Range(n.ephemeronList) \subseteq D,
           \A c \in C \ D : Done(m, FollowForwarded(m, c)) /\ ~IsUnfired(m, FollowForwarded(m, c))
    PROVE  Walked(n, from, D, E, mapped)
<1> DEFINE P == 1 .. RSize(m)
           U == (m.previousSize + 1 .. RSize(m)) \cup E
           K == P \ U
<1>1. Loop(m, P, from, U, C, mapped, P, E, K)
  BY DEF Walked
<1>2. RSize(n) = RSize(m)
  BY DEF RSize
<1>3. P \subseteq 1 .. Len(n.rememberedSet) /\ \A p \in P : n.rememberedSet[p] = m.rememberedSet[p]
  BY DEF RSize
<1> HIDE DEF P, U, K
<1>4. Loop(n, P, from, U, D, mapped, P, E, K)
  BY Zenon, <1>1, <1>3, LoopSame
<1> QED
  BY <1>2, <1>4 DEF Walked, P, U, K

\* What the invariant says in one of the walking steps.
LEMMA InvWalked ==
    ASSUME Inv, pc \in Walking
    PROVE  /\ Walked(mem, FromAt(mem, pc, at), CorpsesAt(mem, at), EphemeronsAt(mem, pc, at), MappedAt(pc, at))
           /\ Held(mem, roots, MappedAt(pc, at))
           /\ at \in Walks /\ Numbers(mem, pc, at) /\ HeapOK(mem) /\ mem \in Memories
           /\ RSize(mem) \in Nat /\ mem.ephemerons \in Nat /\ FutureStart(mem) \in Nat \ {0}
           /\ mem.survivorStart \in Nat /\ mem.previousSize \in Nat
           /\ mem.previousSize <= RSize(mem) /\ mem.ephemerons <= mem.previousSize
           /\ at.previous \in FutureStart(mem) .. mem.survivorStart /\ at.dest <= at.i
<1>1. pc # "mutator" /\ ~Ends(pc) /\ pc \notin {"remembered", "weaklings", "scavenged"}
  BY DEF Walking, Ends
<1>2. /\ Scavenging(mem, pc, at, roots)
      /\ at \in Walks /\ Numbers(mem, pc, at) /\ HeapOK(mem) /\ mem \in Memories
      /\ RSize(mem) \in Nat /\ mem.ephemerons \in Nat /\ FutureStart(mem) \in Nat \ {0}
      /\ mem.survivorStart \in Nat /\ mem.previousSize \in Nat
  BY <1>1, InvFacts
<1>3. /\ Walked(mem, FromAt(mem, pc, at), CorpsesAt(mem, at), EphemeronsAt(mem, pc, at), MappedAt(pc, at))
      /\ Held(mem, roots, MappedAt(pc, at))
  BY <1>2, WalkedPart
<1>4. /\ mem.previousSize <= RSize(mem) /\ mem.ephemerons <= mem.previousSize
      /\ at.previous \in FutureStart(mem) .. mem.survivorStart /\ at.dest <= at.i
  BY <1>1, <1>2 DEF Numbers
<1> QED
  BY <1>2, <1>3, <1>4

\* A step that ends in the state Walked preserves the invariant.
LEMMA WalkedInv ==
    ASSUME Inv, NEW n, NEW to \in Walking, NEW w, Step(n, to, w), Numbers(n, to, w),
           Cardinality(Objects(n)) = Cardinality(Objects(mem)),
           Walked(n, FromAt(n, to, w), CorpsesAt(n, w), EphemeronsAt(n, to, w), MappedAt(to, w)),
           Held(n, roots, MappedAt(to, w))
    PROVE  Inv'
<1>1. Scavenging(n, to, w, roots)
  BY WalkedPart
<1> QED
  BY <1>1, StepInv

\* A loop over future space, or over ephemerons, that the one over the remembered set follows.
LEMMA ToRememberedSetInv ==
    ASSUME Inv, NEW n, ToRememberedSet(n), at \in Walks,
           Cardinality(Objects(n)) = Cardinality(Objects(mem)),
           Walked(n, at.previous, Range(n.ephemeronList), 1 .. n.ephemerons, TRUE),
           Held(n, roots, TRUE), n.ephemerons <= n.previousSize, n.previousSize <= RSize(n),
           at.previous \in FutureStart(n) .. n.survivorStart
    PROVE  Inv'
<1> DEFINE z == n.previousSize
           w == From(z + 1)
           C == Range(n.ephemeronList)
           E == 1 .. n.ephemerons
           U == (z + 1 .. RSize(n)) \cup E
<1>1. HeapOK(n) /\ n \in Memories /\ z \in Nat /\ RSize(n) \in Nat /\ n.ephemerons \in Nat
  BY Fields, InRange DEF Walked, Loop, HeapOK, RSize
<1>2. /\ w \in Walks /\ w.i = z + 1 /\ w.dest = z + 1 /\ w.previous = at.previous
      /\ w.firstTime = FALSE /\ w.todo = <<>> /\ w.kept = <<>>
  <2>1. z + 1 \in Nat \ {0}
    BY <1>1
  <2> HIDE DEF z
  <2> QED
    BY Zenon, <2>1, FromFields
<1>3. Step(n, "remembered", w)
  BY DEF ToRememberedSet
<1> HIDE DEF w
<1>4. Numbers(n, "remembered", w)
  BY <1>1, <1>2 DEF Numbers, Pcs, Ends, Walking
<1>5. /\ Positions(n, "remembered", w) = 1 .. RSize(n)
      /\ WeakAt(n, "remembered", w) = 1 .. RSize(n)
      /\ Unscanned(n, "remembered", w) = z + 1 .. RSize(n)
      /\ EphemeronsAt(n, "remembered", w) = E /\ CorpsesAt(n, w) = C
      /\ FromAt(n, "remembered", w) = at.previous /\ MappedAt("remembered", w)
  BY <1>1, <1>2, NoRange DEF Positions, WeakAt, Unscanned, EphemeronsAt, FromAt, MappedAt, Ends, CorpsesAt
<1>6. Loop(n, 1 .. RSize(n), at.previous, U, C, TRUE, 1 .. RSize(n), E, (1 .. RSize(n)) \ U)
  BY Zenon DEF Walked
<1>7. Scavenging(n, "remembered", w, roots)
  BY Zenon, <1>4, <1>5, <1>6 DEF Scavenging
<1> QED
  BY <1>3, <1>7, StepInv

\* The step FiredOnEphemeronList preserves the invariant.
LEMMA FiredOnEphemeronListInv ==
    ASSUME Inv, FiredOnEphemeronList
    PROVE  Inv'
<1>1. pc = "fire_list" /\ at.todo = <<>> /\ ToRememberedSet(mem) /\ pc \in Walking
  BY DEF FiredOnEphemeronList, Walking
<1>2. /\ Walked(mem, FromAt(mem, pc, at), CorpsesAt(mem, at), EphemeronsAt(mem, pc, at), MappedAt(pc, at))
      /\ Held(mem, roots, MappedAt(pc, at)) /\ at \in Walks /\ Numbers(mem, pc, at)
      /\ mem.previousSize <= RSize(mem) /\ mem.ephemerons <= mem.previousSize
      /\ at.previous \in FutureStart(mem) .. mem.survivorStart
  BY <1>1, InvWalked
<1>3. at.kept = <<>>
  BY <1>1, <1>2 DEF Numbers
<1>4. /\ FromAt(mem, pc, at) = at.previous /\ CorpsesAt(mem, at) = Range(mem.ephemeronList)
      /\ EphemeronsAt(mem, pc, at) = 1 .. mem.ephemerons /\ MappedAt(pc, at) = TRUE
  BY <1>1, <1>3, NoRange DEF FromAt, CorpsesAt, EphemeronsAt, MappedAt, Ends
<1> QED
  BY Zenon, <1>1, <1>2, <1>4, ToRememberedSetInv

\* The memory and the place with other lists.
WithList(m, s, k) == [m EXCEPT !.ephemeronList = s, !.ephemerons = k]
WithLists(w, x, s, k, b) == [w EXCEPT !.i = x, !.todo = s, !.kept = k, !.scanned = b]

\* A memory with another list of ephemerons, field by field.
LEMMA ListFacts ==
    ASSUME NEW m \in Memories, NEW s \in Seq(Addresses), NEW k \in Nat,
           NEW n, n = WithList(m, s, k)
    PROVE  /\ SameHeap(m, n) /\ n.rememberedSet = m.rememberedSet
           /\ n.previousSize = m.previousSize /\ n.weakList = m.weakList
           /\ n.mournQueue = m.mournQueue /\ n.ephemeronList = s /\ n.ephemerons = k
           /\ RSize(n) = RSize(m)
<1> QED
  BY Zenon DEF Memories, SameHeap, RSize, WithList

\* Assigning the list alone leaves the count alone.
LEMMA JustTheList ==
    ASSUME NEW m \in Memories, NEW s
    PROVE  [m EXCEPT !.ephemeronList = s] = [m EXCEPT !.ephemeronList = s, !.ephemerons = m.ephemerons]
<1> QED
  BY Zenon DEF Memories

\* A place with other lists, field by field.
LEMMA ListFields ==
    ASSUME NEW w \in Walks, NEW s \in Seq(Addresses), NEW k \in Seq(Addresses), NEW x \in Nat \ {0}, NEW b \in BOOLEAN,
           NEW v, v = WithLists(w, x, s, k, b)
    PROVE  /\ v \in Walks /\ v.i = x /\ v.dest = w.dest /\ v.previous = w.previous
           /\ v.firstTime = w.firstTime /\ v.todo = s /\ v.kept = k /\ v.scanned = b
<1> QED
  BY Zenon DEF Walks, WithLists

\* Taking the list of ephemerons to walk over it preserves the invariant.
LEMMA TakeListInv ==
    ASSUME Inv, pc \in {"unfired", "fire"}, at.i > mem.ephemerons, NEW k \in 0 .. mem.ephemerons,
           pc = "fire" => k = 0, pc = "unfired" => k = mem.ephemerons,
           NEW to, to = (IF pc = "fire" THEN "fire_list" ELSE "unfired_list"),
           TakeList([mem EXCEPT !.ephemerons = k], to)
    PROVE  Inv'
<1> DEFINE w == [at EXCEPT !.i = 1, !.todo = mem.ephemeronList]
           n == [mem EXCEPT !.ephemeronList = <<>>, !.ephemerons = k]
           C == Range(mem.ephemeronList)
<1>0. pc \in Walking /\ to \in Walking
  BY DEF Walking
<1>1. /\ Walked(mem, FromAt(mem, pc, at), CorpsesAt(mem, at), EphemeronsAt(mem, pc, at), MappedAt(pc, at))
      /\ Held(mem, roots, MappedAt(pc, at)) /\ at \in Walks /\ Numbers(mem, pc, at)
      /\ mem \in Memories /\ mem.ephemerons \in Nat /\ mem.previousSize \in Nat /\ RSize(mem) \in Nat
      /\ mem.previousSize <= RSize(mem) /\ mem.ephemerons <= mem.previousSize
      /\ at.previous \in FutureStart(mem) .. mem.survivorStart
  BY <1>0, InvWalked
<1>2. at.kept = <<>> /\ at.todo = <<>> /\ at.dest = 1
  BY <1>1 DEF Numbers
<1>3. mem.ephemeronList \in Seq(Addresses) /\ <<>> \in Seq(Addresses)
  BY <1>1, Fields
<1>4. /\ w \in Walks /\ w.i = 1 /\ w.dest = 1 /\ w.previous = at.previous /\ w.todo = mem.ephemeronList
      /\ w.kept = <<>>
  <2> DEFINE one == 1
  <2>1. w = WithLists(at, one, mem.ephemeronList, at.kept, at.scanned)
    BY Zenon, <1>1 DEF Walks, WithLists
  <2>2. one \in Nat \ {0} /\ at.scanned \in BOOLEAN /\ at.kept \in Seq(Addresses)
    BY <1>1, WalkFields
  <2>3. one = 1
    OBVIOUS
  <2> HIDE DEF w, one
  <2>4. /\ w \in Walks /\ w.i = one /\ w.dest = at.dest /\ w.previous = at.previous
        /\ w.todo = mem.ephemeronList /\ w.kept = at.kept
    BY <1>1, <1>3, <2>1, <2>2, ListFields
  <2> QED
    BY <1>2, <2>3, <2>4
<1>5. /\ SameHeap(mem, n) /\ n.rememberedSet = mem.rememberedSet
      /\ n.previousSize = mem.previousSize /\ n.weakList = mem.weakList
      /\ n.mournQueue = mem.mournQueue /\ n.ephemeronList = <<>> /\ n.ephemerons = k
      /\ RSize(n) = RSize(mem)
  <2> DEFINE none == <<>>
  <2>1. n = WithList(mem, none, k) /\ k \in Nat /\ none \in Seq(Addresses)
    BY <1>1, <1>3 DEF WithList
  <2>2. none = <<>>
    OBVIOUS
  <2> HIDE DEF n, none
  <2>3. /\ SameHeap(mem, n) /\ n.rememberedSet = mem.rememberedSet
        /\ n.previousSize = mem.previousSize /\ n.weakList = mem.weakList
        /\ n.mournQueue = mem.mournQueue /\ n.ephemeronList = none /\ n.ephemerons = k
        /\ RSize(n) = RSize(mem)
    BY <1>1, <2>1, ListFacts
  <2> QED
    BY <2>2, <2>3
<1>6. Step(n, to, w)
  <2> USE DEF n
  <2> DEFINE u == [mem EXCEPT !.ephemerons = k]
  <2>1. [u EXCEPT !.ephemeronList = <<>>] = n /\ u.ephemeronList = mem.ephemeronList
    BY Zenon, <1>1 DEF Memories
  <2>2. TakeList(u, to)
    OBVIOUS
  <2> HIDE DEF u, n
  <2> QED
    BY <2>1, <2>2 DEF TakeList
<1> HIDE DEF n, w
<1>7. /\ CorpsesAt(mem, at) = C /\ CorpsesAt(n, w) = C
      /\ FromAt(mem, pc, at) = at.previous /\ FromAt(n, to, w) = at.previous
      /\ MappedAt(pc, at) = TRUE /\ MappedAt(to, w) = TRUE
  BY <1>2, <1>4, <1>5, NoRange DEF CorpsesAt, FromAt, MappedAt, Ends
<1>8. EphemeronsAt(mem, pc, at) = EphemeronsAt(n, to, w)
  <2>1. CASE pc = "fire"
    <3>1. at.i \in Nat
      BY <1>1, WalkFields
    <3> QED
      BY <1>1, <1>5, <2>1, <3>1 DEF EphemeronsAt
  <2>2. CASE pc = "unfired"
    BY <1>5, <2>2 DEF EphemeronsAt
  <2> QED
    BY <2>1, <2>2
<1>9. Walked(n, at.previous, C, EphemeronsAt(mem, pc, at), TRUE)
  <2>1. Range(n.ephemeronList) \subseteq C /\ C \subseteq C
    BY <1>5, NoRange
  <2>2. Walked(mem, at.previous, C, EphemeronsAt(mem, pc, at), TRUE)
    BY Zenon, <1>1, <1>7
  <2> HIDE DEF C
  <2> QED
    BY Zenon, <1>5, <2>1, <2>2, WalkedLess
<1>10. Held(n, roots, TRUE)
  BY Zenon, <1>1, <1>5, <1>7, HeldSameHeap
<1>11. FutureStart(n) = FutureStart(mem) /\ n.survivorStart = mem.survivorStart
       /\ Cardinality(Objects(n)) = Cardinality(Objects(mem))
  BY <1>5, SameHeapFacts DEF SameHeap
<1>12. Numbers(n, to, w)
  BY <1>0, <1>1, <1>4, <1>5, <1>11 DEF Numbers, Pcs, Ends
<1> QED
  BY Zenon, <1>0, <1>6, <1>7, <1>8, <1>9, <1>10, <1>11, <1>12, WalkedInv

\* The step UnfiredInRememberedSetScavenged preserves the invariant.
LEMMA UnfiredInRememberedSetScavengedInv ==
    ASSUME Inv, UnfiredInRememberedSetScavenged
    PROVE  Inv'
<1>1. pc = "unfired" /\ at.i > mem.ephemerons /\ TakeList(mem, "unfired_list") /\ pc \in Walking
  BY DEF UnfiredInRememberedSetScavenged, Walking
<1>2. mem \in Memories /\ mem.ephemerons \in Nat
  BY <1>1, InvWalked
<1>3. [mem EXCEPT !.ephemerons = mem.ephemerons] = mem /\ mem.ephemerons \in 0 .. mem.ephemerons
  BY <1>2 DEF Memories
<1> QED
  BY <1>1, <1>3, TakeListInv

\* The step FiredInRememberedSet preserves the invariant.
LEMMA FiredInRememberedSetInv ==
    ASSUME Inv, FiredInRememberedSet
    PROVE  Inv'
<1>1. pc = "fire" /\ at.i > mem.ephemerons /\ TakeList([mem EXCEPT !.ephemerons = 0], "fire_list") /\ pc \in Walking
  BY DEF FiredInRememberedSet, Walking
<1>2. mem \in Memories /\ mem.ephemerons \in Nat
  BY <1>1, InvWalked
<1>3. 0 \in 0 .. mem.ephemerons
  BY <1>2
<1> QED
  BY <1>1, <1>3, TakeListInv

\* The step UnfiredOnEphemeronListScavenged preserves the invariant.
LEMMA UnfiredOnEphemeronListScavengedInv ==
    ASSUME Inv, UnfiredOnEphemeronListScavenged
    PROVE  Inv'
<1> DEFINE s == at.kept \o mem.ephemeronList
           n == [mem EXCEPT !.ephemeronList = at.kept \o @]
           E == 1 .. mem.ephemerons
           C == Range(n.ephemeronList)
<1>0. pc = "unfired_list" /\ pc \in Walking /\ at.todo = <<>>
  BY DEF Walking, UnfiredOnEphemeronListScavenged
<1>1. /\ Walked(mem, FromAt(mem, pc, at), CorpsesAt(mem, at), EphemeronsAt(mem, pc, at), MappedAt(pc, at))
      /\ Held(mem, roots, MappedAt(pc, at)) /\ at \in Walks /\ Numbers(mem, pc, at)
      /\ mem \in Memories /\ mem.ephemerons \in Nat /\ mem.previousSize \in Nat /\ RSize(mem) \in Nat
      /\ mem.previousSize <= RSize(mem) /\ mem.ephemerons <= mem.previousSize
      /\ at.previous \in FutureStart(mem) .. mem.survivorStart
  BY <1>0, InvWalked
<1>2. mem.ephemeronList \in Seq(Addresses) /\ at.kept \in Seq(Addresses) /\ s \in Seq(Addresses)
      /\ Range(s) = Range(at.kept) \cup Range(mem.ephemeronList)
  <2>1. mem.ephemeronList \in Seq(Addresses) /\ at.kept \in Seq(Addresses)
    BY <1>1, Fields, WalkFields
  <2> QED
    BY <2>1, RangeConcatenation, ConcatProperties
<1>3. n = WithList(mem, s, mem.ephemerons)
  BY Zenon, <1>1 DEF Memories, WithList
<1>4. IF at.scanned THEN ToRememberedSet(n) ELSE Step(n, "fire", From(1))
  BY Zenon DEF UnfiredOnEphemeronListScavenged
<1> HIDE DEF n, s
<1>5. /\ SameHeap(mem, n) /\ n.rememberedSet = mem.rememberedSet
      /\ n.previousSize = mem.previousSize /\ n.weakList = mem.weakList
      /\ n.mournQueue = mem.mournQueue /\ n.ephemeronList = s /\ n.ephemerons = mem.ephemerons
      /\ RSize(n) = RSize(mem)
  BY <1>1, <1>2, <1>3, ListFacts
<1>6. /\ CorpsesAt(mem, at) = C /\ FromAt(mem, pc, at) = at.previous
      /\ MappedAt(pc, at) = TRUE /\ EphemeronsAt(mem, pc, at) = E
  BY <1>0, <1>2, <1>5, NoRange DEF CorpsesAt, FromAt, MappedAt, Ends, EphemeronsAt
<1>7. Walked(n, at.previous, C, E, TRUE)
  <2>1. Walked(mem, at.previous, C, E, TRUE) /\ Range(n.ephemeronList) \subseteq C /\ C \subseteq C
    BY Zenon, <1>1, <1>6
  <2> HIDE DEF C, E
  <2> QED
    BY Zenon, <1>5, <2>1, WalkedLess
<1>8. Held(n, roots, TRUE)
  BY Zenon, <1>1, <1>5, <1>6, HeldSameHeap
<1>9. FutureStart(n) = FutureStart(mem) /\ n.survivorStart = mem.survivorStart
      /\ Cardinality(Objects(n)) = Cardinality(Objects(mem))
  BY <1>5, SameHeapFacts DEF SameHeap
<1>10. CASE at.scanned
  <2>1. ToRememberedSet(n)
    BY <1>4, <1>10
  <2> QED
    BY Zenon, <1>1, <1>5, <1>7, <1>8, <1>9, <2>1, ToRememberedSetInv
<1>11. CASE ~at.scanned
  <2> DEFINE w == From(1)
  <2>1. Step(n, "fire", w)
    BY <1>4, <1>11
  <2>2. /\ w \in Walks /\ w.i = 1 /\ w.dest = 1 /\ w.previous = at.previous /\ w.todo = <<>> /\ w.kept = <<>>
    <3>1. 1 \in Nat \ {0}
      OBVIOUS
    <3> QED
      BY Zenon, <1>1, <3>1, FromFields
  <2> HIDE DEF w
  <2>3. /\ CorpsesAt(n, w) = C /\ FromAt(n, "fire", w) = at.previous
        /\ MappedAt("fire", w) = TRUE /\ EphemeronsAt(n, "fire", w) = E
    BY <1>5, <2>2, NoRange DEF CorpsesAt, FromAt, MappedAt, Ends, EphemeronsAt
  <2>4. Numbers(n, "fire", w)
    BY <1>1, <1>5, <1>9, <2>2 DEF Numbers, Pcs, Ends, Walking
  <2>5. "fire" \in Walking
    BY DEF Walking
  <2> HIDE DEF C, E
  <2> QED
    BY Zenon, <1>7, <1>8, <1>9, <2>1, <2>3, <2>4, <2>5, WalkedInv
<1> QED
  BY <1>10, <1>11

\* A list, and its head and tail.
LEMMA HeadRange ==
    ASSUME NEW S, NEW s \in Seq(S), s # <<>>
    PROVE  /\ Head(s) \in S /\ Tail(s) \in Seq(S) /\ Range(s) = {Head(s)} \cup Range(Tail(s))
           /\ Len(s) \in Nat /\ Len(s) >= 1 /\ Len(Tail(s)) = Len(s) - 1 /\ Head(s) = s[1]
           /\ \A i \in 1 .. Len(Tail(s)) : Tail(s)[i] = s[i + 1]
<1>1. /\ Head(s) \in S /\ Tail(s) \in Seq(S) /\ Len(s) \in Nat /\ Len(s) >= 1
      /\ Head(s) = s[1] /\ Len(Tail(s)) = Len(s) - 1
      /\ \A i \in 1 .. Len(Tail(s)) : Tail(s)[i] = s[i + 1]
  BY HeadTailProperties, EmptySeq
<1>2. /\ Range(s) = {s[i] : i \in 1 .. Len(s)}
      /\ Range(Tail(s)) = {Tail(s)[i] : i \in 1 .. Len(Tail(s))}
  BY ZenonT(60), <1>1, RangeEquality
<1>3. \A i \in 1 .. Len(s) : i = 1 \/ (i - 1 \in 1 .. Len(Tail(s)) /\ s[i] = Tail(s)[i - 1])
  BY <1>1
<1>4. \A i \in 1 .. Len(Tail(s)) : i + 1 \in 1 .. Len(s) /\ Tail(s)[i] = s[i + 1]
  BY <1>1
<1>5. ASSUME NEW x \in Range(s) PROVE x \in {Head(s)} \cup Range(Tail(s))
  BY SMTT(60), <1>1, <1>2, <1>3
<1>6. ASSUME NEW x \in {Head(s)} \cup Range(Tail(s)) PROVE x \in Range(s)
  BY <1>1, <1>2, <1>4
<1> QED
  BY <1>1, <1>5, <1>6

\* A list, with one more at its end.
LEMMA AppendRange ==
    ASSUME NEW S, NEW s \in Seq(S), NEW x \in S
    PROVE  /\ Append(s, x) \in Seq(S) /\ Range(Append(s, x)) = Range(s) \cup {x}
           /\ Len(Append(s, x)) = Len(s) + 1 /\ Len(s) \in Nat
           /\ \A i \in 1 .. Len(s) : Append(s, x)[i] = s[i]
           /\ Append(s, x)[Len(s) + 1] = x
<1>1. /\ Append(s, x) \in Seq(S) /\ Len(Append(s, x)) = Len(s) + 1 /\ Len(s) \in Nat
      /\ \A i \in 1 .. Len(s) : Append(s, x)[i] = s[i]
      /\ Append(s, x)[Len(s) + 1] = x
  BY AppendProperties
<1>2. /\ Range(s) = {s[i] : i \in 1 .. Len(s)}
      /\ Range(Append(s, x)) = {Append(s, x)[i] : i \in 1 .. Len(Append(s, x))}
  BY ZenonT(60), <1>1, RangeEquality
<1>3. \A i \in 1 .. Len(s) + 1 : i = Len(s) + 1 \/ i \in 1 .. Len(s)
  BY <1>1
<1>4. 1 .. Len(s) \subseteq 1 .. Len(s) + 1 /\ Len(s) + 1 \in 1 .. Len(s) + 1
  BY <1>1
<1> QED
  BY <1>1, <1>2, <1>3, <1>4

\* The object of a corpse on a list.
LEMMA CorpseFacts ==
    ASSUME NEW m, HeapOK(m), NEW C, CorpsesOK(m, C), NEW c \in C
    PROVE  LET e == FollowForwarded(m, c) IN
           /\ c \in Addresses /\ Live(m, e) /\ e = Slot(m, c, 1) /\ e \in Addresses
           /\ IsKind(m, c, "forwarded") /\ Size(m, e) >= 1
           /\ Cell(m, e).kind \in {"ephemeron", "plain"}
<1>1. c \in Addresses /\ IsKind(m, c, "forwarded") /\ Size(m, Slot(m, c, 1)) >= 1
      /\ Cell(m, Slot(m, c, 1)).kind \in {"ephemeron", "plain"}
  BY DEF CorpsesOK
<1>2. c # Nil
  BY <1>1, Layout DEF Nil
<1>3. FollowForwarded(m, c) = Slot(m, c, 1)
  BY <1>1, <1>2 DEF FollowForwarded
<1>4. Live(m, Slot(m, c, 1))
  BY <1>1 DEF HeapOK, CellOK
<1> QED
  BY <1>1, <1>3, <1>4 DEF Live, Used

\* A corpse leads to the same copy through a growth.
LEMMA CorpseStays ==
    ASSUME NEW m, HeapOK(m), NEW n, HeapOK(n), Grows(m, n), NEW c \in Addresses, IsKind(m, c, "forwarded")
    PROVE  FollowForwarded(n, c) = FollowForwarded(m, c)
<1>1. IsKind(n, c, "forwarded") /\ Slot(n, c, 1) = Slot(m, c, 1)
  BY GrowsUsed
<1> QED
  BY <1>1 DEF FollowForwarded

\* What a growth leaves alone, and what it lengthens.
LEMMA GrowsCounts ==
    ASSUME NEW m, HeapOK(m), NEW n, HeapOK(n), Grows(m, n)
    PROVE  /\ RSize(m) \in Nat /\ RSize(n) \in Nat /\ RSize(n) >= RSize(m)
           /\ n.previousSize = m.previousSize /\ n.ephemerons = m.ephemerons
           /\ n.previousSize \in Nat /\ n.ephemerons \in Nat
           /\ Range(m.ephemeronList) \subseteq Range(n.ephemeronList)
           /\ FutureStart(n) = FutureStart(m) /\ FutureStart(m) \in Nat
           /\ m.survivorStart \in Nat /\ n.survivorStart \in Nat /\ n.survivorStart >= m.survivorStart
           /\ Cardinality(Objects(n)) = Cardinality(Objects(m))
           /\ n.mournQueue = m.mournQueue /\ n.permToNew = m.permToNew /\ n.permToOld = m.permToOld
<1>1. m \in Memories /\ n \in Memories
  BY DEF HeapOK
<1>2. /\ RSize(m) \in Nat /\ RSize(n) \in Nat /\ m.previousSize \in Nat /\ m.ephemerons \in Nat
      /\ FutureStart(m) \in Nat /\ m.survivorStart \in Nat /\ n.survivorStart \in Nat
  BY <1>1, Fields, InRange, Future DEF RSize
<1>3. FutureStart(n) = FutureStart(m)
  BY GrowsUsed
<1>4. RSize(n) >= RSize(m)
  BY DEF Grows, Extends, RSize
<1> QED
  BY <1>2, <1>3, <1>4 DEF Grows, ListsGrow, SameRest

\* The step ScavengeUnfiredOnEphemeronList preserves the invariant.
LEMMA ScavengeUnfiredOnEphemeronListInv ==
    ASSUME Inv, ScavengeUnfiredOnEphemeronList
    PROVE  Inv'
<1> DEFINE c == Head(at.todo)
           e == FollowForwarded(mem, c)
           E == 1 .. mem.ephemerons
           C == CorpsesAt(mem, at)
<1>0. pc = "unfired_list" /\ pc \in Walking /\ at.todo # <<>>
  BY DEF Walking, ScavengeUnfiredOnEphemeronList
<1>1. /\ Walked(mem, FromAt(mem, pc, at), CorpsesAt(mem, at), EphemeronsAt(mem, pc, at), MappedAt(pc, at))
      /\ Held(mem, roots, MappedAt(pc, at)) /\ at \in Walks /\ Numbers(mem, pc, at) /\ HeapOK(mem)
      /\ mem \in Memories /\ mem.ephemerons \in Nat /\ mem.previousSize \in Nat /\ RSize(mem) \in Nat
      /\ mem.previousSize <= RSize(mem) /\ mem.ephemerons <= mem.previousSize
      /\ at.previous \in FutureStart(mem) .. mem.survivorStart
  BY <1>0, InvWalked
<1>2. /\ at.todo \in Seq(Addresses) /\ at.kept \in Seq(Addresses) /\ at.i \in Nat \ {0} /\ at.scanned \in BOOLEAN
      /\ c \in Addresses /\ Tail(at.todo) \in Seq(Addresses) /\ Range(at.todo) = {c} \cup Range(Tail(at.todo))
  BY <1>0, <1>1, WalkFields, HeadRange
<1>3. /\ FromAt(mem, pc, at) = at.previous /\ MappedAt(pc, at) = TRUE /\ EphemeronsAt(mem, pc, at) = E
      /\ at.dest = 1
  BY <1>0, <1>1 DEF FromAt, MappedAt, Ends, EphemeronsAt, Numbers
<1>4. Walked(mem, at.previous, C, E, TRUE)
  BY Zenon, <1>1, <1>3
<1>5. c \in C /\ CorpsesOK(mem, C)
  BY <1>2, <1>4 DEF CorpsesAt, Walked, Loop
<1>6. c \in Addresses /\ Live(mem, e) /\ IsKind(mem, c, "forwarded")
  BY <1>1, <1>5, CorpseFacts
<1>7. CASE IsUnfired(mem, e)
  <2> DEFINE w == [at EXCEPT !.todo = Tail(@), !.kept = Append(@, c)]
  <2>1. Step(mem, "unfired_list", [[at EXCEPT !.todo = Tail(@)] EXCEPT !.kept = Append(@, c)])
    BY <1>7 DEF ScavengeUnfiredOnEphemeronList
  <2>2. /\ Append(at.kept, c) \in Seq(Addresses) /\ Range(Append(at.kept, c)) = Range(at.kept) \cup {c}
    BY <1>2, AppendRange
  <2>3. WithLists(at, at.i, Tail(at.todo), Append(at.kept, c), at.scanned)
           = [[at EXCEPT !.todo = Tail(@)] EXCEPT !.kept = Append(@, c)]
    BY Zenon, <1>1 DEF WithLists, Walks
  <2> DEFINE v == WithLists(at, at.i, Tail(at.todo), Append(at.kept, c), at.scanned)
  <2>4. Step(mem, "unfired_list", v)
    BY <2>1, <2>3
  <2> DEFINE t == Tail(at.todo)
             k == Append(at.kept, c)
  <2>5. t \in Seq(Addresses) /\ k \in Seq(Addresses) /\ v = WithLists(at, at.i, t, k, at.scanned)
    BY <1>2, <2>2
  <2> HIDE DEF t, k, v
  <2>6. v \in Walks /\ v.i = at.i /\ v.dest = at.dest /\ v.previous = at.previous /\ v.todo = t /\ v.kept = k
    <3>1. at \in Walks /\ at.i \in Nat \ {0} /\ at.scanned \in BOOLEAN
      BY <1>1, <1>2
    <3> QED
      BY <2>5, <3>1, ListFields
  <2>7. CorpsesAt(mem, v) = C
    BY <1>2, <2>2, <2>6 DEF CorpsesAt, t, k
  <2>8. FromAt(mem, pc, v) = at.previous /\ MappedAt(pc, v) = TRUE /\ EphemeronsAt(mem, pc, v) = E
    BY <1>0, <2>6 DEF FromAt, MappedAt, Ends, EphemeronsAt
  <2>9. Numbers(mem, pc, v)
    BY <1>0, <1>1, <2>6 DEF Numbers, Pcs, Ends, Walking
  <2> HIDE DEF C, E
  <2> QED
    BY Zenon, <1>0, <1>1, <1>3, <1>4, <2>4, <2>7, <2>8, <2>9, WalkedInv
<1>8. CASE ~IsUnfired(mem, e)
  <2> DEFINE n == ScavengeReferentsOf(mem, e)
             v == WithLists(at, at.i, Tail(at.todo), at.kept, TRUE)
             D == CorpsesAt(n, v)
  <2>1. Step(n, "unfired_list", [[at EXCEPT !.todo = Tail(@)] EXCEPT !.scanned = TRUE])
    BY <1>8 DEF ScavengeUnfiredOnEphemeronList
  <2>2. v = [[at EXCEPT !.todo = Tail(@)] EXCEPT !.scanned = TRUE]
    BY Zenon, <1>1 DEF WithLists, Walks
  <2>3. Step(n, "unfired_list", v)
    BY Zenon, <2>1, <2>2
  <2> DEFINE t == Tail(at.todo)
             b == TRUE
  <2>4. t \in Seq(Addresses) /\ b \in BOOLEAN /\ v = WithLists(at, at.i, t, at.kept, b)
    BY <1>2
  <2> HIDE DEF t, b, v, n, C, e, D, E
  <2>5. v \in Walks /\ v.i = at.i /\ v.dest = at.dest /\ v.previous = at.previous /\ v.todo = t /\ v.kept = at.kept
    <3>1. at \in Walks /\ at.i \in Nat \ {0} /\ at.kept \in Seq(Addresses)
      BY <1>1, <1>2
    <3> QED
      BY <2>4, <3>1, ListFields
  <2>6. E \subseteq 1 .. mem.previousSize
    BY <1>1 DEF E
  <2>7. n = ScavengeReferentsOf(mem, e)
    BY DEF n
  <2>8. /\ HeapOK(n) /\ Grows(mem, n)
        /\ Walked(n, at.previous, C \cup Range(n.ephemeronList), E, TRUE)
        /\ RSize(n) \in Nat /\ RSize(n) >= RSize(mem)
        /\ n.previousSize = mem.previousSize /\ n.ephemerons = mem.ephemerons
        /\ Range(mem.ephemeronList) \subseteq Range(n.ephemeronList)
        /\ FutureStart(n) = FutureStart(mem) /\ n.survivorStart >= mem.survivorStart
        /\ Cardinality(Objects(n)) = Cardinality(Objects(mem))
        /\ Live(n, e)
    <3>1. Walked(mem, at.previous, C, E, TRUE) /\ mem.previousSize <= RSize(mem) /\ Live(mem, e)
      BY Zenon, <1>1, <1>4, <1>6
    <3>2. Walked(n, at.previous, C \cup Range(n.ephemeronList), E, TRUE)
      BY Zenon, <3>1, <2>6, <2>7, WalkedScan
    <3>3. HeapOK(n) /\ Grows(mem, n) /\ Live(n, e)
      BY Zenon, <3>1, <2>6, <2>7, WalkedScan
    <3>4. /\ RSize(n) \in Nat /\ RSize(n) >= RSize(mem)
          /\ n.previousSize = mem.previousSize /\ n.ephemerons = mem.ephemerons
          /\ Range(mem.ephemeronList) \subseteq Range(n.ephemeronList)
          /\ FutureStart(n) = FutureStart(mem) /\ n.survivorStart >= mem.survivorStart
          /\ Cardinality(Objects(n)) = Cardinality(Objects(mem))
      BY <1>1, <3>3, GrowsCounts
    <3> QED
      BY Zenon, <3>2, <3>3, <3>4
  <2>9. Done(n, e) /\ ~IsUnfired(n, e)
    <3>1. Walked(mem, at.previous, C, E, TRUE) /\ mem.previousSize <= RSize(mem) /\ Live(mem, e)
      BY <1>1, <1>4, <1>6
    <3> QED
      BY Zenon, <1>8, <3>1, <2>6, <2>7, WalkedScan
  <2>10. FollowForwarded(n, c) = e
    BY <1>1, <1>6, <2>8, CorpseStays DEF e
  <2>11. /\ D \subseteq C \cup Range(n.ephemeronList) /\ Range(n.ephemeronList) \subseteq D
         /\ (C \cup Range(n.ephemeronList)) \ D \subseteq {c}
    BY <1>2, <2>5, <2>8 DEF D, C, CorpsesAt, t
  <2>12. Walked(n, at.previous, D, E, TRUE)
    <3>1. SameHeap(n, n)
      BY <2>8 DEF SameHeap, HeapOK
    <3>2. \A x \in (C \cup Range(n.ephemeronList)) \ D :
             Done(n, FollowForwarded(n, x)) /\ ~IsUnfired(n, FollowForwarded(n, x))
      BY <2>9, <2>10, <2>11
    <3> QED
      BY Zenon, <2>8, <2>11, <3>1, <3>2, WalkedLess
  <2>13. Held(n, roots, TRUE)
    BY Zenon, <1>1, <1>3, <2>8, HeldGrows
  <2>14. FromAt(n, pc, v) = at.previous /\ MappedAt(pc, v) = TRUE /\ EphemeronsAt(n, pc, v) = E
    BY <1>0, <2>5, <2>8 DEF FromAt, MappedAt, Ends, EphemeronsAt, E
  <2>15. Numbers(n, pc, v)
    <3>1. n.survivorStart \in Nat /\ mem.survivorStart \in Nat /\ FutureStart(mem) \in Nat
      BY <1>1, <2>8, Fields, Future DEF HeapOK
    <3>2. /\ at.previous \in FutureStart(n) .. n.survivorStart /\ n.previousSize <= RSize(n)
          /\ n.ephemerons <= RSize(n) /\ n.ephemerons <= n.previousSize
      BY <1>1, <2>8, <3>1
    <3> QED
      BY <1>0, <1>1, <2>5, <3>2 DEF Numbers, Pcs, Ends, Walking
  <2> QED
    BY Zenon, <1>0, <2>3, <2>8, <2>12, <2>13, <2>14, <2>15, WalkedInv DEF D
<1> QED
  BY <1>7, <1>8

\* Setting the bit of an old object, field by field.
LEMMA RememberedFacts ==
    ASSUME NEW m, HeapOK(m), NEW a \in OldAddresses,
           NEW n, n = SetRemembered(m, a, TRUE)
    PROVE  /\ SameButSet(m, n, a) /\ Remembered(n, a)
           /\ n.rememberedSet = m.rememberedSet /\ n.mournQueue = m.mournQueue
           /\ n.ephemerons = m.ephemerons /\ n.previousSize = m.previousSize
<1>1. a \in Addresses /\ m \in Memories /\ ~IsYoung(a)
  BY Layout DEF HeapOK, OldAddresses, IsYoung
<1>2. Cell(m, a).bits \in {0, 1}
  BY <1>1 DEF HeapOK, CellOK, InSource
<1>3. Cell(m, a) \in Cells /\ m.heap \in [Addresses -> Cells]
  BY <1>1, CellFields, Fields
<1> DEFINE b == 2 * (m.heap[a].bits \div 2) + 1
           c == [m.heap[a] EXCEPT !.bits = b]
           h == [m.heap EXCEPT ![a] = c]
<1>4. b \in {0, 1} /\ b % 2 = 1
  BY <1>2 DEF Cell
<1>5. n = [m EXCEPT !.heap = h]
  BY DEF SetRemembered
<1>6. b \in 0 .. MaxRTRefCount
  BY <1>4 DEF MaxRTRefCount
<1> HIDE DEF b
<1>7. c \in Cells /\ c.kind = m.heap[a].kind /\ c.slots = m.heap[a].slots /\ c.bits = b
  BY Zenon, <1>3, <1>6 DEF Cell, Cells
<1> HIDE DEF c
<1>8. h \in [Addresses -> Cells] /\ h[a] = c /\ \A x \in Addresses : x # a => h[x] = m.heap[x]
  BY <1>1, <1>3, <1>7
<1> HIDE DEF h
<1>9. /\ n \in Memories /\ n.heap = h /\ SameLists(m, n)
      /\ n.past = m.past /\ n.survivorStart = m.survivorStart /\ n.freeStart = m.freeStart
      /\ n.permToNew = m.permToNew /\ n.permToOld = m.permToOld /\ n.criterion = m.criterion
      /\ n.rememberedSet = m.rememberedSet /\ n.mournQueue = m.mournQueue
      /\ n.ephemerons = m.ephemerons /\ n.previousSize = m.previousSize
  BY ZenonT(60), <1>1, <1>5, <1>8 DEF Memories, SameLists
<1> QED
  BY Zenon, <1>4, <1>7, <1>8, <1>9 DEF SameButSet, Remembered

\* Resetting the bit of an old object, field by field.
LEMMA ForgottenFacts ==
    ASSUME NEW m, HeapOK(m), NEW a \in OldAddresses,
           NEW n, n = SetRemembered(m, a, FALSE)
    PROVE  /\ SameButSet(m, n, a) /\ ~Remembered(n, a)
           /\ n.rememberedSet = m.rememberedSet /\ n.mournQueue = m.mournQueue
           /\ n.ephemerons = m.ephemerons /\ n.previousSize = m.previousSize
<1>1. a \in Addresses /\ m \in Memories /\ ~IsYoung(a)
  BY Layout DEF HeapOK, OldAddresses, IsYoung
<1>2. Cell(m, a).bits \in {0, 1}
  BY <1>1 DEF HeapOK, CellOK, InSource
<1>3. Cell(m, a) \in Cells /\ m.heap \in [Addresses -> Cells]
  BY <1>1, CellFields, Fields
<1> DEFINE b == 2 * (m.heap[a].bits \div 2) + 0
           c == [m.heap[a] EXCEPT !.bits = b]
           h == [m.heap EXCEPT ![a] = c]
<1>4. b \in {0, 1} /\ b % 2 # 1
  BY <1>2 DEF Cell
<1>5. n = [m EXCEPT !.heap = h]
  BY DEF SetRemembered
<1>6. b \in 0 .. MaxRTRefCount
  BY <1>4 DEF MaxRTRefCount
<1> HIDE DEF b
<1>7. c \in Cells /\ c.kind = m.heap[a].kind /\ c.slots = m.heap[a].slots /\ c.bits = b
  BY Zenon, <1>3, <1>6 DEF Cell, Cells
<1> HIDE DEF c
<1>8. h \in [Addresses -> Cells] /\ h[a] = c /\ \A x \in Addresses : x # a => h[x] = m.heap[x]
  BY <1>1, <1>3, <1>7
<1> HIDE DEF h
<1>9. /\ n \in Memories /\ n.heap = h /\ SameLists(m, n)
      /\ n.past = m.past /\ n.survivorStart = m.survivorStart /\ n.freeStart = m.freeStart
      /\ n.permToNew = m.permToNew /\ n.permToOld = m.permToOld /\ n.criterion = m.criterion
      /\ n.rememberedSet = m.rememberedSet /\ n.mournQueue = m.mournQueue
      /\ n.ephemerons = m.ephemerons /\ n.previousSize = m.previousSize
  BY ZenonT(60), <1>1, <1>5, <1>8 DEF Memories, SameLists
<1> QED
  BY Zenon, <1>4, <1>7, <1>8, <1>9 DEF SameButSet, Remembered

\* n is m with the remembered set s and e ephemerons in it.
SetTo(m, s, e, z) == [m EXCEPT !.rememberedSet = s, !.ephemerons = e, !.previousSize = z]

\* Another remembered set, field by field.
LEMMA SetToFacts ==
    ASSUME NEW m, HeapOK(m), NEW a \in OldAddresses, NEW s \in Seq(OldAddresses), NEW e \in Nat, NEW z \in Nat,
           NEW n, n = SetTo(m, s, e, z)
    PROVE  /\ SameButSet(m, n, a) /\ (Remembered(n, a) <=> Remembered(m, a))
           /\ n.rememberedSet = s /\ n.mournQueue = m.mournQueue
           /\ n.ephemerons = e /\ n.previousSize = z
<1>1. a \in Addresses /\ m \in Memories /\ ~IsYoung(a)
  BY Layout DEF HeapOK, OldAddresses, IsYoung
<1>2. m.heap[a].bits \in {0, 1}
  BY <1>1 DEF HeapOK, CellOK, InSource, Cell
<1> QED
  BY Zenon, <1>1, <1>2 DEF SetTo, Memories, SameButSet, SameLists, Remembered

\* The state of the loop over the remembered set with i to look at next and d to fill.
RememberedLoop(k, i, d) ==
    LET E == 1 .. k.ephemerons
        P == (1 .. d - 1) \cup (i .. RSize(k))
        U == (i .. RSize(k)) \cup E
    IN  Loop(k, P, at.previous, U, Range(k.ephemeronList), ~at.firstTime, P, E, P \ U)

\* After a turn of the loop over the remembered set.
LEMMA RememberedInv ==
    ASSUME Inv, pc = "remembered", NEW k, NEW w \in Walks, Step(k, "remembered", w),
           at.i \in Nat, w.i = at.i + 1, w.previous = at.previous, w.firstTime = at.firstTime,
           w.todo = <<>>, w.kept = <<>>, w.dest <= w.i, at.i <= RSize(k),
           k.ephemerons < w.dest, k.ephemerons \in Nat, RSize(k) \in Nat,
           at.previous \in FutureStart(k) .. k.survivorStart,
           Cardinality(Objects(k)) = Cardinality(Objects(mem)),
           RememberedLoop(k, w.i, w.dest),
           Held(k, roots, ~at.firstTime)
    PROVE  Inv'
<1> DEFINE P == (1 .. w.dest - 1) \cup (w.i .. RSize(k))
<1>1. w.dest \in Nat /\ w.i \in Nat
  BY WalkFields
<1>2. Numbers(k, "remembered", w)
  BY <1>1 DEF Numbers, Pcs, Ends, Walking
<1>3. /\ Positions(k, "remembered", w) = P
      /\ WeakAt(k, "remembered", w) = P
      /\ Unscanned(k, "remembered", w) = w.i .. RSize(k)
      /\ EphemeronsAt(k, "remembered", w) = 1 .. k.ephemerons /\ CorpsesAt(k, w) = Range(k.ephemeronList)
      /\ FromAt(k, "remembered", w) = at.previous /\ MappedAt("remembered", w) = ~at.firstTime
  BY NoRange DEF Positions, WeakAt, Unscanned, EphemeronsAt, FromAt, MappedAt, Ends, CorpsesAt
<1>4. Scavenging(k, "remembered", w, roots)
  BY Zenon, <1>2, <1>3 DEF Scavenging, RememberedLoop
<1> QED
  BY <1>4, StepInv

\* The objects that the loop over the remembered set comes to.
LEMMA RememberedPart ==
    ASSUME Inv, pc = "remembered", at.i <= RSize(mem)
    PROVE  LET E == 1 .. mem.ephemerons
               P == (1 .. at.dest - 1) \cup (at.i .. RSize(mem))
               U == (at.i .. RSize(mem)) \cup E
           IN
           /\ Loop(mem, P, at.previous, U, Range(mem.ephemeronList), ~at.firstTime, P, E, P \ U)
           /\ Held(mem, roots, ~at.firstTime) /\ HeapOK(mem) /\ at \in Walks
           /\ at.i \in Nat \ {0} /\ at.dest \in Nat \ {0} /\ at.dest <= at.i /\ RSize(mem) \in Nat
           /\ mem.ephemerons \in Nat /\ mem.previousSize \in Nat /\ mem.ephemerons < at.dest
           /\ at.todo = <<>> /\ at.kept = <<>>
           /\ at.previous \in FutureStart(mem) .. mem.survivorStart
           /\ FutureStart(mem) \in Nat /\ mem.survivorStart \in Nat
<1>1. /\ Numbers(mem, pc, at) /\ at \in Walks /\ HeapOK(mem)
      /\ RSize(mem) \in Nat /\ mem.ephemerons \in Nat /\ mem.previousSize \in Nat
      /\ mem.survivorStart \in Nat /\ FutureStart(mem) \in Nat \ {0}
      /\ Held(mem, roots, MappedAt(pc, at))
      /\ LET E == EphemeronsAt(mem, pc, at)
             U == Unscanned(mem, pc, at) \cup E
         IN  Loop(mem, Positions(mem, pc, at), FromAt(mem, pc, at), U, CorpsesAt(mem, at),
                  MappedAt(pc, at), WeakAt(mem, pc, at), E, Positions(mem, pc, at) \ U)
  BY InvFacts
<1>2. /\ at.i \in Nat \ {0} /\ at.dest \in Nat \ {0} /\ at.dest <= at.i /\ mem.ephemerons < at.dest
      /\ at.todo = <<>> /\ at.kept = <<>> /\ at.previous \in FutureStart(mem) .. mem.survivorStart
  BY <1>1, WalkFields DEF Numbers, Ends
<1>3. /\ Positions(mem, pc, at) = (1 .. at.dest - 1) \cup (at.i .. RSize(mem))
      /\ WeakAt(mem, pc, at) = (1 .. at.dest - 1) \cup (at.i .. RSize(mem))
      /\ Unscanned(mem, pc, at) = at.i .. RSize(mem)
      /\ EphemeronsAt(mem, pc, at) = 1 .. mem.ephemerons /\ CorpsesAt(mem, at) = Range(mem.ephemeronList)
      /\ FromAt(mem, pc, at) = at.previous /\ MappedAt(pc, at) = ~at.firstTime
  BY <1>2, NoRange DEF Positions, WeakAt, Unscanned, EphemeronsAt, FromAt, MappedAt, Ends, CorpsesAt
<1> QED
  BY Zenon, <1>1, <1>2, <1>3

\* A member of a set of positions, by its position.
LEMMA MemberAt ==
    ASSUME NEW m, NEW P, NEW p \in P
    PROVE  m.rememberedSet[p] \in Members(m, P)
<1> QED
  BY DEF Members

\* Position p of the new set is position g[p] of the old one, R are the positions dropped.
Positioned(m, n, g, h, R, P, U, W, E, K, P2, U2, W2, E2, K2) ==
    /\ P2 \subseteq 1 .. Len(n.rememberedSet) /\ U2 \subseteq P2 /\ W2 \subseteq P2
    /\ E2 \subseteq P2 /\ K2 \subseteq P2
    /\ \A p \in P2 : g[p] \in P \ R /\ h[g[p]] = p /\ n.rememberedSet[p] = m.rememberedSet[g[p]]
    /\ \A q \in P \ R : h[q] \in P2 /\ g[h[q]] = q
    /\ \A q \in U \ R : h[q] \in U2 \/ Done(m, m.rememberedSet[q])
    /\ \A q \in W \ R : h[q] \in W2 \/ AllSettled(m, m.rememberedSet[q]) \/ ~IsKind(m, m.rememberedSet[q], "weak")
    /\ \A p \in E2 : g[p] \in E
    /\ \A p \in K2 : g[p] \in K \/ IsKind(m, n.rememberedSet[p], "weak") \/ HasNew(m, n.rememberedSet[p])

\* A remembered set rearranged, without members that refer to nothing young, keeps the state of the loop.
LEMMA Rearranged ==
    ASSUME NEW m, NEW n, NEW P, NEW U, NEW C, NEW W, NEW E, NEW K, NEW from, NEW mapped,
           Loop(m, P, from, U, C, mapped, W, E, K),
           NEW r \in P, NEW a, a = m.rememberedSet[r], SameButSet(m, n, a),
           NEW R, R \subseteq {r}, Remembered(n, a) <=> r \notin R,
           r \in R => ~RefersToYoung(m, a),
           NEW P2, NEW U2, NEW W2, NEW E2, NEW K2, NEW g, NEW h,
           Positioned(m, n, g, h, R, P, U, W, E, K, P2, U2, W2, E2, K2)
    PROVE  Loop(n, P2, from, U2, C, mapped, W2, E2, K2)
<1> DEFINE s == m.rememberedSet
           t == n.rememberedSet
           G == IF r \in R THEN {a} ELSE {}
<1>0. /\ P2 \subseteq 1 .. Len(n.rememberedSet) /\ U2 \subseteq P2 /\ W2 \subseteq P2
      /\ E2 \subseteq P2 /\ K2 \subseteq P2
      /\ \A p \in P2 : g[p] \in P \ R /\ h[g[p]] = p /\ n.rememberedSet[p] = m.rememberedSet[g[p]]
      /\ \A q \in P \ R : h[q] \in P2 /\ g[h[q]] = q
      /\ \A q \in U \ R : h[q] \in U2 \/ Done(m, m.rememberedSet[q])
      /\ \A q \in W \ R : h[q] \in W2 \/ AllSettled(m, m.rememberedSet[q]) \/ ~IsKind(m, m.rememberedSet[q], "weak")
      /\ \A p \in E2 : g[p] \in E
      /\ \A p \in K2 : g[p] \in K \/ IsKind(m, n.rememberedSet[p], "weak") \/ HasNew(m, n.rememberedSet[p])
  BY DEF Positioned
<1>1. \A p, q \in P : s[p] = s[q] => p = q
  BY DEF Loop, SetsOK, InSet
<1>2. \A p, q \in P2 : t[p] = t[q] => p = q
  BY <1>0, <1>1
<1>3. \A q \in P \ R : h[q] \in P2 /\ t[h[q]] = s[q]
  BY Zenon, <1>0
<1>4. U \subseteq P /\ W \subseteq P /\ HeapOK(m) /\ SetsOK(m, P) /\ P \subseteq 1 .. Len(m.rememberedSet)
  BY DEF Loop
<1>5. \A Q : \A x \in Members(m, Q) : \E q \in Q : x = s[q]
  BY DEF Members
<1>6. ASSUME NEW x \in Members(n, P2) PROVE x \in Members(m, P) /\ x \notin G
  <2>1. PICK p \in P2 : x = t[p]
    BY DEF Members
  <2>2. g[p] \in P /\ g[p] \notin R /\ x = s[g[p]]
    BY <1>0, <2>1
  <2> QED
    BY <1>1, <2>2, MemberAt
<1>7. ASSUME NEW x \in Members(m, P), x \notin G PROVE x \in Members(n, P2)
  <2>1. PICK q \in P : x = s[q]
    BY <1>5
  <2>2. h[q] \in P2 /\ t[h[q]] = x
    BY <1>3, <1>7, <2>1
  <2> QED
    BY <2>2, MemberAt
<1>8. a \in Members(m, P)
  BY MemberAt
<1>9. r \in R => Done(m, a) /\ AllSettled(m, a)
  <2>1. Used(m, a)
    BY <1>4, <1>8, MembersLive
  <2> QED
    BY <1>4, <2>1, Tenured
<1>10. ASSUME NEW x \in Members(m, U) PROVE x \in Members(n, U2) \/ Done(m, x)
  <2>1. PICK q \in U : x = s[q]
    BY <1>5
  <2>2. CASE q \in R
    BY <1>9, <2>1, <2>2
  <2>3. CASE q \notin R
    <3>1. t[h[q]] = x /\ (h[q] \in U2 \/ Done(m, x))
      BY <1>0, <1>3, <1>4, <2>1, <2>3
    <3> QED
      BY <3>1, MemberAt
  <2> QED
    BY <2>2, <2>3
<1>11. ASSUME NEW x \in Members(m, W)
      PROVE  x \in Members(n, W2) \/ AllSettled(m, x) \/ ~IsKind(m, x, "weak")
  <2>1. PICK q \in W : x = s[q]
    BY <1>5
  <2>2. CASE q \in R
    BY <1>9, <2>1, <2>2
  <2>3. CASE q \notin R
    <3>1. t[h[q]] = x /\ (h[q] \in W2 \/ AllSettled(m, x) \/ ~IsKind(m, x, "weak"))
      BY <1>0, <1>3, <1>4, <2>1, <2>3
    <3> QED
      BY <3>1, MemberAt
  <2> QED
    BY <2>2, <2>3
<1>12. \A x \in Members(n, E2) : x \in Members(m, E)
  BY <1>0 DEF Members
<1>13. \A x \in Members(n, K2) : x \in Members(m, K) \/ IsKind(m, x, "weak") \/ HasNew(m, x)
  BY <1>0 DEF Members
<1>14. G \subseteq {a} /\ (a \in G <=> r \in R)
  OBVIOUS
<1> HIDE DEF G, t, s
<1>15. Members(n, P2) = Members(m, P) \ G
  BY <1>6, <1>7
<1>16. Rearranges(m, n, G, P, U, W, E, K, P2, U2, W2, E2, K2)
  BY <1>0, <1>2, <1>10, <1>11, <1>12, <1>13, <1>15 DEF Rearranges, t
<1> QED
  BY <1>8, <1>14, <1>16, Surgery

\* The next place, with one more kept, field by field.
LEMMA DestFields ==
    ASSUME at \in Walks, NEW w, w = [Next1 EXCEPT !.dest = @ + 1]
    PROVE  /\ w \in Walks /\ w.i = at.i + 1 /\ w.dest = at.dest + 1 /\ w.previous = at.previous
           /\ w.firstTime = at.firstTime /\ w.todo = at.todo /\ w.kept = at.kept /\ w.scanned = at.scanned
<1> DEFINE v == Next1
<1>1. /\ v \in Walks /\ v.i = at.i + 1 /\ v.dest = at.dest /\ v.previous = at.previous
      /\ v.firstTime = at.firstTime /\ v.todo = at.todo /\ v.kept = at.kept /\ v.scanned = at.scanned
  BY NextFields
<1>2. w = [v EXCEPT !.dest = @ + 1]
  OBVIOUS
<1>3. v.dest \in Nat /\ v.dest + 1 \in Nat \ {0}
  BY <1>1, WalkFields
<1> HIDE DEF v
<1>4. w.dest = v.dest + 1 /\ w \in Walks
  BY Zenon, <1>1, <1>2, <1>3 DEF Walks
<1> QED
  BY Zenon, <1>1, <1>2, <1>4 DEF Walks

\* The remembered set with an ephemeron moved to the first ones.
LEMMA MoveNewEphemeronFacts ==
    ASSUME NEW m, HeapOK(m), NEW i \in 1 .. RSize(m), NEW d \in 1 .. i,
           m.ephemerons < d,
           NEW n, n = MoveNewEphemeron(m, m.rememberedSet[i], d)
    PROVE  LET a == m.rememberedSet[i]
               e == m.ephemerons + 1
           IN
           /\ SameButSet(m, n, a) /\ (Remembered(n, a) <=> Remembered(m, a))
           /\ n.mournQueue = m.mournQueue /\ n.ephemerons = e /\ n.previousSize = m.previousSize
           /\ RSize(n) = RSize(m)
           /\ \A p \in 1 .. RSize(m) : n.rememberedSet[p] =
                 IF p = e THEN m.rememberedSet[i] ELSE IF p = d THEN m.rememberedSet[e] ELSE m.rememberedSet[p]
<1> DEFINE a == m.rememberedSet[i]
           e == m.ephemerons + 1
           s == m.rememberedSet
           t == [s EXCEPT ![d] = s[e]]
           u == [t EXCEPT ![e] = a]
<1>1. m \in Memories /\ s \in Seq(OldAddresses) /\ RSize(m) \in Nat /\ m.ephemerons \in Nat /\ m.previousSize \in Nat
  BY Fields, InRange DEF HeapOK, RSize
<1>2. e \in Nat /\ e \in 1 .. Len(s) /\ d \in 1 .. Len(s) /\ a \in OldAddresses /\ s[e] \in OldAddresses
  BY SMTT(60), <1>1, InRange DEF RSize
<1> HIDE DEF e, a
<1>3. t \in Seq(OldAddresses) /\ Len(t) = Len(s) /\ \A p \in 1 .. Len(s) : t[p] = IF p = d THEN s[e] ELSE s[p]
  BY <1>1, <1>2, ExceptSeq
<1> HIDE DEF t, s
<1>4. u \in Seq(OldAddresses) /\ Len(u) = Len(t) /\ \A p \in 1 .. Len(t) : u[p] = IF p = e THEN a ELSE t[p]
  BY <1>1, <1>2, <1>3, ExceptSeq
<1> HIDE DEF u
<1>5. n = SetTo(m, u, e, m.previousSize)
  BY Zenon, <1>1 DEF MoveNewEphemeron, SetTo, u, t, s, e, a, Memories
<1>6. /\ SameButSet(m, n, a) /\ (Remembered(n, a) <=> Remembered(m, a))
      /\ n.mournQueue = m.mournQueue /\ n.ephemerons = e /\ n.previousSize = m.previousSize
      /\ n.rememberedSet = u
  BY SMTT(60), <1>1, <1>2, <1>4, <1>5, SetToFacts
<1>7. RSize(n) = RSize(m)
  BY <1>3, <1>4, <1>6 DEF RSize, s
<1>8. \A p \in 1 .. RSize(m) : n.rememberedSet[p] = IF p = e THEN a ELSE IF p = d THEN s[e] ELSE s[p]
  BY <1>3, <1>4, <1>6 DEF RSize, s
<1> QED
  BY <1>6, <1>7, <1>8 DEF a, e, s

\* One more place with an ephemeron.
LEMMA LoopEphemeron ==
    ASSUME NEW m, NEW P, NEW U, NEW C, NEW W, NEW E, NEW K, NEW from, NEW mapped,
           Loop(m, P, from, U, C, mapped, W, E, K), NEW i \in P,
           Cell(m, m.rememberedSet[i]).kind \in {"ephemeron", "plain"}, Size(m, m.rememberedSet[i]) >= 1
    PROVE  Loop(m, P, from, U, C, mapped, W, E \cup {i}, K)
<1> QED
  BY DEF Loop, EphemeronsOK

\* The entry at i moved to e, the one at e to d: where each comes from, where each goes.
MoveMap(g, h, e, d, i, R) ==
    \A p \in 1 .. R : /\ g[p] = IF p = e THEN i ELSE IF p = d THEN e ELSE p
                      /\ h[p] = IF p = i THEN e ELSE IF p = e THEN d ELSE p

\* Each entry keeps one place, the first e places are those of the ephemerons and of the entry moved.
LEMMA MoveMaps ==
    ASSUME NEW e \in Nat, NEW d \in Nat, NEW i \in Nat, NEW R \in Nat,
           1 <= e, e <= d, d <= i, i <= R, NEW g, NEW h, MoveMap(g, h, e, d, i, R)
    PROVE  LET P == (1 .. d - 1) \cup (i .. R)
               P2 == (1 .. d) \cup (i + 1 .. R)
               U == (i .. R) \cup (1 .. e - 1)
               U2 == (i + 1 .. R) \cup (1 .. e)
           IN
           /\ P2 \subseteq 1 .. R /\ U2 \subseteq P2 /\ 1 .. e \subseteq P2
           /\ \A p \in P2 : /\ g[p] \in P /\ h[g[p]] = p
                            /\ p \in 1 .. e => g[p] \in (1 .. e - 1) \cup {i}
                            /\ p \notin U2 => g[p] \in P \ U
           /\ \A q \in P : h[q] \in P2 /\ g[h[q]] = q /\ (q \in U => h[q] \in U2)
<1> DEFINE P == (1 .. d - 1) \cup (i .. R)
           P2 == (1 .. d) \cup (i + 1 .. R)
           U == (i .. R) \cup (1 .. e - 1)
           U2 == (i + 1 .. R) \cup (1 .. e)
<1>1. P2 \subseteq 1 .. R /\ U2 \subseteq P2 /\ 1 .. e \subseteq P2
  OBVIOUS
<1>2. ASSUME NEW p \in P2 PROVE g[p] \in P /\ h[g[p]] = p
  BY DEF MoveMap
<1>3. ASSUME NEW p \in 1 .. e PROVE g[p] \in (1 .. e - 1) \cup {i}
  BY DEF MoveMap
<1>4. ASSUME NEW p \in P2 \ U2 PROVE g[p] \in P \ U
  BY DEF MoveMap
<1>5. ASSUME NEW q \in P PROVE h[q] \in P2 /\ g[h[q]] = q /\ (q \in U => h[q] \in U2)
  BY DEF MoveMap
<1> HIDE DEF P, P2, U, U2
<1>6. /\ \A p \in P2 : /\ g[p] \in P /\ h[g[p]] = p
                       /\ p \in 1 .. e => g[p] \in (1 .. e - 1) \cup {i}
                       /\ p \notin U2 => g[p] \in P \ U
      /\ \A q \in P : h[q] \in P2 /\ g[h[q]] = q /\ (q \in U => h[q] \in U2)
  BY Zenon, <1>2, <1>3, <1>4, <1>5
<1> QED
  BY Zenon, <1>1, <1>6 DEF P, P2, U, U2

\* Keeping an unfired ephemeron among the first of the remembered set preserves the invariant.
LEMMA MoveNewEphemeronInv ==
    ASSUME Inv, pc = "remembered", at.i <= RSize(mem), IsUnfired(mem, mem.rememberedSet[at.i]),
           NEW k, k = MoveNewEphemeron(mem, mem.rememberedSet[at.i], at.dest),
           Step(k, "remembered", [Next1 EXCEPT !.dest = @ + 1])
    PROVE  Inv'
<1> DEFINE s == mem.rememberedSet
           i == at.i
           d == at.dest
           a == s[i]
           e == mem.ephemerons + 1
           E == 1 .. mem.ephemerons
           R == RSize(mem)
           P == (1 .. d - 1) \cup (i .. R)
           U == (i .. R) \cup E
           K == P \ U
           C == Range(mem.ephemeronList)
           w == [Next1 EXCEPT !.dest = @ + 1]
           P2 == (1 .. d) \cup (i + 1 .. R)
           U2 == (i + 1 .. R) \cup (1 .. e)
           K2 == P2 \ U2
           f == ~at.firstTime
<1>1. /\ Loop(mem, P, at.previous, U, C, f, P, E, K)
      /\ Held(mem, roots, f) /\ HeapOK(mem) /\ at \in Walks
      /\ i \in Nat \ {0} /\ d \in Nat \ {0} /\ d <= i /\ R \in Nat
      /\ mem.ephemerons \in Nat /\ mem.previousSize \in Nat /\ mem.ephemerons < d
      /\ at.todo = <<>> /\ at.kept = <<>>
      /\ at.previous \in FutureStart(mem) .. mem.survivorStart
      /\ FutureStart(mem) \in Nat /\ mem.survivorStart \in Nat
  BY RememberedPart
<1>2. /\ P \subseteq 1 .. R /\ e \in Nat /\ 1 <= e /\ e <= d /\ i \in P /\ i \in 1 .. R /\ d \in 1 .. i
      /\ e \in 1 .. R /\ d \in 1 .. R
  BY <1>1
<1>3. a \in Members(mem, P) /\ \A p, q \in P : s[p] = s[q] => p = q
  BY <1>1, <1>2 DEF Members, Loop, SetsOK, InSet
<1>4. a \in OldAddresses /\ a \in Addresses /\ Live(mem, a) /\ Remembered(mem, a)
  <2>1. P \subseteq 1 .. Len(mem.rememberedSet) /\ SetsOK(mem, P)
    BY <1>1 DEF Loop
  <2> HIDE DEF P
  <2> QED
    BY Zenon, <1>1, <1>3, <2>1, MembersLive
<1>5. Cell(mem, a).kind = "ephemeron" /\ Size(mem, a) >= 1
  BY Zenon, <1>1, <1>4 DEF IsUnfired, IsKind, Cell, HeapOK, CellOK
<1>6. Loop(mem, P, at.previous, U, C, f, P, E \cup {i}, K)
  <2> HIDE DEF P, U, K, C, E, f
  <2> QED
    BY Zenon, <1>1, <1>2, <1>5, LoopEphemeron
<1>7. /\ SameButSet(mem, k, a) /\ (Remembered(k, a) <=> Remembered(mem, a))
      /\ k.mournQueue = mem.mournQueue /\ k.ephemerons = e /\ k.previousSize = mem.previousSize
      /\ RSize(k) = R
      /\ \A p \in 1 .. R : k.rememberedSet[p] = IF p = e THEN a ELSE IF p = d THEN s[e] ELSE s[p]
  BY SMTT(60), <1>1, <1>2, MoveNewEphemeronFacts
<1> DEFINE t == k.rememberedSet
           g == [p \in 1 .. R |-> IF p = e THEN i ELSE IF p = d THEN e ELSE p]
           h == [q \in 1 .. R |-> IF q = i THEN e ELSE IF q = e THEN d ELSE q]
<1>8. MoveMap(g, h, e, d, i, R)
  BY DEF MoveMap
<1> HIDE DEF t, g, h, C, f, w
<1>9. /\ P2 \subseteq 1 .. R /\ U2 \subseteq P2 /\ 1 .. e \subseteq P2 /\ K2 \subseteq P2
      /\ \A p \in P2 : /\ g[p] \in P /\ h[g[p]] = p
                       /\ p \in 1 .. e => g[p] \in E \cup {i}
                       /\ p \in K2 => g[p] \in K
      /\ \A q \in P : h[q] \in P2 /\ g[h[q]] = q /\ (q \in U => h[q] \in U2)
  <2>1. /\ d \in Nat /\ i \in Nat /\ R \in Nat /\ e \in Nat /\ 1 <= e /\ e <= d /\ d <= i /\ i <= R
        /\ E = 1 .. e - 1
    BY <1>1, <1>2
  <2> HIDE DEF i, d, e, R, E
  <2> DEFINE V == (i .. R) \cup (1 .. e - 1)
  <2>2. /\ P2 \subseteq 1 .. R /\ U2 \subseteq P2 /\ 1 .. e \subseteq P2
        /\ \A p \in P2 : /\ g[p] \in P /\ h[g[p]] = p
                         /\ p \in 1 .. e => g[p] \in (1 .. e - 1) \cup {i}
                         /\ p \notin U2 => g[p] \in P \ V
        /\ \A q \in P : h[q] \in P2 /\ g[h[q]] = q /\ (q \in V => h[q] \in U2)
    BY ONLY ZenonT(60), <1>8, <2>1, MoveMaps DEF P, P2, U2
  <2>3. V = U
    BY <2>1 DEF U
  <2> HIDE DEF P, U, P2, U2, V
  <2> QED
    BY ONLY Zenon, <2>1, <2>2, <2>3 DEF K, K2
<1>10. \A p \in P2 : t[p] = s[g[p]]
  <2>1. \A p \in 1 .. R : t[p] = IF p = e THEN s[i] ELSE IF p = d THEN s[e] ELSE s[p]
    BY <1>7 DEF t
  <2> HIDE DEF s, i, d, e, R, P2
  <2> QED
    BY ONLY <1>8, <1>9, <2>1 DEF MoveMap
<1> HIDE DEF P, U, K, C, E, f, P2, U2, K2, i, d
<1>11. Loop(k, P2, at.previous, U2, C, f, P2, 1 .. e, K2)
  <2> DEFINE E1 == E \cup {i}
             E2 == 1 .. e
             N == {}
  <2>1. P2 \subseteq 1 .. Len(k.rememberedSet)
    BY <1>7, <1>9 DEF RSize
  <2>2. U \subseteq P
    BY <1>1 DEF Loop
  <2> HIDE DEF E1, t, s
  <2>3. Positioned(mem, k, g, h, N, P, U, P, E1, K, P2, U2, P2, E2, K2)
    BY <1>9, <1>10, <2>1, <2>2 DEF t, s, E1, Positioned
  <2>4. SameButSet(mem, k, a) /\ N \subseteq {i} /\ (Remembered(k, a) <=> i \notin N)
        /\ (i \in N => ~RefersToYoung(mem, a))
    BY <1>4, <1>7
  <2>5. Loop(mem, P, at.previous, U, C, f, P, E1, K) /\ i \in P /\ a = mem.rememberedSet[i]
    BY <1>2, <1>6 DEF E1, s
  <2> HIDE DEF E2, N, a
  <2>6. Loop(k, P2, at.previous, U2, C, f, P2, E2, K2)
    BY <2>3, <2>4, <2>5, Rearranged
  <2> QED
    BY <2>6 DEF E2
<1>12. Held(k, roots, f)
  <2> HIDE DEF a
  <2> QED
    BY SMTT(60), <1>1, <1>4, <1>7, HeldSame
<1>13. /\ Cardinality(Objects(k)) = Cardinality(Objects(mem))
       /\ k.survivorStart = mem.survivorStart /\ FutureStart(k) = FutureStart(mem)
       /\ k.ephemeronList = mem.ephemeronList
  <2>1. Objects(k) = Objects(mem)
    <3> HIDE DEF a
    <3> QED
      BY <1>1, <1>4, <1>7, SameButSetFacts
  <2> QED
    BY SMTT(60), <1>7, <2>1 DEF SameButSet, SameLists, FutureStart
<1>14. /\ w \in Walks /\ w.i = at.i + 1 /\ w.dest = at.dest + 1 /\ w.previous = at.previous
       /\ w.firstTime = at.firstTime /\ w.todo = <<>> /\ w.kept = <<>>
  <2>1. w = [Next1 EXCEPT !.dest = @ + 1]
    BY DEF w
  <2> HIDE DEF w
  <2> QED
    BY Zenon, <1>1, <2>1, DestFields
<1>15. Step(k, "remembered", w)
  BY DEF w
<1> HIDE DEF w
<1>16. /\ P2 = (1 .. w.dest - 1) \cup (w.i .. RSize(k)) /\ U2 = (w.i .. RSize(k)) \cup (1 .. k.ephemerons)
       /\ K2 = P2 \ U2 /\ C = Range(k.ephemeronList) /\ 1 .. e = 1 .. k.ephemerons
  <2>1. w.dest - 1 = d /\ w.i = i + 1
    BY <1>1, <1>14 DEF d, i
  <2> QED
    BY <1>7, <1>13, <2>1 DEF P2, U2, K2, C
<1>17. /\ w.dest <= w.i /\ at.i <= RSize(k) /\ k.ephemerons < w.dest /\ k.ephemerons \in Nat /\ RSize(k) \in Nat
       /\ at.previous \in FutureStart(k) .. k.survivorStart /\ at.i \in Nat
  BY SMTT(60), <1>1, <1>2, <1>7, <1>13, <1>14 DEF i, d
<1> HIDE DEF e
<1>18. RememberedLoop(k, w.i, w.dest)
  BY <1>11, <1>16 DEF f, RememberedLoop
<1>19. Held(k, roots, ~at.firstTime) /\ Cardinality(Objects(k)) = Cardinality(Objects(mem))
  BY <1>12, <1>13 DEF f
<1> QED
  BY <1>14, <1>15, <1>17, <1>18, <1>19, RememberedInv

\* The scan of an object of the remembered set, before it is kept or forgotten.
LEMMA RememberedScan ==
    ASSUME Inv, pc = "remembered", at.i <= RSize(mem),
           NEW a, a = mem.rememberedSet[at.i], ~IsUnfired(mem, a), NEW n, n = ScavengeReferentsOf(mem, a)
    PROVE  /\ RememberedLoop(n, at.i, at.dest) /\ HeapOK(n) /\ Held(n, roots, ~at.firstTime)
           /\ at.i \in Nat \ {0} /\ at.dest \in Nat \ {0} /\ at.dest <= at.i /\ at \in Walks
           /\ at.todo = <<>> /\ at.kept = <<>>
           /\ RSize(n) \in Nat /\ at.i <= RSize(n) /\ n.rememberedSet[at.i] = a
           /\ n.ephemerons \in Nat /\ n.previousSize \in Nat /\ n.ephemerons < at.dest
           /\ at.previous \in FutureStart(n) .. n.survivorStart
           /\ Cardinality(Objects(n)) = Cardinality(Objects(mem))
           /\ a \in OldAddresses /\ Done(n, a)
           /\ KeepsNew(n, a) => IsKind(n, a, "weak") \/ HasNew(n, a)
           /\ ~KeepsNew(n, a) => ~IsKind(n, a, "weak") /\ ~RefersToYoung(n, a)
<1> DEFINE i == at.i
           d == at.dest
           R == RSize(mem)
           E == 1 .. mem.ephemerons
           P == (1 .. d - 1) \cup (i .. R)
           U == (i .. R) \cup E
           K == P \ U
           C == Range(mem.ephemeronList)
           f == ~at.firstTime
           Q == NewPositions(mem, n)
           P2 == (1 .. d - 1) \cup (i .. RSize(n))
           U2 == (i .. RSize(n)) \cup E
           K2 == P2 \ U2
           D == Range(n.ephemeronList)
<1>1. /\ Loop(mem, P, at.previous, U, C, f, P, E, K)
      /\ Held(mem, roots, f) /\ HeapOK(mem) /\ at \in Walks
      /\ i \in Nat \ {0} /\ d \in Nat \ {0} /\ d <= i /\ R \in Nat
      /\ mem.ephemerons \in Nat /\ mem.previousSize \in Nat /\ mem.ephemerons < d
      /\ at.todo = <<>> /\ at.kept = <<>>
      /\ at.previous \in FutureStart(mem) .. mem.survivorStart
      /\ FutureStart(mem) \in Nat /\ mem.survivorStart \in Nat
  BY RememberedPart
<1>2. P \subseteq 1 .. R /\ i \in P
  BY <1>1
<1>3. a \in OldAddresses /\ Live(mem, a)
  <2>1. a \in Members(mem, P)
    BY <1>2, MemberAt
  <2>2. P \subseteq 1 .. Len(mem.rememberedSet) /\ SetsOK(mem, P)
    BY <1>1 DEF Loop
  <2> HIDE DEF P
  <2> QED
    BY Zenon, <1>1, <2>1, <2>2, MembersLive
<1> HIDE DEF P, U, K, C, E, Q, f
<1>4. /\ HeapOK(n) /\ Grows(mem, n)
      /\ \A p \in P : n.rememberedSet[p] = mem.rememberedSet[p]
      /\ Done(n, a)
      /\ KeepsNew(n, a) => IsKind(n, a, "weak") \/ HasNew(n, a)
      /\ ~KeepsNew(n, a) => ~IsKind(n, a, "weak") /\ ~RefersToYoung(n, a)
  <2>1. Loop(mem, P, at.previous, U, C, f, P, E, K) /\ Live(mem, a)
    BY <1>1, <1>3
  <2>2. HeapOK(n) /\ Grows(mem, n)
    BY Zenon, <2>1, LoopScan
  <2>3. /\ Done(n, a)
        /\ KeepsNew(n, a) => IsKind(n, a, "weak") \/ HasNew(n, a)
        /\ ~KeepsNew(n, a) => ~IsKind(n, a, "weak") /\ ~RefersToYoung(n, a)
    BY Zenon, <2>1, LoopScan
  <2>4. \A p \in P : n.rememberedSet[p] = mem.rememberedSet[p]
    BY Zenon, <1>1, <1>2, <2>2 DEF Grows, Extends, RSize
  <2> QED
    BY <2>2, <2>3, <2>4
<1>5. Q = R + 1 .. RSize(n)
  BY DEF Q, NewPositions, RSize
<1>6. /\ RSize(n) \in Nat /\ RSize(n) >= R
      /\ n.previousSize = mem.previousSize /\ n.ephemerons = mem.ephemerons
      /\ Range(mem.ephemeronList) \subseteq Range(n.ephemeronList)
      /\ FutureStart(n) = FutureStart(mem)
      /\ n.survivorStart \in Nat /\ n.survivorStart >= mem.survivorStart
      /\ Cardinality(Objects(n)) = Cardinality(Objects(mem))
  BY Zenon, <1>1, <1>4, GrowsCounts
<1>7. Loop(n, P \cup Q, at.previous, U \cup Q, C \cup Range(n.ephemeronList), f, P \cup Q, E, K)
  BY Zenon, <1>1, <1>3, LoopScan DEF Q
<1>8. P \cup Q = P2 /\ U \cup Q = U2 /\ K = K2 /\ C \cup Range(n.ephemeronList) = D
  BY <1>1, <1>5, <1>6 DEF P, U, K, E, C
<1>9. Loop(n, P2, at.previous, U2, D, f, P2, E, K2)
  <2> HIDE DEF P2, U2, K2, D
  <2> QED
    BY Zenon, <1>7, <1>8 DEF D
<1>10. RememberedLoop(n, i, d)
  BY <1>6, <1>9 DEF RememberedLoop, E, f
<1>11. Held(n, roots, f)
  BY <1>1, <1>4, HeldGrows
<1>12. /\ at.previous \in FutureStart(n) .. n.survivorStart /\ i <= RSize(n) /\ n.rememberedSet[i] = a
  BY SMTT(60), <1>1, <1>2, <1>4, <1>6
<1> QED
  BY <1>1, <1>3, <1>4, <1>6, <1>10, <1>11, <1>12 DEF f

\* The memory with a at d in the remembered set.
KeptIn(n, d, a) == [n EXCEPT !.rememberedSet[d] = a]

\* A scanned member that is kept: the loop over the remembered set moves on.
LEMMA KeepRemembered ==
    ASSUME NEW n, HeapOK(n), NEW i \in Nat \ {0}, NEW d \in Nat \ {0}, d <= i, RememberedLoop(n, i, d),
           i <= RSize(n), n.ephemerons \in Nat, n.previousSize \in Nat, n.ephemerons < d,
           NEW a, a = n.rememberedSet[i],
           Done(n, a), IsKind(n, a, "weak") \/ HasNew(n, a),
           NEW k, k = KeptIn(n, d, a)
    PROVE  /\ RememberedLoop(k, i + 1, d + 1) /\ a \in OldAddresses /\ SameButSet(n, k, a)
           /\ k.mournQueue = n.mournQueue /\ k.ephemerons = n.ephemerons /\ RSize(k) = RSize(n)
<1> DEFINE R == RSize(n)
           s == n.rememberedSet
           u == [s EXCEPT ![d] = a]
           E == 1 .. n.ephemerons
           P == (1 .. d - 1) \cup (i .. R)
           U == (i .. R) \cup E
           K == P \ U
           C == Range(n.ephemeronList)
           P2 == (1 .. d) \cup (i + 1 .. R)
           U2 == (i + 1 .. R) \cup E
           K2 == P2 \ U2
           f == ~at.firstTime
           g == [p \in 1 .. R |-> IF p = d THEN i ELSE p]
           h == [q \in 1 .. R |-> IF q = i THEN d ELSE q]
           N == {}
<1>1. Loop(n, P, at.previous, U, C, f, P, E, K)
  BY DEF RememberedLoop
<1>2. n \in Memories /\ s \in Seq(OldAddresses) /\ R \in Nat
  BY Fields, InRange DEF HeapOK, RSize
<1>3. /\ P \subseteq 1 .. R /\ i \in P /\ d \in 1 .. R /\ P2 \subseteq 1 .. R /\ i \in 1 .. R
      /\ U2 \subseteq P2 /\ E \subseteq P2 /\ K2 \subseteq P2
  BY <1>2
<1>4. a \in OldAddresses /\ Live(n, a) /\ Remembered(n, a)
  <2>1. a \in Members(n, P)
    BY <1>3, MemberAt
  <2>2. P \subseteq 1 .. Len(n.rememberedSet) /\ SetsOK(n, P)
    BY <1>1 DEF Loop
  <2> HIDE DEF P
  <2> QED
    BY <1>1, <2>1, <2>2, MembersLive DEF Loop
<1>5. u \in Seq(OldAddresses) /\ Len(u) = R /\ \A p \in 1 .. R : u[p] = IF p = d THEN a ELSE s[p]
  <2> HIDE DEF s
  <2>1. d \in 1 .. Len(s)
    BY <1>3 DEF s, RSize
  <2> QED
    BY <1>2, <1>4, <2>1, ExceptSeq DEF RSize, s
<1>6. /\ SameButSet(n, k, a) /\ (Remembered(k, a) <=> Remembered(n, a))
      /\ k.rememberedSet = u /\ k.mournQueue = n.mournQueue
      /\ k.ephemerons = n.ephemerons /\ k.previousSize = n.previousSize
  <2> HIDE DEF u
  <2>1. k = SetTo(n, u, n.ephemerons, n.previousSize)
    BY Zenon, <1>2 DEF SetTo, u, s, Memories, KeptIn
  <2>2. a \in OldAddresses /\ u \in Seq(OldAddresses)
    BY <1>4, <1>5
  <2>3. /\ SameButSet(n, k, a) /\ (Remembered(k, a) <=> Remembered(n, a))
        /\ k.rememberedSet = u
    BY <2>1, <2>2, SetToFacts
  <2>4. k.mournQueue = n.mournQueue /\ k.ephemerons = n.ephemerons /\ k.previousSize = n.previousSize
    BY <1>2 DEF Memories, KeptIn
  <2> QED
    BY <2>3, <2>4
<1>7. RSize(k) = R /\ k.ephemeronList = n.ephemeronList
  BY <1>5, <1>6 DEF RSize, SameButSet, SameLists
<1>9. u[d] = a /\ s[i] = a
  BY <1>3, <1>5
<1>8. /\ \A p \in P2 : g[p] \in P /\ h[g[p]] = p /\ u[p] = s[g[p]]
      /\ \A q \in P : h[q] \in P2 /\ g[h[q]] = q /\ (q \in U /\ q # i => h[q] \in U2)
      /\ \A p \in E : g[p] \in E
      /\ \A p \in K2 : g[p] \in K \/ p = d
  <2>1. /\ \A q \in 1 .. R : g[q] = IF q = d THEN i ELSE q
        /\ \A q \in 1 .. R : h[q] = IF q = i THEN d ELSE q
    OBVIOUS
  <2> HIDE DEF g, h
  <2>0. i \in Nat /\ d \in Nat /\ 1 <= d /\ d <= i /\ n.ephemerons \in Nat /\ n.ephemerons < d
    OBVIOUS
  <2>2. \A p \in P2 : g[p] \in P /\ h[g[p]] = p /\ u[p] = s[g[p]]
    BY ONLY <1>2, <1>3, <1>5, <1>9, <2>0, <2>1
  <2>3. \A q \in P : h[q] \in P2 /\ g[h[q]] = q /\ (q \in U /\ q # i => h[q] \in U2)
    BY ONLY SMTT(60), <1>2, <1>3, <2>0, <2>1
  <2>4. /\ \A p \in E : g[p] \in E
        /\ \A p \in K2 : g[p] \in K \/ p = d
    BY ONLY SMTT(60), <1>2, <1>3, <2>0, <2>1
  <2> QED
    BY <2>2, <2>3, <2>4
<1> HIDE DEF P, U, K, E, P2, U2, K2, g, h, s, u, C, f
<1>10. Positioned(n, k, g, h, N, P, U, P, E, K, P2, U2, P2, E, K2)
  <2>1. U \subseteq P
    BY <1>1 DEF Loop
  <2>2. P2 \subseteq 1 .. Len(k.rememberedSet)
    BY <1>3, <1>7 DEF RSize
  <2>3. /\ \A p \in P2 : g[p] \in P \ N /\ h[g[p]] = p /\ k.rememberedSet[p] = n.rememberedSet[g[p]]
        /\ \A q \in P \ N : h[q] \in P2 /\ g[h[q]] = q
    BY <1>6, <1>8 DEF s
  <2>4. \A q \in U \ N : h[q] \in U2 \/ Done(n, n.rememberedSet[q])
    BY <1>8, <1>9, <2>1 DEF s
  <2>5. \A p \in K2 : g[p] \in K \/ IsKind(n, k.rememberedSet[p], "weak") \/ HasNew(n, k.rememberedSet[p])
    <3>1. \A p \in K2 : g[p] \in K \/ p = d
      BY <1>8
    <3>2. k.rememberedSet[d] = a
      BY <1>6, <1>9
    <3> QED
      BY <3>1, <3>2
  <2> QED
    BY <1>3, <1>8, <2>2, <2>3, <2>4, <2>5 DEF Positioned
<1>11. Loop(k, P2, at.previous, U2, C, f, P2, E, K2)
  <2>1. N \subseteq {i} /\ (Remembered(k, a) <=> i \notin N)
        /\ (i \in N => ~RefersToYoung(n, a))
    BY <1>4, <1>6
  <2> HIDE DEF N
  <2> QED
    BY Zenon, <1>1, <1>3, <1>6, <1>10, <2>1, Rearranged
<1>12. (d + 1) - 1 = d
  OBVIOUS
<1>13. RememberedLoop(k, i + 1, d + 1)
  BY <1>6, <1>7, <1>11, <1>12 DEF RememberedLoop, P2, U2, K2, C, f, E
<1> QED
  BY <1>4, <1>6, <1>7, <1>13

\* A scanned member that is forgotten: the loop over the remembered set moves on.
LEMMA ForgetRemembered ==
    ASSUME NEW n, HeapOK(n), NEW i \in Nat \ {0}, NEW d \in Nat \ {0}, d <= i, RememberedLoop(n, i, d),
           i <= RSize(n), n.ephemerons \in Nat, n.previousSize \in Nat, n.ephemerons < d,
           NEW a, a = n.rememberedSet[i],
           ~IsKind(n, a, "weak"), ~RefersToYoung(n, a),
           NEW k, k = SetRemembered(n, a, FALSE)
    PROVE  /\ RememberedLoop(k, i + 1, d) /\ a \in OldAddresses /\ SameButSet(n, k, a)
           /\ k.mournQueue = n.mournQueue /\ k.ephemerons = n.ephemerons /\ RSize(k) = RSize(n)
<1> DEFINE R == RSize(n)
           s == n.rememberedSet
           E == 1 .. n.ephemerons
           P == (1 .. d - 1) \cup (i .. R)
           U == (i .. R) \cup E
           K == P \ U
           C == Range(n.ephemeronList)
           P2 == (1 .. d - 1) \cup (i + 1 .. R)
           U2 == (i + 1 .. R) \cup E
           K2 == P2 \ U2
           f == ~at.firstTime
           g == [p \in 1 .. R |-> p]
           N == {i}
<1>1. Loop(n, P, at.previous, U, C, f, P, E, K)
  BY DEF RememberedLoop
<1>2. n \in Memories /\ s \in Seq(OldAddresses) /\ R \in Nat
  BY Fields, InRange DEF HeapOK, RSize
<1>3. /\ P \subseteq 1 .. R /\ i \in P /\ P2 \subseteq 1 .. R /\ i \in 1 .. R
      /\ U2 \subseteq P2 /\ E \subseteq P2 /\ K2 \subseteq P2
  BY <1>2
<1>4. a \in OldAddresses /\ Live(n, a) /\ Remembered(n, a)
  <2>1. a \in Members(n, P)
    BY <1>3, MemberAt
  <2>2. P \subseteq 1 .. Len(n.rememberedSet) /\ SetsOK(n, P)
    BY <1>1 DEF Loop
  <2> HIDE DEF P
  <2> QED
    BY Zenon, <1>1, <2>1, <2>2, MembersLive DEF Loop
<1>5. /\ SameButSet(n, k, a) /\ ~Remembered(k, a)
      /\ k.rememberedSet = n.rememberedSet /\ k.mournQueue = n.mournQueue
      /\ k.ephemerons = n.ephemerons /\ k.previousSize = n.previousSize
  BY ZenonT(60), <1>4, ForgottenFacts
<1>6. RSize(k) = R /\ k.ephemeronList = n.ephemeronList
  BY Zenon, <1>5 DEF RSize, SameButSet, SameLists
<1>7. P2 = P \ N /\ U \ N \subseteq U2 /\ K2 \subseteq K /\ \A p \in P : g[p] = p
  BY <1>2, <1>3
<1> HIDE DEF P, U, K, E, P2, U2, K2, g, s, C, f
<1>8. Positioned(n, k, g, g, N, P, U, P, E, K, P2, U2, P2, E, K2)
  <2>1. U \subseteq P
    BY <1>1 DEF Loop
  <2>2. P2 \subseteq 1 .. Len(k.rememberedSet)
    BY <1>3, <1>6 DEF RSize
  <2> HIDE DEF N
  <2> QED
    BY Zenon, <1>3, <1>5, <1>7, <2>1, <2>2 DEF Positioned
<1>9. Loop(k, P2, at.previous, U2, C, f, P2, E, K2)
  <2>1. N \subseteq {i} /\ (Remembered(k, a) <=> i \notin N)
        /\ (i \in N => ~RefersToYoung(n, a))
    BY Zenon, <1>5
  <2> HIDE DEF N
  <2> QED
    BY Zenon, <1>1, <1>3, <1>5, <1>8, <2>1, Rearranged
<1>10. RememberedLoop(k, i + 1, d)
  BY Zenon, <1>5, <1>6, <1>9 DEF RememberedLoop, P2, U2, K2, C, f, E
<1> QED
  BY Zenon, <1>4, <1>5, <1>6, <1>10

\* The step ScavengeRememberedSet preserves the invariant.
LEMMA ScavengeRememberedSetInv ==
    ASSUME Inv, ScavengeRememberedSet
    PROVE  Inv'
<1> DEFINE a == mem.rememberedSet[at.i]
           n == ScavengeReferentsOf(mem, a)
<1>1. pc = "remembered" /\ at.i <= RSize(mem)
  BY DEF ScavengeRememberedSet, RSize
<1>2. CASE IsUnfired(mem, a)
  <2>1. Step(MoveNewEphemeron(mem, a, at.dest), "remembered", [Next1 EXCEPT !.dest = @ + 1])
    BY <1>2 DEF ScavengeRememberedSet
  <2> QED
    BY <1>1, <1>2, <2>1, MoveNewEphemeronInv
<1>3. CASE ~IsUnfired(mem, a)
  <2>1. IF KeepsNew(n, a)
        THEN Step([n EXCEPT !.rememberedSet[at.dest] = a], "remembered", [Next1 EXCEPT !.dest = @ + 1])
        ELSE Step(SetRemembered(n, a, FALSE), "remembered", Next1)
    BY <1>3 DEF ScavengeRememberedSet
  <2>2. n = ScavengeReferentsOf(mem, a) /\ a = mem.rememberedSet[at.i]
    OBVIOUS
  <2> HIDE DEF n, a
  <2>3. /\ RememberedLoop(n, at.i, at.dest) /\ HeapOK(n) /\ Held(n, roots, ~at.firstTime)
        /\ at.i \in Nat \ {0} /\ at.dest \in Nat \ {0} /\ at.dest <= at.i /\ at \in Walks
        /\ at.todo = <<>> /\ at.kept = <<>>
        /\ RSize(n) \in Nat /\ at.i <= RSize(n) /\ n.rememberedSet[at.i] = a
        /\ n.ephemerons \in Nat /\ n.previousSize \in Nat /\ n.ephemerons < at.dest
        /\ at.previous \in FutureStart(n) .. n.survivorStart
        /\ Cardinality(Objects(n)) = Cardinality(Objects(mem))
    BY <1>1, <1>3, <2>2, RememberedScan
  <2>4. /\ a \in OldAddresses /\ Done(n, a)
        /\ KeepsNew(n, a) => IsKind(n, a, "weak") \/ HasNew(n, a)
        /\ ~KeepsNew(n, a) => ~IsKind(n, a, "weak") /\ ~RefersToYoung(n, a)
    BY <1>1, <1>3, <2>2, RememberedScan
  <2>5. ASSUME NEW k, SameButSet(n, k, a), k.mournQueue = n.mournQueue
        PROVE  /\ Held(k, roots, ~at.firstTime) /\ Cardinality(Objects(k)) = Cardinality(Objects(mem))
               /\ at.previous \in FutureStart(k) .. k.survivorStart
    <3>1. Held(k, roots, ~at.firstTime) 
      BY <2>3, <2>4, <2>5, HeldSame
    <3>2. Objects(k) = Objects(n)
      BY <2>3, <2>4, <2>5, SameButSetFacts
    <3>3. FutureStart(k) = FutureStart(n) /\ k.survivorStart = n.survivorStart
      BY <2>5 DEF SameButSet, FutureStart
    <3> QED
      BY <2>3, <3>1, <3>2, <3>3
  <2>6. CASE KeepsNew(n, a)
    <3> DEFINE k == [n EXCEPT !.rememberedSet[at.dest] = a]
               w == [Next1 EXCEPT !.dest = @ + 1]
    <3>1. k = KeptIn(n, at.dest, a) /\ w = [Next1 EXCEPT !.dest = @ + 1]
          /\ Step(k, "remembered", w)
      BY <2>1, <2>6 DEF KeptIn
    <3> HIDE DEF k, w
    <3>2. /\ w \in Walks /\ w.i = at.i + 1 /\ w.dest = at.dest + 1 /\ w.previous = at.previous
          /\ w.firstTime = at.firstTime /\ w.todo = <<>> /\ w.kept = <<>>
      BY Zenon, <2>3, <3>1, DestFields
    <3>3. /\ RememberedLoop(k, w.i, w.dest) /\ SameButSet(n, k, a)
          /\ k.mournQueue = n.mournQueue /\ k.ephemerons = n.ephemerons /\ RSize(k) = RSize(n)
      BY SMTT(60), <2>3, <2>4, <2>6, <3>1, <3>2, KeepRemembered
    <3>4. /\ Held(k, roots, ~at.firstTime) /\ Cardinality(Objects(k)) = Cardinality(Objects(mem))
          /\ at.previous \in FutureStart(k) .. k.survivorStart
      BY <2>5, <3>3
    <3>5. /\ w.dest <= w.i /\ at.i <= RSize(k) /\ k.ephemerons < w.dest
          /\ k.ephemerons \in Nat /\ RSize(k) \in Nat /\ at.i \in Nat
      BY <2>3, <3>2, <3>3
    <3> QED
      BY <1>1, <3>1, <3>2, <3>3, <3>4, <3>5, RememberedInv
  <2>7. CASE ~KeepsNew(n, a)
    <3> DEFINE k == SetRemembered(n, a, FALSE)
               w == Next1
    <3>1. k = SetRemembered(n, a, FALSE) /\ w = Next1 /\ Step(k, "remembered", w)
      BY <2>1, <2>7
    <3>2. /\ w \in Walks /\ w.i = at.i + 1 /\ w.dest = at.dest /\ w.previous = at.previous
          /\ w.firstTime = at.firstTime /\ w.todo = <<>> /\ w.kept = <<>>
      BY <2>3, NextFields
    <3> HIDE DEF k, w
    <3>3. /\ RememberedLoop(k, w.i, w.dest) /\ SameButSet(n, k, a)
          /\ k.mournQueue = n.mournQueue /\ k.ephemerons = n.ephemerons /\ RSize(k) = RSize(n)
      <4>1. ~IsKind(n, a, "weak") /\ ~RefersToYoung(n, a)
        BY <2>4, <2>7
      <4>2. /\ RememberedLoop(k, at.i + 1, at.dest) /\ SameButSet(n, k, a)
            /\ k.mournQueue = n.mournQueue /\ k.ephemerons = n.ephemerons /\ RSize(k) = RSize(n)
        <5>1. /\ HeapOK(n) /\ at.i \in Nat \ {0} /\ at.dest \in Nat \ {0} /\ at.dest <= at.i
              /\ RememberedLoop(n, at.i, at.dest)
              /\ at.i <= RSize(n) /\ n.ephemerons \in Nat /\ n.previousSize \in Nat /\ n.ephemerons < at.dest
              /\ a = n.rememberedSet[at.i] /\ k = SetRemembered(n, a, FALSE)
          BY <2>3, <3>1
        <5>2. RememberedLoop(k, at.i + 1, at.dest) /\ SameButSet(n, k, a)
          BY Zenon, <4>1, <5>1, ForgetRemembered
        <5>3. k.mournQueue = n.mournQueue /\ k.ephemerons = n.ephemerons /\ RSize(k) = RSize(n)
          BY ZenonT(60), <2>4, <5>1, ForgottenFacts DEF RSize
        <5> QED
          BY <5>2, <5>3
      <4> QED
        BY <3>2, <4>2
    <3>4. /\ Held(k, roots, ~at.firstTime) /\ Cardinality(Objects(k)) = Cardinality(Objects(mem))
          /\ at.previous \in FutureStart(k) .. k.survivorStart
      BY <2>5, <3>3
    <3>5. /\ w.dest <= w.i /\ at.i <= RSize(k) /\ k.ephemerons < w.dest
          /\ k.ephemerons \in Nat /\ RSize(k) \in Nat /\ at.i \in Nat
      BY <2>3, <3>2, <3>3
    <3> QED
      BY <1>1, <3>1, <3>2, <3>3, <3>4, <3>5, RememberedInv
  <2> QED
    BY <2>6, <2>7
<1> QED
  BY <1>2, <1>3

\* A list without its last.
LEMMA FrontFacts ==
    ASSUME NEW S, NEW s \in Seq(S), NEW R, R = Len(s), R >= 1
    PROVE  /\ Front(s) \in Seq(S) /\ Len(Front(s)) = R - 1 /\ R \in Nat
           /\ \A p \in 1 .. R - 1 : Front(s)[p] = s[p]
<1> DEFINE N == R - 1
           o == 1
<1>1. R \in Nat /\ N \in Int /\ o \in Int /\ N >= 0 /\ \A p \in o .. N : s[p] \in S
  BY InRange
<1>2. Front(s) = SubSeq(s, o, N)
  BY DEF Front
<1>3. o = 1 /\ N = R - 1
  OBVIOUS
<1> HIDE DEF N, o
<1>4. /\ SubSeq(s, o, N) \in Seq(S)
      /\ Len(SubSeq(s, o, N)) = IF o <= N THEN N - o + 1 ELSE 0
      /\ \A p \in o .. N - o + 1 : SubSeq(s, o, N)[p] = s[o + p - 1]
  <2>1. /\ SubSeq(s, o, N) \in Seq(S)
        /\ Len(SubSeq(s, o, N)) = IF o <= N THEN N - o + 1 ELSE 0
        /\ \A p \in 1 .. N - o + 1 : SubSeq(s, o, N)[p] = s[o + p - 1]
    BY <1>1, SubSeqProperties
  <2> QED
    BY <2>1, <1>3
<1> HIDE DEF Front
<1>5. N - o + 1 = N /\ \A p \in 1 .. N : o + p - 1 = p
  BY <1>1, <1>3
<1>6. \A p \in 1 .. N : SubSeq(s, o, N)[p] = s[p]
  <2> SUFFICES ASSUME NEW p \in 1 .. N PROVE SubSeq(s, o, N)[p] = s[p]
    OBVIOUS
  <2>1. p \in o .. N - o + 1 /\ o + p - 1 = p
    BY <1>3, <1>5
  <2> QED
    BY Zenon, <1>4, <2>1
<1>7. Len(SubSeq(s, o, N)) = N
  BY <1>1, <1>3, <1>4
<1> QED
  BY <1>1, <1>2, <1>3, <1>4, <1>6, <1>7

\* The ephemeron at i and the last one have changed places.
LEMMA LastEphemeronFacts ==
    ASSUME NEW m, HeapOK(m), NEW e, e = m.ephemerons, NEW i \in 1 .. e, e <= RSize(m),
           NEW a, a = m.rememberedSet[i], a \in OldAddresses,
           NEW n, n = RemoveLastEphemeronTo(m, i, a)
    PROVE  /\ SameButSet(m, n, a) /\ (Remembered(n, a) <=> Remembered(m, a))
           /\ n.mournQueue = m.mournQueue /\ n.ephemerons = e - 1 /\ n.previousSize = m.previousSize
           /\ RSize(n) = RSize(m)
           /\ \A p \in 1 .. RSize(m) : n.rememberedSet[p] =
                 IF p = e THEN a ELSE IF p = i THEN m.rememberedSet[e] ELSE m.rememberedSet[p]
<1> DEFINE s == m.rememberedSet
           t == [s EXCEPT ![i] = s[e]]
           u == [t EXCEPT ![e] = a]
           x == e - 1
           z == m.previousSize
<1>1. m \in Memories /\ s \in Seq(OldAddresses) /\ RSize(m) \in Nat /\ e \in Nat /\ z \in Nat /\ Len(s) = RSize(m)
  BY Fields, InRange DEF HeapOK, RSize
<1>2. e \in 1 .. Len(s) /\ i \in 1 .. Len(s) /\ s[e] \in OldAddresses /\ x \in Nat
  BY <1>1, InRange DEF RSize
<1> HIDE DEF s
<1>3. t \in Seq(OldAddresses) /\ Len(t) = Len(s) /\ \A p \in 1 .. Len(s) : t[p] = IF p = i THEN s[e] ELSE s[p]
  BY <1>1, <1>2, ExceptSeq
<1> HIDE DEF t
<1>4. u \in Seq(OldAddresses) /\ Len(u) = Len(t) /\ \A p \in 1 .. Len(t) : u[p] = IF p = e THEN a ELSE t[p]
  BY <1>1, <1>2, <1>3, ExceptSeq
<1> HIDE DEF u
<1>5. n = SetTo(m, u, x, z)
  BY Zenon, <1>1 DEF RemoveLastEphemeronTo, RemoveLastEphemeronAndKeepIn, SetTo, u, t, s, Memories
<1> HIDE DEF x, z
<1>6. /\ SameButSet(m, n, a) /\ (Remembered(n, a) <=> Remembered(m, a))
      /\ n.mournQueue = m.mournQueue /\ n.ephemerons = x /\ n.previousSize = z
      /\ n.rememberedSet = u
  BY <1>1, <1>2, <1>4, <1>5, SetToFacts
<1> QED
  BY <1>1, <1>3, <1>4, <1>6 DEF RSize, s, x, z

\* The ephemeron at i is gone, its hole closed.
LEMMA MovedToFacts ==
    ASSUME NEW m, HeapOK(m), NEW e, e = m.ephemerons, NEW z, z = m.previousSize, NEW R, R = RSize(m),
           NEW i \in 1 .. e, e <= z, z <= R, NEW a \in OldAddresses,
           NEW n, n = RemoveLastEphemeronAndMoveTo(m, i)
    PROVE  /\ SameButSet(m, n, a) /\ (Remembered(n, a) <=> Remembered(m, a))
           /\ n.mournQueue = m.mournQueue /\ n.ephemerons = e - 1 /\ n.previousSize = z - 1
           /\ RSize(n) = R - 1 /\ e \in Nat /\ z \in Nat /\ R \in Nat
           /\ \A p \in 1 .. R - 1 : n.rememberedSet[p] =
                 IF p = z THEN m.rememberedSet[R] ELSE IF p = e THEN m.rememberedSet[z]
                 ELSE IF p = i THEN m.rememberedSet[e] ELSE m.rememberedSet[p]
<1> DEFINE s == m.rememberedSet
           t == [s EXCEPT ![i] = s[e]]
           u == [t EXCEPT ![e] = t[z]]
           v == [u EXCEPT ![z] = t[R]]
           f == Front(v)
           x == e - 1
           y == z - 1
<1>1. m \in Memories /\ s \in Seq(OldAddresses) /\ R \in Nat /\ e \in Nat /\ z \in Nat /\ Len(s) = R
  BY Fields, InRange DEF HeapOK, RSize
<1>2. /\ e \in 1 .. R /\ i \in 1 .. R /\ z \in 1 .. R /\ R \in 1 .. R /\ s[e] \in OldAddresses
      /\ x \in Nat /\ y \in Nat
  BY SMTT(60), <1>1, InRange
<1> HIDE DEF s
<1>3. t \in Seq(OldAddresses) /\ Len(t) = R /\ \A p \in 1 .. R : t[p] = IF p = i THEN s[e] ELSE s[p]
  BY <1>1, <1>2, ExceptSeq
<1> HIDE DEF t
<1>4. t[z] \in OldAddresses /\ t[R] \in OldAddresses
  BY <1>2, <1>3, InRange
<1>5. u \in Seq(OldAddresses) /\ Len(u) = R /\ \A p \in 1 .. R : u[p] = IF p = e THEN t[z] ELSE t[p]
  BY <1>2, <1>3, <1>4, ExceptSeq
<1> HIDE DEF u
<1>6. v \in Seq(OldAddresses) /\ Len(v) = R /\ \A p \in 1 .. R : v[p] = IF p = z THEN t[R] ELSE u[p]
  BY <1>2, <1>4, <1>5, ExceptSeq
<1> HIDE DEF v
<1>7. f \in Seq(OldAddresses) /\ Len(f) = R - 1 /\ \A p \in 1 .. R - 1 : f[p] = v[p]
  <2>1. v \in Seq(OldAddresses) /\ R = Len(v) /\ R >= 1
    BY <1>1, <1>2, <1>6
  <2> QED
    BY Zenon, <2>1, FrontFacts DEF f
<1> HIDE DEF f
<1>8. n = SetTo(m, f, x, y)
  <2> DEFINE k == RemoveLastEphemeronAndKeepIn(m, i)
  <2>1. k = SetTo(m, t, x, z)
    BY Zenon, <1>1 DEF RemoveLastEphemeronAndKeepIn, SetTo, t, s, Memories
  <2>2. /\ k.rememberedSet = t /\ k.previousSize = z
        /\ SetTo(m, f, x, y) = [k EXCEPT !.rememberedSet = f, !.previousSize = @ - 1]
    BY Zenon, <1>1, <2>1 DEF SetTo, Memories
  <2>3. n = RemoveByIndexUsingPreviousSize(k, e)
    BY DEF RemoveLastEphemeronAndMoveTo
  <2> HIDE DEF k
  <2>4. Last(t) = t[R]
    BY <1>3 DEF Last
  <2>5. f = Front([k.rememberedSet EXCEPT ![e] = k.rememberedSet[k.previousSize],
                                         ![k.previousSize] = Last(k.rememberedSet)])
    BY <2>2, <2>4 DEF f, v, u
  <2>6. n = [k EXCEPT !.rememberedSet = f, !.previousSize = @ - 1]
    BY <2>3, <2>5 DEF RemoveByIndexUsingPreviousSize
  <2> QED
    BY <2>2, <2>6
<1> HIDE DEF x, y
<1>9. /\ SameButSet(m, n, a) /\ (Remembered(n, a) <=> Remembered(m, a))
      /\ n.mournQueue = m.mournQueue /\ n.ephemerons = x /\ n.previousSize = y
      /\ n.rememberedSet = f
  BY SMTT(60), <1>1, <1>2, <1>7, <1>8, SetToFacts
<1>10. \A p \in 1 .. R - 1 : f[p] = IF p = z THEN s[R] ELSE IF p = e THEN s[z]
                                    ELSE IF p = i THEN s[e] ELSE s[p]
  <2> SUFFICES ASSUME NEW p \in 1 .. R - 1
               PROVE  f[p] = IF p = z THEN s[R] ELSE IF p = e THEN s[z] ELSE IF p = i THEN s[e] ELSE s[p]
    OBVIOUS
  <2>1. p \in 1 .. R
    BY <1>1
  <2>2. t[z] = s[z] /\ t[R] = s[R]
    BY <1>1, <1>2, <1>3
  <2> QED
    BY <1>3, <1>5, <1>6, <1>7, <2>1, <2>2
<1> QED
  BY Zenon, <1>1, <1>7, <1>9, <1>10 DEF RSize, s, x, y

\* An ephemeron of the remembered set that stays in it, scanned.
LEMMA KeptEphemeron ==
    ASSUME NEW m, HeapOK(m), NEW e, e = m.ephemerons, NEW z, z = m.previousSize, NEW R, R = RSize(m),
           NEW i \in 1 .. e, e <= z, z <= R, NEW a, a = m.rememberedSet[i], a \in OldAddresses,
           NEW from, NEW C, NEW mapped, Walked(m, from, C, 1 .. e, mapped),
           Done(m, a), IsKind(m, a, "weak") \/ HasNew(m, a),
           NEW k, k = RemoveLastEphemeronTo(m, i, a)
    PROVE  Walked(k, from, C, 1 .. e - 1, mapped)
<1> DEFINE s == m.rememberedSet
           P == 1 .. R
           E == 1 .. e
           U == (z + 1 .. R) \cup E
           K == P \ U
           E2 == 1 .. e - 1
           U2 == (z + 1 .. R) \cup E2
           K2 == P \ U2
           g == [p \in 1 .. R |-> IF p = e THEN i ELSE IF p = i THEN e ELSE p]
           N == {}
<1>1. R \in Nat /\ e \in Nat /\ z \in Nat
  BY Fields, InRange DEF HeapOK, RSize
<1>2. /\ SameButSet(m, k, a) /\ (Remembered(k, a) <=> Remembered(m, a))
      /\ k.ephemerons = e - 1 /\ k.previousSize = z /\ RSize(k) = R
      /\ \A p \in P : k.rememberedSet[p] = IF p = e THEN a ELSE IF p = i THEN s[e] ELSE s[p]
  BY SMTT(60), <1>1, LastEphemeronFacts
<1>3. Loop(m, P, from, U, C, mapped, P, E, K)
  BY DEF Walked
<1>4. /\ i \in P /\ e \in P /\ E \subseteq P /\ E2 \subseteq P /\ U \subseteq P /\ U2 \subseteq P /\ K2 \subseteq P
      /\ E2 \subseteq E
  BY SMTT(60), <1>1
<1>5. /\ \A p \in P : g[p] \in P /\ g[g[p]] = p /\ k.rememberedSet[p] = s[g[p]]
      /\ \A q \in U : q # i => g[q] \in U2
      /\ \A p \in E2 : g[p] \in E
      /\ \A p \in K2 : g[p] \in K \/ p = e
  <2>1. \A p \in P : g[p] = IF p = e THEN i ELSE IF p = i THEN e ELSE p
    OBVIOUS
  <2> HIDE DEF g
  <2>2. \A p \in P : g[p] \in P /\ g[g[p]] = p
    BY <1>1, <1>4, <2>1
  <2>3. \A p \in P : k.rememberedSet[p] = s[g[p]]
    BY <1>2, <1>4, <2>1
  <2>4. \A q \in U : q # i => g[q] \in U2
    BY <1>1, <1>4, <2>1
  <2>5. \A p \in E2 : g[p] \in E
    BY <1>1, <1>4, <2>1
  <2>6. \A p \in K2 : g[p] \in K \/ p = e
    BY <1>1, <1>4, <2>1
  <2> QED
    BY <2>2, <2>3, <2>4, <2>5, <2>6
<1>6. k.rememberedSet[e] = a
  BY <1>2, <1>4
<1> HIDE DEF P, U, K, E, U2, K2, E2, g
<1>7. Positioned(m, k, g, g, N, P, U, P, E, K, P, U2, P, E2, K2)
  <2>1. P \subseteq 1 .. Len(k.rememberedSet)
    BY <1>2 DEF RSize, P
  <2>2. /\ \A p \in P : g[p] \in P \ N /\ g[g[p]] = p /\ k.rememberedSet[p] = m.rememberedSet[g[p]]
        /\ \A q \in P \ N : g[q] \in P /\ g[g[q]] = q
    BY <1>5
  <2>3. \A q \in U \ N : g[q] \in U2 \/ Done(m, m.rememberedSet[q])
    BY <1>5
  <2>4. \A q \in P \ N : g[q] \in P
    BY <1>5
  <2>5. \A p \in K2 : g[p] \in K \/ IsKind(m, k.rememberedSet[p], "weak") \/ HasNew(m, k.rememberedSet[p])
    BY <1>5, <1>6
  <2> QED
    BY <1>4, <1>5, <2>1, <2>2, <2>3, <2>4, <2>5 DEF Positioned
<1>8. Loop(k, P, from, U2, C, mapped, P, E2, K2)
  <2>1. Remembered(m, a)
    <3>1. a \in Members(m, P)
      BY <1>4, MemberAt
    <3>2. P \subseteq 1 .. Len(m.rememberedSet) /\ SetsOK(m, P)
      BY <1>3 DEF Loop
    <3> QED
      BY Zenon, <3>1, <3>2, MembersLive
  <2>2. N \subseteq {i} /\ (Remembered(k, a) <=> i \notin N)
        /\ (i \in N => ~RefersToYoung(m, a))
    BY <1>2, <2>1
  <2> HIDE DEF N
  <2> QED
    BY Zenon, <1>2, <1>3, <1>4, <1>7, <2>2, Rearranged
<1> QED
  BY <1>2, <1>8 DEF Walked, P, U2, E2, K2

\* The last of the ephemerons, of the entries scanned before and of all move up to the hole at i.
HoleClosed(m, k, i, e, z, R) ==
    \A p \in 1 .. R - 1 : k.rememberedSet[p] =
        IF p = z THEN m.rememberedSet[R] ELSE IF p = e THEN m.rememberedSet[z]
        ELSE IF p = i THEN m.rememberedSet[e] ELSE m.rememberedSet[p]

\* A hole closed, read both ways: g says where an entry comes from, h where it goes.
HoleMap(g, h, i, e, z, R) ==
    \A p \in 1 .. R :
        /\ g[p] = IF p = z THEN R ELSE IF p = e THEN z ELSE IF p = i THEN e ELSE p
        /\ h[p] = IF p = e THEN i ELSE IF p = z THEN e ELSE IF p = R THEN z ELSE p

\* Each entry but the one at i has a place, and the parts of the set go to the parts that follow them.
LEMMA HoleMaps ==
    ASSUME NEW R \in Nat, NEW z \in Nat, NEW e \in Nat, NEW lo \in Nat, NEW i \in Nat,
           1 <= lo, lo <= i, i <= e, e <= z, z <= R,
           NEW g, NEW h, HoleMap(g, h, i, e, z, R)
    PROVE  /\ \A p \in 1 .. R - 1 : g[p] \in (1 .. R) \ {i} /\ h[g[p]] = p
           /\ \A q \in (1 .. R) \ {i} : h[q] \in 1 .. R - 1 /\ g[h[q]] = q
           /\ \A q \in ((z + 1 .. R) \cup (lo .. e)) \ {i} :
                 h[q] \in (z - 1 + 1 .. R - 1) \cup (lo .. e - 1)
           /\ \A p \in lo .. e - 1 : g[p] \in lo .. e
           /\ \A p \in (1 .. R - 1) \ ((z - 1 + 1 .. R - 1) \cup (lo .. e - 1)) :
                 g[p] \in (1 .. R) \ ((z + 1 .. R) \cup (lo .. e))
<1>1. ASSUME NEW p \in 1 .. R - 1 PROVE g[p] \in (1 .. R) \ {i} /\ h[g[p]] = p
  BY DEF HoleMap
<1>2. ASSUME NEW q \in (1 .. R) \ {i} PROVE h[q] \in 1 .. R - 1 /\ g[h[q]] = q
  BY DEF HoleMap
<1>3. ASSUME NEW q \in ((z + 1 .. R) \cup (lo .. e)) \ {i}
      PROVE  h[q] \in (z - 1 + 1 .. R - 1) \cup (lo .. e - 1)
  BY DEF HoleMap
<1>4. ASSUME NEW p \in lo .. e - 1 PROVE g[p] \in lo .. e
  BY DEF HoleMap
<1>5. ASSUME NEW p \in (1 .. R - 1) \ ((z - 1 + 1 .. R - 1) \cup (lo .. e - 1))
      PROVE  g[p] \in (1 .. R) \ ((z + 1 .. R) \cup (lo .. e))
  BY DEF HoleMap
<1> QED
  BY <1>1, <1>2, <1>3, <1>4, <1>5

\* One that is gone from it; k is the memory it leaves.
LEMMA ForgottenEphemeron ==
    ASSUME NEW m, HeapOK(m), NEW e, e = m.ephemerons, NEW z, z = m.previousSize, NEW R, R = RSize(m),
           NEW lo \in Nat \ {0}, NEW i \in lo .. e, e <= z, z <= R,
           NEW a, a = m.rememberedSet[i], a \in OldAddresses,
           NEW from, NEW C, NEW mapped, Walked(m, from, C, lo .. e, mapped),
           ~IsKind(m, a, "weak"), ~RefersToYoung(m, a),
           NEW k, SameButSet(m, k, a), ~Remembered(k, a),
           k.previousSize = z - 1, RSize(k) = R - 1,
           HoleClosed(m, k, i, e, z, R)
    PROVE  Walked(k, from, C, lo .. e - 1, mapped)
<1> DEFINE s == m.rememberedSet
           P == 1 .. R
           E == lo .. e
           U == (z + 1 .. R) \cup E
           K == P \ U
           P2 == 1 .. R - 1
           E2 == lo .. e - 1
           U2 == (z - 1 + 1 .. R - 1) \cup E2
           K2 == P2 \ U2
           g == [p \in 1 .. R |-> IF p = z THEN R ELSE IF p = e THEN z ELSE IF p = i THEN e ELSE p]
           h == [q \in 1 .. R |-> IF q = e THEN i ELSE IF q = z THEN e ELSE IF q = R THEN z ELSE q]
           N == {i}
<1>1. R \in Nat /\ e \in Nat /\ z \in Nat /\ lo \in Nat /\ lo >= 1 /\ i \in Nat
  BY Fields, InRange DEF HeapOK, RSize
<1>2. Loop(m, P, from, U, C, mapped, P, E, K)
  BY DEF Walked
<1>3. /\ i \in P /\ e \in P /\ E \subseteq P /\ U \subseteq P /\ P2 \subseteq P
      /\ E2 \subseteq P2 /\ U2 \subseteq P2 /\ K2 \subseteq P2
  BY SMTT(60), <1>1
<1>4. /\ \A p \in P2 : g[p] \in P \ N /\ h[g[p]] = p /\ k.rememberedSet[p] = s[g[p]]
      /\ \A q \in P \ N : h[q] \in P2 /\ g[h[q]] = q
      /\ \A q \in U \ N : h[q] \in U2
      /\ \A p \in E2 : g[p] \in E
      /\ \A p \in K2 : g[p] \in K
  <2>1. HoleMap(g, h, i, e, z, R)
    BY DEF HoleMap
  <2> HIDE DEF g, h
  <2>2. \A p \in P2 : k.rememberedSet[p] = s[g[p]]
    <3>1. \A p \in P2 : p \in P
      BY <1>3
    <3>2. \A p \in P2 : k.rememberedSet[p] =
             IF p = z THEN s[R] ELSE IF p = e THEN s[z] ELSE IF p = i THEN s[e] ELSE s[p]
      BY DEF HoleClosed
    <3> HIDE DEF P, P2, s
    <3> QED
      BY ONLY <2>1, <3>1, <3>2 DEF HoleMap, P
  <2>3. 1 <= lo /\ lo <= i /\ i <= e
    BY SMTT(60), <1>1
  <2>4. /\ \A p \in 1 .. R - 1 : g[p] \in (1 .. R) \ {i} /\ h[g[p]] = p
        /\ \A q \in (1 .. R) \ {i} : h[q] \in 1 .. R - 1 /\ g[h[q]] = q
        /\ \A q \in ((z + 1 .. R) \cup (lo .. e)) \ {i} :
              h[q] \in (z - 1 + 1 .. R - 1) \cup (lo .. e - 1)
        /\ \A p \in lo .. e - 1 : g[p] \in lo .. e
        /\ \A p \in (1 .. R - 1) \ ((z - 1 + 1 .. R - 1) \cup (lo .. e - 1)) :
              g[p] \in (1 .. R) \ ((z + 1 .. R) \cup (lo .. e))
    <3>1. e <= z /\ z <= R
      OBVIOUS
    <3> QED
      BY ONLY ZenonT(60), <1>1, <2>1, <2>3, <3>1, HoleMaps
  <2> QED
    BY Zenon, <2>2, <2>4 DEF P, N, E, U, K, P2, E2, U2, K2
<1>5. a = s[i]
  OBVIOUS
<1> HIDE DEF P, U, K, E, P2, U2, K2, E2, g, h, s
<1>6. Positioned(m, k, g, h, N, P, U, P, E, K, P2, U2, P2, E2, K2)
  <2>1. P2 \subseteq 1 .. Len(k.rememberedSet)
    BY DEF RSize, P2
  <2> HIDE DEF N
  <2> QED
    BY <1>3, <1>4, <2>1 DEF Positioned, s
<1>7. Loop(k, P2, from, U2, C, mapped, P2, E2, K2)
  <2>1. N \subseteq {i} /\ (Remembered(k, a) <=> i \notin N)
        /\ (i \in N => ~RefersToYoung(m, a))
    OBVIOUS
  <2> HIDE DEF N
  <2>2. a = m.rememberedSet[i] /\ i \in P
    BY <1>3
  <2> QED
    BY Zenon, <1>2, <1>6, <2>1, <2>2, Rearranged
<1> QED
  BY <1>7 DEF Walked, P2, U2, E2, K2

\* The ephemerons of the remembered set that are still to look at.
EphemeronsLeft(m, lo) == Walked(m, at.previous, Range(m.ephemeronList), lo .. m.ephemerons, TRUE)

\* The parts of the invariant that hold all through the walks over ephemerons.
InOrder(m) ==
    /\ HeapOK(m) /\ Held(m, roots, TRUE)
    /\ m.ephemerons \in Nat /\ m.previousSize \in Nat /\ RSize(m) \in Nat
    /\ m.ephemerons <= m.previousSize /\ m.previousSize <= RSize(m)
    /\ at.previous \in FutureStart(m) .. m.survivorStart
    /\ Cardinality(Objects(m)) = Cardinality(Objects(mem))

\* What the invariant says of the ephemeron that a walk over the remembered set is at.
LEMMA EphemeronAt ==
    ASSUME Inv, NEW lo, (pc = "unfired" /\ lo = 1) \/ (pc = "fire" /\ lo = at.i), at.i <= mem.ephemerons,
           NEW a, a = mem.rememberedSet[at.i]
    PROVE  /\ InOrder(mem) /\ EphemeronsLeft(mem, lo) /\ at \in Walks
           /\ at.i \in lo .. mem.ephemerons /\ at.dest = 1 /\ at.todo = <<>> /\ at.kept = <<>> /\ lo \in Nat \ {0}
           /\ a \in OldAddresses /\ Live(mem, a) /\ Size(mem, a) >= 1
           /\ Cell(mem, a).kind \in {"ephemeron", "plain"}
<1>1. pc \in Walking
  BY DEF Walking
<1>2. /\ Walked(mem, FromAt(mem, pc, at), CorpsesAt(mem, at), EphemeronsAt(mem, pc, at), MappedAt(pc, at))
      /\ Held(mem, roots, MappedAt(pc, at))
      /\ at \in Walks /\ Numbers(mem, pc, at) /\ HeapOK(mem) /\ mem \in Memories
      /\ RSize(mem) \in Nat /\ mem.ephemerons \in Nat
      /\ mem.previousSize \in Nat
      /\ mem.previousSize <= RSize(mem) /\ mem.ephemerons <= mem.previousSize
      /\ at.previous \in FutureStart(mem) .. mem.survivorStart
  BY <1>1, InvWalked
<1>3. at.i \in Nat \ {0}
  BY <1>2, WalkFields
<1>4. at.dest = 1 /\ at.todo = <<>> /\ at.kept = <<>>
  BY <1>2 DEF Numbers
<1>5. /\ FromAt(mem, pc, at) = at.previous /\ MappedAt(pc, at) = TRUE
      /\ EphemeronsAt(mem, pc, at) = lo .. mem.ephemerons
  BY DEF FromAt, MappedAt, EphemeronsAt, Ends
<1>6. CorpsesAt(mem, at) = Range(mem.ephemeronList)
  BY <1>4, NoRange DEF CorpsesAt
<1>7. InOrder(mem) /\ EphemeronsLeft(mem, lo)
  BY Zenon, <1>2, <1>5, <1>6 DEF InOrder, EphemeronsLeft
<1>8. at.i \in lo .. mem.ephemerons /\ at.i \in 1 .. RSize(mem) /\ lo \in Nat \ {0}
  BY <1>2, <1>3
<1> DEFINE P == 1 .. RSize(mem)
           E == lo .. mem.ephemerons
           U == (mem.previousSize + 1 .. RSize(mem)) \cup E
           C == Range(mem.ephemeronList)
           K == P \ U
<1>9. Loop(mem, P, at.previous, U, C, TRUE, P, E, K)
  BY Zenon, <1>7 DEF EphemeronsLeft, Walked
<1>10. at.i \in P /\ at.i \in E
  BY <1>8
<1> HIDE DEF P, E, U, C, K
<1>11. P \subseteq 1 .. Len(mem.rememberedSet) /\ SetsOK(mem, P) /\ EphemeronsOK(mem, E)
  BY <1>9 DEF Loop
<1>12. a \in OldAddresses /\ Live(mem, a)
  BY Zenon, <1>2, <1>10, <1>11, MemberAt, MembersLive
<1>13. Size(mem, a) >= 1 /\ Cell(mem, a).kind \in {"ephemeron", "plain"}
  BY <1>10, <1>11 DEF EphemeronsOK
<1> QED
  BY <1>2, <1>4, <1>7, <1>8, <1>12, <1>13

\* After a turn of a loop over the ephemerons of the remembered set.
LEMMA EphemeronInv ==
    ASSUME Inv, NEW lo, NEW k, NEW w \in Walks, Step(k, pc, w),
           (pc = "unfired" /\ lo = 1) \/ (pc = "fire" /\ lo = w.i),
           w.dest = 1, w.previous = at.previous, w.todo = <<>>, w.kept = <<>>,
           InOrder(k), EphemeronsLeft(k, lo)
    PROVE  Inv'
<1>1. pc \in Walking /\ w.i \in Nat \ {0}
  BY WalkFields DEF Walking
<1>2. /\ FromAt(k, pc, w) = at.previous /\ MappedAt(pc, w) = TRUE
      /\ EphemeronsAt(k, pc, w) = lo .. k.ephemerons
  BY DEF FromAt, MappedAt, EphemeronsAt, Ends
<1>3. CorpsesAt(k, w) = Range(k.ephemeronList)
  BY NoRange DEF CorpsesAt
<1>4. Numbers(k, pc, w)
  BY <1>1 DEF Numbers, Pcs, Walking, Ends, InOrder
<1>5. Walked(k, FromAt(k, pc, w), CorpsesAt(k, w), EphemeronsAt(k, pc, w), MappedAt(pc, w))
  BY Zenon, <1>2, <1>3 DEF EphemeronsLeft
<1>6. Held(k, roots, MappedAt(pc, w)) /\ Cardinality(Objects(k)) = Cardinality(Objects(mem))
  BY Zenon, <1>2 DEF InOrder
<1> QED
  BY <1>1, <1>4, <1>5, <1>6, WalkedInv

\* n is a memory in which the ephemeron at a, at i in the remembered set, has been scanned.
AfterScan(n, lo, i, a) ==
    /\ InOrder(n) /\ EphemeronsLeft(n, lo) /\ n.rememberedSet[i] = a /\ i <= n.ephemerons
    /\ a \in OldAddresses /\ Done(n, a)
    /\ KeepsNew(n, a) => IsKind(n, a, "weak") \/ HasNew(n, a)
    /\ ~KeepsNew(n, a) => ~IsKind(n, a, "weak") /\ ~RefersToYoung(n, a)

\* Another remembered set leaves the parts of the invariant that do not speak of it.
LEMMA SameInOrder ==
    ASSUME NEW m, InOrder(m), NEW a \in OldAddresses, NEW n, SameButSet(m, n, a), n.mournQueue = m.mournQueue,
           n.ephemerons \in Nat, n.previousSize \in Nat, RSize(n) \in Nat,
           n.ephemerons <= n.previousSize, n.previousSize <= RSize(n)
    PROVE  InOrder(n) /\ n.ephemeronList = m.ephemeronList
<1>1. HeapOK(n) /\ Objects(n) = Objects(m)
  BY SameButSetFacts DEF InOrder
<1>2. Held(n, roots, TRUE)
  BY Zenon, HeldSame DEF InOrder
<1>3. FutureStart(n) = FutureStart(m) /\ n.survivorStart = m.survivorStart /\ n.ephemeronList = m.ephemeronList
  BY DEF SameButSet, SameLists, FutureStart
<1> QED
  BY Zenon, <1>1, <1>2, <1>3 DEF InOrder

\* One that is forgotten, before or after it leaves the set.
LEMMA ForgetEphemeron ==
    ASSUME NEW n, NEW lo \in Nat \ {0}, NEW i \in Nat, i >= lo, NEW a, AfterScan(n, lo, i, a), ~KeepsNew(n, a),
           NEW k, \/ k = SetRemembered(RemoveLastEphemeronAndMoveTo(n, i), a, FALSE)
                  \/ k = RemoveLastEphemeronAndMoveTo(SetRemembered(n, a, FALSE), i)
    PROVE  InOrder(k) /\ EphemeronsLeft(k, lo)
<1> DEFINE e == n.ephemerons
           z == n.previousSize
           R == RSize(n)
           s == n.rememberedSet
<1>1. /\ HeapOK(n) /\ e \in Nat /\ z \in Nat /\ R \in Nat /\ e <= z /\ z <= R /\ i \in 1 .. e /\ a \in OldAddresses
      /\ i \in lo .. e
  BY DEF AfterScan, InOrder
<1>2. /\ SameButSet(n, k, a) /\ ~Remembered(k, a) /\ k.mournQueue = n.mournQueue
      /\ k.ephemerons = e - 1 /\ k.previousSize = z - 1 /\ RSize(k) = R - 1
      /\ \A p \in 1 .. R - 1 : k.rememberedSet[p] =
            IF p = z THEN s[R] ELSE IF p = e THEN s[z] ELSE IF p = i THEN s[e] ELSE s[p]
  <2>1. CASE k = SetRemembered(RemoveLastEphemeronAndMoveTo(n, i), a, FALSE)
    <3> DEFINE m == RemoveLastEphemeronAndMoveTo(n, i)
    <3>1. k = SetRemembered(m, a, FALSE) /\ m = RemoveLastEphemeronAndMoveTo(n, i)
      BY <2>1
    <3> HIDE DEF m
    <3>2. /\ SameButSet(n, m, a) /\ m.mournQueue = n.mournQueue
          /\ m.ephemerons = e - 1 /\ m.previousSize = z - 1 /\ RSize(m) = R - 1
          /\ \A p \in 1 .. R - 1 : m.rememberedSet[p] =
                IF p = z THEN s[R] ELSE IF p = e THEN s[z] ELSE IF p = i THEN s[e] ELSE s[p]
      BY <1>1, <3>1, MovedToFacts
    <3>3. HeapOK(m)
      BY <1>1, <3>2, SameButSetFacts
    <3>4. /\ SameButSet(m, k, a) /\ ~Remembered(k, a)
          /\ k.rememberedSet = m.rememberedSet /\ k.mournQueue = m.mournQueue
          /\ k.ephemerons = m.ephemerons /\ k.previousSize = m.previousSize
      BY ZenonT(60), <1>1, <3>1, <3>3, ForgottenFacts
    <3>5. SameButSet(n, k, a)
      BY <3>2, <3>4 DEF SameButSet, SameLists
    <3> QED
      BY <3>2, <3>4, <3>5 DEF RSize
  <2>2. CASE k = RemoveLastEphemeronAndMoveTo(SetRemembered(n, a, FALSE), i)
    <3> DEFINE m == SetRemembered(n, a, FALSE)
    <3>1. m = SetRemembered(n, a, FALSE) /\ k = RemoveLastEphemeronAndMoveTo(m, i)
      BY <2>2
    <3> HIDE DEF m
    <3>2. /\ SameButSet(n, m, a) /\ ~Remembered(m, a)
          /\ m.rememberedSet = n.rememberedSet /\ m.mournQueue = n.mournQueue
          /\ m.ephemerons = n.ephemerons /\ m.previousSize = n.previousSize
      BY Zenon, <1>1, <3>1, ForgottenFacts
    <3>3. HeapOK(m) /\ RSize(m) = R
      BY <1>1, <3>2, SameButSetFacts DEF RSize
    <3>4. e = m.ephemerons /\ z = m.previousSize /\ R = RSize(m) /\ m.rememberedSet = s
      BY <3>2, <3>3
    <3> HIDE DEF e, z, R, s
    <3>9. /\ HeapOK(m) /\ e = m.ephemerons /\ z = m.previousSize /\ R = RSize(m)
          /\ i \in 1 .. e /\ e <= z /\ z <= R /\ a \in OldAddresses
          /\ k = RemoveLastEphemeronAndMoveTo(m, i)
      BY Zenon, <1>1, <3>1, <3>3, <3>4
    <3>5. /\ SameButSet(m, k, a) /\ (Remembered(k, a) <=> Remembered(m, a)) /\ k.mournQueue = m.mournQueue
          /\ k.ephemerons = e - 1 /\ k.previousSize = z - 1 /\ RSize(k) = R - 1
          /\ \A p \in 1 .. R - 1 : k.rememberedSet[p] =
                IF p = z THEN m.rememberedSet[R] ELSE IF p = e THEN m.rememberedSet[z]
                ELSE IF p = i THEN m.rememberedSet[e] ELSE m.rememberedSet[p]
      BY <3>9, MovedToFacts
    <3>6. SameButSet(n, k, a)
      BY <3>2, <3>5 DEF SameButSet, SameLists
    <3> QED
      BY <3>2, <3>4, <3>5, <3>6
  <2> QED
    BY Zenon, <2>1, <2>2
<1>3. InOrder(k) /\ k.ephemeronList = n.ephemeronList
  <2>1. /\ InOrder(n) /\ k.ephemerons \in Nat /\ k.previousSize \in Nat /\ RSize(k) \in Nat
        /\ k.ephemerons <= k.previousSize /\ k.previousSize <= RSize(k)
    BY <1>1, <1>2 DEF AfterScan
  <2> QED
    BY <1>1, <1>2, <2>1, SameInOrder
<1>4. Walked(k, at.previous, Range(n.ephemeronList), lo .. e - 1, TRUE)
  <2>1. /\ Walked(n, at.previous, Range(n.ephemeronList), lo .. e, TRUE) /\ a = n.rememberedSet[i]
        /\ ~IsKind(n, a, "weak") /\ ~RefersToYoung(n, a)
    BY Zenon DEF AfterScan, EphemeronsLeft
  <2>2. e = n.ephemerons /\ z = n.previousSize /\ R = RSize(n) /\ s = n.rememberedSet
    OBVIOUS
  <2> DEFINE L == Range(n.ephemeronList)
             y == at.previous
             T == TRUE
  <2>3. Walked(n, y, L, lo .. e, T)
    BY Zenon, <2>1
  <2> HIDE DEF e, z, R, s, L, y, T
  <2>4. /\ HeapOK(n) /\ e = n.ephemerons /\ z = n.previousSize /\ R = RSize(n)
        /\ i \in lo .. e /\ e <= z /\ z <= R /\ a = n.rememberedSet[i] /\ a \in OldAddresses
        /\ ~IsKind(n, a, "weak") /\ ~RefersToYoung(n, a)
        /\ SameButSet(n, k, a) /\ ~Remembered(k, a)
        /\ k.previousSize = z - 1 /\ RSize(k) = R - 1
    BY <1>1, <1>2, <2>1, <2>2
  <2>5. HoleClosed(n, k, i, e, z, R)
    BY <1>2, <2>2 DEF HoleClosed
  <2>6. Walked(k, y, L, lo .. e - 1, T)
    BY Zenon, <2>3, <2>4, <2>5, ForgottenEphemeron
  <2> QED
    BY Zenon, <2>6 DEF y, L, T
<1> QED
  BY Zenon, <1>2, <1>3, <1>4 DEF EphemeronsLeft

\* Scanning a live object keeps the state Walked, and that state is all it needs.
LEMMA WalkedOn ==
    ASSUME NEW m, NEW from, NEW C, NEW E, NEW mapped, Walked(m, from, C, E, mapped),
           m.previousSize <= RSize(m), E \subseteq 1 .. m.previousSize,
           NEW a, Live(m, a)
    PROVE  LET n == ScavengeReferentsOf(m, a) IN
           HeapOK(n) /\ Grows(m, n) /\ Walked(n, from, C \cup Range(n.ephemeronList), E, mapped)
<1> DEFINE n == ScavengeReferentsOf(m, a)
<1>1. n = ScavengeReferentsOf(m, a)
  OBVIOUS
<1> HIDE DEF n
<1>2. HeapOK(n) /\ Grows(m, n)
  BY Zenon, <1>1, WalkedScan
<1>3. Walked(n, from, C \cup Range(n.ephemeronList), E, mapped)
  BY Zenon, <1>1, WalkedScan
<1> QED
  BY <1>2, <1>3 DEF n

\* The scan of a member of the remembered set, in the memory m after what came before it.
LEMMA ScanEphemeron ==
    ASSUME NEW m, InOrder(m), NEW lo, EphemeronsLeft(m, lo), lo \in Nat \ {0}, NEW i, i \in lo .. m.ephemerons,
           NEW a, a = m.rememberedSet[i], a \in OldAddresses, Live(m, a), ~IsUnfired(m, a),
           NEW n, n = ScavengeReferentsOf(m, a)
    PROVE  AfterScan(n, lo, i, a)
<1> DEFINE C == Range(m.ephemeronList)
           E == lo .. m.ephemerons
           y == at.previous
           D == C \cup Range(n.ephemeronList)
<1>1. /\ HeapOK(m) /\ m.ephemerons \in Nat /\ m.previousSize \in Nat /\ RSize(m) \in Nat
      /\ m.ephemerons <= m.previousSize /\ m.previousSize <= RSize(m)
      /\ y \in FutureStart(m) .. m.survivorStart
      /\ Cardinality(Objects(m)) = Cardinality(Objects(mem))
      /\ Held(m, roots, TRUE)
  BY Zenon DEF InOrder
<1>2. Walked(m, y, C, E, TRUE) /\ E \subseteq 1 .. m.previousSize /\ i \in 1 .. RSize(m) /\ i <= m.ephemerons
  <2>1. Walked(m, y, C, E, TRUE)
    BY DEF EphemeronsLeft
  <2>2. E \subseteq 1 .. m.previousSize /\ i \in 1 .. RSize(m) /\ i <= m.ephemerons
    <3>1. lo \in Nat \ {0} /\ i \in lo .. m.ephemerons
      OBVIOUS
    <3> QED
      BY <1>1, <3>1
  <2> QED
    BY Zenon, <2>1, <2>2
<1> HIDE DEF C, E, y, D
<1>3. /\ HeapOK(n) /\ Grows(m, n)
      /\ Walked(n, y, C \cup Range(n.ephemeronList), E, TRUE)
      /\ \A p \in 1 .. RSize(m) : n.rememberedSet[p] = m.rememberedSet[p]
      /\ RSize(n) \in Nat /\ RSize(n) >= RSize(m)
      /\ n.previousSize = m.previousSize /\ n.ephemerons = m.ephemerons
      /\ Range(m.ephemeronList) \subseteq Range(n.ephemeronList)
      /\ Done(n, a)
      /\ KeepsNew(n, a) => IsKind(n, a, "weak") \/ HasNew(n, a)
      /\ ~KeepsNew(n, a) => ~IsKind(n, a, "weak") /\ ~RefersToYoung(n, a)
  <2>1. /\ Walked(m, y, C, E, TRUE) /\ m.previousSize <= RSize(m) /\ E \subseteq 1 .. m.previousSize
        /\ Live(m, a) /\ n = ScavengeReferentsOf(m, a)
    BY Zenon, <1>1, <1>2
  <2>2. HeapOK(n) /\ Grows(m, n)
    BY ZenonT(60), <2>1, WalkedOn
  <2>3. Walked(n, y, C \cup Range(n.ephemeronList), E, TRUE)
    BY ZenonT(60), <2>1, WalkedOn
  <2>5. /\ RSize(n) \in Nat /\ RSize(n) >= RSize(m)
        /\ n.previousSize = m.previousSize /\ n.ephemerons = m.ephemerons
        /\ Range(m.ephemeronList) \subseteq Range(n.ephemeronList)
    BY <1>1, <2>2, GrowsCounts
  <2>6. \A p \in 1 .. RSize(m) : n.rememberedSet[p] = m.rememberedSet[p]
    BY <2>2 DEF Grows, Extends, RSize
  <2>4. /\ Done(n, a)
        /\ KeepsNew(n, a) => IsKind(n, a, "weak") \/ HasNew(n, a)
        /\ ~KeepsNew(n, a) => ~IsKind(n, a, "weak") /\ ~RefersToYoung(n, a)
    BY ZenonT(60), <2>1, WalkedScan
  <2> QED
    BY Zenon, <2>2, <2>3, <2>4, <2>5, <2>6
<1>4. /\ FutureStart(n) = FutureStart(m) /\ FutureStart(m) \in Nat
      /\ m.survivorStart \in Nat /\ n.survivorStart \in Nat /\ n.survivorStart >= m.survivorStart
      /\ Cardinality(Objects(n)) = Cardinality(Objects(m))
  BY <1>1, <1>3, GrowsCounts
<1>5. Held(n, roots, TRUE)
  BY Zenon, <1>1, <1>3, HeldGrows
<1>6. y \in FutureStart(n) .. n.survivorStart
  BY <1>1, <1>4
<1>7. InOrder(n)
  <2>1. /\ n.ephemerons \in Nat /\ n.previousSize \in Nat /\ RSize(n) \in Nat
        /\ n.ephemerons <= n.previousSize /\ n.previousSize <= RSize(n)
        /\ Cardinality(Objects(n)) = Cardinality(Objects(mem))
    BY <1>1, <1>3, <1>4
  <2> QED
    BY Zenon, <1>3, <1>5, <1>6, <2>1 DEF InOrder, y
<1>8. D = Range(n.ephemeronList) /\ Walked(n, y, D, E, TRUE)
  BY Zenon, <1>3 DEF C, D
<1>9. EphemeronsLeft(n, lo)
  BY Zenon, <1>3, <1>8 DEF EphemeronsLeft, y, E
<1>10. n.rememberedSet[i] = a /\ i <= n.ephemerons
  BY <1>1, <1>2, <1>3
<1> QED
  BY <1>3, <1>7, <1>9, <1>10 DEF AfterScan

\* A scanned ephemeron that still refers to young objects goes behind the others.
LEMMA KeepEphemeron ==
    ASSUME NEW n, NEW i \in Nat \ {0}, NEW a, AfterScan(n, 1, i, a), KeepsNew(n, a),
           NEW k, k = RemoveLastEphemeronTo(n, i, a)
    PROVE  InOrder(k) /\ EphemeronsLeft(k, 1)
<1> DEFINE e == n.ephemerons
           z == n.previousSize
           R == RSize(n)
<1>1. /\ HeapOK(n) /\ e \in Nat /\ z \in Nat /\ R \in Nat /\ e <= z /\ z <= R /\ i \in 1 .. e /\ a \in OldAddresses
      /\ e <= RSize(n) /\ a = n.rememberedSet[i]
  BY DEF AfterScan, InOrder
<1>2. /\ SameButSet(n, k, a) /\ k.mournQueue = n.mournQueue
      /\ k.ephemerons = e - 1 /\ k.previousSize = z /\ RSize(k) = R
  BY <1>1, LastEphemeronFacts
<1>3. InOrder(k) /\ k.ephemeronList = n.ephemeronList
  <2>1. /\ InOrder(n) /\ k.ephemerons \in Nat /\ k.previousSize \in Nat /\ RSize(k) \in Nat
        /\ k.ephemerons <= k.previousSize /\ k.previousSize <= RSize(k)
    BY <1>1, <1>2 DEF AfterScan
  <2> QED
    BY <1>1, <1>2, <2>1, SameInOrder
<1>4. Walked(k, at.previous, Range(n.ephemeronList), 1 .. e - 1, TRUE)
  <2> DEFINE L == Range(n.ephemeronList)
             y == at.previous
             T == TRUE
  <2>1. Walked(n, y, L, 1 .. e, T) /\ Done(n, a) /\ (IsKind(n, a, "weak") \/ HasNew(n, a))
    BY Zenon DEF AfterScan, EphemeronsLeft
  <2>2. e = n.ephemerons /\ z = n.previousSize /\ R = RSize(n)
    OBVIOUS
  <2> HIDE DEF e, z, R, L, y, T
  <2>3. Walked(k, y, L, 1 .. e - 1, T)
    BY Zenon, <1>1, <2>1, <2>2, KeptEphemeron
  <2> QED
    BY Zenon, <2>3 DEF y, L, T
<1> QED
  BY Zenon, <1>2, <1>3, <1>4 DEF EphemeronsLeft

\* A place with another flag, field by field.
LEMMA ScannedFields ==
    ASSUME NEW w \in Walks, NEW b \in BOOLEAN, NEW v, v = [w EXCEPT !.scanned = b]
    PROVE  /\ v \in Walks /\ v.i = w.i /\ v.dest = w.dest /\ v.previous = w.previous
           /\ v.firstTime = w.firstTime /\ v.todo = w.todo /\ v.kept = w.kept
<1> QED
  BY Zenon DEF Walks

\* The step ScavengeUnfiredInRememberedSet preserves the invariant.
LEMMA ScavengeUnfiredInRememberedSetInv ==
    ASSUME Inv, ScavengeUnfiredInRememberedSet
    PROVE  Inv'
<1> DEFINE a == mem.rememberedSet[at.i]
           n == ScavengeReferentsOf(mem, a)
           w == [at EXCEPT !.scanned = TRUE]
           o == 1
<1>1. pc = "unfired" /\ at.i <= mem.ephemerons
  BY DEF ScavengeUnfiredInRememberedSet
<1>2. IF IsUnfired(mem, a) THEN Step(mem, "unfired", Next1)
      ELSE IF KeepsNew(n, a)
      THEN Step(RemoveLastEphemeronTo(n, at.i, a), "unfired", w)
      ELSE Step(SetRemembered(RemoveLastEphemeronAndMoveTo(n, at.i), a, FALSE), "unfired", w)
  BY Zenon DEF ScavengeUnfiredInRememberedSet
<1>3. a = mem.rememberedSet[at.i] /\ n = ScavengeReferentsOf(mem, a) /\ w = [at EXCEPT !.scanned = TRUE] /\ o = 1
  OBVIOUS
<1> HIDE DEF a, n, w, o
<1>4. /\ InOrder(mem) /\ EphemeronsLeft(mem, o) /\ at \in Walks
      /\ at.i \in o .. mem.ephemerons /\ at.dest = 1 /\ at.todo = <<>> /\ at.kept = <<>> /\ o \in Nat \ {0}
      /\ a \in OldAddresses /\ Live(mem, a)
  BY <1>1, <1>3, EphemeronAt
<1>5. at.i \in Nat \ {0}
  BY <1>4, WalkFields
<1>6. /\ w \in Walks /\ w.dest = 1 /\ w.previous = at.previous /\ w.todo = <<>> /\ w.kept = <<>>
  BY Zenon, <1>3, <1>4, ScannedFields
<1>7. CASE IsUnfired(mem, a)
  <2> DEFINE v == Next1
  <2>1. /\ v \in Walks /\ v.i = at.i + 1 /\ v.dest = 1 /\ v.previous = at.previous
        /\ v.todo = <<>> /\ v.kept = <<>> /\ Step(mem, pc, v)
    BY <1>1, <1>2, <1>4, <1>7, NextFields
  <2> HIDE DEF v
  <2> QED
    BY <1>1, <1>3, <1>4, <2>1, EphemeronInv
<1>8. CASE ~IsUnfired(mem, a)
  <2>1. AfterScan(n, o, at.i, a)
    BY <1>3, <1>4, <1>8, ScanEphemeron
  <2>2. CASE KeepsNew(n, a)
    <3> DEFINE k == RemoveLastEphemeronTo(n, at.i, a)
    <3>1. Step(k, pc, w) /\ k = RemoveLastEphemeronTo(n, at.i, a)
      BY <1>1, <1>2, <1>8, <2>2
    <3> HIDE DEF k
    <3>2. InOrder(k) /\ EphemeronsLeft(k, o)
      BY <1>3, <1>5, <2>1, <2>2, <3>1, KeepEphemeron
    <3> QED
      BY Zenon, <1>1, <1>3, <1>6, <3>1, <3>2, EphemeronInv
  <2>3. CASE ~KeepsNew(n, a)
    <3> DEFINE k == SetRemembered(RemoveLastEphemeronAndMoveTo(n, at.i), a, FALSE)
    <3>1. Step(k, pc, w) /\ k = SetRemembered(RemoveLastEphemeronAndMoveTo(n, at.i), a, FALSE)
      BY Zenon, <1>1, <1>2, <1>8, <2>3
    <3> HIDE DEF k
    <3>2. InOrder(k) /\ EphemeronsLeft(k, o)
      <4>1. at.i \in Nat /\ at.i >= o /\ o \in Nat \ {0}
        BY <1>3, <1>5
      <4> QED
        BY Zenon, <2>1, <2>3, <3>1, <4>1, ForgetEphemeron
    <3> QED
      BY Zenon, <1>1, <1>3, <1>6, <3>1, <3>2, EphemeronInv
  <2> QED
    BY <2>2, <2>3
<1> QED
  BY <1>7, <1>8

\* n is m with the ephemeron at e fired.
Fires(m, n, e) ==
    /\ n \in Memories /\ SameLists(m, n)
    /\ n.past = m.past /\ n.survivorStart = m.survivorStart /\ n.freeStart = m.freeStart
    /\ n.permToNew = m.permToNew /\ n.permToOld = m.permToOld /\ n.criterion = m.criterion
    /\ n.rememberedSet = m.rememberedSet /\ n.ephemerons = m.ephemerons /\ n.previousSize = m.previousSize
    /\ n.mournQueue = Append(m.mournQueue, e)
    /\ \A x \in Addresses : /\ n.heap[x].slots = m.heap[x].slots /\ n.heap[x].bits = m.heap[x].bits
                            /\ x # e => n.heap[x].kind = m.heap[x].kind
    /\ n.heap[e].kind = "plain"

\* Firing an ephemeron, field by field.
LEMMA FireFacts ==
    ASSUME NEW m \in Memories, NEW e \in Addresses, NEW n, n = FireEphemeron(m, e)
    PROVE  Fires(m, n, e)
<1> DEFINE h == [m.heap EXCEPT ![e].kind = "plain"]
           q == Append(m.mournQueue, e)
           c == m.finalizations + 1
<1>1. m.heap \in [Addresses -> Cells] /\ "plain" \in Kinds /\ c \in Nat
  BY Fields, NewKind
<1>2. m.heap[e] \in Cells
  BY <1>1
<1>3. h \in [Addresses -> Cells]
  BY <1>1, <1>2 DEF Cells
<1>4. q \in Seq(Addresses)
  BY Fields, AppendRange
<1>5. n = [m EXCEPT !.mournQueue = q, !.heap = h, !.finalizations = c]
  BY DEF FireEphemeron, Memories
<1>6. /\ \A x \in Addresses : /\ h[x].slots = m.heap[x].slots /\ h[x].bits = m.heap[x].bits
                              /\ x # e => h[x].kind = m.heap[x].kind
      /\ h[e].kind = "plain"
  BY <1>1, <1>2 DEF Cells
<1> HIDE DEF h, q, c
<1>7. n \in Memories
  BY ZenonT(60), <1>1, <1>3, <1>4, <1>5 DEF Memories
<1>8. n.heap = h /\ n.mournQueue = q
  BY <1>5 DEF Memories
<1>9. /\ SameLists(m, n)
      /\ n.past = m.past /\ n.survivorStart = m.survivorStart /\ n.freeStart = m.freeStart
      /\ n.permToNew = m.permToNew /\ n.permToOld = m.permToOld /\ n.criterion = m.criterion
      /\ n.rememberedSet = m.rememberedSet /\ n.ephemerons = m.ephemerons /\ n.previousSize = m.previousSize
  BY <1>5 DEF Memories, SameLists
<1> QED
  BY <1>6, <1>7, <1>8, <1>9 DEF Fires, q

\* Firing an ephemeron leaves the heap in order, and all but its kind as it was.
LEMMA FireHeapOK ==
    ASSUME NEW m, HeapOK(m), NEW e, Live(m, e), Cell(m, e).kind \in {"ephemeron", "plain"},
           NEW n, Fires(m, n, e)
    PROVE  /\ HeapOK(n) /\ e \in Addresses
           /\ \A x : InSource(n, x) <=> InSource(m, x)
           /\ \A x : InFuture(n, x) <=> InFuture(m, x)
           /\ \A x : Settled(n, x) <=> Settled(m, x)
           /\ \A x : Used(n, x) <=> Used(m, x)
           /\ \A x : Live(n, x) <=> Live(m, x)
           /\ \A x : Ref(n, x) <=> Ref(m, x)
           /\ \A x : x \in Oops => FollowForwarded(n, x) = FollowForwarded(m, x)
           /\ \A x \in Addresses :
                 /\ Size(n, x) = Size(m, x) /\ SlotIndices(n, x) = SlotIndices(m, x)
                 /\ \A i : Slot(n, x, i) = Slot(m, x, i)
                 /\ x # e => Cell(n, x).kind = Cell(m, x).kind
                 /\ Remembered(n, x) <=> Remembered(m, x)
           /\ IsKind(n, e, "plain")
           /\ Objects(n) = Objects(m)
<1>1. e \in Addresses /\ m \in Memories /\ n \in Memories
  BY DEF HeapOK, Fires, Live, Used
<1>2. /\ FutureStart(n) = FutureStart(m) /\ FutureLimit(n) = FutureLimit(m)
      /\ \A x : InSource(n, x) <=> InSource(m, x)
  BY SameSpaces DEF Fires
<1>3. \A x : InFuture(n, x) <=> InFuture(m, x)
  BY <1>2 DEF InFuture, Fires
<1>4. \A x \in Addresses :
                 /\ Size(n, x) = Size(m, x) /\ SlotIndices(n, x) = SlotIndices(m, x)
                 /\ \A i : Slot(n, x, i) = Slot(m, x, i)
                 /\ x # e => Cell(n, x).kind = Cell(m, x).kind
                 /\ Remembered(n, x) <=> Remembered(m, x)
  BY DEF Cell, Size, SlotIndices, Slot, Remembered, Fires
<1>5. IsKind(n, e, "plain") /\ ~IsKind(m, e, "forwarded") /\ ~IsKind(m, e, "free")
      /\ ~IsKind(n, e, "forwarded") /\ ~IsKind(n, e, "free")
  BY DEF Fires, IsKind, Cell
<1>6. \A x \in Addresses : \A kind : kind # "ephemeron" /\ kind # "plain" => (IsKind(n, x, kind) <=> IsKind(m, x, kind))
  BY <1>4, <1>5 DEF IsKind, Cell
<1>7. \A x : Used(n, x) <=> Used(m, x)
  BY <1>6 DEF Used
<1>8. \A x : (Live(n, x) <=> Live(m, x)) /\ (Ref(n, x) <=> Ref(m, x))
  BY <1>2, <1>7 DEF Live, Ref
<1>9. \A x : x \in Oops => FollowForwarded(n, x) = FollowForwarded(m, x)
  BY <1>4, <1>6 DEF Oops, FollowForwarded
<1>10. \A x : Settled(n, x) <=> Settled(m, x)
  BY <1>3 DEF Settled
<1>11. ASSUME NEW x \in Addresses PROVE CellOK(n, x)
  <2>1. CellOK(m, x)
    BY DEF HeapOK
  <2>2. /\ Cell(n, x).bits = Cell(m, x).bits /\ n.criterion = m.criterion /\ n.survivorStart = m.survivorStart
    BY DEF Fires, Cell
  <2>3. IsKind(n, x, "ephemeron") => IsKind(m, x, "ephemeron")
    BY <1>4, <1>5 DEF IsKind, Cell
  <2> QED
    BY <1>2, <1>3, <1>4, <1>6, <1>8, <2>1, <2>2, <2>3 DEF CellOK
<1>12. Objects(n) = Objects(m)
  <2>1. 1 .. PermStart - 1 \subseteq Addresses
    BY Layout
  <2>2. \A x \in Addresses : Cell(n, x).kind \notin {"free", "forwarded"} <=> Cell(m, x).kind \notin {"free", "forwarded"}
    BY <1>4, <1>5 DEF IsKind, Cell
  <2> QED
    BY <2>1, <2>2 DEF Objects
<1>13. HeapOK(n)
  BY <1>1, <1>2, <1>11, <1>12 DEF HeapOK, Fires
<1> QED
  BY <1>1, <1>2, <1>3, <1>4, <1>5, <1>7, <1>8, <1>9, <1>10, <1>12, <1>13

\* A fired ephemeron is a mourner.
LEMMA FireHeld ==
    ASSUME NEW m, HeapOK(m), NEW e, Live(m, e), Cell(m, e).kind \in {"ephemeron", "plain"},
           NEW n, Fires(m, n, e), NEW rs, Held(m, rs, TRUE)
    PROVE  Held(n, rs, TRUE)
<1> DEFINE q == m.mournQueue
<1>1. /\ \A x : Live(n, x) <=> Live(m, x)
      /\ \A x \in Addresses : x # e => Cell(n, x).kind = Cell(m, x).kind
      /\ IsKind(n, e, "plain") /\ e \in Addresses
  BY FireHeapOK
<1>2. q \in Seq(Addresses)
  BY Fields DEF HeapOK
<1>3. n.mournQueue = Append(q, e)
  BY DEF Fires
<1>4. \A i \in DOMAIN n.mournQueue : (i \in DOMAIN q /\ n.mournQueue[i] = q[i]) \/ n.mournQueue[i] = e
  <2> HIDE DEF q
  <2>1. /\ Append(q, e) \in Seq(Addresses) /\ Len(Append(q, e)) = Len(q) + 1 /\ Len(q) \in Nat
        /\ \A i \in 1 .. Len(q) : Append(q, e)[i] = q[i]
        /\ Append(q, e)[Len(q) + 1] = e
    BY <1>1, <1>2, AppendRange
  <2>2. DOMAIN q = 1 .. Len(q) /\ DOMAIN Append(q, e) = 1 .. Len(q) + 1
    BY <1>2, <2>1, InRange
  <2> QED
    BY <1>3, <2>1, <2>2
<1>5. \A i \in DOMAIN q : q[i] \in Addresses
  BY <1>2, InRange
<1>6. \A i \in DOMAIN n.mournQueue : ~IsKind(n, n.mournQueue[i], "ephemeron") /\ Live(n, n.mournQueue[i])
  <2> SUFFICES ASSUME NEW i \in DOMAIN n.mournQueue
               PROVE  ~IsKind(n, n.mournQueue[i], "ephemeron") /\ Live(n, n.mournQueue[i])
    OBVIOUS
  <2>1. CASE n.mournQueue[i] = e
    BY <1>1, <2>1 DEF IsKind
  <2>2. CASE n.mournQueue[i] # e
    <3>1. i \in DOMAIN q /\ n.mournQueue[i] = q[i] /\ q[i] \in Addresses
      BY <1>4, <1>5, <2>2
    <3>2. ~IsKind(m, q[i], "ephemeron") /\ Live(m, q[i])
      BY <3>1 DEF Held
    <3> QED
      <4> DEFINE x == q[i]
      <4>1. x \in Addresses /\ x # e /\ n.mournQueue[i] = x /\ ~IsKind(m, x, "ephemeron") /\ Live(m, x)
        BY <2>2, <3>1, <3>2
      <4> HIDE DEF x
      <4>2. Cell(n, x).kind = Cell(m, x).kind /\ Live(n, x)
        BY <1>1, <4>1
      <4> QED
        BY <4>1, <4>2 DEF IsKind, Cell
  <2> QED
    BY <2>1, <2>2
<1>7. /\ rs \in Seq(Oops) /\ \A i \in DOMAIN rs : rs[i] = Nil \/ Live(n, rs[i])
  BY <1>1 DEF Held
<1> QED
  BY <1>6, <1>7 DEF Held

\* Firing disturbs nothing that a scavenge has done.
LEMMA FireLoop ==
    ASSUME NEW m, NEW n, NEW P, NEW U, NEW C, NEW W, NEW E, NEW K, NEW from, NEW mapped,
           Loop(m, P, from, U, C, mapped, W, E, K),
           NEW e, Live(m, e), Cell(m, e).kind \in {"ephemeron", "plain"}, Fires(m, n, e)
    PROVE  Loop(n, P, from, U, C, mapped, W, E, K)
<1>1. /\ HeapOK(m)
      /\ P \subseteq 1 .. Len(m.rememberedSet) /\ U \subseteq P /\ W \subseteq P
      /\ E \subseteq P /\ K \subseteq P
      /\ C \subseteq Addresses /\ Range(m.ephemeronList) \subseteq C
      /\ from \in FutureStart(m) .. m.survivorStart
      /\ SetsOK(m, P) /\ Covered(m, from, U, C, mapped) /\ UnfiredListed(m, C)
      /\ WeakHeld(m, W) /\ CorpsesOK(m, C) /\ EphemeronsOK(m, E) /\ Kept(m, K)
      /\ mapped => PermNew(m)
  BY DEF Loop
<1>2. /\ HeapOK(n) /\ e \in Addresses
      /\ \A x : InFuture(n, x) <=> InFuture(m, x)
      /\ \A x : Settled(n, x) <=> Settled(m, x)
      /\ \A x : Used(n, x) <=> Used(m, x)
      /\ \A x : Live(n, x) <=> Live(m, x)
      /\ \A x : x \in Oops => FollowForwarded(n, x) = FollowForwarded(m, x)
      /\ \A x \in Addresses :
            /\ Size(n, x) = Size(m, x) /\ SlotIndices(n, x) = SlotIndices(m, x)
            /\ \A i : Slot(n, x, i) = Slot(m, x, i)
            /\ x # e => Cell(n, x).kind = Cell(m, x).kind
            /\ Remembered(n, x) <=> Remembered(m, x)
      /\ IsKind(n, e, "plain")
  BY <1>1, FireHeapOK
<1>3. \A x \in Addresses : /\ IsKind(n, x, "weak") <=> IsKind(m, x, "weak")
                           /\ IsKind(n, x, "forwarded") <=> IsKind(m, x, "forwarded")
                           /\ IsKind(n, x, "ephemeron") => IsKind(m, x, "ephemeron")
                           /\ Cell(m, x).kind \in {"ephemeron", "plain"} => Cell(n, x).kind \in {"ephemeron", "plain"}
  BY <1>2 DEF IsKind, Cell
<1>4. \A x \in Addresses : StrongSlots(Cell(n, x).kind, Size(n, x)) = StrongSlots(Cell(m, x).kind, Size(m, x))
  BY <1>2, <1>3 DEF StrongSlots, IsKind, Cell
<1>5. \A x \in Addresses :
            /\ Done(n, x) <=> Done(m, x)
            /\ AllSettled(n, x) <=> AllSettled(m, x)
            /\ HasNew(n, x) <=> HasNew(m, x)
            /\ RefersToYoung(n, x) <=> RefersToYoung(m, x)
            /\ RefersToOld(n, x) <=> RefersToOld(m, x)
  BY <1>2, <1>4 DEF Done, AllSettled, HasNew, RefersToYoung, RefersToOld
<1>6. \A x \in Addresses : HasYoungReferents(n, x) <=> HasYoungReferents(m, x)
  BY <1>1, <1>2, <1>5, YoungReferents DEF HeapOK
<1>7. \A D : D \subseteq Addresses => \A x : Listed(n, D, x) <=> Listed(m, D, x)
  BY <1>2 DEF Listed, Oops
<1>8. /\ FutureStart(n) = FutureStart(m) /\ n.survivorStart = m.survivorStart
      /\ n.weakList = m.weakList /\ n.ephemeronList = m.ephemeronList
      /\ n.permToNew = m.permToNew /\ n.permToOld = m.permToOld /\ n.rememberedSet = m.rememberedSet
  BY DEF Fires, SameLists, FutureStart
<1>9. ASSUME NEW x \in Addresses, IsUnfired(n, x) PROVE IsUnfired(m, x)
  <2>1. IsKind(m, x, "ephemeron") /\ ~IsScavengeSurvivor(n, Slot(m, x, 1))
    BY <1>2, <1>3, <1>9 DEF IsUnfired
  <2>2. CellOK(m, x) /\ Size(m, x) >= 1 /\ Size(m, x) \in Nat
    BY <1>1, <2>1, CellFields DEF HeapOK, CellOK
  <2>3. Slot(m, x, 1) \in Oops
    <3>1. 1 \in SlotIndices(m, x)
      BY <2>2 DEF SlotIndices
    <3> QED
      BY <1>1, <3>1, CellFields DEF HeapOK
  <2> QED
    BY <1>2, <2>1, <2>3 DEF IsScavengeSurvivor, IsUnfired
<1>10. SetsOK(n, P)
  <2>1. \A x \in OldAddresses \cup PermAddresses : x \in Addresses
    BY Layout
  <2>2. InSet(n, n.rememberedSet, P, OldAddresses)
    BY <1>1, <1>2, <1>6, <1>8, <2>1 DEF SetsOK, InSet
  <2>3. InSet(n, n.permToNew, 1 .. Len(n.permToNew), PermAddresses)
    BY <1>1, <1>2, <1>6, <1>8, <2>1 DEF SetsOK, InSet
  <2>4. \A x \in PermAddresses : Used(n, x) /\ RefersToOld(n, x) => Remembered(n, x) \/ x \in Range(n.permToOld)
    BY <1>1, <1>2, <1>5, <1>8, <2>1 DEF SetsOK
  <2> QED
    BY <2>2, <2>3, <2>4 DEF SetsOK
<1>11. Covered(n, from, U, C, mapped)
  BY <1>1, <1>2, <1>5, <1>7, <1>8 DEF Covered
<1>12. UnfiredListed(n, C)
  BY <1>1, <1>2, <1>7, <1>9 DEF UnfiredListed
<1>13. WeakHeld(n, W)
  <2>1. Range(m.weakList) \subseteq Addresses
    BY <1>1, Fields, InRange DEF HeapOK
  <2> QED
    BY <1>1, <1>2, <1>3, <1>5, <1>7, <1>8, <2>1 DEF WeakHeld
<1>14. CorpsesOK(n, C)
  <2>1. ASSUME NEW c \in Addresses, IsKind(m, c, "forwarded")
        PROVE  Slot(m, c, 1) \in Addresses /\ Slot(n, c, 1) = Slot(m, c, 1) /\ IsKind(n, c, "forwarded")
    BY <1>1, <1>2, <1>3, <2>1 DEF HeapOK, CellOK, Live, Used
  <2>2. Range(m.weakList) \subseteq Addresses
    BY <1>1, Fields, InRange DEF HeapOK
  <2>3. ASSUME NEW c \in C
        PROVE  /\ c \in Addresses /\ IsKind(n, c, "forwarded")
               /\ Cell(n, Slot(n, c, 1)).kind \in {"ephemeron", "plain"} /\ Size(n, Slot(n, c, 1)) >= 1
    <3>1. /\ c \in Addresses /\ IsKind(m, c, "forwarded")
          /\ Cell(m, Slot(m, c, 1)).kind \in {"ephemeron", "plain"} /\ Size(m, Slot(m, c, 1)) >= 1
      BY <1>1 DEF CorpsesOK
    <3>2. Slot(m, c, 1) \in Addresses /\ Slot(n, c, 1) = Slot(m, c, 1) /\ IsKind(n, c, "forwarded")
      BY <2>1, <3>1
    <3> QED
      BY <1>2, <1>3, <3>1, <3>2
  <2>4. ASSUME NEW c \in Range(m.weakList)
        PROVE  IsKind(n, c, "forwarded") /\ IsKind(n, Slot(n, c, 1), "weak")
    <3>1. c \in Addresses /\ IsKind(m, c, "forwarded") /\ IsKind(m, Slot(m, c, 1), "weak")
      BY <1>1, <2>2 DEF CorpsesOK
    <3>2. Slot(m, c, 1) \in Addresses /\ Slot(n, c, 1) = Slot(m, c, 1) /\ IsKind(n, c, "forwarded")
      BY <2>1, <3>1
    <3> QED
      BY <1>3, <3>1, <3>2
  <2> QED
    BY <1>8, <2>3, <2>4 DEF CorpsesOK
<1>15. \A p \in P : n.rememberedSet[p] = m.rememberedSet[p] /\ m.rememberedSet[p] \in Addresses
  BY Zenon, <1>1, <1>8, MemberAt, MembersLive
<1>16. EphemeronsOK(n, E)
  BY <1>1, <1>2, <1>3, <1>15 DEF EphemeronsOK
<1>17. Kept(n, K)
  BY <1>1, <1>3, <1>5, <1>15 DEF Kept
<1>18. mapped => PermNew(n)
  <2>1. \A x \in PermAddresses : x \in Addresses
    BY Layout
  <2> QED
    BY <1>1, <1>2, <1>5, <2>1 DEF PermNew
<1> QED
  BY <1>1, <1>2, <1>8, <1>10, <1>11, <1>12, <1>13, <1>14, <1>16, <1>17, <1>18 DEF Loop

\* n comes after m in a walk once the roots are mapped.
Onwards(m, n) ==
    /\ HeapOK(n) /\ RSize(m) \in Nat /\ RSize(n) \in Nat /\ RSize(n) >= RSize(m)
    /\ \A p \in 1 .. RSize(m) : n.rememberedSet[p] = m.rememberedSet[p]
    /\ n.previousSize = m.previousSize /\ n.ephemerons = m.ephemerons
    /\ Range(m.ephemeronList) \subseteq Range(n.ephemeronList)
    /\ FutureStart(n) = FutureStart(m) /\ FutureStart(m) \in Nat
    /\ m.survivorStart \in Nat /\ n.survivorStart \in Nat /\ n.survivorStart >= m.survivorStart
    /\ Cardinality(Objects(n)) = Cardinality(Objects(m))
    /\ \A c \in Addresses : IsKind(m, c, "forwarded") =>
          IsKind(n, c, "forwarded") /\ FollowForwarded(n, c) = FollowForwarded(m, c)
    /\ \A a \in Addresses : Live(m, a) => Live(n, a) /\ Size(n, a) = Size(m, a)

\* A growth goes onwards.
LEMMA GrowsOnwards ==
    ASSUME NEW m, HeapOK(m), NEW n, HeapOK(n), Grows(m, n)
    PROVE  Onwards(m, n)
<1>1. /\ RSize(m) \in Nat /\ RSize(n) \in Nat /\ RSize(n) >= RSize(m)
      /\ n.previousSize = m.previousSize /\ n.ephemerons = m.ephemerons
      /\ Range(m.ephemeronList) \subseteq Range(n.ephemeronList)
      /\ FutureStart(n) = FutureStart(m) /\ FutureStart(m) \in Nat
      /\ m.survivorStart \in Nat /\ n.survivorStart \in Nat /\ n.survivorStart >= m.survivorStart
      /\ Cardinality(Objects(n)) = Cardinality(Objects(m))
  BY GrowsCounts
<1>2. \A p \in 1 .. RSize(m) : n.rememberedSet[p] = m.rememberedSet[p]
  BY DEF Grows, Extends, RSize
<1>3. \A c \in Addresses : IsKind(m, c, "forwarded") =>
          IsKind(n, c, "forwarded") /\ FollowForwarded(n, c) = FollowForwarded(m, c)
  BY GrowsUsed, CorpseStays
<1>4. \A a \in Addresses : Live(m, a) => Live(n, a) /\ Size(n, a) = Size(m, a)
  BY LiveFacts
<1> QED
  BY <1>1, <1>2, <1>3, <1>4 DEF Onwards

\* Firing goes onwards.
LEMMA FiresOnwards ==
    ASSUME NEW m, HeapOK(m), NEW e, Live(m, e), Cell(m, e).kind \in {"ephemeron", "plain"},
           NEW n, Fires(m, n, e)
    PROVE  Onwards(m, n)
<1>1. /\ HeapOK(n) /\ e \in Addresses
      /\ \A x : Live(n, x) <=> Live(m, x)
      /\ \A x : x \in Oops => FollowForwarded(n, x) = FollowForwarded(m, x)
      /\ \A x \in Addresses :
            /\ Size(n, x) = Size(m, x)
            /\ x # e => Cell(n, x).kind = Cell(m, x).kind
      /\ Objects(n) = Objects(m)
  BY FireHeapOK
<1>2. m \in Memories /\ RSize(m) \in Nat /\ m.survivorStart \in Nat /\ FutureStart(m) \in Nat
  BY Fields, InRange, Future DEF HeapOK, RSize
<1>3. \A c \in Addresses : IsKind(m, c, "forwarded") => IsKind(n, c, "forwarded")
  <2>1. ~IsKind(m, e, "forwarded")
    BY DEF IsKind, Cell
  <2> QED
    BY <1>1, <2>1 DEF IsKind, Cell
<1>4. /\ n.rememberedSet = m.rememberedSet /\ n.previousSize = m.previousSize /\ n.ephemerons = m.ephemerons
      /\ n.ephemeronList = m.ephemeronList /\ FutureStart(n) = FutureStart(m) /\ n.survivorStart = m.survivorStart
      /\ RSize(n) = RSize(m)
  BY DEF Fires, SameLists, FutureStart, RSize
<1>5. \A c \in Addresses : FollowForwarded(n, c) = FollowForwarded(m, c)
  BY <1>1 DEF Oops
<1>6. \A x \in Addresses : Live(m, x) => Live(n, x) /\ Size(n, x) = Size(m, x)
  BY <1>1
<1> QED
  BY <1>1, <1>2, <1>3, <1>4, <1>5, <1>6 DEF Onwards

\* Going onwards twice is going onwards.
LEMMA OnwardsTwice ==
    ASSUME NEW m, NEW n, NEW k, Onwards(m, n), Onwards(n, k)
    PROVE  Onwards(m, k)
<1>1. \A p \in 1 .. RSize(m) : k.rememberedSet[p] = m.rememberedSet[p]
  BY DEF Onwards
<1>2. \A c \in Addresses : IsKind(m, c, "forwarded") =>
          IsKind(k, c, "forwarded") /\ FollowForwarded(k, c) = FollowForwarded(m, c)
  BY DEF Onwards
<1>3. \A a \in Addresses : Live(m, a) => Live(k, a) /\ Size(k, a) = Size(m, a)
  BY DEF Onwards
<1>4. /\ HeapOK(k) /\ RSize(m) \in Nat /\ RSize(k) \in Nat /\ RSize(k) >= RSize(m)
      /\ k.previousSize = m.previousSize /\ k.ephemerons = m.ephemerons
      /\ Range(m.ephemeronList) \subseteq Range(k.ephemeronList)
      /\ FutureStart(k) = FutureStart(m) /\ FutureStart(m) \in Nat
      /\ m.survivorStart \in Nat /\ k.survivorStart \in Nat /\ k.survivorStart >= m.survivorStart
      /\ Cardinality(Objects(k)) = Cardinality(Objects(m))
  BY DEF Onwards
<1> QED
  BY <1>1, <1>2, <1>3, <1>4 DEF Onwards

\* A growth keeps the state Walked.
LEMMA WalkedGrows ==
    ASSUME NEW m, NEW from, NEW C, NEW E, NEW mapped, Walked(m, from, C, E, mapped),
           m.previousSize <= RSize(m), E \subseteq 1 .. m.previousSize,
           NEW n, HeapOK(n), Grows(m, n)
    PROVE  Walked(n, from, C \cup Range(n.ephemeronList), E, mapped)
<1> DEFINE z == m.previousSize
           P == 1 .. RSize(m)
           U == (z + 1 .. RSize(m)) \cup E
           K == P \ U
           V == (z + 1 .. RSize(n)) \cup E
           Q == NewPositions(m, n)
           D == C \cup Range(n.ephemeronList)
<1>1. Loop(m, P, from, U, C, mapped, P, E, K)
  BY DEF Walked
<1>2. HeapOK(m)
  BY <1>1 DEF Loop
<1>3. /\ RSize(m) \in Nat /\ RSize(n) \in Nat /\ RSize(n) >= RSize(m) /\ n.previousSize = z /\ z \in Nat
  BY <1>2, GrowsCounts
<1>4. D = C \cup Range(n.ephemeronList) /\ Q = RSize(m) + 1 .. RSize(n)
  BY DEF NewPositions, RSize
<1> HIDE DEF P, U, K, Q, D
<1>5. Loop(n, P \cup Q, from, U \cup Q, D, mapped, P \cup Q, E, K)
  BY Zenon, <1>1, <1>4, LoopGrows DEF Q
<1>6. P \cup Q = 1 .. RSize(n) /\ U \cup Q = V /\ K = (1 .. RSize(n)) \ V
  BY <1>3, <1>4 DEF P, U, K
<1>7. Walked(n, from, D, E, mapped)
  <2> HIDE DEF V
  <2>1. Loop(n, 1 .. RSize(n), from, V, D, mapped, 1 .. RSize(n), E, (1 .. RSize(n)) \ V)
    BY Zenon, <1>5, <1>6
  <2> QED
    BY <1>3, <2>1 DEF Walked, V
<1> QED
  BY <1>4, <1>7

\* Firing keeps the state Walked.
LEMMA WalkedFires ==
    ASSUME NEW m, NEW from, NEW C, NEW E, NEW mapped, Walked(m, from, C, E, mapped),
           NEW e, Live(m, e), Cell(m, e).kind \in {"ephemeron", "plain"}, NEW n, Fires(m, n, e)
    PROVE  Walked(n, from, C, E, mapped)
<1> DEFINE U == (m.previousSize + 1 .. RSize(m)) \cup E
           P == 1 .. RSize(m)
<1>1. Loop(m, P, from, U, C, mapped, P, E, P \ U)
  BY DEF Walked
<1>2. n.previousSize = m.previousSize /\ RSize(n) = RSize(m)
  BY DEF Fires, RSize
<1> HIDE DEF U, P
<1>3. Loop(n, P, from, U, C, mapped, P, E, P \ U)
  BY <1>1, FireLoop
<1> QED
  BY <1>2, <1>3 DEF Walked, U, P

\* The state that a walk over ephemerons keeps.
WalkOK(m, from, C, E) ==
    /\ HeapOK(m) /\ Walked(m, from, C, E, TRUE) /\ Held(m, roots, TRUE)
    /\ m.previousSize <= RSize(m) /\ E \subseteq 1 .. m.previousSize

\* A growth keeps the state of a walk over ephemerons.
LEMMA WalkOKGrows ==
    ASSUME NEW m, NEW from, NEW C, NEW E, WalkOK(m, from, C, E), NEW n, HeapOK(n), Grows(m, n)
    PROVE  WalkOK(n, from, C \cup Range(n.ephemeronList), E) /\ Onwards(m, n)
<1>1. /\ HeapOK(m) /\ Walked(m, from, C, E, TRUE) /\ Held(m, roots, TRUE)
      /\ m.previousSize <= RSize(m) /\ E \subseteq 1 .. m.previousSize
  BY Zenon DEF WalkOK
<1>2. Onwards(m, n)
  BY <1>1, GrowsOnwards
<1>3. Walked(n, from, C \cup Range(n.ephemeronList), E, TRUE)
  BY Zenon, <1>1, WalkedGrows
<1>4. Held(n, roots, TRUE)
  BY Zenon, <1>1, HeldGrows
<1>5. n.previousSize = m.previousSize /\ RSize(n) >= RSize(m) /\ RSize(n) \in Nat /\ RSize(m) \in Nat /\ m.previousSize \in Nat
  BY <1>1, <1>2, Fields DEF Onwards, HeapOK
<1>6. n.previousSize <= RSize(n) /\ E \subseteq 1 .. n.previousSize
  BY <1>1, <1>5
<1> QED
  BY Zenon, <1>2, <1>3, <1>4, <1>6 DEF WalkOK

\* Firing keeps the state of a walk over ephemerons.
LEMMA WalkOKFires ==
    ASSUME NEW m, NEW from, NEW C, NEW E, WalkOK(m, from, C, E),
           NEW e, Live(m, e), Cell(m, e).kind \in {"ephemeron", "plain"}, NEW n, Fires(m, n, e)
    PROVE  WalkOK(n, from, C, E) /\ Onwards(m, n)
<1>1. /\ HeapOK(m) /\ Walked(m, from, C, E, TRUE) /\ Held(m, roots, TRUE)
      /\ m.previousSize <= RSize(m) /\ E \subseteq 1 .. m.previousSize
  BY Zenon DEF WalkOK
<1>2. Onwards(m, n)
  BY <1>1, FiresOnwards
<1>3. Walked(n, from, C, E, TRUE)
  BY Zenon, <1>1, WalkedFires
<1>4. Held(n, roots, TRUE)
  BY Zenon, <1>1, FireHeld
<1>5. n.previousSize = m.previousSize /\ RSize(n) = RSize(m)
  BY DEF Fires, RSize
<1> QED
  BY Zenon, <1>1, <1>2, <1>3, <1>4, <1>5 DEF WalkOK, Onwards

\* fireEphemeron and the copy of the key are the scan of the key's slot of what was fired.
LEMMA FireIsScan ==
    ASSUME NEW m, HeapOK(m), NEW e, Live(m, e), Cell(m, e).kind \in {"ephemeron", "plain"}, Size(m, e) >= 1,
           ~IsScavengeSurvivor(m, Slot(m, e, 1)), NEW n, n = FireEphemeron(m, e)
    PROVE  /\ Fires(m, n, e) /\ FireAndCopyKey(m, e) = ScavengeSlot(n, e, 1)
           /\ HeapOK(n) /\ Live(n, e) /\ 1 \in SlotIndices(n, e) /\ IsKind(n, e, "plain")
<1> DEFINE v == Slot(m, e, 1)
<1>1. e \in Addresses /\ m \in Memories
  BY DEF Live, Used, HeapOK
<1>2. Fires(m, n, e)
  BY <1>1, FireFacts
<1>3. /\ HeapOK(n) /\ Live(n, e) /\ Slot(n, e, 1) = v /\ Size(n, e) = Size(m, e) /\ IsKind(n, e, "plain")
      /\ \A x : InFuture(n, x) <=> InFuture(m, x)
      /\ \A x : x \in Oops => FollowForwarded(n, x) = FollowForwarded(m, x)
  BY <1>1, <1>2, FireHeapOK
<1>4. 1 \in SlotIndices(m, e) /\ 1 \in SlotIndices(n, e)
  BY <1>1, <1>3, CellFields DEF SlotIndices
<1>5. Ref(m, v) /\ v \in Oops
  BY <1>1, <1>4, CellFields DEF HeapOK, CellOK
<1>6. FollowForwarded(m, v) = v
  BY <1>5, Following
<1>7. ~IsScavengeSurvivor(n, v) /\ FollowForwarded(n, v) = v
  BY <1>3, <1>5, <1>6 DEF IsScavengeSurvivor
<1>8. Remap(n, v) = CopyAndForward(n, v)
  BY <1>7 DEF Remap
<1>9. FireAndCopyKey(m, e) = ScavengeSlot(n, e, 1)
  <2> DEFINE k == CopyAndForward(n, v)
  <2>1. FireAndCopyKey(m, e) = [k EXCEPT !.heap[e].slots[1] = FollowForwarded(k, @)]
    BY DEF FireAndCopyKey, With
  <2>2. ScavengeSlot(n, e, 1) = [k EXCEPT !.heap[e].slots[1] = FollowForwarded(k, @)]
    BY <1>3, <1>8 DEF ScavengeSlot, With
  <2> QED
    BY <2>1, <2>2
<1> QED
  BY <1>2, <1>3, <1>4, <1>9

\* Firing an ephemeron and scavenging it leaves it fired and scanned, to be kept or forgotten.
LEMMA FireAndScavengeFacts ==
    ASSUME NEW m, NEW from, NEW C, NEW E, WalkOK(m, from, C, E),
           NEW e, Live(m, e), Cell(m, e).kind \in {"ephemeron", "plain"}, Size(m, e) >= 1,
           NEW n, n = FireAndScavenge(m, e)
    PROVE  /\ WalkOK(n, from, C \cup Range(n.ephemeronList), E) /\ Onwards(m, n)
           /\ Done(n, e) /\ ~IsUnfired(n, e)
           /\ KeepsNew(n, e) => IsKind(n, e, "weak") \/ HasNew(n, e)
           /\ ~KeepsNew(n, e) => ~IsKind(n, e, "weak") /\ ~RefersToYoung(n, e)
<1> DEFINE v == Slot(m, e, 1)
           l == IF IsScavengeSurvivor(m, v) THEN m ELSE FireAndCopyKey(m, e)
<1>1. n = ScavengeReferentsOf(l, e)
  BY DEF FireAndScavenge, With
<1>2. HeapOK(m)
  BY DEF WalkOK
<1>3. \E D : /\ WalkOK(l, from, D, E) /\ Onwards(m, l) /\ Live(l, e) /\ ~IsUnfired(l, e)
             /\ D \subseteq C \cup Range(l.ephemeronList) /\ C \subseteq D
  <2>1. CASE IsScavengeSurvivor(m, v)
    <3>1. Grows(m, m)
      BY <1>2, GrowsReflexive
    <3>2. Onwards(m, m)
      BY <1>2, <3>1, GrowsOnwards
    <3>3. l = m /\ ~IsUnfired(m, e)
      BY <2>1 DEF IsUnfired
    <3> QED
      BY <3>2, <3>3
  <2>2. CASE ~IsScavengeSurvivor(m, v)
    <3> DEFINE o == FireEphemeron(m, e)
    <3>1. o = FireEphemeron(m, e) /\ l = FireAndCopyKey(m, e)
      BY <2>2
    <3> HIDE DEF o, l
    <3>2. /\ Fires(m, o, e) /\ l = ScavengeSlot(o, e, 1)
          /\ HeapOK(o) /\ Live(o, e) /\ 1 \in SlotIndices(o, e) /\ IsKind(o, e, "plain")
      BY <1>2, <2>2, <3>1, FireIsScan
    <3>3. WalkOK(o, from, C, E) /\ Onwards(m, o)
      BY <3>2, WalkOKFires
    <3>4. HeapOK(l) /\ Grows(o, l)
      BY <3>2, ScavengeSlotGrows
    <3>5. WalkOK(l, from, C \cup Range(l.ephemeronList), E) /\ Onwards(o, l)
      BY <3>3, <3>4, WalkOKGrows
    <3>6. Onwards(m, l)
      BY <3>3, <3>5, OnwardsTwice
    <3>7. Live(l, e) /\ Cell(l, e).kind = Cell(o, e).kind
      BY <3>2, <3>4, LiveFacts
    <3>8. ~IsUnfired(l, e)
      BY <3>2, <3>7 DEF IsUnfired, IsKind, Cell
    <3> QED
      BY <3>5, <3>6, <3>7, <3>8
  <2> QED
    BY <2>1, <2>2
<1> HIDE DEF l
<1>4. PICK D : /\ WalkOK(l, from, D, E) /\ Onwards(m, l) /\ Live(l, e) /\ ~IsUnfired(l, e)
               /\ D \subseteq C \cup Range(l.ephemeronList) /\ C \subseteq D
  BY <1>3
<1>5. HeapOK(l)
  BY <1>4 DEF WalkOK
<1>6. HeapOK(n) /\ Grows(l, n)
  BY <1>1, <1>4, <1>5, ScavengeReferents
<1>7. WalkOK(n, from, D \cup Range(n.ephemeronList), E) /\ Onwards(l, n)
  BY <1>4, <1>6, WalkOKGrows
<1>8. Onwards(m, n)
  BY <1>4, <1>7, OnwardsTwice
<1>9. D \cup Range(n.ephemeronList) = C \cup Range(n.ephemeronList)
  BY <1>4, <1>7 DEF Onwards
<1>10. /\ Live(n, e) /\ Done(n, e)
       /\ KeepsNew(n, e) => IsKind(n, e, "weak") \/ HasNew(n, e)
       /\ ~KeepsNew(n, e) => ~IsKind(n, e, "weak") /\ ~RefersToYoung(n, e)
  BY <1>1, <1>4, <1>5, Scanned
<1>11. ~IsUnfired(n, e)
  BY <1>4, <1>5, <1>6, LiveStays
<1> QED
  BY <1>7, <1>8, <1>9, <1>10, <1>11

\* An ephemeron of the remembered set that has fired and stays in it.
LEMMA EphemeronPassed ==
    ASSUME NEW m, NEW i \in Nat \ {0}, NEW e, e = m.ephemerons, e <= m.previousSize, m.previousSize <= RSize(m),
           i <= e, NEW a, a = m.rememberedSet[i], Done(m, a), IsKind(m, a, "weak") \/ HasNew(m, a),
           e \in Nat, m.previousSize \in Nat, RSize(m) \in Nat,
           NEW from, NEW C, NEW mapped, Walked(m, from, C, i .. e, mapped)
    PROVE  Walked(m, from, C, i + 1 .. e, mapped)
<1> DEFINE P == 1 .. RSize(m)
           E == i .. e
           U == (m.previousSize + 1 .. RSize(m)) \cup E
           K == P \ U
           E2 == i + 1 .. e
           U2 == (m.previousSize + 1 .. RSize(m)) \cup E2
           K2 == P \ U2
<1>1. Loop(m, P, from, U, C, mapped, P, E, K)
  BY DEF Walked
<1>2. /\ U2 \subseteq P /\ E2 \subseteq E /\ K2 \subseteq K \cup {i} /\ U \ U2 \subseteq {i} /\ K \subseteq K2
  OBVIOUS
<1> HIDE DEF P, E, U, K, E2, U2, K2
<1>3. from \in FutureStart(m) .. m.survivorStart /\ Kept(m, K)
  BY <1>1 DEF Loop
<1>4. Loop(m, P, from, U2, C, mapped, P, E2, K)
  <2>1. \A p \in U \ U2 : Done(m, m.rememberedSet[p])
    BY <1>2
  <2>2. \A x \in Addresses : Live(m, x) /\ InFuture(m, x) /\ x >= from /\ ~(x >= from)
                                   => Done(m, x) \/ Listed(m, C, x)
    OBVIOUS
  <2> QED
    BY <1>1, <1>2, <1>3, <2>1, <2>2, LoopLess
<1>5. Kept(m, K2)
  BY <1>2, <1>3 DEF Kept
<1>6. Loop(m, P, from, U2, C, mapped, P, E2, K2)
  <2>1. K2 \subseteq P
    BY DEF K2
  <2> QED
    BY <1>4, <1>5, <2>1 DEF Loop
<1> QED
  BY <1>6 DEF Walked, P, U2, K2, E2

\* Firing a member of the remembered set leaves it fired and scanned.
LEMMA FireMember ==
    ASSUME Inv, pc = "fire", at.i <= mem.ephemerons,
           NEW a, a = mem.rememberedSet[at.i], NEW n, n = FireAndScavenge(mem, a)
    PROVE  AfterScan(n, at.i, at.i, a)
<1> DEFINE i == at.i
           C == Range(mem.ephemeronList)
           E == i .. mem.ephemerons
           y == at.previous
<1>1. /\ InOrder(mem) /\ EphemeronsLeft(mem, i) /\ i \in i .. mem.ephemerons /\ i \in Nat \ {0}
      /\ a \in OldAddresses /\ Live(mem, a) /\ Size(mem, a) >= 1
      /\ Cell(mem, a).kind \in {"ephemeron", "plain"}
  BY EphemeronAt
<1>2. /\ HeapOK(mem) /\ mem.ephemerons \in Nat /\ mem.previousSize \in Nat /\ RSize(mem) \in Nat
      /\ mem.ephemerons <= mem.previousSize /\ mem.previousSize <= RSize(mem)
      /\ y \in FutureStart(mem) .. mem.survivorStart /\ Held(mem, roots, TRUE)
      /\ Cardinality(Objects(mem)) = Cardinality(Objects(mem))
  BY Zenon, <1>1 DEF InOrder
<1>3. E \subseteq 1 .. mem.previousSize /\ i \in 1 .. RSize(mem) /\ i <= mem.ephemerons
  BY <1>1, <1>2
<1>4. Walked(mem, y, C, E, TRUE)
  BY Zenon, <1>1 DEF EphemeronsLeft
<1> HIDE DEF C, E, y, i
<1>5. WalkOK(mem, y, C, E)
  BY Zenon, <1>2, <1>3, <1>4 DEF WalkOK
<1>6. /\ WalkOK(n, y, C \cup Range(n.ephemeronList), E) /\ Onwards(mem, n)
      /\ Done(n, a) 
      /\ KeepsNew(n, a) => IsKind(n, a, "weak") \/ HasNew(n, a)
      /\ ~KeepsNew(n, a) => ~IsKind(n, a, "weak") /\ ~RefersToYoung(n, a)
  BY <1>1, <1>5, FireAndScavengeFacts
<1>7. InOrder(n)
  <2>1. /\ n.ephemerons = mem.ephemerons /\ n.previousSize = mem.previousSize /\ RSize(n) \in Nat
        /\ RSize(n) >= RSize(mem) /\ FutureStart(n) = FutureStart(mem) /\ FutureStart(mem) \in Nat
        /\ mem.survivorStart \in Nat /\ n.survivorStart \in Nat /\ n.survivorStart >= mem.survivorStart
        /\ Cardinality(Objects(n)) = Cardinality(Objects(mem))
    BY <1>6 DEF Onwards
  <2>2. y \in FutureStart(n) .. n.survivorStart
    BY <1>2, <2>1
  <2>3. HeapOK(n) /\ Held(n, roots, TRUE)
    BY Zenon, <1>6 DEF WalkOK
  <2>4. /\ n.ephemerons \in Nat /\ n.previousSize \in Nat
        /\ n.ephemerons <= n.previousSize /\ n.previousSize <= RSize(n)
    BY <1>2, <2>1
  <2> QED
    BY Zenon, <2>1, <2>2, <2>3, <2>4 DEF InOrder, y
<1>8. EphemeronsLeft(n, i)
  <2>1. C \cup Range(n.ephemeronList) = Range(n.ephemeronList) /\ n.ephemerons = mem.ephemerons
    BY <1>6 DEF Onwards, C
  <2>2. Walked(n, y, Range(n.ephemeronList), E, TRUE)
    BY Zenon, <1>6, <2>1 DEF WalkOK
  <2> QED
    BY Zenon, <2>1, <2>2 DEF EphemeronsLeft, y, E
<1>9. n.rememberedSet[i] = a /\ i <= n.ephemerons
  <2>1. \A p \in 1 .. RSize(mem) : n.rememberedSet[p] = mem.rememberedSet[p]
    BY <1>6 DEF Onwards
  <2>2. n.ephemerons = mem.ephemerons
    BY <1>6 DEF Onwards
  <2> QED
    BY <1>3, <2>1, <2>2 DEF i
<1> QED
  BY <1>1, <1>6, <1>7, <1>8, <1>9 DEF AfterScan, i

\* The step FireInRememberedSet preserves the invariant.
LEMMA FireInRememberedSetInv ==
    ASSUME Inv, FireInRememberedSet
    PROVE  Inv'
<1> DEFINE a == mem.rememberedSet[at.i]
           n == FireAndScavenge(mem, a)
<1>1. pc = "fire" /\ at.i <= mem.ephemerons
  BY DEF FireInRememberedSet
<1>2. IF KeepsNew(n, a) THEN Step(n, "fire", Next1)
      ELSE Step(RemoveLastEphemeronAndMoveTo(SetRemembered(n, a, FALSE), at.i), "fire", at)
  BY Zenon DEF FireInRememberedSet
<1>3. a = mem.rememberedSet[at.i] /\ n = FireAndScavenge(mem, a)
  OBVIOUS
<1> HIDE DEF a, n
<1>4. /\ at \in Walks /\ at.dest = 1 /\ at.todo = <<>> /\ at.kept = <<>> /\ at.i \in Nat \ {0}
  BY <1>1, EphemeronAt
<1>5. AfterScan(n, at.i, at.i, a)
  BY <1>1, <1>3, FireMember
<1>6. CASE KeepsNew(n, a)
  <2> DEFINE v == Next1
             i == at.i
             e == n.ephemerons
             y == at.previous
             C == Range(n.ephemeronList)
  <2>1. /\ v \in Walks /\ v.i = i + 1 /\ v.dest = 1 /\ v.previous = y
        /\ v.todo = <<>> /\ v.kept = <<>> /\ Step(n, pc, v)
    BY <1>1, <1>2, <1>4, <1>6, NextFields
  <2>2. /\ InOrder(n) /\ Walked(n, y, C, i .. e, TRUE) /\ a = n.rememberedSet[i] /\ i <= e /\ Done(n, a)
        /\ IsKind(n, a, "weak") \/ HasNew(n, a)
        /\ e \in Nat /\ n.previousSize \in Nat /\ RSize(n) \in Nat
        /\ e <= n.previousSize /\ n.previousSize <= RSize(n)
    BY Zenon, <1>5, <1>6 DEF AfterScan, EphemeronsLeft, InOrder
  <2>3. e = n.ephemerons /\ i = at.i
    OBVIOUS
  <2> HIDE DEF v, i, e, y, C
  <2>4. Walked(n, y, C, i + 1 .. e, TRUE)
    BY Zenon, <1>4, <2>2, <2>3, EphemeronPassed
  <2>5. EphemeronsLeft(n, v.i)
    BY Zenon, <2>1, <2>4 DEF EphemeronsLeft, y, C, e
  <2> QED
    BY <1>1, <2>1, <2>2, <2>5, EphemeronInv DEF y
<1>7. CASE ~KeepsNew(n, a)
  <2> DEFINE k == RemoveLastEphemeronAndMoveTo(SetRemembered(n, a, FALSE), at.i)
  <2>1. Step(k, pc, at) /\ k = RemoveLastEphemeronAndMoveTo(SetRemembered(n, a, FALSE), at.i)
    BY Zenon, <1>1, <1>2, <1>7
  <2> HIDE DEF k
  <2>2. InOrder(k) /\ EphemeronsLeft(k, at.i)
    <3>1. at.i \in Nat /\ at.i >= at.i
      BY <1>4
    <3> QED
      BY Zenon, <1>4, <1>5, <1>7, <2>1, <3>1, ForgetEphemeron
  <2> QED
    BY Zenon, <1>1, <1>4, <2>1, <2>2, EphemeronInv
<1> QED
  BY <1>6, <1>7

\* The step FireOnEphemeronList preserves the invariant.
LEMMA FireOnEphemeronListInv ==
    ASSUME Inv, FireOnEphemeronList
    PROVE  Inv'
<1> DEFINE c == Head(at.todo)
           e == FollowForwarded(mem, c)
           E == 1 .. mem.ephemerons
           C == CorpsesAt(mem, at)
           n == FireAndScavenge(mem, e)
           v == WithLists(at, at.i, Tail(at.todo), at.kept, at.scanned)
           D == CorpsesAt(n, v)
<1>0. pc = "fire_list" /\ pc \in Walking /\ at.todo # <<>>
  BY DEF Walking, FireOnEphemeronList
<1>1. /\ Walked(mem, FromAt(mem, pc, at), CorpsesAt(mem, at), EphemeronsAt(mem, pc, at), MappedAt(pc, at))
      /\ Held(mem, roots, MappedAt(pc, at)) /\ at \in Walks /\ Numbers(mem, pc, at) /\ HeapOK(mem)
      /\ mem \in Memories /\ mem.ephemerons \in Nat /\ mem.previousSize \in Nat /\ RSize(mem) \in Nat
      /\ mem.previousSize <= RSize(mem) /\ mem.ephemerons <= mem.previousSize
      /\ at.previous \in FutureStart(mem) .. mem.survivorStart
  BY <1>0, InvWalked
<1>2. /\ at.todo \in Seq(Addresses) /\ at.kept \in Seq(Addresses) /\ at.i \in Nat \ {0} /\ at.scanned \in BOOLEAN
      /\ c \in Addresses /\ Tail(at.todo) \in Seq(Addresses) /\ Range(at.todo) = {c} \cup Range(Tail(at.todo))
  BY <1>0, <1>1, WalkFields, HeadRange
<1>3. /\ FromAt(mem, pc, at) = at.previous /\ MappedAt(pc, at) = TRUE /\ EphemeronsAt(mem, pc, at) = E
      /\ at.dest = 1 /\ mem.ephemerons = 0
  BY <1>0, <1>1 DEF FromAt, MappedAt, Ends, EphemeronsAt, Numbers
<1>4. Walked(mem, at.previous, C, E, TRUE) /\ Held(mem, roots, TRUE)
  BY Zenon, <1>1, <1>3
<1>5. c \in C /\ CorpsesOK(mem, C)
  BY <1>2, <1>4 DEF CorpsesAt, Walked, Loop
<1>6. /\ c \in Addresses /\ Live(mem, e) /\ IsKind(mem, c, "forwarded") /\ Size(mem, e) >= 1
      /\ Cell(mem, e).kind \in {"ephemeron", "plain"}
  BY <1>1, <1>5, CorpseFacts
<1>7. Step(n, "fire_list", v)
  <2>1. Step(n, "fire_list", [at EXCEPT !.todo = Tail(@)])
    BY DEF FireOnEphemeronList
  <2>2. v = [at EXCEPT !.todo = Tail(@)]
    BY <1>1 DEF WithLists, Walks
  <2> QED
    BY <2>1, <2>2
<1> DEFINE t == Tail(at.todo)
           y == at.previous
<1>8. t \in Seq(Addresses) /\ v = WithLists(at, at.i, t, at.kept, at.scanned)
  BY <1>2
<1>9. n = FireAndScavenge(mem, e) /\ e = FollowForwarded(mem, c)
  OBVIOUS
<1>10. E \subseteq 1 .. mem.previousSize
  BY <1>1 DEF E
<1> HIDE DEF t, v, n, C, e, D, E, y
<1>11. v \in Walks /\ v.i = at.i /\ v.dest = at.dest /\ v.previous = at.previous /\ v.todo = t /\ v.kept = at.kept
  <2>1. at \in Walks /\ at.i \in Nat \ {0} /\ at.kept \in Seq(Addresses) /\ at.scanned \in BOOLEAN
    BY <1>1, <1>2
  <2> QED
    BY <1>8, <2>1, ListFields
<1>12. WalkOK(mem, y, C, E)
  BY Zenon, <1>1, <1>4, <1>10 DEF WalkOK, y
<1>13. /\ WalkOK(n, y, C \cup Range(n.ephemeronList), E) /\ Onwards(mem, n)
       /\ Done(n, e) /\ ~IsUnfired(n, e)
  BY <1>6, <1>9, <1>12, FireAndScavengeFacts
<1>14. /\ HeapOK(n) /\ Walked(n, y, C \cup Range(n.ephemeronList), E, TRUE) /\ Held(n, roots, TRUE)
       /\ n.previousSize <= RSize(n)
  BY Zenon, <1>13 DEF WalkOK
<1>15. /\ FollowForwarded(n, c) = e
       /\ n.ephemerons = mem.ephemerons /\ n.previousSize = mem.previousSize /\ RSize(n) \in Nat
       /\ Range(mem.ephemeronList) \subseteq Range(n.ephemeronList)
       /\ FutureStart(n) = FutureStart(mem) /\ FutureStart(mem) \in Nat
       /\ mem.survivorStart \in Nat /\ n.survivorStart \in Nat /\ n.survivorStart >= mem.survivorStart
       /\ Cardinality(Objects(n)) = Cardinality(Objects(mem))
  BY <1>6, <1>9, <1>13 DEF Onwards
<1>16. /\ D \subseteq C \cup Range(n.ephemeronList) /\ Range(n.ephemeronList) \subseteq D
       /\ (C \cup Range(n.ephemeronList)) \ D \subseteq {c}
  BY <1>2, <1>11, <1>15 DEF D, C, CorpsesAt, t
<1>17. Walked(n, y, D, E, TRUE)
  <2>1. SameHeap(n, n)
    BY <1>14 DEF SameHeap, HeapOK
  <2>2. \A x \in (C \cup Range(n.ephemeronList)) \ D :
           Done(n, FollowForwarded(n, x)) /\ ~IsUnfired(n, FollowForwarded(n, x))
    BY <1>13, <1>15, <1>16
  <2> QED
    BY Zenon, <1>14, <1>16, <2>1, <2>2, WalkedLess
<1>18. FromAt(n, pc, v) = y /\ MappedAt(pc, v) = TRUE /\ EphemeronsAt(n, pc, v) = E
  BY <1>0, <1>11, <1>15 DEF FromAt, MappedAt, Ends, EphemeronsAt, E, y
<1>19. Numbers(n, pc, v)
  <2>1. /\ at.previous \in FutureStart(n) .. n.survivorStart /\ n.previousSize <= RSize(n)
        /\ n.ephemerons <= RSize(n) /\ n.ephemerons <= n.previousSize
    BY <1>1, <1>14, <1>15
  <2> QED
    BY <1>0, <1>1, <1>3, <1>11, <1>15, <2>1 DEF Numbers, Pcs, Ends, Walking
<1> QED
  BY Zenon, <1>0, <1>7, <1>14, <1>15, <1>17, <1>18, <1>19, WalkedInv DEF D

\* n is m with what did not survive nilled in the weak object at w.
Weakens(m, n, w) ==
    /\ n \in Memories /\ SameLists(m, n)
    /\ n.past = m.past /\ n.survivorStart = m.survivorStart /\ n.freeStart = m.freeStart
    /\ n.permToNew = m.permToNew /\ n.permToOld = m.permToOld /\ n.criterion = m.criterion
    /\ n.rememberedSet = m.rememberedSet /\ n.ephemerons = m.ephemerons /\ n.previousSize = m.previousSize
    /\ n.mournQueue = m.mournQueue
    /\ \A x \in Addresses : /\ n.heap[x].kind = m.heap[x].kind /\ n.heap[x].bits = m.heap[x].bits
                            /\ x # w => n.heap[x] = m.heap[x]
                            /\ Len(n.heap[x].slots) = Len(m.heap[x].slots)
    /\ \A i \in SlotIndices(m, w) :
          Slot(n, w, i) = IF IsScavengeSurvivor(m, Slot(m, w, i)) THEN FollowForwarded(m, Slot(m, w, i)) ELSE Nil

\* Processing a weak object, field by field.
LEMMA WeakenFacts ==
    ASSUME NEW m, HeapOK(m), NEW w, Live(m, w), IsKind(m, w, "weak"), Done(m, w),
           NEW n, n = ProcessWeakSurvivor(m, w)
    PROVE  Weakens(m, n, w)
<1> DEFINE z == Size(m, w)
           old == Cell(m, w).slots
           dead == {i \in WeakFixed + 1 .. Len(Cell(m, w).slots) : ~IsScavengeSurvivor(m, Slot(m, w, i))}
           s == [i \in DOMAIN old |-> IF i \in dead THEN Nil ELSE FollowForwarded(m, old[i])]
           h == [m.heap EXCEPT ![w].slots = s]
           c == m.finalizations + IF dead = {} THEN 0 ELSE 1
<1>1. /\ m \in Memories /\ w \in Addresses /\ m.heap \in [Addresses -> Cells] /\ c \in Nat
  BY Fields DEF HeapOK, Live, Used
<1>2. /\ m.heap[w] \in Cells /\ z \in Nat /\ DOMAIN old = 1 .. z /\ old \in Seq(Oops) /\ CellOK(m, w)
      /\ SlotIndices(m, w) = 1 .. z /\ Cell(m, w) = m.heap[w] /\ z >= 1
  BY <1>1, CellFields DEF HeapOK, SlotIndices, Cell, CellOK
<1>3. \A i \in 1 .. z : /\ Slot(m, w, i) = old[i] /\ Ref(m, old[i])
  BY <1>2 DEF Slot, Cell, CellOK
<1>4. \A i \in 1 .. z : i \in dead <=> ~IsScavengeSurvivor(m, old[i])
  <2>1. Settled(m, old[1])
    BY <1>2, <1>3 DEF Done, StrongSlots, WeakFixed, IsKind
  <2>2. ~InSource(m, old[1])
    BY <1>2, <1>3, <2>1, Places
  <2>3. IsScavengeSurvivor(m, old[1])
    BY <1>2, <1>3, <2>2, Following
  <2> QED
    BY <1>2, <1>3, <2>3 DEF WeakFixed, Size
<1>5. ASSUME NEW i \in 1 .. z
      PROVE  /\ s[i] = IF IsScavengeSurvivor(m, old[i]) THEN FollowForwarded(m, old[i]) ELSE Nil
             /\ s[i] \in Oops
  <2>1. s[i] = IF i \in dead THEN Nil ELSE FollowForwarded(m, old[i])
    BY <1>2
  <2>2. FollowForwarded(m, old[i]) \in Oops
    BY <1>3, Following, Places
  <2> QED
    BY <1>4, <2>1, <2>2 DEF Oops
<1>6. DOMAIN s = 1 .. z
  BY <1>2
<1>7. n = [m EXCEPT !.heap = h, !.finalizations = c]
  BY <1>1, <1>2 DEF ProcessWeakSurvivor, Memories, Cells, Cell
<1> HIDE DEF c, dead
<1>8. s \in Seq(Oops) /\ Len(s) = z
  BY <1>2, <1>5, <1>6
<1> HIDE DEF s
<1>9. h \in [Addresses -> Cells]
  BY Zenon, <1>1, <1>2, <1>8 DEF Cells
<1>10. /\ \A x \in Addresses : /\ h[x].bits = m.heap[x].bits /\ h[x].kind = m.heap[x].kind
                               /\ x # w => h[x] = m.heap[x]
       /\ h[w].slots = s
  BY <1>1, <1>2 DEF Cells
<1> HIDE DEF h
<1>11. n \in Memories
  BY ZenonT(60), <1>1, <1>7, <1>9 DEF Memories
<1>12. n.heap = h
  BY <1>7, <1>1 DEF Memories
<1>13. /\ SameLists(m, n)
       /\ n.past = m.past /\ n.survivorStart = m.survivorStart /\ n.freeStart = m.freeStart
       /\ n.permToNew = m.permToNew /\ n.permToOld = m.permToOld /\ n.criterion = m.criterion
       /\ n.rememberedSet = m.rememberedSet /\ n.ephemerons = m.ephemerons /\ n.previousSize = m.previousSize
       /\ n.mournQueue = m.mournQueue
  BY <1>1, <1>7 DEF Memories, SameLists
<1>14. Len(m.heap[w].slots) = z
  BY DEF Size, Cell
<1>15. \A x \in Addresses : Len(n.heap[x].slots) = Len(m.heap[x].slots)
  BY <1>8, <1>10, <1>12, <1>14
<1>16. \A i \in SlotIndices(m, w) :
          Slot(n, w, i) = IF IsScavengeSurvivor(m, Slot(m, w, i)) THEN FollowForwarded(m, Slot(m, w, i)) ELSE Nil
  BY <1>2, <1>3, <1>5, <1>10, <1>12 DEF Slot
<1> QED
  BY <1>10, <1>11, <1>12, <1>13, <1>15, <1>16 DEF Weakens

\* What a weak object holds then.
LEMMA WeakenedSlots ==
    ASSUME NEW m, HeapOK(m), NEW w, Live(m, w), NEW n, Weakens(m, n, w), NEW i \in SlotIndices(m, w)
    PROVE  /\ Ref(m, Slot(n, w, i)) /\ Settled(m, Slot(n, w, i))
           /\ Settled(m, Slot(m, w, i)) => Slot(n, w, i) = Slot(m, w, i)
           /\ IsYoung(Slot(n, w, i)) => IsYoung(Slot(m, w, i))
<1> DEFINE v == Slot(m, w, i)
           u == Slot(n, w, i)
<1>1. Ref(m, v)
  BY DEF HeapOK, Live, Used, CellOK
<1>2. u = IF IsScavengeSurvivor(m, v) THEN FollowForwarded(m, v) ELSE Nil
  BY DEF Weakens
<1> HIDE DEF u, v
<1>3. Ref(m, Nil) /\ Settled(m, Nil) /\ ~IsYoung(Nil)
  BY Layout DEF Ref, Settled
<1>4. Ref(m, u) /\ Settled(m, u)
  BY <1>1, <1>2, <1>3, Following
<1>5. Settled(m, v) => u = v
  BY <1>1, <1>2, Following, Places
<1>6. IsYoung(u) => IsYoung(v)
  <2>1. CASE IsScavengeSurvivor(m, v)
    <3>1. u = v \/ InSource(m, v)
      BY <1>1, <1>2, <2>1, Following
    <3> QED
      BY <3>1 DEF InSource
  <2>2. CASE ~IsScavengeSurvivor(m, v)
    BY <1>2, <1>3, <2>2
  <2> QED
    BY <2>1, <2>2
<1> QED
  BY <1>4, <1>5, <1>6 DEF u, v

\* Processing a weak object leaves the heap in order, and all but its weak slots as it was.
LEMMA WeakenHeapOK ==
    ASSUME NEW m, HeapOK(m), NEW w, Live(m, w), IsKind(m, w, "weak"), NEW n, Weakens(m, n, w)
    PROVE  /\ HeapOK(n) /\ w \in Addresses
           /\ \A x : InSource(n, x) <=> InSource(m, x)
           /\ \A x : InFuture(n, x) <=> InFuture(m, x)
           /\ \A x : Settled(n, x) <=> Settled(m, x)
           /\ \A x : Used(n, x) <=> Used(m, x)
           /\ \A x : Live(n, x) <=> Live(m, x)
           /\ \A x : Ref(n, x) <=> Ref(m, x)
           /\ \A x : x \in Oops => FollowForwarded(n, x) = FollowForwarded(m, x)
           /\ \A x \in Addresses :
                 /\ Size(n, x) = Size(m, x) /\ SlotIndices(n, x) = SlotIndices(m, x)
                 /\ x # w => Cell(n, x) = Cell(m, x) /\ \A i : Slot(n, x, i) = Slot(m, x, i)
                 /\ Cell(n, x).kind = Cell(m, x).kind
                 /\ \A kind : IsKind(n, x, kind) <=> IsKind(m, x, kind)
                 /\ Remembered(n, x) <=> Remembered(m, x)
           /\ Objects(n) = Objects(m)
<1>1. w \in Addresses /\ m \in Memories /\ n \in Memories
  BY DEF HeapOK, Weakens, Live, Used
<1>2. /\ FutureStart(n) = FutureStart(m) /\ FutureLimit(n) = FutureLimit(m)
      /\ \A x : InSource(n, x) <=> InSource(m, x)
  BY SameSpaces DEF Weakens
<1>3. \A x : InFuture(n, x) <=> InFuture(m, x)
  BY <1>2 DEF InFuture, Weakens
<1>4. \A x \in Addresses :
                 /\ Size(n, x) = Size(m, x) /\ SlotIndices(n, x) = SlotIndices(m, x)
                 /\ x # w => Cell(n, x) = Cell(m, x) /\ \A i : Slot(n, x, i) = Slot(m, x, i)
                 /\ Cell(n, x).kind = Cell(m, x).kind
                 /\ \A kind : IsKind(n, x, kind) <=> IsKind(m, x, kind)
                 /\ Remembered(n, x) <=> Remembered(m, x)
  BY DEF Cell, Size, SlotIndices, Slot, Remembered, Weakens, IsKind
<1>5. \A x : Used(n, x) <=> Used(m, x)
  BY <1>4 DEF Used
<1>6. \A x : (Live(n, x) <=> Live(m, x)) /\ (Ref(n, x) <=> Ref(m, x))
  BY <1>2, <1>5 DEF Live, Ref
<1>7. ~IsKind(m, w, "forwarded")
  BY DEF IsKind
<1>8. \A x : x \in Oops => FollowForwarded(n, x) = FollowForwarded(m, x)
  BY <1>1, <1>4, <1>7 DEF Oops, FollowForwarded
<1>9. \A x : Settled(n, x) <=> Settled(m, x)
  BY <1>3 DEF Settled
<1>10. ASSUME NEW x \in Addresses PROVE CellOK(n, x)
  <2>1. CellOK(m, x)
    BY DEF HeapOK
  <2>2. /\ Cell(n, x).bits = Cell(m, x).bits /\ n.criterion = m.criterion /\ n.survivorStart = m.survivorStart
    BY DEF Weakens, Cell
  <2>3. \A i \in SlotIndices(n, x) : Ref(n, Slot(n, x, i))
    <3>1. CASE x = w
      BY <1>4, <1>6, <3>1, WeakenedSlots
    <3>2. CASE x # w
      BY <1>4, <1>6, <2>1, <3>2 DEF CellOK
    <3> QED
      BY <3>1, <3>2
  <2>4. IsKind(n, x, "forwarded") => Slot(n, x, 1) = Slot(m, x, 1)
    BY <1>4, <1>7
  <2> QED
    BY <1>2, <1>3, <1>4, <1>6, <2>1, <2>2, <2>3, <2>4 DEF CellOK
<1>11. Objects(n) = Objects(m)
  <2>1. 1 .. PermStart - 1 \subseteq Addresses
    BY Layout
  <2>2. \A x \in Addresses : Cell(n, x).kind \notin {"free", "forwarded"} <=> Cell(m, x).kind \notin {"free", "forwarded"}
    BY <1>4
  <2> QED
    BY <2>1, <2>2 DEF Objects
<1>12. HeapOK(n)
  BY <1>1, <1>2, <1>10, <1>11 DEF HeapOK, Weakens
<1> QED
  BY <1>1, <1>2, <1>3, <1>4, <1>5, <1>6, <1>8, <1>9, <1>11, <1>12

\* Nilling disturbs nothing that a scavenge has done, and settles the weak object.
LEMMA WeakenLoop ==
    ASSUME NEW m, NEW n, NEW P, NEW U, NEW C, NEW W, NEW E, NEW K, NEW from, NEW mapped,
           Loop(m, P, from, U, C, mapped, W, E, K),
           NEW w, Live(m, w), IsKind(m, w, "weak"), Weakens(m, n, w)
    PROVE  /\ Loop(n, P, from, U, C, mapped, W, E, K) /\ AllSettled(n, w) /\ Live(n, w) /\ IsKind(n, w, "weak")
           /\ \A x \in Addresses : HasNew(m, x) => HasNew(n, x)
           /\ HasYoungReferents(n, w) => HasYoungReferents(m, w)
<1>1. /\ HeapOK(m)
      /\ P \subseteq 1 .. Len(m.rememberedSet) /\ U \subseteq P /\ W \subseteq P
      /\ E \subseteq P /\ K \subseteq P
      /\ C \subseteq Addresses /\ Range(m.ephemeronList) \subseteq C
      /\ from \in FutureStart(m) .. m.survivorStart
      /\ SetsOK(m, P) /\ Covered(m, from, U, C, mapped) /\ UnfiredListed(m, C)
      /\ WeakHeld(m, W) /\ CorpsesOK(m, C) /\ EphemeronsOK(m, E) /\ Kept(m, K)
      /\ mapped => PermNew(m)
  BY DEF Loop
<1>2. /\ HeapOK(n) /\ w \in Addresses
      /\ \A x : InFuture(n, x) <=> InFuture(m, x)
      /\ \A x : Settled(n, x) <=> Settled(m, x)
      /\ \A x : Used(n, x) <=> Used(m, x)
      /\ \A x : Live(n, x) <=> Live(m, x)
      /\ \A x : x \in Oops => FollowForwarded(n, x) = FollowForwarded(m, x)
      /\ \A x \in Addresses :
            /\ Size(n, x) = Size(m, x) /\ SlotIndices(n, x) = SlotIndices(m, x)
            /\ x # w => Cell(n, x) = Cell(m, x) /\ \A i : Slot(n, x, i) = Slot(m, x, i)
            /\ Cell(n, x).kind = Cell(m, x).kind
            /\ \A kind : IsKind(n, x, kind) <=> IsKind(m, x, kind)
            /\ Remembered(n, x) <=> Remembered(m, x)
  BY <1>1, WeakenHeapOK
<1>3. \A i \in SlotIndices(m, w) :
         /\ Settled(m, Slot(n, w, i))
         /\ Settled(m, Slot(m, w, i)) => Slot(n, w, i) = Slot(m, w, i)
         /\ IsYoung(Slot(n, w, i)) => IsYoung(Slot(m, w, i))
  BY <1>1, WeakenedSlots
<1>4. AllSettled(n, w)
  BY <1>2, <1>3 DEF AllSettled
<1>5. \A x \in Addresses : StrongSlots(Cell(n, x).kind, Size(n, x)) = StrongSlots(Cell(m, x).kind, Size(m, x))
  BY <1>2
<1>6. \A x \in Addresses : HasNew(m, x) => HasNew(n, x)
  <2> SUFFICES ASSUME NEW x \in Addresses, HasNew(m, x) PROVE HasNew(n, x)
    OBVIOUS
  <2>1. PICK i \in SlotIndices(m, x) : InFuture(m, Slot(m, x, i))
    BY DEF HasNew
  <2>2. CASE x = w
    <3>1. Settled(m, Slot(m, w, i))
      BY <2>1, <2>2 DEF Settled
    <3> QED
      BY <1>2, <1>3, <2>1, <2>2, <3>1 DEF HasNew
  <2>3. CASE x # w
    BY <1>2, <2>1, <2>3 DEF HasNew
  <2> QED
    BY <2>2, <2>3
<1>7. \A x \in Addresses : RefersToYoung(n, x) => RefersToYoung(m, x)
  BY <1>2, <1>3 DEF RefersToYoung
<1>8. \A x \in Addresses : HasYoungReferents(n, x) => HasYoungReferents(m, x)
  BY <1>1, <1>2, <1>7, YoungReferents DEF HeapOK
<1>9. ASSUME NEW x \in Addresses, Live(m, x)
      PROVE  /\ Done(m, x) => Done(n, x)
             /\ AllSettled(m, x) => AllSettled(n, x)
  <2>1. CASE x = w
    <3>1. AllSettled(n, x) => Done(n, x)
      BY <1>2, <1>9, Tenured DEF Live
    <3> QED
      BY <1>4, <2>1, <3>1
  <2>2. CASE x # w
    BY <1>2, <1>5, <2>2 DEF Done, AllSettled
  <2> QED
    BY <2>1, <2>2
<1>10. \A D : D \subseteq Addresses => \A x : Listed(n, D, x) <=> Listed(m, D, x)
  BY <1>2 DEF Listed, Oops
<1>11. /\ FutureStart(n) = FutureStart(m) /\ n.survivorStart = m.survivorStart
       /\ n.weakList = m.weakList /\ n.ephemeronList = m.ephemeronList
       /\ n.permToNew = m.permToNew /\ n.permToOld = m.permToOld /\ n.rememberedSet = m.rememberedSet
  BY DEF Weakens, SameLists, FutureStart
<1>12. ASSUME NEW x \in Addresses, IsUnfired(n, x) PROVE IsUnfired(m, x)
  <2>1. IsKind(m, x, "ephemeron") /\ ~IsScavengeSurvivor(n, Slot(n, x, 1)) /\ x # w
    BY Zenon, <1>2, <1>12 DEF IsUnfired, IsKind
  <2>2. CellOK(m, x) /\ Size(m, x) >= 1 /\ Size(m, x) \in Nat /\ Slot(n, x, 1) = Slot(m, x, 1)
    BY <1>1, <1>2, <2>1, CellFields DEF HeapOK, CellOK
  <2>3. Slot(m, x, 1) \in Oops
    <3>1. 1 \in SlotIndices(m, x)
      BY <2>2 DEF SlotIndices
    <3> QED
      BY <1>1, <3>1, CellFields DEF HeapOK
  <2> QED
    BY <1>2, <2>1, <2>2, <2>3 DEF IsScavengeSurvivor, IsUnfired
<1>13. ~IsPerm(w)
  BY <1>1, <1>2 DEF HeapOK, CellOK
<1>14. \A x \in PermAddresses : x \in Addresses /\ x # w
  BY <1>13, Layout
<1>15. SetsOK(n, P)
  <2>1. \A x \in OldAddresses : x \in Addresses
    BY Layout
  <2>2. InSet(n, n.rememberedSet, P, OldAddresses)
    BY <1>1, <1>2, <1>8, <1>11, <2>1 DEF SetsOK, InSet
  <2>3. InSet(n, n.permToNew, 1 .. Len(n.permToNew), PermAddresses)
    BY <1>1, <1>2, <1>8, <1>11, <1>14 DEF SetsOK, InSet
  <2>4. \A x \in PermAddresses : RefersToOld(n, x) <=> RefersToOld(m, x)
    BY <1>2, <1>14 DEF RefersToOld
  <2>5. \A x \in PermAddresses : Used(n, x) /\ RefersToOld(n, x) => Remembered(n, x) \/ x \in Range(n.permToOld)
    BY <1>1, <1>2, <1>11, <1>14, <2>4 DEF SetsOK
  <2> QED
    BY <2>2, <2>3, <2>5 DEF SetsOK
<1>16. Covered(n, from, U, C, mapped)
  BY <1>1, <1>2, <1>9, <1>10, <1>11 DEF Covered
<1>17. UnfiredListed(n, C)
  BY <1>1, <1>2, <1>10, <1>12 DEF UnfiredListed
<1>18. WeakHeld(n, W)
  <2>1. Range(m.weakList) \subseteq Addresses
    BY <1>1, Fields, InRange DEF HeapOK
  <2> QED
    BY <1>1, <1>2, <1>9, <1>10, <1>11, <2>1 DEF WeakHeld
<1>19. CorpsesOK(n, C)
  <2>1. ASSUME NEW c \in Addresses, IsKind(m, c, "forwarded")
        PROVE  Slot(m, c, 1) \in Addresses /\ Slot(n, c, 1) = Slot(m, c, 1) /\ IsKind(n, c, "forwarded")
    <3>1. c # w
      BY <2>1 DEF IsKind
    <3> QED
      BY <1>1, <1>2, <2>1, <3>1 DEF HeapOK, CellOK, Live, Used
  <2>2. Range(m.weakList) \subseteq Addresses
    BY <1>1, Fields, InRange DEF HeapOK
  <2>3. ASSUME NEW c \in C
        PROVE  /\ c \in Addresses /\ IsKind(n, c, "forwarded")
               /\ Cell(n, Slot(n, c, 1)).kind \in {"ephemeron", "plain"} /\ Size(n, Slot(n, c, 1)) >= 1
    <3>1. /\ c \in Addresses /\ IsKind(m, c, "forwarded")
          /\ Cell(m, Slot(m, c, 1)).kind \in {"ephemeron", "plain"} /\ Size(m, Slot(m, c, 1)) >= 1
      BY <1>1 DEF CorpsesOK
    <3>2. Slot(m, c, 1) \in Addresses /\ Slot(n, c, 1) = Slot(m, c, 1) /\ IsKind(n, c, "forwarded")
      BY <2>1, <3>1
    <3> QED
      BY <1>2, <3>1, <3>2
  <2>4. ASSUME NEW c \in Range(m.weakList)
        PROVE  IsKind(n, c, "forwarded") /\ IsKind(n, Slot(n, c, 1), "weak")
    <3>1. c \in Addresses /\ IsKind(m, c, "forwarded") /\ IsKind(m, Slot(m, c, 1), "weak")
      BY <1>1, <2>2 DEF CorpsesOK
    <3>2. Slot(m, c, 1) \in Addresses /\ Slot(n, c, 1) = Slot(m, c, 1) /\ IsKind(n, c, "forwarded")
      BY <2>1, <3>1
    <3> QED
      BY <1>2, <3>1, <3>2
  <2> QED
    BY <1>11, <2>3, <2>4 DEF CorpsesOK
<1>20. \A p \in P : n.rememberedSet[p] = m.rememberedSet[p] /\ m.rememberedSet[p] \in Addresses
  BY <1>1, <1>11, MemberAt, MembersLive
<1>21. EphemeronsOK(n, E)
  BY <1>1, <1>2, <1>20 DEF EphemeronsOK
<1>22. Kept(n, K)
  BY <1>1, <1>2, <1>6, <1>20 DEF Kept
<1>23. mapped => PermNew(n)
  BY <1>1, <1>2, <1>6, <1>14 DEF PermNew
<1>24. Loop(n, P, from, U, C, mapped, W, E, K)
  BY <1>1, <1>2, <1>11, <1>15, <1>16, <1>17, <1>18, <1>19, <1>21, <1>22, <1>23 DEF Loop
<1> QED
  BY <1>2, <1>4, <1>6, <1>8, <1>24

\* Roots and mourners stay valid when a weak object is processed.
LEMMA WeakenHeld ==
    ASSUME NEW m, HeapOK(m), NEW w, Live(m, w), IsKind(m, w, "weak"), NEW n, Weakens(m, n, w),
           NEW rs, Held(m, rs, TRUE)
    PROVE  Held(n, rs, TRUE)
<1>1. /\ \A x : Live(n, x) <=> Live(m, x)
      /\ \A x \in Addresses : \A kind : IsKind(n, x, kind) <=> IsKind(m, x, kind)
  BY WeakenHeapOK
<1>2. m.mournQueue \in Seq(Addresses)
  BY Fields DEF HeapOK
<1>3. \A i \in DOMAIN m.mournQueue : m.mournQueue[i] \in Addresses
  BY <1>2, InRange
<1>4. n.mournQueue = m.mournQueue
  BY DEF Weakens
<1> QED
  BY <1>1, <1>3, <1>4 DEF Held

\* n, and n alone, is left of Weakens.
LEMMA WeakenCounts ==
    ASSUME NEW m, HeapOK(m), NEW w, Live(m, w), IsKind(m, w, "weak"), NEW n, Weakens(m, n, w)
    PROVE  /\ n.rememberedSet = m.rememberedSet /\ n.survivorStart = m.survivorStart
           /\ n.ephemerons = m.ephemerons /\ n.ephemeronList = m.ephemeronList /\ n.weakList = m.weakList
           /\ Cardinality(Objects(n)) = Cardinality(Objects(m))
<1>1. Objects(n) = Objects(m)
  BY WeakenHeapOK
<1> QED
  BY <1>1 DEF Weakens, SameLists

\* The state of the loop over the weak objects of the remembered set, i to look at next.
Passed(m, i) == (1 .. i - 1) \cap (1 .. RSize(m))
WeakLoop(m, i) ==
    /\ Loop(m, 1 .. RSize(m), m.survivorStart, {}, {}, TRUE, i .. RSize(m), {}, 1 .. RSize(m))
    /\ KeptNew(m, Passed(m, i))
    /\ Held(m, roots, TRUE) /\ m.ephemerons = 0 /\ m.ephemeronList = <<>>

\* What the invariant says in the loop over the weak objects.
LEMMA WeakPart ==
    ASSUME Inv, pc = "weaklings"
    PROVE  /\ WeakLoop(mem, at.i) /\ HeapOK(mem)
           /\ at \in Walks /\ at.i \in Nat \ {0} /\ at.dest \in Nat \ {0} /\ at.dest <= at.i
           /\ at.todo = <<>> /\ at.kept = <<>> /\ RSize(mem) \in Nat
<1> DEFINE P == 1 .. RSize(mem)
           E == EphemeronsAt(mem, pc, at)
           U == Unscanned(mem, pc, at) \cup E
           C == CorpsesAt(mem, at)
           O == {}
<1>1. /\ Scavenging(mem, pc, at, roots)
      /\ Numbers(mem, pc, at) /\ at \in Walks /\ HeapOK(mem) /\ RSize(mem) \in Nat
      /\ Held(mem, roots, MappedAt(pc, at))
      /\ Loop(mem, Positions(mem, pc, at), FromAt(mem, pc, at), U, C,
                       MappedAt(pc, at), WeakAt(mem, pc, at), E, Positions(mem, pc, at) \ U)
  BY InvFacts
<1>2. at.i \in Nat \ {0} /\ at.dest \in Nat \ {0}
  BY <1>1, WalkFields
<1>3. at.dest <= at.i /\ mem.ephemerons = 0 /\ mem.ephemeronList = <<>> /\ at.todo = <<>> /\ at.kept = <<>>
  BY <1>1 DEF Numbers, Ends
<1>4. E = O /\ C = O /\ U = O
  <2>1. E = O
    BY <1>3 DEF EphemeronsAt
  <2>2. C = O
    BY <1>3, NoRange DEF CorpsesAt
  <2>3. U = O
    BY <2>1 DEF Unscanned, Ends
  <2> QED
    BY <2>1, <2>2, <2>3
<1>5. /\ Positions(mem, pc, at) = P /\ FromAt(mem, pc, at) = mem.survivorStart
      /\ WeakAt(mem, pc, at) = at.i .. RSize(mem) /\ MappedAt(pc, at) = TRUE
  BY DEF Positions, FromAt, WeakAt, MappedAt, Ends
<1>6. P \ O = P
  OBVIOUS
<1>7. KeptNew(mem, Passed(mem, at.i))
  BY <1>1 DEF Scavenging, Passed
<1>8. Loop(mem, P, mem.survivorStart, O, O, TRUE, at.i .. RSize(mem), O, P)
  <2> HIDE DEF P, O, E, U, C
  <2> QED
    BY Zenon, <1>1, <1>4, <1>5, <1>6
<1>9. Held(mem, roots, TRUE)
  BY Zenon, <1>1, <1>5
<1> QED
  BY Zenon, <1>1, <1>2, <1>3, <1>7, <1>8, <1>9 DEF WeakLoop

\* A step that ends in the state WeakLoop preserves the invariant.
LEMMA WeakInv ==
    ASSUME Inv, NEW n, NEW p, p \in {"weaklings", "scavenged"}, NEW w \in Walks, Step(n, p, w), w.dest <= w.i,
           w.todo = <<>>, w.kept = <<>>, NEW i \in Nat \ {0}, WeakLoop(n, i),
           p = "weaklings" => i = w.i, p = "scavenged" => n.weakList = <<>> /\ KeptNew(n, 1 .. RSize(n)),
           p = "scavenged" => ~(i <= RSize(n)),
           Cardinality(Objects(n)) = Cardinality(Objects(mem))
    PROVE  Inv'
<1> DEFINE P == 1 .. RSize(n)
           E == EphemeronsAt(n, p, w)
           U == Unscanned(n, p, w) \cup E
           C == CorpsesAt(n, w)
           O == {}
           y == n.survivorStart
           W == WeakAt(n, p, w)
<1>1. /\ n.ephemerons = 0 /\ n.ephemeronList = <<>> /\ Held(n, roots, TRUE)
      /\ Loop(n, P, y, O, O, TRUE, i .. RSize(n), O, P) /\ KeptNew(n, Passed(n, i))
  BY Zenon DEF WeakLoop
<1>2. RSize(n) \in Nat
  BY <1>1, Fields, InRange DEF Loop, HeapOK, RSize
<1>3. Numbers(n, p, w)
  BY <1>1, <1>2 DEF Numbers, Pcs, Walking, Ends
<1>4. E = O /\ C = O /\ U = O
  <2>1. E = O
    BY <1>1 DEF EphemeronsAt
  <2>2. C = O
    BY <1>1, NoRange DEF CorpsesAt
  <2>3. U = O
    BY <2>1 DEF Unscanned, Ends
  <2> QED
    BY <2>1, <2>2, <2>3
<1>5. /\ Positions(n, p, w) = P /\ FromAt(n, p, w) = y /\ MappedAt(p, w) = TRUE
      /\ (p = "weaklings" => W = i .. RSize(n)) /\ (p = "scavenged" => W = O)
  BY DEF Positions, FromAt, WeakAt, MappedAt, Ends
<1>6. P \ O = P
  OBVIOUS
<1>7. W = i .. RSize(n)
  <2>1. p = "scavenged" => i .. RSize(n) = {}
    <3> SUFFICES ASSUME p = "scavenged", NEW x \in i .. RSize(n) PROVE FALSE
      OBVIOUS
    <3>1. ~(i <= RSize(n))
      OBVIOUS
    <3> QED
      BY <1>2, <3>1
  <2> QED
    BY Zenon, <1>5, <2>1
<1>8. Loop(n, Positions(n, p, w), FromAt(n, p, w), U, C, MappedAt(p, w), W, E, Positions(n, p, w) \ U)
  <2> HIDE DEF P, O, E, U, C, W, y
  <2> QED
    BY Zenon, <1>1, <1>4, <1>5, <1>6, <1>7
<1>9. Held(n, roots, MappedAt(p, w))
  BY Zenon, <1>1, <1>5
<1>10. p = "weaklings" => KeptNew(n, (1 .. w.i - 1) \cap (1 .. RSize(n)))
  BY Zenon, <1>1 DEF Passed
<1>11. Scavenging(n, p, w, roots)
  BY <1>3, <1>8, <1>9, <1>10 DEF Scavenging
<1> QED
  BY <1>11, StepInv

\* What the state WeakLoop says of the remembered set: each member is live, and weak or with a survivor.
LEMMA WeakFacts ==
    ASSUME NEW m, NEW i \in Nat \ {0}, WeakLoop(m, i)
    PROVE  /\ HeapOK(m) /\ RSize(m) \in Nat
           /\ \A p \in 1 .. RSize(m) :
                 /\ m.rememberedSet[p] \in OldAddresses /\ Live(m, m.rememberedSet[p])
                 /\ m.rememberedSet[p] \in Addresses
                 /\ IsKind(m, m.rememberedSet[p], "weak") \/ HasNew(m, m.rememberedSet[p])
           /\ \A x : Live(m, x) => Done(m, x)
<1> DEFINE P == 1 .. RSize(m)
           O == {}
<1>1. /\ Loop(m, P, m.survivorStart, O, O, TRUE, i .. RSize(m), O, P)
  BY Zenon DEF WeakLoop
<1>2. HeapOK(m) /\ SetsOK(m, P) /\ Covered(m, m.survivorStart, O, O, TRUE) /\ Kept(m, P) /\ P \subseteq 1 .. Len(m.rememberedSet)
  BY Zenon, <1>1 DEF Loop
<1>3. RSize(m) \in Nat /\ m.survivorStart \in Nat /\ FutureStart(m) \in Nat
  BY <1>2, Fields, Future, InRange DEF HeapOK, RSize
<1>4. \A x : Live(m, x) => Done(m, x)
  <2> SUFFICES ASSUME NEW x, Live(m, x), ~Done(m, x) PROVE FALSE
    OBVIOUS
  <2>1. x \in Addresses /\ x \in Nat
    BY Layout DEF Live, Used
  <2>2. ~(InFuture(m, x) /\ x >= m.survivorStart)
    BY <1>3, <2>1 DEF InFuture
  <2>3. ~Listed(m, O, x)
    BY DEF Listed
  <2> QED
    BY <1>2, <2>1, <2>2, <2>3 DEF Covered
<1>5. \A p \in P : m.rememberedSet[p] \in OldAddresses /\ Live(m, m.rememberedSet[p]) /\ m.rememberedSet[p] \in Addresses
  BY Zenon, <1>2, MemberAt, MembersLive
<1>6. \A p \in P : IsKind(m, m.rememberedSet[p], "weak") \/ HasNew(m, m.rememberedSet[p])
  BY <1>2 DEF Kept
<1> QED
  BY <1>2, <1>3, <1>4, <1>5, <1>6

\* A weak object whose references are settled refers to new space if they are young.
LEMMA WeakNew ==
    ASSUME NEW m, HeapOK(m), NEW a \in Addresses, AllSettled(m, a)
    PROVE  /\ HasYoungReferents(m, a) <=> HasNew(m, a)
           /\ ~HasYoungReferents(m, a) => ~RefersToYoung(m, a)
<1>1. HasYoungReferents(m, a) <=> RefersToYoung(m, a)
  BY YoungReferents DEF HeapOK
<1>2. HasNew(m, a) => RefersToYoung(m, a)
  <2> SUFFICES ASSUME NEW i \in SlotIndices(m, a), InFuture(m, Slot(m, a, i)) PROVE IsYoung(Slot(m, a, i))
    BY DEF HasNew, RefersToYoung
  <2>1. FutureLimit(m) <= EdenStart /\ FutureLimit(m) \in Nat /\ m.survivorStart \in FutureStart(m) .. FutureLimit(m)
        /\ FutureStart(m) \in Nat \ {0}
    BY Future, Layout DEF HeapOK
  <2> QED
    BY <2>1, Layout DEF InFuture, IsYoung
<1>3. RefersToYoung(m, a) => HasNew(m, a)
  BY DEF RefersToYoung, AllSettled, HasNew, Settled
<1> QED
  BY <1>1, <1>2, <1>3

\* An object of the remembered set that stays.
LEMMA PassWeak ==
    ASSUME NEW m, NEW i \in Nat \ {0}, WeakLoop(m, i), i <= RSize(m), NEW a, a = m.rememberedSet[i],
           HasNew(m, a), IsKind(m, a, "weak") => AllSettled(m, a)
    PROVE  WeakLoop(m, i + 1)
<1> DEFINE P == 1 .. RSize(m)
           O == {}
           W == i .. RSize(m)
           W2 == i + 1 .. RSize(m)
           y == m.survivorStart
<1>1. Loop(m, P, y, O, O, TRUE, W, O, P) /\ KeptNew(m, Passed(m, i)) /\ Held(m, roots, TRUE)
      /\ m.ephemerons = 0 /\ m.ephemeronList = <<>>
  BY Zenon DEF WeakLoop
<1>2. RSize(m) \in Nat
  BY WeakFacts
<1>3. W2 \subseteq P /\ W = W2 \cup {i} /\ Passed(m, i + 1) = Passed(m, i) \cup {i}
  BY <1>2 DEF Passed
<1>4. WeakHeld(m, W)
  BY <1>1 DEF Loop
<1>5. WeakHeld(m, W2)
  BY <1>3, <1>4 DEF WeakHeld
<1>6. Loop(m, P, y, O, O, TRUE, W2, O, P)
  <2> HIDE DEF P, O, W, W2, y
  <2> QED
    BY Zenon, <1>1, <1>3, <1>5 DEF Loop
<1>7. KeptNew(m, Passed(m, i + 1))
  BY <1>1, <1>3 DEF KeptNew
<1> QED
  BY Zenon, <1>1, <1>6, <1>7 DEF WeakLoop

\* What ProcessRememberedWeaklings leaves of m when the member at i, a, is forgotten.
WeakForgotten(m, a, i) == ForgetByIndex(SetRemembered(m, a, FALSE), i)

\* The member at i is gone, the last one in its place.
LEMMA ForgetByIndexFacts ==
    ASSUME NEW m, HeapOK(m), NEW R, R = RSize(m), NEW i \in 1 .. R, NEW a \in OldAddresses,
           NEW n, n = WeakForgotten(m, a, i)
    PROVE  /\ SameButSet(m, n, a) /\ ~Remembered(n, a)
           /\ n.mournQueue = m.mournQueue /\ n.ephemerons = m.ephemerons
           /\ RSize(n) = R - 1 /\ R \in Nat
           /\ \A p \in 1 .. R - 1 : n.rememberedSet[p] = IF p = i THEN m.rememberedSet[R] ELSE m.rememberedSet[p]
<1> DEFINE k == SetRemembered(m, a, FALSE)
           s == m.rememberedSet
           t == [s EXCEPT ![i] = s[R]]
           f == Front(t)
           e == m.ephemerons
           z == m.previousSize
<1>1. k = SetRemembered(m, a, FALSE) /\ n = ForgetByIndex(k, i)
  BY DEF WeakForgotten
<1> HIDE DEF k
<1>2. /\ SameButSet(m, k, a) /\ ~Remembered(k, a)
      /\ k.rememberedSet = s /\ k.mournQueue = m.mournQueue
      /\ k.ephemerons = e /\ k.previousSize = z
  BY Zenon, <1>1, ForgottenFacts
<1>3. HeapOK(k)
  BY <1>2, SameButSetFacts
<1>4. /\ k \in Memories /\ s \in Seq(OldAddresses) /\ R \in Nat /\ Len(s) = R /\ e \in Nat /\ z \in Nat
      /\ R \in 1 .. R /\ s[R] \in OldAddresses /\ R >= 1
  BY <1>3, Fields, InRange DEF HeapOK, RSize
<1> HIDE DEF s, e, z
<1>5. t \in Seq(OldAddresses) /\ Len(t) = R /\ \A p \in 1 .. R : t[p] = IF p = i THEN s[R] ELSE s[p]
  BY <1>4, ExceptSeq
<1>6. Last(s) = s[R]
  BY <1>4 DEF Last
<1> HIDE DEF t
<1>7. f \in Seq(OldAddresses) /\ Len(f) = R - 1 /\ \A p \in 1 .. R - 1 : f[p] = t[p]
  BY <1>4, <1>5, FrontFacts
<1>8. n = SetTo(k, f, e, z)
  <2>1. f = Front([k.rememberedSet EXCEPT ![i] = Last(k.rememberedSet)])
    BY <1>2, <1>6 DEF f, t
  <2> HIDE DEF f
  <2>2. n = [k EXCEPT !.rememberedSet = f]
    BY <1>1, <2>1 DEF ForgetByIndex
  <2> QED
    BY Zenon, <1>2, <1>4, <2>2 DEF SetTo, Memories
<1> HIDE DEF f
<1>9. /\ SameButSet(k, n, a) /\ (Remembered(n, a) <=> Remembered(k, a))
      /\ n.rememberedSet = f /\ n.mournQueue = k.mournQueue /\ n.ephemerons = e
  <2>1. HeapOK(k) /\ a \in OldAddresses /\ f \in Seq(OldAddresses) /\ e \in Nat /\ z \in Nat /\ n = SetTo(k, f, e, z)
    BY <1>3, <1>4, <1>7, <1>8
  <2> QED
    BY <2>1, SetToFacts
<1>10. SameButSet(m, n, a)
  BY <1>2, <1>9 DEF SameButSet, SameLists
<1>11. \A p \in 1 .. R - 1 : f[p] = IF p = i THEN s[R] ELSE s[p]
  <2>1. \A p \in 1 .. R - 1 : p \in 1 .. R
    BY <1>4
  <2> QED
    BY <1>5, <1>7, <2>1
<1> QED
  BY <1>2, <1>4, <1>7, <1>9, <1>10, <1>11 DEF RSize, s, e

\* A weak object of the remembered set that refers to new space no more.
LEMMA ForgetWeak ==
    ASSUME NEW m, NEW i \in Nat \ {0}, WeakLoop(m, i), i <= RSize(m), NEW a, a = m.rememberedSet[i],
           ~RefersToYoung(m, a), NEW n, n = WeakForgotten(m, a, i)
    PROVE  WeakLoop(n, i) /\ Cardinality(Objects(n)) = Cardinality(Objects(m))
<1> DEFINE s == m.rememberedSet
           R == RSize(m)
           P == 1 .. R
           O == {}
           W == i .. R
           P2 == 1 .. R - 1
           W2 == i .. R - 1
           y == m.survivorStart
           N == {i}
           g == [p \in 1 .. R |-> IF p = i THEN R ELSE p]
           h == [q \in 1 .. R |-> IF q = R THEN i ELSE q]
<1>1. Loop(m, P, y, O, O, TRUE, W, O, P) /\ KeptNew(m, Passed(m, i)) /\ Held(m, roots, TRUE)
      /\ m.ephemerons = 0 /\ m.ephemeronList = <<>>
  BY Zenon DEF WeakLoop
<1>2. R \in Nat /\ HeapOK(m) /\ i \in P /\ a \in OldAddresses /\ a \in Addresses
  BY WeakFacts
<1>3. R = RSize(m) /\ i \in 1 .. R /\ a = s[i]
  BY <1>2
<1> HIDE DEF s
<1>4. /\ SameButSet(m, n, a) /\ ~Remembered(n, a)
      /\ n.mournQueue = m.mournQueue /\ n.ephemerons = m.ephemerons
      /\ RSize(n) = R - 1
      /\ \A p \in 1 .. R - 1 : n.rememberedSet[p] = IF p = i THEN s[R] ELSE s[p]
  <2>1. n = WeakForgotten(m, a, i) /\ HeapOK(m) /\ a \in OldAddresses
    BY <1>2
  <2> HIDE DEF R
  <2> QED
    BY <1>3, <2>1, ForgetByIndexFacts DEF s
<1>5. /\ P2 \subseteq P /\ W2 \subseteq P2 /\ W \subseteq P /\ i \in P
  BY <1>2
<1>6. /\ \A p \in P2 : g[p] \in P \ N /\ h[g[p]] = p /\ n.rememberedSet[p] = s[g[p]]
      /\ \A q \in P \ N : h[q] \in P2 /\ g[h[q]] = q
      /\ \A q \in W \ N : h[q] \in W2
  <2>1. /\ \A p \in P : g[p] = IF p = i THEN R ELSE p
        /\ \A q \in P : h[q] = IF q = R THEN i ELSE q
    OBVIOUS
  <2> HIDE DEF g, h
  <2>2. \A p \in P2 : g[p] \in P \ N /\ h[g[p]] = p
    BY <1>2, <1>3, <2>1
  <2>3. \A p \in P2 : n.rememberedSet[p] = s[g[p]]
    BY <1>2, <1>4, <1>5, <2>1
  <2>4. \A q \in P \ N : h[q] \in P2 /\ g[h[q]] = q
    BY <1>2, <1>3, <2>1
  <2>5. \A q \in W \ N : h[q] \in W2
    BY <1>2, <1>3, <2>1
  <2> QED
    BY <2>2, <2>3, <2>4, <2>5
<1> HIDE DEF P, P2, W, W2, g, h, N, y, O
<1>7. Positioned(m, n, g, h, N, P, O, W, O, P, P2, O, W2, O, P2)
  <2>1. P2 \subseteq 1 .. Len(n.rememberedSet)
    BY <1>4 DEF RSize, P2
  <2>2. \A x : x \notin O
    BY DEF O
  <2> QED
    BY <1>5, <1>6, <2>1, <2>2 DEF Positioned, s
<1>8. Loop(n, P2, y, O, O, TRUE, W2, O, P2)
  <2>1. N \subseteq {i} /\ (Remembered(n, a) <=> i \notin N)
        /\ (i \in N => ~RefersToYoung(m, a))
    BY <1>4 DEF N
  <2>2. a = m.rememberedSet[i] /\ i \in P
    BY <1>5
  <2> QED
    BY Zenon, <1>1, <1>4, <1>7, <2>1, <2>2, Rearranged
<1>9. /\ \A x : InFuture(n, x) <=> InFuture(m, x)
      /\ \A x \in Addresses : SlotIndices(n, x) = SlotIndices(m, x) /\ \A j : Slot(n, x, j) = Slot(m, x, j)
      /\ Objects(n) = Objects(m)
  <2>1. HeapOK(m) /\ a \in OldAddresses /\ SameButSet(m, n, a)
    BY <1>2, <1>4
  <2>2. \A x : InFuture(n, x) <=> InFuture(m, x)
    BY <2>1, SameButSetFacts
  <2>3. \A x \in Addresses : SlotIndices(n, x) = SlotIndices(m, x) /\ \A j : Slot(n, x, j) = Slot(m, x, j)
    BY <2>1, SameButSetFacts
  <2>4. Objects(n) = Objects(m)
    BY <2>1, SameButSetFacts
  <2> QED
    BY <2>2, <2>3, <2>4
<1>10. \A x \in Addresses : HasNew(m, x) => HasNew(n, x)
  BY <1>9 DEF HasNew
<1>11. KeptNew(n, Passed(n, i))
  <2> SUFFICES ASSUME NEW p \in Passed(n, i) PROVE HasNew(n, n.rememberedSet[p])
    BY DEF KeptNew
  <2>1. p \in Passed(m, i) /\ p \in 1 .. R - 1 /\ p # i /\ p \in 1 .. R
    BY <1>2, <1>4 DEF Passed
  <2>2. n.rememberedSet[p] = s[p]
    BY <1>4, <2>1
  <2>3. HasNew(m, s[p]) /\ s[p] \in Addresses
    BY <1>1, <2>1, WeakFacts DEF KeptNew, s
  <2> QED
    BY <1>10, <2>2, <2>3
<1>12. Held(n, roots, TRUE)
  BY Zenon, <1>1, <1>2, <1>4, HeldSame
<1>13. n.ephemeronList = <<>> /\ n.survivorStart = y
  BY <1>1, <1>4 DEF SameButSet, SameLists, y
<1>14. WeakLoop(n, i)
  BY Zenon, <1>1, <1>4, <1>8, <1>11, <1>12, <1>13 DEF WeakLoop, P2, W2, O
<1> QED
  BY <1>9, <1>14

\* Processing a weak object keeps the state WeakLoop and settles all of that object.
LEMMA WeakLoopWeakens ==
    ASSUME NEW m, NEW i \in Nat \ {0}, WeakLoop(m, i), NEW w, Live(m, w), IsKind(m, w, "weak"),
           NEW n, n = ProcessWeakSurvivor(m, w)
    PROVE  /\ WeakLoop(n, i) /\ AllSettled(n, w) /\ n.rememberedSet = m.rememberedSet /\ RSize(n) = RSize(m)
           /\ n.weakList = m.weakList /\ w \in Addresses /\ HeapOK(m) /\ Live(n, w) /\ HeapOK(n)
           /\ HasYoungReferents(n, w) => HasYoungReferents(m, w)
           /\ Remembered(n, w) <=> Remembered(m, w)
           /\ Cardinality(Objects(n)) = Cardinality(Objects(m))
           /\ \A x \in Oops : FollowForwarded(n, x) = FollowForwarded(m, x)
<1> DEFINE R == RSize(m)
           P == 1 .. R
           O == {}
           W == i .. R
           y == m.survivorStart
           T == TRUE
<1>1. Loop(m, P, y, O, O, T, W, O, P) /\ KeptNew(m, Passed(m, i)) /\ Held(m, roots, TRUE)
      /\ m.ephemerons = 0 /\ m.ephemeronList = <<>>
  BY Zenon DEF WeakLoop
<1>2. HeapOK(m) /\ Done(m, w) /\ \A p \in 1 .. R : m.rememberedSet[p] \in Addresses
  BY WeakFacts
<1>3. Weakens(m, n, w)
  BY <1>2, WeakenFacts
<1>4. /\ n.rememberedSet = m.rememberedSet /\ n.survivorStart = m.survivorStart
      /\ n.ephemerons = m.ephemerons /\ n.ephemeronList = m.ephemeronList /\ n.weakList = m.weakList
      /\ Cardinality(Objects(n)) = Cardinality(Objects(m))
  BY <1>2, <1>3, WeakenCounts
<1>5. RSize(n) = R
  BY <1>4 DEF RSize
<1> HIDE DEF P, O, W, y, R, T
<1>6. /\ Loop(n, P, y, O, O, T, W, O, P) /\ AllSettled(n, w) /\ Live(n, w)
      /\ \A x \in Addresses : HasNew(m, x) => HasNew(n, x)
      /\ HasYoungReferents(n, w) => HasYoungReferents(m, w)
  BY <1>1, <1>3, WeakenLoop
<1>7. Held(n, roots, TRUE)
  BY Zenon, <1>1, <1>2, <1>3, WeakenHeld
<1>8. KeptNew(n, Passed(n, i))
  BY <1>1, <1>2, <1>4, <1>5, <1>6 DEF KeptNew, Passed, R
<1>9. WeakLoop(n, i)
  BY Zenon, <1>1, <1>4, <1>5, <1>6, <1>7, <1>8 DEF WeakLoop, P, O, W, y, R, T
<1>10. /\ w \in Addresses /\ (Remembered(n, w) <=> Remembered(m, w)) /\ HeapOK(n)
       /\ \A x : x \in Oops => FollowForwarded(n, x) = FollowForwarded(m, x)
  BY <1>2, <1>3, WeakenHeapOK
<1> QED
  BY <1>2, <1>4, <1>5, <1>6, <1>9, <1>10 DEF R

\* The step ProcessRememberedWeaklings preserves the invariant.
LEMMA ProcessRememberedWeaklingsInv ==
    ASSUME Inv, ProcessRememberedWeaklings
    PROVE  Inv'
<1> DEFINE a == mem.rememberedSet[at.i]
           n == ProcessWeakSurvivor(mem, a)
           k == WeakForgotten(n, a, at.i)
           i == at.i
<1>1. pc = "weaklings" /\ at.i <= RSize(mem)
  BY DEF ProcessRememberedWeaklings, RSize
<1>2. IF ~IsKind(mem, a, "weak") THEN Step(mem, "weaklings", Next1)
      ELSE IF HasYoungReferents(n, a) THEN Step(n, "weaklings", Next1)
      ELSE Step(k, "weaklings", at)
  BY Zenon DEF ProcessRememberedWeaklings, WeakForgotten
<1>3. a = mem.rememberedSet[i] /\ n = ProcessWeakSurvivor(mem, a) /\ k = WeakForgotten(n, a, i)
      /\ i = at.i
  OBVIOUS
<1> HIDE DEF a, n, k, i
<1>4. /\ WeakLoop(mem, i) /\ HeapOK(mem)
      /\ at \in Walks /\ i \in Nat \ {0} /\ at.dest \in Nat \ {0} /\ at.dest <= at.i
      /\ at.todo = <<>> /\ at.kept = <<>> /\ RSize(mem) \in Nat /\ i <= RSize(mem)
  BY <1>1, <1>3, WeakPart
<1>5. /\ a \in OldAddresses /\ Live(mem, a) /\ a \in Addresses
      /\ IsKind(mem, a, "weak") \/ HasNew(mem, a)
  <2>1. i \in 1 .. RSize(mem)
    BY <1>4
  <2> QED
    BY <1>3, <1>4, <2>1, WeakFacts
<1> DEFINE v == Next1
<1>6. /\ v \in Walks /\ v.i = i + 1 /\ v.dest <= v.i /\ v.todo = <<>> /\ v.kept = <<>>
      /\ i + 1 \in Nat \ {0} /\ v = Next1
  BY <1>3, <1>4, NextFields
<1> HIDE DEF v
<1>7. CASE ~IsKind(mem, a, "weak")
  <2>1. WeakLoop(mem, i + 1)
    BY <1>3, <1>4, <1>5, <1>7, PassWeak
  <2>2. Step(mem, "weaklings", v)
    BY <1>2, <1>6, <1>7
  <2> QED
    BY <1>6, <2>1, <2>2, WeakInv
<1>8. CASE IsKind(mem, a, "weak")
  <2>1. /\ WeakLoop(n, i) /\ AllSettled(n, a) /\ n.rememberedSet = mem.rememberedSet /\ RSize(n) = RSize(mem)
        /\ Live(n, a) /\ HeapOK(n)
        /\ Cardinality(Objects(n)) = Cardinality(Objects(mem))
    BY <1>3, <1>4, <1>5, <1>8, WeakLoopWeakens
  <2>2. a = n.rememberedSet[i] /\ i <= RSize(n)
    BY <1>3, <1>4, <2>1
  <2>3. CASE HasYoungReferents(n, a)
    <3>1. HasNew(n, a)
      BY <1>5, <2>1, <2>3, WeakNew
    <3>2. WeakLoop(n, i + 1)
      BY <1>4, <2>1, <2>2, <3>1, PassWeak
    <3>3. Step(n, "weaklings", v)
      BY <1>2, <1>6, <1>8, <2>3
    <3> QED
      BY <1>6, <2>1, <3>2, <3>3, WeakInv
  <2>4. CASE ~HasYoungReferents(n, a)
    <3>1. ~RefersToYoung(n, a)
      BY <1>5, <2>1, <2>4, WeakNew
    <3>2. WeakLoop(k, i) /\ Cardinality(Objects(k)) = Cardinality(Objects(n))
      <4>1. /\ i \in Nat \ {0} /\ WeakLoop(n, i) /\ i <= RSize(n) /\ a = n.rememberedSet[i]
            /\ ~RefersToYoung(n, a) /\ k = WeakForgotten(n, a, i)
        BY <1>3, <1>4, <2>1, <2>2, <3>1
      <4> QED
        BY <4>1, ForgetWeak
    <3>3. Step(k, "weaklings", at)
      BY <1>2, <1>8, <2>4
    <3>4. Cardinality(Objects(k)) = Cardinality(Objects(mem)) /\ i = at.i
      BY <1>3, <2>1, <3>2
    <3> QED
      BY <1>4, <3>2, <3>3, <3>4, WeakInv
  <2> QED
    BY <2>3, <2>4
<1> QED
  BY <1>7, <1>8

\* The memory with another list of weak corpses.
WithWeakList(m, t) == [m EXCEPT !.weakList = t]

\* A memory with another list of weak corpses, field by field.
LEMMA WeakListFacts ==
    ASSUME NEW m \in Memories, NEW t \in Seq(Addresses), NEW n, n = WithWeakList(m, t)
    PROVE  /\ SameHeap(m, n) /\ n.rememberedSet = m.rememberedSet /\ n.ephemerons = m.ephemerons
           /\ n.ephemeronList = m.ephemeronList /\ n.weakList = t /\ n.mournQueue = m.mournQueue
<1> QED
  BY Zenon DEF WithWeakList, SameHeap, Memories

\* A weak object that was processed leaves its list.
LEMMA WeakListLoop ==
    ASSUME NEW m, NEW i \in Nat \ {0}, WeakLoop(m, i), NEW c \in Addresses, NEW t \in Seq(Addresses),
           Range(m.weakList) = {c} \cup Range(t), AllSettled(m, FollowForwarded(m, c)),
           NEW n, n = WithWeakList(m, t)
    PROVE  WeakLoop(n, i) /\ Cardinality(Objects(n)) = Cardinality(Objects(m))
<1> DEFINE R == RSize(m)
           P == 1 .. R
           O == {}
           W == i .. R
           y == m.survivorStart
           T == TRUE
<1>1. Loop(m, P, y, O, O, T, W, O, P) /\ KeptNew(m, Passed(m, i)) /\ Held(m, roots, T)
      /\ m.ephemerons = 0 /\ m.ephemeronList = <<>>
  BY Zenon DEF WeakLoop
<1>2. HeapOK(m) /\ m \in Memories
  BY <1>1 DEF Loop, HeapOK
<1>3. /\ SameHeap(m, n) /\ n.rememberedSet = m.rememberedSet /\ n.ephemerons = m.ephemerons
      /\ n.ephemeronList = m.ephemeronList /\ n.weakList = t /\ n.mournQueue = m.mournQueue
  BY <1>2, WeakListFacts
<1>4. RSize(n) = R /\ n.survivorStart = y /\ Range(n.ephemeronList) = O
  BY <1>1, <1>3, NoRange DEF RSize, SameHeap
<1> HIDE DEF P, W, O, T, R, y
<1>5. /\ P \subseteq 1 .. Len(m.rememberedSet) /\ W \subseteq P /\ O \subseteq P
      /\ O \subseteq Addresses /\ y \in FutureStart(m) .. m.survivorStart
      /\ SetsOK(m, P) /\ Covered(m, y, O, O, T) /\ UnfiredListed(m, O)
      /\ WeakHeld(m, W) /\ CorpsesOK(m, O) /\ EphemeronsOK(m, O) /\ Kept(m, P)
      /\ T => PermNew(m)
  BY <1>1 DEF Loop
<1>6. /\ HeapOK(n) /\ FutureStart(n) = FutureStart(m)
      /\ \A x : InFuture(n, x) <=> InFuture(m, x)
      /\ \A x : Used(n, x) <=> Used(m, x)
      /\ \A x : Live(n, x) <=> Live(m, x)
      /\ \A x : FollowForwarded(n, x) = FollowForwarded(m, x)
      /\ \A x : /\ Cell(n, x) = Cell(m, x) /\ Size(n, x) = Size(m, x)
                /\ Remembered(n, x) <=> Remembered(m, x)
                /\ HasYoungReferents(n, x) <=> HasYoungReferents(m, x)
                /\ RefersToOld(n, x) <=> RefersToOld(m, x)
                /\ Done(n, x) <=> Done(m, x)
                /\ AllSettled(n, x) <=> AllSettled(m, x)
                /\ HasNew(n, x) <=> HasNew(m, x)
                /\ IsUnfired(n, x) <=> IsUnfired(m, x)
      /\ \A x, j : Slot(n, x, j) = Slot(m, x, j)
      /\ \A x, kind : IsKind(n, x, kind) <=> IsKind(m, x, kind)
      /\ Objects(n) = Objects(m)
  BY <1>2, <1>3, SameHeapFacts
<1>7. /\ n.permToNew = m.permToNew /\ n.permToOld = m.permToOld /\ n.survivorStart = m.survivorStart
  BY <1>3 DEF SameHeap
<1>8. SetsOK(n, P)
  BY <1>3, <1>5, <1>6, <1>7 DEF SetsOK, InSet
<1>9. \A x, B : Listed(n, B, x) <=> Listed(m, B, x)
  BY <1>6 DEF Listed
<1>10. Covered(n, y, O, O, T) /\ UnfiredListed(n, O)
  <2>1. Covered(n, y, O, O, T)
    BY <1>3, <1>5, <1>6, <1>9 DEF Covered
  <2>2. UnfiredListed(n, O)
    BY <1>5, <1>6, <1>9 DEF UnfiredListed
  <2> QED
    BY <2>1, <2>2
<1>11. WeakHeld(n, W)
  <2> SUFFICES ASSUME NEW x \in Addresses, Live(n, x), IsKind(n, x, "weak"), ~AllSettled(n, x)
               PROVE  Listed(n, Range(n.weakList), x) \/ \E p \in W : n.rememberedSet[p] = x
    BY DEF WeakHeld
  <2>1. Listed(m, Range(m.weakList), x) \/ \E p \in W : m.rememberedSet[p] = x
    BY Zenon, <1>5, <1>6 DEF WeakHeld
  <2>2. Listed(m, Range(m.weakList), x) => Listed(m, Range(t), x)
    BY <1>6 DEF Listed
  <2> QED
    BY <1>3, <1>9, <2>1, <2>2
<1>12. CorpsesOK(n, O)
  BY <1>3, <1>5, <1>6 DEF CorpsesOK
<1>13. EphemeronsOK(n, O) /\ Kept(n, P)
  BY <1>3, <1>5, <1>6 DEF EphemeronsOK, Kept
<1>14. T => PermNew(n)
  BY <1>5, <1>6 DEF PermNew
<1>15. Loop(n, P, y, O, O, T, W, O, P)
  BY <1>3, <1>4, <1>5, <1>6, <1>7, <1>8, <1>10, <1>11, <1>12, <1>13, <1>14 DEF Loop
<1>16. KeptNew(n, Passed(n, i))
  BY <1>1, <1>3, <1>4, <1>6 DEF KeptNew, Passed, R
<1>17. Held(n, roots, T)
  <2>1. \A x : Live(n, x) <=> Live(m, x)
    BY <1>6
  <2>2. \A x : ~IsKind(m, x, "ephemeron") => ~IsKind(n, x, "ephemeron")
    BY <1>6
  <2>3. /\ roots \in Seq(Oops) /\ \A j \in DOMAIN roots : roots[j] = Nil \/ Live(m, roots[j])
        /\ \A j \in DOMAIN m.mournQueue : ~IsKind(m, m.mournQueue[j], "ephemeron") /\ Live(m, m.mournQueue[j])
    BY <1>1 DEF Held, T
  <2> QED
    BY <1>3, <2>1, <2>2, <2>3 DEF Held, T
<1>18. WeakLoop(n, i)
  BY Zenon, <1>1, <1>3, <1>4, <1>15, <1>16, <1>17 DEF WeakLoop, P, O, W, T
<1> QED
  BY <1>6, <1>18

\* The object of a corpse on the list of weak objects.
LEMMA WeakCorpse ==
    ASSUME NEW m, NEW i \in Nat \ {0}, WeakLoop(m, i), NEW c \in Range(m.weakList),
           NEW w, w = FollowForwarded(m, c)
    PROVE  c \in Addresses /\ Live(m, w) /\ IsKind(m, w, "weak") /\ c \in Oops
<1> DEFINE O == {}
<1>1. HeapOK(m) /\ CorpsesOK(m, O)
  BY DEF WeakLoop, Loop
<1> HIDE DEF O
<1>2. Range(m.weakList) \subseteq Addresses
  BY <1>1, Fields, InRange DEF HeapOK
<1>3. c \in Addresses /\ IsKind(m, c, "forwarded") /\ IsKind(m, Slot(m, c, 1), "weak")
  BY <1>1, <1>2 DEF CorpsesOK
<1>4. w = Slot(m, c, 1)
  BY <1>3, Layout DEF FollowForwarded, Nil
<1>5. Live(m, Slot(m, c, 1))
  BY <1>1, <1>3 DEF HeapOK, CellOK
<1> QED
  BY <1>3, <1>4, <1>5 DEF Oops

\* The step ProcessWeakList preserves the invariant.
LEMMA ProcessWeakListInv ==
    ASSUME Inv, ProcessWeakList
    PROVE  Inv'
<1> DEFINE c == Head(mem.weakList)
           w == FollowForwarded(mem, c)
           t == Tail(mem.weakList)
           o == ProcessWeakSurvivor(mem, w)
           n == WithWeakList(o, t)
           i == at.i
<1>1. pc = "weaklings" /\ mem.weakList # <<>>
  BY DEF ProcessWeakList
<1>2. /\ WeakLoop(mem, i) /\ HeapOK(mem)
      /\ at \in Walks /\ i \in Nat \ {0} /\ at.dest <= at.i
      /\ at.todo = <<>> /\ at.kept = <<>> /\ RSize(mem) \in Nat
  BY <1>1, WeakPart
<1>3. mem.weakList \in Seq(Addresses)
  BY <1>2, Fields DEF HeapOK
<1>4. c \in Addresses /\ t \in Seq(Addresses) /\ Range(mem.weakList) = {c} \cup Range(t)
  BY <1>1, <1>3, HeadRange
<1>5. \E k \in {[o EXCEPT !.weakList = Tail(@)]} :
         IF HasYoungReferents(k, w) /\ IsOld(w) /\ ~Remembered(k, w)
         THEN Step(Remember(k, w), "weaklings", Next1)
         ELSE Step(k, "weaklings", at)
  BY Zenon DEF ProcessWeakList
<1>6. w = FollowForwarded(mem, c) /\ o = ProcessWeakSurvivor(mem, w) /\ n = WithWeakList(o, t) /\ i = at.i
  OBVIOUS
<1>7. t = Tail(mem.weakList)
  OBVIOUS
<1> HIDE DEF c, w, t, o, n, i
<1>8. Live(mem, w) /\ IsKind(mem, w, "weak") /\ c \in Oops
  <2>1. c \in Range(mem.weakList)
    BY <1>4
  <2> QED
    BY <1>2, <1>6, <2>1, WeakCorpse
<1>9. /\ WeakLoop(o, i) /\ AllSettled(o, w) /\ o.rememberedSet = mem.rememberedSet /\ RSize(o) = RSize(mem)
      /\ o.weakList = mem.weakList /\ w \in Addresses /\ HeapOK(o)
      /\ HasYoungReferents(o, w) => HasYoungReferents(mem, w)
      /\ Remembered(o, w) <=> Remembered(mem, w)
      /\ Cardinality(Objects(o)) = Cardinality(Objects(mem))
      /\ FollowForwarded(o, c) = FollowForwarded(mem, c)
  BY <1>2, <1>6, <1>8, WeakLoopWeakens
<1>10. WeakLoop(n, i) /\ Cardinality(Objects(n)) = Cardinality(Objects(o))
  <2>1. Range(o.weakList) = {c} \cup Range(t) /\ AllSettled(o, FollowForwarded(o, c))
    BY <1>4, <1>6, <1>9
  <2> QED
    BY <1>2, <1>4, <1>6, <1>9, <2>1, WeakListLoop
<1>11. n = [o EXCEPT !.weakList = Tail(@)]
  BY <1>6, <1>7, <1>9 DEF WithWeakList
<1>12. o \in Memories /\ SameHeap(o, n)
  <2>1. o \in Memories
    BY <1>9 DEF HeapOK
  <2> QED
    BY <1>4, <1>6, <2>1, WeakListFacts
<1>13. IF HasYoungReferents(n, w) /\ IsOld(w) /\ ~Remembered(n, w)
       THEN Step(Remember(n, w), "weaklings", Next1)
       ELSE Step(n, "weaklings", at)
  BY Zenon, <1>5, <1>11
<1>14. HasYoungReferents(n, w) /\ IsOld(w) => Remembered(n, w)
  <2> SUFFICES ASSUME HasYoungReferents(n, w), IsOld(w) PROVE Remembered(n, w)
    OBVIOUS
  <2>1. (HasYoungReferents(n, w) <=> HasYoungReferents(o, w)) /\ (Remembered(n, w) <=> Remembered(o, w))
    BY <1>12, SameHeapFacts
  <2>2. HasYoungReferents(mem, w)
    BY <1>9, <2>1
  <2>3. w \in OldAddresses
    BY <1>9, Layout
  <2>4. \E P : SetsOK(mem, P)
    BY <1>2 DEF WeakLoop, Loop
  <2>5. Used(mem, w)
    BY <1>8 DEF Live
  <2>6. Remembered(mem, w)
    BY <2>2, <2>3, <2>4, <2>5 DEF SetsOK, InSet
  <2> QED
    BY <1>9, <2>1, <2>6
<1>15. Step(n, "weaklings", at)
  BY <1>13, <1>14
<1>16. Cardinality(Objects(n)) = Cardinality(Objects(mem)) /\ i = at.i
  BY <1>6, <1>9, <1>10
<1> QED
  BY <1>2, <1>10, <1>15, <1>16, WeakInv

\* The step WeaklingsProcessed preserves the invariant.
LEMMA WeaklingsProcessedInv ==
    ASSUME Inv, WeaklingsProcessed
    PROVE  Inv'
<1> DEFINE i == at.i
<1>1. pc = "weaklings" /\ i > RSize(mem) /\ mem.weakList = <<>> /\ Step(mem, "scavenged", Place)
  BY DEF WeaklingsProcessed, RSize
<1>2. /\ WeakLoop(mem, i) /\ HeapOK(mem)
      /\ i \in Nat \ {0} /\ RSize(mem) \in Nat
  BY <1>1, WeakPart
<1> HIDE DEF i
<1>3. Passed(mem, i) = 1 .. RSize(mem) /\ ~(i <= RSize(mem))
  BY <1>1, <1>2 DEF Passed
<1>4. KeptNew(mem, 1 .. RSize(mem))
  BY <1>2, <1>3 DEF WeakLoop
<1> DEFINE w == Place
           p == "scavenged"
<1>5. /\ w \in Walks /\ w.dest <= w.i /\ w.todo = <<>> /\ w.kept = <<>> /\ Step(mem, p, w)
      /\ p \in {"weaklings", "scavenged"} /\ p # "weaklings"
  BY <1>1, PlaceFields
<1> HIDE DEF w, p
<1> QED
  BY <1>1, <1>2, <1>3, <1>4, <1>5, WeakInv
================================================================================
