------------------------------- MODULE Scavenger -------------------------------
(***************************************************************************)
(* A scavenge of new space: SpurGenerationScavenger with VMRememberedSet   *)
(* and the stores and fired ephemerons of SpurMemoryManager.  Objects are  *)
(* cells of unit size at addresses in the order of the memory map: the two *)
(* survivor spaces, eden, old space, permanent space.  The sections of     *)
(* memory the collector works on are one record, so that the methods that  *)
(* call each other are operators from a memory to the memory they leave;   *)
(* each turn of one of the collector's loops is an action.                 *)
(***************************************************************************)
EXTENDS Naturals, FiniteSets, SequencesExt

CONSTANTS Survivor,      \* cells of each survivor space
          Eden, Old, Perm,          \* cells of the other spaces
          Images,        \* images to start with: [old, perm, eden, births, stores, scavenges]
          Slots,         \* the slots of an object of each kind
          Criteria,      \* what a scavenge may be asked for
          TenuringKind,  \* the class of TenureByClass
          TenureCells,   \* cells of a full survivor space below the threshold
          RedZone        \* size of the remembered set that is to shrink

Nil == 0                 \* nilObject, and every immediate: never moved
WeakFixed == 1           \* the named, strong slots of a weak object
MaxRTRefCount == 7

EdenStart == 2 * Survivor + 1
OldStart == EdenStart + Eden
PermStart == OldStart + Old
Addresses == 1 .. PermStart + Perm - 1

IsYoung(a) == a \in 1 .. OldStart - 1
IsOld(a) == a \in OldStart .. PermStart - 1
IsPerm(a) == a >= PermStart

ASSUME SizesAssumption ==
    /\ Survivor \in Nat \ {0} /\ Eden \in Nat \ {0} /\ Old \in Nat /\ Perm \in Nat
    /\ TenureCells \in 0 .. Survivor
    /\ RedZone \in Nat \ {0}
    /\ Criteria \subseteq {"ByAge", "ByClass", "DontTenure"}

\* An ephemeron has a key, a weak object its fixed slots.
ASSUME SlotsAssumption ==
    /\ \A kind \in DOMAIN Slots : Slots[kind] \in Nat
    /\ {"plain", "weak", "ephemeron"} \subseteq DOMAIN Slots
    /\ {"free", "forwarded"} \cap DOMAIN Slots = {}
    /\ Slots["ephemeron"] >= 1 /\ Slots["weak"] >= WeakFixed

\* Permanent space has neither weak objects nor ephemerons (mapOopsFromPermSpace
\* denies both), what an image starts with in eden refers to objects there, and
\* old space has room for all the objects there may ever be.
ASSUME ImagesAssumption ==
    \A image \in Images :
       LET allocated == EdenStart .. EdenStart + Len(image.eden) - 1
       IN  /\ image.old \in Seq(DOMAIN Slots)
           /\ image.perm \in Seq(DOMAIN Slots \ {"weak", "ephemeron"})
           /\ image.births \in Seq(DOMAIN Slots)
           /\ image.eden \in Seq([kind : DOMAIN Slots, bits : {0}, slots : Seq(allocated \cup {Nil})])
           /\ \A i \in DOMAIN image.eden : Len(image.eden[i].slots) = Slots[image.eden[i].kind]
           /\ image.stores \in Nat /\ image.scavenges \in Nat
           /\ Len(image.perm) <= Perm /\ Len(image.eden) <= Eden
           /\ Len(image.old) + Len(image.eden) + Len(image.births) <= Old

VARIABLES
    mem,           \* the heap and the collector's lists, see Memory
    roots,         \* oops on the interpreter's stack
    pc,            \* the loop of the collector, "mutator" between scavenges
    at,            \* the collector's place in that loop
    births,        \* bound: kinds the image still allocates
    stores,        \* bound: stores the image still does
    scavenges,     \* bound: scavenges it still asks for
    before         \* history: the memory and the roots when the scavenge began

vars == <<mem, roots, pc, at, births, stores, scavenges, before>>

\* bits: isGrey, isPinned, isRemembered; a reference count while a set shrinks.
Object(kind) == [kind |-> kind, bits |-> 0, slots |-> [i \in 1 .. Slots[kind] |-> Nil]]
Free == [kind |-> "free", bits |-> 0, slots |-> <<>>]

\* F(v), with v bound to its value: TLC computes it once.
With(v, F(_)) == CHOOSE r \in {F(x) : x \in {v}} : TRUE

\* The memory left by F on one member of a sequence after the other.
ForEach(m, s, F(_, _)) ==
    LET f[i \in 0 .. Len(s)] == IF i = 0 THEN m ELSE With(f[i - 1], LAMBDA n : F(n, s[i]))
    IN  f[Len(s)]

FutureStart(m) == IF m.past = 1 THEN Survivor + 1 ELSE 1
FutureLimit(m) == FutureStart(m) + Survivor
InFuture(m, a) == a \in FutureStart(m) .. m.survivorStart - 1

Cell(m, a) == m.heap[a]
Slot(m, a, i) == m.heap[a].slots[i]
IsKind(m, a, kind) == m.heap[a].kind = kind
Remembered(m, a) == m.heap[a].bits % 2 = 1

\* previous: previousFutureSurvivorStart; the corpses of a list still to look at,
\* and those left on it; whether an ephemeron was scavenged in this pass.
Place == [i |-> 1, dest |-> 1, previous |-> 0, firstTime |-> FALSE,
          todo |-> <<>>, kept |-> <<>>, scanned |-> FALSE]
Nothing == [heap |-> <<>>, roots |-> <<>>, mournQueue |-> <<>>, finalizations |-> 0]

Init ==
    \E image \in Images :
       /\ mem = [heap |-> [a \in Addresses |->
                    IF a - OldStart + 1 \in DOMAIN image.old /\ IsOld(a)
                    THEN Object(image.old[a - OldStart + 1])
                    ELSE IF a - PermStart + 1 \in DOMAIN image.perm
                    THEN Object(image.perm[a - PermStart + 1])
                    ELSE IF a - EdenStart + 1 \in DOMAIN image.eden
                    THEN image.eden[a - EdenStart + 1] ELSE Free],
                 past |-> 1, survivorStart |-> Survivor + 1,
                 freeStart |-> EdenStart + Len(image.eden),
                 rememberedSet |-> <<>>, previousSize |-> 0, ephemerons |-> 0,
                 weakList |-> <<>>, ephemeronList |-> <<>>, mournQueue |-> <<>>,
                 permToNew |-> <<>>, permToOld |-> <<>>, finalizations |-> 0,
                 criterion |-> "ByAge", threshold |-> 0, shrinkCount |-> 0]
       /\ births = image.births
       /\ stores = image.stores /\ scavenges = image.scavenges
       /\ roots = [i \in DOMAIN image.eden |-> EdenStart + i - 1]
       /\ pc = "mutator" /\ at = Place
       /\ before = Nothing

(***************************************************************************)
(* Copying an object and leaving its forwarding pointer.                   *)
(***************************************************************************)
FollowForwarded(m, a) == IF a # Nil /\ IsKind(m, a, "forwarded") THEN Slot(m, a, 1) ELSE a

IsScavengeSurvivor(m, a) ==
    LET target == FollowForwarded(m, a) IN ~IsYoung(target) \/ InFuture(m, target)

ShouldBeTenured(m, a) ==
    \/ m.criterion = "ByAge" /\ a < m.threshold
    \/ m.criterion = "ByClass" /\ IsKind(m, a, TenuringKind)
    \/ m.criterion = "ToShrinkRT" /\ Cell(m, a).bits >= m.shrinkCount

ShouldMournerBeTenured(m) == ~(m.criterion = "ByAge" /\ m.threshold = 0)

SetRemembered(m, a, flag) ==
    [m EXCEPT !.heap[a].bits = 2 * (@ \div 2) + (IF flag THEN 1 ELSE 0)]

Remember(m, a) ==
    [SetRemembered(m, a, TRUE) EXCEPT !.rememberedSet = Append(@, a)]

\* Mutant: the copy keeps the bits that hold a reference count.
CopyWithBits(m, a) == Cell(m, a)

\* The copy of an object: a reference count would be read as the bits it borrows.
CopyOf(m, a) == IF m.criterion = "ToShrinkRT" THEN [Cell(m, a) EXCEPT !.bits = 0] ELSE Cell(m, a)

Forward(m, a, new) ==
    [m EXCEPT !.heap[a].kind = "forwarded",
              !.heap[a].slots = <<new>>,
              !.heap[new] = CopyOf(m, a)]

CopyToFutureSpace(m, a) ==
    [Forward(m, a, m.survivorStart) EXCEPT !.survivorStart = @ + 1]

\* Old space grows when it has no chunk; here it has one.
OldChunk(m) == CHOOSE o \in Addresses : /\ IsOld(o) /\ IsKind(m, o, "free")
                                        /\ \A p \in OldStart .. o - 1 : ~IsKind(m, p, "free")

CopyToOldSpace(m, a) ==
    With(OldChunk(m), LAMBDA o :
        IF \E i \in DOMAIN Cell(m, a).slots : IsYoung(Slot(m, a, i))
        THEN Remember(Forward(m, a, o), o)
        ELSE Forward(m, a, o))

CopyTo(m, a, tenure) ==
    IF tenure \/ m.survivorStart + 1 > FutureLimit(m)
    THEN CopyToOldSpace(m, a) ELSE CopyToFutureSpace(m, a)

\* Corpses are threaded onto the lists, the last one first.
ThreadWeak(m, corpse, kind) ==
    IF kind = "weak" THEN [m EXCEPT !.weakList = <<corpse>> \o @] ELSE m

ThreadEphemeron(m, corpse, kind) ==
    IF kind = "ephemeron" /\ ~IsScavengeSurvivor(m, Slot(m, FollowForwarded(m, corpse), 1))
    THEN [m EXCEPT !.ephemeronList = <<corpse>> \o @] ELSE m

CopyAndForward(m, a) ==
    With(CopyTo(m, a, ShouldBeTenured(m, a)), LAMBDA n :
        ThreadEphemeron(ThreadWeak(n, a, Cell(m, a).kind), a, Cell(m, a).kind))

CopyAndForwardMourner(m, a) ==
    ThreadWeak(CopyTo(m, a, ShouldMournerBeTenured(m)), a, Cell(m, a).kind)

\* remapObj: of an oop the interpreter holds; what it answers is FollowForwarded of it.
Remap(m, a) == IF IsScavengeSurvivor(m, a) THEN m ELSE CopyAndForward(m, FollowForwarded(m, a))

(***************************************************************************)
(* Scanning an object.                                                     *)
(***************************************************************************)
\* An ephemeron that is not to be scanned yet.
IsUnfired(m, a) == IsKind(m, a, "ephemeron") /\ ~IsScavengeSurvivor(m, Slot(m, a, 1))

NumStrongSlotsOf(m, a) ==
    IF IsKind(m, a, "weak") THEN WeakFixed
    ELSE IF IsUnfired(m, a) THEN 0
    ELSE Len(Cell(m, a).slots)

ScavengeSlot(m, a, i) ==
    With(Remap(m, Slot(m, a, i)), LAMBDA n :
        [n EXCEPT !.heap[a].slots[i] = FollowForwarded(n, @)])

\* scavengeReferentsOf: without its answer.
ScavengeReferentsOf(m, a) ==
    ForEach(m, [i \in 1 .. NumStrongSlotsOf(m, a) |-> i], LAMBDA n, i : ScavengeSlot(n, a, i))

\* Its answer, asked of the memory it left: a new referent, or a weak object.
KeepsNew(n, a) ==
    \/ IsKind(n, a, "weak")
    \/ \E i \in 1 .. NumStrongSlotsOf(n, a) : IsYoung(Slot(n, a, i))

(***************************************************************************)
(* VMRememberedSet.                                                        *)
(***************************************************************************)
MoveNewEphemeron(m, e, dest) ==
    [m EXCEPT !.rememberedSet[dest] = m.rememberedSet[m.ephemerons + 1],
              !.rememberedSet[m.ephemerons + 1] = e,
              !.ephemerons = @ + 1]

RemoveLastEphemeronAndKeepIn(m, i) ==
    [m EXCEPT !.rememberedSet[i] = m.rememberedSet[m.ephemerons], !.ephemerons = @ - 1]

RemoveLastEphemeronTo(m, i, e) ==
    [RemoveLastEphemeronAndKeepIn(m, i) EXCEPT !.rememberedSet[m.ephemerons] = e]

\* The hole of a scanned entry is filled by the last scanned one, its by the last one.
RemoveByIndexUsingPreviousSize(m, i) ==
    [m EXCEPT !.rememberedSet =
                  Front([@ EXCEPT ![i] = m.rememberedSet[m.previousSize],
                                  ![m.previousSize] = Last(m.rememberedSet)]),
              !.previousSize = @ - 1]

RemoveLastEphemeronAndMoveTo(m, i) ==
    RemoveByIndexUsingPreviousSize(RemoveLastEphemeronAndKeepIn(m, i), m.ephemerons)

KeepSameSize(m) == m.previousSize = Len(m.rememberedSet)

(***************************************************************************)
(* The image between scavenges.                                            *)
(***************************************************************************)
Grown(S, next(_)) == S \cup UNION {next(a) : a \in S}

\* The closure of a set of addresses.
Closure(S, next(_)) ==
    LET f[n \in 0 .. Cardinality(Addresses)] == IF n = 0 THEN S ELSE Grown(f[n - 1], next)
    IN  f[Cardinality(Addresses)]

Permanent(heap) == {a \in Addresses : ~IsYoung(a) /\ heap[a].kind # "free"}

\* What the image can get at; whatever is in old space it holds.
Accessible ==
    Closure((ToSet(roots) \cup Permanent(mem.heap)) \ {Nil},
            LAMBDA a : {Slot(mem, a, i) : i \in DOMAIN Cell(mem, a).slots} \ {Nil})

\* The write barrier of storePointer:ofObject:withValue:.
RememberStore(m, a, value) ==
    IF IsOld(a) /\ IsYoung(value) /\ ~Remembered(m, a) THEN Remember(m, a)
    ELSE IF IsPerm(a) /\ value # Nil /\ ~IsPerm(value) /\ ~Remembered(m, a)
    THEN [SetRemembered(m, a, TRUE) EXCEPT !.permToNew = Append(@, a)]
    ELSE m

StorePointer(a, i, value) ==
    /\ mem' = [RememberStore(mem, a, value) EXCEPT !.heap[a].slots[i] = value]
    /\ stores' = stores - 1
    /\ UNCHANGED <<roots, pc, at, births, scavenges, before>>

AllocateNewSpace ==
    /\ pc = "mutator" /\ births # <<>> /\ mem.freeStart < OldStart
    /\ mem' = [mem EXCEPT !.heap[mem.freeStart] = Object(Head(births)), !.freeStart = @ + 1]
    /\ roots' = Append(roots, mem.freeStart)
    /\ births' = Tail(births)
    /\ UNCHANGED <<pc, at, stores, scavenges, before>>

DequeueMourner ==
    /\ pc = "mutator" /\ mem.mournQueue # <<>>
    /\ mem' = [mem EXCEPT !.mournQueue = Front(@)]
    /\ roots' = Append(roots, Last(mem.mournQueue))
    /\ UNCHANGED <<pc, at, births, stores, scavenges, before>>

(***************************************************************************)
(* scavenge: up to its loop.                                               *)
(***************************************************************************)
\* How many slots of remembered objects refer to a young object.
ReferenceCount(m, a) ==
    Min({MaxRTRefCount,
         Cardinality({place \in (1 .. Len(m.rememberedSet)) \X (1 .. 2) :
             LET referrer == m.rememberedSet[place[1]]
             IN  /\ place[2] \in DOMAIN Cell(m, referrer).slots
                 /\ Slot(m, referrer, place[2]) = a})})

\* The largest count that half of the counted objects have; beyond the counts
\* when half of them are none.
RefCountToShrinkRT(count) ==
    LET AtLeast(c) == Cardinality({a \in DOMAIN count : count[a] >= c})
        half == AtLeast(1) \div 2
    IN  IF half = 0 THEN MaxRTRefCount + 1
        ELSE Max({c \in 1 .. MaxRTRefCount : AtLeast(c) >= half})

StrategizeToLimitRememberedSet(m) ==
    IF m.criterion = "ByAge" /\ Len(m.rememberedSet) >= RedZone
    THEN LET count == [a \in 1 .. OldStart - 1 |-> ReferenceCount(m, a)]
         IN  [m EXCEPT !.criterion = "ToShrinkRT",
                       !.shrinkCount = RefCountToShrinkRT(count),
                       !.heap = [a \in Addresses |-> IF a \in DOMAIN count
                                    THEN [@[a] EXCEPT !.bits = count[a]] ELSE @[a]]]
    ELSE m

StartingLoop(m, criterion) ==
    [m EXCEPT !.criterion = criterion, !.weakList = <<>>, !.ephemeronList = <<>>,
              !.ephemerons = 0, !.previousSize = 0]

\* held: what the interpreter's stack still refers to when it asks for the scavenge.
Scavenge(held, criterion) ==
    /\ pc = "mutator" /\ scavenges > 0
    /\ mem' = StrategizeToLimitRememberedSet(StartingLoop(mem, criterion))
    /\ roots' = [i \in DOMAIN roots |-> IF roots[i] \in held THEN roots[i] ELSE Nil]
    /\ before' = [heap |-> mem.heap, roots |-> roots', mournQueue |-> mem.mournQueue,
                   finalizations |-> mem.finalizations]
    /\ pc' = "remembered"
    /\ at' = [Place EXCEPT !.previous = mem.survivorStart, !.firstTime = TRUE]
    /\ scavenges' = scavenges - 1
    /\ UNCHANGED <<births, stores>>

(***************************************************************************)
(* scavengeLoop: remembered objects, roots, future space.                  *)
(***************************************************************************)
Step(m, to, place) ==
    /\ mem' = m /\ pc' = to /\ at' = place
    /\ UNCHANGED <<roots, births, stores, scavenges, before>>

From(i) == [Place EXCEPT !.previous = at.previous, !.i = i, !.dest = i]
Next1 == [at EXCEPT !.i = @ + 1]
NoEphemerons(m) == m.ephemerons = 0 /\ m.ephemeronList = <<>>

\* The first test of the loop: nothing copied, remembered or left to process.
NothingNew(m) == KeepSameSize(m) /\ at.previous = m.survivorStart /\ NoEphemerons(m)

ScavengeRememberedSet ==
    /\ pc = "remembered" /\ at.i <= Len(mem.rememberedSet)
    /\ \E referrer \in {mem.rememberedSet[at.i]} :
          LET kept == [Next1 EXCEPT !.dest = @ + 1]
          IN  IF IsUnfired(mem, referrer)
              THEN Step(MoveNewEphemeron(mem, referrer, at.dest), "remembered", kept)
              ELSE \E n \in {ScavengeReferentsOf(mem, referrer)} :
                      IF KeepsNew(n, referrer)
                      THEN Step([n EXCEPT !.rememberedSet[at.dest] = referrer], "remembered", kept)
                      ELSE Step(SetRemembered(n, referrer, FALSE), "remembered", Next1)

RememberedSetScavenged ==
    /\ pc = "remembered" /\ at.i > Len(mem.rememberedSet)
    /\ \E n \in {[mem EXCEPT !.rememberedSet = SubSeq(@, 1, at.dest - 1),
                            !.previousSize = at.dest - 1]} :
           IF at.firstTime THEN Step(n, "roots", at)
           ELSE IF NothingNew(n) THEN Step(n, "weaklings", From(1))
           ELSE Step(n, "future", From(at.previous))

MapInterpreterOops(m) == ForEach(m, roots, Remap)

MapMourner(m, a) == IF IsScavengeSurvivor(m, a) THEN m ELSE CopyAndForwardMourner(m, a)
MapMournQueue(m) == ForEach(m, Reverse(m.mournQueue), MapMourner)

Followed(m, s) == [i \in DOMAIN s |-> FollowForwarded(m, s[i])]

\* A referrer stays while it refers to new space, and is handed on when it
\* refers to old space only.
MapPermReferrer(m, a) ==
    With(ScavengeReferentsOf(m, a), LAMBDA n :
        IF KeepsNew(n, a) THEN [n EXCEPT !.permToNew = Append(@, a)]
        ELSE IF \E i \in DOMAIN Cell(n, a).slots : IsOld(Slot(n, a, i))
        THEN [SetRemembered(n, a, FALSE) EXCEPT !.permToOld = Append(@, a)]
        ELSE SetRemembered(n, a, FALSE))

MapOopsFromPermSpace(m) ==
    ForEach([m EXCEPT !.permToNew = <<>>], m.permToNew, MapPermReferrer)

MapRoots ==
    /\ pc = "roots"
    /\ \E m \in {MapMournQueue(MapInterpreterOops(mem))} :
       \E n \in {MapOopsFromPermSpace([m EXCEPT !.mournQueue = Followed(m, @)])} :
          /\ mem' = n
          /\ roots' = Followed(n, roots)
          /\ IF NothingNew(n) THEN pc' = "weaklings" /\ at' = From(1)
             ELSE pc' = "future" /\ at' = From(at.previous)
    /\ UNCHANGED <<births, stores, scavenges, before>>

ScavengeFutureSpace ==
    /\ pc = "future" /\ at.i < mem.survivorStart
    /\ Step(ScavengeReferentsOf(mem, at.i), "future", Next1)

\* The second test: no more roots, and then no more ephemerons.
FutureSpaceScavenged ==
    /\ pc = "future" /\ at.i = mem.survivorStart
    /\ LET there == [From(1) EXCEPT !.previous = mem.survivorStart]
       IN  IF ~KeepSameSize(mem)
           THEN Step(mem, "remembered", [there EXCEPT !.i = mem.previousSize + 1,
                                                      !.dest = mem.previousSize + 1])
           ELSE IF NoEphemerons(mem) THEN Step(mem, "weaklings", there)
           ELSE Step(mem, "unfired", there)

(***************************************************************************)
(* processEphemerons: those whose keys survived, else all the others.      *)
(***************************************************************************)
ScavengeUnfiredInRememberedSet ==
    /\ pc = "unfired" /\ at.i <= mem.ephemerons
    /\ \E referrer \in {mem.rememberedSet[at.i]} :
          LET scanned == [at EXCEPT !.scanned = TRUE]
          IN  IF IsUnfired(mem, referrer)
              THEN Step(mem, "unfired", Next1)
              ELSE \E n \in {ScavengeReferentsOf(mem, referrer)} :
                      IF KeepsNew(n, referrer)
                      THEN Step(RemoveLastEphemeronTo(n, at.i, referrer), "unfired", scanned)
                      ELSE Step(SetRemembered(RemoveLastEphemeronAndMoveTo(n, at.i), referrer, FALSE),
                                "unfired", scanned)

\* The corpses found from here on go to a new list.
TakeList(m, to) ==
    Step([m EXCEPT !.ephemeronList = <<>>], to, [at EXCEPT !.i = 1, !.todo = m.ephemeronList])

UnfiredInRememberedSetScavenged ==
    /\ pc = "unfired" /\ at.i > mem.ephemerons
    /\ TakeList(mem, "unfired_list")

ScavengeUnfiredOnEphemeronList ==
    /\ pc = "unfired_list" /\ at.todo # <<>>
    /\ \E e \in {FollowForwarded(mem, Head(at.todo))} :
          LET after == [at EXCEPT !.todo = Tail(@)]
          IN  IF IsUnfired(mem, e)
              THEN Step(mem, "unfired_list", [after EXCEPT !.kept = Append(@, Head(at.todo))])
              ELSE Step(ScavengeReferentsOf(mem, e), "unfired_list", [after EXCEPT !.scanned = TRUE])

ToRememberedSet(m) == Step(m, "remembered", From(m.previousSize + 1))

\* Mutant: the corpses found during the walk are forgotten.
ListReplaced ==
    /\ pc = "unfired_list" /\ at.todo = <<>>
    /\ \E n \in {[mem EXCEPT !.ephemeronList = at.kept]} :
           IF at.scanned THEN ToRememberedSet(n) ELSE Step(n, "fire", From(1))

\* Mutant: the ephemerons that were kept fire at once.
FiresAtOnce ==
    /\ pc = "unfired_list" /\ at.todo = <<>>
    /\ Step([mem EXCEPT !.ephemeronList = at.kept \o @], "fire", From(1))

\* Mutant: a pass over kept ephemerons is taken for one that scavenged some.
NeverFires ==
    /\ pc = "unfired_list" /\ at.todo = <<>>
    /\ ToRememberedSet([mem EXCEPT !.ephemeronList = at.kept \o @])

UnfiredOnEphemeronListScavenged ==
    /\ pc = "unfired_list" /\ at.todo = <<>>
    /\ \E n \in {[mem EXCEPT !.ephemeronList = at.kept \o @]} :
           IF at.scanned THEN ToRememberedSet(n) ELSE Step(n, "fire", From(1))

\* fireEphemeron: queues a mourner, which is no ephemeron from then on.
FireEphemeron(m, e) ==
    [m EXCEPT !.mournQueue = Append(@, e), !.heap[e].kind = "plain", !.finalizations = @ + 1]

FireAndCopyKey(m, e) ==
    With(CopyAndForward(FireEphemeron(m, e), Slot(m, e, 1)), LAMBDA n :
        [n EXCEPT !.heap[e].slots[1] = FollowForwarded(n, @)])

\* A key that an earlier ephemeron saved fires no other.
FireAndScavenge(m, e) ==
    With(IF IsScavengeSurvivor(m, Slot(m, e, 1)) THEN m ELSE FireAndCopyKey(m, e),
         LAMBDA n : ScavengeReferentsOf(n, e))

FireInRememberedSet ==
    /\ pc = "fire" /\ at.i <= mem.ephemerons
    /\ \E e \in {mem.rememberedSet[at.i]} :
       \E n \in {FireAndScavenge(mem, e)} :
           IF KeepsNew(n, e) THEN Step(n, "fire", Next1)
           ELSE Step(RemoveLastEphemeronAndMoveTo(SetRemembered(n, e, FALSE), at.i), "fire", at)

FiredInRememberedSet ==
    /\ pc = "fire" /\ at.i > mem.ephemerons
    /\ TakeList([mem EXCEPT !.ephemerons = 0], "fire_list")

FireOnEphemeronList ==
    /\ pc = "fire_list" /\ at.todo # <<>>
    /\ Step(FireAndScavenge(mem, FollowForwarded(mem, Head(at.todo))), "fire_list",
            [at EXCEPT !.todo = Tail(@)])

FiredOnEphemeronList ==
    /\ pc = "fire_list" /\ at.todo = <<>>
    /\ ToRememberedSet(mem)

(***************************************************************************)
(* processWeaklings, and the end of the scavenge.                          *)
(***************************************************************************)
HasYoungReferents(m, a) == \E i \in DOMAIN Cell(m, a).slots : IsYoung(Slot(m, a, i))

\* What did not survive is nilled, and the image is told that something was.
ProcessWeakSurvivor(m, w) ==
    LET dead == {i \in WeakFixed + 1 .. Len(Cell(m, w).slots) : ~IsScavengeSurvivor(m, Slot(m, w, i))}
    IN  [m EXCEPT !.heap[w].slots = [i \in DOMAIN @ |-> IF i \in dead THEN Nil
                                        ELSE FollowForwarded(m, @[i])],
                  !.finalizations = @ + IF dead = {} THEN 0 ELSE 1]

ForgetByIndex(m, i) ==
    [m EXCEPT !.rememberedSet = Front([@ EXCEPT ![i] = Last(m.rememberedSet)])]

ProcessRememberedWeaklings ==
    /\ pc = "weaklings" /\ at.i <= Len(mem.rememberedSet)
    /\ \E rootObj \in {mem.rememberedSet[at.i]} :
          IF ~IsKind(mem, rootObj, "weak") THEN Step(mem, "weaklings", Next1)
          ELSE \E n \in {ProcessWeakSurvivor(mem, rootObj)} :
                  IF HasYoungReferents(n, rootObj) THEN Step(n, "weaklings", Next1)
                  ELSE Step(ForgetByIndex(SetRemembered(n, rootObj, FALSE), at.i), "weaklings", at)

\* A tenured weak object that is not remembered yet may have to be.
ProcessWeakList ==
    /\ pc = "weaklings" /\ at.i > Len(mem.rememberedSet) /\ mem.weakList # <<>>
    /\ \E w \in {FollowForwarded(mem, Head(mem.weakList))} :
       \E n \in {[ProcessWeakSurvivor(mem, w) EXCEPT !.weakList = Tail(@)]} :
          IF HasYoungReferents(n, w) /\ IsOld(w) /\ ~Remembered(n, w)
          THEN Step(Remember(n, w), "weaklings", Next1)
          ELSE Step(n, "weaklings", at)

WeaklingsProcessed ==
    /\ pc = "weaklings" /\ at.i > Len(mem.rememberedSet) /\ mem.weakList = <<>>
    /\ Step(mem, "scavenged", Place)

\* More than nine tenths of the space full.
FutureSpaceIsFull(m) == 10 * (m.survivorStart - FutureStart(m)) > 9 * Survivor

\* With the spaces exchanged, what lies in eden and in the new future space is
\* no object any more.
ExchangeSurvivorSpaces ==
    /\ pc = "scavenged"
    /\ mem' = [mem EXCEPT
          !.threshold = IF FutureSpaceIsFull(mem) THEN TenureCells + FutureStart(mem) ELSE 0,
          !.past = FutureStart(mem),
          !.survivorStart = mem.past,
          !.freeStart = EdenStart,
          !.heap = [a \in Addresses |-> IF IsYoung(a) /\ ~InFuture(mem, a) THEN Free ELSE @[a]],
          !.previousSize = 0, !.shrinkCount = 0]
    /\ pc' = "mutator" /\ at' = Place /\ before' = Nothing
    /\ UNCHANGED <<roots, births, stores, scavenges>>

Mutate ==
    \/ AllocateNewSpace
    \/ DequeueMourner
    \/ /\ pc = "mutator" /\ stores > 0
       /\ \E accessible \in {Accessible} :
             \E a \in accessible, value \in accessible \cup {Nil} :
                \E i \in DOMAIN Cell(mem, a).slots : StorePointer(a, i, value)
    \/ \E held \in SUBSET (ToSet(roots) \ {Nil}), criterion \in Criteria : Scavenge(held, criterion)

Collect ==
    \/ ScavengeRememberedSet
    \/ RememberedSetScavenged
    \/ MapRoots
    \/ ScavengeFutureSpace
    \/ FutureSpaceScavenged
    \/ ScavengeUnfiredInRememberedSet
    \/ UnfiredInRememberedSetScavenged
    \/ ScavengeUnfiredOnEphemeronList
    \/ UnfiredOnEphemeronListScavenged
    \/ FireInRememberedSet
    \/ FiredInRememberedSet
    \/ FireOnEphemeronList
    \/ FiredOnEphemeronList
    \/ ProcessRememberedWeaklings
    \/ ProcessWeakList
    \/ WeaklingsProcessed
    \/ ExchangeSurvivorSpaces

Next == Mutate \/ Collect

\* The interpreter waits for the scavenge it asked for.
Spec == Init /\ [][Next]_vars /\ WF_vars(Collect)

Kinds == DOMAIN Slots \cup {"free", "forwarded"}
Oops == Addresses \cup {Nil}

\* The type of the state.
TypeOK ==
    /\ \A a \in Addresses :
          /\ Cell(mem, a).kind \in Kinds /\ Cell(mem, a).bits \in 0 .. MaxRTRefCount
          /\ Range(Cell(mem, a).slots) \subseteq Oops
    /\ mem.past \in {1, Survivor + 1}
    /\ mem.survivorStart \in FutureStart(mem) .. FutureLimit(mem)
    /\ mem.freeStart \in EdenStart .. OldStart
    /\ mem.ephemerons \in 0 .. Len(mem.rememberedSet)
    /\ ToSet(mem.rememberedSet) \subseteq {a \in Addresses : IsOld(a)}
    /\ ToSet(mem.permToNew \o mem.permToOld) \subseteq {a \in Addresses : IsPerm(a)}
    /\ ToSet(mem.mournQueue \o roots) \subseteq Oops
    /\ at.i \in Nat \ {0} /\ at.dest <= at.i

(***************************************************************************)
(* What a scavenge owes the image, told from the heap it began with.  The  *)
(* corpses are still in place when "scavenged".                            *)
(***************************************************************************)
Was(a) == before.heap[a]
Now(a) == FollowForwarded(mem, a)

StrongSlots(kind, n) == IF kind = "weak" THEN 1 .. WeakFixed ELSE 1 .. n

\* What the roots hold if an ephemeron with an unheld key holds nothing, those
\* of the set ordinary apart.
HeldWith(ordinary) ==
    LET Strong(a, S) ==
            IF /\ Was(a).kind = "ephemeron" /\ a \notin ordinary
               /\ IsYoung(Was(a).slots[1]) /\ Was(a).slots[1] \notin S
            THEN {}
            ELSE {Was(a).slots[i] : i \in StrongSlots(Was(a).kind, Len(Was(a).slots))} \ {Nil}
        f[n \in 0 .. Cardinality(Addresses)] ==
            IF n = 0
            THEN (ToSet(before.roots) \cup ToSet(before.mournQueue) \cup Permanent(before.heap))
                    \ {Nil}
            ELSE LET S == f[n - 1] IN S \cup UNION {Strong(a, S) : a \in S}
    IN  f[Cardinality(Addresses)]

Ephemerons == {a \in Addresses : Was(a).kind = "ephemeron"}
Survivors == HeldWith(Ephemerons)
Fired == {a \in Ephemerons \cap Survivors : IsKind(mem, Now(a), "plain")}

Clears(a, i) == /\ Was(a).kind = "weak" /\ i > WeakFixed
                /\ Was(a).slots[i] \notin Survivors
Lost == {a \in Survivors : \E i \in DOMAIN Was(a).slots : Clears(a, i) /\ Was(a).slots[i] # Nil}

\* The image finds the graph of objects it held, each object once and at one
\* new place, less the weak references to what nothing else held; and only that
\* is kept (scavengeLoop's closure over four lists that grow while they are
\* walked).
GraphIsPreserved ==
    pc = "scavenged" =>
        /\ \A a \in Survivors :
              /\ IsScavengeSurvivor(mem, a)
              /\ \A b \in Survivors : Now(a) = Now(b) => a = b
              /\ Cell(mem, Now(a)).kind = IF a \in Fired THEN "plain" ELSE Was(a).kind
              /\ \A i \in DOMAIN Was(a).slots :
                    Slot(mem, Now(a), i) = IF Clears(a, i) THEN Nil ELSE Now(Was(a).slots[i])
        /\ \A a \in 1 .. OldStart - 1 : IsKind(mem, a, "forwarded") => a \in Survivors
        /\ roots = Followed(mem, before.roots)

\* An ephemeron fires only if its key was held by nothing but ephemerons like
\* it; with the fired ones as ordinary objects no other key is in danger; and
\* each of them, and no other, has become a mourner, once, with a signal.
EphemeronsFireForTheDying ==
    pc = "scavenged" =>
        /\ \A e \in Fired : Was(e).slots[1] \notin HeldWith({})
        /\ \A e \in (Ephemerons \cap Survivors) \ Fired :
              IsYoung(Was(e).slots[1]) => Was(e).slots[1] \in HeldWith(Fired)
        /\ LET known == Len(before.mournQueue)
           IN  /\ Len(mem.mournQueue) = known + Cardinality(Fired)
               /\ SubSeq(mem.mournQueue, 1, known) = Followed(mem, before.mournQueue)
               /\ {mem.mournQueue[i] : i \in known + 1 .. Len(mem.mournQueue)} = {Now(e) : e \in Fired}
        /\ mem.finalizations = before.finalizations + Cardinality(Fired) + Cardinality(Lost)

\* Between scavenges an object of old space that refers to new space is in the
\* remembered set, one of permanent space in the set the scavenger reads, or in
\* the other one if it refers to old space only; the bit of an object says that
\* it is in its set, once; and a scavenge leaves none that need not be there.
RememberedSetsAreSound ==
    /\ TypeOK
    /\ pc \in {"mutator", "scavenged"} =>
        \A a \in Permanent(mem.heap) :
            LET set == IF IsOld(a) THEN mem.rememberedSet ELSE mem.permToNew
                times == Cardinality({i \in DOMAIN set : set[i] = a})
                refersToOld == \E i \in DOMAIN Cell(mem, a).slots : IsOld(Slot(mem, a, i))
            IN  /\ times = IF Remembered(mem, a) THEN 1 ELSE 0
                /\ HasYoungReferents(mem, a) => Remembered(mem, a)
                /\ pc = "scavenged" /\ Remembered(mem, a) => HasYoungReferents(mem, a)
                /\ IsPerm(a) /\ refersToOld => Remembered(mem, a) \/ a \in ToSet(mem.permToOld)

\* A scavenge ends (no list, set or space that it walks grows for ever).
ScavengesEnd == pc # "mutator" ~> pc = "mutator"
================================================================================
