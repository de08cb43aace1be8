---------------------------- MODULE SchedulerProofs ----------------------------
(***************************************************************************)
(* Proofs about Scheduler, for any processes, priorities, semaphores,      *)
(* sections and events.  The operators on the scheduler's record come      *)
(* first, with what each keeps of the lists; the actions follow from them. *)
(***************************************************************************)
EXTENDS Scheduler, Integers, TLAPS, SequenceTheorems

SchedType ==
    [active : Procs, highest : 0..MaxLevel, ready : [Levels -> Seq(Procs)],
     waiting : [Gates -> Seq(Procs)], myList : [Procs -> Levels \cup Gates \cup {NULL}]]

\* NobodyPassedOver, of any record.
Above(s) == s.highest # 0 => \A l \in Levels : l > s.highest => s.ready[l] = <<>>

IInv == TypeOK /\ NobodyPassedOver /\ NobodyWaitsForWhatIsThere /\ ReturnsToItsCallout

----------------------------------------------------------------------------
(* What the operators do to a record.                                       *)

\* The idle process makes for one priority at least.
LEMMA LevelFacts == MaxLevel \in Nat /\ Levels \subseteq Nat /\ 0 \notin Levels
                    /\ \A l \in 0..MaxLevel : l # 0 => l \in Levels
BY ConstantsAssumption DEF Levels

LEMMA PutToSleepFacts ==
    ASSUME priority \in [Procs -> Levels],
           NEW s \in SchedType, NEW p \in Procs, NEW b \in BOOLEAN
    PROVE  LET t == PutToSleep(s, p, b)
           IN  /\ t \in SchedType
               /\ t.waiting = s.waiting /\ t.active = s.active
               /\ \A q \in Procs : t.myList[q] = IF q = p THEN priority[p] ELSE s.myList[q]
               /\ \A k \in Levels : t.ready[k] =
                     IF k # priority[p] THEN s.ready[k]
                     ELSE IF b THEN Append(s.ready[k], p) ELSE <<p>> \o s.ready[k]
               /\ Above(s) => Above(t)
<1> DEFINE l == priority[p]
           h == IF s.highest # 0 /\ l > s.highest THEN l ELSE s.highest
           r == IF b THEN Append(s.ready[l], p) ELSE <<p>> \o s.ready[l]
           t == PutToSleep(s, p, b)
<1>1. l \in Levels /\ h \in 0..MaxLevel /\ r \in Seq(Procs)
  BY LevelFacts DEF SchedType, Levels
<1>2. /\ t.active = s.active /\ t.waiting = s.waiting /\ t.highest = h
      /\ t.ready = [s.ready EXCEPT ![l] = r] /\ t.myList = [s.myList EXCEPT ![p] = l]
  BY DEF PutToSleep, SchedType
<1>5. /\ \A q \in Procs : t.myList[q] = IF q = p THEN l ELSE s.myList[q]
      /\ \A k \in Levels : t.ready[k] = IF k = l THEN r ELSE s.ready[k]
  BY <1>1, <1>2 DEF SchedType
<1>3. t \in SchedType
  BY <1>1 DEF PutToSleep, SchedType
<1>4. Above(s) => Above(t)
  BY <1>1, <1>2, LevelFacts DEF SchedType, Above, Levels
<1> QED
  BY <1>2, <1>3, <1>4, <1>5

LEMMA TransferToFacts ==
    ASSUME NEW s \in SchedType, NEW p \in Procs
    PROVE  LET t == TransferTo(s, p)
           IN  /\ t \in SchedType
               /\ t.waiting = s.waiting /\ t.active = p /\ t.ready = s.ready
               /\ t.highest = s.highest
               /\ \A q \in Procs : t.myList[q] = IF q = p THEN NULL ELSE s.myList[q]
               /\ Above(s) => Above(t)
<1> DEFINE t == TransferTo(s, p)
<1>1. /\ t.active = p /\ t.highest = s.highest /\ t.ready = s.ready
      /\ t.waiting = s.waiting /\ t \in SchedType
      /\ \A q \in Procs : t.myList[q] = IF q = p THEN NULL ELSE s.myList[q]
  BY DEF TransferTo, SchedType
<1> QED
  BY <1>1 DEF Above

LEMMA ResumeFacts ==
    ASSUME priority \in [Procs -> Levels],
           NEW s \in SchedType, NEW p \in Procs
    PROVE  LET t == Resume(s, p)
           IN  t \in SchedType /\ t.waiting = s.waiting /\ (Above(s) => Above(t))
<1>1. CASE priority[p] <= priority[s.active]
  BY <1>1, PutToSleepFacts DEF Resume
<1>2. CASE ~(priority[p] <= priority[s.active])
  <2> DEFINE u == PutToSleep(s, s.active, PreemptionYields)
  <2>1. s.active \in Procs
    BY DEF SchedType
  <2>2. u \in SchedType /\ u.waiting = s.waiting /\ (Above(s) => Above(u))
    <3>1. PreemptionYields \in BOOLEAN
      BY ConstantsAssumption
    <3> QED
      BY <2>1, <3>1, PutToSleepFacts
  <2> QED
    BY <1>2, <2>2, TransferToFacts DEF Resume
<1> QED
  BY <1>1, <1>2

\* The first process of a gate's list is taken off.
LEMMA RemoveFirstFacts ==
    ASSUME NEW s \in SchedType, NEW g \in Gates, s.waiting[g] # <<>>
    PROVE  LET t == RemoveFirst(s, g)
           IN  /\ t \in SchedType
               /\ \A h \in Gates : t.waiting[h] = IF h = g THEN Tail(s.waiting[g])
                                                          ELSE s.waiting[h]
               /\ t.active = s.active /\ t.ready = s.ready /\ t.highest = s.highest
               /\ t.myList = s.myList
               /\ Above(s) => Above(t)
               /\ Head(s.waiting[g]) \in Procs
<1> DEFINE t == RemoveFirst(s, g)
<1>1. Head(s.waiting[g]) \in Procs /\ Tail(s.waiting[g]) \in Seq(Procs)
  BY DEF SchedType
<1>2. /\ t.active = s.active /\ t.highest = s.highest /\ t.ready = s.ready
      /\ t.myList = s.myList
      /\ \A h \in Gates : t.waiting[h] = IF h = g THEN Tail(s.waiting[g]) ELSE s.waiting[h]
  BY DEF RemoveFirst, SchedType
<1>3. t \in SchedType
  BY <1>1 DEF RemoveFirst, SchedType
<1> QED
  BY <1>1, <1>2, <1>3 DEF Above

LEMMA QueueFacts ==
    ASSUME NEW s \in SchedType, NEW p \in Procs, NEW g \in Gates
    PROVE  LET t == Queue(s, p, g)
           IN  /\ t \in SchedType
               /\ \A h \in Gates : t.waiting[h] = IF h = g THEN Append(s.waiting[g], p)
                                                          ELSE s.waiting[h]
               /\ t.active = s.active /\ t.ready = s.ready /\ t.highest = s.highest
               /\ \A q \in Procs : t.myList[q] = IF q = p THEN g ELSE s.myList[q]
               /\ Above(s) => Above(t)
<1> DEFINE t == Queue(s, p, g)
<1>1. /\ t.active = s.active /\ t.highest = s.highest /\ t.ready = s.ready
      /\ \A h \in Gates : t.waiting[h] = IF h = g THEN Append(s.waiting[g], p)
                                                 ELSE s.waiting[h]
      /\ \A q \in Procs : t.myList[q] = IF q = p THEN g ELSE s.myList[q]
  BY DEF Queue, SchedType
<1>2. t \in SchedType
  <2>1. Append(s.waiting[g], p) \in Seq(Procs) /\ g \in Levels \cup Gates \cup {NULL}
    BY DEF SchedType
  <2> QED
    BY <2>1 DEF Queue, SchedType
<1> QED
  BY <1>1, <1>2 DEF Above

LEMMA JoinFacts ==
    ASSUME NEW s \in SchedType, NEW p \in Procs, NEW l \in Levels, s.ready[l] # <<>>
    PROVE  LET t == Join(s, p, l)
           IN  /\ t \in SchedType
               /\ \A k \in Levels : t.ready[k] = IF k = l THEN Append(s.ready[l], p)
                                                          ELSE s.ready[k]
               /\ t.active = s.active /\ t.waiting = s.waiting /\ t.highest = s.highest
               /\ \A q \in Procs : t.myList[q] = IF q = p THEN l ELSE s.myList[q]
               /\ Above(s) => Above(t)
<1> DEFINE t == Join(s, p, l)
<1>1. Append(s.ready[l], p) \in Seq(Procs) /\ l \in Levels \cup Gates \cup {NULL}
  BY DEF SchedType
<1>2. /\ t.active = s.active /\ t.highest = s.highest /\ t.waiting = s.waiting
      /\ \A k \in Levels : t.ready[k] = IF k = l THEN Append(s.ready[l], p) ELSE s.ready[k]
      /\ \A q \in Procs : t.myList[q] = IF q = p THEN l ELSE s.myList[q]
  BY DEF Join, SchedType
<1>3. t \in SchedType
  BY <1>1 DEF Join, SchedType
<1> QED
  BY <1>2, <1>3 DEF Above

\* A list without one of its members.
LEMMA WithoutFacts ==
    ASSUME NEW S, NEW q \in Seq(S), NEW i \in 1..Len(q)
    PROVE  Without(q, i) \in Seq(S) /\ q # <<>>
<1>1. SubSeq(q, 1, i - 1) \in Seq(S) /\ SubSeq(q, i + 1, Len(q)) \in Seq(S)
  BY SubSeqProperties
<1> QED
  BY <1>1 DEF Without

LEMMA RemoveProcessFacts ==
    ASSUME NEW s \in SchedType, NEW p \in Procs, NEW i,
           LET m == s.myList[p]
           IN  \/ m \in Levels /\ i \in 1..Len(s.ready[m])
               \/ m \in Gates /\ i \in 1..Len(s.waiting[m])
    PROVE  LET t == RemoveProcess(s, p, i)
               m == s.myList[p]
           IN  /\ t \in SchedType
               /\ t.active = s.active /\ t.highest = s.highest
               /\ \A k \in Levels : t.ready[k] = IF k = m THEN Without(s.ready[m], i)
                                                          ELSE s.ready[k]
               /\ \A g \in Gates : t.waiting[g] = IF g = m THEN Without(s.waiting[m], i)
                                                           ELSE s.waiting[g]
               /\ \A q \in Procs : t.myList[q] = IF q = p THEN NULL ELSE s.myList[q]
               /\ Above(s) => Above(t)
               /\ \A g \in Gates : t.waiting[g] # <<>> => s.waiting[g] # <<>>
<1> DEFINE t == RemoveProcess(s, p, i)
           m == s.myList[p]
<1>1. CASE m \in Levels
  <2>1. m \notin Gates /\ i \in 1..Len(s.ready[m])
    BY <1>1, ConstantsAssumption
  <2>2. Without(s.ready[m], i) \in Seq(Procs) /\ s.ready[m] # <<>>
    BY <1>1, <2>1, WithoutFacts DEF SchedType
  <2>3. t = [s EXCEPT !.ready[m] = Without(@, i), !.myList[p] = NULL]
    BY <1>1 DEF RemoveProcess
  <2>4. /\ t.active = s.active /\ t.highest = s.highest /\ t.waiting = s.waiting
        /\ \A k \in Levels : t.ready[k] = IF k = m THEN Without(s.ready[m], i)
                                                   ELSE s.ready[k]
        /\ \A q \in Procs : t.myList[q] = IF q = p THEN NULL ELSE s.myList[q]
    BY <1>1, <2>3 DEF SchedType
  <2>5. t \in SchedType
    <3> DEFINE w == Without(s.ready[m], i)
    <3>1. w \in Seq(Procs) /\ t = [s EXCEPT !.ready[m] = w, !.myList[p] = NULL]
      BY <2>2, <2>3
    <3> HIDE DEF w, m, t
    <3> QED
      BY <1>1, <3>1 DEF SchedType
  <2> QED
    BY <2>1, <2>2, <2>4, <2>5 DEF Above
<1>2. CASE m \in Gates
  <2>1. m \notin Levels /\ i \in 1..Len(s.waiting[m])
    BY <1>2, ConstantsAssumption
  <2>2. Without(s.waiting[m], i) \in Seq(Procs) /\ s.waiting[m] # <<>>
    BY <1>2, <2>1, WithoutFacts DEF SchedType
  <2>3. t = [s EXCEPT !.waiting[m] = Without(@, i), !.myList[p] = NULL]
    BY <2>1 DEF RemoveProcess
  <2>4. /\ t.active = s.active /\ t.highest = s.highest /\ t.ready = s.ready
        /\ \A g \in Gates : t.waiting[g] = IF g = m THEN Without(s.waiting[m], i)
                                                    ELSE s.waiting[g]
        /\ \A q \in Procs : t.myList[q] = IF q = p THEN NULL ELSE s.myList[q]
    BY <1>2, <2>3 DEF SchedType
  <2>5. t \in SchedType
    <3> DEFINE w == Without(s.waiting[m], i)
    <3>1. w \in Seq(Procs) /\ t = [s EXCEPT !.waiting[m] = w, !.myList[p] = NULL]
      BY <2>2, <2>3
    <3> HIDE DEF w, m, t
    <3> QED
      BY <1>2, <3>1 DEF SchedType
  <2> QED
    BY <2>1, <2>2, <2>4, <2>5 DEF Above
<1> QED
  BY <1>1, <1>2

LEMMA WokenFacts ==
    ASSUME NEW s \in SchedType, NEW l \in 1..Top(s), NEW i \in 1..Len(s.ready[l])
    PROVE  LET t == Woken(s, l, i)
           IN  /\ t \in SchedType /\ t.waiting = s.waiting
               /\ t.active = s.ready[l][i]
               /\ Above(s) => Above(t)
<1> DEFINE left == [k \in Levels |-> IF k > l /\ k <= Top(s) THEN <<>> ELSE s.ready[k]]
           rest == SubSeq(left[l], i + 1, Len(left[l]))
           u == [s EXCEPT !.highest = l, !.ready = [left EXCEPT ![l] =
                     SubSeq(@, i + 1, Len(@))]]
<1>1. l \in Levels /\ Top(s) \in 0..MaxLevel /\ l # 0
  BY LevelFacts DEF Top, SchedType, Levels
<1>2. s.ready[l] \in Seq(Procs) /\ s.ready[l][i] \in Procs /\ left[l] = s.ready[l]
  BY <1>1, LevelFacts DEF SchedType, Levels
<1>3. left \in [Levels -> Seq(Procs)]
  BY DEF SchedType
<1>4. rest \in Seq(Procs)
  <2>1. i \in Nat /\ i <= Len(s.ready[l]) /\ Len(s.ready[l]) \in Nat
    BY <1>2
  <2> QED
    BY <1>2, <2>1, SubSeqProperties
<1>5. /\ u.active = s.active /\ u.highest = l /\ u.waiting = s.waiting
      /\ u.ready = [left EXCEPT ![l] = rest]
  BY <1>1, <1>3 DEF SchedType
<1>6. u \in SchedType
  <2>1. l \in 0..MaxLevel
    BY <1>1, LevelFacts DEF Levels
  <2>2. [left EXCEPT ![l] = rest] \in [Levels -> Seq(Procs)]
    <3> HIDE DEF left, rest
    <3> QED
      BY <1>3, <1>4
  <2> QED
    BY <1>1, <1>3, <2>1, <2>2 DEF SchedType
<1>7. Above(s) => Above(u)
  <2> SUFFICES ASSUME Above(s), NEW k \in Levels, k > l PROVE u.ready[k] = <<>>
    BY <1>5 DEF Above
  <2>1. u.ready[k] = left[k]
    BY <1>1, <1>3, <1>5, LevelFacts
  <2>2. CASE k <= Top(s)
    BY <2>1, <2>2
  <2>3. CASE ~(k <= Top(s))
    <3>1. s.highest # 0 /\ k > s.highest
      BY <2>3, LevelFacts DEF Top, Levels, SchedType
    <3> QED
      BY <2>1, <3>1 DEF Above
  <2> QED
    BY <2>2, <2>3
<1> HIDE DEF u
<1>8. Woken(s, l, i) = TransferTo(u, s.ready[l][i])
  BY DEF Woken, u
<1> DEFINE p == s.ready[l][i]
           t == TransferTo(u, p)
<1>9. t \in SchedType /\ t.waiting = u.waiting /\ t.active = p /\ (Above(u) => Above(t))
  <2> HIDE DEF p
  <2>1. p \in Procs
    BY <1>2 DEF p
  <2> QED
    BY <1>6, <2>1, TransferToFacts
<1> QED
  BY <1>5, <1>7, <1>8, <1>9

----------------------------------------------------------------------------
(* The pieces the actions share.                                            *)

LEMMA GiveUpFacts ==
    ASSUME NEW s \in SchedType, GiveUp(s)
    PROVE  /\ sched' \in SchedType /\ inverted' \in BOOLEAN
           /\ sched'.waiting = s.waiting
           /\ Above(s) => Above(sched')
<1>1. PICK l \in 1..Top(s) : \E i \in 1..Len(s.ready[l]) :
        sched' = Woken(s, l, i) /\ inverted' = (priority[s.ready[l][i]] < l)
  BY DEF GiveUp
<1>2. PICK i \in 1..Len(s.ready[l]) :
        sched' = Woken(s, l, i) /\ inverted' = (priority[s.ready[l][i]] < l)
  BY <1>1
<1> QED
  BY <1>2, WokenFacts

\* The semaphore's own part: a waiting process is resumed, or the signal is kept.
LEMMA SynchronousSignalFacts ==
    ASSUME IInv, NEW g \in Semaphores, SynchronousSignal(g)
    PROVE  /\ sched' \in SchedType /\ excess' \in [Semaphores -> Nat]
           /\ Above(sched')
           /\ \A h \in Semaphores : sched'.waiting[h] # <<>> => excess'[h] = 0
           /\ \A c \in Sections : sched'.waiting[c] = sched.waiting[c]
<1> USE DEF IInv, TypeOK, NobodyPassedOver, NobodyWaitsForWhatIsThere
<1>0. sched \in SchedType /\ Above(sched) /\ g \in Gates /\ g \notin Sections
  BY ConstantsAssumption DEF SchedType, Above, Gates
<1>1. CASE sched.waiting[g] = <<>>
  <2>1. sched' = sched /\ excess' = [excess EXCEPT ![g] = @ + 1]
    BY <1>1 DEF SynchronousSignal
  <2> QED
    BY <1>0, <1>1, <2>1
<1>2. CASE sched.waiting[g] # <<>>
  <2> DEFINE p == Head(sched.waiting[g])
             s == RemoveFirst(sched, g)
  <2>1. /\ s \in SchedType /\ Above(s) /\ p \in Procs
        /\ \A h \in Gates \ {g} : s.waiting[h] = sched.waiting[h]
    BY <1>0, <1>2, RemoveFirstFacts
  <2>2. sched' = Resume(s, p) /\ excess' = excess
    BY <1>2 DEF SynchronousSignal
  <2> HIDE DEF p, s
  <2>3. sched' \in SchedType /\ Above(sched') /\ sched'.waiting = s.waiting
    BY <2>1, <2>2, ResumeFacts
  <2>7. \A h \in Semaphores : sched'.waiting[h] # <<>> => excess'[h] = 0
    <3> SUFFICES ASSUME NEW h \in Semaphores, sched'.waiting[h] # <<>>
                 PROVE  excess[h] = 0
      BY <2>2
    <3>1. sched.waiting[h] # <<>>
      BY <1>2, <2>1, <2>3 DEF Gates
    <3> QED
      BY <3>1
  <2>8. \A c \in Sections : sched'.waiting[c] = sched.waiting[c]
    BY <1>0, <2>1, <2>3 DEF Gates
  <2> QED
    BY <2>2, <2>3, <2>7, <2>8
<1> QED
  BY <1>1, <1>2

\* What is noted of preemptions are processes on the ready lists.
LEMMA PreemptionFacts ==
    ASSUME TypeOK, sched' \in SchedType, StillPreempted \/ NotePreemption
    PROVE  preempted' \subseteq Procs
<1>1. IsReady(sched') \subseteq Procs
  BY DEF IsReady, SchedType, Elems
<1> QED
  BY <1>1 DEF TypeOK, StillPreempted, NotePreemption

----------------------------------------------------------------------------
(* The invariant.                                                           *)

LEMMA InitIInv == Init => IInv
<1> SUFFICES ASSUME Init PROVE IInv
  OBVIOUS
<1> USE ConstantsAssumption
<1>1. sched \in SchedType
  <2>1. [l \in Levels |-> <<>>] \in [Levels -> Seq(Procs)]
        /\ [g \in Gates |-> <<>>] \in [Gates -> Seq(Procs)]
        /\ [p \in Procs |-> NULL] \in [Procs -> Levels \cup Gates \cup {NULL}]
    OBVIOUS
  <2>2. 0 \in 0..MaxLevel
    OBVIOUS
  <2> QED
    BY <2>1, <2>2 DEF Init, SchedType
<1>2. TypeOK
  <2>1. /\ excess \in [Semaphores -> Nat] /\ owner \in [Sections -> Procs \cup {NULL}]
        /\ told \in [Sections -> SUBSET Procs] /\ priority \in [Procs -> Levels]
    BY DEF Init
  <2>2. /\ dead \subseteq Procs /\ parked \subseteq Procs /\ preempted \subseteq Procs
        /\ starts \in Nat /\ inverted \in BOOLEAN /\ pending \subseteq Events
    BY DEF Init, Others
  <2>4. callouts \in Seq(Procs) /\ callbackStack \in Seq(Procs)
    BY DEF Init
  <2>3. cursor \in 0..Len(EventOrder)
    BY DEF Init
  <2> QED
    BY <1>1, <2>1, <2>2, <2>3, <2>4 DEF TypeOK, SchedType
<1>3. NobodyPassedOver /\ ReturnsToItsCallout
  BY DEF Init, NobodyPassedOver, ReturnsToItsCallout
<1>4. NobodyWaitsForWhatIsThere
  BY DEF Init, NobodyWaitsForWhatIsThere, Gates
<1> QED
  BY <1>2, <1>3, <1>4 DEF IInv

\* A step that keeps the callouts and leaves nobody waiting for what is there.
LEMMA KeepsIInv ==
    ASSUME IInv, sched' \in SchedType, Above(sched'), NobodyWaitsForWhatIsThere',
           excess' \in [Semaphores -> Nat],
           owner' \in [Sections -> Procs \cup {NULL}], told' \in [Sections -> SUBSET Procs],
           parked' \subseteq Procs, inverted' \in BOOLEAN, preempted' \subseteq Procs,
           priority' \in [Procs -> Levels], dead' \subseteq Procs,
           pending' \subseteq Events, cursor' \in 0..Len(EventOrder), starts' \in Nat,
           callouts' \in Seq(Procs), callbackStack' \in Seq(Procs), ReturnsToItsCallout'
    PROVE  IInv'
<1>1. TypeOK'
  BY DEF TypeOK, SchedType
<1>2. NobodyPassedOver'
  BY DEF NobodyPassedOver, Above
<1> QED
  BY <1>1, <1>2 DEF IInv

\* What IInv says of the parts of the state, in the words of the lemmas above.
LEMMA Unfold ==
    ASSUME IInv
    PROVE  /\ sched \in SchedType /\ Above(sched) /\ sched.active \in Procs
           /\ excess \in [Semaphores -> Nat]
           /\ owner \in [Sections -> Procs \cup {NULL}] /\ told \in [Sections -> SUBSET Procs]
           /\ parked \subseteq Procs /\ inverted \in BOOLEAN /\ preempted \subseteq Procs
           /\ priority \in [Procs -> Levels] /\ dead \subseteq Procs
           /\ pending \subseteq Events /\ cursor \in 0..Len(EventOrder) /\ starts \in Nat
           /\ callouts \in Seq(Procs) /\ callbackStack \in Seq(Procs)
           /\ TypeOK /\ NobodyWaitsForWhatIsThere /\ ReturnsToItsCallout
BY DEF IInv, TypeOK, SchedType, NobodyPassedOver, Above

\* Lists of semaphores and sections that stay, or shrink while what they wait for
\* stays.
LEMMA StillNobodyWaits ==
    ASSUME NobodyWaitsForWhatIsThere, UNCHANGED <<excess, owner>>,
           \A g \in Gates : sched'.waiting[g] # <<>> => sched.waiting[g] # <<>>
    PROVE  NobodyWaitsForWhatIsThere'
BY DEF NobodyWaitsForWhatIsThere, Gates

----------------------------------------------------------------------------
LEMMA SignalStep == ASSUME IInv, NEW g \in Semaphores, Signal(g) PROVE IInv'
<1> USE Unfold
<1>1. /\ SynchronousSignal(g) /\ NotePreemption
      /\ UNCHANGED <<sections, image, events, calls, parked, inverted>>
  BY DEF Signal
<1>2. sched' \in SchedType /\ excess' \in [Semaphores -> Nat] /\ Above(sched')
  BY <1>1, SynchronousSignalFacts
<1>3. NobodyWaitsForWhatIsThere'
  BY <1>1, SynchronousSignalFacts DEF NobodyWaitsForWhatIsThere, sections
<1>4. preempted' \subseteq Procs
  BY <1>1, <1>2, PreemptionFacts
<1>5. ReturnsToItsCallout'
  BY <1>1 DEF ReturnsToItsCallout, calls
<1> QED
  BY <1>1, <1>2, <1>3, <1>4, <1>5, KeepsIInv DEF sections, image, events, calls

LEMMA CheckNextStep == ASSUME IInv, CheckNext PROVE IInv'
<1> USE Unfold, ConstantsAssumption
<1> DEFINE e == EventOrder[cursor]
<1>1. /\ NotePreemption /\ UNCHANGED <<sections, image, calls, parked, inverted>>
      /\ pending' = pending \ {e}
      /\ cursor' = IF cursor = Len(EventOrder) THEN 0 ELSE cursor + 1
      /\ cursor \in 1..Len(EventOrder)
  BY DEF CheckNext, Running
<1>2. e \in Events /\ SemaOf[e] \in Semaphores /\ cursor' \in 0..Len(EventOrder)
  <2>1. e \in Events
    BY <1>1 DEF Events
  <2>2. SemaOf[e] \in Semaphores
    BY <2>1
  <2>3. cursor' \in 0..Len(EventOrder)
    <3>1. Len(EventOrder) \in Nat
      OBVIOUS
    <3> QED
      BY <1>1, <3>1
  <2> QED
    BY <2>1, <2>2, <2>3
<1>3. SynchronousSignal(SemaOf[e]) \/ UNCHANGED <<sched, excess>>
  BY DEF CheckNext
<1>4. /\ sched' \in SchedType /\ excess' \in [Semaphores -> Nat] /\ Above(sched')
      /\ NobodyWaitsForWhatIsThere'
  <2>1. CASE SynchronousSignal(SemaOf[e])
    <3> DEFINE g == SemaOf[e]
    <3>1. /\ sched' \in SchedType /\ excess' \in [Semaphores -> Nat] /\ Above(sched')
          /\ \A h \in Semaphores : sched'.waiting[h] # <<>> => excess'[h] = 0
          /\ \A c \in Sections : sched'.waiting[c] = sched.waiting[c]
      <4> HIDE DEF g
      <4> QED
        BY <1>2, <2>1, SynchronousSignalFacts DEF g
    <3> QED
      BY <1>1, <3>1 DEF NobodyWaitsForWhatIsThere, sections
  <2>2. CASE UNCHANGED <<sched, excess>>
    BY <1>1, <2>2 DEF NobodyWaitsForWhatIsThere, sections, Above
  <2> QED
    BY <1>3, <2>1, <2>2
<1>5. preempted' \subseteq Procs
  BY <1>1, <1>4, PreemptionFacts
<1>6. ReturnsToItsCallout'
  BY <1>1 DEF ReturnsToItsCallout, calls
<1> QED
  BY <1>1, <1>2, <1>4, <1>5, <1>6, KeepsIInv DEF sections, image, calls

LEMMA WaitStep == ASSUME IInv, NEW g \in Semaphores, Wait(g) PROVE IInv'
<1> USE Unfold
<1>1. NotePreemption /\ UNCHANGED <<sections, image, events, calls, parked>>
  BY DEF Wait
<1>2. g \in Gates /\ g \in Levels \cup Gates \cup {NULL}
  BY DEF Gates
<1>3. /\ sched' \in SchedType /\ Above(sched') /\ excess' \in [Semaphores -> Nat]
      /\ inverted' \in BOOLEAN /\ NobodyWaitsForWhatIsThere'
  <2>1. CASE excess[g] > 0
    <3>1. /\ excess' = [excess EXCEPT ![g] = @ - 1]
          /\ UNCHANGED <<sched, inverted>>
      BY <2>1 DEF Wait
    <3>2. excess' \in [Semaphores -> Nat]
      BY <2>1, <3>1
    <3>3. NobodyWaitsForWhatIsThere'
      BY <1>1, <2>1, <3>1 DEF NobodyWaitsForWhatIsThere, sections
    <3> QED
      BY <3>1, <3>2, <3>3 DEF Above
  <2>2. CASE ~(excess[g] > 0)
    <3> DEFINE s == Queue(sched, sched.active, g)
    <3>1. excess[g] = 0
      BY <2>2
    <3>2. GiveUp(s) /\ excess' = excess
      BY <2>2 DEF Wait
    <3>5. /\ s \in SchedType /\ Above(s)
          /\ \A h \in Gates \ {g} : s.waiting[h] = sched.waiting[h]
      <4>1. sched \in SchedType /\ sched.active \in Procs /\ Above(sched)
        BY Unfold
      <4> QED
        BY <1>2, <4>1, QueueFacts
    <3>6. /\ sched' \in SchedType /\ inverted' \in BOOLEAN
          /\ sched'.waiting = s.waiting /\ Above(sched')
      BY <3>2, <3>5, GiveUpFacts
    <3>7. \A h \in Gates \ {g} : sched'.waiting[h] = sched.waiting[h]
      BY <3>5, <3>6
    <3>8. NobodyWaitsForWhatIsThere'
      BY <1>1, <3>1, <3>2, <3>7, ConstantsAssumption
         DEF NobodyWaitsForWhatIsThere, sections, Gates
    <3> QED
      BY <3>2, <3>6, <3>8
  <2> QED
    BY <2>1, <2>2
<1>4. preempted' \subseteq Procs
  BY <1>1, <1>3, PreemptionFacts
<1>5. ReturnsToItsCallout'
  BY <1>1 DEF ReturnsToItsCallout, calls
<1> QED
  BY <1>1, <1>3, <1>4, <1>5, KeepsIInv DEF sections, image, events, calls

\* A gate's list that grows by the active process, which then gives up.
LEMMA QueueAndGiveUp ==
    ASSUME IInv, NEW g \in Gates, GiveUp(Queue(sched, sched.active, g))
    PROVE  /\ sched' \in SchedType /\ Above(sched') /\ inverted' \in BOOLEAN
           /\ \A h \in Gates \ {g} : sched'.waiting[h] = sched.waiting[h]
<1> DEFINE s == Queue(sched, sched.active, g)
<1>1. sched \in SchedType /\ sched.active \in Procs /\ Above(sched)
  BY Unfold
<1>2. /\ s \in SchedType /\ Above(s)
      /\ \A h \in Gates \ {g} : s.waiting[h] = sched.waiting[h]
  BY <1>1, QueueFacts
<1> QED
  BY <1>2, GiveUpFacts

LEMMA EnterStep == ASSUME IInv, NEW c \in Sections, Enter(c) PROVE IInv'
<1> USE Unfold
<1>1. /\ NotePreemption /\ UNCHANGED <<excess, image, events, calls, parked>>
      /\ told' = [told EXCEPT ![c] = @ \cup {sched.active}]
  BY DEF Enter
<1>2. told' \in [Sections -> SUBSET Procs]
  BY <1>1
<1>3. /\ sched' \in SchedType /\ Above(sched') /\ inverted' \in BOOLEAN
      /\ owner' \in [Sections -> Procs \cup {NULL}] /\ NobodyWaitsForWhatIsThere'
  <2>1. CASE owner[c] = NULL /\ owner' = [owner EXCEPT ![c] = sched.active]
             /\ UNCHANGED <<sched, inverted>>
    <3>1. sched.active # NULL
      BY ConstantsAssumption
    <3>2. NobodyWaitsForWhatIsThere'
      BY <1>1, <2>1, <3>1 DEF NobodyWaitsForWhatIsThere
    <3> QED
      BY <2>1, <3>2 DEF Above
  <2>2. CASE UNCHANGED <<sched, inverted, owner>>
    BY <1>1, <2>2 DEF Above, NobodyWaitsForWhatIsThere
  <2>3. CASE owner[c] \notin {NULL, sched.active} /\ UNCHANGED owner
             /\ GiveUp(Queue(sched, sched.active, c))
    <3>1. c \in Gates
      BY DEF Gates
    <3>2. /\ sched' \in SchedType /\ Above(sched') /\ inverted' \in BOOLEAN
          /\ \A h \in Gates \ {c} : sched'.waiting[h] = sched.waiting[h]
      BY <2>3, <3>1, QueueAndGiveUp
    <3>3. NobodyWaitsForWhatIsThere'
      BY <1>1, <2>3, <3>2, ConstantsAssumption DEF NobodyWaitsForWhatIsThere, Gates
    <3> QED
      BY <2>3, <3>2, <3>3
  <2> QED
    BY <2>1, <2>2, <2>3 DEF Enter
<1>4. preempted' \subseteq Procs
  BY <1>1, <1>3, PreemptionFacts
<1>5. ReturnsToItsCallout'
  BY <1>1 DEF ReturnsToItsCallout, calls
<1> QED
  BY <1>1, <1>2, <1>3, <1>4, <1>5, KeepsIInv DEF image, events, calls

LEMMA TestAndSetStep == ASSUME IInv, NEW c \in Sections, TestAndSet(c) PROVE IInv'
<1> USE Unfold
<1>1. UNCHANGED <<sched, excess, image, events, calls, parked, inverted, preempted>>
  BY DEF TestAndSet
<1>2. /\ owner' \in [Sections -> Procs \cup {NULL}] /\ told' \in [Sections -> SUBSET Procs]
      /\ \A d \in Sections : owner[d] # NULL => owner'[d] # NULL
  <2>1. CASE owner[c] \in {NULL, sched.active}
    <3>1. /\ owner' = [owner EXCEPT ![c] = sched.active]
          /\ told' = [told EXCEPT ![c] = @ \cup {sched.active}]
      BY <2>1 DEF TestAndSet
    <3> QED
      BY <3>1, ConstantsAssumption
  <2>2. CASE owner[c] \notin {NULL, sched.active}
    BY <2>2 DEF TestAndSet
  <2> QED
    BY <2>1, <2>2
<1>3. NobodyWaitsForWhatIsThere'
  BY <1>1, <1>2 DEF NobodyWaitsForWhatIsThere
<1>4. ReturnsToItsCallout'
  BY <1>1 DEF ReturnsToItsCallout, calls
<1> QED
  BY <1>1, <1>2, <1>3, <1>4, KeepsIInv DEF image, events, calls, Above

LEMMA ExitStep == ASSUME IInv, NEW c \in Sections, Exit(c) PROVE IInv'
<1> USE Unfold
<1>1. /\ NotePreemption /\ UNCHANGED <<excess, image, events, calls, parked, inverted>>
      /\ told' = [told EXCEPT ![c] = @ \ {sched.active}]
  BY DEF Exit
<1>2. told' \in [Sections -> SUBSET Procs]
  BY <1>1
<1>3. c \in Gates
  BY DEF Gates
<1>4. /\ sched' \in SchedType /\ Above(sched')
      /\ owner' \in [Sections -> Procs \cup {NULL}] /\ NobodyWaitsForWhatIsThere'
  <2>1. CASE sched.waiting[c] = <<>>
    <3>1. owner' = [owner EXCEPT ![c] = NULL] /\ UNCHANGED sched
      BY <2>1 DEF Exit
    <3> QED
      BY <1>1, <2>1, <3>1 DEF Above, NobodyWaitsForWhatIsThere
  <2>2. CASE sched.waiting[c] # <<>>
    <3> DEFINE p == Head(sched.waiting[c])
               s == RemoveFirst(sched, c)
    <3>1. /\ s \in SchedType /\ Above(s) /\ p \in Procs
          /\ \A h \in Gates \ {c} : s.waiting[h] = sched.waiting[h]
      BY <1>3, <2>2, RemoveFirstFacts
    <3>3. sched' = Resume(s, p) /\ owner' = [owner EXCEPT ![c] = p]
      BY <2>2 DEF Exit
    <3> HIDE DEF p, s
    <3>4. sched' \in SchedType /\ sched'.waiting = s.waiting /\ Above(sched')
      BY <3>1, <3>3, ResumeFacts
    <3>5. \A h \in Gates \ {c} : sched'.waiting[h] = sched.waiting[h]
      BY <3>1, <3>4
    <3>6. NobodyWaitsForWhatIsThere'
      BY <1>1, <3>1, <3>3, <3>5, ConstantsAssumption DEF NobodyWaitsForWhatIsThere, Gates
    <3> QED
      BY <3>1, <3>3, <3>4, <3>6
  <2> QED
    BY <2>1, <2>2
<1>5. preempted' \subseteq Procs
  BY <1>1, <1>4, PreemptionFacts
<1>6. ReturnsToItsCallout'
  BY <1>1 DEF ReturnsToItsCallout, calls
<1> QED
  BY <1>1, <1>2, <1>4, <1>5, <1>6, KeepsIInv DEF image, events, calls

LEMMA YieldStep == ASSUME IInv, Yield PROVE IInv'
<1> USE Unfold
<1> DEFINE l == priority[sched.active]
           s == Join(sched, sched.active, l)
<1>1. /\ StillPreempted /\ UNCHANGED <<excess, sections, image, events, calls, parked>>
      /\ sched.ready[l] # <<>> /\ GiveUp(s)
  BY DEF Yield
<1>2. l \in Levels
  OBVIOUS
<1>3. s \in SchedType /\ s.waiting = sched.waiting /\ Above(s)
  <2> HIDE DEF l
  <2> QED
    BY <1>1, <1>2, JoinFacts
<1>4. /\ sched' \in SchedType /\ Above(sched') /\ inverted' \in BOOLEAN
      /\ sched'.waiting = sched.waiting
  BY <1>1, <1>3, GiveUpFacts
<1>5. NobodyWaitsForWhatIsThere'
  BY <1>1, <1>4, StillNobodyWaits DEF sections
<1>6. preempted' \subseteq Procs
  BY <1>1, <1>4, PreemptionFacts
<1>7. ReturnsToItsCallout'
  BY <1>1 DEF ReturnsToItsCallout, calls
<1> QED
  BY <1>1, <1>4, <1>5, <1>6, <1>7, KeepsIInv DEF sections, image, events, calls

LEMMA SuspendActiveStep == ASSUME IInv, SuspendActive PROVE IInv'
<1> USE Unfold
<1>1. /\ NotePreemption /\ UNCHANGED <<excess, sections, image, events, calls>>
      /\ parked' = parked \cup {sched.active} /\ GiveUp(sched)
  BY DEF SuspendActive
<1>2. /\ sched' \in SchedType /\ Above(sched') /\ inverted' \in BOOLEAN
      /\ sched'.waiting = sched.waiting
  BY <1>1, GiveUpFacts
<1>3. NobodyWaitsForWhatIsThere'
  BY <1>1, <1>2, StillNobodyWaits DEF sections
<1>4. preempted' \subseteq Procs
  BY <1>1, <1>2, PreemptionFacts
<1>5. ReturnsToItsCallout'
  BY <1>1 DEF ReturnsToItsCallout, calls
<1> QED
  BY <1>1, <1>2, <1>3, <1>4, <1>5, KeepsIInv DEF sections, image, events, calls

LEMMA SuspendStep == ASSUME IInv, NEW p \in Procs, Suspend(p) PROVE IInv'
<1> USE Unfold
<1>1. NotePreemption /\ UNCHANGED <<excess, sections, image, events, calls, inverted>>
  BY DEF Suspend
<1> DEFINE Kept == /\ sched' \in SchedType /\ Above(sched') /\ parked' \subseteq Procs
                   /\ \A g \in Gates : sched'.waiting[g] # <<>> => sched.waiting[g] # <<>>
<1>2. Kept
  <2>1. CASE UNCHANGED <<sched, parked>>
    BY <2>1 DEF Above
  <2>2. ASSUME NEW i \in MyPlaces(p), sched' = RemoveProcess(sched, p, i),
               parked' = parked \cup {p}
        PROVE  Kept
    <3>1. LET m == sched.myList[p]
          IN  \/ m \in Levels /\ i \in 1..Len(sched.ready[m])
              \/ m \in Gates /\ i \in 1..Len(sched.waiting[m])
      BY ConstantsAssumption DEF MyPlaces, SchedType
    <3>2. /\ sched' \in SchedType /\ Above(sched')
          /\ \A g \in Gates : sched'.waiting[g] # <<>> => sched.waiting[g] # <<>>
      BY <2>2, <3>1, RemoveProcessFacts
    <3> QED
      BY <2>2, <3>2
  <2> QED
    BY <2>1, <2>2 DEF Suspend
<1>3. NobodyWaitsForWhatIsThere'
  BY <1>1, <1>2, StillNobodyWaits DEF sections
<1>4. preempted' \subseteq Procs
  BY <1>1, <1>2, PreemptionFacts
<1>5. ReturnsToItsCallout'
  BY <1>1 DEF ReturnsToItsCallout, calls
<1> QED
  BY <1>1, <1>2, <1>3, <1>4, <1>5, KeepsIInv DEF sections, image, events, calls

LEMMA ResumeParkedStep == ASSUME IInv, NEW p \in Procs, ResumeParked(p) PROVE IInv'
<1> USE Unfold
<1>1. /\ NotePreemption /\ UNCHANGED <<excess, sections, image, events, calls, inverted>>
      /\ sched' = Resume(sched, p) /\ parked' = parked \ {p}
  BY DEF ResumeParked
<1>2. sched' \in SchedType /\ Above(sched') /\ sched'.waiting = sched.waiting
  BY <1>1, ResumeFacts
<1>3. NobodyWaitsForWhatIsThere'
  BY <1>1, <1>2, StillNobodyWaits DEF sections
<1>4. preempted' \subseteq Procs
  BY <1>1, <1>2, PreemptionFacts
<1>5. ReturnsToItsCallout'
  BY <1>1 DEF ReturnsToItsCallout, calls
<1> QED
  BY <1>1, <1>2, <1>3, <1>4, <1>5, KeepsIInv DEF sections, image, events, calls

LEMMA SetPriorityStep ==
    ASSUME IInv, NEW p \in Procs, NEW l \in Levels, SetPriority(p, l) PROVE IInv'
<1> USE Unfold
<1>1. /\ priority' = [priority EXCEPT ![p] = l]
      /\ UNCHANGED <<sched, excess, sections, dead, starts, events, calls, parked, preempted>>
      /\ inverted' \in BOOLEAN
  BY DEF SetPriority
<1>2. priority' \in [Procs -> Levels]
  BY <1>1
<1>3. NobodyWaitsForWhatIsThere' /\ ReturnsToItsCallout'
  BY <1>1 DEF NobodyWaitsForWhatIsThere, ReturnsToItsCallout, sections, calls
<1> QED
  BY <1>1, <1>2, <1>3, KeepsIInv DEF sections, events, calls, Above

LEMMA DieStep == ASSUME IInv, NEW p \in Procs, Die(p) PROVE IInv'
<1> USE Unfold
<1>1. /\ dead' = dead \cup {p}
      /\ UNCHANGED <<sched, excess, sections, priority, starts, events, calls, parked,
                     inverted, preempted>>
  BY DEF Die
<1>2. NobodyWaitsForWhatIsThere' /\ ReturnsToItsCallout'
  BY <1>1 DEF NobodyWaitsForWhatIsThere, ReturnsToItsCallout, sections, calls
<1> QED
  BY <1>1, <1>2, KeepsIInv DEF sections, events, calls, Above

LEMMA EnterCallbackStep == ASSUME IInv, EnterCallback PROVE IInv'
<1> USE Unfold
<1> DEFINE a == sched.active
<1>1. /\ NotePreemption /\ UNCHANGED <<excess, sections, image, cursor, parked>>
      /\ callbackStack' = <<a>> \o callbackStack /\ callouts' = <<a>> \o callouts
      /\ pending' = pending \cup {Callback} /\ GiveUp(sched)
  BY DEF EnterCallback
<1>2. /\ sched' \in SchedType /\ Above(sched') /\ inverted' \in BOOLEAN
      /\ sched'.waiting = sched.waiting
  BY <1>1, GiveUpFacts
<1>3. NobodyWaitsForWhatIsThere'
  BY <1>1, <1>2, StillNobodyWaits DEF sections
<1>4. preempted' \subseteq Procs
  BY <1>1, <1>2, PreemptionFacts
<1>5. pending' \subseteq Events
  BY <1>1, ConstantsAssumption
<1>6. callouts' \in Seq(Procs) /\ callbackStack' \in Seq(Procs)
  BY <1>1
<1>7. ReturnsToItsCallout'
  BY <1>1, <1>6 DEF ReturnsToItsCallout
<1> QED
  BY <1>1, <1>2, <1>3, <1>4, <1>5, <1>6, <1>7, KeepsIInv DEF sections, image

LEMMA CallbackReturnStep ==
    ASSUME IInv, NEW i \in 1..MaxCallouts, CallbackReturn(i) PROVE IInv'
<1> USE Unfold
<1>1. /\ NotePreemption /\ UNCHANGED <<excess, sections, image, events, parked>>
      /\ i \in 1..Len(callbackStack)
  BY DEF CallbackReturn
<1>2. CASE i # 1
  <2>1. UNCHANGED <<sched, calls, inverted>>
    BY <1>2 DEF CallbackReturn
  <2>2. NobodyWaitsForWhatIsThere' /\ ReturnsToItsCallout'
    BY <1>1, <2>1 DEF NobodyWaitsForWhatIsThere, ReturnsToItsCallout, sections, calls
  <2>3. preempted' \subseteq Procs
    BY <1>1, <2>1, PreemptionFacts
  <2> QED
    BY <1>1, <2>1, <2>2, <2>3, KeepsIInv DEF sections, image, events, calls, Above
<1>3. CASE i = 1
  <2> DEFINE h == Head(callouts)
             u == PutToSleep(sched, sched.active, PreemptionYields)
  <2>1. /\ callbackStack' = Tail(callbackStack) /\ callouts' = Tail(callouts)
        /\ sched' = TransferTo(u, h) /\ inverted' = TRUE
    BY <1>3 DEF CallbackReturn
  \* The process of the last callout is there, because the stack is no longer than
  \* the chain.
  <2>2. callbackStack # <<>> /\ callouts # <<>> /\ h \in Procs
    <3>1. Len(callbackStack) # 0 /\ Len(callouts) # 0
      BY <1>1 DEF ReturnsToItsCallout
    <3> QED
      BY <3>1
  <2>3. callouts' \in Seq(Procs) /\ callbackStack' \in Seq(Procs)
    BY <2>1, <2>2
  <2>4. ReturnsToItsCallout'
    <3>1. /\ Len(callouts') = Len(callouts) - 1
          /\ Len(callbackStack') = Len(callbackStack) - 1
          /\ \A j \in 1..Len(callouts') : callouts'[j] = callouts[j + 1]
          /\ \A j \in 1..Len(callbackStack') : callbackStack'[j] = callbackStack[j + 1]
      BY <2>1, <2>2
    <3>2. /\ Len(callouts) \in Nat /\ Len(callbackStack) \in Nat
          /\ Len(callbackStack) =< Len(callouts)
          /\ \A k \in 1..Len(callbackStack) : callouts[k] = callbackStack[k]
      BY DEF ReturnsToItsCallout
    <3>3. Len(callbackStack') =< Len(callouts')
      BY <3>1, <3>2
    <3>4. ASSUME NEW j \in 1..Len(callbackStack') PROVE callouts'[j] = callbackStack'[j]
      <4>1. j \in 1..Len(callouts') /\ j + 1 \in 1..Len(callbackStack)
        BY <3>1, <3>2, <3>3
      <4> QED
        BY <3>1, <3>2, <4>1
    <3> QED
      BY <3>3, <3>4 DEF ReturnsToItsCallout
  <2>5. u \in SchedType /\ u.waiting = sched.waiting /\ (Above(sched) => Above(u))
    <3>1. PreemptionYields \in BOOLEAN
      BY ConstantsAssumption
    <3> QED
      BY <3>1, PutToSleepFacts
  <2> HIDE DEF h, u
  <2>6. sched' \in SchedType /\ sched'.waiting = sched.waiting /\ Above(sched')
    BY <2>1, <2>2, <2>5, TransferToFacts
  <2>7. NobodyWaitsForWhatIsThere'
    BY <1>1, <2>6, StillNobodyWaits DEF sections
  <2>8. preempted' \subseteq Procs
    BY <1>1, <2>6, PreemptionFacts
  <2> QED
    BY <1>1, <2>1, <2>3, <2>4, <2>6, <2>7, <2>8, KeepsIInv DEF sections, image, events
<1> QED
  BY <1>2, <1>3

LEMMA RaiseStep == ASSUME IInv, NEW e \in Events, Raise(e) PROVE IInv'
<1> USE Unfold
<1>1. /\ pending' = pending \cup {e}
      /\ UNCHANGED <<sched, excess, sections, image, cursor, calls, parked, inverted,
                     preempted>>
  BY DEF Raise
<1>2. NobodyWaitsForWhatIsThere' /\ ReturnsToItsCallout'
  BY <1>1 DEF NobodyWaitsForWhatIsThere, ReturnsToItsCallout, sections, calls
<1> QED
  BY <1>1, <1>2, KeepsIInv DEF sections, image, calls, Above

LEMMA CheckForEventsStep == ASSUME IInv, CheckForEvents PROVE IInv'
<1> USE Unfold
<1>1. /\ cursor' = 1
      /\ UNCHANGED <<sched, excess, sections, image, pending, calls, parked, inverted,
                     preempted>>
  BY DEF CheckForEvents
<1>2. cursor' \in 0..Len(EventOrder)
  BY <1>1, ConstantsAssumption DEF Events
<1>3. NobodyWaitsForWhatIsThere' /\ ReturnsToItsCallout'
  BY <1>1 DEF NobodyWaitsForWhatIsThere, ReturnsToItsCallout, sections, calls
<1> QED
  BY <1>1, <1>2, <1>3, KeepsIInv DEF sections, image, calls, Above

LEMMA RestartStep == ASSUME IInv, Restart PROVE IInv'
<1> USE Unfold
<1>1. /\ starts' = starts + 1 /\ sched' = [sched EXCEPT !.highest = 0]
      /\ pending' = {} /\ callbackStack' = <<>>
      /\ UNCHANGED <<excess, sections, priority, dead, cursor, callouts, parked, inverted,
                     preempted>>
  BY DEF Restart
<1>2. sched' \in SchedType /\ sched'.waiting = sched.waiting /\ sched'.highest = 0
  <2>1. 0 \in 0..MaxLevel /\ sched \in SchedType
    BY LevelFacts, Unfold
  <2> QED
    BY <1>1, <2>1 DEF SchedType
<1>3. NobodyWaitsForWhatIsThere'
  BY <1>1, <1>2, StillNobodyWaits DEF sections
<1>4. ReturnsToItsCallout'
  BY <1>1 DEF ReturnsToItsCallout
<1> QED
  BY <1>1, <1>2, <1>3, <1>4, KeepsIInv DEF sections, Above

LEMMA NextStep == ASSUME IInv, [Next]_vars PROVE IInv'
<1>1. ASSUME NEW g \in Semaphores, Signal(g) \/ Wait(g) PROVE IInv'
  BY <1>1, SignalStep, WaitStep
<1>2. ASSUME NEW c \in Sections, Enter(c) \/ TestAndSet(c) \/ Exit(c) PROVE IInv'
  BY <1>2, EnterStep, TestAndSetStep, ExitStep
<1>3. CASE Yield \/ SuspendActive
  BY <1>3, YieldStep, SuspendActiveStep
<1>4. ASSUME NEW p \in Procs, Suspend(p) \/ ResumeParked(p) \/ Die(p) PROVE IInv'
  BY <1>4, SuspendStep, ResumeParkedStep, DieStep
<1>5. ASSUME NEW p \in Procs, NEW l \in Levels, SetPriority(p, l) PROVE IInv'
  BY <1>5, SetPriorityStep
<1>6. CASE EnterCallback
  BY <1>6, EnterCallbackStep
<1>7. ASSUME NEW i \in 1..MaxCallouts, CallbackReturn(i) PROVE IInv'
  BY <1>7, CallbackReturnStep
<1>8. ASSUME NEW e \in Events, Raise(e) PROVE IInv'
  BY <1>8, RaiseStep
<1>9. CASE CheckForEvents \/ CheckNext \/ Restart
  BY <1>9, CheckForEventsStep, CheckNextStep, RestartStep
<1>10. CASE UNCHANGED vars
  BY <1>10 DEF vars, sections, image, events, calls, IInv, TypeOK, NobodyPassedOver,
               NobodyWaitsForWhatIsThere, ReturnsToItsCallout
<1> QED
  BY <1>1, <1>2, <1>3, <1>4, <1>5, <1>6, <1>7, <1>8, <1>9, <1>10 DEF Next

\* IInv holds in every state.
LEMMA Invariance == Spec => []IInv
BY InitIInv, NextStep, PTL DEF Spec

----------------------------------------------------------------------------
(* Where processes are.                                                     *)

\* The lists of a record, of which the processes of L are on none: each process is on
\* one list at most, that which myList names, and once.  Who is on none is in L or dead.
\* Neither the dead nor the idle process wait at a gate.
Tidy(s, L) ==
    /\ \A k \in Levels : Distinct(s.ready[k])
    /\ \A g \in Gates : Distinct(s.waiting[g])
    /\ \A k \in Levels : \A p \in Elems(s.ready[k]) : s.myList[p] = k /\ p \notin L
    /\ \A g \in Gates : \A p \in Elems(s.waiting[g]) :
          s.myList[p] = g /\ p \notin L \cup dead \cup {Idle}
    /\ \A p \in Procs \ (L \cup dead) :
          \/ \E k \in Levels : p \in Elems(s.ready[k])
          \/ \E g \in Gates : p \in Elems(s.waiting[g])

\* Where the search for the next process comes to the active one, it has found another.
Guarded(s) ==
    \A k \in Levels : \A j \in 1..Len(s.ready[k]) :
        s.ready[k][j] = s.active => \E i \in 1..(j - 1) : Live(s, s.ready[k][i])

\* On a ready list those of P are first.
Turns(s, P) ==
    \A k \in Levels : \A i, j \in 1..Len(s.ready[k]) :
        i < j /\ s.ready[k][j] \in P => s.ready[k][i] \in P

\* Nobody is ready above the active process.
Ruled(s) == \A k \in Levels : k > priority[s.active] => s.ready[k] = <<>>

Away == parked \cup Elems(callouts)

PlaceInv ==
    /\ Tidy(sched, OffLists)
    /\ \A p \in OffLists : sched.myList[p] = NULL
    /\ sched.active \notin Away /\ parked \cap Elems(callouts) = {} /\ Distinct(callouts)
    /\ sched.active \notin dead /\ Elems(callouts) \cap dead = {}
    /\ Idle \notin Away \cup dead

TurnInv ==
    /\ preempted \subseteq IsReady(sched)
    /\ PreemptionYields \/ Turns(sched, preempted)

RankInv == inverted \/ Ruled(sched)

SectionInv ==
    \A c \in Sections : \A p \in told[c] : p \in Elems(sched.waiting[c]) \/ owner[c] = p

----------------------------------------------------------------------------
(* The members of a list.                                                   *)

LEMMA ElemsOfSeq ==
    ASSUME NEW q \in Seq(Procs)
    PROVE  Elems(q) \subseteq Procs /\ (Elems(q) = {} <=> q = <<>>)
<1>1. Len(q) \in Nat /\ (q # <<>> => 1 \in 1..Len(q))
  BY EmptySeq
<1> QED
  BY <1>1 DEF Elems

LEMMA ElemsAppend ==
    ASSUME NEW q \in Seq(Procs), NEW p \in Procs
    PROVE  /\ Elems(Append(q, p)) = Elems(q) \cup {p}
           /\ Distinct(q) /\ p \notin Elems(q) => Distinct(Append(q, p))
<1> DEFINE r == Append(q, p)
<1>1. Len(q) \in Nat /\ Len(r) = Len(q) + 1 /\ r[Len(q) + 1] = p
      /\ \A i \in 1..Len(q) : r[i] = q[i]
  BY AppendProperties
<1> HIDE DEF r
<1>2. \A i \in 1..Len(r) : i \in 1..Len(q) \/ i = Len(q) + 1
  BY <1>1
<1>3. \A i \in 1..Len(q) : i \in 1..Len(r)
  BY <1>1
<1>4. Len(q) + 1 \in 1..Len(r)
  BY <1>1
<1>5. Elems(r) = Elems(q) \cup {p}
  BY <1>1, <1>2, <1>3, <1>4 DEF Elems
<1>6. ASSUME Distinct(q), p \notin Elems(q) PROVE Distinct(r)
  BY <1>1, <1>2, <1>6 DEF Elems, Distinct
<1> QED
  BY <1>5, <1>6 DEF r

LEMMA ElemsFront ==
    ASSUME NEW q \in Seq(Procs), NEW p \in Procs
    PROVE  /\ Elems(<<p>> \o q) = Elems(q) \cup {p}
           /\ Distinct(q) /\ p \notin Elems(q) => Distinct(<<p>> \o q)
<1> DEFINE r == <<p>> \o q
<1>1. Len(q) \in Nat /\ Len(r) = Len(q) + 1 /\ r[1] = p
      /\ \A i \in 2..Len(q) + 1 : r[i] = q[i - 1]
  OBVIOUS
<1> HIDE DEF r
<1>2. \A i \in 1..Len(r) : i = 1 \/ (i \in 2..Len(q) + 1 /\ i - 1 \in 1..Len(q))
  BY <1>1
<1>3. \A i \in 1..Len(q) : i + 1 \in 1..Len(r) /\ r[i + 1] = q[i]
  BY <1>1
<1>4. 1 \in 1..Len(r)
  BY <1>1
<1>5. Elems(r) = Elems(q) \cup {p}
  BY <1>1, <1>2, <1>3, <1>4 DEF Elems
<1>6. ASSUME Distinct(q), p \notin Elems(q), NEW i \in 1..Len(r), NEW j \in 1..Len(r),
             r[i] = r[j]
      PROVE  i = j
  <2>1. CASE i = 1 \/ j = 1
    BY <1>1, <1>2, <1>6, <2>1 DEF Elems
  <2>2. CASE i # 1 /\ j # 1
    <3>1. i - 1 = j - 1
      BY <1>1, <1>2, <1>6, <2>2 DEF Distinct
    <3> QED
      BY <3>1
  <2> QED
    BY <2>1, <2>2
<1>7. Distinct(q) /\ p \notin Elems(q) => Distinct(r)
  BY <1>6 DEF Distinct
<1> QED
  BY <1>5, <1>7 DEF r

\* The end of a list, from the n-th member on.
LEMMA ElemsSuffix ==
    ASSUME NEW q \in Seq(Procs), NEW n \in 0..Len(q)
    PROVE  LET r == SubSeq(q, n + 1, Len(q))
           IN  /\ r \in Seq(Procs) /\ Len(r) = Len(q) - n
               /\ \A i \in 1..Len(r) : n + i \in 1..Len(q) /\ r[i] = q[n + i]
               /\ \A i \in (n + 1)..Len(q) : q[i] \in Elems(r)
               /\ Elems(r) \subseteq Elems(q)
               /\ Distinct(q) => /\ Distinct(r)
                                 /\ \A i \in 1..n : q[i] \notin Elems(r)
<1> DEFINE r == SubSeq(q, n + 1, Len(q))
<1>1. Len(q) \in Nat /\ n \in Nat /\ n <= Len(q)
  OBVIOUS
<1>2. /\ r \in Seq(Procs)
      /\ Len(r) = IF n + 1 <= Len(q) THEN Len(q) - (n + 1) + 1 ELSE 0
      /\ \A i \in 1..Len(q) - (n + 1) + 1 : r[i] = q[n + 1 + i - 1]
  <2>1. \A i \in n + 1 .. Len(q) : q[i] \in Procs
    BY <1>1
  <2> QED
    BY <1>1, <2>1, SubSeqProperties
<1> HIDE DEF r
<1>3. /\ Len(r) = Len(q) - n
      /\ \A i \in 1..Len(r) : n + i \in 1..Len(q) /\ r[i] = q[n + i]
  <2>1. Len(r) = Len(q) - n
    BY <1>1, <1>2
  <2>2. ASSUME NEW i \in 1..Len(r) PROVE n + i \in 1..Len(q) /\ r[i] = q[n + i]
    <3>1. i \in 1..Len(q) - (n + 1) + 1 /\ n + 1 + i - 1 = n + i
      BY <1>1, <2>1
    <3> QED
      BY <1>1, <1>2, <2>1, <3>1
  <2> QED
    BY <2>1, <2>2
<1>4. ASSUME NEW i \in (n + 1)..Len(q) PROVE q[i] \in Elems(r)
  <2>1. i - n \in 1..Len(r) /\ r[i - n] = q[i]
    BY <1>1, <1>3
  <2> QED
    BY <2>1 DEF Elems
<1>5. Elems(r) \subseteq Elems(q)
  BY <1>3 DEF Elems
<1>6. ASSUME Distinct(q), NEW i \in 1..Len(r), NEW j \in 1..Len(r), r[i] = r[j] PROVE i = j
  <2>1. n + i = n + j
    BY <1>3, <1>6 DEF Distinct
  <2> QED
    BY <1>1, <2>1
<1>7. ASSUME Distinct(q), NEW i \in 1..n, NEW j \in 1..Len(r) PROVE q[i] # r[j]
  <2>1. i \in 1..Len(q) /\ i # n + j
    BY <1>1
  <2> QED
    BY <1>3, <1>7, <2>1 DEF Distinct
<1>8. Distinct(q) => Distinct(r) /\ \A i \in 1..n : q[i] \notin Elems(r)
  BY <1>6, <1>7 DEF Distinct, Elems
<1> QED
  BY <1>2, <1>3, <1>4, <1>5, <1>8 DEF r

LEMMA ElemsTail ==
    ASSUME NEW q \in Seq(Procs), q # <<>>, Distinct(q)
    PROVE  /\ Elems(Tail(q)) = Elems(q) \ {Head(q)} /\ Distinct(Tail(q))
           /\ Head(q) \in Elems(q)
<1> DEFINE r == Tail(q)
<1>1. /\ Len(q) \in Nat /\ 1 \in 1..Len(q) /\ Len(r) = Len(q) - 1 /\ Head(q) = q[1]
      /\ \A i \in 1..Len(r) : i + 1 \in 1..Len(q) /\ i + 1 # 1 /\ r[i] = q[i + 1]
  BY EmptySeq, HeadTailProperties
<1> HIDE DEF r
<1>2. \A i \in 1..Len(q) : i = 1 \/ (i - 1 \in 1..Len(r) /\ r[i - 1] = q[i])
  BY <1>1
<1>3. Head(q) \in Elems(q) /\ Head(q) \notin Elems(r)
  BY <1>1 DEF Elems, Distinct
<1>4. Elems(r) = Elems(q) \ {Head(q)}
  BY <1>1, <1>2, <1>3 DEF Elems
<1>5. ASSUME NEW i \in 1..Len(r), NEW j \in 1..Len(r), r[i] = r[j] PROVE i = j
  <2>1. i + 1 = j + 1
    BY <1>1, <1>5 DEF Distinct
  <2> QED
    BY <2>1
<1> QED
  BY <1>3, <1>4, <1>5 DEF Distinct, r

LEMMA ElemsWithout ==
    ASSUME NEW q \in Seq(Procs), NEW n \in 1..Len(q), Distinct(q)
    PROVE  LET r == Without(q, n)
           IN  /\ Elems(r) = Elems(q) \ {q[n]} /\ Distinct(r)
               /\ \A i, j \in 1..Len(r) : i < j =>
                     \E k, l \in 1..Len(q) : k < l /\ r[i] = q[k] /\ r[j] = q[l]
<1> DEFINE r == Without(q, n)
           a == SubSeq(q, 1, n - 1)
           b == SubSeq(q, n + 1, Len(q))
           place(i) == IF i < n THEN i ELSE i + 1
<1>1. Len(q) \in Nat /\ n \in Nat /\ 1 <= n /\ n <= Len(q)
  OBVIOUS
<1>2. a \in Seq(Procs) /\ Len(a) = n - 1 /\ \A i \in 1..(n - 1) : a[i] = q[i]
  <2>1. \A i \in 1..(n - 1) : q[i] \in Procs
    BY <1>1
  <2> QED
    BY <1>1, <2>1, SubSeqProperties
<1>3. /\ b \in Seq(Procs) /\ Len(b) = Len(q) - n
      /\ \A i \in 1..Len(b) : b[i] = q[n + i]
  <2>1. n \in 0..Len(q)
    BY <1>1
  <2> QED
    BY <2>1, ElemsSuffix
<1> HIDE DEF a, b
<1>4. r = a \o b
  BY DEF Without, a, b
<1> HIDE DEF r
<1>5. /\ Len(r) = Len(q) - 1
      /\ \A i \in 1..Len(r) : place(i) \in 1..Len(q) /\ r[i] = q[place(i)]
  <2>1. /\ Len(r) = Len(a) + Len(b)
        /\ \A i \in 1..Len(a) + Len(b) : r[i] = IF i <= Len(a) THEN a[i] ELSE b[i - Len(a)]
    BY <1>2, <1>3, <1>4, ConcatProperties
  <2>2. ASSUME NEW i \in 1..Len(r) PROVE place(i) \in 1..Len(q) /\ r[i] = q[place(i)]
    <3>1. CASE i < n
      <4>1. i <= Len(a) /\ i \in 1..(n - 1)
        BY <1>1, <1>2, <3>1
      <4> QED
        BY <1>1, <1>2, <2>1, <3>1, <4>1
    <3>2. CASE ~(i < n)
      <4>1. ~(i <= Len(a)) /\ i - Len(a) \in 1..Len(b) /\ n + (i - Len(a)) = i + 1
        BY <1>1, <1>2, <1>3, <2>1, <3>2
      <4> QED
        BY <1>1, <1>3, <2>1, <3>2, <4>1
    <3> QED
      BY <3>1, <3>2
  <2> QED
    BY <1>1, <1>2, <1>3, <2>1, <2>2
<1>6. \A i \in 1..Len(r) : place(i) # n /\ \A j \in 1..Len(r) : i < j => place(i) < place(j)
  BY <1>1
<1>7. \A k \in 1..Len(q) : k = n \/ \E i \in 1..Len(r) : place(i) = k
  <2> SUFFICES ASSUME NEW k \in 1..Len(q), k # n PROVE \E i \in 1..Len(r) : place(i) = k
    OBVIOUS
  <2>1. CASE k < n
    BY <1>1, <1>5, <2>1
  <2>2. CASE k > n
    <3>1. k - 1 \in 1..Len(r) /\ place(k - 1) = k
      BY <1>1, <1>5, <2>2
    <3> QED
      BY <3>1
  <2> QED
    BY <1>1, <2>1, <2>2
<1>8. Elems(r) = Elems(q) \ {q[n]}
  <2>1. \A i \in 1..Len(r) : r[i] \in Elems(q) /\ r[i] # q[n]
    BY <1>5, <1>6 DEF Distinct, Elems
  <2>2. \A k \in 1..Len(q) : k # n => q[k] \in Elems(r)
    <3> HIDE DEF place
    <3> QED
      BY <1>5, <1>7 DEF Elems
  <2> QED
    BY <2>1, <2>2 DEF Elems
<1>9. ASSUME NEW i \in 1..Len(r), NEW j \in 1..Len(r), r[i] = r[j] PROVE i = j
  <2>1. place(i) = place(j)
    BY <1>5, <1>9 DEF Distinct
  <2> QED
    BY <1>1, <2>1
<1>10. ASSUME NEW i \in 1..Len(r), NEW j \in 1..Len(r), i < j
       PROVE  \E k, l \in 1..Len(q) : k < l /\ r[i] = q[k] /\ r[j] = q[l]
  <2> HIDE DEF place
  <2> QED
    BY <1>5, <1>6, <1>10
<1> QED
  BY <1>8, <1>9, <1>10 DEF Distinct, r

----------------------------------------------------------------------------
(* What the operators do to the places of a record.                         *)

\* Who is on no list is on none.
LEMMA OffTheLists ==
    ASSUME NEW s \in SchedType, NEW L, Tidy(s, L), NEW p \in L
    PROVE  /\ \A k \in Levels : p \notin Elems(s.ready[k])
           /\ \A g \in Gates : p \notin Elems(s.waiting[g])
           /\ p \notin IsReady(s)
BY DEF Tidy, IsReady

\* What is said of turns concerns those that are ready only.
LEMMA TurnsOfReady ==
    ASSUME NEW s \in SchedType, NEW P, NEW Q, Turns(s, P),
           \A p \in IsReady(s) : p \in P <=> p \in Q
    PROVE  Turns(s, Q)
<1> SUFFICES ASSUME NEW k \in Levels, NEW i \in 1..Len(s.ready[k]),
                    NEW j \in 1..Len(s.ready[k]), i < j, s.ready[k][j] \in Q
             PROVE  s.ready[k][i] \in Q
  BY DEF Turns
<1>1. s.ready[k][i] \in IsReady(s) /\ s.ready[k][j] \in IsReady(s)
  BY DEF IsReady, Elems
<1> QED
  BY <1>1 DEF Turns

LEMMA PutToSleepPlaces ==
    ASSUME priority \in [Procs -> Levels], NEW s \in SchedType, NEW L, Tidy(s, L),
           NEW p \in Procs, p \in L, NEW b \in BOOLEAN
    PROVE  Tidy(PutToSleep(s, p, b), L \ {p})
<1> DEFINE t == PutToSleep(s, p, b)
           l == priority[p]
<1>1. /\ t \in SchedType /\ t.waiting = s.waiting
      /\ \A q \in Procs : t.myList[q] = IF q = p THEN l ELSE s.myList[q]
      /\ \A k \in Levels : t.ready[k] =
            IF k # l THEN s.ready[k]
            ELSE IF b THEN Append(s.ready[k], p) ELSE <<p>> \o s.ready[k]
  BY PutToSleepFacts
<1>2. l \in Levels
  OBVIOUS
<1>3. /\ \A k \in Levels : p \notin Elems(s.ready[k]) /\ Elems(s.ready[k]) \subseteq Procs
      /\ \A g \in Gates : p \notin Elems(s.waiting[g]) /\ Elems(s.waiting[g]) \subseteq Procs
      /\ s.ready[l] \in Seq(Procs)
  BY <1>2, OffTheLists, ElemsOfSeq DEF SchedType
<1> HIDE DEF t
<1>4. /\ Distinct(t.ready[l]) /\ Elems(t.ready[l]) = Elems(s.ready[l]) \cup {p}
      /\ \A k \in Levels \ {l} : t.ready[k] = s.ready[k]
  <2>1. Distinct(s.ready[l])
    BY <1>2 DEF Tidy
  <2>2. CASE b
    BY <1>1, <1>2, <1>3, <2>1, <2>2, ElemsAppend
  <2>3. CASE ~b
    BY <1>1, <1>2, <1>3, <2>1, <2>3, ElemsFront
  <2> QED
    BY <1>1, <2>2, <2>3
<1> HIDE DEF l
<1>5. \A k \in Levels : Distinct(t.ready[k])
  BY <1>4 DEF Tidy
<1>6. ASSUME NEW k \in Levels, NEW q \in Elems(t.ready[k])
      PROVE  t.myList[q] = k /\ q \notin L \ {p}
  <2>1. CASE q = p
    BY <1>1, <1>3, <1>4, <1>6, <2>1
  <2>2. CASE q # p
    <3>1. q \in Elems(s.ready[k])
      BY <1>4, <1>6, <2>2
    <3> QED
      BY <1>1, <1>3, <2>2, <3>1 DEF Tidy
  <2> QED
    BY <2>1, <2>2
<1>7. ASSUME NEW g \in Gates, NEW q \in Elems(t.waiting[g])
      PROVE  t.myList[q] = g /\ q \notin (L \ {p}) \cup dead \cup {Idle}
  BY <1>1, <1>3, <1>7 DEF Tidy
<1>8. ASSUME NEW q \in Procs \ ((L \ {p}) \cup dead)
      PROVE  \/ \E k \in Levels : q \in Elems(t.ready[k])
             \/ \E g \in Gates : q \in Elems(t.waiting[g])
  <2>1. CASE q = p
    BY <1>2, <1>4, <2>1
  <2>2. CASE q # p
    BY <1>1, <1>4, <2>2 DEF Tidy
  <2> QED
    BY <2>1, <2>2
<1> QED
  BY <1>1, <1>5, <1>6, <1>7, <1>8 DEF Tidy, t

\* Who is put to sleep at the front goes before all others, who joins at the back is
\* none of those that are first.
LEMMA PutToSleepTurns ==
    ASSUME priority \in [Procs -> Levels], NEW s \in SchedType, NEW L, Tidy(s, L),
           NEW p \in Procs, p \in L, NEW b \in BOOLEAN,
           NEW P, Turns(s, P), p \notin P
    PROVE  LET t == PutToSleep(s, p, b)
           IN  Turns(t, IF b THEN P ELSE P \cup {p})
<1> DEFINE t == PutToSleep(s, p, b)
           Q == IF b THEN P ELSE P \cup {p}
<1>1. \A k \in Levels : t.ready[k] =
            IF k # priority[p] THEN s.ready[k]
            ELSE IF b THEN Append(s.ready[k], p) ELSE <<p>> \o s.ready[k]
  BY PutToSleepFacts
<1> HIDE DEF t
<1> SUFFICES ASSUME NEW k \in Levels, NEW i \in 1..Len(t.ready[k]),
                    NEW j \in 1..Len(t.ready[k]), i < j, t.ready[k][j] \in Q
             PROVE  t.ready[k][i] \in Q
  BY DEF Turns, t
<1> DEFINE r == t.ready[k]
           q == s.ready[k]
<1>2. /\ q \in Seq(Procs) /\ Len(q) \in Nat /\ p \notin Elems(q)
      /\ \A m \in 1..Len(q) : q[m] # p
  <2>1. q \in Seq(Procs)
    BY DEF SchedType
  <2>2. p \notin Elems(q)
    BY OffTheLists
  <2> QED
    BY <2>1, <2>2 DEF Elems
<1>3. \A m, n \in 1..Len(q) : m < n /\ q[n] \in P => q[m] \in P
  BY DEF Turns
<1>4. r = q \/ (b /\ r = Append(q, p)) \/ (~b /\ r = <<p>> \o q)
  BY <1>1
<1> HIDE DEF r, q
<1>5. i \in 1..Len(r) /\ j \in 1..Len(r) /\ r[j] \in Q
  BY DEF r
<1>6. CASE r = q
  BY <1>2, <1>3, <1>5, <1>6 DEF r
<1>7. CASE b /\ r = Append(q, p)
  <2>1. /\ Len(r) = Len(q) + 1 /\ r[Len(q) + 1] = p
        /\ \A m \in 1..Len(q) : r[m] = q[m]
    BY <1>2, <1>7, AppendProperties
  <2>2. j # Len(q) + 1
    BY <1>5, <1>7, <2>1
  <2>3. i \in 1..Len(q) /\ j \in 1..Len(q)
    BY <1>2, <1>5, <2>1, <2>2
  <2> QED
    BY <1>3, <1>5, <1>7, <2>1, <2>3 DEF r
<1>8. CASE ~b /\ r = <<p>> \o q
  <2>1. /\ Len(r) = Len(q) + 1 /\ r[1] = p
        /\ \A m \in 2..Len(q) + 1 : r[m] = q[m - 1]
    BY <1>2, <1>8
  <2>2. CASE i = 1
    BY <1>8, <2>1, <2>2 DEF r
  <2>3. CASE i # 1
    <3>1. /\ i - 1 \in 1..Len(q) /\ j - 1 \in 1..Len(q) /\ i - 1 < j - 1
          /\ r[i] = q[i - 1] /\ r[j] = q[j - 1]
      <4>1. i \in 2..Len(q) + 1 /\ j \in 2..Len(q) + 1
        BY <1>2, <1>5, <2>1, <2>3
      <4> QED
        BY <1>2, <2>1, <4>1
    <3>2. q[j - 1] \in P
      BY <1>2, <1>5, <1>8, <3>1
    <3> QED
      BY <1>3, <1>8, <3>1, <3>2 DEF r
  <2> QED
    BY <2>2, <2>3
<1> QED
  BY <1>4, <1>6, <1>7, <1>8

LEMMA TransferToPlaces ==
    ASSUME NEW s \in SchedType, NEW L, Tidy(s, L), NEW p \in Procs, p \in L
    PROVE  Tidy(TransferTo(s, p), L)
<1> DEFINE t == TransferTo(s, p)
<1>1. /\ t.waiting = s.waiting /\ t.ready = s.ready
      /\ \A q \in Procs : t.myList[q] = IF q = p THEN NULL ELSE s.myList[q]
  BY TransferToFacts
<1>2. /\ \A k \in Levels : Elems(s.ready[k]) \subseteq Procs
      /\ \A g \in Gates : Elems(s.waiting[g]) \subseteq Procs
  BY ElemsOfSeq DEF SchedType
<1> HIDE DEF t
<1> QED
  BY <1>1, <1>2 DEF Tidy, t

\* Whether or not the processor changes hands, the other one of the two is ready after
\* it, at the front of its list when it was preempted.
LEMMA ResumePlaces ==
    ASSUME priority \in [Procs -> Levels], NEW s \in SchedType,
           NEW L \in SUBSET Procs, Tidy(s, L), s.active \in L,
           NEW p \in L, p # s.active, \A q \in L \ {p} : s.myList[q] = NULL
    PROVE  LET t == Resume(s, p)
               N == (L \ {p, s.active}) \cup {t.active}
           IN  /\ Tidy(t, N) /\ t.active \in {p, s.active}
               /\ \A q \in N : t.myList[q] = NULL
               /\ Ruled(s) => Ruled(t)
               /\ \A P : P \subseteq IsReady(s) /\ Turns(s, P) =>
                     PreemptionYields \/ Turns(t, P \cup {s.active})
<1> DEFINE a == s.active
           t == Resume(s, p)
           N == (L \ {p, a}) \cup {t.active}
<1>0. /\ a \in Procs /\ p \in Procs /\ priority[a] \in Levels /\ priority[p] \in Levels
      /\ Levels \subseteq Nat
  BY LevelFacts DEF SchedType
<1>1. CASE priority[p] <= priority[a]
  <2>1. t = PutToSleep(s, p, TRUE)
    BY <1>1 DEF Resume
  <2>2. /\ t \in SchedType /\ t.active = a
        /\ \A q \in Procs : t.myList[q] = IF q = p THEN priority[p] ELSE s.myList[q]
        /\ \A k \in Levels : k # priority[p] => t.ready[k] = s.ready[k]
    <3> DEFINE u == PutToSleep(s, p, TRUE)
    <3>1. /\ u \in SchedType /\ u.active = s.active
          /\ \A q \in Procs : u.myList[q] = IF q = p THEN priority[p] ELSE s.myList[q]
          /\ \A k \in Levels : u.ready[k] =
                IF k # priority[p] THEN s.ready[k]
                ELSE IF TRUE THEN Append(s.ready[k], p) ELSE <<p>> \o s.ready[k]
      BY <1>0, PutToSleepFacts
    <3> HIDE DEF t, u
    <3>2. t = u
      BY <2>1 DEF u
    <3> QED
      BY <3>1, <3>2
  <2>3. N = L \ {p}
    BY <2>2
  <2>4. Tidy(t, L \ {p})
    BY <1>0, <2>1, PutToSleepPlaces
  <2>5. Ruled(s) => Ruled(t)
    <3> SUFFICES ASSUME Ruled(s), NEW k \in Levels, k > priority[a]
                 PROVE  t.ready[k] = <<>>
      BY <2>2 DEF Ruled
    <3>1. k # priority[p]
      BY <1>0, <1>1
    <3> QED
      BY <2>2, <3>1 DEF Ruled
  <2>6. ASSUME NEW P, P \subseteq IsReady(s), Turns(s, P) PROVE Turns(t, P \cup {a})
    <3>1. p \notin P
      BY <2>6, OffTheLists
    <3>2. Turns(t, P)
      BY <1>0, <2>1, <2>6, <3>1, PutToSleepTurns
    <3>3. a \in L \ {p}
      OBVIOUS
    <3>4. a \notin IsReady(t)
      <4> HIDE DEF t, a
      <4> QED
        BY <2>2, <2>4, <3>3, OffTheLists
    <3> QED
      BY <2>2, <3>2, <3>4, TurnsOfReady
  <2> QED
    BY <2>2, <2>3, <2>4, <2>5, <2>6
<1>2. CASE ~(priority[p] <= priority[a])
  <2> DEFINE u == PutToSleep(s, a, PreemptionYields)
  <2>1. t = TransferTo(u, p)
    BY <1>2 DEF Resume
  <2>2. /\ u \in SchedType
        /\ \A q \in Procs : u.myList[q] = IF q = a THEN priority[a] ELSE s.myList[q]
        /\ \A k \in Levels : k # priority[a] => u.ready[k] = s.ready[k]
        /\ Tidy(u, L \ {a})
    <3>1. PreemptionYields \in BOOLEAN
      BY ConstantsAssumption
    <3>2. Tidy(u, L \ {a})
      BY <1>0, <3>1, PutToSleepPlaces
    <3>3. /\ u \in SchedType
          /\ \A q \in Procs : u.myList[q] = IF q = a THEN priority[a] ELSE s.myList[q]
          /\ \A k \in Levels : u.ready[k] =
                IF k # priority[a] THEN s.ready[k]
                ELSE IF PreemptionYields THEN Append(s.ready[k], a) ELSE <<a>> \o s.ready[k]
      BY <1>0, <3>1, PutToSleepFacts
    <3> HIDE DEF u, a
    <3> QED
      BY <3>2, <3>3
  <2> HIDE DEF u
  <2>3. /\ t \in SchedType /\ t.active = p /\ t.ready = u.ready
        /\ \A q \in Procs : t.myList[q] = IF q = p THEN NULL ELSE u.myList[q]
    <3> DEFINE v == TransferTo(u, p)
    <3>1. /\ v \in SchedType /\ v.active = p /\ v.ready = u.ready
          /\ \A q \in Procs : v.myList[q] = IF q = p THEN NULL ELSE u.myList[q]
      BY <1>0, <2>2, TransferToFacts
    <3>2. t = v
      BY <2>1
    <3> HIDE DEF t, v
    <3> QED
      BY <3>1, <3>2
  <2>4. N = L \ {a}
    BY <2>3
  <2>5. Tidy(t, L \ {a})
    BY <1>0, <2>1, <2>2, TransferToPlaces
  <2>6. Ruled(s) => Ruled(t)
    <3> SUFFICES ASSUME Ruled(s), NEW k \in Levels, k > priority[p]
                 PROVE  t.ready[k] = <<>>
      BY <2>3 DEF Ruled
    <3>1. k # priority[a] /\ k > priority[a]
      BY <1>0, <1>2
    <3> QED
      BY <2>2, <2>3, <3>1 DEF Ruled
  <2>7. ASSUME NEW P, P \subseteq IsReady(s), Turns(s, P), ~PreemptionYields
        PROVE  Turns(t, P \cup {a})
    <3>1. a \notin P
      BY <2>7, OffTheLists
    <3>2. Turns(u, P \cup {a})
      <4>1. u = PutToSleep(s, a, FALSE)
        BY <2>7, ConstantsAssumption DEF u
      <4> QED
        BY <1>0, <2>7, <3>1, <4>1, PutToSleepTurns
    <3> QED
      BY <2>3, <3>2 DEF Turns
  <2>8. \A q \in N : t.myList[q] = NULL
    BY <2>2, <2>3, <2>4
  <2> QED
    BY <2>3, <2>4, <2>5, <2>6, <2>7, <2>8
<1> QED
  BY <1>0, <1>1, <1>2

LEMMA RemoveFirstPlaces ==
    ASSUME NEW s \in SchedType, NEW L, Tidy(s, L), NEW g \in Gates, s.waiting[g] # <<>>
    PROVE  LET h == Head(s.waiting[g])
           IN  /\ Tidy(RemoveFirst(s, g), L \cup {h})
               /\ h \in Procs /\ h \notin L \cup dead \cup {Idle}
               /\ h \in Elems(s.waiting[g]) /\ h \notin IsReady(s)
<1> DEFINE t == RemoveFirst(s, g)
           h == Head(s.waiting[g])
<1>1. /\ t.ready = s.ready /\ t.myList = s.myList /\ h \in Procs
      /\ \A f \in Gates : t.waiting[f] = IF f = g THEN Tail(s.waiting[g]) ELSE s.waiting[f]
  BY RemoveFirstFacts
<1>2. /\ Elems(t.waiting[g]) = Elems(s.waiting[g]) \ {h} /\ Distinct(t.waiting[g])
      /\ h \in Elems(s.waiting[g])
  <2>1. s.waiting[g] \in Seq(Procs) /\ Distinct(s.waiting[g])
    BY DEF SchedType, Tidy
  <2> HIDE DEF t
  <2> QED
    BY <1>1, <2>1, ElemsTail
<1> HIDE DEF t, h
<1>3. s.myList[h] = g /\ h \notin L \cup dead \cup {Idle}
  BY <1>2 DEF Tidy
<1>4. \A k \in Levels : h \notin Elems(s.ready[k])
  BY <1>3, ConstantsAssumption DEF Tidy
<1>5. \A f \in Gates : f # g => h \notin Elems(s.waiting[f]) /\ t.waiting[f] = s.waiting[f]
  BY <1>1, <1>3 DEF Tidy
<1>6. \A f \in Gates : Distinct(t.waiting[f]) /\ Elems(t.waiting[f]) = Elems(s.waiting[f]) \ {h}
  BY <1>2, <1>5 DEF Tidy
<1>7. Tidy(t, L \cup {h})
  <2>1. \A f \in Gates : Elems(t.waiting[f]) = Elems(s.waiting[f]) \ {h}
    BY <1>6
  <2>2. \A k \in Levels : \A q \in Elems(t.ready[k]) : t.myList[q] = k /\ q \notin L \cup {h}
    BY <1>1, <1>4 DEF Tidy
  <2>3. \A f \in Gates : \A q \in Elems(t.waiting[f]) :
            t.myList[q] = f /\ q \notin (L \cup {h}) \cup dead \cup {Idle}
    BY <1>1, <2>1 DEF Tidy
  <2>4. ASSUME NEW q \in Procs, q \notin (L \cup {h}) \cup dead
        PROVE  \/ \E k \in Levels : q \in Elems(t.ready[k])
               \/ \E f \in Gates : q \in Elems(t.waiting[f])
    <3>1. \/ \E k \in Levels : q \in Elems(s.ready[k])
          \/ \E f \in Gates : q \in Elems(s.waiting[f])
      BY <2>4 DEF Tidy
    <3> QED
      BY <1>1, <2>1, <2>4, <3>1
  <2> QED
    BY <1>1, <1>6, <2>2, <2>3, <2>4 DEF Tidy
<1> QED
  BY <1>1, <1>2, <1>3, <1>4, <1>7 DEF t, h, IsReady

LEMMA QueuePlaces ==
    ASSUME NEW s \in SchedType, NEW L, Tidy(s, L), NEW p \in Procs \ (dead \cup {Idle}),
           p \in L, NEW g \in Gates
    PROVE  Tidy(Queue(s, p, g), L \ {p})
<1> DEFINE t == Queue(s, p, g)
<1>1. /\ t.ready = s.ready
      /\ \A f \in Gates : t.waiting[f] = IF f = g THEN Append(s.waiting[g], p)
                                                 ELSE s.waiting[f]
      /\ \A q \in Procs : t.myList[q] = IF q = p THEN g ELSE s.myList[q]
  BY QueueFacts
<1>2. /\ \A k \in Levels : p \notin Elems(s.ready[k]) /\ Elems(s.ready[k]) \subseteq Procs
      /\ \A f \in Gates : p \notin Elems(s.waiting[f]) /\ Elems(s.waiting[f]) \subseteq Procs
      /\ s.waiting[g] \in Seq(Procs) /\ Distinct(s.waiting[g])
  BY OffTheLists, ElemsOfSeq DEF SchedType, Tidy
<1>3. \A f \in Gates : /\ Distinct(t.waiting[f])
                       /\ Elems(t.waiting[f]) = IF f = g THEN Elems(s.waiting[g]) \cup {p}
                                                        ELSE Elems(s.waiting[f])
  <2>1. /\ Distinct(Append(s.waiting[g], p))
        /\ Elems(Append(s.waiting[g], p)) = Elems(s.waiting[g]) \cup {p}
    BY <1>2, ElemsAppend
  <2> QED
    BY <1>1, <2>1 DEF Tidy
<1> HIDE DEF t
<1> QED
  BY <1>1, <1>2, <1>3 DEF Tidy, t

\* To yield is to be put to sleep at the back, whatever the highest priority is.
LEMMA JoinPlaces ==
    ASSUME priority \in [Procs -> Levels], NEW s \in SchedType, NEW L, Tidy(s, L),
           NEW p \in Procs, p \in L
    PROVE  LET t == Join(s, p, priority[p])
           IN  /\ Tidy(t, L \ {p})
               /\ \A P : p \notin P /\ Turns(s, P) => Turns(t, P)
<1> DEFINE t == Join(s, p, priority[p])
           u == PutToSleep(s, p, TRUE)
<1>1. t.ready = u.ready /\ t.waiting = u.waiting /\ t.myList = u.myList
  BY DEF Join, PutToSleep, SchedType
<1>2. Tidy(u, L \ {p}) /\ \A P : p \notin P /\ Turns(s, P) => Turns(u, P)
  BY PutToSleepPlaces, PutToSleepTurns
<1> HIDE DEF t, u
<1> QED
  BY <1>1, <1>2 DEF Tidy, Turns, t

LEMMA RemoveProcessPlaces ==
    ASSUME NEW s \in SchedType, NEW L, Tidy(s, L), NEW p \in Procs, NEW i,
           LET m == s.myList[p]
           IN  \/ m \in Levels /\ i \in 1..Len(s.ready[m]) /\ s.ready[m][i] = p
               \/ m \in Gates /\ i \in 1..Len(s.waiting[m]) /\ s.waiting[m][i] = p
    PROVE  LET t == RemoveProcess(s, p, i)
           IN  /\ Tidy(t, L \cup {p}) /\ p \notin L
               /\ \A P : Turns(s, P) => Turns(t, P)
<1> DEFINE t == RemoveProcess(s, p, i)
           m == s.myList[p]
<1>0. /\ \A k \in Levels : s.ready[k] \in Seq(Procs) /\ Distinct(s.ready[k])
      /\ \A g \in Gates : s.waiting[g] \in Seq(Procs) /\ Distinct(s.waiting[g])
  BY DEF SchedType, Tidy
<1>1. /\ \A k \in Levels : t.ready[k] = IF k = m THEN Without(s.ready[m], i) ELSE s.ready[k]
      /\ \A g \in Gates : t.waiting[g] = IF g = m THEN Without(s.waiting[m], i)
                                                  ELSE s.waiting[g]
      /\ \A q \in Procs : t.myList[q] = IF q = p THEN NULL ELSE s.myList[q]
  BY RemoveProcessFacts
<1> HIDE DEF t
<1>2. p \notin L
  BY DEF Tidy, Elems
<1>3. ASSUME NEW k \in Levels
      PROVE  /\ Elems(t.ready[k]) = Elems(s.ready[k]) \ {p} /\ Distinct(t.ready[k])
             /\ \A x, y \in 1..Len(t.ready[k]) : x < y =>
                   \E v, w \in 1..Len(s.ready[k]) :
                      v < w /\ t.ready[k][x] = s.ready[k][v] /\ t.ready[k][y] = s.ready[k][w]
  <2>1. CASE k = m
    <3>1. i \in 1..Len(s.ready[k]) /\ s.ready[k][i] = p
      BY <2>1, ConstantsAssumption
    <3>2. t.ready[k] = Without(s.ready[k], i)
      BY <1>1, <2>1
    <3> DEFINE q == s.ready[k]
               r == Without(q, i)
    <3>3. q \in Seq(Procs) /\ Distinct(q) /\ i \in 1..Len(q) /\ q[i] = p
      BY <1>0, <3>1
    <3> HIDE DEF q
    <3>4. /\ Elems(r) = Elems(q) \ {p} /\ Distinct(r)
          /\ \A x, y \in 1..Len(r) : x < y =>
                \E v, w \in 1..Len(q) : v < w /\ r[x] = q[v] /\ r[y] = q[w]
      BY <3>3, ElemsWithout
    <3>5. t.ready[k] = r /\ s.ready[k] = q
      BY <3>2 DEF q
    <3> HIDE DEF r
    <3> QED
      BY <3>4, <3>5
  <2>2. CASE k # m
    <3>1. t.ready[k] = s.ready[k] /\ p \notin Elems(s.ready[k])
      BY <1>1, <2>2 DEF Tidy
    <3> QED
      BY <1>0, <3>1
  <2> QED
    BY <2>1, <2>2
<1>4. ASSUME NEW g \in Gates
      PROVE  Elems(t.waiting[g]) = Elems(s.waiting[g]) \ {p} /\ Distinct(t.waiting[g])
  <2>1. CASE g = m
    <3>1. i \in 1..Len(s.waiting[g]) /\ s.waiting[g][i] = p
      BY <2>1, ConstantsAssumption
    <3>2. t.waiting[g] = Without(s.waiting[g], i)
      BY <1>1, <2>1
    <3> QED
      BY <1>0, <3>1, <3>2, ElemsWithout
  <2>2. CASE g # m
    <3>1. t.waiting[g] = s.waiting[g] /\ p \notin Elems(s.waiting[g])
      BY <1>1, <2>2 DEF Tidy
    <3> QED
      BY <1>0, <3>1
  <2> QED
    BY <2>1, <2>2
<1>5. /\ \A k \in Levels : Elems(s.ready[k]) \subseteq Procs
      /\ \A g \in Gates : Elems(s.waiting[g]) \subseteq Procs
  BY <1>0, ElemsOfSeq
<1> HIDE DEF m
<1>6. Tidy(t, L \cup {p})
  <2>0. \A k \in Levels : Elems(t.ready[k]) = Elems(s.ready[k]) \ {p}
    BY <1>3
  <2>1. \A k \in Levels : \A q \in Elems(t.ready[k]) : t.myList[q] = k /\ q \notin L \cup {p}
    BY <1>1, <1>5, <2>0 DEF Tidy
  <2>2. \A g \in Gates : \A q \in Elems(t.waiting[g]) :
            t.myList[q] = g /\ q \notin (L \cup {p}) \cup dead \cup {Idle}
    BY <1>1, <1>4, <1>5 DEF Tidy
  <2>3. \A q \in Procs \ ((L \cup {p}) \cup dead) :
            \/ \E k \in Levels : q \in Elems(t.ready[k])
            \/ \E g \in Gates : q \in Elems(t.waiting[g])
    <3> SUFFICES ASSUME NEW q \in Procs, q \notin L \cup dead, q # p
                 PROVE  \/ \E k \in Levels : q \in Elems(t.ready[k])
                        \/ \E g \in Gates : q \in Elems(t.waiting[g])
      OBVIOUS
    <3>1. \A g \in Gates : Elems(t.waiting[g]) = Elems(s.waiting[g]) \ {p}
      BY <1>4
    <3>2. \/ \E k \in Levels : q \in Elems(s.ready[k])
          \/ \E g \in Gates : q \in Elems(s.waiting[g])
      BY DEF Tidy
    <3> QED
      BY <2>0, <3>1, <3>2
  <2> QED
    BY <1>3, <1>4, <2>1, <2>2, <2>3 DEF Tidy
<1>7. ASSUME NEW P, Turns(s, P) PROVE Turns(t, P)
  <2> SUFFICES ASSUME NEW k \in Levels, NEW x \in 1..Len(t.ready[k]),
                      NEW y \in 1..Len(t.ready[k]), x < y, t.ready[k][y] \in P
               PROVE  t.ready[k][x] \in P
    BY DEF Turns
  <2>1. PICK v \in 1..Len(s.ready[k]), w \in 1..Len(s.ready[k]) :
            v < w /\ t.ready[k][x] = s.ready[k][v] /\ t.ready[k][y] = s.ready[k][w]
    BY <1>3
  <2> QED
    BY <1>7, <2>1 DEF Turns
<1> QED
  BY <1>2, <1>6, <1>7 DEF t

\* t is what s is after process n of list l was woken; those of L were on no list.
WokenFrom(s, L, l, n, t) ==
    /\ Tidy(t, L \cup {n})
    /\ n \in Procs /\ n \notin L \cup dead /\ n # s.active /\ t.active = n
    /\ \A q \in L : t.myList[q] = s.myList[q]
    /\ t.myList[n] = NULL
    /\ \A P : Turns(s, P) => Turns(t, P)
    /\ Above(s) => \A k \in Levels : k > l => t.ready[k] = <<>>
    /\ IsReady(t) \subseteq IsReady(s)

\* The search finds a process that was ready and takes only dead ones off: the active
\* one is not among them where it is behind another that the search finds first.
LEMMA WokenPlaces ==
    ASSUME NEW s \in SchedType, NEW L \in SUBSET Procs, Tidy(s, L), Guarded(s),
           NEW l \in 1..Top(s), NEW i \in 1..Len(s.ready[l]), Found(s, l, i),
           NEW t, t = Woken(s, l, i), NEW n, n = s.ready[l][i]
    PROVE  WokenFrom(s, L, l, n, t)
<1> DEFINE q == s.ready[l]
           left == [k \in Levels |-> IF k > l /\ k <= Top(s) THEN <<>> ELSE s.ready[k]]
           u == [s EXCEPT !.highest = l,
                          !.ready = [left EXCEPT ![l] = SubSeq(@, i + 1, Len(@))]]
<1>1. Top(s) \in 0..MaxLevel /\ MaxLevel \in Nat
  BY LevelFacts DEF Top, SchedType
<1>2. l \in Levels /\ l \in Nat
  BY <1>1 DEF Levels
<1>3. q \in Seq(Procs) /\ Len(q) \in Nat /\ i \in 0..Len(q) /\ n \in Elems(q) /\ Distinct(q)
  BY <1>2 DEF SchedType, Elems, Tidy
<1>4. n \in Procs
  BY <1>3, ElemsOfSeq
<1>5. /\ t.active = n /\ t.waiting = s.waiting
      /\ \A p \in Procs : t.myList[p] = IF p = n THEN NULL ELSE s.myList[p]
      /\ t.ready = [left EXCEPT ![l] = SubSeq(q, i + 1, Len(q))]
  <2>1. u.waiting = s.waiting /\ u.myList = s.myList
        /\ u.ready = [left EXCEPT ![l] = SubSeq(q, i + 1, Len(q))]
    <3>1. left[l] = q
      BY <1>2
    <3>2. u.waiting = s.waiting /\ u.myList = s.myList
          /\ u.ready = [left EXCEPT ![l] = SubSeq(left[l], i + 1, Len(left[l]))]
      <4> HIDE DEF left
      <4> QED
        BY <1>2 DEF SchedType
    <3> HIDE DEF u, left, q
    <3> QED
      BY <3>1, <3>2
  <2>2. t = TransferTo(u, n)
    BY DEF Woken
  <2>3. t.active = n /\ t.waiting = u.waiting /\ t.ready = u.ready
        /\ t.myList = [u.myList EXCEPT ![n] = NULL]
    BY <2>2 DEF TransferTo, SchedType
  <2> HIDE DEF u, left, q
  <2> QED
    BY <2>1, <2>3 DEF SchedType
<1> HIDE DEF u
<1>6. \A k \in Levels : t.ready[k] = IF k = l THEN SubSeq(q, i + 1, Len(q))
                                    ELSE IF k > l /\ k <= Top(s) THEN <<>> ELSE s.ready[k]
  BY <1>2, <1>5
<1> HIDE DEF left, q
<1>7. n \notin dead /\ n # s.active /\ (\A j \in 1..(i - 1) : ~Live(s, q[j]))
      /\ \A k \in (l + 1)..Top(s) : ~HasLive(s, k)
  BY DEF Found, Live, q
<1>8. /\ s.myList[n] = l /\ n \notin L
      /\ \A k \in Levels : k # l => n \notin Elems(s.ready[k])
      /\ \A g \in Gates : n \notin Elems(s.waiting[g])
  <2>1. n \in Elems(s.ready[l])
    BY <1>3 DEF q
  <2>2. s.myList[n] = l /\ n \notin L
    BY <1>2, <2>1 DEF Tidy
  <2> QED
    BY <1>2, <2>2, ConstantsAssumption DEF Tidy
\* What is left of a list.
<1>9. ASSUME NEW k \in Levels
      PROVE  \E d \in Nat :
                /\ d + Len(t.ready[k]) = Len(s.ready[k])
                /\ \A j \in 1..Len(t.ready[k]) :
                      d + j \in 1..Len(s.ready[k]) /\ t.ready[k][j] = s.ready[k][d + j]
                /\ Distinct(t.ready[k]) /\ n \notin Elems(t.ready[k])
                /\ Elems(t.ready[k]) \subseteq Elems(s.ready[k])
  <2>0. s.ready[k] \in Seq(Procs) /\ Len(s.ready[k]) \in Nat /\ Distinct(s.ready[k])
    BY DEF SchedType, Tidy
  <2>1. CASE k = l
    <3> DEFINE r == SubSeq(q, i + 1, Len(q))
    <3>1. /\ Len(r) = Len(q) - i
          /\ \A j \in 1..Len(r) : i + j \in 1..Len(q) /\ r[j] = q[i + j]
          /\ Elems(r) \subseteq Elems(q) /\ Distinct(r)
          /\ \A j \in 1..i : q[j] \notin Elems(r)
      BY <1>3, ElemsSuffix
    <3>2. t.ready[k] = r /\ s.ready[k] = q
      BY <1>6, <2>1 DEF q
    <3> HIDE DEF r
    <3>3. i \in Nat /\ i \in 1..i /\ i + Len(r) = Len(q)
      BY <1>3, <3>1 DEF q
    <3>4. n \notin Elems(r)
      BY <3>1, <3>3 DEF q
    <3> QED
      BY <3>1, <3>2, <3>3, <3>4
  <2>2. CASE k # l /\ k > l /\ k <= Top(s)
    <3>1. t.ready[k] = <<>>
      BY <1>6, <2>2
    <3>2. Elems(t.ready[k]) = {} /\ Distinct(t.ready[k]) /\ Len(t.ready[k]) = 0
      BY <3>1 DEF Elems, Distinct
    <3> QED
      BY <2>0, <3>2
  <2>3. CASE k # l /\ ~(k > l /\ k <= Top(s))
    <3>1. t.ready[k] = s.ready[k]
      BY <1>6, <2>3
    <3>2. n \notin Elems(s.ready[k])
      BY <1>8, <2>3
    <3>3. 0 + Len(t.ready[k]) = Len(s.ready[k])
      BY <2>0, <3>1
    <3>4. \A j \in 1..Len(t.ready[k]) :
             0 + j \in 1..Len(s.ready[k]) /\ t.ready[k][j] = s.ready[k][0 + j]
      BY <2>0, <3>1
    <3> WITNESS 0 \in Nat
    <3> QED
      BY <2>0, <3>1, <3>2, <3>3, <3>4
  <2> QED
    BY <2>1, <2>2, <2>3
\* Who is no longer on one was dead, or is the one that is found.
<1>10. ASSUME NEW k \in Levels, NEW j \in 1..Len(s.ready[k]),
              s.ready[k][j] \notin Elems(t.ready[k]) \cup {n}
       PROVE  s.ready[k][j] \in dead
  <2> DEFINE p == s.ready[k][j]
  <2>0. s.ready[k] \in Seq(Procs) /\ j \in Nat /\ k \in Nat
    BY LevelFacts DEF SchedType
  <2>1. ASSUME p = s.active, \A h \in 1..(j - 1) : ~Live(s, s.ready[k][h]) PROVE FALSE
    BY <2>1 DEF Guarded
  <2>2. CASE k = l
    <3>1. ~(j \in (i + 1)..Len(q))
      BY <1>3, <1>6, <1>10, <2>2, ElemsSuffix DEF q
    <3>2. j # i
      BY <1>10, <2>2 DEF q
    <3>3. j \in 1..(i - 1) /\ \A h \in 1..(j - 1) : h \in 1..(i - 1)
      BY <1>3, <2>0, <2>2, <3>1, <3>2 DEF q
    <3>4. ~Live(s, p) /\ \A h \in 1..(j - 1) : ~Live(s, s.ready[k][h])
      BY <1>7, <2>2, <3>3 DEF q
    <3> QED
      BY <2>1, <3>4 DEF Live
  <2>3. CASE k # l /\ k > l /\ k <= Top(s)
    <3>1. k \in (l + 1)..Top(s)
      BY <1>1, <1>2, <2>0, <2>3
    <3>2. \A h \in 1..Len(s.ready[k]) : ~Live(s, s.ready[k][h])
      BY <1>7, <3>1 DEF HasLive, Elems
    <3>3. ~Live(s, p) /\ \A h \in 1..(j - 1) : h \in 1..Len(s.ready[k])
      BY <2>0, <3>2
    <3> QED
      BY <2>1, <3>2, <3>3 DEF Live
  <2>4. CASE k # l /\ ~(k > l /\ k <= Top(s))
    BY <1>6, <1>10, <2>4 DEF Elems
  <2> QED
    BY <2>2, <2>3, <2>4
<1>11. Tidy(t, L \cup {n})
  <2>1. \A k \in Levels : Elems(s.ready[k]) \subseteq Procs
    BY ElemsOfSeq DEF SchedType
  <2>2. \A g \in Gates : Elems(s.waiting[g]) \subseteq Procs
    BY ElemsOfSeq DEF SchedType
  <2>3. \A k \in Levels : Distinct(t.ready[k])
    BY <1>9
  <2>4. ASSUME NEW k \in Levels, NEW p \in Elems(t.ready[k])
        PROVE  t.myList[p] = k /\ p \notin L \cup {n}
    <3>1. p \in Elems(s.ready[k]) /\ p # n
      BY <1>9, <2>4
    <3> QED
      BY <1>5, <2>1, <3>1 DEF Tidy
  <2>5. \A g \in Gates : Distinct(t.waiting[g])
    BY <1>5 DEF Tidy
  <2>6. ASSUME NEW g \in Gates, NEW p \in Elems(t.waiting[g])
        PROVE  t.myList[p] = g /\ p \notin L \cup {n} \cup dead \cup {Idle}
    <3>1. p \in Elems(s.waiting[g]) /\ p # n
      BY <1>5, <1>8, <2>6
    <3> QED
      BY <1>5, <2>2, <3>1 DEF Tidy
  <2>7. ASSUME NEW p \in Procs \ (L \cup {n} \cup dead)
        PROVE  \/ \E k \in Levels : p \in Elems(t.ready[k])
               \/ \E g \in Gates : p \in Elems(t.waiting[g])
    <3>1. CASE \E g \in Gates : p \in Elems(s.waiting[g])
      BY <1>5, <3>1
    <3>2. ASSUME NEW k \in Levels, p \in Elems(s.ready[k]) PROVE p \in Elems(t.ready[k])
      BY <1>10, <2>7, <3>2 DEF Elems
    <3> QED
      BY <3>1, <3>2 DEF Tidy
  <2> QED
    BY <2>3, <2>4, <2>5, <2>6, <2>7 DEF Tidy
<1>12. ASSUME NEW P, Turns(s, P) PROVE Turns(t, P)
  <2> SUFFICES ASSUME NEW k \in Levels, NEW x \in 1..Len(t.ready[k]),
                      NEW y \in 1..Len(t.ready[k]), x < y, t.ready[k][y] \in P
               PROVE  t.ready[k][x] \in P
    BY DEF Turns
  <2>1. PICK d \in Nat : \A j \in 1..Len(t.ready[k]) :
            d + j \in 1..Len(s.ready[k]) /\ t.ready[k][j] = s.ready[k][d + j]
    BY <1>9
  <2>2. d + x < d + y /\ d + x \in 1..Len(s.ready[k]) /\ d + y \in 1..Len(s.ready[k])
    BY <2>1
  <2> QED
    BY <1>12, <2>1, <2>2 DEF Turns
<1>13. ASSUME Above(s), NEW k \in Levels, k > l PROVE t.ready[k] = <<>>
  <2>1. CASE k <= Top(s)
    BY <1>2, <1>6, <1>13, <2>1, LevelFacts
  <2>2. CASE ~(k <= Top(s))
    <3>1. s.highest # 0 /\ k > s.highest
      BY <2>2, LevelFacts DEF Top, Levels, SchedType
    <3>2. s.ready[k] = <<>> /\ k # l
      BY <1>2, <1>13, <3>1, LevelFacts DEF Above
    <3> QED
      BY <1>6, <2>2, <3>2
  <2> QED
    BY <2>1, <2>2
<1>14. IsReady(t) \subseteq IsReady(s)
  BY <1>9 DEF IsReady
<1> QED
  BY <1>4, <1>5, <1>7, <1>8, <1>11, <1>12, <1>13, <1>14 DEF WokenFrom

----------------------------------------------------------------------------
(* What the actions share.                                                  *)

PlacesInv == PlaceInv /\ TurnInv /\ RankInv

LEMMA PlaceTypes ==
    ASSUME TypeOK
    PROVE  sched \in SchedType /\ sched.active \in Procs /\ OffLists \in SUBSET Procs
           /\ priority \in [Procs -> Levels]
<1>1. Elems(callouts) \subseteq Procs
  BY ElemsOfSeq DEF TypeOK
<1>2. sched \in SchedType /\ sched.active \in Procs
  BY DEF TypeOK, SchedType
<1> QED
  BY <1>1, <1>2 DEF TypeOK, OffLists

\* A step after which the lists, the turns and the ranks are right.
LEMMA KeepsPlaces ==
    ASSUME UNCHANGED dead, NEW N, Tidy(sched', N), N = Away' \cup {sched'.active},
           \A q \in N : sched'.myList[q] = NULL,
           sched'.active \notin Away' \cup dead,
           (parked \cap Elems(callouts))' = {}, Distinct(callouts'),
           Elems(callouts') \cap dead = {}, Idle \notin Away' \cup dead,
           preempted' \subseteq IsReady(sched'),
           PreemptionYields \/ Turns(sched', preempted'),
           RankInv'
    PROVE  PlacesInv'
<1>1. OffLists' = N
  BY DEF OffLists, Away
<1>2. Tidy(sched, OffLists)'
  BY <1>1 DEF Tidy
<1>3. PlaceInv'
  BY <1>1, <1>2 DEF PlaceInv
<1> QED
  BY <1>3 DEF PlacesInv, TurnInv

\* A process that was on no list is resumed.
LEMMA AfterResume ==
    ASSUME TypeOK, PlacesInv, NEW s \in SchedType,
           s.active = sched.active, s.ready = sched.ready,
           NEW p \in Procs, p \notin dead \cup {sched.active, Idle} \cup Elems(callouts),
           Tidy(s, OffLists \cup {p}), \A q \in OffLists \ {p} : s.myList[q] = NULL,
           sched' = Resume(s, p), parked' = parked \ {p},
           UNCHANGED <<priority, dead, callouts, inverted>>, NotePreemption
    PROVE  PlacesInv'
<1> DEFINE a == sched.active
           L == OffLists \cup {p}
           N == (L \ {p, a}) \cup {sched'.active}
<1>0. /\ priority \in [Procs -> Levels] /\ L \in SUBSET Procs /\ a \in Procs /\ a \in L
      /\ p \in L /\ \A q \in L \ {p} : s.myList[q] = NULL
      /\ p # s.active /\ s.active \in L /\ Tidy(s, L)
  BY PlaceTypes DEF OffLists
<1>1. /\ Tidy(sched', N) /\ sched'.active \in {p, a}
      /\ \A q \in N : sched'.myList[q] = NULL
      /\ Ruled(s) => Ruled(sched')
      /\ \A P : P \subseteq IsReady(s) /\ Turns(s, P) =>
            PreemptionYields \/ Turns(sched', P \cup {a})
  <2> DEFINE t == Resume(s, p)
             M == (L \ {p, s.active}) \cup {t.active}
  <2>1. /\ Tidy(t, M) /\ t.active \in {p, s.active}
        /\ \A q \in M : t.myList[q] = NULL
        /\ Ruled(s) => Ruled(t)
        /\ \A P : P \subseteq IsReady(s) /\ Turns(s, P) =>
              PreemptionYields \/ Turns(t, P \cup {s.active})
    <3> HIDE DEF L
    <3> QED
      BY <1>0, ResumePlaces
  <2>2. sched' = t /\ M = N
    OBVIOUS
  <2> HIDE DEF t, M, N, L
  <2> QED
    BY <2>1, <2>2
<1>2. sched' \in SchedType
  BY <1>0, ResumeFacts
<1>3. N = Away' \cup {sched'.active}
  BY <1>1 DEF Away, OffLists, PlacesInv, PlaceInv
<1>4. sched'.active \notin Away' \cup dead /\ Away' \subseteq Away
  BY <1>1 DEF Away, PlacesInv, PlaceInv
<1>5. RankInv'
  <2>1. Ruled(sched) => Ruled(s)
    BY DEF Ruled
  <2>2. ASSUME Ruled(sched') PROVE Ruled(sched)'
    BY <2>2 DEF Ruled
  <2> QED
    BY <1>1, <2>1, <2>2 DEF PlacesInv, RankInv
<1>6. preempted' = ((preempted \cup {a}) \ {sched'.active}) \cap IsReady(sched')
  BY DEF NotePreemption
<1>7. PreemptionYields \/ Turns(sched', preempted')
  <2> SUFFICES ASSUME ~PreemptionYields PROVE Turns(sched', preempted')
    OBVIOUS
  <2>1. Turns(s, preempted) /\ preempted \subseteq IsReady(s)
    BY DEF PlacesInv, TurnInv, Turns, IsReady
  <2>2. Turns(sched', preempted \cup {a})
    BY <1>1, <2>1
  <2>3. sched'.active \notin IsReady(sched')
    <3>1. sched'.active \in N
      OBVIOUS
    <3> HIDE DEF N
    <3> QED
      BY <1>1, <1>2, <3>1, OffTheLists
  <2> QED
    BY <1>2, <1>6, <2>2, <2>3, TurnsOfReady
<1> HIDE DEF N
<1> QED
  BY <1>1, <1>3, <1>4, <1>5, <1>6, <1>7, KeepsPlaces DEF PlacesInv, PlaceInv, Away

\* The active process has a new place, or is about to have it, and gives up.
LEMMA AfterGiveUp ==
    ASSUME TypeOK, PlacesInv, NEW s \in SchedType, NEW L \in SUBSET Procs,
           Tidy(s, L), Guarded(s), \A q \in L : s.myList[q] = NULL, Above(s),
           PreemptionYields \/ Turns(s, preempted), GiveUp(s), L = Away',
           UNCHANGED <<priority, dead>>,
           (parked \cap Elems(callouts))' = {}, Distinct(callouts'),
           Elems(callouts') \cap dead = {}, Idle \notin L \cup dead,
           StillPreempted \/ (NotePreemption /\ sched.active \notin IsReady(s))
    PROVE  PlacesInv'
<1>0. /\ priority \in [Procs -> Levels] /\ Levels \subseteq Nat /\ Top(s) \in 0..MaxLevel
      /\ MaxLevel \in Nat
  BY PlaceTypes, LevelFacts DEF SchedType, Top
<1>a. PICK l \in 1..Top(s) : \E i \in 1..Len(s.ready[l]) :
          /\ Found(s, l, i) /\ sched' = Woken(s, l, i)
          /\ inverted' = (priority[s.ready[l][i]] < l)
  BY DEF GiveUp
<1>1. PICK i \in 1..Len(s.ready[l]) :
          /\ Found(s, l, i) /\ sched' = Woken(s, l, i)
          /\ inverted' = (priority[s.ready[l][i]] < l)
  BY <1>a
<1> DEFINE n == s.ready[l][i]
           N == L \cup {n}
<1>2. /\ Tidy(sched', N) /\ n \in Procs /\ n \notin L \cup dead /\ sched'.active = n
      /\ \A q \in L : sched'.myList[q] = s.myList[q]
      /\ sched'.myList[n] = NULL
      /\ \A P : Turns(s, P) => Turns(sched', P)
      /\ \A k \in Levels : k > l => sched'.ready[k] = <<>>
      /\ IsReady(sched') \subseteq IsReady(s)
  <2>1. sched' = Woken(s, l, i) /\ Found(s, l, i)
    BY <1>1
  <2> HIDE DEF n, N
  <2>2. n = s.ready[l][i] /\ N = L \cup {n}
    BY DEF n, N
  <2>3. WokenFrom(s, L, l, n, sched')
    BY <2>1, <2>2, WokenPlaces
  <2> QED
    BY <2>2, <2>3 DEF WokenFrom
<1>3. sched' \in SchedType /\ inverted' = (priority[n] < l)
  BY <1>1, WokenFacts
<1> HIDE DEF n
<1>4. RankInv'
  <2> SUFFICES ASSUME ~inverted', NEW k \in Levels, k > priority'[n]
               PROVE  sched'.ready[k] = <<>>
    BY <1>2 DEF RankInv, Ruled
  <2>1. k > l
    <3>a. n \in Procs
      BY <1>2
    <3>b. priority[n] \in Nat
      BY <1>0, <3>a
    <3>1. priority[n] \in Nat /\ k \in Nat /\ l \in Nat
      BY <1>0, <3>b
    <3>2. k > priority[n]
      OBVIOUS
    <3>3. ~(priority[n] < l)
      BY <1>3, Zenon
    <3> QED
      BY <3>1, <3>2, <3>3
  <2> QED
    BY <1>2, <2>1
<1>5. n \notin IsReady(sched')
  <2>1. n \in N
    OBVIOUS
  <2> HIDE DEF N
  <2> QED
    BY <1>2, <1>3, <2>1, OffTheLists
<1>6. /\ preempted' \subseteq IsReady(sched')
      /\ \A q \in IsReady(sched') : q \in preempted <=> q \in preempted'
  <2>1. CASE StillPreempted
    BY <2>1 DEF StillPreempted
  <2>2. CASE NotePreemption /\ sched.active \notin IsReady(s)
    <3>1. preempted' = ((preempted \cup {sched.active}) \ {n}) \cap IsReady(sched')
      BY <1>2, <2>2 DEF NotePreemption
    <3> HIDE DEF IsReady
    <3> QED
      BY <1>2, <1>5, <2>2, <3>1
  <2> QED
    BY <2>1, <2>2
<1>7. PreemptionYields \/ Turns(sched', preempted')
  <2>1. Turns(s, preempted) => Turns(sched', preempted')
    BY <1>2, <1>3, <1>6, TurnsOfReady
  <2> QED
    BY <2>1
<1>8. N = Away' \cup {sched'.active} /\ \A q \in N : sched'.myList[q] = NULL
  BY <1>2
<1>9. sched'.active \notin Away' \cup dead /\ Idle \notin Away' \cup dead
  BY <1>2
<1> HIDE DEF N
<1> QED
  BY <1>2, <1>4, <1>6, <1>7, <1>8, <1>9, KeepsPlaces

LEMMA PlacesStay ==
    ASSUME TypeOK, PlacesInv, UNCHANGED <<sched, priority, dead, parked, callouts, inverted>>,
           UNCHANGED preempted \/ NotePreemption
    PROVE  PlacesInv'
<1>1. preempted' = preempted
  <2>1. sched.active \notin IsReady(sched)
    <3>1. sched.active \in OffLists
      BY DEF OffLists
    <3> QED
      BY <3>1, PlaceTypes, OffTheLists DEF PlacesInv, PlaceInv
  <2> HIDE DEF IsReady
  <2>2. CASE NotePreemption
    <3>1. preempted' = ((preempted \cup {sched.active}) \ {sched.active}) \cap IsReady(sched)
      BY <2>2 DEF NotePreemption
    <3> QED
      BY <2>1, <3>1 DEF PlacesInv, TurnInv
  <2> QED
    BY <2>2
<1>2. PlaceInv'
  BY DEF PlacesInv, PlaceInv, OffLists, Away, Tidy
<1>3. TurnInv' /\ RankInv'
  BY <1>1 DEF PlacesInv, TurnInv, RankInv, IsReady, Turns, Ruled
<1> QED
  BY <1>2, <1>3 DEF PlacesInv

\* The first process that waits at a gate is resumed.
LEMMA AfterResumeFirst ==
    ASSUME TypeOK, PlacesInv, NEW g \in Gates, sched.waiting[g] # <<>>,
           sched' = Resume(RemoveFirst(sched, g), Head(sched.waiting[g])),
           UNCHANGED <<priority, dead, parked, callouts, inverted>>, NotePreemption
    PROVE  PlacesInv'
<1> DEFINE p == Head(sched.waiting[g])
           s == RemoveFirst(sched, g)
<1>0. sched \in SchedType /\ OffLists \in SUBSET Procs
  BY PlaceTypes
<1>1. /\ s \in SchedType /\ s.active = sched.active /\ s.ready = sched.ready
      /\ s.myList = sched.myList
  BY <1>0, RemoveFirstFacts
<1>2. /\ Tidy(s, OffLists \cup {p}) /\ p \in Procs /\ p \notin OffLists \cup dead \cup {Idle}
  BY <1>0, RemoveFirstPlaces DEF PlacesInv, PlaceInv
<1>3. sched' = Resume(s, p)
  OBVIOUS
<1> HIDE DEF p, s
<1>4. \A q \in OffLists \ {p} : s.myList[q] = NULL
  BY <1>1 DEF PlacesInv, PlaceInv
<1>5. p \notin dead \cup {sched.active, Idle} \cup Elems(callouts) /\ parked' = parked \ {p}
  BY <1>2 DEF OffLists
<1> QED
  BY <1>1, <1>2, <1>3, <1>4, <1>5, AfterResume

\* The active process joins the list of a gate and gives up.
LEMMA AfterQueueAndGiveUp ==
    ASSUME IInv, PlacesInv, NEW g \in Gates, sched.active # Idle,
           GiveUp(Queue(sched, sched.active, g)),
           UNCHANGED <<priority, dead, parked, callouts>>, NotePreemption
    PROVE  PlacesInv'
<1> DEFINE a == sched.active
           s == Queue(sched, a, g)
<1>0. /\ sched \in SchedType /\ OffLists \in SUBSET Procs /\ a \in Procs /\ TypeOK
      /\ Above(sched)
  BY Unfold, PlaceTypes
<1>1. Tidy(sched, OffLists) /\ a \in OffLists /\ a \notin dead \cup {Idle} /\ a \notin Away
  BY DEF PlacesInv, PlaceInv, OffLists
<1>2. OffLists \ {a} = Away /\ Away \in SUBSET Procs
  BY <1>0, <1>1 DEF OffLists, Away
<1>3. /\ s \in SchedType /\ s.active = a /\ s.ready = sched.ready /\ Above(s)
      /\ \A q \in Procs : s.myList[q] = IF q = a THEN g ELSE sched.myList[q]
  BY <1>0, QueueFacts
<1>4. Tidy(s, Away)
  BY <1>0, <1>1, <1>2, QueuePlaces
<1>5. GiveUp(s)
  OBVIOUS
<1> HIDE DEF s
<1>6. a \notin IsReady(s)
  <2>1. a \notin IsReady(sched)
    BY <1>0, <1>1, OffTheLists
  <2> QED
    BY <1>3, <2>1 DEF IsReady
<1>7. Guarded(s)
  BY <1>3, <1>6 DEF Guarded, IsReady, Elems
<1>8. PreemptionYields \/ Turns(s, preempted)
  BY <1>3 DEF PlacesInv, TurnInv, Turns
<1>9. \A q \in Away : s.myList[q] = NULL
  BY <1>1, <1>2, <1>3 DEF PlacesInv, PlaceInv
<1>10. /\ Away' = Away /\ (parked \cap Elems(callouts))' = {} /\ Distinct(callouts')
       /\ Elems(callouts') \cap dead = {} /\ Idle \notin Away \cup dead
  BY DEF Away, PlacesInv, PlaceInv
<1> QED
  BY <1>0, <1>2, <1>3, <1>4, <1>5, <1>6, <1>7, <1>8, <1>9, <1>10, AfterGiveUp

\* The active process gives up where it is, to be suspended or to wait for a callback.
LEMMA AfterGiveUpOnly ==
    ASSUME IInv, PlacesInv, sched.active # Idle, GiveUp(sched),
           UNCHANGED <<priority, dead>>, NotePreemption, Away' = OffLists,
           (parked \cap Elems(callouts))' = {}, Distinct(callouts'),
           Elems(callouts') \cap dead = {}
    PROVE  PlacesInv'
<1>0. /\ sched \in SchedType /\ OffLists \in SUBSET Procs /\ TypeOK /\ Above(sched)
  BY Unfold, PlaceTypes
<1>1. /\ Tidy(sched, OffLists) /\ \A q \in OffLists : sched.myList[q] = NULL
      /\ PreemptionYields \/ Turns(sched, preempted)
  BY DEF PlacesInv, PlaceInv, TurnInv
<1>2. sched.active \notin IsReady(sched)
  <2>1. sched.active \in OffLists
    BY DEF OffLists
  <2> QED
    BY <1>0, <1>1, <2>1, OffTheLists
<1>3. Guarded(sched)
  BY <1>2 DEF Guarded, IsReady, Elems
<1>4. Idle \notin OffLists \cup dead
  BY DEF PlacesInv, PlaceInv, OffLists, Away
<1> QED
  BY <1>0, <1>1, <1>2, <1>3, <1>4, AfterGiveUp

----------------------------------------------------------------------------
LEMMA InitPlaces == ASSUME Init PROVE PlacesInv
<1> USE ConstantsAssumption
<1>1. /\ OffLists = Procs /\ Away = Others
  BY DEF Init, OffLists, Away, Others, Elems
<1>2. Tidy(sched, OffLists)
  BY <1>1 DEF Init, Tidy, Elems, Distinct
<1>3. PlaceInv
  BY <1>1, <1>2 DEF Init, PlaceInv, Others, Elems, Distinct
<1>4. TurnInv /\ RankInv
  BY DEF Init, TurnInv, RankInv, Turns, Ruled, IsReady
<1> QED
  BY <1>3, <1>4 DEF PlacesInv

LEMMA SignalPlaces ==
    ASSUME TypeOK, PlacesInv, NEW g \in Semaphores, SynchronousSignal(g),
           UNCHANGED <<priority, dead, parked, callouts, inverted>>, NotePreemption
    PROVE  PlacesInv'
<1>1. CASE sched.waiting[g] = <<>>
  BY <1>1, PlacesStay DEF SynchronousSignal
<1>2. CASE sched.waiting[g] # <<>>
  <2>1. g \in Gates
    BY DEF Gates
  <2> QED
    BY <1>2, <2>1, AfterResumeFirst DEF SynchronousSignal
<1> QED
  BY <1>1, <1>2

LEMMA WaitPlaces == ASSUME IInv, PlacesInv, NEW g \in Semaphores, Wait(g) PROVE PlacesInv'
<1>1. /\ UNCHANGED <<priority, dead, parked, callouts>> /\ NotePreemption
      /\ sched.active # Idle /\ g \in Gates /\ TypeOK
  BY Unfold DEF Wait, image, calls, Gates
<1>2. CASE excess[g] > 0
  BY <1>1, <1>2, PlacesStay DEF Wait
<1>3. CASE ~(excess[g] > 0)
  BY <1>1, <1>3, AfterQueueAndGiveUp DEF Wait
<1> QED
  BY <1>2, <1>3

LEMMA EnterPlaces == ASSUME IInv, PlacesInv, NEW c \in Sections, Enter(c) PROVE PlacesInv'
<1>1. /\ UNCHANGED <<priority, dead, parked, callouts>> /\ NotePreemption
      /\ sched.active # Idle /\ c \in Gates /\ TypeOK
  BY Unfold DEF Enter, image, calls, Gates
<1>2. CASE UNCHANGED <<sched, inverted>>
  BY <1>1, <1>2, PlacesStay
<1>3. CASE GiveUp(Queue(sched, sched.active, c))
  BY <1>1, <1>3, AfterQueueAndGiveUp
<1> QED
  BY <1>2, <1>3 DEF Enter

LEMMA ExitPlaces == ASSUME IInv, PlacesInv, NEW c \in Sections, Exit(c) PROVE PlacesInv'
<1>1. /\ UNCHANGED <<priority, dead, parked, callouts, inverted>> /\ NotePreemption
      /\ c \in Gates /\ TypeOK
  BY Unfold DEF Exit, image, calls, Gates
<1>2. CASE sched.waiting[c] = <<>>
  BY <1>1, <1>2, PlacesStay DEF Exit
<1>3. CASE sched.waiting[c] # <<>>
  BY <1>1, <1>3, AfterResumeFirst DEF Exit
<1> QED
  BY <1>2, <1>3

\* There is another process that can run on the list the active one joins, and it is
\* found first: the active one joins at the back.
LEMMA YieldPlaces ==
    ASSUME IInv, PlacesInv, YieldsBesideDead = FALSE, Yield PROVE PlacesInv'
<1> DEFINE a == sched.active
           l == priority[a]
           s == Join(sched, a, l)
<1>0. /\ sched \in SchedType /\ OffLists \in SUBSET Procs /\ a \in Procs /\ TypeOK
      /\ Above(sched) /\ priority \in [Procs -> Levels] /\ l \in Levels
  BY Unfold, PlaceTypes
<1>1. Tidy(sched, OffLists) /\ a \in OffLists /\ a \notin Away
  BY DEF PlacesInv, PlaceInv, OffLists
<1>2. OffLists \ {a} = Away /\ Away \in SUBSET Procs
  BY <1>0, <1>1 DEF OffLists, Away
<1>3. /\ GiveUp(s) /\ StillPreempted /\ HasLive(sched, l) /\ sched.ready[l] # <<>>
      /\ UNCHANGED <<priority, dead, parked, callouts>>
  BY DEF Yield, image, calls
<1>4. a \notin IsReady(sched)
  BY <1>0, <1>1, OffTheLists
<1>5. a \notin preempted
  BY <1>4 DEF PlacesInv, TurnInv
<1>6. Tidy(s, Away) /\ (PreemptionYields \/ Turns(s, preempted))
  <2>1. PreemptionYields \/ Turns(sched, preempted)
    BY DEF PlacesInv, TurnInv
  <2>2. Tidy(s, OffLists \ {a})
    BY <1>0, <1>1, JoinPlaces
  <2>3. Turns(sched, preempted) => Turns(s, preempted)
    BY <1>0, <1>1, <1>5, JoinPlaces
  <2> HIDE DEF s
  <2> QED
    BY <1>2, <2>1, <2>2, <2>3
<1>7. /\ s \in SchedType /\ s.active = a /\ Above(s)
      /\ \A k \in Levels : s.ready[k] = IF k = l THEN Append(sched.ready[l], a)
                                                 ELSE sched.ready[k]
      /\ \A q \in Procs : s.myList[q] = IF q = a THEN l ELSE sched.myList[q]
  <2> HIDE DEF l
  <2> QED
    BY <1>0, <1>3, JoinFacts
<1> HIDE DEF s, l
<1>8. Guarded(s)
  <2> SUFFICES ASSUME NEW k \in Levels, NEW j \in 1..Len(s.ready[k]), s.ready[k][j] = a
               PROVE  \E i \in 1..(j - 1) : Live(s, s.ready[k][i])
    BY <1>7 DEF Guarded
  <2> DEFINE q == sched.ready[l]
  <2>1. q \in Seq(Procs) /\ Len(q) \in Nat /\ \A i \in 1..Len(q) : q[i] # a
    BY <1>0, <1>4 DEF SchedType, IsReady, Elems
  <2>2. k = l
    <3>1. k # l => a \in Elems(sched.ready[k])
      BY <1>7 DEF Elems
    <3> QED
      BY <1>4, <3>1 DEF IsReady
  <2>3. s.ready[k] = Append(q, a)
    BY <1>7, <2>2
  <2>4. /\ Len(s.ready[k]) = Len(q) + 1 /\ \A i \in 1..Len(q) : s.ready[k][i] = q[i]
    BY <1>0, <2>1, <2>3, AppendProperties
  <2>5. j = Len(q) + 1
    BY <2>1, <2>4
  <2>6. PICK i \in 1..Len(q) : Live(sched, q[i])
    BY <1>3 DEF HasLive, Elems
  <2>7. i \in 1..(j - 1) /\ Live(s, s.ready[k][i])
    BY <1>7, <2>1, <2>4, <2>5, <2>6 DEF Live
  <2> QED
    BY <2>7
<1>9. \A q \in Away : s.myList[q] = NULL
  BY <1>1, <1>2, <1>7 DEF PlacesInv, PlaceInv
<1>10. /\ Away' = Away /\ (parked \cap Elems(callouts))' = {} /\ Distinct(callouts')
       /\ Elems(callouts') \cap dead = {} /\ Idle \notin Away \cup dead
  BY <1>3 DEF Away, PlacesInv, PlaceInv
<1> QED
  BY <1>0, <1>2, <1>3, <1>6, <1>7, <1>8, <1>9, <1>10, AfterGiveUp

LEMMA SuspendActivePlaces == ASSUME IInv, PlacesInv, SuspendActive PROVE PlacesInv'
<1>1. /\ UNCHANGED <<priority, dead, callouts>> /\ NotePreemption /\ sched.active # Idle
      /\ GiveUp(sched) /\ parked' = parked \cup {sched.active}
  BY DEF SuspendActive, image, calls
<1>2. /\ Away' = OffLists /\ (parked \cap Elems(callouts))' = {} /\ Distinct(callouts')
      /\ Elems(callouts') \cap dead = {}
  BY <1>1 DEF Away, OffLists, PlacesInv, PlaceInv
<1> QED
  BY <1>1, <1>2, AfterGiveUpOnly

LEMMA EnterCallbackPlaces == ASSUME IInv, PlacesInv, EnterCallback PROVE PlacesInv'
<1>1. /\ UNCHANGED <<priority, dead, parked>> /\ NotePreemption /\ sched.active # Idle
      /\ GiveUp(sched) /\ callouts' = <<sched.active>> \o callouts
  BY DEF EnterCallback, image
<1>2. /\ sched.active \notin Elems(callouts) /\ sched.active \notin dead \cup parked
      /\ Distinct(callouts)
  BY DEF PlacesInv, PlaceInv, Away
<1>3. Elems(callouts') = Elems(callouts) \cup {sched.active} /\ Distinct(callouts')
  BY <1>1, <1>2, Unfold, ElemsFront
<1>4. /\ Away' = OffLists /\ (parked \cap Elems(callouts))' = {}
      /\ Elems(callouts') \cap dead = {}
  BY <1>1, <1>2, <1>3 DEF Away, OffLists, PlacesInv, PlaceInv
<1> QED
  BY <1>1, <1>3, <1>4, AfterGiveUpOnly

LEMMA SuspendPlaces == ASSUME IInv, PlacesInv, NEW p \in Procs, Suspend(p) PROVE PlacesInv'
<1>0. /\ sched \in SchedType /\ OffLists \in SUBSET Procs /\ TypeOK
      /\ UNCHANGED <<priority, dead, callouts, inverted>> /\ NotePreemption
      /\ p # sched.active /\ p # Idle
  BY Unfold, PlaceTypes, ConstantsAssumption DEF Suspend, image, calls, Others
<1>1. CASE UNCHANGED <<sched, parked>>
  BY <1>0, <1>1, PlacesStay
<1>2. ASSUME NEW i \in MyPlaces(p), sched' = RemoveProcess(sched, p, i),
             parked' = parked \cup {p}
      PROVE  PlacesInv'
  <2>1. LET m == sched.myList[p]
        IN  \/ m \in Levels /\ i \in 1..Len(sched.ready[m]) /\ sched.ready[m][i] = p
            \/ m \in Gates /\ i \in 1..Len(sched.waiting[m]) /\ sched.waiting[m][i] = p
    BY <1>0 DEF MyPlaces, SchedType
  <2>2. /\ sched' \in SchedType /\ sched'.active = sched.active
        /\ \A q \in Procs : sched'.myList[q] = IF q = p THEN NULL ELSE sched.myList[q]
    BY <1>0, <1>2, <2>1, RemoveProcessFacts
  <2>3. /\ Tidy(sched', OffLists \cup {p}) /\ p \notin OffLists
        /\ \A P : Turns(sched, P) => Turns(sched', P)
    <3> DEFINE t == RemoveProcess(sched, p, i)
    <3>1. Tidy(sched, OffLists)
      BY DEF PlacesInv, PlaceInv
    <3>2. /\ Tidy(t, OffLists \cup {p}) /\ p \notin OffLists
          /\ \A P : Turns(sched, P) => Turns(t, P)
      BY <1>0, <2>1, <3>1, RemoveProcessPlaces
    <3>3. sched' = t
      BY <1>2
    <3> HIDE DEF t
    <3> QED
      BY <3>2, <3>3
  <2>4. OffLists \cup {p} = Away' \cup {sched'.active}
    BY <1>0, <1>2, <2>2 DEF OffLists, Away
  <2>5. \A q \in OffLists \cup {p} : sched'.myList[q] = NULL
    BY <1>0, <2>2 DEF PlacesInv, PlaceInv
  <2>6. /\ sched'.active \notin Away' \cup dead /\ Idle \notin Away' \cup dead
        /\ (parked \cap Elems(callouts))' = {} /\ Distinct(callouts')
        /\ Elems(callouts') \cap dead = {}
    BY <1>0, <1>2, <2>2, <2>3 DEF OffLists, Away, PlacesInv, PlaceInv
  <2>7. RankInv'
    <3>1. ASSUME Ruled(sched), NEW k \in Levels, k > priority[sched.active]
          PROVE  sched'.ready[k] = <<>>
      <4>1. sched.ready[k] = <<>>
        BY <3>1 DEF Ruled
      <4>2. k # sched.myList[p]
        BY <2>1, <4>1, ConstantsAssumption
      <4> QED
        BY <1>0, <1>2, <2>1, <4>1, <4>2, RemoveProcessFacts
    <3> QED
      BY <1>0, <2>2, <3>1 DEF PlacesInv, RankInv, Ruled
  <2>8. sched.active \notin IsReady(sched')
    <3> DEFINE L == OffLists \cup {p}
    <3>1. sched.active \in L /\ Tidy(sched', L)
      BY <2>3 DEF OffLists
    <3> HIDE DEF L
    <3> QED
      BY <2>2, <3>1, OffTheLists
  <2>9. preempted' = ((preempted \cup {sched.active}) \ {sched.active}) \cap IsReady(sched')
    BY <1>0, <2>2 DEF NotePreemption
  <2>10. /\ preempted' \subseteq IsReady(sched')
         /\ \A q \in IsReady(sched') : q \in preempted <=> q \in preempted'
    <3> HIDE DEF IsReady
    <3> QED
      BY <2>8, <2>9
  <2>11. PreemptionYields \/ Turns(sched', preempted')
    <3>1. Turns(sched, preempted) => Turns(sched', preempted')
      BY <2>2, <2>3, <2>10, TurnsOfReady
    <3> QED
      BY <3>1 DEF PlacesInv, TurnInv
  <2> QED
    BY <1>0, <2>3, <2>4, <2>5, <2>6, <2>7, <2>10, <2>11, KeepsPlaces
<1> QED
  BY <1>1, <1>2 DEF Suspend

LEMMA ResumeParkedPlaces ==
    ASSUME IInv, PlacesInv, NEW p \in Procs, ResumeParked(p) PROVE PlacesInv'
<1>1. /\ UNCHANGED <<priority, dead, callouts, inverted>> /\ NotePreemption
      /\ p \in parked \ dead /\ sched' = Resume(sched, p) /\ parked' = parked \ {p}
  BY DEF ResumeParked, image, calls
<1>2. /\ p \notin dead \cup {sched.active, Idle} \cup Elems(callouts)
      /\ \A q \in OffLists \ {p} : sched.myList[q] = NULL
      /\ OffLists \cup {p} = OffLists
  BY <1>1 DEF PlacesInv, PlaceInv, OffLists, Away
<1>3. Tidy(sched, OffLists \cup {p})
  BY <1>2 DEF PlacesInv, PlaceInv
<1>4. sched \in SchedType /\ TypeOK
  BY Unfold
<1> QED
  BY <1>1, <1>2, <1>3, <1>4, AfterResume

\* Nobody is moved, and only the active process can lose its rank.
LEMMA SetPriorityPlaces ==
    ASSUME IInv, PlacesInv, NEW p \in Procs, NEW l \in Levels, SetPriority(p, l)
    PROVE  PlacesInv'
<1>1. /\ UNCHANGED <<sched, dead, callouts, parked, preempted>>
      /\ priority' = [priority EXCEPT ![p] = l]
      /\ ~inverted' => ~inverted /\ ~(p = sched.active /\ l < priority[p])
  BY Unfold DEF SetPriority, calls
<1>2. PlaceInv' /\ TurnInv'
  BY <1>1 DEF PlacesInv, PlaceInv, TurnInv, OffLists, Away, Tidy, IsReady, Turns
<1>3. RankInv'
  <2> SUFFICES ASSUME ~inverted', NEW k \in Levels, k > priority'[sched.active]
               PROVE  sched.ready[k] = <<>>
    BY <1>1 DEF RankInv, Ruled
  <2>1. /\ sched.active \in Procs /\ priority \in [Procs -> Levels] /\ Levels \subseteq Nat
    BY Unfold, LevelFacts
  <2>2. k > priority[sched.active]
    <3>1. k \in Nat /\ l \in Nat /\ priority[sched.active] \in Nat
      BY <2>1
    <3>2. CASE p = sched.active
      <4>1. k > l /\ ~(l < priority[sched.active])
        BY <1>1, <2>1, <3>2
      <4> QED
        BY <3>1, <4>1
    <3>3. CASE p # sched.active
      BY <1>1, <2>1, <3>3
    <3> QED
      BY <3>2, <3>3
  <2> QED
    BY <1>1, <2>2 DEF PlacesInv, RankInv, Ruled
<1> QED
  BY <1>2, <1>3 DEF PlacesInv

LEMMA DiePlaces == ASSUME IInv, PlacesInv, NEW p \in Procs, Die(p) PROVE PlacesInv'
<1>1. /\ UNCHANGED <<sched, priority, callouts, parked, inverted, preempted>>
      /\ dead' = dead \cup {p} /\ sched.myList[p] \in Levels
      /\ p # Idle
  BY ConstantsAssumption DEF Die, calls, Others
<1>2. p \notin OffLists /\ \A g \in Gates : p \notin Elems(sched.waiting[g])
  BY <1>1, ConstantsAssumption DEF PlacesInv, PlaceInv, Tidy
<1>3. OffLists' = OffLists /\ Away' = Away
  BY <1>1 DEF OffLists, Away
<1>4. Tidy(sched, OffLists)'
  BY <1>1, <1>2, <1>3 DEF PlacesInv, PlaceInv, Tidy
<1>5. PlaceInv'
  BY <1>1, <1>2, <1>3, <1>4 DEF PlacesInv, PlaceInv, OffLists, Away
<1>6. TurnInv' /\ RankInv'
  BY <1>1 DEF PlacesInv, TurnInv, RankInv, IsReady, Turns, Ruled
<1> QED
  BY <1>5, <1>6 DEF PlacesInv

\* The process of the last callout is on no list: it takes the place of the active one,
\* which is ready after that.
LEMMA CallbackReturnPlaces ==
    ASSUME IInv, PlacesInv, NEW i \in 1..MaxCallouts, CallbackReturn(i) PROVE PlacesInv'
<1> DEFINE a == sched.active
<1>0. /\ sched \in SchedType /\ OffLists \in SUBSET Procs /\ TypeOK /\ a \in Procs
      /\ priority \in [Procs -> Levels] /\ callouts \in Seq(Procs)
      /\ UNCHANGED <<priority, dead, parked>> /\ NotePreemption
  BY Unfold, PlaceTypes DEF CallbackReturn, image
<1>1. CASE i # 1
  BY <1>0, <1>1, PlacesStay DEF CallbackReturn, calls
<1>2. CASE i = 1
  <2> DEFINE h == Head(callouts)
             u == PutToSleep(sched, a, PreemptionYields)
  <2>1. callouts' = Tail(callouts) /\ sched' = TransferTo(u, h) /\ inverted' = TRUE
    BY <1>2 DEF CallbackReturn
  <2>2. callouts # <<>>
    <3>1. Len(callouts) # 0
      BY <1>2, Unfold DEF CallbackReturn, ReturnsToItsCallout
    <3> QED
      BY <3>1
  <2>3. /\ Elems(callouts') = Elems(callouts) \ {h} /\ Distinct(callouts')
        /\ h \in Elems(callouts) /\ h \in Procs
    BY <1>0, <2>1, <2>2, ElemsTail, ElemsOfSeq DEF PlacesInv, PlaceInv
  <2>4. Tidy(sched, OffLists) /\ a \in OffLists /\ OffLists \ {a} = Away /\ h \in Away
        /\ \A q \in Away : sched.myList[q] = NULL
    BY <2>3 DEF PlacesInv, PlaceInv, OffLists, Away
  <2>5. PreemptionYields \in BOOLEAN
    BY ConstantsAssumption
  <2>6. /\ u \in SchedType
        /\ \A q \in Procs : u.myList[q] = IF q = a THEN priority[a] ELSE sched.myList[q]
    BY <1>0, <2>5, PutToSleepFacts
  <2>7. Tidy(u, Away)
    <3>1. Tidy(u, OffLists \ {a})
      BY <1>0, <2>4, <2>5, PutToSleepPlaces
    <3> HIDE DEF u
    <3> QED
      BY <2>4, <3>1
  <2>8. PreemptionYields \/ Turns(u, preempted \cup {a})
    <3> SUFFICES ASSUME ~PreemptionYields PROVE Turns(u, preempted \cup {a})
      OBVIOUS
    <3>1. a \notin preempted
      BY <1>0, <2>4, OffTheLists DEF PlacesInv, TurnInv
    <3>2. u = PutToSleep(sched, a, FALSE) /\ Turns(sched, preempted)
      BY <2>5 DEF PlacesInv, TurnInv
    <3> HIDE DEF u
    <3> QED
      BY <1>0, <2>4, <3>1, <3>2, PutToSleepTurns
  <2> HIDE DEF u, h
  <2>9. /\ sched' \in SchedType /\ sched'.active = h /\ sched'.ready = u.ready
        /\ \A q \in Procs : sched'.myList[q] = IF q = h THEN NULL ELSE u.myList[q]
    BY <2>1, <2>3, <2>6, TransferToFacts
  <2>10. Tidy(sched', Away)
    BY <2>1, <2>3, <2>4, <2>6, <2>7, TransferToPlaces
  <2>11. Away = Away' \cup {sched'.active} /\ sched'.active \notin Away'
    BY <1>0, <2>3, <2>9 DEF Away, PlacesInv, PlaceInv
  <2>12. \A q \in Away : sched'.myList[q] = NULL
    BY <1>0, <2>4, <2>6, <2>9 DEF PlacesInv, PlaceInv, OffLists
  <2>13. /\ sched'.active \notin dead /\ Idle \notin Away' \cup dead
         /\ (parked \cap Elems(callouts))' = {} /\ Elems(callouts') \cap dead = {}
    BY <1>0, <2>3, <2>9, <2>11 DEF Away, PlacesInv, PlaceInv
  <2>14. h \notin IsReady(sched')
    BY <2>4, <2>9, <2>10, OffTheLists
  <2>15. preempted' = ((preempted \cup {a}) \ {h}) \cap IsReady(sched')
    BY <1>0, <2>9 DEF NotePreemption
  <2>16. PreemptionYields \/ Turns(sched', preempted')
    <3>1. Turns(u, preempted \cup {a}) => Turns(sched', preempted \cup {a})
      BY <2>9 DEF Turns
    <3>2. Turns(sched', preempted \cup {a}) => Turns(sched', preempted')
      BY <2>9, <2>14, <2>15, TurnsOfReady
    <3> QED
      BY <2>8, <3>1, <3>2
  <2>17. RankInv'
    BY <2>1 DEF RankInv
  <2> QED
    BY <1>0, <2>3, <2>10, <2>11, <2>12, <2>13, <2>15, <2>16, <2>17, KeepsPlaces
<1> QED
  BY <1>1, <1>2

LEMMA CheckNextPlaces == ASSUME IInv, PlacesInv, CheckNext PROVE PlacesInv'
<1> DEFINE g == SemaOf[EventOrder[cursor]]
<1>1. /\ UNCHANGED <<priority, dead, parked, callouts, inverted>> /\ NotePreemption /\ TypeOK
      /\ SynchronousSignal(g) \/ UNCHANGED sched
  BY Unfold DEF CheckNext, image, calls
<1>2. g \in Semaphores
  <2>1. cursor \in 1..Len(EventOrder)
    BY Unfold DEF CheckNext, Running
  <2> QED
    BY <2>1, ConstantsAssumption DEF Events
<1> HIDE DEF g
<1> QED
  BY <1>1, <1>2, SignalPlaces, PlacesStay

LEMMA RestartPlaces == ASSUME IInv, PlacesInv, Restart PROVE PlacesInv'
<1>1. /\ sched' = [sched EXCEPT !.highest = 0]
      /\ UNCHANGED <<priority, dead, callouts, parked, inverted, preempted>>
  BY DEF Restart
<1>2. /\ sched'.active = sched.active /\ sched'.ready = sched.ready
      /\ sched'.waiting = sched.waiting /\ sched'.myList = sched.myList
  BY <1>1, Unfold DEF SchedType
<1>3. OffLists' = OffLists /\ Away' = Away
  BY <1>1, <1>2 DEF OffLists, Away
<1>4. Tidy(sched, OffLists)'
  BY <1>1, <1>2, <1>3 DEF PlacesInv, PlaceInv, Tidy
<1>5. PlaceInv'
  BY <1>1, <1>2, <1>3, <1>4 DEF PlacesInv, PlaceInv
<1>6. TurnInv' /\ RankInv'
  BY <1>1, <1>2 DEF PlacesInv, TurnInv, RankInv, IsReady, Turns, Ruled
<1> QED
  BY <1>5, <1>6 DEF PlacesInv

LEMMA NextPlaces ==
    ASSUME IInv, PlacesInv, YieldsBesideDead = FALSE, [Next]_vars PROVE PlacesInv'
<1> USE Unfold
<1>1. ASSUME NEW g \in Semaphores, Signal(g) \/ Wait(g) PROVE PlacesInv'
  <2>1. ASSUME Signal(g) PROVE PlacesInv'
    BY <2>1, SignalPlaces DEF Signal, image, calls
  <2> QED
    BY <1>1, <2>1, WaitPlaces
<1>2. ASSUME NEW c \in Sections, TestAndSet(c) PROVE PlacesInv'
  BY <1>2, PlacesStay DEF TestAndSet, image, calls
<1>3. ASSUME NEW c \in Sections, Enter(c) \/ Exit(c) PROVE PlacesInv'
  BY <1>3, EnterPlaces, ExitPlaces
<1>4. CASE Yield \/ SuspendActive
  BY <1>4, YieldPlaces, SuspendActivePlaces
<1>5. ASSUME NEW p \in Procs, Suspend(p) \/ ResumeParked(p) \/ Die(p) PROVE PlacesInv'
  BY <1>5, SuspendPlaces, ResumeParkedPlaces, DiePlaces
<1>6. ASSUME NEW p \in Procs, NEW l \in Levels, SetPriority(p, l) PROVE PlacesInv'
  BY <1>6, SetPriorityPlaces
<1>7. CASE EnterCallback
  BY <1>7, EnterCallbackPlaces
<1>8. ASSUME NEW i \in 1..MaxCallouts, CallbackReturn(i) PROVE PlacesInv'
  BY <1>8, CallbackReturnPlaces
<1>9. ASSUME NEW e \in Events, Raise(e) PROVE PlacesInv'
  BY <1>9, PlacesStay DEF Raise, image, calls
<1>10. CASE CheckForEvents
  BY <1>10, PlacesStay DEF CheckForEvents, image, calls
<1>11. CASE CheckNext \/ Restart
  BY <1>11, CheckNextPlaces, RestartPlaces
<1>12. CASE UNCHANGED vars
  BY <1>12, PlacesStay DEF vars, image, calls
<1> QED
  BY <1>1, <1>2, <1>3, <1>4, <1>5, <1>6, <1>7, <1>8, <1>9, <1>10, <1>11, <1>12 DEF Next

----------------------------------------------------------------------------
(* Who was told that a section is its own.                                  *)

LEMMA SectionsStay ==
    ASSUME SectionInv, UNCHANGED sections,
           \A c \in Sections : sched'.waiting[c] = sched.waiting[c]
    PROVE  SectionInv'
BY DEF SectionInv, sections

LEMMA EnterSections == ASSUME IInv, SectionInv, NEW c \in Sections, Enter(c) PROVE SectionInv'
<1> DEFINE a == sched.active
<1>0. /\ a \in Procs /\ sched \in SchedType /\ c \in Gates /\ Sections \subseteq Gates
      /\ told \in [Sections -> SUBSET Procs] /\ owner \in [Sections -> Procs \cup {NULL}]
      /\ NULL \notin Procs
  BY Unfold, ConstantsAssumption DEF Gates
<1>1. told' = [told EXCEPT ![c] = @ \cup {a}]
  BY DEF Enter
<1>2. CASE /\ owner[c] \in {NULL, a} /\ sched' = sched
           /\ owner' = [owner EXCEPT ![c] = a] \/ (owner' = owner /\ owner[c] = a)
  BY <1>0, <1>1, <1>2 DEF SectionInv
<1>3. CASE GiveUp(Queue(sched, a, c)) /\ owner' = owner
  <2> DEFINE s == Queue(sched, a, c)
  <2>1. /\ s \in SchedType
        /\ \A h \in Gates : s.waiting[h] = IF h = c THEN Append(sched.waiting[c], a)
                                                    ELSE sched.waiting[h]
    BY <1>0, QueueFacts
  <2>2. sched'.waiting = s.waiting
    BY <1>3, <2>1, GiveUpFacts
  <2>3. Elems(sched'.waiting[c]) = Elems(sched.waiting[c]) \cup {a}
    BY <1>0, <2>1, <2>2, ElemsAppend DEF SchedType
  <2>4. \A d \in Sections : d # c => sched'.waiting[d] = sched.waiting[d]
    BY <1>0, <2>1, <2>2
  <2> QED
    BY <1>0, <1>1, <1>3, <2>3, <2>4 DEF SectionInv
<1> QED
  BY <1>0, <1>2, <1>3 DEF Enter

LEMMA TestAndSetSections ==
    ASSUME IInv, SectionInv, NEW c \in Sections, TestAndSet(c) PROVE SectionInv'
<1> DEFINE a == sched.active
<1>0. /\ told \in [Sections -> SUBSET Procs] /\ owner \in [Sections -> Procs \cup {NULL}]
      /\ NULL \notin Procs /\ sched' = sched
  BY Unfold, ConstantsAssumption DEF TestAndSet
<1>1. CASE owner[c] \in {NULL, a}
  BY <1>0, <1>1 DEF TestAndSet, SectionInv
<1>2. CASE owner[c] \notin {NULL, a}
  BY <1>0, <1>2, SectionsStay DEF TestAndSet, sections
<1> QED
  BY <1>1, <1>2

\* The one that leaves is on no list: it was the owner, so that the others wait.
LEMMA ExitSections ==
    ASSUME IInv, PlacesInv, SectionInv, NEW c \in Sections, Exit(c) PROVE SectionInv'
<1> DEFINE a == sched.active
<1>0. /\ sched \in SchedType /\ c \in Gates /\ Sections \subseteq Gates
      /\ told \in [Sections -> SUBSET Procs] /\ owner \in [Sections -> Procs \cup {NULL}]
  BY Unfold DEF Gates
<1>1. told' = [told EXCEPT ![c] = @ \ {a}] /\ a \in told[c]
  BY DEF Exit
<1>2. a \notin Elems(sched.waiting[c])
  BY <1>0, OffTheLists DEF PlacesInv, PlaceInv, OffLists
<1>3. \A p \in told'[c] : p \in Elems(sched.waiting[c])
  BY <1>0, <1>1, <1>2 DEF SectionInv
<1>4. CASE sched.waiting[c] = <<>>
  <2>1. owner' = [owner EXCEPT ![c] = NULL] /\ sched' = sched
    BY <1>4 DEF Exit
  <2> QED
    BY <1>0, <1>1, <1>3, <2>1 DEF SectionInv
<1>5. CASE sched.waiting[c] # <<>>
  <2> DEFINE h == Head(sched.waiting[c])
             s == RemoveFirst(sched, c)
  <2>1. owner' = [owner EXCEPT ![c] = h] /\ sched' = Resume(s, h)
    BY <1>5 DEF Exit
  <2>2. /\ s \in SchedType /\ h \in Procs
        /\ \A g \in Gates : s.waiting[g] = IF g = c THEN Tail(sched.waiting[c])
                                                    ELSE sched.waiting[g]
    BY <1>0, <1>5, RemoveFirstFacts
  <2>3. Elems(Tail(sched.waiting[c])) = Elems(sched.waiting[c]) \ {h}
    <3>1. sched.waiting[c] \in Seq(Procs) /\ Distinct(sched.waiting[c])
      BY <1>0 DEF PlacesInv, PlaceInv, Tidy, SchedType
    <3> QED
      BY <1>5, <3>1, ElemsTail
  <2> HIDE DEF h, s
  <2>4. sched'.waiting = s.waiting
    BY <2>1, <2>2, ResumeFacts, Unfold
  <2>5. Elems(sched'.waiting[c]) = Elems(sched.waiting[c]) \ {h}
    BY <1>0, <2>2, <2>3, <2>4
  <2>6. \A d \in Sections : d # c => sched'.waiting[d] = sched.waiting[d]
    BY <1>0, <2>2, <2>4
  <2> QED
    BY <1>0, <1>1, <1>3, <2>1, <2>5, <2>6 DEF SectionInv
<1> QED
  BY <1>4, <1>5

\* Who is queued at a section is not suspended.
LEMMA SuspendSections ==
    ASSUME IInv, SectionInv, SuspendsEnterers = FALSE, NEW p \in Procs, Suspend(p)
    PROVE  SectionInv'
<1>1. /\ UNCHANGED sections /\ sched.myList[p] \notin Sections /\ sched \in SchedType
  BY Unfold DEF Suspend
<1>2. CASE UNCHANGED sched
  BY <1>1, <1>2, SectionsStay
<1>3. ASSUME NEW i \in MyPlaces(p), sched' = RemoveProcess(sched, p, i) PROVE SectionInv'
  <2>1. LET m == sched.myList[p]
        IN  \/ m \in Levels /\ i \in 1..Len(sched.ready[m])
            \/ m \in Gates /\ i \in 1..Len(sched.waiting[m])
    BY <1>1, ConstantsAssumption DEF MyPlaces, SchedType
  <2>2. \A c \in Sections : sched'.waiting[c] = sched.waiting[c]
    BY <1>1, <1>3, <2>1, RemoveProcessFacts DEF Gates
  <2> QED
    BY <1>1, <2>2, SectionsStay
<1> QED
  BY <1>2, <1>3 DEF Suspend

LEMMA NextSections ==
    ASSUME IInv, PlacesInv, SectionInv, SuspendsEnterers = FALSE, [Next]_vars
    PROVE  SectionInv'
<1> USE Unfold
<1>1. ASSUME NEW g \in Semaphores, Signal(g) PROVE SectionInv'
  BY <1>1, SynchronousSignalFacts, SectionsStay DEF Signal
<1>2. ASSUME NEW g \in Semaphores, Wait(g) PROVE SectionInv'
  <2>1. g \in Gates /\ g \notin Sections /\ Sections \subseteq Gates
    BY ConstantsAssumption DEF Gates
  <2>2. \A c \in Sections : sched'.waiting[c] = sched.waiting[c]
    <3>1. CASE UNCHANGED sched
      BY <3>1
    <3>2. CASE GiveUp(Queue(sched, sched.active, g))
      BY <2>1, <3>2, QueueAndGiveUp
    <3> QED
      BY <1>2, <3>1, <3>2 DEF Wait
  <2> QED
    BY <1>2, <2>2, SectionsStay DEF Wait
<1>3. ASSUME NEW c \in Sections, Enter(c) \/ TestAndSet(c) \/ Exit(c) PROVE SectionInv'
  BY <1>3, EnterSections, TestAndSetSections, ExitSections
<1>4. CASE Yield
  <2> DEFINE l == priority[sched.active]
             s == Join(sched, sched.active, l)
  <2>1. l \in Levels /\ sched.ready[l] # <<>> /\ GiveUp(s) /\ UNCHANGED sections
    BY <1>4 DEF Yield
  <2>2. s \in SchedType /\ s.waiting = sched.waiting
    <3> HIDE DEF l
    <3> QED
      BY <2>1, JoinFacts
  <2> HIDE DEF s
  <2>3. sched'.waiting = sched.waiting
    BY <2>1, <2>2, GiveUpFacts
  <2> QED
    BY <2>1, <2>3, SectionsStay
<1>5. CASE SuspendActive \/ EnterCallback
  <2>1. GiveUp(sched) /\ UNCHANGED sections
    BY <1>5 DEF SuspendActive, EnterCallback
  <2> QED
    BY <2>1, GiveUpFacts, SectionsStay
<1>6. ASSUME NEW p \in Procs, Suspend(p) PROVE SectionInv'
  BY <1>6, SuspendSections
<1>7. ASSUME NEW p \in Procs, ResumeParked(p) PROVE SectionInv'
  BY <1>7, ResumeFacts, SectionsStay DEF ResumeParked
<1>8. ASSUME NEW i \in 1..MaxCallouts, CallbackReturn(i) PROVE SectionInv'
  <2>1. UNCHANGED sections
    BY <1>8 DEF CallbackReturn
  <2>2. CASE UNCHANGED sched
    BY <2>1, <2>2, SectionsStay
  <2>3. CASE i = 1
    <3> DEFINE u == PutToSleep(sched, sched.active, PreemptionYields)
    <3>1. sched' = TransferTo(u, Head(callouts))
      BY <1>8, <2>3 DEF CallbackReturn
    <3>2. u \in SchedType /\ u.waiting = sched.waiting
      <4>1. PreemptionYields \in BOOLEAN
        BY ConstantsAssumption
      <4> QED
        BY <4>1, PutToSleepFacts
    <3> HIDE DEF u
    <3>3. sched'.waiting = sched.waiting
      BY <3>1, <3>2 DEF TransferTo, SchedType
    <3> QED
      BY <2>1, <3>3, SectionsStay
  <2> QED
    BY <1>8, <2>2, <2>3 DEF CallbackReturn
<1>9. CASE CheckNext
  <2> DEFINE g == SemaOf[EventOrder[cursor]]
  <2>1. g \in Semaphores
    <3>1. cursor \in 1..Len(EventOrder)
      BY <1>9 DEF CheckNext, Running
    <3> QED
      BY <3>1, ConstantsAssumption DEF Events
  <2>2. (SynchronousSignal(g) \/ UNCHANGED sched) /\ UNCHANGED sections
    BY <1>9 DEF CheckNext
  <2> HIDE DEF g
  <2> QED
    BY <2>1, <2>2, SynchronousSignalFacts, SectionsStay
<1>10. CASE Restart
  BY <1>10, SectionsStay DEF Restart, SchedType
<1>11. CASE UNCHANGED <<sched, sections>>
  BY <1>11, SectionsStay
<1>12. ASSUME NEW p \in Procs, Die(p) PROVE UNCHANGED <<sched, sections>>
  BY <1>12 DEF Die
<1>13. ASSUME NEW p \in Procs, NEW l \in Levels, SetPriority(p, l)
       PROVE  UNCHANGED <<sched, sections>>
  BY <1>13 DEF SetPriority
<1>14. ASSUME NEW e \in Events, Raise(e) PROVE UNCHANGED <<sched, sections>>
  BY <1>14 DEF Raise
<1>15. CheckForEvents \/ UNCHANGED vars => UNCHANGED <<sched, sections>>
  BY DEF CheckForEvents, vars
<1> QED
  BY <1>1, <1>2, <1>3, <1>4, <1>5, <1>6, <1>7, <1>8, <1>9, <1>10, <1>11, <1>12, <1>13,
     <1>14, <1>15 DEF Next

----------------------------------------------------------------------------
LEMMA PlacesInvariance == ASSUME YieldsBesideDead = FALSE PROVE Spec => [](IInv /\ PlacesInv)
<1>1. Init => IInv /\ PlacesInv
  BY InitIInv, InitPlaces
<1>2. IInv /\ PlacesInv /\ [Next]_vars => (IInv /\ PlacesInv)'
  BY NextStep, NextPlaces
<1> QED
  BY <1>1, <1>2, PTL DEF Spec

----------------------------------------------------------------------------
\* The state keeps its type.
THEOREM TypeCorrect == Spec => []TypeOK
<1>1. IInv => TypeOK
  BY DEF IInv
<1> QED
  BY <1>1, Invariance, PTL

\* No list above the highest known priority holds a process, so that
\* wakeHighestPriority passes over nobody, whatever processes there are.
THEOREM NobodyIsPassedOver == Spec => []NobodyPassedOver
<1>1. IInv => NobodyPassedOver
  BY DEF IInv
<1> QED
  BY <1>1, Invariance, PTL

\* Nobody waits at a semaphore with signals to spare or at a section without an owner.
THEOREM NobodyWaitsInVain == Spec => []NobodyWaitsForWhatIsThere
<1>1. IInv => NobodyWaitsForWhatIsThere
  BY DEF IInv
<1> QED
  BY <1>1, Invariance, PTL

\* Callbacks return into the process whose callout they serve, however deep they
\* nest and however often the image is started again.
THEOREM CallbacksReturnToTheirCallouts == Spec => []ReturnsToItsCallout
<1>1. IInv => ReturnsToItsCallout
  BY DEF IInv
<1> QED
  BY <1>1, Invariance, PTL

\* Every process that can still run is in one place, and myList is right about it,
\* where processes yield beside one that can run (YieldsBesideDead).
THEOREM EveryProcessHasOnePlace ==
    ASSUME YieldsBesideDead = FALSE
    PROVE  Spec => []OnePlace
<1>1. ASSUME IInv, PlacesInv PROVE OnePlace
  <2>0. TypeOK /\ PlaceInv /\ Tidy(sched, OffLists) /\ sched \in SchedType
        /\ OffLists \in SUBSET Procs /\ Levels \cap Gates = {}
    BY <1>1, Unfold, PlaceTypes, ConstantsAssumption DEF PlacesInv, PlaceInv
  <2>1. \A m \in Levels \cup Gates : Distinct(ListOf(m))
    BY <2>0 DEF Tidy, ListOf
  <2>2. ASSUME NEW p \in Procs \ dead
        PROVE  {m \in Levels \cup Gates : p \in Elems(ListOf(m))} =
                   IF p \in OffLists THEN {} ELSE {sched.myList[p]}
    <3>1. CASE p \in OffLists
      BY <2>0, <3>1, OffTheLists DEF ListOf
    <3>2. CASE p \notin OffLists
      <4>1. \A m \in Levels \cup Gates : p \in Elems(ListOf(m)) => m = sched.myList[p]
        BY <2>0 DEF Tidy, ListOf
      <4>2. \E m \in Levels \cup Gates : p \in Elems(ListOf(m))
        BY <2>0, <3>2 DEF Tidy, ListOf
      <4> QED
        BY <3>2, <4>1, <4>2
    <3> QED
      BY <3>1, <3>2
  <2> QED
    BY <2>0, <2>1, <2>2 DEF OnePlace, PlaceInv, Away
<1> QED
  BY <1>1, PlacesInvariance, PTL

\* The active process has a context and the highest priority of those that are ready,
\* and there is always one to wake beside it: the idle process, or one above it.
THEOREM TheHighestRuns ==
    ASSUME YieldsBesideDead = FALSE
    PROVE  Spec => []HighestRuns
<1>1. ASSUME IInv, PlacesInv PROVE HighestRuns
  <2>0. sched \in SchedType /\ PlaceInv /\ RankInv /\ Tidy(sched, OffLists) /\ Above(sched)
    BY <1>1, Unfold DEF PlacesInv, PlaceInv
  <2>1. ASSUME sched.active # Idle PROVE \E l \in 1..Top(sched) : HasLive(sched, l)
    <3>1. Idle \in Procs /\ Idle \notin OffLists \cup dead
      BY <2>0, <2>1, ConstantsAssumption DEF PlaceInv, OffLists, Away
    <3>2. PICK l \in Levels : Idle \in Elems(sched.ready[l])
      BY <2>0, <3>1 DEF Tidy
    <3>3. HasLive(sched, l)
      BY <2>1, <3>1, <3>2 DEF HasLive, Live
    <3>4. l \in 1..Top(sched)
      <4>1. sched.ready[l] # <<>>
        BY <2>0, <3>2, ElemsOfSeq DEF SchedType
      <4>2. sched.highest = 0 \/ ~(l > sched.highest)
        BY <4>1, <2>0 DEF Above
      <4> QED
        BY <2>0, <4>2, LevelFacts DEF Top, Levels, SchedType
    <3> QED
      BY <3>3, <3>4
  <2> QED
    BY <2>0, <2>1 DEF HighestRuns, PlaceInv, RankInv, Ruled
<1> QED
  BY <1>1, PlacesInvariance, PTL

\* Processes that were preempted keep their turn among those of their priority.
THEOREM ThePreemptedKeepTheirTurn ==
    ASSUME YieldsBesideDead = FALSE
    PROVE  Spec => []PreemptedKeepTheirTurn
<1>1. PlacesInv => PreemptedKeepTheirTurn
  BY DEF PlacesInv, TurnInv, Turns, PreemptedKeepTheirTurn
<1> QED
  BY <1>1, PlacesInvariance, PTL

\* Nobody but its owner acts on being told that a section is its own, where nobody is
\* suspended that is queued at a section (SuspendsEnterers).
THEOREM SectionsExclude ==
    ASSUME YieldsBesideDead = FALSE, SuspendsEnterers = FALSE
    PROVE  Spec => []MutualExclusion
<1>1. Init => IInv /\ PlacesInv /\ SectionInv
  BY InitIInv, InitPlaces DEF Init, SectionInv
<1>2. IInv /\ PlacesInv /\ SectionInv /\ [Next]_vars => (IInv /\ PlacesInv /\ SectionInv)'
  BY NextStep, NextPlaces, NextSections
<1>3. SectionInv => MutualExclusion
  BY DEF SectionInv, MutualExclusion
<1> QED
  BY <1>1, <1>2, <1>3, PTL DEF Spec
=============================================================================
