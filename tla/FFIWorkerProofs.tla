---------------------------- MODULE FFIWorkerProofs ----------------------------
(***************************************************************************)
(* Proofs about FFIWorker, for any callouts and any memory for callbacks,  *)
(* when at most one thread calls back and the image does not let calls     *)
(* overlap.                                                                *)
(*                                                                         *)
(* The inductive invariant says that there are a sequence of callouts cs   *)
(* and a sequence of callbacks act, those that wait on some C stack, which *)
(* the C stack of the worker and the stack of callbacks represent.         *)
(***************************************************************************)
EXTENDS FFIWorker, TLAPS, SequenceTheorems, FiniteSetTheorems, WellFoundedInduction

\* At most one thread calls back, and an image process that uses the worker
\* waits for its call before another one uses it.
OneAtATime == ~CallsOverlap /\ \A S \in CallerSets : \A t, u \in S : t = u

Tasks == {CalloutTask(c) : c \in Callouts} \cup {ReturnTask(v) : v \in Invocations}
           \cup {ReleaseTask}

Members(q) == {q[i] : i \in 1 .. Len(q)}

\* The last of a sequence of invocations.
Newest(q) == IF q = <<>> THEN NULL ELSE q[Len(q)]

\* The callers of the worker are on its own C stack.
OnWorker == Worker \in callers

\* The frames of the worker are those of cs and, between them, the runs that
\* wait for its callbacks.
FrameInv(cs, act) ==
    /\ cs \in Seq(Callouts) /\ IsInjective(cs)
    /\ frames \in Seq(Callouts \cup Invocations \cup {Worker})
    /\ pc[Worker] \in {"next", "take"} => Len(frames) = 2 * Len(cs) + 1
    /\ pc[Worker] \in {"code", "push", "put", "enter"} => Len(frames) = 2 * Len(cs) /\ cs # <<>>
    /\ pc[Worker] = "ended" => frames = <<>> /\ cs = <<>>
    /\ frames # <<>> => frames[1] = Worker
    /\ \A i \in 1 .. Len(cs) : frames[2 * i] = cs[i]
    /\ OnWorker => \A i \in 1 .. Len(act) : 2 * i < Len(frames) => frames[2 * i + 1] = act[i]

\* Which callbacks wait, by the step of the thread that calls back.
ActInv(cs, act) ==
    /\ act \in Seq(Invocations) /\ IsInjective(act)
    /\ IF OnWorker
       THEN /\ Len(cs) = IF pc[Worker] \in {"code", "push"} THEN Len(act) + 1 ELSE Len(act)
            /\ pc[Worker] \in {"put", "enter"} => inv[Worker] = Newest(act)
       ELSE /\ Len(cs) = IF pc[Worker] = "code" THEN 1 ELSE 0
            /\ \A t \in callers :
                  act = IF pc[t] \in {"put", "enter", "wait"} THEN <<inv[t]>> ELSE <<>>
            /\ callers = {} => act = <<>>

ThreadInv ==
    /\ \A t \in Foreign : pc[t] \in {"code", "push", "put", "enter", "wait"}
    /\ pc[Worker] # "wait"
    /\ \A t \in All :
          /\ inv[t] # NULL <=> pc[t] \in {"push", "put", "enter", "wait"}
          /\ inv[t] # NULL => t \in callers
          /\ pc[t] \in {"push", "put"} =>
                phase[inv[t]] = "entered" /\ inv[t] \notin Members(callbackQueue)
          /\ pc[t] = "push" => previous[inv[t]] = callbackStack

\* Where each callback is.
PhaseInv(act) ==
    /\ \A v \in Invocations :
          /\ phase[v] = "unused" => \A t \in All : inv[t] # v
          /\ phase[v] \in {"entered", "read"} =>
                v \in Members(act) \/ \E t \in All : inv[t] = v /\ pc[t] = "push"
    /\ \A v \in returned : phase[v] = "answered"
    /\ \A v \in Members(act) :
          phase[v] # "unused" /\ v \notin returned /\ (payload[v] <=> ~OnWorker)
    /\ \A t \in All : pc[t] = "push" => inv[t] \notin Members(act)
    /\ \A i \in 1 .. Len(act) - 1 : phase[act[i]] = "read"
    /\ callbackQueue \in Seq(Invocations)
    /\ \A v \in Members(callbackQueue) : phase[v] = "entered"

AllRead(act) == \A i \in 1 .. Len(act) : phase[act[i]] = "read"

\* The image has answered the newest callback, which still waits.
Popped(act) ==
    /\ act # <<>>
    /\ \/ phase[Newest(act)] = "answered"
       \/ vm.pc = "exit" /\ vm.of = Newest(act)

StackInv(act) ==
    /\ \A i \in 1 .. Len(act) : previous[act[i]] = IF i = 1 THEN NULL ELSE act[i - 1]
    /\ callbackStack = IF Popped(act) THEN previous[Newest(act)] ELSE Newest(act)

\* Nothing runs on the worker, and nothing is asked of it.
Quiet(cs, act) == queue = <<>> /\ Len(act) = Len(cs) /\ AllRead(act)

VMInv(cs, act) ==
    /\ vm.pc # "idle" => /\ vm.of \in Members(act) /\ phase[vm.of] = "read"
                         /\ OnWorker => Quiet(cs, act)
    /\ vm.pc \in {"pop", "exit"} => vm.of = Newest(act)

TaskInv(cs, act) ==
    /\ queue \in Seq(Tasks)
    /\ IsFiniteSet(dispatched)
    /\ \A c \in Callouts :
          /\ c \in Outstanding <=> c \in Members(cs) \/ CalloutTask(c) \in Members(queue)
          /\ CalloutTask(c) \in Members(queue) => c \notin Members(cs)
    /\ \A v \in Invocations :
          /\ ReturnTask(v) \in Members(queue) =>
                v = Newest(act) /\ phase[v] = "answered" /\ semaphore[v] = 0
          /\ v \in Members(act) /\ phase[v] = "answered" =>
                ReturnTask(v) \in Members(queue) \/ semaphore[v] = 1
          /\ semaphore[v] = 1 => phase[v] = "answered" /\ ~OnWorker
    /\ ReleaseTask \in Members(queue) => released

\* The worker that calls back itself is asked one thing at a time.
TurnInv(act) ==
    OnWorker =>
        /\ Len(queue) <= 1
        /\ pc[Worker] \in {"code", "push", "put"} => queue = <<>>
        /\ (\/ pc[Worker] \in {"code", "push"}
            \/ \E c \in Callouts : CalloutTask(c) \in Members(queue))
           => AllRead(act)

ReleaseInv ==
    /\ released =>
          /\ \A v \in Invocations : phase[v] \in {"unused", "answered"}
          /\ vm.pc = "idle"
          /\ OnWorker => Outstanding = {}
    /\ hasToQuit => released /\ ~isMainThread
    /\ pc[Worker] = "ended" => hasToQuit /\ queue = <<>>

\* The callbacks that have entered a run of the worker.
Entered == {v \in Invocations : phase[v] # "unused" /\ ~payload[v] /\ \A t \in All : inv[t] # v}

RunsInv == nestedRuns = Cardinality(Entered) + IF pc[Worker] = "ended" THEN 0 ELSE 1

Inv(cs, act) ==
    /\ TypeOK
    /\ FrameInv(cs, act) /\ ActInv(cs, act)
    /\ ThreadInv /\ PhaseInv(act) /\ StackInv(act)
    /\ VMInv(cs, act) /\ TaskInv(cs, act) /\ TurnInv(act)
    /\ ReleaseInv /\ RunsInv

IInv == \E cs, act : Inv(cs, act)
-------------------------------------------------------------------------------
(***************************************************************************)
(* Data.                                                                   *)
(***************************************************************************)
\* The tasks differ by their types and by what they are of.
LEMMA TasksDiffer ==
    /\ \A c, d \in Callouts : CalloutTask(c) = CalloutTask(d) => c = d
    /\ \A v, w \in Invocations : ReturnTask(v) = ReturnTask(w) => v = w
    /\ \A c \in Callouts, v \in Invocations : CalloutTask(c) # ReturnTask(v)
    /\ \A c \in Callouts : CalloutTask(c) # ReleaseTask
    /\ \A v \in Invocations : ReturnTask(v) # ReleaseTask
<1>1. \A c : CalloutTask(c).type = "callout" /\ CalloutTask(c).of = c
  BY DEF CalloutTask
<1>2. \A v : ReturnTask(v).type = "return" /\ ReturnTask(v).of = v
  BY DEF ReturnTask
<1>3. ReleaseTask.type = "release"
  BY DEF ReleaseTask
<1> QED
  BY <1>1, <1>2, <1>3

LEMMA TaskOf ==
    ASSUME NEW e \in Tasks
    PROVE  /\ e.type = "callout" => e.of \in Callouts /\ e = CalloutTask(e.of)
           /\ e.type = "return" => e.of \in Invocations /\ e = ReturnTask(e.of)
           /\ e.type = "release" => e = ReleaseTask
<1>1. CASE \E c \in Callouts : e = CalloutTask(c)
  BY <1>1 DEF CalloutTask
<1>2. CASE \E v \in Invocations : e = ReturnTask(v)
  BY <1>2 DEF ReturnTask
<1>3. CASE e = ReleaseTask
  BY <1>3 DEF ReleaseTask
<1> QED
  BY <1>1, <1>2, <1>3 DEF Tasks

LEMMA MembersOf ==
    ASSUME NEW S, NEW q \in Seq(S)
    PROVE  /\ Members(q) \subseteq S
           /\ \A i \in 1 .. Len(q) : q[i] \in Members(q)
           /\ q = <<>> <=> Members(q) = {}
           /\ Len(q) \in Nat
           /\ q # <<>> => Len(q) > 0 /\ q[Len(q)] \in Members(q)
           /\ IsInjective(q) <=> \A i, j \in 1 .. Len(q) : q[i] = q[j] => i = j
<1>1. Len(q) \in Nat /\ (q # <<>> <=> Len(q) > 0) /\ DOMAIN q = 1 .. Len(q)
  BY EmptySeq, LenProperties
<1>2. Len(q) > 0 => 1 \in 1 .. Len(q) /\ Len(q) \in 1 .. Len(q)
  BY <1>1
<1>3. Members(q) \subseteq S /\ \A i \in 1 .. Len(q) : q[i] \in Members(q)
  BY ElementOfSeq DEF Members
<1>4. q = <<>> <=> Members(q) = {}
  <2>1. q # <<>> => q[1] \in Members(q)
    BY <1>1, <1>2, <1>3
  <2>2. q = <<>> => 1 .. Len(q) = {}
    BY <1>1
  <2> QED
    BY <2>1, <2>2 DEF Members
<1>5. IsInjective(q) <=> \A i, j \in 1 .. Len(q) : q[i] = q[j] => i = j
  BY <1>1 DEF IsInjective
<1> QED
  BY <1>1, <1>2, <1>3, <1>4, <1>5

LEMMA Appended ==
    ASSUME NEW S, NEW q \in Seq(S), NEW e \in S
    PROVE  /\ Append(q, e) \in Seq(S) /\ Append(q, e) # <<>>
           /\ Len(Append(q, e)) = Len(q) + 1
           /\ \A i \in 1 .. Len(q) : Append(q, e)[i] = q[i]
           /\ Append(q, e)[Len(q) + 1] = e
           /\ Members(Append(q, e)) = Members(q) \cup {e}
           /\ IsInjective(q) /\ e \notin Members(q) => IsInjective(Append(q, e))
<1> DEFINE r == Append(q, e)
<1>1. /\ Len(q) \in Nat /\ Len(r) = Len(q) + 1 /\ r \in Seq(S) /\ r # <<>>
      /\ r[Len(q) + 1] = e /\ \A i \in 1 .. Len(q) : r[i] = q[i]
  BY AppendProperties, LenProperties
<1> HIDE DEF r
<1>2. \A i \in 1 .. Len(r) : i \in 1 .. Len(q) \/ i = Len(q) + 1
  BY <1>1
<1>3. /\ \A i \in 1 .. Len(q) : i \in 1 .. Len(r)
      /\ Len(q) + 1 \in 1 .. Len(r)
  BY <1>1
<1>4. Members(r) = Members(q) \cup {e}
  BY <1>1, <1>2, <1>3 DEF Members
<1>5. ASSUME IsInjective(q), e \notin Members(q) PROVE IsInjective(r)
  <2>1. \A i, j \in 1 .. Len(q) : q[i] = q[j] => i = j
    BY <1>5, MembersOf
  <2>2. \A i \in 1 .. Len(q) : q[i] # e
    BY <1>5 DEF Members
  <2> QED
    BY <1>1, <1>2, <2>1, <2>2, MembersOf
<1> QED
  BY <1>1, <1>4, <1>5 DEF r

LEMMA Headless ==
    ASSUME NEW S, NEW q \in Seq(S), q # <<>>
    PROVE  /\ Head(q) \in S /\ Head(q) \in Members(q)
           /\ Tail(q) \in Seq(S) /\ Len(Tail(q)) = Len(q) - 1
           /\ Members(Tail(q)) \subseteq Members(q)
           /\ IsInjective(q) => Members(Tail(q)) = Members(q) \ {Head(q)} /\ IsInjective(Tail(q))
<1> DEFINE r == Tail(q)
<1>1. /\ Len(q) \in Nat /\ Len(q) > 0 /\ Len(r) = Len(q) - 1 /\ r \in Seq(S)
      /\ Head(q) = q[1] /\ Head(q) \in S /\ \A i \in 1 .. Len(r) : r[i] = q[i + 1]
  BY HeadTailProperties, EmptySeq, LenProperties
<1> HIDE DEF r
<1>2. /\ \A i \in 1 .. Len(r) : i + 1 \in 1 .. Len(q)
      /\ \A i \in 1 .. Len(q) : i = 1 \/ i - 1 \in 1 .. Len(r)
      /\ 1 \in 1 .. Len(q)
  BY <1>1
<1>3. Members(r) \subseteq Members(q) /\ Head(q) \in Members(q)
  BY <1>1, <1>2 DEF Members
<1>4. ASSUME IsInjective(q)
      PROVE  Members(r) = Members(q) \ {Head(q)} /\ IsInjective(r)
  <2>1. \A i, j \in 1 .. Len(q) : q[i] = q[j] => i = j
    BY <1>4, MembersOf
  <2>2. \A i \in 1 .. Len(r) : r[i] # Head(q)
    BY <1>1, <1>2, <2>1
  <2>3. ASSUME NEW x \in Members(q), x # Head(q) PROVE x \in Members(r)
    <3>1. PICK i \in 1 .. Len(q) : x = q[i]
      BY <2>3 DEF Members
    <3>2. i - 1 \in 1 .. Len(r) /\ r[i - 1] = q[i]
      BY <1>1, <1>2, <2>3, <3>1
    <3> QED
      BY <3>1, <3>2 DEF Members
  <2>4. \A i, j \in 1 .. Len(r) : r[i] = r[j] => i = j
    BY <1>1, <1>2, <2>1
  <2>5. \A x \in Members(r) : x # Head(q)
    BY <2>2 DEF Members
  <2> QED
    BY <1>1, <1>3, <2>3, <2>4, <2>5, MembersOf
<1> QED
  BY <1>1, <1>3, <1>4 DEF r

LEMMA Shortened ==
    ASSUME NEW S, NEW q \in Seq(S), q # <<>>
    PROVE  /\ Front(q) \in Seq(S) /\ Len(Front(q)) = Len(q) - 1
           /\ \A i \in 1 .. Len(q) - 1 : Front(q)[i] = q[i]
           /\ Last(q) = q[Len(q)] /\ Last(q) \in S
           /\ IsInjective(q) => Members(Front(q)) = Members(q) \ {Last(q)} /\ IsInjective(Front(q))
<1> DEFINE r == Front(q)
<1>1. Len(q) \in Nat /\ Len(q) > 0 /\ Len(q) \in 1 .. Len(q)
  BY MembersOf
<1>2. /\ r \in Seq(S) /\ Len(r) = Len(q) - 1
      /\ \A i \in 1 .. Len(q) - 1 : r[i] = q[i]
  <2>1. \A i \in 1 .. Len(q) - 1 : q[i] \in S
    BY <1>1, ElementOfSeq
  <2>2. r = SubSeq(q, 1, Len(q) - 1)
    BY DEF Front
  <2>3. 1 \in Int /\ Len(q) - 1 \in Int
    BY <1>1
  <2> HIDE DEF r
  <2>4. /\ r \in Seq(S) /\ Len(r) = IF 1 <= Len(q) - 1 THEN Len(q) - 1 - 1 + 1 ELSE 0
        /\ \A i \in 1 .. Len(q) - 1 - 1 + 1 : r[i] = q[1 + i - 1]
    BY <2>1, <2>2, <2>3, SubSeqProperties
  <2>5. Len(q) - 1 - 1 + 1 = Len(q) - 1 /\ \A i \in Int : 1 + i - 1 = i
    BY <1>1
  <2>6. Len(r) = Len(q) - 1
    <3>1. CASE Len(q) = 1
      BY <2>4, <3>1
    <3>2. CASE Len(q) > 1
      <4>1. 1 <= Len(q) - 1
        BY <1>1, <3>2
      <4> QED
        BY <2>4, <2>5, <4>1
    <3>3. Len(q) = 1 \/ Len(q) > 1
      BY <1>1
    <3> QED
      BY <3>1, <3>2, <3>3
  <2>7. ASSUME NEW i \in 1 .. Len(q) - 1 PROVE r[i] = q[i]
    <3>1. i \in 1 .. Len(q) - 1 - 1 + 1 /\ 1 + i - 1 = i
      BY <2>5
    <3> QED
      BY <2>4, <3>1
  <2> QED
    BY <2>4, <2>6, <2>7
<1>3. Last(q) = q[Len(q)] /\ Last(q) \in S
  BY <1>1, ElementOfSeq DEF Last
<1> HIDE DEF r
<1>4. ASSUME IsInjective(q)
      PROVE  Members(r) = Members(q) \ {Last(q)} /\ IsInjective(r)
  <2>1. \A i, j \in 1 .. Len(q) : q[i] = q[j] => i = j
    BY <1>4, MembersOf
  <2>2. /\ \A i \in 1 .. Len(r) : i \in 1 .. Len(q) /\ i # Len(q)
        /\ \A i \in 1 .. Len(q) : i # Len(q) => i \in 1 .. Len(r)
    BY <1>1, <1>2
  <2>3. Members(r) = Members(q) \ {Last(q)}
    <3>1. ASSUME NEW x \in Members(r) PROVE x \in Members(q) /\ x # Last(q)
      <4>1. PICK i \in 1 .. Len(r) : x = r[i]
        BY DEF Members
      <4>2. i \in 1 .. Len(q) /\ i # Len(q) /\ r[i] = q[i]
        BY <1>2, <2>2, <4>1
      <4> QED
        BY <1>1, <1>3, <2>1, <4>1, <4>2 DEF Members
    <3>2. \A x \in Members(q) : x # Last(q) => x \in Members(r)
      BY <1>1, <1>2, <1>3, <2>2 DEF Members
    <3> QED
      BY <3>1, <3>2
  <2>4. \A i, j \in 1 .. Len(r) : r[i] = r[j] => i = j
    BY <1>2, <2>1, <2>2
  <2> QED
    BY <1>2, <2>3, <2>4, MembersOf
<1> QED
  BY <1>2, <1>3, <1>4 DEF r

\* A sequence without repetition has as many members as it is long.
LEMMA Counted ==
    ASSUME NEW S, NEW q \in Seq(S), IsInjective(q)
    PROVE  IsFiniteSet(Members(q)) /\ Cardinality(Members(q)) = Len(q)
<1>1. Len(q) \in Nat /\ DOMAIN q = 1 .. Len(q) /\ q \in [1 .. Len(q) -> S]
  BY LenProperties
<1>2. q \in Bijection(1 .. Len(q), Members(q))
  <2>1. q \in [1 .. Len(q) -> Members(q)]
    BY <1>1, MembersOf
  <2>2. q \in Injection(1 .. Len(q), Members(q))
    BY <2>1 DEF Injection
  <2>3. q \in Surjection(1 .. Len(q), Members(q))
    BY <2>1 DEF Surjection, Members
  <2> QED
    BY <2>2, <2>3 DEF Bijection
<1>3. ExistsBijection(1 .. Len(q), Members(q))
  BY <1>2 DEF ExistsBijection
<1>4. IsFiniteSet(1 .. Len(q)) /\ Cardinality(1 .. Len(q)) = Len(q)
  <2>1. 1 \in Int /\ Len(q) \in Int /\ Len(q) >= 0
    BY <1>1
  <2>2. /\ IsFiniteSet(1 .. Len(q))
        /\ Cardinality(1 .. Len(q)) = IF 1 > Len(q) THEN 0 ELSE Len(q) - 1 + 1
    BY <2>1, FS_Interval
  <2> QED
    BY <2>1, <2>2
<1> QED
  BY <1>3, <1>4, FS_Bijection

LEMMA Unfold ==
    ASSUME NEW cs, NEW act, Inv(cs, act)
    PROVE  /\ cs \in Seq(Callouts) /\ act \in Seq(Invocations)
           /\ Len(cs) \in Nat /\ Len(act) \in Nat /\ Len(queue) \in Nat /\ Len(frames) \in Nat
           /\ act # <<>> => Len(act) > 0 /\ Newest(act) = act[Len(act)]
                            /\ Newest(act) \in Members(act)
           /\ act = <<>> => Len(act) = 0 /\ Members(act) = {} /\ Newest(act) = NULL
           /\ cs = <<>> => Len(cs) = 0 /\ Members(cs) = {}
           /\ \A i \in 1 .. Len(act) : act[i] \in Members(act)
           /\ Members(act) \subseteq Invocations /\ Members(cs) \subseteq Callouts
           /\ Members(queue) \subseteq Tasks /\ (queue = <<>> => Members(queue) = {})
           /\ TypeOK /\ Worker \in All /\ Foreign \subseteq All /\ NULL \notin Invocations
           /\ callers \subseteq All
<1> USE DEF Inv
<1>1. /\ cs \in Seq(Callouts) /\ act \in Seq(Invocations) /\ queue \in Seq(Tasks)
      /\ frames \in Seq(Callouts \cup Invocations \cup {Worker})
  BY DEF FrameInv, ActInv, TaskInv
<1>2. act = <<>> => Len(act) = 0
  OBVIOUS
<1>3. cs = <<>> => Len(cs) = 0
  OBVIOUS
<1>4. /\ TypeOK /\ Worker \in All /\ Foreign \subseteq All /\ NULL \notin Invocations
      /\ callers \subseteq All
  BY ConstantsAssumption DEF TypeOK, All
<1>5. Newest(act) = IF act = <<>> THEN NULL ELSE act[Len(act)]
  BY DEF Newest
<1>6. /\ Members(act) \subseteq Invocations /\ Len(act) \in Nat
      /\ \A i \in 1 .. Len(act) : act[i] \in Members(act)
      /\ (act = <<>> => Members(act) = {})
      /\ (act # <<>> => Len(act) > 0 /\ act[Len(act)] \in Members(act))
  BY <1>1, MembersOf
<1>7. /\ Members(cs) \subseteq Callouts /\ Len(cs) \in Nat
      /\ (cs = <<>> => Members(cs) = {})
  BY <1>1, MembersOf
<1>8. /\ Members(queue) \subseteq Tasks /\ Len(queue) \in Nat
      /\ (queue = <<>> => Members(queue) = {})
  BY <1>1, MembersOf
<1>9. Len(frames) \in Nat
  BY <1>1, LenProperties
<1> QED
  BY <1>1, <1>2, <1>3, <1>4, <1>5, <1>6, <1>7, <1>8, <1>9

\* When calls do not overlap and the image may use the worker, nothing runs on
\* it but callouts that wait for the image.
LEMMA MayUseQuiet ==
    ASSUME NEW cs, NEW act, Inv(cs, act), ~CallsOverlap, OnWorker, MayUseWorker, ~released
    PROVE  Quiet(cs, act)
<1> USE DEF Inv
<1>0. /\ cs \in Seq(Callouts) /\ act \in Seq(Invocations) /\ Len(cs) \in Nat /\ Len(act) \in Nat
      /\ IsInjective(cs) /\ IsInjective(act)
  BY Unfold DEF FrameInv, ActInv
<1>1. Cardinality(Outstanding) = Cardinality(Handled)
  BY DEF MayUseWorker, OnWorker
<1>2. Handled \subseteq Members(act)
  <2>1. ASSUME NEW v \in Handled PROVE v \in Members(act)
    <3>1. v \in Invocations /\ phase[v] = "read"
      BY DEF Handled
    <3>2. \A t \in All : inv[t] = v /\ pc[t] = "push" => FALSE
      BY <3>1 DEF ThreadInv
    <3> QED
      BY <3>1, <3>2 DEF PhaseInv
  <2> QED
    BY <2>1
<1>3. Members(cs) \subseteq Outstanding /\ IsFiniteSet(Outstanding)
  <2>1. Members(cs) \subseteq Callouts
    BY Unfold
  <2>2. Outstanding \subseteq dispatched /\ IsFiniteSet(dispatched)
    BY DEF TaskInv, Outstanding
  <2> QED
    BY <2>1, <2>2, FS_Subset DEF TaskInv
<1>4. /\ IsFiniteSet(Members(cs)) /\ Cardinality(Members(cs)) = Len(cs)
      /\ IsFiniteSet(Members(act)) /\ Cardinality(Members(act)) = Len(act)
  BY <1>0, Counted
<1>5. Len(act) <= Len(cs)
  BY <1>0 DEF ActInv
<1>6. /\ Cardinality(Handled) <= Len(act) /\ Cardinality(Handled) \in Nat
      /\ Cardinality(Handled) = Len(act) => Handled = Members(act)
  BY <1>2, <1>4, FS_Subset, FS_CardinalityType
<1>7. /\ Len(cs) <= Cardinality(Outstanding) /\ Cardinality(Outstanding) \in Nat
      /\ Len(cs) = Cardinality(Outstanding) => Members(cs) = Outstanding
  BY <1>3, <1>4, FS_Subset, FS_CardinalityType
<1>8. Len(act) = Len(cs) /\ Handled = Members(act) /\ Members(cs) = Outstanding
  BY <1>0, <1>1, <1>5, <1>6, <1>7
<1>9. AllRead(act)
  BY <1>8, Unfold DEF AllRead, Handled
<1>10. Members(queue) = {}
  <2>1. ASSUME NEW e \in Members(queue) PROVE FALSE
    <3>1. e \in Tasks
      BY Unfold
    <3>2. ASSUME NEW c \in Callouts, e = CalloutTask(c) PROVE FALSE
      BY <1>8, <3>2 DEF TaskInv
    <3>3. ASSUME NEW v \in Invocations, e = ReturnTask(v) PROVE FALSE
      <4>1. v = Newest(act) /\ phase[v] = "answered"
        BY <3>3 DEF TaskInv
      <4>2. act # <<>>
        BY <4>1, Unfold
      <4>3. Newest(act) \in Members(act)
        BY <4>2, Unfold
      <4> QED
        BY <1>8, <4>1, <4>3 DEF Handled
    <3>4. e # ReleaseTask
      BY DEF TaskInv
    <3> QED
      BY <3>1, <3>2, <3>3, <3>4 DEF Tasks
  <2> QED
    BY <2>1
<1>11. queue = <<>>
  BY <1>10, MembersOf DEF TaskInv
<1> QED
  BY <1>8, <1>9, <1>11 DEF Quiet

\* What a thread that calls back can find.
LEMMA OneCaller ==
    ASSUME OneAtATime, NEW cs, NEW act, Inv(cs, act), NEW t \in callers
    PROVE  /\ \A u \in All : inv[u] # NULL => u = t
           /\ \A u \in All : u # t => pc[u] \notin {"push", "put", "enter", "wait"}
           /\ OnWorker <=> t = Worker
           /\ callers = {t}
<1> USE DEF Inv
<1>1. \A u \in callers : u = t
  BY DEF OneAtATime, TypeOK
<1>2. \A u \in All : inv[u] # NULL => u \in callers
  BY DEF ThreadInv
<1>3. \A u \in All : pc[u] \in {"push", "put", "enter", "wait"} => inv[u] # NULL
  BY DEF ThreadInv
<1> QED
  BY <1>1, <1>2, <1>3 DEF OnWorker

LEMMA Goes ==
    ASSUME TypeOK, NEW t \in All, NEW from, NEW to, Goto(t, from, to)
    PROVE  pc[t] = from /\ pc'[t] = to /\ \A u \in All : u # t => pc'[u] = pc[u]
BY DEF Goto, TypeOK

LEMMA ReadStackStep ==
    ASSUME OneAtATime, NEW cs, NEW act, Inv(cs, act),
           NEW t \in All, NEW v \in Invocations, ReadStack(t, v)
    PROVE  Inv(cs, act)'
<1> USE DEF Inv
<1>0. /\ t \in callers /\ ~released /\ phase[v] = "unused"
      /\ pc[t] = "code" /\ pc'[t] = "push" /\ \A u \in All : u # t => pc'[u] = pc[u]
      /\ inv'[t] = v /\ \A u \in All : u # t => inv'[u] = inv[u]
      /\ phase'[v] = "entered" /\ \A w \in Invocations : w # v => phase'[w] = phase[w]
      /\ previous'[v] = callbackStack
      /\ \A w \in Invocations : w # v => previous'[w] = previous[w]
      /\ UNCHANGED <<runner, queue, callbackQueue, frames, callbackStack, payload, semaphore,
                     vm, returned, dispatched, done, released>>
  BY Goes DEF ReadStack, TypeOK
<1>1. TypeOK'
  BY DEF TypeOK, ReadStack, Goto, runner
<1>2. /\ v \notin Members(act) /\ v \notin returned /\ \A u \in All : inv[u] # v
      /\ v \notin Members(callbackQueue)
      /\ vm.of # v \/ vm.pc = "idle"
  BY <1>0 DEF PhaseInv, VMInv
<1>3. /\ \A u \in All : u # t => inv[u] = NULL /\ pc[u] \notin {"push", "put", "enter", "wait"}
      /\ OnWorker <=> t = Worker
      /\ callers = {t}
  BY <1>0, OneCaller
<1>4. /\ Members(act) \subseteq Invocations /\ \A i \in 1 .. Len(act) : act[i] \in Members(act)
      /\ act # <<>> => Newest(act) \in Members(act)
      /\ Worker \in All /\ Foreign \subseteq All
  BY Unfold
<1>5. OnWorker' = OnWorker /\ callers' = callers
  BY <1>0 DEF OnWorker, runner
<1>6. FrameInv(cs, act)'
  BY <1>0, <1>4, <1>5 DEF FrameInv
<1>7. ActInv(cs, act)'
  <2>1. CASE OnWorker
    BY <1>0, <1>3, <1>5, <2>1 DEF ActInv
  <2>2. CASE ~OnWorker
    BY <1>0, <1>3, <1>4, <1>5, <2>2 DEF ActInv
  <2> QED
    BY <2>1, <2>2
<1>8. ThreadInv'
  <2>1. v # NULL
    BY ConstantsAssumption
  <2>2. (\A u \in Foreign : pc[u] \in {"code", "push", "put", "enter", "wait"})' /\ pc'[Worker] # "wait"
    BY <1>0, <1>4 DEF ThreadInv
  <2>3. \A u \in All : u # t => inv'[u] = NULL /\ pc'[u] \notin {"push", "put", "enter", "wait"}
    BY <1>0, <1>3
  <2>4. ASSUME NEW u \in All
        PROVE  /\ inv'[u] # NULL <=> pc'[u] \in {"push", "put", "enter", "wait"}
               /\ inv'[u] # NULL => u \in callers'
               /\ pc'[u] \in {"push", "put"} =>
                     phase'[inv'[u]] = "entered" /\ inv'[u] \notin Members(callbackQueue')
               /\ pc'[u] = "push" => previous'[inv'[u]] = callbackStack'
    <3>1. CASE u = t
      BY <1>0, <1>2, <1>5, <2>1, <3>1
    <3>2. CASE u # t
      BY <2>3, <3>2
    <3> QED
      BY <3>1, <3>2
  <2> QED
    BY <2>2, <2>4 DEF ThreadInv
<1>9. PhaseInv(act)'
  <2>1. ASSUME NEW w \in Invocations
        PROVE  /\ phase'[w] = "unused" => \A u \in All : inv'[u] # w
               /\ phase'[w] \in {"entered", "read"} =>
                     w \in Members(act) \/ \E u \in All : inv'[u] = w /\ pc'[u] = "push"
    <3>1. CASE w = v
      BY <1>0, <3>1
    <3>2. CASE w # v
      BY <1>0, <1>3, <3>2 DEF PhaseInv
    <3> QED
      BY <3>1, <3>2
  <2>2. \A w \in returned' : phase'[w] = "answered"
    BY <1>0, <1>1, <1>2 DEF PhaseInv, TypeOK
  <2>3. \A w \in Members(act) :
          phase'[w] # "unused" /\ w \notin returned' /\ (payload'[w] <=> ~OnWorker')
    BY <1>0, <1>2, <1>4, <1>5 DEF PhaseInv
  <2>4. \A u \in All : pc'[u] = "push" => inv'[u] \notin Members(act)
    BY <1>0, <1>2, <1>3
  <2>5. \A i \in 1 .. Len(act) - 1 : phase'[act[i]] = "read"
    BY <1>0, <1>2, <1>4 DEF PhaseInv
  <2>6. callbackQueue' \in Seq(Invocations) /\ \A w \in Members(callbackQueue') : phase'[w] = "entered"
    BY <1>0, <1>2, MembersOf DEF PhaseInv
  <2> QED
    BY <2>1, <2>2, <2>3, <2>4, <2>5, <2>6 DEF PhaseInv
<1>10. StackInv(act)'
  <2>1. Popped(act)' <=> Popped(act)
    BY <1>0, <1>2, <1>4 DEF Popped
  <2>2. Popped(act) => act # <<>>
    BY DEF Popped
  <2>3. \A w \in Members(act) : previous'[w] = previous[w]
    BY <1>0, <1>2, <1>4
  <2> QED
    BY <1>0, <1>4, <2>1, <2>2, <2>3 DEF StackInv
<1>11. VMInv(cs, act)'
  BY <1>0, <1>2, <1>4, <1>5 DEF VMInv, Quiet, AllRead
<1>12. TaskInv(cs, act)'
  BY <1>0, <1>2, <1>5 DEF TaskInv, Outstanding
<1>13. TurnInv(act)'
  BY <1>0, <1>2, <1>3, <1>4, <1>5 DEF TurnInv, AllRead
<1>14. ReleaseInv'
  BY <1>0, <1>4, <1>5 DEF ReleaseInv, Outstanding, runner
<1>15. RunsInv'
  <2>0. \A u \in All : inv[u] = NULL
    BY <1>0, OneCaller DEF ThreadInv
  <2>1. ASSUME NEW w \in Invocations PROVE w \in Entered' <=> w \in Entered
    <3>1. CASE w = v
      BY <1>0, <3>1 DEF Entered
    <3>2. CASE w # v
      BY <1>0, <1>3, <1>4, <2>0, <3>2, ConstantsAssumption DEF Entered
    <3> QED
      BY <3>1, <3>2
  <2>2. Entered' = Entered
    BY <2>1 DEF Entered
  <2> QED
    BY <1>0, <1>3, <1>4, <2>2 DEF RunsInv, runner
<1> QED
  BY <1>1, <1>6, <1>7, <1>8, <1>9, <1>10, <1>11, <1>12, <1>13, <1>14, <1>15

LEMMA PushStep ==
    ASSUME OneAtATime, NEW cs, NEW act, Inv(cs, act), NEW t \in All, Push(t),
           NEW v, v = inv[t]
    PROVE  Inv(cs, Append(act, v))'
<1> USE DEF Inv
<1> DEFINE new == Append(act, v)
<1>0. /\ pc[t] = "push" /\ pc'[t] = "put" /\ \A u \in All : u # t => pc'[u] = pc[u]
      /\ v \in Invocations /\ callbackStack' = v /\ t \in callers
      /\ phase[v] = "entered" /\ v \notin Members(callbackQueue) /\ v \notin Members(act)
      /\ previous[v] = callbackStack
      /\ payload'[v] = (t # Worker)
      /\ \A w \in Invocations : w # v => payload'[w] = payload[w]
      /\ UNCHANGED <<runner, queue, callbackQueue, frames, previous, semaphore, inv, image,
                     returned, done>>
  <2>1. pc[t] = "push" /\ pc'[t] = "put" /\ \A u \in All : u # t => pc'[u] = pc[u]
    BY Goes DEF Push
  <2>2. v \in Invocations
    BY <2>1 DEF ThreadInv, TypeOK
  <2>3. /\ phase[v] = "entered" /\ v \notin Members(callbackQueue) /\ t \in callers
        /\ previous[v] = callbackStack
    BY <2>1 DEF ThreadInv
  <2>4. v \notin Members(act)
    BY <2>1 DEF PhaseInv
  <2> QED
    BY <2>1, <2>2, <2>3, <2>4 DEF Push, TypeOK, stack
<1>1. TypeOK'
  <2>1. callbackStack' \in Invocations /\ payload' \in [Invocations -> BOOLEAN]
        /\ pc' \in [All -> {"next", "take", "code", "push", "put", "enter", "wait", "ended"}]
    BY <1>0 DEF TypeOK, Push, Goto
  <2> QED
    BY <1>0, <2>1 DEF TypeOK, runner, image
<1>2. /\ \A u \in All : u # t => inv[u] = NULL /\ pc[u] \notin {"push", "put", "enter", "wait"}
      /\ OnWorker <=> t = Worker
      /\ callers = {t}
  BY <1>0, OneCaller
<1>3. /\ Members(act) \subseteq Invocations /\ \A i \in 1 .. Len(act) : act[i] \in Members(act)
      /\ act = <<>> => Len(act) = 0 /\ Newest(act) = NULL
      /\ act # <<>> => Len(act) > 0 /\ Newest(act) = act[Len(act)]
      /\ Len(act) \in Nat /\ act \in Seq(Invocations)
      /\ Worker \in All /\ Foreign \subseteq All /\ NULL \notin Invocations
  BY Unfold
<1>4. OnWorker' = OnWorker /\ callers' = callers
  BY <1>0 DEF OnWorker, runner
<1>5. /\ new \in Seq(Invocations) /\ new # <<>> /\ Len(new) = Len(act) + 1
      /\ \A i \in 1 .. Len(act) : new[i] = act[i]
      /\ new[Len(act) + 1] = v /\ Newest(new) = v
      /\ Members(new) = Members(act) \cup {v} /\ IsInjective(new)
  BY <1>0, <1>3, Appended DEF ActInv, Newest
<1>6. /\ ~OnWorker => act = <<>>
      /\ OnWorker => queue = <<>> /\ AllRead(act)
  <2>1. CASE OnWorker
    BY <1>0, <1>2, <2>1 DEF TurnInv
  <2>2. CASE ~OnWorker
    BY <1>0, <1>2, <2>2 DEF ActInv
  <2> QED
    BY <2>1, <2>2
<1>7. /\ \A i \in 1 .. Len(new) : i \in 1 .. Len(act) \/ i = Len(act) + 1
      /\ \A i \in 1 .. Len(act) : phase[act[i]] = "read"
      /\ Len(new) - 1 = Len(act)
  BY <1>3, <1>5, <1>6 DEF AllRead
<1>8. vm.pc = "idle"
  <2>1. CASE OnWorker
    <3>1. Len(cs) = Len(act) + 1
      BY <1>0, <1>2, <2>1 DEF ActInv
    <3> QED
      BY <2>1, <3>1, <1>3 DEF VMInv, Quiet
  <2>2. CASE ~OnWorker
    BY <1>6, <2>2, Unfold DEF VMInv
  <2> QED
    BY <2>1, <2>2
<1> HIDE DEF new
<1>9. FrameInv(cs, new)'
  <2>1. CASE OnWorker
    <3>1. Len(frames) = 2 * Len(cs) /\ Len(cs) = Len(act) + 1 /\ Len(frames) \in Nat
      BY <1>0, <1>2, <2>1, Unfold DEF FrameInv, ActInv
    <3>2. \A i \in 1 .. Len(new) : 2 * i < Len(frames) => i \in 1 .. Len(act)
      BY <1>3, <1>7, <3>1
    <3>3. \A i \in 1 .. Len(new) : 2 * i < Len(frames) => frames[2 * i + 1] = new[i]
      BY <1>5, <2>1, <3>2 DEF FrameInv
    <3> QED
      BY <1>0, <1>2, <1>3, <1>4, <2>1, <3>3 DEF FrameInv
  <2>2. CASE ~OnWorker
    BY <1>0, <1>2, <1>3, <1>4, <2>2 DEF FrameInv
  <2> QED
    BY <2>1, <2>2
<1>10. ActInv(cs, new)'
  <2>1. CASE OnWorker
    BY <1>0, <1>2, <1>3, <1>4, <1>5, <2>1 DEF ActInv
  <2>2. CASE ~OnWorker
    <3>1. new = <<inv[t]>>
      BY <1>6, <2>2 DEF new
    <3> QED
      BY <1>0, <1>2, <1>3, <1>4, <1>5, <2>2, <3>1 DEF ActInv
  <2> QED
    BY <2>1, <2>2
<1>11. ThreadInv'
  <2>1. (\A u \in Foreign : pc[u] \in {"code", "push", "put", "enter", "wait"})' /\ pc'[Worker] # "wait"
    BY <1>0, <1>3 DEF ThreadInv
  <2>2. ASSUME NEW u \in All
        PROVE  /\ inv'[u] # NULL <=> pc'[u] \in {"push", "put", "enter", "wait"}
               /\ inv'[u] # NULL => u \in callers'
               /\ pc'[u] \in {"push", "put"} =>
                     phase'[inv'[u]] = "entered" /\ inv'[u] \notin Members(callbackQueue')
               /\ pc'[u] = "push" => previous'[inv'[u]] = callbackStack'
    <3>1. CASE u = t
      BY <1>0, <1>3, <1>4, <3>1 DEF image
    <3>2. CASE u # t
      BY <1>0, <1>2, <3>2
    <3> QED
      BY <3>1, <3>2
  <2> QED
    BY <2>1, <2>2 DEF ThreadInv
<1>12. PhaseInv(new)'
  <2>0. UNCHANGED <<phase, inv, returned, callbackQueue>>
    BY <1>0 DEF image
  <2>1. ASSUME NEW w \in Invocations
        PROVE  /\ phase'[w] = "unused" => \A u \in All : inv'[u] # w
               /\ phase'[w] \in {"entered", "read"} =>
                     w \in Members(new) \/ \E u \in All : inv'[u] = w /\ pc'[u] = "push"
    <3>1. CASE w = v
      BY <1>0, <1>5, <2>0, <3>1
    <3>2. CASE w # v
      <4>1. \A u \in All : inv[u] = w => u # t
        BY <3>2
      <4> QED
        BY <1>0, <1>5, <2>0, <4>1 DEF PhaseInv
    <3> QED
      BY <3>1, <3>2
  <2>2. \A w \in returned' : phase'[w] = "answered"
    BY <2>0 DEF PhaseInv
  <2>3. \A w \in Members(new) :
          phase'[w] # "unused" /\ w \notin returned' /\ (payload'[w] <=> ~OnWorker')
    <3>1. phase[v] # "unused" /\ v \notin returned /\ (payload'[v] <=> ~OnWorker)
      BY <1>0, <1>2 DEF PhaseInv
    <3>2. \A w \in Members(act) : phase'[w] # "unused" /\ w \notin returned' /\ (payload'[w] <=> ~OnWorker)
      BY <1>0, <1>3, <2>0 DEF PhaseInv
    <3> QED
      BY <1>4, <1>5, <2>0, <3>1, <3>2
  <2>4. \A u \in All : pc'[u] = "push" => inv'[u] \notin Members(new)
    BY <1>0, <1>2
  <2>5. \A i \in 1 .. Len(new) - 1 : phase'[new[i]] = "read"
    BY <1>5, <1>7, <2>0
  <2>6. callbackQueue' \in Seq(Invocations) /\ \A w \in Members(callbackQueue') : phase'[w] = "entered"
    BY <2>0 DEF PhaseInv
  <2> QED
    BY <2>1, <2>2, <2>3, <2>4, <2>5, <2>6 DEF PhaseInv
<1>13. StackInv(new)'
  <2>0. UNCHANGED <<phase, previous, vm>>
    BY <1>0 DEF image
  <2>1. ~Popped(new)'
    BY <1>0, <1>5, <1>8, <2>0 DEF Popped
  <2>2. ~Popped(act)
    BY <1>3, <1>7, <1>8 DEF Popped
  <2>3. callbackStack = Newest(act)
    BY <2>2 DEF StackInv
  <2>4. ASSUME NEW i \in 1 .. Len(new)
        PROVE  previous'[new[i]] = IF i = 1 THEN NULL ELSE new[i - 1]
    <3>1. CASE i \in 1 .. Len(act)
      <4>1. i # 1 => i - 1 \in 1 .. Len(act)
        BY <1>3, <3>1
      <4> QED
        BY <1>5, <2>0, <3>1, <4>1 DEF StackInv
    <3>2. CASE i = Len(act) + 1 /\ act = <<>>
      BY <1>0, <1>3, <1>5, <2>0, <2>3, <3>2
    <3>3. CASE i = Len(act) + 1 /\ act # <<>>
      <4>1. i - 1 = Len(act) /\ Len(act) \in 1 .. Len(act) /\ i # 1
        BY <1>3, <3>3
      <4> QED
        BY <1>0, <1>3, <1>5, <2>0, <2>3, <3>3, <4>1
    <3> QED
      BY <1>7, <3>1, <3>2, <3>3
  <2> QED
    BY <1>0, <1>5, <2>1, <2>4 DEF StackInv
<1>14. VMInv(cs, new)'
  BY <1>0, <1>8 DEF VMInv, image
<1>15. TaskInv(cs, new)'
  <2>0. UNCHANGED <<queue, dispatched, done, phase, semaphore, released>>
    BY <1>0 DEF image
  <2>1. Outstanding' = Outstanding
    BY <2>0 DEF Outstanding
  <2>2. \A w \in Invocations : ReturnTask(w) \notin Members(queue)
    <3>1. ASSUME NEW w \in Invocations, ReturnTask(w) \in Members(queue) PROVE FALSE
      <4>1. w = Newest(act) /\ phase[w] = "answered"
        BY <3>1 DEF TaskInv
      <4>2. act # <<>>
        BY <1>3, <4>1
      <4>3. Len(act) \in 1 .. Len(act)
        BY <1>3, <4>2
      <4> QED
        BY <1>3, <1>7, <4>1, <4>2, <4>3
    <3> QED
      BY <3>1
  <2>3. \A w \in Invocations : w \in Members(new) => phase[w] # "answered"
    BY <1>0, <1>5, <1>7 DEF Members
  <2> QED
    BY <1>4, <2>0, <2>1, <2>2, <2>3 DEF TaskInv
<1>16. TurnInv(new)'
  <2>1. CASE OnWorker
    <3>1. queue' = <<>> /\ pc'[Worker] = "put" /\ Members(queue') = {} /\ Len(queue') = 0
      BY <1>0, <1>2, <1>6, <2>1, Unfold
    <3> QED
      BY <3>1 DEF TurnInv
  <2>2. CASE ~OnWorker
    BY <1>4, <2>2 DEF TurnInv
  <2> QED
    BY <2>1, <2>2
<1>17. ReleaseInv'
  BY <1>0, <1>3, <1>4 DEF ReleaseInv, Outstanding, runner, image
<1>18. RunsInv'
  <2>1. ASSUME NEW w \in Invocations PROVE w \in Entered' <=> w \in Entered
    <3>1. CASE w = v
      BY <1>0, <3>1 DEF Entered
    <3>2. CASE w # v
      BY <1>0, <3>2 DEF Entered, image
    <3> QED
      BY <3>1, <3>2
  <2>2. Entered' = Entered
    BY <2>1 DEF Entered
  <2> QED
    BY <1>0, <1>3, <2>2 DEF RunsInv, runner
<1> QED
  BY <1>1, <1>9, <1>10, <1>11, <1>12, <1>13, <1>14, <1>15, <1>16, <1>17, <1>18 DEF new
\* A thread whose callback is on the stack waits in the newest one.
LEMMA InCallback ==
    ASSUME OneAtATime, NEW cs, NEW act, Inv(cs, act), NEW t \in All,
           pc[t] \in {"put", "enter", "wait"}
    PROVE  /\ t \in callers /\ inv[t] \in Invocations /\ inv[t] = Newest(act)
           /\ act # <<>> /\ Newest(act) \in Members(act)
           /\ payload[inv[t]] <=> t # Worker
           /\ OnWorker <=> t = Worker
           /\ ~OnWorker => act = <<inv[t]>>
<1> USE DEF Inv
<1>1. t \in callers /\ inv[t] \in Invocations
  BY DEF ThreadInv, TypeOK
<1>2. OnWorker <=> t = Worker
  BY <1>1, OneCaller
<1>3. inv[t] = Newest(act) /\ (~OnWorker => act = <<inv[t]>>)
  <2>1. CASE OnWorker
    BY <1>2, <2>1 DEF ActInv, ThreadInv
  <2>2. CASE ~OnWorker
    <3>1. act = <<inv[t]>>
      BY <1>1, <2>2 DEF ActInv
    <3> QED
      BY <3>1, <2>2 DEF Newest
  <2> QED
    BY <2>1, <2>2
<1>4. act # <<>> /\ Newest(act) \in Members(act)
  BY <1>1, <1>3, Unfold
<1>5. payload[inv[t]] <=> ~OnWorker
  BY <1>3, <1>4 DEF PhaseInv
<1> QED
  BY <1>1, <1>2, <1>3, <1>4, <1>5

LEMMA AddPendingStep ==
    ASSUME OneAtATime, NEW cs, NEW act, Inv(cs, act), NEW t \in All, AddPending(t)
    PROVE  Inv(cs, act)'
<1> USE DEF Inv
<1> DEFINE v == inv[t]
<1>0. /\ pc[t] = "put" /\ pc'[t] = "enter" /\ \A u \in All : u # t => pc'[u] = pc[u]
      /\ v \in Invocations /\ callbackQueue' = Append(callbackQueue, v)
      /\ phase[v] = "entered" /\ v \notin Members(callbackQueue) /\ v = Newest(act)
      /\ OnWorker <=> t = Worker
      /\ v \in Members(act)
      /\ UNCHANGED <<runner, queue, frames, stack, inv, image, returned, done>>
  <2>1. pc[t] = "put" /\ pc'[t] = "enter" /\ \A u \in All : u # t => pc'[u] = pc[u]
    BY Goes DEF AddPending
  <2>2. /\ v \in Invocations /\ v = Newest(act) /\ v \in Members(act)
        /\ OnWorker <=> t = Worker
    BY <2>1, InCallback
  <2>3. phase[v] = "entered" /\ v \notin Members(callbackQueue)
    BY <2>1 DEF ThreadInv
  <2> QED
    BY <2>1, <2>2, <2>3 DEF AddPending, Pending!Put
<1>1. /\ callbackQueue' \in Seq(Invocations) /\ Members(callbackQueue') = Members(callbackQueue) \cup {v}
      /\ IsInjective(callbackQueue')
  BY <1>0, Appended DEF PhaseInv, TypeOK
<1>2. TypeOK'
  <2>1. pc' \in [All -> {"next", "take", "code", "push", "put", "enter", "wait", "ended"}]
    BY DEF TypeOK, AddPending, Goto
  <2> QED
    BY <1>0, <1>1, <2>1 DEF TypeOK, runner, stack, image
<1>3. /\ \A u \in All : u # t => inv[u] = NULL /\ pc[u] \notin {"push", "put", "enter", "wait"}
      /\ callers = {t} /\ callers' = callers /\ OnWorker' = OnWorker
      /\ Worker \in All /\ Foreign \subseteq All
  <2>1. t \in callers /\ Worker \in All /\ Foreign \subseteq All
    BY <1>0, InCallback, Unfold
  <2> QED
    BY <1>0, <2>1, OneCaller DEF OnWorker, runner
<1> HIDE DEF v
<1>4. FrameInv(cs, act)'
  BY <1>0, <1>3 DEF FrameInv
<1>5. ActInv(cs, act)'
  BY <1>0, <1>3 DEF ActInv
<1>6. ThreadInv'
  <2>1. (\A u \in Foreign : pc[u] \in {"code", "push", "put", "enter", "wait"})' /\ pc'[Worker] # "wait"
    BY <1>0, <1>3 DEF ThreadInv
  <2>2. ASSUME NEW u \in All
        PROVE  /\ inv'[u] # NULL <=> pc'[u] \in {"push", "put", "enter", "wait"}
               /\ inv'[u] # NULL => u \in callers'
               /\ pc'[u] \notin {"push", "put"}
    <3>1. CASE u = t
      BY <1>0, <1>3, <3>1 DEF ThreadInv
    <3>2. CASE u # t
      BY <1>0, <1>3, <3>2
    <3> QED
      BY <3>1, <3>2
  <2> QED
    BY <2>1, <2>2 DEF ThreadInv
<1>7. PhaseInv(act)'
  <2>0. UNCHANGED <<phase, inv, returned, payload>>
    BY <1>0 DEF image, stack
  <2>1. \A u \in All : pc'[u] = "push" <=> pc[u] = "push"
    BY <1>0
  <2>2. \A w \in Members(callbackQueue') : phase'[w] = "entered"
    BY <1>0, <1>1, <2>0 DEF PhaseInv
  <2> QED
    BY <1>1, <1>3, <2>0, <2>1, <2>2 DEF PhaseInv
<1>8. StackInv(act)' /\ VMInv(cs, act)'
  BY <1>0, <1>3 DEF StackInv, Popped, VMInv, Quiet, AllRead, image, stack
<1>9. TaskInv(cs, act)'
  BY <1>0, <1>3 DEF TaskInv, Outstanding, image, stack
<1>10. TurnInv(act)'
  BY <1>0, <1>3 DEF TurnInv, AllRead, image
<1>11. ReleaseInv'
  BY <1>0, <1>3 DEF ReleaseInv, Outstanding, runner, image
<1>12. RunsInv'
  <2>1. Entered' = Entered
    BY <1>0 DEF Entered, image, stack
  <2> QED
    BY <1>0, <1>3, <2>1 DEF RunsInv, runner
<1> QED
  BY <1>2, <1>4, <1>5, <1>6, <1>7, <1>8, <1>9, <1>10, <1>11, <1>12

LEMMA EnterWaitStep ==
    ASSUME OneAtATime, NEW cs, NEW act, Inv(cs, act), NEW t \in All, EnterWait(t)
    PROVE  Inv(cs, act)'
<1> USE DEF Inv
<1>0. /\ pc[t] = "enter" /\ pc'[t] = "wait" /\ \A u \in All : u # t => pc'[u] = pc[u]
      /\ t # Worker /\ ~OnWorker
      /\ UNCHANGED <<runner, queue, callbackQueue, frames, stack, inv, image, returned, done>>
  <2>1. pc[t] = "enter" /\ pc'[t] = "wait" /\ \A u \in All : u # t => pc'[u] = pc[u]
    BY Goes DEF EnterWait
  <2> QED
    BY <2>1, InCallback DEF EnterWait
<1>1. TypeOK'
  <2>1. pc' \in [All -> {"next", "take", "code", "push", "put", "enter", "wait", "ended"}]
    BY DEF TypeOK, EnterWait, Goto
  <2> QED
    BY <1>0, <2>1 DEF TypeOK, runner, stack, image
<1>2. /\ \A u \in All : u # t => inv[u] = NULL /\ pc[u] \notin {"push", "put", "enter", "wait"}
      /\ callers = {t} /\ callers' = callers /\ OnWorker' = OnWorker
      /\ Worker \in All /\ Foreign \subseteq All
  <2>1. t \in callers /\ Worker \in All /\ Foreign \subseteq All
    BY <1>0, InCallback, Unfold
  <2> QED
    BY <1>0, <2>1, OneCaller DEF OnWorker, runner
<1>3. FrameInv(cs, act)'
  BY <1>0, <1>2 DEF FrameInv
<1>4. ActInv(cs, act)'
  BY <1>0, <1>2 DEF ActInv
<1>5. ThreadInv'
  <2>1. (\A u \in Foreign : pc[u] \in {"code", "push", "put", "enter", "wait"})' /\ pc'[Worker] # "wait"
    BY <1>0, <1>2 DEF ThreadInv
  <2>2. ASSUME NEW u \in All
        PROVE  /\ inv'[u] # NULL <=> pc'[u] \in {"push", "put", "enter", "wait"}
               /\ inv'[u] # NULL => u \in callers'
               /\ pc'[u] \notin {"push", "put"}
    <3>1. CASE u = t
      BY <1>0, <1>2, <3>1 DEF ThreadInv
    <3>2. CASE u # t
      BY <1>0, <1>2, <3>2
    <3> QED
      BY <3>1, <3>2
  <2> QED
    BY <2>1, <2>2 DEF ThreadInv
<1>6. PhaseInv(act)'
  <2>0. UNCHANGED <<phase, inv, returned, payload>>
    BY <1>0 DEF image, stack
  <2>1. \A u \in All : pc'[u] = "push" <=> pc[u] = "push"
    BY <1>0
  <2> QED
    BY <1>0, <1>2, <2>0, <2>1 DEF PhaseInv
<1>7. StackInv(act)' /\ VMInv(cs, act)'
  BY <1>0, <1>2 DEF StackInv, Popped, VMInv, Quiet, AllRead, image, stack
<1>8. TaskInv(cs, act)'
  BY <1>0, <1>2 DEF TaskInv, Outstanding, image, stack
<1>9. TurnInv(act)'
  BY <1>0, <1>2 DEF TurnInv
<1>10. ReleaseInv'
  BY <1>0, <1>2 DEF ReleaseInv, Outstanding, runner, image
<1>11. RunsInv'
  <2>1. Entered' = Entered
    BY <1>0 DEF Entered, image, stack
  <2> QED
    BY <1>0, <1>2, <2>1 DEF RunsInv, runner
<1> QED
  BY <1>1, <1>3, <1>4, <1>5, <1>6, <1>7, <1>8, <1>9, <1>10, <1>11

LEMMA EnterRunStep ==
    ASSUME OneAtATime, NEW cs, NEW act, Inv(cs, act), NEW t \in All, EnterRun(t)
    PROVE  Inv(cs, act)'
<1> USE DEF Inv
<1> DEFINE v == inv[t]
<1>0. /\ t = Worker /\ OnWorker
      /\ pc[t] = "enter" /\ pc'[t] = "next" /\ \A u \in All : u # t => pc'[u] = pc[u]
      /\ v \in Invocations /\ v = Newest(act) /\ v \in Members(act) /\ ~payload[v]
      /\ inv'[t] = NULL /\ \A u \in All : u # t => inv'[u] = inv[u]
      /\ frames' = Append(frames, v) /\ nestedRuns' = nestedRuns + 1
      /\ UNCHANGED <<isMainThread, callers, hasToQuit, freed, queue, callbackQueue, stack,
                     image, returned, done>>
  <2>1. pc[t] = "enter" /\ pc'[t] = "next" /\ \A u \in All : u # t => pc'[u] = pc[u]
    BY Goes DEF EnterRun
  <2>2. ~payload[v]
    BY DEF EnterRun
  <2>3. /\ v \in Invocations /\ v = Newest(act) /\ v \in Members(act)
        /\ t = Worker /\ OnWorker
    BY <2>1, <2>2, InCallback
  <2> QED
    BY <2>1, <2>2, <2>3 DEF EnterRun, TypeOK
<1>1. /\ \A u \in All : u # t => inv[u] = NULL /\ pc[u] \notin {"push", "put", "enter", "wait"}
      /\ callers = {t} /\ callers' = callers /\ OnWorker' = OnWorker
      /\ Foreign \subseteq All /\ Worker \notin Foreign
  <2>1. t \in callers /\ Foreign \subseteq All /\ Worker \notin Foreign
    BY <1>0, InCallback, Unfold, ConstantsAssumption
  <2> QED
    BY <1>0, <2>1, OneCaller DEF OnWorker
<1>2. Entered' = Entered \cup {v} /\ v \notin Entered /\ Entered' \subseteq Invocations
  <2>1. phase' = phase /\ payload' = payload
    BY <1>0 DEF image, stack
  <2>2. ASSUME NEW w \in Invocations PROVE w \in Entered' <=> w \in Entered \/ w = v
    <3>1. CASE w = v
      <4>1. phase[v] # "unused"
        BY <1>0 DEF PhaseInv
      <4>2. \A u \in All : inv'[u] # v
        BY <1>0, <1>1, ConstantsAssumption
      <4> QED
        BY <1>0, <2>1, <3>1, <4>1, <4>2 DEF Entered
    <3>2. CASE w # v
      BY <1>0, <1>1, <2>1, <3>2, ConstantsAssumption DEF Entered
    <3> QED
      BY <3>1, <3>2
  <2>3. v \notin Entered
    BY DEF Entered
  <2>4. Entered \subseteq Invocations /\ Entered' \subseteq Invocations
    BY DEF Entered
  <2> QED
    BY <1>0, <2>2, <2>3, <2>4
<1>3. /\ IsFiniteSet(Entered') /\ Cardinality(Entered') \in Nat /\ Cardinality(Entered) \in Nat
      /\ Cardinality(Entered') = Cardinality(Entered) + 1
      /\ Cardinality(Entered') <= Cardinality(Invocations) /\ Cardinality(Invocations) \in Nat
  <2>1. IsFiniteSet(Invocations)
    BY ConstantsAssumption
  <2>2. IsFiniteSet(Entered)
    BY <2>1, FS_Subset DEF Entered
  <2>3. IsFiniteSet(Entered') /\ Cardinality(Entered') <= Cardinality(Invocations)
    BY <1>2, <2>1, FS_Subset
  <2> QED
    BY <1>2, <2>1, <2>2, <2>3, FS_AddElement, FS_CardinalityType
<1>4. nestedRuns = Cardinality(Entered) + 1
  BY <1>0 DEF RunsInv
<1>5. TypeOK'
  <2>1. /\ pc' \in [All -> {"next", "take", "code", "push", "put", "enter", "wait", "ended"}]
        /\ inv' \in [All -> Invocations \cup {NULL}]
    BY DEF TypeOK, EnterRun, Goto
  <2>2. nestedRuns' \in 0 .. 1 + Cardinality(Invocations)
    BY <1>0, <1>3, <1>4
  <2> QED
    BY <1>0, <2>1, <2>2 DEF TypeOK, stack, image
<1> HIDE DEF v
<1>6. /\ Len(cs) = Len(act) /\ act # <<>> /\ Len(act) > 0 /\ Len(frames) = 2 * Len(cs) /\ Len(cs) \in Nat
      /\ Newest(act) = act[Len(act)] /\ Len(frames) \in Nat
  <2>1. act # <<>>
    BY <1>0, Unfold
  <2> QED
    BY <1>0, <2>1, Unfold DEF ActInv, FrameInv
<1>7. FrameInv(cs, act)'
  <2>1. /\ frames' \in Seq(Callouts \cup Invocations \cup {Worker})
        /\ Len(frames') = Len(frames) + 1 /\ frames'[Len(frames) + 1] = v
        /\ \A i \in 1 .. Len(frames) : frames'[i] = frames[i]
    BY <1>0, Appended DEF FrameInv
  <2>2. /\ 1 \in 1 .. Len(frames) /\ frames # <<>>
        /\ \A i \in 1 .. Len(cs) : 2 * i \in 1 .. Len(frames)
    BY <1>6
  <2>3. frames'[1] = Worker /\ \A i \in 1 .. Len(cs) : frames'[2 * i] = cs[i]
    BY <2>1, <2>2 DEF FrameInv
  <2>4. ASSUME NEW i \in 1 .. Len(act) PROVE frames'[2 * i + 1] = act[i]
    <3>1. CASE i = Len(act)
      <4>1. 2 * i + 1 = Len(frames) + 1
        BY <1>6, <3>1
      <4> QED
        BY <1>0, <1>6, <2>1, <3>1, <4>1
    <3>2. CASE i < Len(act)
      <4>1. 2 * i < Len(frames) /\ 2 * i + 1 \in 1 .. Len(frames)
        BY <1>6, <3>2
      <4> QED
        BY <1>0, <2>1, <4>1 DEF FrameInv
    <3> QED
      BY <1>6, <3>1, <3>2
  <2> QED
    BY <1>0, <1>6, <2>1, <2>3, <2>4 DEF FrameInv
<1>8. ActInv(cs, act)'
  BY <1>0, <1>1 DEF ActInv
<1>9. ThreadInv'
  <2>1. (\A u \in Foreign : pc[u] \in {"code", "push", "put", "enter", "wait"})' /\ pc'[Worker] # "wait"
    BY <1>0, <1>1 DEF ThreadInv
  <2>2. ASSUME NEW u \in All
        PROVE  inv'[u] = NULL /\ pc'[u] \notin {"push", "put", "enter", "wait"}
    BY <1>0, <1>1
  <2> QED
    BY <2>1, <2>2 DEF ThreadInv
<1>10. PhaseInv(act)'
  <2>0. UNCHANGED <<phase, returned, payload, callbackQueue>>
    BY <1>0 DEF image, stack
  <2>1. \A u \in All : inv'[u] = NULL /\ pc'[u] # "push" /\ pc[u] # "push"
    BY <1>0, <1>1
  <2>2. \A w \in Invocations : w # NULL
    BY ConstantsAssumption
  <2> QED
    BY <1>1, <2>0, <2>1, <2>2 DEF PhaseInv
<1>11. StackInv(act)' /\ VMInv(cs, act)'
  BY <1>0, <1>1 DEF StackInv, Popped, VMInv, Quiet, AllRead, image, stack
<1>12. TaskInv(cs, act)'
  BY <1>0, <1>1 DEF TaskInv, Outstanding, image, stack
<1>13. TurnInv(act)'
  BY <1>0, <1>1 DEF TurnInv, AllRead, image
<1>14. ReleaseInv'
  BY <1>0, <1>1 DEF ReleaseInv, Outstanding, image
<1>15. RunsInv'
  BY <1>0, <1>3, <1>4 DEF RunsInv
<1> QED
  BY <1>5, <1>7, <1>8, <1>9, <1>10, <1>11, <1>12, <1>13, <1>14, <1>15

LEMMA Alone ==
    /\ <<>> \in Seq(Invocations) /\ IsInjective(<<>>) /\ Members(<<>>) = {} /\ Newest(<<>>) = NULL
    /\ Len(<<>>) = 0
    /\ \A v : Members(<<v>>) = {v} /\ Newest(<<v>>) = v /\ Len(<<v>>) = 1 /\ <<v>>[1] = v
<1>1. /\ <<>> \in Seq(Invocations) /\ Len(<<>>) = 0 /\ Newest(<<>>) = NULL
      /\ 1 .. Len(<<>>) = {}
  BY DEF Newest
<1>2. IsInjective(<<>>) /\ Members(<<>>) = {}
  BY <1>1, MembersOf
<1>3. ASSUME NEW v
      PROVE  Members(<<v>>) = {v} /\ Newest(<<v>>) = v /\ Len(<<v>>) = 1 /\ <<v>>[1] = v
  <2>1. Len(<<v>>) = 1 /\ <<v>>[1] = v /\ <<v>> # <<>> /\ 1 .. 1 = {1}
    OBVIOUS
  <2> QED
    BY <2>1 DEF Members, Newest
<1> QED
  BY <1>1, <1>2, <1>3

LEMMA WokenStep ==
    ASSUME OneAtATime, NEW cs, NEW act, Inv(cs, act), NEW t \in All, Woken(t)
    PROVE  Inv(cs, <<>>)'
<1> USE DEF Inv
<1> DEFINE v == inv[t]
<1>0. /\ pc[t] = "wait" /\ pc'[t] = "code" /\ \A u \in All : u # t => pc'[u] = pc[u]
      /\ t # Worker /\ ~OnWorker
      /\ v \in Invocations /\ act = <<v>> /\ semaphore[v] = 1
      /\ semaphore'[v] = 0 /\ \A w \in Invocations : w # v => semaphore'[w] = semaphore[w]
      /\ inv'[t] = NULL /\ \A u \in All : u # t => inv'[u] = inv[u]
      /\ returned' = returned \cup {v}
      /\ UNCHANGED <<runner, queue, callbackQueue, frames, callbackStack, previous, payload,
                     image, done>>
  <2>1. pc[t] = "wait" /\ pc'[t] = "code" /\ \A u \in All : u # t => pc'[u] = pc[u]
    BY Goes DEF Woken
  <2>2. t # Worker
    BY <2>1 DEF ThreadInv
  <2>3. v \in Invocations /\ act = <<v>> /\ ~OnWorker
    BY <2>1, <2>2, InCallback
  <2>4. semaphore[v] = 1
    BY <2>3 DEF Woken, TypeOK
  <2> QED
    BY <2>1, <2>2, <2>3, <2>4 DEF Woken, TypeOK
<1>1. /\ \A u \in All : u # t => inv[u] = NULL /\ pc[u] \notin {"push", "put", "enter", "wait"}
      /\ callers = {t} /\ callers' = callers /\ OnWorker' = OnWorker
      /\ Worker \in All /\ Foreign \subseteq All
  <2>1. t \in callers /\ Worker \in All /\ Foreign \subseteq All
    BY <1>0, InCallback, Unfold
  <2> QED
    BY <1>0, <2>1, OneCaller DEF OnWorker, runner
<1>2. TypeOK'
  <2>1. /\ pc' \in [All -> {"next", "take", "code", "push", "put", "enter", "wait", "ended"}]
        /\ inv' \in [All -> Invocations \cup {NULL}] /\ semaphore' \in [Invocations -> {0, 1}]
    BY DEF TypeOK, Woken, Goto
  <2> QED
    BY <1>0, <2>1 DEF TypeOK, runner, image
<1> HIDE DEF v
<1>3. /\ Members(act) = {v} /\ Newest(act) = v /\ Len(act) = 1 /\ act[1] = v /\ act # <<>>
      /\ <<>> \in Seq(Invocations) /\ IsInjective(<<>>) /\ Members(<<>>) = {} /\ Newest(<<>>) = NULL
      /\ Len(<<>>) = 0
  BY <1>0, Alone
<1>4. phase[v] = "answered" /\ v # NULL
  BY <1>0, ConstantsAssumption DEF TaskInv
<1>5. vm.pc = "idle"
  BY <1>3, <1>4 DEF VMInv
<1>6. callbackStack = NULL
  <2>1. Popped(act)
    BY <1>3, <1>4 DEF Popped
  <2>2. 1 \in 1 .. Len(act)
    BY <1>3
  <2> QED
    BY <1>3, <2>1, <2>2 DEF StackInv
<1>7. FrameInv(cs, <<>>)'
  BY <1>0, <1>1 DEF FrameInv
<1>8. ActInv(cs, <<>>)'
  BY <1>0, <1>1, <1>3 DEF ActInv
<1>9. ThreadInv'
  <2>1. (\A u \in Foreign : pc[u] \in {"code", "push", "put", "enter", "wait"})' /\ pc'[Worker] # "wait"
    BY <1>0, <1>1 DEF ThreadInv
  <2>2. ASSUME NEW u \in All
        PROVE  inv'[u] = NULL /\ pc'[u] \notin {"push", "put", "enter", "wait"}
    BY <1>0, <1>1
  <2> QED
    BY <2>1, <2>2 DEF ThreadInv
<1>10. PhaseInv(<<>>)'
  <2>0. UNCHANGED <<phase, callbackQueue>>
    BY <1>0 DEF image
  <2>1. \A u \in All : inv'[u] = NULL /\ pc'[u] # "push" /\ pc[u] # "push"
    BY <1>0, <1>1
  <2>2. \A w \in Invocations : w # NULL
    BY ConstantsAssumption
  <2>3. \A w \in Invocations : phase[w] \notin {"entered", "read"}
    BY <1>3, <1>4, <2>1 DEF PhaseInv
  <2>4. \A w \in returned' : phase[w] = "answered"
    BY <1>0, <1>4 DEF PhaseInv
  <2>5. \A i \in 1 .. Len(<<>>) - 1 : FALSE
    BY <1>3
  <2> QED
    BY <1>3, <2>0, <2>1, <2>2, <2>3, <2>4, <2>5 DEF PhaseInv
<1>11. StackInv(<<>>)'
  <2>1. ~Popped(<<>>)'
    BY DEF Popped
  <2>2. \A i \in 1 .. Len(<<>>) : FALSE
    BY <1>3
  <2> QED
    BY <1>0, <1>3, <1>6, <2>1, <2>2 DEF StackInv
<1>12. VMInv(cs, <<>>)'
  BY <1>0, <1>5 DEF VMInv, image
<1>13. TaskInv(cs, <<>>)'
  <2>0. UNCHANGED <<queue, dispatched, done, phase, released>> /\ Outstanding' = Outstanding
    BY <1>0 DEF image, Outstanding
  <2>1. \A w \in Invocations : ReturnTask(w) \notin Members(queue)
    BY <1>0, <1>3 DEF TaskInv
  <2>2. \A w \in Invocations : semaphore'[w] = 1 => semaphore[w] = 1
    BY <1>0
  <2> QED
    BY <1>1, <1>3, <2>0, <2>1, <2>2 DEF TaskInv
<1>14. TurnInv(<<>>)'
  BY <1>0, <1>1 DEF TurnInv
<1>15. ReleaseInv'
  BY <1>0, <1>1 DEF ReleaseInv, Outstanding, runner, image
<1>16. RunsInv'
  <2>1. ASSUME NEW w \in Invocations PROVE w \in Entered' <=> w \in Entered
    <3>1. CASE w = v
      <4>1. payload[v] /\ payload' = payload
        BY <1>0, <1>3 DEF PhaseInv
      <4> QED
        BY <3>1, <4>1 DEF Entered
    <3>2. CASE w # v
      <4>1. \A u \in All : inv[u] = w <=> inv'[u] = w
        BY <1>0, <3>2, ConstantsAssumption DEF v
      <4> QED
        BY <1>0, <4>1 DEF Entered, image
    <3> QED
      BY <3>1, <3>2
  <2>2. Entered' = Entered
    BY <2>1 DEF Entered
  <2> QED
    BY <1>0, <1>1, <2>2 DEF RunsInv, runner
<1> QED
  BY <1>2, <1>7, <1>8, <1>9, <1>10, <1>11, <1>12, <1>13, <1>14, <1>15, <1>16
-------------------------------------------------------------------------------
(***************************************************************************)
(* Steps of worker_run.                                                    *)
(***************************************************************************)
\* What they do not disturb, but for the one that ends a callback.
LEMMA WorkerGoes ==
    ASSUME NEW cs, NEW act, Inv(cs, act),
           pc[Worker] \in {"next", "take", "code"}, pc'[Worker] \in {"next", "take", "code", "ended"},
           \A u \in All : u # Worker => pc'[u] = pc[u],
           UNCHANGED <<callers, callbackQueue, callbackStack, previous, payload, inv, vm, phase>>
    PROVE  /\ ThreadInv' /\ StackInv(act)' /\ Entered' = Entered /\ OnWorker' = OnWorker
           /\ returned' = returned => PhaseInv(act)'
<1> USE DEF Inv
<1>0. Worker \in All /\ Foreign \subseteq All /\ Worker \notin Foreign
  BY Unfold, ConstantsAssumption
<1>1. \A u \in All : \A s \in {"push", "put", "enter", "wait"} : pc'[u] = s <=> pc[u] = s
  <2>1. ASSUME NEW u \in All, NEW s \in {"push", "put", "enter", "wait"}
        PROVE  pc'[u] = s <=> pc[u] = s
    <3>1. CASE u = Worker
      BY <3>1
    <3>2. CASE u # Worker
      BY <3>2
    <3> QED
      BY <3>1, <3>2
  <2> QED
    BY <2>1
<1>2. ThreadInv'
  <2>1. (\A u \in Foreign : pc[u] \in {"code", "push", "put", "enter", "wait"})' /\ pc'[Worker] # "wait"
    BY <1>0 DEF ThreadInv
  <2>2. ASSUME NEW u \in All
        PROVE  /\ inv'[u] # NULL <=> pc'[u] \in {"push", "put", "enter", "wait"}
               /\ inv'[u] # NULL => u \in callers'
               /\ pc'[u] \in {"push", "put"} =>
                     phase'[inv'[u]] = "entered" /\ inv'[u] \notin Members(callbackQueue')
               /\ pc'[u] = "push" => previous'[inv'[u]] = callbackStack'
    BY <1>1 DEF ThreadInv
  <2> QED
    BY <2>1, <2>2 DEF ThreadInv
<1>3. OnWorker' = OnWorker
  BY DEF OnWorker
<1>4. ASSUME returned' = returned PROVE PhaseInv(act)'
  <2>1. \A u \in All : pc'[u] = "push" <=> pc[u] = "push"
    BY <1>1
  <2> QED
    BY <1>3, <1>4, <2>1 DEF PhaseInv
<1>5. StackInv(act)' /\ Entered' = Entered
  BY DEF StackInv, Popped, Entered
<1> QED
  BY <1>2, <1>3, <1>4, <1>5

\* What a worker that takes a task finds.
LEMMA Takes ==
    ASSUME NEW cs, NEW act, Inv(cs, act), NEW type, NEW to, TakeTask(type, to)
    PROVE  /\ pc[Worker] = "take" /\ pc'[Worker] = to /\ \A u \in All : u # Worker => pc'[u] = pc[u]
           /\ Head(queue) \in Tasks /\ Head(queue).type = type /\ Head(queue) \in Members(queue)
           /\ queue # <<>> /\ queue' = Tail(queue) /\ queue' \in Seq(Tasks) /\ IsInjective(queue')
           /\ Members(queue') = Members(queue) \ {Head(queue)} /\ Len(queue') = Len(queue) - 1
           /\ Len(queue) \in Nat /\ Len(queue) > 0
           /\ Len(frames) = 2 * Len(cs) + 1 /\ frames # <<>> /\ frames[1] = Worker
           /\ Len(cs) = IF OnWorker THEN Len(act) ELSE 0
<1> USE DEF Inv
<1>1. pc[Worker] = "take" /\ pc'[Worker] = to /\ \A u \in All : u # Worker => pc'[u] = pc[u]
  BY Unfold, Goes DEF TakeTask
<1>2. queue # <<>> /\ queue' = Tail(queue) /\ Head(queue).type = type
  BY DEF TakeTask, TaskQueue!Take
<1>3. queue \in Seq(Tasks) /\ IsInjective(queue)
  BY DEF TaskInv, TypeOK
<1>4. /\ Head(queue) \in Tasks /\ Head(queue) \in Members(queue)
      /\ queue' \in Seq(Tasks) /\ IsInjective(queue') /\ Len(queue') = Len(queue) - 1
      /\ Members(queue') = Members(queue) \ {Head(queue)}
  BY <1>2, <1>3, Headless
<1>5. Len(queue) \in Nat /\ Len(queue) > 0
  BY <1>2, <1>3, MembersOf
<1>6. Len(frames) = 2 * Len(cs) + 1
  BY <1>1 DEF FrameInv
<1>7. frames # <<>>
  BY <1>6, Unfold
<1>8. frames[1] = Worker
  BY <1>7 DEF FrameInv
<1>9. Len(cs) = IF OnWorker THEN Len(act) ELSE 0
  BY <1>1 DEF ActInv
<1> QED
  BY <1>1, <1>2, <1>4, <1>5, <1>6, <1>7, <1>8, <1>9

LEMMA NextCallStep ==
    ASSUME NEW cs, NEW act, Inv(cs, act), NextCall
    PROVE  Inv(cs, act)'
<1> USE DEF Inv
<1>0. /\ pc[Worker] = "next" /\ pc'[Worker] = "take" /\ \A u \in All : u # Worker => pc'[u] = pc[u]
      /\ UNCHANGED <<runner, queue, callbackQueue, frames, stack, inv, image, returned, done>>
  BY Goes, Unfold DEF NextCall
<1>1. ThreadInv' /\ PhaseInv(act)' /\ StackInv(act)' /\ Entered' = Entered /\ OnWorker' = OnWorker
  BY <1>0, WorkerGoes DEF runner, stack, image
<1>2. TypeOK'
  <2>1. pc' \in [All -> {"next", "take", "code", "push", "put", "enter", "wait", "ended"}]
    BY DEF TypeOK, NextCall, Goto
  <2> QED
    BY <1>0, <2>1 DEF TypeOK, runner, stack, image
<1>3. FrameInv(cs, act)'
  BY <1>0, <1>1 DEF FrameInv
<1>4. ActInv(cs, act)'
  <2>1. CASE OnWorker
    BY <1>0, <1>1, <2>1 DEF ActInv
  <2>2. CASE ~OnWorker
    BY <1>0, <1>1, <2>2, Unfold DEF ActInv, OnWorker, runner
  <2> QED
    BY <2>1, <2>2
<1>5. VMInv(cs, act)' /\ TaskInv(cs, act)'
  BY <1>0, <1>1 DEF VMInv, Quiet, AllRead, TaskInv, Outstanding, stack, image
<1>6. TurnInv(act)'
  BY <1>0, <1>1 DEF TurnInv, AllRead, image
<1>7. ReleaseInv'
  BY <1>0, <1>1 DEF ReleaseInv, Outstanding, runner, image
<1>8. RunsInv'
  BY <1>0, <1>1 DEF RunsInv, runner
<1> QED
  BY <1>1, <1>2, <1>3, <1>4, <1>5, <1>6, <1>7, <1>8

LEMMA RunCalloutStep ==
    ASSUME NEW cs, NEW act, Inv(cs, act), RunCallout, NEW c, c = Head(queue).of
    PROVE  Inv(Append(cs, c), act)'
<1> USE DEF Inv
<1> DEFINE new == Append(cs, c)
<1>0. /\ pc[Worker] = "take" /\ pc'[Worker] = "code" /\ \A u \in All : u # Worker => pc'[u] = pc[u]
      /\ frames' = Append(frames, c)
      /\ UNCHANGED <<runner, callbackQueue, stack, inv, image, returned, done>>
      /\ Head(queue) = CalloutTask(c) /\ c \in Callouts /\ CalloutTask(c) \in Members(queue)
      /\ queue' \in Seq(Tasks) /\ IsInjective(queue')
      /\ Members(queue') = Members(queue) \ {CalloutTask(c)} /\ Len(queue') = Len(queue) - 1
      /\ Len(queue) \in Nat /\ Len(queue) > 0 /\ queue # <<>>
      /\ Len(frames) = 2 * Len(cs) + 1 /\ frames # <<>> /\ frames[1] = Worker
      /\ Len(cs) = IF OnWorker THEN Len(act) ELSE 0
  BY Takes, TaskOf DEF RunCallout
<1>1. ThreadInv' /\ PhaseInv(act)' /\ StackInv(act)' /\ Entered' = Entered /\ OnWorker' = OnWorker
  BY <1>0, WorkerGoes DEF runner, stack, image
<1>2. TypeOK'
  <2>1. pc' \in [All -> {"next", "take", "code", "push", "put", "enter", "wait", "ended"}]
    BY DEF TypeOK, RunCallout, TakeTask, Goto
  <2> QED
    BY <1>0, <2>1 DEF TypeOK, runner, stack, image
<1>3. c \notin Members(cs) /\ c \in Outstanding
  BY <1>0 DEF TaskInv
<1>4. /\ cs \in Seq(Callouts) /\ Len(cs) \in Nat /\ IsInjective(cs)
      /\ new \in Seq(Callouts) /\ Len(new) = Len(cs) + 1 /\ IsInjective(new) /\ new # <<>>
      /\ \A i \in 1 .. Len(cs) : new[i] = cs[i]
      /\ new[Len(cs) + 1] = c /\ Members(new) = Members(cs) \cup {c}
  BY <1>0, <1>3, Unfold, Appended DEF FrameInv
<1> HIDE DEF new
<1>5. /\ frames' \in Seq(Callouts \cup Invocations \cup {Worker})
      /\ Len(frames') = Len(frames) + 1 /\ frames'[Len(frames) + 1] = c
      /\ \A i \in 1 .. Len(frames) : frames'[i] = frames[i]
  <2>1. frames \in Seq(Callouts \cup Invocations \cup {Worker})
    BY DEF FrameInv
  <2>2. c \in Callouts \cup Invocations \cup {Worker}
    BY <1>0
  <2>3. /\ Append(frames, c) \in Seq(Callouts \cup Invocations \cup {Worker})
        /\ Len(Append(frames, c)) = Len(frames) + 1 /\ Append(frames, c)[Len(frames) + 1] = c
        /\ \A i \in 1 .. Len(frames) : Append(frames, c)[i] = frames[i]
    BY <2>1, <2>2, Appended
  <2> QED
    BY <1>0, <2>3
<1>6. FrameInv(new, act)'
  <2>1. /\ 1 \in 1 .. Len(frames)
        /\ \A i \in 1 .. Len(cs) : 2 * i \in 1 .. Len(frames)
        /\ Len(frames') = 2 * Len(new)
    BY <1>0, <1>4, <1>5
  <2>2. frames'[1] = Worker
    BY <1>0, <1>5, <2>1
  <2>3. ASSUME NEW i \in 1 .. Len(new) PROVE frames'[2 * i] = new[i]
    <3>1. CASE i \in 1 .. Len(cs)
      BY <1>4, <1>5, <2>1, <3>1 DEF FrameInv
    <3>2. CASE i = Len(cs) + 1
      <4>1. 2 * i = Len(frames) + 1
        BY <1>0, <1>4, <3>2
      <4> QED
        BY <1>4, <1>5, <3>2, <4>1
    <3> QED
      BY <1>4, <3>1, <3>2
  <2>4. ASSUME OnWorker, NEW i \in 1 .. Len(act) PROVE frames'[2 * i + 1] = act[i]
    <3>1. 2 * i < Len(frames) /\ 2 * i + 1 \in 1 .. Len(frames)
      BY <1>0, <1>4, <2>4
    <3> QED
      BY <1>5, <2>4, <3>1 DEF FrameInv
  <2> QED
    BY <1>0, <1>1, <1>4, <1>5, <2>1, <2>2, <2>3, <2>4 DEF FrameInv
<1>7. ActInv(new, act)'
  <2>1. CASE OnWorker
    BY <1>0, <1>1, <1>4, <2>1 DEF ActInv
  <2>2. CASE ~OnWorker
    <3>1. Len(cs) = 0 /\ Len(new) = 1 /\ UNCHANGED <<callers, inv>>
      BY <1>0, <1>4, <2>2 DEF runner
    <3>2. \A t \in callers : t \in All /\ t # Worker
      BY <2>2, Unfold DEF OnWorker
    <3>3. \A t \in callers : pc'[t] = pc[t]
      BY <1>0, <3>2
    <3> QED
      BY <1>0, <1>1, <2>2, <3>1, <3>3 DEF ActInv
  <2> QED
    BY <2>1, <2>2
<1>8. VMInv(new, act)'
  BY <1>0, <1>1 DEF VMInv, Quiet, image
<1>9. TaskInv(new, act)'
  <2>0. UNCHANGED <<dispatched, done, phase, semaphore, released>> /\ Outstanding' = Outstanding
    BY <1>0 DEF image, stack, Outstanding
  <2>1. ASSUME NEW d \in Callouts
        PROVE  /\ d \in Outstanding <=> d \in Members(new) \/ CalloutTask(d) \in Members(queue')
               /\ CalloutTask(d) \in Members(queue') => d \notin Members(new)
    <3>1. CASE d = c
      BY <1>0, <1>3, <1>4, <3>1
    <3>2. CASE d # c
      <4>1. CalloutTask(d) \in Members(queue') <=> CalloutTask(d) \in Members(queue)
        BY <1>0, <3>2, TasksDiffer
      <4> QED
        BY <1>4, <3>2, <4>1 DEF TaskInv
    <3> QED
      BY <3>1, <3>2
  <2>2. \A v \in Invocations : ReturnTask(v) \in Members(queue') <=> ReturnTask(v) \in Members(queue)
    BY <1>0, TasksDiffer
  <2> QED
    BY <1>0, <1>1, <2>0, <2>1, <2>2 DEF TaskInv
<1>10. TurnInv(act)'
  <2>1. ASSUME OnWorker PROVE queue' = <<>> /\ Len(queue') <= 1 /\ AllRead(act)
    BY <1>0, <2>1, EmptySeq DEF TurnInv
  <2> QED
    BY <1>0, <1>1, <2>1 DEF TurnInv, AllRead, image
<1>11. ReleaseInv'
  BY <1>0, <1>1, Unfold DEF ReleaseInv, Outstanding, runner, image
<1>12. RunsInv'
  BY <1>0, <1>1 DEF RunsInv, runner
<1> QED
  BY <1>1, <1>2, <1>6, <1>7, <1>8, <1>9, <1>10, <1>11, <1>12 DEF new
LEMMA EndCalloutStep ==
    ASSUME NEW cs, NEW act, Inv(cs, act), EndCallout
    PROVE  Inv(Front(cs), act)'
<1> USE DEF Inv
<1> DEFINE new == Front(cs)
           c == Last(cs)
<1>0. /\ pc[Worker] = "code" /\ pc'[Worker] = "next" /\ \A u \in All : u # Worker => pc'[u] = pc[u]
      /\ done' = done \cup {Top} /\ frames' = Pop
      /\ UNCHANGED <<runner, queue, callbackQueue, stack, inv, image, returned>>
  BY Goes, Unfold DEF EndCallout
<1>1. ThreadInv' /\ PhaseInv(act)' /\ StackInv(act)' /\ Entered' = Entered /\ OnWorker' = OnWorker
  BY <1>0, WorkerGoes DEF runner, stack, image
<1>2. /\ cs \in Seq(Callouts) /\ cs # <<>> /\ Len(cs) \in Nat /\ Len(cs) > 0 /\ IsInjective(cs)
      /\ Len(frames) = 2 * Len(cs) /\ frames \in Seq(Callouts \cup Invocations \cup {Worker})
      /\ frames # <<>> /\ frames[1] = Worker
  <2>1. /\ cs \in Seq(Callouts) /\ cs # <<>> /\ IsInjective(cs)
        /\ Len(frames) = 2 * Len(cs) /\ frames \in Seq(Callouts \cup Invocations \cup {Worker})
    BY <1>0 DEF FrameInv
  <2>2. Len(cs) \in Nat /\ Len(cs) > 0
    BY <2>1, MembersOf
  <2>3. frames # <<>>
    BY <2>1, <2>2
  <2> QED
    BY <2>1, <2>2, <2>3 DEF FrameInv
<1>3. /\ new \in Seq(Callouts) /\ Len(new) = Len(cs) - 1 /\ IsInjective(new)
      /\ \A i \in 1 .. Len(cs) - 1 : new[i] = cs[i]
      /\ Members(new) = Members(cs) \ {c} /\ c = cs[Len(cs)]
  BY <1>2, Shortened
<1>4. c \in Members(cs) /\ c \in Callouts
  BY <1>2, <1>3, MembersOf
<1>5. /\ frames' \in Seq(Callouts \cup Invocations \cup {Worker})
      /\ Len(frames') = Len(frames) - 1 /\ Top = frames[Len(frames)]
      /\ \A i \in 1 .. Len(frames) - 1 : frames'[i] = frames[i]
  <2>1. frames' = Front(frames) /\ Top = Last(frames)
    BY <1>0 DEF Top, Pop
  <2>2. /\ Front(frames) \in Seq(Callouts \cup Invocations \cup {Worker})
        /\ Len(Front(frames)) = Len(frames) - 1 /\ Last(frames) = frames[Len(frames)]
        /\ \A i \in 1 .. Len(frames) - 1 : Front(frames)[i] = frames[i]
    BY <1>2, Shortened
  <2> QED
    BY <2>1, <2>2
<1>6. Top = c
  <2>1. Len(cs) \in 1 .. Len(cs)
    BY <1>2
  <2> QED
    BY <1>2, <1>3, <1>5, <2>1 DEF FrameInv
<1>7. c \in Outstanding /\ Outstanding' = Outstanding \ {c} /\ CalloutTask(c) \notin Members(queue)
  BY <1>0, <1>4, <1>6 DEF TaskInv, Outstanding, image
<1> HIDE DEF new, c
<1>8. TypeOK'
  <2>1. pc' \in [All -> {"next", "take", "code", "push", "put", "enter", "wait", "ended"}]
    BY DEF TypeOK, EndCallout, Goto
  <2>2. done' \subseteq dispatched
    BY <1>0, <1>6, <1>7 DEF TypeOK, Outstanding
  <2> QED
    BY <1>0, <2>1, <2>2 DEF TypeOK, runner, stack, image
<1>9. FrameInv(new, act)'
  <2>1. /\ 1 \in 1 .. Len(frames) - 1
        /\ \A i \in 1 .. Len(new) : i \in 1 .. Len(cs) /\ i \in 1 .. Len(cs) - 1
                                    /\ 2 * i \in 1 .. Len(frames) - 1
        /\ Len(frames') = 2 * Len(new) + 1 /\ Len(frames') > 0
    BY <1>2, <1>3, <1>5
  <2>2. frames'[1] = Worker
    BY <1>2, <1>5, <2>1
  <2>3. ASSUME NEW i \in 1 .. Len(new) PROVE frames'[2 * i] = new[i]
    BY <1>3, <1>5, <2>1 DEF FrameInv
  <2>4. ASSUME OnWorker, NEW i \in 1 .. Len(act), 2 * i < Len(frames')
        PROVE  frames'[2 * i + 1] = act[i]
    <3>1. 2 * i < Len(frames) /\ 2 * i + 1 \in 1 .. Len(frames) - 1
      BY <1>2, <1>5, <2>4
    <3> QED
      BY <1>5, <2>4, <3>1 DEF FrameInv
  <2> QED
    BY <1>0, <1>1, <1>3, <1>5, <2>1, <2>2, <2>3, <2>4 DEF FrameInv
<1>10. ActInv(new, act)'
  <2>0. Len(act) \in Nat
    BY Unfold
  <2>1. CASE OnWorker
    BY <1>0, <1>1, <1>2, <1>3, <2>0, <2>1 DEF ActInv
  <2>2. CASE ~OnWorker
    <3>1. Worker \notin callers /\ callers \subseteq All /\ callers' = callers
      BY <1>0, <2>2, Unfold DEF OnWorker, runner
    <3>2. Len(new) = 0
      BY <1>0, <1>2, <1>3, <2>2 DEF ActInv
    <3> QED
      BY <1>0, <1>1, <2>2, <3>1, <3>2 DEF ActInv
  <2> QED
    BY <2>1, <2>2
<1>11. VMInv(new, act)'
  <2>1. OnWorker => Len(act) # Len(cs)
    BY <1>0, Unfold DEF ActInv
  <2>2. OnWorker => vm.pc = "idle"
    BY <2>1 DEF VMInv, Quiet
  <2> QED
    BY <1>0, <1>1, <2>2 DEF VMInv, image
<1>12. TaskInv(new, act)'
  <2>0. UNCHANGED <<queue, dispatched, phase, semaphore, released>>
    BY <1>0 DEF image, stack
  <2>1. ASSUME NEW d \in Callouts
        PROVE  /\ d \in Outstanding' <=> d \in Members(new) \/ CalloutTask(d) \in Members(queue)
               /\ CalloutTask(d) \in Members(queue) => d \notin Members(new)
    BY <1>3, <1>7 DEF TaskInv
  <2> QED
    BY <1>1, <2>0, <2>1 DEF TaskInv
<1>13. TurnInv(act)'
  BY <1>0, <1>1 DEF TurnInv, AllRead, image
<1>14. ReleaseInv'
  <2>1. UNCHANGED <<released, phase, vm, queue>>
    BY <1>0 DEF image
  <2> QED
    BY <1>0, <1>1, <1>7, <2>1 DEF ReleaseInv, runner
<1>15. RunsInv'
  BY <1>0, <1>1 DEF RunsInv, runner
<1> QED
  BY <1>1, <1>8, <1>9, <1>10, <1>11, <1>12, <1>13, <1>14, <1>15 DEF new

LEMMA SignalCallerStep ==
    ASSUME NEW cs, NEW act, Inv(cs, act), SignalCaller
    PROVE  Inv(cs, act)'
<1> USE DEF Inv
<1> DEFINE v == Head(queue).of
<1>0. /\ pc[Worker] = "take" /\ pc'[Worker] = "next" /\ \A u \in All : u # Worker => pc'[u] = pc[u]
      /\ payload[v] /\ semaphore' = [semaphore EXCEPT ![v] = @ + 1]
      /\ UNCHANGED <<runner, callbackQueue, frames, callbackStack, previous, payload, inv,
                     image, returned, done>>
      /\ Head(queue) = ReturnTask(v) /\ v \in Invocations /\ ReturnTask(v) \in Members(queue)
      /\ queue' \in Seq(Tasks) /\ IsInjective(queue')
      /\ Members(queue') = Members(queue) \ {ReturnTask(v)} /\ Len(queue') = Len(queue) - 1
      /\ Len(queue) \in Nat /\ Len(queue) > 0 /\ queue # <<>>
  BY Takes, TaskOf DEF SignalCaller
<1> HIDE DEF v
<1>1. ThreadInv' /\ PhaseInv(act)' /\ StackInv(act)' /\ Entered' = Entered /\ OnWorker' = OnWorker
  BY <1>0, WorkerGoes DEF runner, image
<1>2. v = Newest(act) /\ phase[v] = "answered" /\ semaphore[v] = 0
  BY <1>0 DEF TaskInv
<1>3. ~OnWorker
  <2>1. v \in Members(act)
    BY <1>0, <1>2, Unfold
  <2> QED
    BY <1>0, <2>1 DEF PhaseInv
<1>4. semaphore'[v] = 1 /\ \A w \in Invocations : w # v => semaphore'[w] = semaphore[w]
  BY <1>0, <1>2 DEF TypeOK
<1>5. TypeOK'
  <2>1. pc' \in [All -> {"next", "take", "code", "push", "put", "enter", "wait", "ended"}]
    BY DEF TypeOK, SignalCaller, TakeTask, Goto
  <2>2. semaphore' \in [Invocations -> {0, 1}]
    BY <1>0, <1>2 DEF TypeOK
  <2> QED
    BY <1>0, <2>1, <2>2 DEF TypeOK, runner, image
<1>6. FrameInv(cs, act)'
  BY <1>0, <1>1 DEF FrameInv
<1>7. ActInv(cs, act)'
  BY <1>0, <1>1, <1>3, Unfold DEF ActInv, OnWorker, runner
<1>8. VMInv(cs, act)' /\ TurnInv(act)'
  BY <1>0, <1>1, <1>3 DEF VMInv, TurnInv, image
<1>9. TaskInv(cs, act)'
  <2>0. UNCHANGED <<dispatched, done, phase, released>> /\ Outstanding' = Outstanding
    BY <1>0 DEF image, Outstanding
  <2>1. \A c \in Callouts : CalloutTask(c) \in Members(queue') <=> CalloutTask(c) \in Members(queue)
    BY <1>0, TasksDiffer
  <2>2. ASSUME NEW w \in Invocations
        PROVE  /\ ReturnTask(w) \notin Members(queue')
               /\ w \in Members(act) /\ phase[w] = "answered" =>
                     ReturnTask(w) \in Members(queue') \/ semaphore'[w] = 1
               /\ semaphore'[w] = 1 => phase[w] = "answered" /\ ~OnWorker
    <3>1. CASE w = v
      BY <1>0, <1>2, <1>3, <1>4, <3>1
    <3>2. CASE w # v
      <4>1. ReturnTask(w) \notin Members(queue)
        BY <1>2, <3>2 DEF TaskInv
      <4> QED
        BY <1>0, <1>4, <3>2, <4>1 DEF TaskInv
    <3> QED
      BY <3>1, <3>2
  <2> QED
    BY <1>0, <1>1, <2>0, <2>1, <2>2 DEF TaskInv
<1>10. ReleaseInv'
  BY <1>0, <1>1 DEF ReleaseInv, Outstanding, runner, image
<1>11. RunsInv'
  BY <1>0, <1>1 DEF RunsInv, runner
<1> QED
  BY <1>1, <1>5, <1>6, <1>7, <1>8, <1>9, <1>10, <1>11

LEMMA TakeReleaseStep ==
    ASSUME NEW cs, NEW act, Inv(cs, act), TakeRelease
    PROVE  Inv(cs, act)'
<1> USE DEF Inv
<1>0. /\ pc[Worker] = "take" /\ pc'[Worker] = "next" /\ \A u \in All : u # Worker => pc'[u] = pc[u]
      /\ hasToQuit' = (hasToQuit \/ ~isMainThread)
      /\ UNCHANGED <<isMainThread, callers, nestedRuns, freed, callbackQueue, frames, stack,
                     inv, image, returned, done>>
      /\ Head(queue) = ReleaseTask /\ ReleaseTask \in Members(queue)
      /\ queue' \in Seq(Tasks) /\ IsInjective(queue')
      /\ Members(queue') = Members(queue) \ {ReleaseTask} /\ Len(queue') = Len(queue) - 1
      /\ Len(queue) \in Nat /\ Len(queue) > 0 /\ queue # <<>>
  BY Takes, TaskOf DEF TakeRelease
<1>1. ThreadInv' /\ PhaseInv(act)' /\ StackInv(act)' /\ Entered' = Entered /\ OnWorker' = OnWorker
  BY <1>0, WorkerGoes DEF stack, image
<1>2. released /\ vm.pc = "idle"
  BY <1>0 DEF TaskInv, ReleaseInv
<1>3. TypeOK'
  <2>1. pc' \in [All -> {"next", "take", "code", "push", "put", "enter", "wait", "ended"}]
    BY DEF TypeOK, TakeRelease, TakeTask, Goto
  <2> QED
    BY <1>0, <2>1 DEF TypeOK, stack, image
<1>4. FrameInv(cs, act)'
  BY <1>0, <1>1 DEF FrameInv
<1>5. ActInv(cs, act)'
  <2>1. CASE OnWorker
    BY <1>0, <1>1, <2>1 DEF ActInv
  <2>2. CASE ~OnWorker
    BY <1>0, <1>1, <2>2, Unfold DEF ActInv, OnWorker
  <2> QED
    BY <2>1, <2>2
<1>6. VMInv(cs, act)'
  BY <1>0, <1>2 DEF VMInv, image
<1>7. TaskInv(cs, act)'
  <2>0. UNCHANGED <<dispatched, done, phase, semaphore, released>> /\ Outstanding' = Outstanding
    BY <1>0 DEF image, Outstanding, stack
  <2>1. \A c \in Callouts : CalloutTask(c) \in Members(queue') <=> CalloutTask(c) \in Members(queue)
    BY <1>0, TasksDiffer
  <2>2. \A w \in Invocations : ReturnTask(w) \in Members(queue') <=> ReturnTask(w) \in Members(queue)
    BY <1>0, TasksDiffer
  <2> QED
    BY <1>0, <1>1, <2>0, <2>1, <2>2 DEF TaskInv
<1>8. TurnInv(act)'
  <2>1. \A c \in Callouts : CalloutTask(c) \in Members(queue') => CalloutTask(c) \in Members(queue)
    BY <1>0
  <2> QED
    BY <1>0, <1>1, <2>1 DEF TurnInv, AllRead, image
<1>9. ReleaseInv'
  BY <1>0, <1>1, <1>2 DEF ReleaseInv, Outstanding, image, TypeOK
<1>10. RunsInv'
  BY <1>0, <1>1 DEF RunsInv
<1> QED
  BY <1>1, <1>3, <1>4, <1>5, <1>6, <1>7, <1>8, <1>9, <1>10

LEMMA EndNestedRunStep ==
    ASSUME NEW cs, NEW act, Inv(cs, act), EndNestedRun
    PROVE  Inv(cs, Front(act))'
<1> USE DEF Inv
<1> DEFINE v == Head(queue).of
           new == Front(act)
<1>0. /\ pc[Worker] = "take" /\ pc'[Worker] = AfterRun /\ \A u \in All : u # Worker => pc'[u] = pc[u]
      /\ ~payload[v] /\ frames' = Pop /\ returned' = returned \cup ({Top} \cap Invocations)
      /\ UNCHANGED <<runner, callbackQueue, stack, inv, image, done>>
      /\ Head(queue) = ReturnTask(v) /\ v \in Invocations /\ ReturnTask(v) \in Members(queue)
      /\ queue' \in Seq(Tasks) /\ IsInjective(queue')
      /\ Members(queue') = Members(queue) \ {ReturnTask(v)} /\ Len(queue') = Len(queue) - 1
      /\ Len(queue) \in Nat /\ Len(queue) > 0 /\ queue # <<>>
      /\ Len(frames) = 2 * Len(cs) + 1 /\ frames # <<>> /\ frames[1] = Worker
      /\ Len(cs) = IF OnWorker THEN Len(act) ELSE 0
  BY Takes, TaskOf DEF EndNestedRun
<1> HIDE DEF v
<1>1. v = Newest(act) /\ phase[v] = "answered" /\ semaphore[v] = 0
  BY <1>0 DEF TaskInv
<1>2. /\ act # <<>> /\ v \in Members(act) /\ v = act[Len(act)] /\ Len(act) > 0 /\ Len(act) \in Nat
      /\ act \in Seq(Invocations) /\ IsInjective(act)
      /\ Len(act) \in 1 .. Len(act) /\ v # NULL
  <2>1. act # <<>>
    BY <1>0, <1>1, Unfold
  <2>2. act \in Seq(Invocations) /\ IsInjective(act)
    BY DEF ActInv
  <2>3. v \in Members(act) /\ v = act[Len(act)] /\ Len(act) > 0 /\ Len(act) \in Nat
    BY <1>1, <2>1, Unfold
  <2> QED
    BY <1>0, <2>1, <2>2, <2>3, ConstantsAssumption
<1>3. OnWorker /\ v \notin returned
  BY <1>0, <1>2 DEF PhaseInv
<1>4. /\ new \in Seq(Invocations) /\ Len(new) = Len(act) - 1 /\ IsInjective(new)
      /\ \A i \in 1 .. Len(act) - 1 : new[i] = act[i]
      /\ Members(new) = Members(act) \ {v}
  BY <1>2, Shortened
<1> HIDE DEF new
<1>5. /\ frames' \in Seq(Callouts \cup Invocations \cup {Worker})
      /\ Len(frames') = Len(frames) - 1 /\ Top = frames[Len(frames)]
      /\ \A i \in 1 .. Len(frames) - 1 : frames'[i] = frames[i]
  <2>1. frames \in Seq(Callouts \cup Invocations \cup {Worker})
    BY DEF FrameInv
  <2>2. frames # <<>> /\ frames' = Front(frames) /\ Top = Last(frames)
    BY <1>0 DEF Top, Pop
  <2> QED
    BY <2>1, <2>2, Shortened
<1>6. Top = v
  <2>1. 2 * Len(act) < Len(frames) /\ 2 * Len(act) + 1 = Len(frames)
    BY <1>0, <1>2, <1>3
  <2> QED
    BY <1>2, <1>3, <1>5, <2>1 DEF FrameInv
<1>7. returned' = returned \cup {v} /\ pc'[Worker] = "code"
  <2>1. Len(frames) # 1
    BY <1>0, <1>2, <1>3
  <2> QED
    BY <1>0, <1>6, <2>1 DEF AfterRun
<1>8. ThreadInv' /\ Entered' = Entered /\ OnWorker' = OnWorker
  BY <1>0, <1>7, WorkerGoes DEF runner, stack, image
<1>9. queue' = <<>> /\ Len(queue') = 0
  BY <1>0, <1>3, EmptySeq DEF TurnInv
<1>10. vm.pc = "idle"
  BY <1>0, <1>3 DEF VMInv, Quiet
<1>11. \A i \in 1 .. Len(new) : i \in 1 .. Len(act) /\ phase[new[i]] = "read"
  <2>1. \A i \in 1 .. Len(new) : i \in 1 .. Len(act) /\ i \in 1 .. Len(act) - 1
    BY <1>2, <1>4
  <2> QED
    BY <1>4, <2>1 DEF PhaseInv
<1>12. UNCHANGED <<phase, previous, payload, semaphore, callbackStack, callbackQueue, vm, released,
                   dispatched, done, inv, callers>>
  BY <1>0 DEF runner, stack, image
<1>13. TypeOK'
  <2>1. pc' \in [All -> {"next", "take", "code", "push", "put", "enter", "wait", "ended"}]
    BY DEF TypeOK, EndNestedRun, TakeTask, Goto, AfterRun
  <2>2. returned' \subseteq Invocations
    BY <1>0 DEF TypeOK
  <2> QED
    BY <1>0, <2>1, <2>2 DEF TypeOK, runner, stack, image
<1>14. FrameInv(cs, new)'
  <2>0. Len(cs) = Len(act) /\ cs # <<>> /\ Len(cs) \in Nat /\ Len(cs) > 0
        /\ Len(frames) = 2 * Len(cs) + 1
    <3>1. Len(cs) = Len(act) /\ Len(frames) = 2 * Len(cs) + 1
      BY <1>0, <1>3
    <3> QED
      BY <1>2, <3>1, Unfold
  <2>1. /\ 1 \in 1 .. Len(frames) - 1
        /\ \A i \in 1 .. Len(cs) : 2 * i \in 1 .. Len(frames) - 1
        /\ Len(frames') = 2 * Len(cs) /\ Len(frames') > 0
    BY <1>5, <2>0
  <2>2. frames'[1] = Worker
    BY <1>0, <1>5, <2>1
  <2>3. ASSUME NEW i \in 1 .. Len(cs) PROVE frames'[2 * i] = cs[i]
    BY <1>5, <2>1 DEF FrameInv
  <2>4. ASSUME NEW i \in 1 .. Len(new), 2 * i < Len(frames')
        PROVE  frames'[2 * i + 1] = new[i]
    <3>1. 2 * i < Len(frames) /\ 2 * i + 1 \in 1 .. Len(frames) - 1 /\ i \in 1 .. Len(act)
          /\ i \in 1 .. Len(act) - 1
      BY <1>0, <1>2, <1>4, <1>5, <2>0, <2>4
    <3> QED
      BY <1>3, <1>4, <1>5, <2>4, <3>1 DEF FrameInv
  <2> QED
    BY <1>7, <1>8, <1>5, <2>0, <2>1, <2>2, <2>3, <2>4 DEF FrameInv
<1>15. ActInv(cs, new)'
  BY <1>0, <1>2, <1>3, <1>4, <1>7, <1>8 DEF ActInv
<1>16. PhaseInv(new)'
  <2>0. \A u \in All : pc'[u] = "push" <=> pc[u] = "push"
    <3>1. ASSUME NEW u \in All PROVE pc'[u] = "push" <=> pc[u] = "push"
      <4>1. CASE u = Worker
        BY <1>0, <1>7, <4>1
      <4>2. CASE u # Worker
        BY <1>0, <4>2
      <4> QED
        BY <4>1, <4>2
    <3> QED
      BY <3>1
  <2>1. ASSUME NEW w \in Invocations
        PROVE  /\ phase[w] = "unused" => \A u \in All : inv[u] # w
               /\ phase[w] \in {"entered", "read"} =>
                     w \in Members(new) \/ \E u \in All : inv[u] = w /\ pc'[u] = "push"
    <3>1. CASE w = v
      BY <1>1, <3>1
    <3>2. CASE w # v
      BY <1>4, <2>0, <3>2 DEF PhaseInv
    <3> QED
      BY <3>1, <3>2
  <2>2. \A w \in returned' : phase[w] = "answered"
    BY <1>1, <1>7 DEF PhaseInv
  <2>3. \A w \in Members(new) :
          phase[w] # "unused" /\ w \notin returned' /\ (payload[w] <=> ~OnWorker)
    BY <1>4, <1>7 DEF PhaseInv
  <2>4. \A u \in All : pc'[u] = "push" => inv[u] \notin Members(new)
    BY <1>4, <2>0 DEF PhaseInv
  <2>5. \A i \in 1 .. Len(new) - 1 : i \in 1 .. Len(new)
    BY <1>2, <1>4
  <2>6. callbackQueue \in Seq(Invocations) /\ \A w \in Members(callbackQueue) : phase[w] = "entered"
    BY DEF PhaseInv
  <2> QED
    BY <1>8, <1>11, <1>12, <2>1, <2>2, <2>3, <2>4, <2>5, <2>6 DEF PhaseInv
<1>17. StackInv(new)'
  <2>1. Popped(act)
    BY <1>1, <1>2 DEF Popped
  <2>2. callbackStack = IF Len(act) = 1 THEN NULL ELSE act[Len(act) - 1]
    BY <1>1, <1>2, <2>1 DEF StackInv
  <2>3. Newest(new) = IF Len(act) = 1 THEN NULL ELSE act[Len(act) - 1]
    <3>1. CASE Len(act) = 1
      BY <1>4, <3>1, EmptySeq DEF Newest
    <3>2. CASE Len(act) # 1
      <4>1. Len(act) - 1 \in 1 .. Len(act) - 1 /\ Len(new) # 0
        BY <1>2, <1>4, <3>2
      <4>2. new # <<>>
        BY <1>4, <4>1, EmptySeq
      <4> QED
        BY <1>4, <3>2, <4>1, <4>2 DEF Newest
    <3> QED
      BY <3>1, <3>2
  <2>4. ~Popped(new)
    <3>1. ASSUME new # <<>> PROVE phase[Newest(new)] = "read"
      <4>1. Len(new) \in 1 .. Len(new) /\ Newest(new) = new[Len(new)]
        BY <1>4, <3>1, EmptySeq DEF Newest
      <4> QED
        BY <1>11, <4>1
    <3> QED
      BY <1>10, <3>1 DEF Popped
  <2>5. ASSUME NEW i \in 1 .. Len(new)
        PROVE  previous[new[i]] = IF i = 1 THEN NULL ELSE new[i - 1]
    <3>1. i \in 1 .. Len(act) /\ i \in 1 .. Len(act) - 1 /\ (i # 1 => i - 1 \in 1 .. Len(act) - 1)
      BY <1>2, <1>4
    <3> QED
      BY <1>4, <3>1 DEF StackInv
  <2>6. ~Popped(new)'
    BY <1>12, <2>4 DEF Popped
  <2> QED
    BY <1>12, <2>2, <2>3, <2>5, <2>6 DEF StackInv
<1>18. VMInv(cs, new)'
  BY <1>10, <1>12 DEF VMInv
<1>19. TaskInv(cs, new)'
  <2>0. Outstanding' = Outstanding /\ Members(queue') = {}
    BY <1>9, <1>12, Alone DEF Outstanding
  <2>1. \A c \in Callouts : CalloutTask(c) \notin Members(queue)
    <3>1. Members(queue) = {ReturnTask(v)}
      BY <1>0, <2>0
    <3> QED
      BY <1>0, <3>1, TasksDiffer
  <2>2. ASSUME NEW w \in Members(new) PROVE phase[w] = "read"
    BY <1>11 DEF Members
  <2> QED
    BY <1>0, <1>8, <1>12, <2>0, <2>1, <2>2 DEF TaskInv
<1>20. TurnInv(new)'
  BY <1>9, <1>11, <1>12 DEF TurnInv, AllRead
<1>21. ReleaseInv'
  BY <1>0, <1>7, <1>8 DEF ReleaseInv, Outstanding, runner, image
<1>22. RunsInv'
  BY <1>0, <1>7, <1>8 DEF RunsInv, runner
<1> QED
  BY <1>8, <1>13, <1>14, <1>15, <1>16, <1>17, <1>18, <1>19, <1>20, <1>21, <1>22 DEF new

LEMMA FinishRunStep ==
    ASSUME NEW cs, NEW act, Inv(cs, act), FinishRun
    PROVE  Inv(cs, act)'
<1> USE DEF Inv
<1>0. /\ pc[Worker] = "next" /\ hasToQuit /\ queue = <<>>
      /\ nestedRuns' = nestedRuns - 1 /\ freed' = (nestedRuns = 1)
      /\ pc' = [pc EXCEPT ![Worker] = AfterRun] /\ frames' = Pop
      /\ returned' = returned \cup ({Top} \cap Invocations)
      /\ UNCHANGED <<isMainThread, callers, hasToQuit, queue, callbackQueue, stack, inv, image,
                     done>>
  BY DEF FinishRun
<1>1. released /\ ~isMainThread /\ vm.pc = "idle" /\ (OnWorker => Outstanding = {})
  BY <1>0 DEF ReleaseInv
<1>2. cs = <<>> /\ Members(cs) = {}
  <2>1. CASE OnWorker
    <3>1. Members(cs) = {}
      BY <1>1, <2>1, Unfold DEF TaskInv
    <3> QED
      BY <3>1, MembersOf DEF FrameInv
  <2>2. CASE ~OnWorker
    <3>1. Len(cs) = 0
      BY <1>0, <2>2 DEF ActInv
    <3> QED
      BY <3>1, EmptySeq, MembersOf DEF FrameInv
  <2> QED
    BY <2>1, <2>2
<1>3. /\ Len(cs) = 0 /\ Len(frames) = 1 /\ frames # <<>> /\ frames[1] = Worker
      /\ frames \in Seq(Callouts \cup Invocations \cup {Worker})
  <2>1. Len(cs) = 0
    BY <1>2
  <2>2. Len(frames) = 1
    BY <1>0, <2>1 DEF FrameInv
  <2>3. frames # <<>>
    BY <2>2
  <2> QED
    BY <2>1, <2>2, <2>3 DEF FrameInv
<1>4. Top = Worker /\ frames' = <<>> /\ Len(frames') = 0
  <2>1. Top = frames[1] /\ Len(frames') = 0 /\ frames' \in Seq(Callouts \cup Invocations \cup {Worker})
    BY <1>0, <1>3, Shortened DEF Top, Pop
  <2> QED
    BY <1>3, <2>1, EmptySeq
<1>5. /\ returned' = returned
      /\ pc'[Worker] = "ended" /\ \A u \in All : u # Worker => pc'[u] = pc[u]
      /\ pc' \in [All -> {"next", "take", "code", "push", "put", "enter", "wait", "ended"}]
  BY <1>0, <1>3, <1>4, Unfold, ConstantsAssumption DEF AfterRun, TypeOK
<1>6. ThreadInv' /\ PhaseInv(act)' /\ StackInv(act)' /\ Entered' = Entered /\ OnWorker' = OnWorker
  BY <1>0, <1>5, WorkerGoes DEF stack, image
<1>7. /\ nestedRuns = Cardinality(Entered) + 1 /\ Cardinality(Entered) \in Nat
      /\ Cardinality(Entered) <= Cardinality(Invocations) /\ Cardinality(Invocations) \in Nat
  <2>1. nestedRuns = Cardinality(Entered) + 1
    BY <1>0 DEF RunsInv
  <2>2. Entered \in SUBSET Invocations /\ IsFiniteSet(Invocations)
    BY ConstantsAssumption DEF Entered
  <2> QED
    BY <2>1, <2>2, FS_Subset, FS_CardinalityType
<1>8. TypeOK'
  <2>1. nestedRuns' \in 0 .. 1 + Cardinality(Invocations)
    BY <1>0, <1>7
  <2> QED
    BY <1>0, <1>5, <2>1 DEF TypeOK, stack, image
<1>9. FrameInv(cs, act)'
  <2>1. <<>> \in Seq(Callouts \cup Invocations \cup {Worker})
    BY EmptySeq
  <2>2. \A i \in 1 .. Len(cs) : FALSE
    BY <1>3
  <2>3. \A i \in 1 .. Len(act) : ~(2 * i < 0)
    BY Unfold
  <2> QED
    BY <1>2, <1>4, <1>5, <2>1, <2>2, <2>3 DEF FrameInv
<1>10. ActInv(cs, act)'
  <2>1. CASE OnWorker
    BY <1>0, <1>5, <1>6, <2>1 DEF ActInv
  <2>2. CASE ~OnWorker
    BY <1>0, <1>5, <1>6, <2>2, Unfold DEF ActInv, OnWorker
  <2> QED
    BY <2>1, <2>2
<1>11. VMInv(cs, act)' /\ TaskInv(cs, act)'
  BY <1>0, <1>1, <1>6 DEF VMInv, TaskInv, Outstanding, stack, image
<1>12. TurnInv(act)'
  BY <1>0, <1>5, <1>6 DEF TurnInv, AllRead, image
<1>13. ReleaseInv'
  BY <1>0, <1>6 DEF ReleaseInv, Outstanding, image
<1>14. RunsInv'
  BY <1>0, <1>5, <1>6, <1>7 DEF RunsInv
<1> QED
  BY <1>6, <1>8, <1>9, <1>10, <1>11, <1>12, <1>13, <1>14
-------------------------------------------------------------------------------
(***************************************************************************)
(* Steps of the image.  No thread's next step changes.                     *)
(***************************************************************************)
LEMMA DispatchStep ==
    ASSUME OneAtATime, NEW cs, NEW act, Inv(cs, act), NEW c \in Callouts, Dispatch(c)
    PROVE  Inv(cs, act)'
<1> USE DEF Inv
<1>0. /\ vm.pc = "idle" /\ ~released /\ MayUseWorker /\ c \notin dispatched
      /\ dispatched' = dispatched \cup {c} /\ queue' = Append(queue, CalloutTask(c))
      /\ UNCHANGED <<runner, callbackQueue, frames, stack, pc, inv, vm, phase, returned, done,
                     released>>
  BY DEF Dispatch, VMIdle, TaskQueue!Put
<1>1. OnWorker => Quiet(cs, act)
  BY <1>0, MayUseQuiet DEF OneAtATime
<1>2. /\ c \notin Outstanding /\ c \notin done /\ c \notin Members(cs)
      /\ CalloutTask(c) \notin Members(queue) /\ CalloutTask(c) \in Tasks
      /\ Outstanding' = Outstanding \cup {c}
  <2>1. c \notin Outstanding /\ c \notin done
    BY <1>0 DEF Outstanding, TypeOK
  <2>2. c \notin Members(cs) /\ CalloutTask(c) \notin Members(queue)
    BY <2>1 DEF TaskInv
  <2>3. Outstanding' = Outstanding \cup {c}
    BY <1>0, <2>1 DEF Outstanding
  <2> QED
    BY <2>1, <2>2, <2>3 DEF Tasks
<1>3. /\ queue' \in Seq(Tasks) /\ IsInjective(queue') /\ Len(queue') = Len(queue) + 1
      /\ Members(queue') = Members(queue) \cup {CalloutTask(c)} /\ queue' # <<>>
  BY <1>0, <1>2, Appended DEF TaskInv, TypeOK
<1>4. OnWorker' = OnWorker
  BY <1>0 DEF OnWorker, runner
<1>5. TypeOK'
  BY <1>0, <1>3 DEF TypeOK, runner, stack
<1>6. FrameInv(cs, act)' /\ ActInv(cs, act)' /\ ThreadInv' /\ PhaseInv(act)' /\ StackInv(act)'
  BY <1>0, <1>4 DEF FrameInv, ActInv, ThreadInv, PhaseInv, StackInv, Popped, runner, stack
<1>7. VMInv(cs, act)'
  BY <1>0 DEF VMInv
<1>8. TaskInv(cs, act)'
  <2>1. ASSUME NEW d \in Callouts
        PROVE  /\ d \in Outstanding' <=> d \in Members(cs) \/ CalloutTask(d) \in Members(queue')
               /\ CalloutTask(d) \in Members(queue') => d \notin Members(cs)
    <3>1. CASE d = c
      BY <1>2, <1>3, <3>1
    <3>2. CASE d # c
      <4>1. CalloutTask(d) \in Members(queue') <=> CalloutTask(d) \in Members(queue)
        BY <1>3, <3>2, TasksDiffer
      <4> QED
        BY <1>2, <3>2, <4>1 DEF TaskInv
    <3> QED
      BY <3>1, <3>2
  <2>2. \A v \in Invocations : ReturnTask(v) \in Members(queue') <=> ReturnTask(v) \in Members(queue)
    BY <1>3, TasksDiffer
  <2>3. ReleaseTask \in Members(queue') <=> ReleaseTask \in Members(queue)
    BY <1>3, TasksDiffer
  <2>4. IsFiniteSet(dispatched')
    BY <1>0, FS_AddElement DEF TaskInv
  <2>5. UNCHANGED <<phase, semaphore, released>>
    BY <1>0 DEF stack
  <2> QED
    BY <1>3, <1>4, <2>1, <2>2, <2>3, <2>4, <2>5 DEF TaskInv
<1>9. TurnInv(act)'
  <2>1. ASSUME OnWorker
        PROVE  Len(queue') <= 1 /\ pc[Worker] \notin {"code", "push", "put"} /\ AllRead(act)
    <3>1. queue = <<>> /\ Len(queue) = 0 /\ Len(act) = Len(cs) /\ AllRead(act)
      BY <1>1, <2>1 DEF Quiet
    <3>2. pc[Worker] \notin {"code", "push"}
      BY <2>1, <3>1, Unfold DEF ActInv
    <3>3. ASSUME pc[Worker] = "put" PROVE FALSE
      <4>1. /\ act # <<>> /\ phase[Newest(act)] = "entered"
        <5>1. Worker \in All /\ inv[Worker] = Newest(act) /\ act # <<>>
          BY <3>3, Unfold, InCallback
        <5> QED
          BY <3>3, <5>1 DEF ThreadInv
      <4>2. Len(act) \in 1 .. Len(act) /\ Newest(act) = act[Len(act)]
        BY <4>1, Unfold
      <4> QED
        BY <3>1, <4>1, <4>2 DEF AllRead
    <3> QED
      BY <1>3, <3>1, <3>2, <3>3
  <2> QED
    BY <1>0, <1>4, <2>1 DEF TurnInv, AllRead
<1>10. ReleaseInv'
  BY <1>0, <1>4 DEF ReleaseInv, runner
<1>11. RunsInv'
  BY <1>0 DEF RunsInv, Entered, runner, stack
<1> QED
  BY <1>5, <1>6, <1>7, <1>8, <1>9, <1>10, <1>11

LEMMA ReadNextCallbackStep ==
    ASSUME OneAtATime, NEW cs, NEW act, Inv(cs, act), ReadNextCallback
    PROVE  Inv(cs, act)'
<1> USE DEF Inv
<1> DEFINE v == Head(callbackQueue)
<1>0. /\ vm.pc = "idle" /\ callbackQueue # <<>> /\ callbackQueue' = Tail(callbackQueue)
      /\ phase' = [phase EXCEPT ![v] = "read"]
      /\ UNCHANGED <<runner, queue, frames, stack, pc, inv, vm, returned, dispatched, done,
                     released>>
  BY DEF ReadNextCallback, VMIdle, Pending!Take
<1>1. /\ v \in Invocations /\ v \in Members(callbackQueue) /\ callbackQueue' \in Seq(Invocations)
      /\ IsInjective(callbackQueue')
      /\ Members(callbackQueue') = Members(callbackQueue) \ {v}
  BY <1>0, Headless DEF PhaseInv, TypeOK
<1> HIDE DEF v
<1>2. phase[v] = "entered" /\ v \notin returned
  BY <1>1 DEF PhaseInv
<1>3. phase'[v] = "read" /\ \A w \in Invocations : w # v => phase'[w] = phase[w]
  BY <1>0, <1>1 DEF TypeOK
<1>4. \A t \in All : inv[t] = v => pc[t] \notin {"push", "put"}
  BY <1>1 DEF ThreadInv
<1>5. v \in Members(act)
  BY <1>1, <1>2, <1>4 DEF PhaseInv
<1>6. OnWorker' = OnWorker
  BY <1>0 DEF OnWorker, runner
<1>7. /\ Members(act) \subseteq Invocations /\ \A i \in 1 .. Len(act) : act[i] \in Members(act)
      /\ act # <<>> => Newest(act) \in Members(act)
  BY Unfold
<1>8. TypeOK'
  BY <1>0, <1>1 DEF TypeOK, runner, stack
<1>9. FrameInv(cs, act)' /\ ActInv(cs, act)'
  BY <1>0, <1>6 DEF FrameInv, ActInv, runner
<1>10. ThreadInv'
  <2>1. ASSUME NEW t \in All, pc[t] \in {"push", "put"}
        PROVE  phase'[inv[t]] = "entered" /\ inv[t] \notin Members(callbackQueue')
    <3>1. inv[t] \in Invocations /\ inv[t] # v /\ phase[inv[t]] = "entered"
          /\ inv[t] \notin Members(callbackQueue)
      BY <1>4, <2>1 DEF ThreadInv, TypeOK
    <3> QED
      BY <1>1, <1>3, <3>1
  <2> QED
    BY <1>0, <2>1 DEF ThreadInv, runner, stack
<1>11. PhaseInv(act)'
  <2>1. ASSUME NEW w \in Invocations
        PROVE  /\ phase'[w] = "unused" => \A t \in All : inv[t] # w
               /\ phase'[w] \in {"entered", "read"} =>
                     w \in Members(act) \/ \E t \in All : inv[t] = w /\ pc[t] = "push"
    <3>1. CASE w = v
      BY <1>3, <1>5, <3>1
    <3>2. CASE w # v
      BY <1>3, <3>2 DEF PhaseInv
    <3> QED
      BY <3>1, <3>2
  <2>2. \A w \in returned : phase'[w] = "answered"
    BY <1>2, <1>3 DEF PhaseInv, TypeOK
  <2>3. \A w \in Members(act) : phase'[w] # "unused" /\ w \notin returned /\ (payload[w] <=> ~OnWorker)
    BY <1>3, <1>7 DEF PhaseInv
  <2>4. ASSUME NEW i \in 1 .. Len(act) - 1 PROVE phase'[act[i]] = "read"
    <3>1. act[i] \in Invocations /\ phase[act[i]] = "read"
      BY <1>7, Unfold DEF PhaseInv
    <3> QED
      BY <1>3, <3>1
  <2>5. ASSUME NEW w \in Members(callbackQueue') PROVE phase'[w] = "entered"
    <3>1. w \in Members(callbackQueue) /\ w # v /\ w \in Invocations
      BY <1>1, MembersOf DEF PhaseInv
    <3> QED
      BY <1>3, <3>1 DEF PhaseInv
  <2>6. \A t \in All : pc[t] = "push" => inv[t] \notin Members(act)
    BY DEF PhaseInv
  <2> QED
    BY <1>0, <1>1, <1>6, <2>1, <2>2, <2>3, <2>4, <2>5, <2>6 DEF PhaseInv, stack
<1>12. \A w \in Members(act) : phase'[w] = "answered" <=> phase[w] = "answered"
  BY <1>2, <1>3, <1>7
<1>13. StackInv(act)'
  <2>1. Popped(act)' <=> Popped(act)
    BY <1>0, <1>7, <1>12 DEF Popped
  <2> QED
    BY <1>0, <2>1 DEF StackInv, stack
<1>14. VMInv(cs, act)'
  BY <1>0 DEF VMInv
<1>15. TaskInv(cs, act)'
  <2>1. \A w \in Invocations : phase'[w] = "answered" <=> phase[w] = "answered"
    BY <1>2, <1>3
  <2> QED
    BY <1>0, <1>6, <2>1 DEF TaskInv, Outstanding, stack
<1>16. TurnInv(act)'
  <2>1. AllRead(act) => AllRead(act)'
    BY <1>3, <1>7 DEF AllRead
  <2> QED
    BY <1>0, <1>6, <2>1 DEF TurnInv
<1>17. ReleaseInv'
  <2>1. ~released
    BY <1>1, <1>2 DEF ReleaseInv
  <2> QED
    BY <1>0, <2>1 DEF ReleaseInv, runner
<1>18. RunsInv'
  <2>1. Entered' = Entered
    BY <1>0, <1>2, <1>3 DEF Entered, stack
  <2> QED
    BY <1>0, <2>1 DEF RunsInv, runner
<1> QED
  BY <1>8, <1>9, <1>10, <1>11, <1>13, <1>14, <1>15, <1>16, <1>17, <1>18

LEMMA CallbackReturnStep ==
    ASSUME OneAtATime, NEW cs, NEW act, Inv(cs, act), NEW v \in Invocations, CallbackReturn(v)
    PROVE  Inv(cs, act)'
<1> USE DEF Inv
<1>0. /\ vm.pc = "idle" /\ phase[v] = "read" /\ (payload[v] \/ MayUseWorker)
      /\ vm' = [pc |-> "check", of |-> v]
      /\ UNCHANGED <<runner, queue, callbackQueue, frames, stack, pc, inv, phase, returned,
                     dispatched, done, released>>
  BY DEF CallbackReturn, VMIdle
<1>1. v \in Members(act)
  BY <1>0 DEF PhaseInv, ThreadInv
<1>2. ~released
  BY <1>0 DEF ReleaseInv
<1>3. OnWorker => Quiet(cs, act)
  BY <1>0, <1>1, <1>2, MayUseQuiet DEF OneAtATime, PhaseInv
<1>4. OnWorker' = OnWorker
  BY <1>0 DEF OnWorker, runner
<1>5. TypeOK'
  BY <1>0 DEF TypeOK, runner, stack
<1>6. FrameInv(cs, act)' /\ ActInv(cs, act)' /\ ThreadInv' /\ PhaseInv(act)'
  BY <1>0, <1>4 DEF FrameInv, ActInv, ThreadInv, PhaseInv, runner, stack
<1>7. StackInv(act)'
  BY <1>0 DEF StackInv, Popped, stack
<1>8. VMInv(cs, act)'
  BY <1>0, <1>1, <1>3, <1>4 DEF VMInv, Quiet, AllRead
<1>9. TaskInv(cs, act)' /\ TurnInv(act)'
  BY <1>0, <1>4 DEF TaskInv, Outstanding, TurnInv, AllRead, stack
<1>10. ReleaseInv' /\ RunsInv'
  BY <1>0, <1>2, <1>4 DEF ReleaseInv, RunsInv, Entered, runner, stack
<1> QED
  BY <1>5, <1>6, <1>7, <1>8, <1>9, <1>10

\* The image answers a callback at once only if it is the newest.
LEMMA CheckOrderStep ==
    ASSUME NEW cs, NEW act, Inv(cs, act), CheckOrder
    PROVE  Inv(cs, act)'
<1> USE DEF Inv
<1>0. /\ vm.pc = "check"
      /\ \/ vm.of = callbackStack /\ vm' = [vm EXCEPT !.pc = "pop"]
         \/ vm' = [pc |-> "idle", of |-> NULL]
      /\ UNCHANGED <<runner, queue, callbackQueue, frames, stack, pc, inv, phase, returned,
                     dispatched, done, released>>
  BY DEF CheckOrder
<1>1. /\ vm.of \in Members(act) /\ phase[vm.of] = "read" /\ vm.of \in Invocations
      /\ act # <<>> /\ Len(act) > 0 /\ Len(act) \in Nat /\ Newest(act) = act[Len(act)]
      /\ OnWorker => Quiet(cs, act)
  BY <1>0, Unfold DEF VMInv
<1>2. vm.of = callbackStack => vm.of = Newest(act)
  <2>1. CASE OnWorker
    <3>1. phase[Newest(act)] = "read"
      <4>1. Len(act) \in 1 .. Len(act)
        BY <1>1
      <4> QED
        BY <1>1, <2>1, <4>1 DEF Quiet, AllRead
    <3>2. ~Popped(act)
      BY <1>0, <3>1 DEF Popped
    <3> QED
      BY <3>2 DEF StackInv
  <2>2. CASE ~OnWorker
    <3>1. PICK t \in callers : TRUE
      BY <1>1, <2>2 DEF ActInv
    <3>2. act = <<inv[t]>>
      BY <1>1, <2>2, <3>1 DEF ActInv
    <3>3. Len(act) = 1 /\ \A i \in 1 .. Len(act) : i = 1
      BY <3>2
    <3> QED
      BY <1>1, <3>3 DEF Members
  <2> QED
    BY <2>1, <2>2
<1>3. vm \in [pc : {"idle", "check", "pop", "exit"}, of : Invocations \cup {NULL}]
  BY DEF TypeOK
<1>4. /\ vm' \in [pc : {"idle", "check", "pop", "exit"}, of : Invocations \cup {NULL}]
      /\ vm'.pc \in {"idle", "pop"}
      /\ vm'.pc = "pop" => vm'.of = vm.of /\ vm.of = Newest(act)
  <2>1. CASE vm.of = callbackStack /\ vm' = [vm EXCEPT !.pc = "pop"]
    BY <1>2, <1>3, <2>1
  <2>2. CASE vm' = [pc |-> "idle", of |-> NULL]
    BY <2>2
  <2> QED
    BY <1>0, <2>1, <2>2
<1>5. OnWorker' = OnWorker
  BY <1>0 DEF OnWorker, runner
<1>6. TypeOK'
  BY <1>0, <1>4 DEF TypeOK, runner, stack
<1>7. FrameInv(cs, act)' /\ ActInv(cs, act)' /\ ThreadInv' /\ PhaseInv(act)'
  BY <1>0, <1>5 DEF FrameInv, ActInv, ThreadInv, PhaseInv, runner, stack
<1>8. StackInv(act)'
  <2>1. Popped(act)' <=> Popped(act)
    BY <1>0, <1>4 DEF Popped
  <2> QED
    BY <1>0, <2>1 DEF StackInv, stack
<1>9. VMInv(cs, act)'
  BY <1>0, <1>1, <1>4, <1>5 DEF VMInv, Quiet, AllRead
<1>10. TaskInv(cs, act)' /\ TurnInv(act)'
  BY <1>0, <1>5 DEF TaskInv, Outstanding, TurnInv, AllRead, stack
<1>11. ReleaseInv' /\ RunsInv'
  <2>1. ~released
    BY <1>0 DEF ReleaseInv
  <2> QED
    BY <1>0, <1>5, <2>1 DEF ReleaseInv, RunsInv, Entered, runner, stack
<1> QED
  BY <1>6, <1>7, <1>8, <1>9, <1>10, <1>11

\* No thread is between its read of the stack and its write while the image
\* pops it.
LEMMA PopStackStep ==
    ASSUME OneAtATime, NEW cs, NEW act, Inv(cs, act), PopStack
    PROVE  Inv(cs, act)'
<1> USE DEF Inv
<1>0. /\ vm.pc = "pop" /\ vm' = [vm EXCEPT !.pc = "exit"]
      /\ callbackStack' = previous[callbackStack]
      /\ UNCHANGED <<runner, queue, callbackQueue, frames, previous, payload, semaphore, pc, inv,
                     phase, returned, dispatched, done, released>>
  BY DEF PopStack
<1>1. /\ vm.of = Newest(act) /\ phase[Newest(act)] = "read" /\ Newest(act) \in Invocations
      /\ Newest(act) \in Members(act) /\ act # <<>>
      /\ OnWorker => Quiet(cs, act)
  BY <1>0, Unfold DEF VMInv
<1>2. callbackStack = Newest(act)
  BY <1>0, <1>1 DEF StackInv, Popped
<1>3. vm'.pc = "exit" /\ vm'.of = Newest(act)
      /\ vm' \in [pc : {"idle", "check", "pop", "exit"}, of : Invocations \cup {NULL}]
  BY <1>0, <1>1 DEF TypeOK
<1>4. \A t \in All : pc[t] # "push"
  <2>1. ASSUME NEW t \in All, pc[t] = "push" PROVE FALSE
    <3>1. t \in callers
      BY <2>1 DEF ThreadInv
    <3>2. CASE OnWorker
      <4>1. t = Worker
        BY <3>1, <3>2, OneCaller
      <4> QED
        BY <1>1, <2>1, <3>2, <4>1, Unfold DEF Quiet, ActInv
    <3>3. CASE ~OnWorker
      BY <1>1, <2>1, <3>1, <3>3 DEF ActInv
    <3> QED
      BY <3>2, <3>3
  <2> QED
    BY <2>1
<1>5. OnWorker' = OnWorker
  BY <1>0 DEF OnWorker, runner
<1>6. TypeOK'
  BY <1>0, <1>1, <1>2, <1>3 DEF TypeOK, runner
<1>7. FrameInv(cs, act)' /\ ActInv(cs, act)' /\ ThreadInv' /\ PhaseInv(act)'
  BY <1>0, <1>4, <1>5 DEF FrameInv, ActInv, ThreadInv, PhaseInv, runner
<1>8. StackInv(act)'
  BY <1>0, <1>1, <1>2, <1>3 DEF StackInv, Popped
<1>9. VMInv(cs, act)'
  BY <1>0, <1>1, <1>3, <1>5 DEF VMInv, Quiet, AllRead
<1>10. TaskInv(cs, act)' /\ TurnInv(act)'
  BY <1>0, <1>5 DEF TaskInv, Outstanding, TurnInv, AllRead
<1>11. ReleaseInv' /\ RunsInv'
  <2>1. ~released
    BY <1>0 DEF ReleaseInv
  <2> QED
    BY <1>0, <1>5, <2>1 DEF ReleaseInv, RunsInv, Entered, runner
<1> QED
  BY <1>6, <1>7, <1>8, <1>9, <1>10, <1>11

LEMMA ExitStep ==
    ASSUME OneAtATime, NEW cs, NEW act, Inv(cs, act), Exit
    PROVE  Inv(cs, act)'
<1> USE DEF Inv
<1> DEFINE v == vm.of
<1>0. /\ vm.pc = "exit" /\ vm' = [pc |-> "idle", of |-> NULL]
      /\ phase' = [phase EXCEPT ![v] = "answered"] /\ queue' = Append(queue, ReturnTask(v))
      /\ UNCHANGED <<runner, callbackQueue, frames, stack, pc, inv, returned, dispatched, done,
                     released>>
  BY DEF Exit, TaskQueue!Put
<1>1. /\ v = Newest(act) /\ phase[v] = "read" /\ v \in Invocations /\ v \in Members(act)
      /\ act # <<>> /\ Len(act) > 0 /\ Len(act) \in Nat /\ v = act[Len(act)]
      /\ OnWorker => Quiet(cs, act)
  BY <1>0, Unfold DEF VMInv
<1> HIDE DEF v
<1>2. phase'[v] = "answered" /\ \A w \in Invocations : w # v => phase'[w] = phase[w]
  BY <1>0, <1>1 DEF TypeOK
<1>3. /\ ReturnTask(v) \notin Members(queue) /\ semaphore[v] = 0 /\ ~released
      /\ ReturnTask(v) \in Tasks
  BY <1>1 DEF TaskInv, ReleaseInv, TypeOK, Tasks
<1>4. /\ queue' \in Seq(Tasks) /\ IsInjective(queue') /\ Len(queue') = Len(queue) + 1
      /\ Members(queue') = Members(queue) \cup {ReturnTask(v)} /\ queue' # <<>>
  BY <1>0, <1>3, Appended DEF TaskInv, TypeOK
<1>5. OnWorker' = OnWorker
  BY <1>0 DEF OnWorker, runner
<1>6. \A i \in 1 .. Len(act) : act[i] \in Members(act) /\ (i # Len(act) => act[i] # v)
  <2>1. act \in Seq(Invocations) /\ Len(act) \in 1 .. Len(act)
    BY <1>1, Unfold
  <2>2. \A i, j \in 1 .. Len(act) : act[i] = act[j] => i = j
    BY <2>1, MembersOf DEF ActInv
  <2> QED
    BY <1>1, <2>1, <2>2, MembersOf
<1>7. \A t \in All : pc[t] \in {"push", "put"} => inv[t] # v
  BY <1>1 DEF ThreadInv
<1>8. TypeOK'
  BY <1>0, <1>4 DEF TypeOK, runner, stack
<1>9. FrameInv(cs, act)' /\ ActInv(cs, act)'
  BY <1>0, <1>5 DEF FrameInv, ActInv, runner
<1>10. ThreadInv'
  <2>1. ASSUME NEW t \in All, pc[t] \in {"push", "put"} PROVE phase'[inv[t]] = "entered"
    BY <1>2, <1>7, <2>1 DEF ThreadInv, TypeOK
  <2> QED
    BY <1>0, <2>1 DEF ThreadInv, runner, stack
<1>11. PhaseInv(act)'
  <2>1. ASSUME NEW w \in Invocations
        PROVE  /\ phase'[w] = "unused" => \A t \in All : inv[t] # w
               /\ phase'[w] \in {"entered", "read"} =>
                     w \in Members(act) \/ \E t \in All : inv[t] = w /\ pc[t] = "push"
    <3>1. CASE w = v
      BY <1>2, <3>1
    <3>2. CASE w # v
      BY <1>2, <3>2 DEF PhaseInv
    <3> QED
      BY <3>1, <3>2
  <2>2. \A w \in returned : phase'[w] = "answered"
    BY <1>2 DEF PhaseInv, TypeOK
  <2>3. \A w \in Members(act) : phase'[w] # "unused" /\ w \notin returned /\ (payload[w] <=> ~OnWorker)
    BY <1>2, Unfold DEF PhaseInv
  <2>4. ASSUME NEW i \in 1 .. Len(act) - 1 PROVE phase'[act[i]] = "read"
    <3>1. i \in 1 .. Len(act) /\ i # Len(act)
      BY <1>1
    <3>2. act[i] \in Invocations /\ act[i] # v
      BY <1>6, <3>1, Unfold
    <3> QED
      BY <1>2, <3>2 DEF PhaseInv
  <2>5. ASSUME NEW w \in Members(callbackQueue) PROVE phase'[w] = "entered"
    <3>1. phase[w] = "entered" /\ w \in Invocations
      BY MembersOf DEF PhaseInv
    <3> QED
      BY <1>1, <1>2, <3>1
  <2>6. (\A t \in All : pc[t] = "push" => inv[t] \notin Members(act)) /\ callbackQueue \in Seq(Invocations)
    BY DEF PhaseInv
  <2> QED
    BY <1>0, <1>5, <2>1, <2>2, <2>3, <2>4, <2>5, <2>6 DEF PhaseInv, stack
<1>12. StackInv(act)'
  <2>1. Popped(act) /\ Popped(act)'
    BY <1>0, <1>1, <1>2 DEF Popped, v
  <2> QED
    BY <1>0, <2>1 DEF StackInv, stack
<1>13. VMInv(cs, act)'
  BY <1>0 DEF VMInv
<1>14. TaskInv(cs, act)'
  <2>1. ASSUME NEW w \in Invocations
        PROVE  /\ ReturnTask(w) \in Members(queue') =>
                     w = Newest(act) /\ phase'[w] = "answered" /\ semaphore[w] = 0
               /\ w \in Members(act) /\ phase'[w] = "answered" =>
                     ReturnTask(w) \in Members(queue') \/ semaphore[w] = 1
               /\ semaphore[w] = 1 => phase'[w] = "answered" /\ ~OnWorker
    <3>1. CASE w = v
      BY <1>1, <1>2, <1>3, <1>4, <3>1
    <3>2. CASE w # v
      <4>1. ReturnTask(w) \in Members(queue') <=> ReturnTask(w) \in Members(queue)
        BY <1>1, <1>4, <3>2, TasksDiffer
      <4> QED
        BY <1>2, <3>2, <4>1 DEF TaskInv
    <3> QED
      BY <3>1, <3>2
  <2>2. \A c \in Callouts : CalloutTask(c) \in Members(queue') <=> CalloutTask(c) \in Members(queue)
    BY <1>1, <1>4, TasksDiffer
  <2>3. ReleaseTask \in Members(queue') <=> ReleaseTask \in Members(queue)
    BY <1>1, <1>4, TasksDiffer
  <2> QED
    BY <1>0, <1>4, <1>5, <2>1, <2>2, <2>3 DEF TaskInv, Outstanding, stack
<1>15. TurnInv(act)'
  <2>1. ASSUME OnWorker
        PROVE  /\ Len(queue') <= 1 /\ pc[Worker] \notin {"code", "push", "put"}
               /\ \A c \in Callouts : CalloutTask(c) \notin Members(queue')
    <3>1. queue = <<>> /\ Len(queue) = 0 /\ Members(queue) = {} /\ Len(act) = Len(cs)
      BY <1>1, <2>1, Unfold DEF Quiet
    <3>2. pc[Worker] \notin {"code", "push"}
      BY <2>1, <3>1, Unfold DEF ActInv
    <3>3. pc[Worker] # "put"
      <4>1. pc[Worker] = "put" => inv[Worker] = v
        BY <1>1, <2>1 DEF ActInv
      <4> QED
        BY <1>7, <4>1, Unfold
    <3>4. \A c \in Callouts : CalloutTask(c) \notin Members(queue')
      BY <1>1, <1>4, <3>1, TasksDiffer
    <3> QED
      BY <1>4, <3>1, <3>2, <3>3, <3>4
  <2> QED
    BY <1>0, <1>5, <2>1 DEF TurnInv
<1>16. ReleaseInv'
  BY <1>0, <1>3 DEF ReleaseInv, runner
<1>17. RunsInv'
  <2>1. Entered' = Entered
    BY <1>0, <1>1, <1>2 DEF Entered, stack
  <2> QED
    BY <1>0, <2>1 DEF RunsInv, runner
<1> QED
  BY <1>8, <1>9, <1>10, <1>11, <1>12, <1>13, <1>14, <1>15, <1>16, <1>17

LEMMA ReleaseStep ==
    ASSUME NEW cs, NEW act, Inv(cs, act), Release
    PROVE  Inv(cs, act)'
<1> USE DEF Inv
<1>0. /\ vm.pc = "idle" /\ ~released /\ released' = TRUE
      /\ Worker \in callers => Outstanding = {}
      /\ \A v \in Invocations : phase[v] \in {"unused", "answered"}
      /\ queue' = Append(queue, ReleaseTask)
      /\ UNCHANGED <<runner, callbackQueue, frames, stack, pc, inv, vm, phase, returned,
                     dispatched, done>>
  BY DEF Release, MayRelease, VMIdle, TaskQueue!Put
<1>1. ReleaseTask \notin Members(queue) /\ ReleaseTask \in Tasks
  BY <1>0 DEF TaskInv, Tasks
<1>2. /\ queue' \in Seq(Tasks) /\ IsInjective(queue') /\ Len(queue') = Len(queue) + 1
      /\ Members(queue') = Members(queue) \cup {ReleaseTask} /\ queue' # <<>>
  BY <1>0, <1>1, Appended DEF TaskInv, TypeOK
<1>3. OnWorker' = OnWorker
  BY <1>0 DEF OnWorker, runner
<1>4. ASSUME OnWorker
      PROVE  queue = <<>> /\ pc[Worker] \notin {"code", "push", "put"} /\ act = <<>>
  <2>1. cs = <<>> /\ Len(cs) = 0
    <3>1. Members(cs) = {}
      BY <1>0, <1>4, Unfold DEF TaskInv, OnWorker
    <3> QED
      BY <3>1, MembersOf DEF FrameInv
  <2>2. act = <<>> /\ pc[Worker] \notin {"code", "push"}
    <3>1. Len(act) = 0 /\ pc[Worker] \notin {"code", "push"}
      BY <1>4, <2>1, Unfold DEF ActInv
    <3> QED
      BY <3>1, Unfold
  <2>3. pc[Worker] # "put"
    BY <2>1 DEF FrameInv
  <2>4. ASSUME NEW e \in Members(queue) PROVE FALSE
    <3>1. \A c \in Callouts : e # CalloutTask(c)
      BY <1>0, <1>4 DEF TaskInv, OnWorker
    <3>2. \A v \in Invocations : e # ReturnTask(v)
      BY <2>2, Unfold DEF TaskInv
    <3>3. e # ReleaseTask
      BY <1>1
    <3> QED
      BY <3>1, <3>2, <3>3, Unfold DEF Tasks
  <2>5. queue = <<>>
    BY <2>4, MembersOf DEF TaskInv
  <2> QED
    BY <2>2, <2>3, <2>5
<1>5. TypeOK'
  BY <1>0, <1>2 DEF TypeOK, runner, stack
<1>6. FrameInv(cs, act)' /\ ActInv(cs, act)' /\ ThreadInv' /\ PhaseInv(act)' /\ StackInv(act)'
  BY <1>0, <1>3 DEF FrameInv, ActInv, ThreadInv, PhaseInv, StackInv, Popped, runner, stack
<1>7. VMInv(cs, act)'
  BY <1>0 DEF VMInv
<1>8. TaskInv(cs, act)'
  <2>1. \A c \in Callouts : CalloutTask(c) \in Members(queue') <=> CalloutTask(c) \in Members(queue)
    BY <1>2, TasksDiffer
  <2>2. \A v \in Invocations : ReturnTask(v) \in Members(queue') <=> ReturnTask(v) \in Members(queue)
    BY <1>2, TasksDiffer
  <2> QED
    BY <1>0, <1>2, <1>3, <2>1, <2>2 DEF TaskInv, Outstanding, stack
<1>9. TurnInv(act)'
  <2>1. ASSUME OnWorker
        PROVE  Len(queue') <= 1 /\ AllRead(act)
    <3>1. Len(queue) = 0 /\ Len(act) = 0
      BY <1>4, <2>1
    <3> QED
      BY <1>2, <3>1 DEF AllRead
  <2> QED
    BY <1>0, <1>3, <1>4, <2>1 DEF TurnInv, AllRead
<1>10. ReleaseInv'
  BY <1>0, <1>3 DEF ReleaseInv, Outstanding, OnWorker, runner
<1>11. RunsInv'
  BY <1>0 DEF RunsInv, Entered, runner, stack
<1> QED
  BY <1>5, <1>6, <1>7, <1>8, <1>9, <1>10, <1>11
-------------------------------------------------------------------------------
(***************************************************************************)
(* The invariant.                                                          *)
(***************************************************************************)
LEMMA InitInv == Init => Inv(<<>>, <<>>)
<1> SUFFICES ASSUME Init PROVE Inv(<<>>, <<>>)
  OBVIOUS
<1>0. /\ isMainThread \in BOOLEAN /\ callers \in CallerSets
      /\ queue = <<>> /\ callbackQueue = <<>> /\ hasToQuit = FALSE /\ nestedRuns = 1
      /\ freed = FALSE /\ frames = <<Worker>> /\ callbackStack = NULL
      /\ previous = [v \in Invocations |-> NULL] /\ payload = [v \in Invocations |-> FALSE]
      /\ semaphore = [v \in Invocations |-> 0]
      /\ pc = [t \in All |-> IF t = Worker THEN "next" ELSE "code"]
      /\ inv = [t \in All |-> NULL] /\ vm = [pc |-> "idle", of |-> NULL]
      /\ phase = [v \in Invocations |-> "unused"] /\ returned = {}
      /\ dispatched = {} /\ done = {} /\ released = FALSE
  BY DEF Init
<1>1. /\ Worker \in All /\ Foreign \subseteq All /\ Worker \notin Foreign /\ NULL \notin Invocations
      /\ IsFiniteSet(Invocations) /\ Cardinality(Invocations) \in Nat
  BY ConstantsAssumption, FS_CardinalityType DEF All
<1>2. /\ Len(<<>>) = 0 /\ Members(<<>>) = {} /\ IsInjective(<<>>) /\ Newest(<<>>) = NULL
      /\ \A S : <<>> \in Seq(S)
      /\ \A i \in 1 .. 0 : FALSE
  <2>1. Len(<<>>) = 0 /\ \A S : <<>> \in Seq(S)
    BY EmptySeq
  <2>2. Members(<<>>) = {}
    BY <2>1, MembersOf
  <2>3. IsInjective(<<>>)
    BY <2>1 DEF IsInjective
  <2> QED
    BY <2>1, <2>2, <2>3 DEF Newest
<1>3. /\ pc[Worker] = "next" /\ \A t \in Foreign : pc[t] = "code"
      /\ \A t \in All : inv[t] = NULL /\ pc[t] \in {"next", "code"}
  BY <1>0, <1>1
<1>4. TypeOK
  <2>1. nestedRuns \in 0 .. 1 + Cardinality(Invocations)
    BY <1>0, <1>1
  <2> QED
    BY <1>0, <1>1, <1>2, <2>1 DEF TypeOK
<1>5. FrameInv(<<>>, <<>>)
  <2>1. frames \in Seq(Callouts \cup Invocations \cup {Worker}) /\ Len(frames) = 1 /\ frames[1] = Worker
    BY <1>0
  <2> QED
    BY <1>2, <1>3, <2>1 DEF FrameInv
<1>6. ActInv(<<>>, <<>>)
  <2>1. \A t \in callers : pc[t] \notin {"put", "enter", "wait"}
    BY <1>3, <1>4, ConstantsAssumption DEF TypeOK, All
  <2> QED
    BY <1>2, <1>3, <2>1 DEF ActInv
<1>7. ThreadInv /\ PhaseInv(<<>>) /\ StackInv(<<>>)
  BY <1>0, <1>1, <1>2, <1>3 DEF ThreadInv, PhaseInv, StackInv, Popped
<1>8. VMInv(<<>>, <<>>)
  BY <1>0 DEF VMInv
<1>9. TaskInv(<<>>, <<>>)
  BY <1>0, <1>2, FS_EmptySet DEF TaskInv, Outstanding
<1>10. TurnInv(<<>>)
  BY <1>0, <1>2, <1>3 DEF TurnInv
<1>11. ReleaseInv
  BY <1>0, <1>3 DEF ReleaseInv
<1>12. RunsInv
  <2>1. Entered = {} /\ Cardinality(Entered) = 0
    BY <1>0, FS_EmptySet DEF Entered
  <2> QED
    BY <1>0, <1>3, <2>1 DEF RunsInv
<1> QED
  BY <1>4, <1>5, <1>6, <1>7, <1>8, <1>9, <1>10, <1>11, <1>12 DEF Inv

LEMMA Stutters ==
    ASSUME NEW cs, NEW act, Inv(cs, act), UNCHANGED vars
    PROVE  Inv(cs, act)'
<1>1. OnWorker' = OnWorker /\ Outstanding' = Outstanding /\ Entered' = Entered
  BY DEF vars, OnWorker, Outstanding, Entered, runner, stack, image
<1>2. TypeOK' /\ FrameInv(cs, act)' /\ ActInv(cs, act)' /\ ThreadInv' /\ PhaseInv(act)'
  BY <1>1 DEF Inv, vars, runner, stack, image, TypeOK, FrameInv, ActInv, ThreadInv, PhaseInv
<1>3. StackInv(act)' /\ VMInv(cs, act)' /\ TaskInv(cs, act)' /\ TurnInv(act)'
  BY <1>1 DEF Inv, vars, runner, stack, image, StackInv, Popped, VMInv, Quiet, AllRead, TaskInv,
              TurnInv
<1>4. ReleaseInv' /\ RunsInv'
  BY <1>1 DEF Inv, vars, runner, image, ReleaseInv, RunsInv
<1> QED
  BY <1>2, <1>3, <1>4 DEF Inv

\* The callouts and the callbacks change as the actions of the worker and of
\* the thread that calls back say.
LEMMA NextKeeps ==
    ASSUME OneAtATime, NEW cs, NEW act, Inv(cs, act), [Next]_vars
    PROVE  IInv'
<1> SUFFICES \E cs2, act2 : Inv(cs2, act2)'
  BY DEF IInv
<1>1. ASSUME NEW t \in All, NEW v \in Invocations, ReadStack(t, v) PROVE Inv(cs, act)'
  BY <1>1, ReadStackStep
<1>2. ASSUME NEW t \in All, CallbackStep(t) PROVE \E cs2, act2 : Inv(cs2, act2)'
  <2>1. ASSUME Push(t) PROVE \E act2 : Inv(cs, act2)'
    <3>1. PICK v : v = inv[t]
      OBVIOUS
    <3>2. Inv(cs, Append(act, v))'
      BY <2>1, <3>1, PushStep
    <3> QED
      BY <3>2
  <2>2. ASSUME AddPending(t) PROVE Inv(cs, act)'
    BY <2>2, AddPendingStep
  <2>3. ASSUME EnterRun(t) PROVE Inv(cs, act)'
    BY <2>3, EnterRunStep
  <2>4. ASSUME EnterWait(t) PROVE Inv(cs, act)'
    BY <2>4, EnterWaitStep
  <2>5. ASSUME Woken(t) PROVE Inv(cs, <<>>)'
    BY <2>5, WokenStep
  <2> QED
    BY <1>2, <2>1, <2>2, <2>3, <2>4, <2>5 DEF CallbackStep
<1>3. ASSUME WorkerStep PROVE \E cs2, act2 : Inv(cs2, act2)'
  <2>1. ASSUME NextCall PROVE Inv(cs, act)'
    BY <2>1, NextCallStep
  <2>2. ASSUME RunCallout PROVE \E cs2 : Inv(cs2, act)'
    <3>1. PICK c : c = Head(queue).of
      OBVIOUS
    <3>2. Inv(Append(cs, c), act)'
      BY <2>2, <3>1, RunCalloutStep
    <3> QED
      BY <3>2
  <2>3. ASSUME EndCallout PROVE Inv(Front(cs), act)'
    BY <2>3, EndCalloutStep
  <2>4. ASSUME SignalCaller PROVE Inv(cs, act)'
    BY <2>4, SignalCallerStep
  <2>5. ASSUME EndNestedRun PROVE Inv(cs, Front(act))'
    BY <2>5, EndNestedRunStep
  <2>6. ASSUME TakeRelease PROVE Inv(cs, act)'
    BY <2>6, TakeReleaseStep
  <2>7. ASSUME FinishRun PROVE Inv(cs, act)'
    BY <2>7, FinishRunStep
  <2> QED
    BY <1>3, <2>1, <2>2, <2>3, <2>4, <2>5, <2>6, <2>7 DEF WorkerStep
<1>4. ASSUME NEW c \in Callouts, Dispatch(c) PROVE Inv(cs, act)'
  BY <1>4, DispatchStep
<1>5. ASSUME ReadNextCallback PROVE Inv(cs, act)'
  BY <1>5, ReadNextCallbackStep
<1>6. ASSUME NEW v \in Invocations, CallbackReturn(v) PROVE Inv(cs, act)'
  BY <1>6, CallbackReturnStep
<1>7. ASSUME VMStep PROVE Inv(cs, act)'
  BY <1>7, CheckOrderStep, PopStackStep, ExitStep DEF VMStep
<1>8. ASSUME Release PROVE Inv(cs, act)'
  BY <1>8, ReleaseStep
<1>9. ASSUME UNCHANGED vars PROVE Inv(cs, act)'
  BY <1>9, Stutters
<1> QED
  BY <1>1, <1>2, <1>3, <1>4, <1>5, <1>6, <1>7, <1>8, <1>9 DEF Next
LEMMA Inductive == ASSUME OneAtATime PROVE SafeSpec => []IInv
<1>1. Init => IInv
  BY InitInv DEF IInv
<1>2. ASSUME IInv, [Next]_vars PROVE IInv'
  <2>1. PICK cs, act : Inv(cs, act)
    BY <1>2 DEF IInv
  <2> QED
    BY <1>2, <2>1, NextKeeps
<1> QED
  BY <1>1, <1>2, PTL DEF SafeSpec
-------------------------------------------------------------------------------
(***************************************************************************)
(* What the invariant says.                                                *)
(***************************************************************************)
\* Among natural numbers there is a smallest.
LEMMA Smallest ==
    ASSUME NEW T, T \subseteq Nat, T # {}
    PROVE  \E x \in T : \A y \in T : x <= y
<1> DEFINE Below(n) == 0 .. n
           R == StrictSubsetOrdering(Nat)
           U == {Below(n) : n \in T}
<1>1. U \subseteq FiniteSubsetsOf(Nat) /\ U # {}
  <2>1. ASSUME NEW n \in T PROVE Below(n) \in FiniteSubsetsOf(Nat)
    <3>1. IsFiniteSet(Below(n))
      BY FS_Interval
    <3>2. Below(n) \in SUBSET Nat
      OBVIOUS
    <3> HIDE DEF Below
    <3> QED
      BY <3>1, <3>2 DEF FiniteSubsetsOf
  <2> QED
    BY <2>1
<1>2. IsWellFoundedOn(R, FiniteSubsetsOf(Nat))
  BY FS_StrictSubsetOrderingWellFounded
<1> HIDE DEF R, U
<1>3. PICK s \in U : \A u \in U : <<u, s>> \notin R
  BY <1>1, <1>2, WFMin, Zenon
<1>4. PICK x \in T : s = 0 .. x
  BY <1>3 DEF U
<1>5. ASSUME NEW y \in T PROVE x <= y
  <2>1. <<0 .. y, 0 .. x>> \notin R
    BY <1>3, <1>4 DEF U
  <2>2. 0 .. y \in SUBSET Nat /\ 0 .. x \in SUBSET Nat
    OBVIOUS
  <2>3. ~ (0 .. y \subseteq 0 .. x) \/ 0 .. y = 0 .. x
    BY <2>1, <2>2 DEF R, StrictSubsetOrdering
  <2>4. x \in Nat /\ y \in Nat
    OBVIOUS
  <2> QED
    BY <2>3, <2>4
<1> QED
  BY <1>5

\* How many of the callbacks that wait are still on the stack.
Depth(act) == IF Popped(act) THEN Len(act) - 1 ELSE Len(act)

LEMMA StackFacts ==
    ASSUME NEW cs, NEW act, Inv(cs, act)
    PROVE  /\ act \in Seq(Invocations) /\ Len(act) \in Nat /\ Depth(act) \in Nat
           /\ Depth(act) <= Len(act) /\ Len(act) - 1 <= Depth(act)
           /\ Len(act) <= Cardinality(Invocations) /\ Cardinality(Invocations) \in Nat
           /\ callbackStack = IF Depth(act) = 0 THEN NULL ELSE act[Depth(act)]
           /\ \A i \in 1 .. Depth(act) :
                 /\ act[i] \in Invocations
                 /\ previous[act[i]] = IF i = 1 THEN NULL ELSE act[i - 1]
<1> USE DEF Inv
<1>1. act \in Seq(Invocations) /\ Len(act) \in Nat /\ (act = <<>> => Len(act) = 0)
      /\ (act # <<>> => Len(act) > 0 /\ Newest(act) = act[Len(act)])
      /\ (act = <<>> => Newest(act) = NULL)
  BY Unfold
<1>2. Len(act) <= Cardinality(Invocations) /\ Cardinality(Invocations) \in Nat
  <2>1. Members(act) \in SUBSET Invocations /\ Cardinality(Members(act)) = Len(act)
    BY Counted, Unfold DEF ActInv
  <2> QED
    BY <2>1, FS_Subset, FS_CardinalityType, ConstantsAssumption
<1>3. Popped(act) => act # <<>>
  BY DEF Popped
<1>4. Depth(act) \in Nat /\ Depth(act) <= Len(act) /\ Len(act) - 1 <= Depth(act)
  BY <1>1, <1>3 DEF Depth
<1>5. \A i \in 1 .. Len(act) :
         act[i] \in Invocations /\ previous[act[i]] = IF i = 1 THEN NULL ELSE act[i - 1]
  BY <1>1, ElementOfSeq DEF StackInv
<1>6. callbackStack = IF Depth(act) = 0 THEN NULL ELSE act[Depth(act)]
  <2>1. CASE Popped(act)
    <3>1. Len(act) \in 1 .. Len(act) /\ Depth(act) = Len(act) - 1
      BY <1>1, <1>3, <2>1 DEF Depth
    <3>2. callbackStack = previous[act[Len(act)]]
      BY <1>1, <1>3, <2>1 DEF StackInv
    <3>3. callbackStack = IF Len(act) = 1 THEN NULL ELSE act[Len(act) - 1]
      BY <1>5, <3>1, <3>2
    <3>4. Depth(act) = 0 <=> Len(act) = 1
      BY <1>1, <3>1
    <3> QED
      BY <3>1, <3>3, <3>4
  <2>2. CASE ~Popped(act)
    BY <1>1, <2>2 DEF StackInv, Depth
  <2> QED
    BY <2>1, <2>2
<1>7. \A i \in 1 .. Depth(act) : i \in 1 .. Len(act)
  BY <1>1, <1>4
<1> QED
  BY <1>1, <1>2, <1>4, <1>5, <1>6, <1>7

\* The walk of Linked visits the callbacks, the newest first, and then NULL.
LEMMA Walk ==
    ASSUME NEW cs, NEW act, Inv(cs, act)
    PROVE  Linked = [k \in 0 .. Cardinality(Invocations) |->
                       IF k < Depth(act) THEN act[Depth(act) - k] ELSE NULL]
<1> DEFINE M == Cardinality(Invocations)
           d == Depth(act)
           W == [k \in 0 .. M |-> IF k < d THEN act[d - k] ELSE NULL]
           F(f) == [k \in 0 .. M |->
                      IF k = 0 THEN callbackStack
                      ELSE IF f[k - 1] = NULL THEN NULL ELSE previous[f[k - 1]]]
<1>1. /\ M \in Nat /\ d \in Nat /\ d <= M /\ NULL \notin Invocations
      /\ callbackStack = IF d = 0 THEN NULL ELSE act[d]
      /\ \A i \in 1 .. d : /\ act[i] \in Invocations
                           /\ previous[act[i]] = IF i = 1 THEN NULL ELSE act[i - 1]
  BY StackFacts, ConstantsAssumption
<1> HIDE DEF d, M
<1>2. W = F(W)
  <2>1. ASSUME NEW k \in 0 .. M PROVE W[k] = F(W)[k]
    <3>1. CASE k = 0
      BY <1>1, <3>1
    <3>2. CASE k # 0 /\ k - 1 < d
      <4>1. k - 1 \in 0 .. M /\ d - (k - 1) \in 1 .. d
        BY <1>1, <3>2
      <4>2. W[k - 1] = act[d - (k - 1)] /\ act[d - (k - 1)] # NULL
        BY <1>1, <3>2, <4>1
      <4>3. previous[act[d - (k - 1)]] = IF k = d THEN NULL ELSE act[d - k]
        <5>1. (d - (k - 1) = 1 <=> k = d) /\ d - (k - 1) - 1 = d - k
          BY <1>1
        <5> QED
          BY <1>1, <4>1, <5>1
      <4>4. F(W)[k] = IF k = d THEN NULL ELSE act[d - k]
        BY <3>2, <4>2, <4>3
      <4>5. k < d <=> k # d
        BY <1>1, <3>2
      <4> QED
        BY <4>4, <4>5
    <3>3. CASE k # 0 /\ k - 1 >= d
      <4>1. k - 1 \in 0 .. M /\ ~(k - 1 < d) /\ ~(k < d)
        BY <1>1, <3>3
      <4> QED
        BY <3>3, <4>1
    <3> QED
      BY <1>1, <3>1, <3>2, <3>3
  <2> QED
    BY <2>1
<1>3. Linked = F(Linked)
  <2>1. \E f : f = F(f)
    BY <1>2
  <2> QED
    BY <2>1 DEF Linked, M
<1> DEFINE T == {k \in 0 .. M : Linked[k] # W[k]}
<1>4. ASSUME NEW x \in T, \A y \in T : x <= y PROVE FALSE
  <2>1. x \in 0 .. M /\ Linked[x] # W[x]
    BY <1>4
  <2>2. Linked[x] = F(Linked)[x] /\ W[x] = F(W)[x]
    BY <1>2, <1>3
  <2>3. CASE x = 0
    BY <2>1, <2>2, <2>3
  <2>4. CASE x # 0
    <3>1. x - 1 \in 0 .. M /\ ~(x <= x - 1)
      BY <1>1, <2>1, <2>4
    <3>2. Linked[x - 1] = W[x - 1]
      BY <1>4, <3>1
    <3> HIDE DEF W, T
    <3> QED
      BY <2>1, <2>2, <2>4, <3>1, <3>2
  <2> QED
    BY <2>3, <2>4
<1>5. T = {}
  <2>1. T \subseteq Nat
    BY <1>1
  <2> HIDE DEF T
  <2> QED
    BY <1>4, <2>1, Smallest
<1>6. Linked = [k \in 0 .. M |-> Linked[k]]
  BY <1>3
<1>7. Linked = W
  BY <1>5, <1>6
<1> QED
  BY <1>7 DEF M, d

LEMMA InvStack ==
    ASSUME NEW cs, NEW act, Inv(cs, act)
    PROVE  StackIsExact
<1> USE DEF Inv
<1> DEFINE d == Depth(act)
           OnStack(v) == /\ \A t \in All : inv[t] = v => pc[t] # "push"
                         /\ phase[v] \in {"entered", "read"}
                         /\ ~(vm.of = v /\ vm.pc = "exit")
<1>1. /\ d \in Nat /\ d <= Len(act) /\ Len(act) - 1 <= d /\ Len(act) \in Nat
      /\ Len(act) <= Cardinality(Invocations) /\ Cardinality(Invocations) \in Nat
      /\ \A i \in 1 .. d : act[i] \in Invocations
      /\ Popped(act) <=> d # Len(act)
  BY StackFacts DEF Depth
<1>2. /\ \A i, j \in 1 .. Len(act) : act[i] = act[j] => i = j
      /\ \A i \in 1 .. Len(act) : act[i] \in Members(act)
      /\ act # <<>> => Newest(act) = act[Len(act)]
  BY Unfold, MembersOf DEF ActInv
<1>3. {Linked[k] : k \in DOMAIN Linked} \ {NULL} = {act[i] : i \in 1 .. d}
  <2>1. /\ DOMAIN Linked = 0 .. Cardinality(Invocations)
        /\ \A k \in DOMAIN Linked : Linked[k] = IF k < d THEN act[d - k] ELSE NULL
    BY Walk
  <2> HIDE DEF d
  <2>2. ASSUME NEW k \in DOMAIN Linked, Linked[k] # NULL
        PROVE  \E i \in 1 .. d : Linked[k] = act[i]
    <3>1. k < d /\ d - k \in 1 .. d
      BY <1>1, <2>1, <2>2
    <3> QED
      BY <2>1, <3>1
  <2>3. ASSUME NEW i \in 1 .. d
        PROVE  act[i] # NULL /\ \E k \in DOMAIN Linked : Linked[k] = act[i]
    <3>1. d - i \in DOMAIN Linked /\ d - i < d /\ d - (d - i) = i
      BY <1>1, <2>1
    <3>2. Linked[d - i] = act[i]
      BY <2>1, <3>1
    <3> QED
      BY <1>1, <3>1, <3>2, ConstantsAssumption
  <2> QED
    BY <2>2, <2>3
<1>4. ASSUME NEW i \in 1 .. d PROVE OnStack(act[i])
  <2>1. i \in 1 .. Len(act) /\ act[i] \in Members(act) /\ act[i] \in Invocations
    BY <1>1, <1>2
  <2>2. \A t \in All : inv[t] = act[i] => pc[t] # "push"
    BY <2>1 DEF PhaseInv
  <2>3. CASE i = Len(act)
    <3>1. act # <<>> /\ act[i] = Newest(act) /\ ~Popped(act)
      BY <1>1, <1>2, <2>3
    <3> QED
      BY <2>1, <2>2, <3>1 DEF Popped, PhaseInv, TypeOK
  <2>4. CASE i # Len(act)
    <3>1. i \in 1 .. Len(act) - 1 /\ act # <<>> /\ Len(act) \in 1 .. Len(act)
      BY <1>1, <2>1, <2>4
    <3>2. act[i] # Newest(act)
      BY <1>2, <2>1, <2>4, <3>1
    <3> QED
      BY <2>2, <3>1, <3>2 DEF PhaseInv, VMInv
  <2> QED
    BY <2>3, <2>4
<1>5. ASSUME NEW v \in Invocations, OnStack(v) PROVE \E i \in 1 .. d : v = act[i]
  <2>1. v \in Members(act)
    BY <1>5 DEF PhaseInv
  <2>2. PICK i \in 1 .. Len(act) : v = act[i]
    BY <2>1 DEF Members
  <2>3. ASSUME i \notin 1 .. d PROVE FALSE
    <3>1. i = Len(act) /\ Popped(act) /\ act # <<>>
      BY <1>1, <2>2, <2>3
    <3> QED
      BY <1>2, <1>5, <2>2, <3>1 DEF Popped
  <2> QED
    BY <2>2, <2>3
<1>6. {act[i] : i \in 1 .. d} = {v \in Invocations : OnStack(v)}
  <2> HIDE DEF OnStack, d
  <2> QED
    BY <1>1, <1>4, <1>5
<1> QED
  BY <1>3, <1>6 DEF StackIsExact

LEMMA InvNobodyLeft ==
    ASSUME OneAtATime, NEW cs, NEW act, Inv(cs, act)
    PROVE  NobodyLeftBehind
<1> USE DEF Inv
<1> SUFFICES ASSUME pc[Worker] = "ended"
             PROVE  /\ ~isMainThread /\ queue = <<>> /\ Outstanding = {}
                    /\ \A t \in Foreign : pc[t] = "wait" => semaphore[inv[t]] = 1
  BY DEF NobodyLeftBehind
<1>1. hasToQuit /\ queue = <<>> /\ released /\ ~isMainThread
  BY DEF ReleaseInv
<1>2. Members(cs) = {} /\ Members(queue) = {}
  BY <1>1, Unfold DEF FrameInv
<1>3. Outstanding = {}
  BY <1>2 DEF TaskInv, Outstanding, TypeOK
<1>4. ASSUME NEW t \in Foreign, pc[t] = "wait" PROVE semaphore[inv[t]] = 1
  <2>1. t \in All /\ t # Worker /\ t \in callers
    BY <1>4, Unfold, ConstantsAssumption DEF ThreadInv
  <2>2. ~OnWorker
    BY <2>1, OneCaller
  <2>3. act = <<inv[t]>>
    BY <1>4, <2>1, <2>2 DEF ActInv
  <2>4. inv[t] \in Members(act) /\ inv[t] \in Invocations
    <3>1. act # <<>> /\ Newest(act) = inv[t]
      BY <2>3 DEF Newest
    <3> QED
      BY <3>1, Unfold
  <2>5. phase[inv[t]] = "answered"
    BY <1>1, <2>4 DEF ReleaseInv, PhaseInv
  <2> QED
    BY <1>2, <2>4, <2>5 DEF TaskInv
<1> QED
  BY <1>1, <1>3, <1>4
-------------------------------------------------------------------------------
(***************************************************************************)
(* Theorems.                                                               *)
(***************************************************************************)
\* The state keeps its type; in particular nestedRuns counts the runs and stays
\* within the callbacks there are, and no task is queued twice.
THEOREM TypeCorrect == ASSUME OneAtATime PROVE Spec => []TypeOK
<1>1. IInv => TypeOK
  BY DEF IInv, Inv
<1> QED
  BY <1>1, Inductive, PTL DEF Spec

\* However deep callbacks nest, and whichever thread calls back, a callback
\* returns to its C caller only after the image has returned it.
THEOREM CallbacksReturnInOrder == ASSUME OneAtATime PROVE Spec => []ReturnsInOrder
<1>1. IInv => ReturnsInOrder
  BY DEF IInv, Inv, PhaseInv, ReturnsInOrder
<1> QED
  BY <1>1, Inductive, PTL DEF Spec

\* From runner->callbackStack one reaches, following previous, exactly the
\* callbacks that wait for the image.
THEOREM CallbackStackIsExact == ASSUME OneAtATime PROVE Spec => []StackIsExact
<1>1. IInv => StackIsExact
  BY InvStack DEF IInv
<1> QED
  BY <1>1, Inductive, PTL DEF Spec

\* A worker's thread ends with no task in its queue, no callout unanswered and no
\* thread waiting for it.
THEOREM NobodyIsLeftBehind == ASSUME OneAtATime PROVE Spec => []NobodyLeftBehind
<1>1. IInv => NobodyLeftBehind
  BY InvNobodyLeft DEF IInv
<1> QED
  BY <1>1, Inductive, PTL DEF Spec
=============================================================================
