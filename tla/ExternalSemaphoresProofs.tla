----------------------- MODULE ExternalSemaphoresProofs -----------------------
(***************************************************************************)
(* Proofs about ExternalSemaphores, for every number of threads, signals,  *)
(* table entries and calls, and every depth of handler nesting.            *)
(***************************************************************************)
EXTENDS ExternalSemaphores, TLAPS

VMPCs == {"vmBlock", "vmWait", "vmToggle", "vmRelease", "vmScan", "vmRespond"}
SignallerPCs ==
    {"block", "wait", "count", "tide", "check", "force", "release", "interruptPoll"}

\* An activation that signals knows a table entry.
IdxInv == \A a \in Activations : pc[a] \in SignallerPCs => idx[a] \in Index

\* Only the VM thread's own code is ever inside doSignalExternalSemaphores.
VMInv == \A a \in Activations : pc[a] \in VMPCs => a = VM

\* A response is only added to the entry being scanned.
ScanInv == pc[VM] = "vmRespond" => cur <= last

TypeInv == TypeOK /\ IdxInv /\ VMInv /\ ScanInv

\* What the assumption on the constants says of entries and activations.
LEMMA ConstantFacts ==
    /\ VM \in Activations
    /\ \A t \in Threads, l \in Levels : <<t, l>> \in Activations
    /\ \A a \in Activations : a = <<a[1], a[2]>> /\ a[1] \in Threads /\ a[2] \in Levels
    /\ \A i \in Index : i \in Nat /\ i < MaxTide /\ i > MinTide
<1>1. 0 \in Levels
  BY ConstantsAssumption DEF Levels
<1>2. VM \in Activations
  BY <1>1, ConstantsAssumption DEF VM, Activations
<1>3. \A t \in Threads, l \in Levels : <<t, l>> \in Activations
  BY DEF Activations
<1>4. \A a \in Activations : a = <<a[1], a[2]>> /\ a[1] \in Threads /\ a[2] \in Levels
  BY DEF Activations
<1>5. \A i \in Index : i \in Nat /\ i < MaxTide /\ i > MinTide
  BY ConstantsAssumption DEF Index, MinTide
<1> QED
  BY <1>2, <1>3, <1>4, <1>5

\* The level above the one at which a thread runs, where a handler starts.
LEMMA NextLevel ==
    ASSUME TypeOK, NEW t \in Threads, depth[t] < MaxNesting
    PROVE  /\ depth[t] \in Nat
           /\ <<t, depth[t] + 1>> \in Activations
           /\ <<t, depth[t] + 1>> # VM
<1>1. depth[t] \in Levels
  BY DEF TypeOK
<1>2. depth[t] \in Nat /\ depth[t] + 1 \in Levels
  BY <1>1, ConstantsAssumption DEF Levels
<1> QED
  BY <1>2, ConstantFacts DEF VM

\* The marks that delimit the tides and the scan are integers.
LEMMA MarksAreIntegers ==
    ASSUME TypeOK
    PROVE  /\ useTideA \in BOOLEAN
           /\ \A b \in BOOLEAN : low[b] \in Int /\ high[b] \in Int
           /\ cur \in Int /\ last \in Int
<1>1. MaxTide \in Int /\ MinTide \in Int /\ Index \subseteq Int
  BY ConstantsAssumption DEF Index, MinTide
<1>2. \A b \in BOOLEAN : low[b] \in Int /\ high[b] \in Int
  BY <1>1 DEF TypeOK
<1>3. cur \in Int
  BY <1>1, ConstantsAssumption DEF TypeOK
<1> QED
  BY <1>1, <1>2, <1>3 DEF TypeOK

\* The type invariant, and what it needs to be inductive, holds at first.
LEMMA TypeInit == Init => TypeInv
<1> SUFFICES ASSUME Init PROVE TypeInv
  OBVIOUS
<1> USE ConstantsAssumption, ConstantFacts DEF Init
<1>1. TypeOK
  <2>1. 0 \in Nat /\ 0 \in Levels /\ "idle" \in PCs
    BY DEF PCs, Levels
  <2>2. 0 \in 0 .. MaxCalls /\ 0 \in 0 .. NumSignalRequests
    OBVIOUS
  <2>3. InitialTableSize \in InitialTableSize .. NumSignalRequests
    OBVIOUS
  <2> QED
    BY <2>1, <2>2, <2>3 DEF TypeOK
<1>2. IdxInv /\ VMInv /\ ScanInv
  BY DEF IdxInv, VMInv, ScanInv, SignallerPCs, VMPCs
<1> QED
  BY <1>1, <1>2 DEF TypeInv

\* A scan that has not passed its last entry is at an entry of the table.
LEMMA CursorInTable == TypeInv /\ cur <= last => cur \in Index
<1> SUFFICES ASSUME TypeInv, cur <= last PROVE cur \in Index
  OBVIOUS
<1>1. cur \in 0 .. NumSignalRequests \cup {MaxTide} /\ last \in Index \cup {MinTide}
  BY DEF TypeInv, TypeOK
<1>2. last \in Index
  <2>1. cur \in Nat
    BY <1>1, ConstantsAssumption
  <2> QED
    BY <1>1, <2>1 DEF MinTide
<1>3. cur # MaxTide
  <2>1. last \in Nat /\ last < MaxTide /\ MaxTide \in Nat
    BY <1>2, ConstantFacts, ConstantsAssumption
  <2> QED
    BY <2>1
<1> QED
  BY <1>1, <1>2, <1>3, ConstantsAssumption DEF Index

\* The entry the VM answers is the one it scans.
LEMMA AnswerInTable == TypeInv /\ pc[VM] = "vmRespond" => cur \in Index
BY CursorInTable DEF TypeInv, ScanInv

\* Every action keeps the type invariant.
LEMMA TypeStep == TypeInv /\ [Next]_vars => TypeInv'
<1> SUFFICES ASSUME TypeInv, [Next]_vars PROVE TypeInv'
  OBVIOUS
<1> USE ConstantsAssumption, ConstantFacts
    DEF TypeInv, TypeOK, IdxInv, VMInv, ScanInv, SignallerPCs, VMPCs, PCs, Masked,
        Holding, Goto, Running, force
<1>1. ASSUME NEW t \in Threads, NEW index \in 0 .. NumSignalRequests + 1, Call(t, index)
      PROVE  TypeInv'
  BY <1>1 DEF Call, table, tides, scan, context, VM, Levels
<1>2. ASSUME NEW t \in Threads, NEW s \in Signals, NEW i \in Index, Interrupt(t, s, i)
      PROVE  TypeInv'
  BY <1>2 DEF Interrupt, table, tides, scan, VM, Levels
<1>3. ASSUME NEW t \in Threads, HandlerReturn(t)
      PROVE  TypeInv'
  BY <1>3 DEF HandlerReturn, table, tides, scan, Levels
<1>4. ASSUME NEW a \in Activations, SignallerStep(a) \/ TakeMutex(a)
      PROVE  TypeInv'
  <2>1. CASE Block(a)
    BY <2>1 DEF Block, BlockSignals, table, tides, scan
  <2>2. CASE TakeMutex(a)
    BY <2>2 DEF TakeMutex, table, tides, scan, context
  <2>3. CASE CountRequest(a)
    BY <2>3 DEF CountRequest, tides, scan, context
  <2>4. CASE RaiseTide(a)
    BY <2>4 DEF RaiseTide, table, scan, context
  <2>5. CASE SetCheck(a)
    BY <2>5 DEF SetCheck, table, tides, scan, context
  <2>6. CASE ForceCheck(a)
    BY <2>6 DEF ForceCheck, table, tides, scan, context
  <2>7. CASE ReleaseMutex(a)
    BY <2>7 DEF ReleaseMutex, table, tides, scan, context
  <2>8. CASE InterruptPoll(a)
    BY <2>8 DEF InterruptPoll, table, tides, scan, context
  <2>9. CASE RestoreMask(a)
    BY <2>9 DEF RestoreMask, table, tides, scan
  <2> QED
    BY <1>4, <2>1, <2>2, <2>3, <2>4, <2>5, <2>6, <2>7, <2>8, <2>9 DEF SignallerStep
<1>5. CASE VMEnter \/ VMRefuse
  <2>1. CASE VMEnter
    BY <2>1 DEF VMEnter, table, tides, scan, context
  <2>2. CASE VMRefuse
    BY <2>2 DEF VMRefuse, table, tides, scan, context
  <2> QED
    BY <1>5, <2>1, <2>2
<1>6. CASE VMTakeMutex
  BY <1>6 DEF VMTakeMutex, table, tides, scan, context
<1>7. CASE VMStep
  <2>1. CASE VMBlock
    BY <2>1 DEF VMBlock, BlockSignals, table, tides, scan, VM
  <2>2. CASE VMNothingToDo
    BY <2>2 DEF VMNothingToDo, table, tides, scan, context
  <2>3. CASE VMToggle
    <3>1. low[useTideA] \in 0 .. NumSignalRequests \cup {MaxTide}
      BY DEF Index
    <3> QED
      BY <2>3, <3>1 DEF VMToggle, table, context
  <2>4. CASE VMRelease
    <3>1. last' \in Index \cup {MinTide}
      BY <2>4 DEF VMRelease, Index, MinTide
    <3> QED
      BY <2>4, <3>1 DEF VMRelease, table, tides, context
  <2>5. CASE VMSkip
    <3>1. cur \in Index
      BY <2>5, CursorInTable DEF VMSkip
    <3>2. cur + 1 \in 0 .. NumSignalRequests
      BY <3>1 DEF Index
    <3> QED
      BY <2>5, <3>2 DEF VMSkip, table, tides, context
  <2>6. CASE VMSignal
    <3>1. cur \in Index
      BY <2>6, CursorInTable DEF VMSignal
    <3> QED
      BY <2>6, <3>1 DEF VMSignal, tides, scan, context
  <2>7. CASE VMRespond
    <3>1. cur \in Index
      BY <2>7, AnswerInTable DEF VMRespond, Goto
    <3> QED
      BY <2>7, <3>1 DEF VMRespond, tides, scan, context
  <2>8. CASE VMScanned
    BY <2>8 DEF VMScanned, table, tides, context
  <2> QED
    BY <1>7, <2>1, <2>2, <2>3, <2>4, <2>5, <2>6, <2>7, <2>8 DEF VMStep
<1>8. CASE HeartbeatForce
  BY <1>8 DEF HeartbeatForce, table, tides, scan, context
<1>9. ASSUME NEW n \in 0 .. NumSignalRequests, GrowTable(n)
      PROVE  TypeInv'
  BY <1>9 DEF GrowTable, table, tides, scan, context
<1>10. CASE UNCHANGED vars
  BY <1>10 DEF vars, table, tides, scan, context
<1> QED
  BY <1>1, <1>2, <1>3, <1>4, <1>5, <1>6, <1>7, <1>8, <1>9, <1>10 DEF Next

-------------------------------------------------------------------------------
(***************************************************************************)
(* requestMutex excludes, and asynchronous signals stay blocked on a       *)
(* thread from before it waits for the mutex until after it is done.       *)
(***************************************************************************)
MutexInv ==
    /\ mutex = 1 => \A a \in Activations : pc[a] \notin Holding
    /\ \A a, b \in Activations : pc[a] \in Holding /\ pc[b] \in Holding => a = b

MaskInv == \A a \in Activations : pc[a] \in Masked => mask[a[1]] = Signals /\ Running(a)

LockInv == MutexInv /\ MaskInv

\* At first nobody holds requestMutex.
LEMMA LockInit == Init => LockInv
BY DEF Init, LockInv, MutexInv, MaskInv, Masked, Holding

\* Every action keeps requestMutex exclusive, and its holder masked.
LEMMA LockStep == TypeInv /\ LockInv /\ [Next]_vars => LockInv'
<1> SUFFICES ASSUME TypeInv, LockInv, [Next]_vars PROVE LockInv'
  OBVIOUS
<1> USE ConstantFacts DEF TypeInv, TypeOK, LockInv, MutexInv, MaskInv, Masked, Holding,
                          Goto, Running
<1>1. ASSUME NEW t \in Threads, NEW index \in 0 .. NumSignalRequests + 1, Call(t, index)
      PROVE  LockInv'
  BY <1>1 DEF Call, context
<1>2. ASSUME NEW t \in Threads, NEW s \in Signals, NEW i \in Index, Interrupt(t, s, i)
      PROVE  LockInv'
  <2>1. <<t, depth[t] + 1>> \in Activations
    BY <1>2, NextLevel DEF TypeInv, Interrupt
  <2>2. \A a \in Activations : a[1] = t => pc[a] \notin Masked
    BY <1>2 DEF Interrupt
  <2> QED
    BY <1>2, <2>1, <2>2 DEF Interrupt
<1>3. ASSUME NEW t \in Threads, HandlerReturn(t)
      PROVE  LockInv'
  <2>1. \A a \in Activations : a[1] = t => pc[a] \notin Masked
    BY <1>3 DEF HandlerReturn
  <2> QED
    BY <1>3, <2>1 DEF HandlerReturn
<1>4. ASSUME NEW a \in Activations, SignallerStep(a) \/ TakeMutex(a)
      PROVE  LockInv'
  <2>1. CASE Block(a)
    BY <2>1 DEF Block, BlockSignals
  <2>2. CASE TakeMutex(a)
    BY <2>2 DEF TakeMutex, context
  <2>3. CASE CountRequest(a) \/ RaiseTide(a) \/ SetCheck(a) \/ ForceCheck(a)
    <3>1. /\ pc[a] \in Holding
          /\ \A b \in Activations : b # a => pc'[b] = pc[b]
      BY <2>3 DEF CountRequest, RaiseTide, SetCheck, ForceCheck
    <3>2. UNCHANGED <<mutex, mask, depth>>
      BY <2>3 DEF CountRequest, RaiseTide, SetCheck, ForceCheck, context
    <3> QED
      BY <3>1, <3>2
  <2>4. CASE ReleaseMutex(a)
    BY <2>4 DEF ReleaseMutex, context
  <2>5. CASE InterruptPoll(a)
    BY <2>5 DEF InterruptPoll, context
  <2>6. CASE RestoreMask(a)
    BY <2>6 DEF RestoreMask
  <2> QED
    BY <1>4, <2>1, <2>2, <2>3, <2>4, <2>5, <2>6 DEF SignallerStep
<1>5. CASE VMEnter \/ VMRefuse
  BY <1>5 DEF VMEnter, VMRefuse, context
<1>6. CASE VMTakeMutex
  BY <1>6 DEF VMTakeMutex, context
<1>7. CASE VMStep
  <2>1. CASE VMBlock
    BY <2>1 DEF VMBlock, BlockSignals
  <2>2. CASE VMNothingToDo
    BY <2>2 DEF VMNothingToDo, context
  <2>3. CASE VMToggle
    BY <2>3 DEF VMToggle, context
  <2>4. CASE VMRelease
    BY <2>4 DEF VMRelease, context
  <2>5. CASE VMSkip \/ VMSignal \/ VMRespond \/ VMScanned
    <3>1. /\ pc[VM] \in Masked /\ pc'[VM] \in Masked \ Holding
          /\ \A b \in Activations : b # VM => pc'[b] = pc[b]
      BY <2>5 DEF VMSkip, VMSignal, VMRespond, VMScanned
    <3>2. UNCHANGED <<mutex, mask, depth>>
      BY <2>5 DEF VMSkip, VMSignal, VMRespond, VMScanned, context
    <3> QED
      BY <3>1, <3>2
  <2> QED
    BY <1>7, <2>1, <2>2, <2>3, <2>4, <2>5 DEF VMStep
<1>8. CASE HeartbeatForce
  BY <1>8 DEF HeartbeatForce, context
<1>9. ASSUME NEW n \in 0 .. NumSignalRequests, GrowTable(n)
      PROVE  LockInv'
  BY <1>9 DEF GrowTable, context
<1>10. CASE UNCHANGED vars
  BY <1>10 DEF vars, context
<1> QED
  BY <1>1, <1>2, <1>3, <1>4, <1>5, <1>6, <1>7, <1>8, <1>9, <1>10 DEF Next

-------------------------------------------------------------------------------
(***************************************************************************)
(* Handlers do not nest: what handler l blocks stays blocked for as long   *)
(* as it runs.  The mask in force blocks it, so does every mask that is    *)
(* going to be put back: those the kernel keeps for the handlers above it  *)
(* and those the activations above it have saved.                          *)
(***************************************************************************)
Blocks(t, l) == handled[<<t, l>>] \ NoDefer
Handlers(t) == {l \in Levels : 0 < l /\ l <= depth[t]}

MaskKeeps  == \A t \in Threads : \A l \in Handlers(t) : Blocks(t, l) \subseteq mask[t]
EntryKeeps == \A t \in Threads : \A l, m \in Handlers(t) :
                  l < m => Blocks(t, l) \subseteq entry[<<t, m>>]
SavedKeeps == \A t \in Threads : \A l, m \in Handlers(t) :
                  l <= m /\ pc[<<t, m>>] \in Masked => Blocks(t, l) \subseteq saved[<<t, m>>]

NestInv == MaskKeeps /\ EntryKeeps /\ SavedKeeps /\ NoReentry

\* At first no handler runs.
LEMMA NestInit == Init => NestInv
BY DEF Init, NestInv, MaskKeeps, EntryKeeps, SavedKeeps, NoReentry, Handlers, Levels

\* A new handler blocks its own signal, and could only start because the
\* handlers below it do not block that signal.
LEMMA InterruptNests ==
    ASSUME TypeInv, LockInv, NestInv, NEW t \in Threads, NEW s \in Signals, NEW i \in Index,
           Interrupt(t, s, i)
    PROVE  NestInv'
<1>0. PICK d \in Levels : d = depth[t] + 1
  BY ConstantsAssumption DEF Interrupt, Levels, TypeInv, TypeOK
<1>1. 0 < d /\ depth[t] \in Nat /\ depth[t] < d
  BY <1>0 DEF Levels, TypeInv, TypeOK
<1>2. \A u \in Threads, l \in Levels : <<u, l>> \in Activations
  BY ConstantFacts
<1>3. /\ \A u \in Threads : depth'[u] = IF u = t THEN d ELSE depth[u]
      /\ \A u \in Threads : mask'[u] = IF u = t THEN mask[t] \cup ({s} \ NoDefer) ELSE mask[u]
      /\ s \notin mask[t] /\ saved' = saved
  BY <1>0 DEF Interrupt, TypeInv, TypeOK
<1>4. \A u \in Threads, l \in Levels :
        /\ entry'[<<u, l>>] = IF u = t /\ l = d THEN mask[t] ELSE entry[<<u, l>>]
        /\ handled'[<<u, l>>] = IF u = t /\ l = d THEN {s} ELSE handled[<<u, l>>]
        /\ pc'[<<u, l>>] = IF u = t /\ l = d THEN "block" ELSE pc[<<u, l>>]
  BY <1>0, <1>2 DEF Interrupt, TypeInv, TypeOK
<1>5. \A u \in Threads : \A l \in Handlers(u)' :
        l \in Levels /\ (l \in Handlers(u) \/ (u = t /\ l = d))
  <2> SUFFICES ASSUME NEW u \in Threads, NEW l \in Handlers(u)'
               PROVE  l \in Levels /\ (l \in Handlers(u) \/ (u = t /\ l = d))
    OBVIOUS
  <2>1. l \in Levels /\ 0 < l /\ l <= depth'[u]
    BY DEF Handlers, Levels
  <2>2. CASE u = t
    BY <1>0, <1>1, <1>3, <2>1, <2>2 DEF Handlers, Levels
  <2>3. CASE u # t
    BY <1>3, <2>1, <2>3 DEF Handlers
  <2> QED
    BY <2>2, <2>3
<1>6. \A u \in Threads : \A l \in Handlers(u) : l \in Levels /\ (u = t => l < d /\ l # d)
  BY <1>1 DEF Handlers, Levels
<1>7. /\ \A u \in Threads : \A l \in Handlers(u) : Blocks(u, l)' = Blocks(u, l)
      /\ Blocks(t, d)' = {s} \ NoDefer
  BY <1>1, <1>4, <1>6 DEF Blocks
<1>8. MaskKeeps'
  <2> SUFFICES ASSUME NEW u \in Threads, NEW l \in Handlers(u)'
               PROVE  Blocks(u, l)' \subseteq mask'[u]
    BY DEF MaskKeeps
  <2>1. CASE u = t /\ l = d
    BY <1>3, <1>7, <2>1
  <2>2. CASE l \in Handlers(u)
    BY <1>3, <1>7, <2>2 DEF NestInv, MaskKeeps
  <2> QED
    BY <1>5, <2>1, <2>2
<1>9. EntryKeeps'
  <2> SUFFICES ASSUME NEW u \in Threads, NEW l \in Handlers(u)', NEW m \in Handlers(u)', l < m
               PROVE  Blocks(u, l)' \subseteq entry'[<<u, m>>]
    BY DEF EntryKeeps
  <2>1. l \in Levels /\ m \in Levels /\ ~ (m < l)
    BY <1>5 DEF Levels
  <2>2. CASE u = t /\ m = d
    <3>1. l \in Handlers(t)
      BY <1>1, <1>5, <2>1, <2>2 DEF Levels
    <3> QED
      BY <1>4, <1>7, <2>1, <2>2, <3>1 DEF NestInv, MaskKeeps
  <2>3. CASE ~ (u = t /\ m = d)
    <3>1. m \in Handlers(u) /\ l \in Handlers(u)
      BY <1>5, <1>6, <2>1, <2>3
    <3> QED
      BY <1>4, <1>7, <2>1, <2>3, <3>1 DEF NestInv, EntryKeeps
  <2> QED
    BY <2>2, <2>3
<1>10. SavedKeeps'
  <2> SUFFICES ASSUME NEW u \in Threads, NEW l \in Handlers(u)', NEW m \in Handlers(u)',
                      l <= m, pc'[<<u, m>>] \in Masked
               PROVE  Blocks(u, l)' \subseteq saved'[<<u, m>>]
    BY DEF SavedKeeps
  <2>1. l \in Levels /\ m \in Levels /\ ~ (m < l)
    BY <1>5 DEF Levels
  <2>2. ~ (u = t /\ m = d)
    BY <1>4, <2>1 DEF Masked, Holding
  <2>3. m \in Handlers(u) /\ l \in Handlers(u)
    BY <1>5, <1>6, <2>1, <2>2
  <2> QED
    BY <1>3, <1>4, <1>7, <2>1, <2>2, <2>3 DEF NestInv, SavedKeeps
<1>11. NoReentry'
  <2> SUFFICES ASSUME NEW u \in Threads, NEW l \in Levels, NEW m \in Levels,
                      0 < l, l < m, m <= depth'[u]
               PROVE  handled'[<<u, l>>] \cap handled'[<<u, m>>] \subseteq NoDefer
    BY DEF NoReentry
  <2>1. m \in Handlers(u)' /\ l \in Handlers(u)' /\ ~ (m < l)
    BY <1>1, <1>3 DEF Handlers, Levels, TypeInv, TypeOK
  <2>2. CASE u = t /\ m = d
    <3>1. l \in Handlers(t) /\ l # d
      BY <1>5, <2>1, <2>2 DEF Levels
    <3>2. Blocks(t, l) \subseteq mask[t]
      BY <3>1 DEF NestInv, MaskKeeps
    <3> QED
      BY <1>3, <1>4, <2>2, <3>1, <3>2 DEF Blocks
  <2>3. CASE ~ (u = t /\ m = d)
    <3>1. m \in Handlers(u) /\ l \in Handlers(u)
      BY <1>5, <1>6, <2>1, <2>3
    <3>2. ~ (u = t /\ l = d)
      BY <1>6, <3>1
    <3>3. handled[<<u, l>>] \cap handled[<<u, m>>] \subseteq NoDefer
      BY <3>1 DEF NestInv, NoReentry, Handlers
    <3> QED
      BY <1>4, <2>3, <3>2, <3>3
  <2> QED
    BY <2>2, <2>3
<1> QED
  BY <1>8, <1>9, <1>10, <1>11 DEF NestInv

\* A handler that returns puts back the mask that was in force before it.
LEMMA HandlerReturnNests ==
    ASSUME TypeInv, LockInv, NestInv, NEW t \in Threads, HandlerReturn(t)
    PROVE  NestInv'
<1>0. PICK d \in Levels : d = depth[t]
  BY DEF TypeInv, TypeOK
<1>1. 0 < d /\ d \in Nat /\ d - 1 \in Nat
  BY <1>0 DEF HandlerReturn, Levels
<1>2. \A u \in Threads, l \in Levels : <<u, l>> \in Activations
  BY ConstantFacts
<1>3. /\ \A u \in Threads : depth'[u] = IF u = t THEN d - 1 ELSE depth[u]
      /\ \A u \in Threads : mask'[u] = IF u = t THEN entry[<<t, d>>] ELSE mask[u]
      /\ saved' = saved /\ pc' = pc
  BY <1>0 DEF HandlerReturn, TypeInv, TypeOK
<1>4. \A u \in Threads, l \in Levels :
        /\ entry'[<<u, l>>] = IF u = t /\ l = d THEN {} ELSE entry[<<u, l>>]
        /\ handled'[<<u, l>>] = IF u = t /\ l = d THEN {} ELSE handled[<<u, l>>]
  BY <1>0, <1>2 DEF HandlerReturn, TypeInv, TypeOK
<1>5. \A u \in Threads : \A l \in Handlers(u)' :
        l \in Levels /\ l \in Handlers(u) /\ (u = t => l < d /\ l # d)
  <2> SUFFICES ASSUME NEW u \in Threads, NEW l \in Handlers(u)'
               PROVE  l \in Levels /\ l \in Handlers(u) /\ (u = t => l < d /\ l # d)
    OBVIOUS
  <2>1. l \in Levels /\ 0 < l /\ l <= depth'[u]
    BY DEF Handlers, Levels
  <2>2. CASE u = t
    BY <1>0, <1>1, <1>3, <2>1, <2>2 DEF Handlers, Levels
  <2>3. CASE u # t
    BY <1>3, <2>1, <2>3 DEF Handlers
  <2> QED
    BY <2>2, <2>3
<1>6. \A u \in Threads : \A l \in Handlers(u)' : Blocks(u, l)' = Blocks(u, l)
  BY <1>4, <1>5 DEF Blocks
<1>7. MaskKeeps'
  <2> SUFFICES ASSUME NEW u \in Threads, NEW l \in Handlers(u)'
               PROVE  Blocks(u, l)' \subseteq mask'[u]
    BY DEF MaskKeeps
  <2>1. CASE u = t
    <3>1. d \in Handlers(t)
      BY <1>0, <1>1 DEF Handlers
    <3> QED
      BY <1>3, <1>5, <1>6, <2>1, <3>1 DEF NestInv, EntryKeeps
  <2>2. CASE u # t
    BY <1>3, <1>5, <1>6, <2>2 DEF NestInv, MaskKeeps
  <2> QED
    BY <2>1, <2>2
<1>8. EntryKeeps'
  <2> SUFFICES ASSUME NEW u \in Threads, NEW l \in Handlers(u)', NEW m \in Handlers(u)', l < m
               PROVE  Blocks(u, l)' \subseteq entry'[<<u, m>>]
    BY DEF EntryKeeps
  <2>1. Blocks(u, l) \subseteq entry[<<u, m>>]
    BY <1>5 DEF NestInv, EntryKeeps
  <2>2. entry'[<<u, m>>] = entry[<<u, m>>] /\ Blocks(u, l)' = Blocks(u, l)
    BY <1>4, <1>5, <1>6
  <2> QED
    BY <2>1, <2>2
<1>9. SavedKeeps'
  BY <1>3, <1>5, <1>6 DEF NestInv, SavedKeeps
<1>10. NoReentry'
  <2> SUFFICES ASSUME NEW u \in Threads, NEW l \in Levels, NEW m \in Levels,
                      0 < l, l < m, m <= depth'[u]
               PROVE  handled'[<<u, l>>] \cap handled'[<<u, m>>] \subseteq NoDefer
    BY DEF NoReentry
  <2>1. m \in Handlers(u)' /\ l \in Handlers(u)'
    BY <1>1, <1>3 DEF Handlers, Levels, TypeInv, TypeOK
  <2>2. handled[<<u, l>>] \cap handled[<<u, m>>] \subseteq NoDefer
    BY <1>5, <2>1 DEF NestInv, NoReentry, Handlers
  <2> QED
    BY <1>4, <1>5, <2>1, <2>2
<1> QED
  BY <1>7, <1>8, <1>9, <1>10 DEF NestInv

\* pthread_sigmask only ever changes the mask of the running activation.
LEMMA SigmaskNests ==
    ASSUME TypeInv, NestInv, NEW a \in Activations, Running(a),
           UNCHANGED <<depth, entry, handled>>,
           \A b \in Activations : b # a => saved'[b] = saved[b] /\ (pc'[b] \in Masked => pc[b] \in Masked),
           \A t \in Threads : t # a[1] => mask'[t] = mask[t],
           \A l \in Handlers(a[1]) : Blocks(a[1], l) \subseteq mask'[a[1]],
           pc'[a] \in Masked => \A l \in Handlers(a[1]) : Blocks(a[1], l) \subseteq saved'[a]
    PROVE  NestInv'
<1>1. \A t \in Threads : \A l \in Handlers(t)' :
        l \in Handlers(t) /\ l \in Levels /\ Blocks(t, l)' = Blocks(t, l)
  BY DEF Handlers, Blocks
<1>2. \A t \in Threads : \A l \in Levels : <<t, l>> \in Activations
  BY ConstantFacts
<1>3. MaskKeeps'
  <2> SUFFICES ASSUME NEW t \in Threads, NEW l \in Handlers(t)'
               PROVE  Blocks(t, l)' \subseteq mask'[t]
    BY DEF MaskKeeps
  <2>1. Blocks(t, l)' = Blocks(t, l) /\ Blocks(t, l) \subseteq mask[t] /\ l \in Handlers(t)
    BY <1>1 DEF NestInv, MaskKeeps
  <2> QED
    BY <2>1
<1>4. EntryKeeps'
  <2> SUFFICES ASSUME NEW t \in Threads, NEW l \in Handlers(t)', NEW m \in Handlers(t)', l < m
               PROVE  Blocks(t, l)' \subseteq entry'[<<t, m>>]
    BY DEF EntryKeeps
  <2>1. Blocks(t, l)' = Blocks(t, l) /\ Blocks(t, l) \subseteq entry[<<t, m>>]
    BY <1>1 DEF NestInv, EntryKeeps
  <2> QED
    BY <2>1
<1>5. SavedKeeps'
  <2> SUFFICES ASSUME NEW t \in Threads, NEW l \in Handlers(t)', NEW m \in Handlers(t)',
                      l <= m, pc'[<<t, m>>] \in Masked
               PROVE  Blocks(t, l)' \subseteq saved'[<<t, m>>]
    BY DEF SavedKeeps
  <2>1. /\ Blocks(t, l)' = Blocks(t, l) /\ l \in Handlers(t) /\ m \in Handlers(t)
        /\ <<t, m>> \in Activations
    BY <1>1, <1>2
  <2>2. CASE <<t, m>> = a
    <3>1. a[1] = t
      BY <2>2
    <3> QED
      BY <2>1, <2>2, <3>1
  <2>3. CASE <<t, m>> # a
    <3>1. saved'[<<t, m>>] = saved[<<t, m>>] /\ pc[<<t, m>>] \in Masked
      BY <2>1, <2>3
    <3> QED
      BY <2>1, <3>1 DEF NestInv, SavedKeeps
  <2> QED
    BY <2>2, <2>3
<1>6. NoReentry'
  BY DEF NestInv, NoReentry
<1> QED
  BY <1>3, <1>4, <1>5, <1>6 DEF NestInv

\* Every step but those of masks and handlers: nobody becomes masked.
LEMMA OthersNest ==
    ASSUME NestInv, UNCHANGED context,
           \A a \in Activations : pc'[a] \in Masked => pc[a] \in Masked
    PROVE  NestInv'
BY ConstantFacts
   DEF NestInv, MaskKeeps, EntryKeeps, SavedKeeps, NoReentry, Handlers, Blocks, context

\* What the running activation of a thread must respect is every handler.
LEMMA RunningIsDeepest ==
    ASSUME TypeInv, NEW a \in Activations, Running(a), NEW l \in Handlers(a[1])
    PROVE  /\ l \in Levels /\ l <= a[2] /\ a[2] \in Handlers(a[1]) /\ a = <<a[1], a[2]>>
           /\ Blocks(a[1], l) \subseteq Signals
<1>1. a[1] \in Threads /\ a[2] \in Levels /\ a = <<a[1], a[2]>> /\ <<a[1], l>> \in Activations
  BY ConstantFacts DEF Handlers
<1>2. l \in Levels /\ 0 < l /\ l <= a[2] /\ a[2] = depth[a[1]]
  BY DEF Running, Handlers
<1>3. 0 < a[2]
  BY <1>1, <1>2, ConstantsAssumption DEF Levels
<1> QED
  BY <1>1, <1>2, <1>3 DEF Handlers, Levels, Blocks, TypeInv, TypeOK

\* blockAsynchronousSignals: everything is blocked, and what was is saved.
LEMMA BlockNests ==
    ASSUME TypeInv, NestInv, NEW a \in Activations, NEW from, NEW to, Goto(a, from, to),
           BlockSignals(a)
    PROVE  NestInv'
<1>1. \A l \in Handlers(a[1]) : Blocks(a[1], l) \subseteq Signals /\ Blocks(a[1], l) \subseteq mask[a[1]]
  BY RunningIsDeepest, ConstantFacts DEF Goto, NestInv, MaskKeeps
<1>2. /\ mask'[a[1]] = Signals /\ \A t \in Threads : t # a[1] => mask'[t] = mask[t]
      /\ saved'[a] = mask[a[1]]
      /\ \A b \in Activations : b # a => saved'[b] = saved[b] /\ pc'[b] = pc[b]
      /\ UNCHANGED <<depth, entry, handled>>
  BY ConstantFacts DEF BlockSignals, Goto, TypeInv, TypeOK
<1> QED
  BY <1>1, <1>2, SigmaskNests DEF Goto

\* restoreSignalMask puts back what was saved, which blocks as much.
LEMMA RestoreNests ==
    ASSUME TypeInv, NestInv, NEW a \in Activations, RestoreMask(a) PROVE NestInv'
<1>1. \A l \in Handlers(a[1]) : Blocks(a[1], l) \subseteq saved[a]
  <2> SUFFICES ASSUME NEW l \in Handlers(a[1]) PROVE Blocks(a[1], l) \subseteq saved[a]
    OBVIOUS
  <2>1. pc[a] \in Masked /\ a[1] \in Threads
    BY ConstantFacts DEF RestoreMask, Goto, Masked
  <2>2. l <= a[2] /\ a[2] \in Handlers(a[1]) /\ a = <<a[1], a[2]>>
    BY RunningIsDeepest DEF RestoreMask, Goto
  <2> QED
    BY <2>1, <2>2 DEF NestInv, SavedKeeps
<1>2. /\ mask'[a[1]] = saved[a] /\ \A t \in Threads : t # a[1] => mask'[t] = mask[t]
      /\ pc'[a] \notin Masked
      /\ \A b \in Activations : b # a => saved'[b] = saved[b] /\ pc'[b] = pc[b]
      /\ UNCHANGED <<depth, entry, handled>>
  BY ConstantFacts DEF RestoreMask, Goto, Masked, Holding, TypeInv, TypeOK
<1> QED
  BY <1>1, <1>2, SigmaskNests DEF RestoreMask, Goto

\* No action lets a handler's own signal in.
LEMMA NestStep == TypeInv /\ LockInv /\ NestInv /\ [Next]_vars => NestInv'
<1> SUFFICES ASSUME TypeInv, LockInv, NestInv, [Next]_vars PROVE NestInv'
  OBVIOUS
<1> USE ConstantFacts DEF TypeInv, TypeOK, Goto, Masked, Holding
<1>1. ASSUME NEW t \in Threads, NEW index \in 0 .. NumSignalRequests + 1, Call(t, index)
      PROVE  NestInv'
  BY <1>1, OthersNest DEF Call
<1>2. ASSUME NEW t \in Threads, NEW s \in Signals, NEW i \in Index, Interrupt(t, s, i)
      PROVE  NestInv'
  BY <1>2, InterruptNests
<1>3. ASSUME NEW t \in Threads, HandlerReturn(t)
      PROVE  NestInv'
  BY <1>3, HandlerReturnNests
<1>4. ASSUME NEW a \in Activations, SignallerStep(a) \/ TakeMutex(a)
      PROVE  NestInv'
  <2>1. CASE Block(a)
    BY <2>1, BlockNests DEF Block
  <2>2. CASE RestoreMask(a)
    BY <2>2, RestoreNests
  <2>3. CASE TakeMutex(a) \/ CountRequest(a) \/ RaiseTide(a) \/ SetCheck(a)
    BY <2>3, OthersNest DEF TakeMutex, CountRequest, RaiseTide, SetCheck
  <2>4. CASE ForceCheck(a) \/ ReleaseMutex(a) \/ InterruptPoll(a)
    BY <2>4, OthersNest DEF ForceCheck, ReleaseMutex, InterruptPoll
  <2> QED
    BY <1>4, <2>1, <2>2, <2>3, <2>4 DEF SignallerStep
<1>5. CASE VMEnter \/ VMRefuse \/ VMTakeMutex
  BY <1>5, OthersNest DEF VMEnter, VMRefuse, VMTakeMutex
<1>6. CASE VMStep
  <2>1. CASE VMBlock
    BY <2>1, BlockNests DEF VMBlock
  <2>2. CASE VMNothingToDo \/ VMToggle \/ VMRelease
    BY <2>2, OthersNest DEF VMNothingToDo, VMToggle, VMRelease
  <2>3. CASE VMSkip \/ VMSignal \/ VMRespond \/ VMScanned
    BY <2>3, OthersNest DEF VMSkip, VMSignal, VMRespond, VMScanned
  <2> QED
    BY <1>6, <2>1, <2>2, <2>3 DEF VMStep
<1>7. CASE HeartbeatForce
  BY <1>7, OthersNest DEF HeartbeatForce
<1>8. ASSUME NEW n \in 0 .. NumSignalRequests, GrowTable(n)
      PROVE  NestInv'
  BY <1>8, OthersNest DEF GrowTable
<1>9. CASE UNCHANGED vars
  BY <1>9, OthersNest DEF vars
<1> QED
  BY <1>1, <1>2, <1>3, <1>4, <1>5, <1>6, <1>7, <1>8, <1>9 DEF Next

\* A handler's signal stays blocked on its thread until the handler is over,
\* though signalSemaphoreWithIndex blocks and restores masks in between.
THEOREM HandlersDoNotNest == SafeSpec => []NoReentry
<1>1. Init => TypeInv /\ LockInv /\ NestInv
  BY TypeInit, LockInit, NestInit
<1>2. TypeInv /\ LockInv /\ NestInv /\ [Next]_vars => (TypeInv /\ LockInv /\ NestInv)'
  BY TypeStep, LockStep, NestStep
<1>3. NestInv => NoReentry
  BY DEF NestInv
<1> QED
  BY <1>1, <1>2, <1>3, PTL DEF SafeSpec

-------------------------------------------------------------------------------
(***************************************************************************)
(* No request is lost.  The step that matters is VMToggle: the tide that   *)
(* covered the pending entries becomes the scan.  It needs requestMutex:   *)
(* no signaller is between counting its request and setting the flag.      *)
(***************************************************************************)
LostInv == TypeInv /\ LockInv /\ NoLostRequest

\* At first there is no request to lose.
LEMMA LostInit == Init => NoLostRequest
BY ConstantsAssumption DEF Init, NoLostRequest, Pending, Index

\* Every action leaves each pending request within the reach of an actor.
LEMMA LostStep == LostInv /\ [Next]_vars => NoLostRequest'
<1> SUFFICES ASSUME LostInv, [Next]_vars, NEW i \in 0 .. InitialTableSize - 1, Pending(i)'
             PROVE  (InTide(i) \/ InScan(i) \/ InHand(i))'
  BY DEF NoLostRequest
<1>i. i \in Index /\ i \in Int
  BY ConstantsAssumption DEF Index
<1>h. Pending(i) => InTide(i) \/ InScan(i) \/ InHand(i)
  BY DEF LostInv, NoLostRequest
<1> USE <1>i, ConstantsAssumption, ConstantFacts DEF LostInv, TypeInv, TypeOK, Goto, Pending
<1>1. ASSUME NEW t \in Threads, NEW index \in 0 .. NumSignalRequests + 1, Call(t, index)
      PROVE  (InTide(i) \/ InScan(i) \/ InHand(i))'
  BY <1>1, <1>h DEF Call, table, tides, scan, InTide, InScan, InHand
<1>2. ASSUME NEW t \in Threads, NEW s \in Signals, NEW j \in Index, Interrupt(t, s, j)
      PROVE  (InTide(i) \/ InScan(i) \/ InHand(i))'
  <2>1. <<t, depth[t] + 1>> \in Activations
    BY <1>2, NextLevel DEF TypeInv, Interrupt
  <2>2. pc[<<t, depth[t] + 1>>] \notin Masked
    BY <2>1, <1>2 DEF LockInv, MaskInv, Running, Levels, Interrupt
  <2>3. <<t, depth[t] + 1>> # VM
    BY <1>2, NextLevel DEF Interrupt
  <2> QED
    BY <1>2, <1>h, <2>1, <2>2, <2>3
       DEF Interrupt, table, tides, scan, InTide, InScan, InHand, Masked, Holding
<1>3. ASSUME NEW t \in Threads, HandlerReturn(t)
      PROVE  (InTide(i) \/ InScan(i) \/ InHand(i))'
  BY <1>3, <1>h DEF HandlerReturn, table, tides, scan, InTide, InScan, InHand
<1>4. ASSUME NEW a \in Activations, SignallerStep(a) \/ TakeMutex(a)
      PROVE  (InTide(i) \/ InScan(i) \/ InHand(i))'
  <2>1. CASE Block(a)
    BY <2>1, <1>h DEF Block, table, tides, scan, InTide, InScan, InHand
  <2>2. CASE TakeMutex(a)
    BY <2>2, <1>h DEF TakeMutex, table, tides, scan, InTide, InScan, InHand
  <2>3. CASE CountRequest(a)
    <3>1. CASE idx[a] = i
      BY <2>3, <3>1 DEF CountRequest, InHand
    <3>2. CASE idx[a] # i
      BY <2>3, <3>2, <1>h DEF CountRequest, tides, scan, InTide, InScan, InHand
    <3> QED
      BY <3>1, <3>2
  <2>4. CASE RaiseTide(a)
    <3>1. pc'[a] = "check" /\ idx[a] \in Index
      BY <2>4 DEF RaiseTide, IdxInv, SignallerPCs
    <3>2. CASE InTide(i) \/ idx[a] = i
      <4>1. /\ low[useTideA] <= i \/ idx[a] = i
            /\ high[useTideA] >= i \/ idx[a] = i
        BY <3>2 DEF InTide, Index, MinTide
      <4>2. low'[useTideA'] <= i /\ i <= high'[useTideA']
        <5>1. /\ useTideA' = useTideA
              /\ low'[useTideA] = IF low[useTideA] > idx[a] THEN idx[a] ELSE low[useTideA]
              /\ high'[useTideA] = IF high[useTideA] < idx[a] THEN idx[a] ELSE high[useTideA]
          BY <2>4 DEF RaiseTide
        <5>2. low[useTideA] \in Int /\ high[useTideA] \in Int /\ idx[a] \in Int
          BY <3>1, MarksAreIntegers
        <5> QED
          BY <4>1, <5>1, <5>2
      <4> QED
        BY <3>1, <4>2 DEF InTide
    <3>3. CASE InScan(i)
      BY <2>4, <3>3 DEF RaiseTide, scan, InScan
    <3>4. CASE InHand(i) /\ idx[a] # i
      BY <2>4, <3>4 DEF RaiseTide, InHand
    <3> QED
      BY <2>4, <1>h, <3>2, <3>3, <3>4 DEF RaiseTide, table
  <2>5. CASE SetCheck(a)
    BY <2>5, <1>h DEF SetCheck, table, tides, scan, InTide, InScan, InHand
  <2>6. CASE ForceCheck(a) \/ ReleaseMutex(a) \/ InterruptPoll(a)
    BY <2>6, <1>h DEF ForceCheck, ReleaseMutex, InterruptPoll, table, tides, scan, InTide,
                      InScan, InHand
  <2>7. CASE RestoreMask(a)
    BY <2>7, <1>h DEF RestoreMask, table, tides, scan, InTide, InScan, InHand
  <2> QED
    BY <1>4, <2>1, <2>2, <2>3, <2>4, <2>5, <2>6, <2>7 DEF SignallerStep
<1>5. CASE VMEnter \/ VMRefuse
  BY <1>5, <1>h DEF VMEnter, VMRefuse, table, tides, scan, InTide, InScan, InHand
<1>6. CASE VMTakeMutex
  BY <1>6, <1>h DEF VMTakeMutex, table, tides, scan, InTide, InScan, InHand
<1>7. CASE VMStep
  <2>1. CASE VMBlock
    BY <2>1, <1>h DEF VMBlock, table, tides, scan, InTide, InScan, InHand
  <2>2. CASE VMNothingToDo
    BY <2>2, <1>h DEF VMNothingToDo, table, tides, scan, InTide, InScan, InHand
  <2>3. CASE VMToggle
    <3>1. \A a \in Activations : pc[a] \notin {"tide", "check"}
      BY <2>3 DEF VMToggle, LockInv, MutexInv, Holding
    <3>2. InTide(i)
      BY <2>3, <1>h, <3>1 DEF VMToggle, table, InScan, InHand
    <3> QED
      BY <2>3, <3>2 DEF VMToggle, InTide, InScan
  <2>4. CASE VMRelease
    <3>1. i < tableSize
      BY ConstantsAssumption
    <3> QED
      <4>1. CASE InTide(i) \/ InHand(i)
        BY <2>4, <4>1 DEF VMRelease, tides, InTide, InHand
      <4>2. CASE InScan(i)
        BY <2>4, <3>1, <4>2 DEF VMRelease, InScan, Index, MinTide
      <4> QED
        BY <2>4, <1>h, <4>1, <4>2 DEF VMRelease, table
  <2>5. CASE VMSkip
    <3>1. cur \in Index
      BY <2>5, CursorInTable DEF VMSkip
    <3> QED
      <4>1. InTide(i) \/ InHand(i) \/ (InScan(i) /\ i # cur)
        BY <2>5, <1>h, <3>1 DEF VMSkip, table
      <4>2. CASE InTide(i) \/ InHand(i)
        BY <2>5, <4>2 DEF VMSkip, tides, InTide, InHand
      <4>3. CASE InScan(i) /\ i # cur
        BY <2>5, <3>1, <4>3 DEF VMSkip, InScan, Index
      <4> QED
        BY <4>1, <4>2, <4>3
  <2>6. CASE VMSignal
    BY <2>6, <1>h DEF VMSignal, tides, scan, InTide, InScan, InHand
  <2>7. CASE VMRespond
    <3>1. cur \in Index
      BY <2>7, AnswerInTable DEF VMRespond, Goto
    <3>2. CASE i = cur
      BY <2>7, <3>1, <3>2 DEF VMRespond, ScanInv, scan, InScan
    <3>3. CASE i # cur
      BY <2>7, <1>h, <3>1, <3>3 DEF VMRespond, tides, scan, InTide, InScan, InHand
    <3> QED
      BY <3>2, <3>3
  <2>8. CASE VMScanned
    <3>1. cur \in Int /\ last \in Int
      BY MarksAreIntegers
    <3>2. ~ InScan(i)
      BY ONLY <2>8, <3>1, i \in Int DEF VMScanned, InScan
    <3> QED
      BY <2>8, <1>h, <3>2 DEF VMScanned, table, tides, InTide, InHand
  <2> QED
    BY <1>7, <2>1, <2>2, <2>3, <2>4, <2>5, <2>6, <2>7, <2>8 DEF VMStep
<1>8. CASE HeartbeatForce
  BY <1>8, <1>h DEF HeartbeatForce, table, tides, scan, InTide, InScan, InHand
<1>9. ASSUME NEW n \in 0 .. NumSignalRequests, GrowTable(n)
      PROVE  (InTide(i) \/ InScan(i) \/ InHand(i))'
  BY <1>9, <1>h DEF GrowTable, table, tides, scan, InTide, InScan, InHand
<1>10. CASE UNCHANGED vars
  BY <1>10, <1>h DEF vars, table, tides, scan, InTide, InScan, InHand
<1> QED
  BY <1>1, <1>2, <1>3, <1>4, <1>5, <1>6, <1>7, <1>8, <1>9, <1>10 DEF Next

\* TypeOK holds in every reachable state.
THEOREM TypeCorrect == SafeSpec => []TypeOK
<1>1. TypeInv => TypeOK
  BY DEF TypeInv
<1> QED
  BY TypeInit, TypeStep, <1>1, PTL DEF SafeSpec

\* No activation that a handler interrupted holds requestMutex: no thread
\* waits for itself, and no two activations are in the critical section.
THEOREM SelfDeadlockFree == SafeSpec => []NoSelfDeadlock
<1>1. TypeInv /\ LockInv => NoSelfDeadlock
  BY ConstantFacts, ConstantsAssumption
     DEF TypeInv, TypeOK, LockInv, MaskInv, NoSelfDeadlock, Masked, Running, Levels
<1> QED
  BY TypeInit, TypeStep, LockInit, LockStep, <1>1, PTL DEF SafeSpec

\* In every reachable state each unanswered request for a registered
\* semaphore is one that some actor is committed to reach.
THEOREM NoRequestLost == SafeSpec => []NoLostRequest
<1>1. Init => LostInv
  BY TypeInit, LockInit, LostInit DEF LostInv
<1>2. LostInv /\ [Next]_vars => LostInv'
  BY TypeStep, LockStep, LostStep DEF LostInv
<1>3. LostInv => NoLostRequest
  BY DEF LostInv
<1> QED
  BY <1>1, <1>2, <1>3, PTL DEF SafeSpec

-------------------------------------------------------------------------------
(***************************************************************************)
(* A pending request is announced to the interpreter: checkSignalRequests  *)
(* implies a forced event check, or one under way.  Only a check that may  *)
(* not switch loses the announcement.                                      *)
(***************************************************************************)
\* At first checkSignalRequests is clear.
LEMMA CheckInit == Init => CheckIsSeen
BY DEF Init, CheckIsSeen

\* No action but VMRefuse clears the force while the flag goes unseen.
LEMMA CheckStep == TypeInv /\ LockInv /\ CheckIsSeen /\ [Next]_vars => CheckIsSeen'
<1> SUFFICES ASSUME TypeInv, LockInv, CheckIsSeen, [Next]_vars PROVE CheckIsSeen'
  OBVIOUS
<1> USE ConstantFacts DEF CheckIsSeen, TypeInv, TypeOK, Goto, force
<1>1. ASSUME NEW t \in Threads, NEW index \in 0 .. NumSignalRequests + 1, Call(t, index)
      PROVE  CheckIsSeen'
  BY <1>1 DEF Call
<1>2. ASSUME NEW t \in Threads, NEW s \in Signals, NEW i \in Index, Interrupt(t, s, i)
      PROVE  CheckIsSeen'
  <2>1. <<t, depth[t] + 1>> \in Activations
    BY <1>2, NextLevel DEF TypeInv, Interrupt
  <2>2. pc[<<t, depth[t] + 1>>] \notin Masked
    BY <2>1, <1>2 DEF LockInv, MaskInv, Running, Levels, Interrupt
  <2>3. <<t, depth[t] + 1>> # VM
    BY <1>2, NextLevel DEF Interrupt
  <2> QED
    BY <1>2, <2>1, <2>2, <2>3 DEF Interrupt, Masked, Holding
<1>3. ASSUME NEW t \in Threads, HandlerReturn(t)
      PROVE  CheckIsSeen'
  BY <1>3 DEF HandlerReturn
<1>4. ASSUME NEW a \in Activations, SignallerStep(a) \/ TakeMutex(a)
      PROVE  CheckIsSeen'
  <2>1. CASE Block(a) \/ TakeMutex(a) \/ CountRequest(a) \/ RaiseTide(a)
    BY <2>1 DEF Block, TakeMutex, CountRequest, RaiseTide
  <2>2. CASE SetCheck(a)
    BY <2>2 DEF SetCheck
  <2>3. CASE ForceCheck(a)
    BY <2>3 DEF ForceCheck
  <2>4. CASE ReleaseMutex(a) \/ InterruptPoll(a) \/ RestoreMask(a)
    BY <2>4 DEF ReleaseMutex, InterruptPoll, RestoreMask
  <2> QED
    BY <1>4, <2>1, <2>2, <2>3, <2>4 DEF SignallerStep
<1>5. CASE VMEnter \/ VMRefuse
  BY <1>5 DEF VMEnter, VMRefuse
<1>6. CASE VMTakeMutex
  BY <1>6 DEF VMTakeMutex
<1>7. CASE VMStep
  <2>1. CASE VMBlock
    BY <2>1 DEF VMBlock
  <2>2. CASE VMNothingToDo \/ VMToggle
    BY <2>2 DEF VMNothingToDo, VMToggle
  <2>3. CASE VMRelease \/ VMSkip \/ VMSignal \/ VMRespond \/ VMScanned
    BY <2>3 DEF VMRelease, VMSkip, VMSignal, VMRespond, VMScanned
  <2> QED
    BY <1>7, <2>1, <2>2, <2>3 DEF VMStep
<1>8. CASE HeartbeatForce
  BY <1>8 DEF HeartbeatForce
<1>9. ASSUME NEW n \in 0 .. NumSignalRequests, GrowTable(n)
      PROVE  CheckIsSeen'
  BY <1>9 DEF GrowTable
<1>10. CASE UNCHANGED vars
  BY <1>10 DEF vars
<1> QED
  BY <1>1, <1>2, <1>3, <1>4, <1>5, <1>6, <1>7, <1>8, <1>9, <1>10 DEF Next

\* Whenever checkSignalRequests is set the interpreter has been, or is being,
\* told to look at it, unless VMRefuse dropped the request.
THEOREM FlagIsSeen == SafeSpec => []CheckIsSeen
<1>1. Init => TypeInv /\ LockInv /\ CheckIsSeen
  BY TypeInit, LockInit, CheckInit
<1>2. TypeInv /\ LockInv /\ CheckIsSeen /\ [Next]_vars => (TypeInv /\ LockInv /\ CheckIsSeen)'
  BY TypeStep, LockStep, CheckStep
<1> QED
  BY <1>1, <1>2, PTL DEF SafeSpec

-------------------------------------------------------------------------------
(***************************************************************************)
(* The safety half of ExternalSignals: a signal is only delivered for a    *)
(* request, and each request is delivered at most once.                    *)
(***************************************************************************)
Answering(i) == pc[VM] = "vmRespond" /\ cur = i

AccountInv ==
    \A i \in Index :
        /\ responses[i] <= requests[i]
        /\ Answering(i) => responses[i] < requests[i] /\ delivered[i] = responses[i] + 1
        /\ ~ Answering(i) => delivered[i] = responses[i]

\* At first requests, responses and deliveries are all zero.
LEMMA AccountInit == Init => AccountInv
BY ConstantFacts DEF Init, AccountInv, Answering

\* Interrupt does not move the VM thread's own code: it runs at level 0.
LEMMA InterruptKeepsVM ==
    ASSUME TypeInv, NEW t \in Threads, NEW s \in Signals, NEW i \in Index,
           Interrupt(t, s, i)
    PROVE  pc'[VM] = pc[VM]
<1>1. <<t, depth[t] + 1>> # VM
  BY ConstantsAssumption DEF VM, Levels, TypeInv, TypeOK
<1> QED
  BY <1>1, ConstantFacts DEF Interrupt, TypeInv, TypeOK

\* What a step does to the table: nothing, one request, one delivery.
TableStep ==
    \/ UNCHANGED <<requests, responses, delivered>> /\ (\A i \in Index : Answering(i)' = Answering(i))
    \/ \E a \in Activations : CountRequest(a)
    \/ VMSignal
    \/ VMRespond

\* Only CountRequest, VMSignal and VMRespond touch the request table.
LEMMA StepsOfTable == TypeInv /\ [Next]_vars => TableStep
<1> SUFFICES ASSUME TypeInv, [Next]_vars PROVE TableStep
  OBVIOUS
<1> USE ConstantFacts DEF TypeInv, TypeOK, Goto, TableStep, Answering
<1>1. ASSUME NEW t \in Threads, NEW index \in 0 .. NumSignalRequests + 1, Call(t, index)
      PROVE  TableStep
  BY <1>1 DEF Call, table, scan
<1>2. ASSUME NEW t \in Threads, NEW s \in Signals, NEW i \in Index, Interrupt(t, s, i)
      PROVE  TableStep
  BY <1>2, InterruptKeepsVM DEF Interrupt, table, scan
<1>3. ASSUME NEW t \in Threads, HandlerReturn(t)
      PROVE  TableStep
  BY <1>3 DEF HandlerReturn, table, scan
<1>4. ASSUME NEW a \in Activations, SignallerStep(a) \/ TakeMutex(a)
      PROVE  TableStep
  <2>1. CASE Block(a) \/ TakeMutex(a) \/ RaiseTide(a)
    BY <2>1 DEF Block, TakeMutex, RaiseTide, table, scan
  <2>2. CASE SetCheck(a) \/ ForceCheck(a) \/ ReleaseMutex(a) \/ InterruptPoll(a)
    BY <2>2 DEF SetCheck, ForceCheck, ReleaseMutex, InterruptPoll, table, scan
  <2>3. CASE RestoreMask(a)
    BY <2>3 DEF RestoreMask, table, scan
  <2> QED
    BY <1>4, <2>1, <2>2, <2>3 DEF SignallerStep
<1>5. CASE VMEnter \/ VMRefuse \/ VMTakeMutex
  BY <1>5 DEF VMEnter, VMRefuse, VMTakeMutex, table, scan
<1>6. CASE VMStep
  <2>1. CASE VMBlock \/ VMNothingToDo \/ VMToggle \/ VMRelease
    BY <2>1 DEF VMBlock, VMNothingToDo, VMToggle, VMRelease, table
  <2>2. CASE VMSkip \/ VMScanned
    BY <2>2 DEF VMSkip, VMScanned, table
  <2> QED
    BY <1>6, <2>1, <2>2 DEF VMStep
<1>7. CASE HeartbeatForce
  BY <1>7 DEF HeartbeatForce, table, scan
<1>8. ASSUME NEW n \in 0 .. NumSignalRequests, GrowTable(n)
      PROVE  TableStep
  BY <1>8 DEF GrowTable, table, scan
<1>9. CASE UNCHANGED vars
  BY <1>9 DEF vars, table, scan
<1> QED
  BY <1>1, <1>2, <1>3, <1>4, <1>5, <1>6, <1>7, <1>8, <1>9 DEF Next

\* Deliveries keep in step with responses, and both below requests.
LEMMA AccountStep == TypeInv /\ AccountInv /\ [Next]_vars => AccountInv'
<1> SUFFICES ASSUME TypeInv, AccountInv, TableStep PROVE AccountInv'
  BY StepsOfTable
<1> USE ConstantsAssumption, ConstantFacts DEF TypeInv, TypeOK, Goto, AccountInv, Answering
<1>1. CASE UNCHANGED <<requests, responses, delivered>>
           /\ (\A i \in Index : Answering(i)' = Answering(i))
  BY <1>1
<1>2. ASSUME NEW a \in Activations, CountRequest(a)
      PROVE  AccountInv'
  <2>1. idx[a] \in Index /\ (pc'[VM] = "vmRespond" <=> pc[VM] = "vmRespond")
    BY <1>2 DEF CountRequest, IdxInv, SignallerPCs
  <2> QED
    BY <1>2, <2>1 DEF CountRequest, scan
<1>3. CASE VMSignal
  <2>1. cur \in Index
    BY <1>3, CursorInTable DEF VMSignal
  <2> QED
    BY <1>3, <2>1 DEF VMSignal, scan
<1>4. CASE VMRespond
  <2>1. cur \in Index
    BY <1>4, AnswerInTable DEF VMRespond, Goto
  <2> QED
    BY <1>4, <2>1 DEF VMRespond, scan
<1> QED
  BY <1>1, <1>2, <1>3, <1>4 DEF TableStep

\* Counting a request is the abstract Request, signalling a semaphore the
\* abstract Deliver, and every other step stutters.
THEOREM RefinesExternalSignals == SafeSpec => Abs!SafeSpec
<1>1. Init => Abs!Init
  BY DEF Init, Abs!Init
<1>2. TypeInv /\ AccountInv /\ [Next]_vars => [Abs!Next]_(Abs!vars)
  <2> SUFFICES ASSUME TypeInv, AccountInv, TableStep PROVE [Abs!Next]_(Abs!vars)
    BY StepsOfTable
  <2> USE DEF Abs!Next, Abs!vars, Abs!Request, Abs!Deliver
  <2>1. CASE UNCHANGED <<requests, responses, delivered>>
    BY <2>1
  <2>2. ASSUME NEW a \in Activations, CountRequest(a)
        PROVE  [Abs!Next]_(Abs!vars)
    <3>1. idx[a] \in Index
      BY <2>2 DEF CountRequest, Goto, TypeInv, IdxInv, SignallerPCs
    <3> QED
      BY <2>2, <3>1 DEF CountRequest
  <2>3. CASE VMSignal
    <3>1. cur \in Index
      BY <2>3, ConstantFacts, ConstantsAssumption, CursorInTable DEF VMSignal
    <3>2. delivered[cur] < requests[cur]
      BY <2>3, <3>1 DEF VMSignal, Goto, AccountInv, Answering, TypeInv, TypeOK
    <3> QED
      BY <2>3, <3>1, <3>2 DEF VMSignal
  <2>4. CASE VMRespond
    BY <2>4 DEF VMRespond
  <2> QED
    BY <2>1, <2>2, <2>3, <2>4 DEF TableStep
<1> QED
  BY <1>1, <1>2, TypeInit, TypeStep, AccountInit, AccountStep, PTL DEF SafeSpec, Abs!SafeSpec
=============================================================================
