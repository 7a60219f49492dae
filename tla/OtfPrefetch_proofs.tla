------------------------- MODULE OtfPrefetch_proofs -------------------------
(***************************************************************************)
(* Proofs about OtfPrefetch for every number of workers, tasks, prefetch   *)
(* slots and faults.                                                       *)
(***************************************************************************)
EXTENDS OtfPrefetch, FiniteSetTheorems, TLAPS

\* The inductive invariant: ExactlyOnce needs only the types to be inductive.
IInv == TypeOK /\ ExactlyOnce

LEMMA PrefillTargetType ==
    PrefillTarget \in 0 .. Total /\ PrefillTarget <= Prefetch
  BY ConstantsAssumption DEF PrefillTarget

LEMMA InitIInv == Init => IInv
<1> SUFFICES ASSUME Init PROVE IInv
  OBVIOUS
<1> USE DEF Init
<1>1. TypeOK
  <2>1. nextTask \in 0 .. Total /\ 0 \in 0 .. Total
    BY ConstantsAssumption, PrefillTargetType
  <2>2. task \in [Worker -> Task \cup {NoTask}]
    OBVIOUS
  <2>3. QED
    BY <2>1, <2>2 DEF TypeOK
<1>2. ExactlyOnce
  BY ConstantsAssumption, PrefillTargetType DEF ExactlyOnce, Task
<1>3. QED
  BY <1>1, <1>2 DEF IInv

\* A step of worker w keeps the inductive invariant.
LEMMA WorkerStepIInv ==
    ASSUME IInv, NEW w \in Worker, WorkerStep(w)
    PROVE  IInv'
<1> USE ConstantsAssumption DEF IInv, TypeOK, parentVars
<1>1. CASE GetTask(w)
  <2> USE <1>1 DEF GetTask
  <2>1. taken \in Task /\ taken \in InFlight \ buffered
    BY DEF Task, InFlight, ExactlyOnce
  <2>2. TypeOK'
    BY <2>1 DEF Task
  <2>3. ExactlyOnce'
    BY <2>1, SMTT(30) DEF ExactlyOnce, Task, InFlight, Message
  <2>4. QED
    BY <2>2, <2>3
<1>2. CASE GetSentinel(w)
  <2> USE <1>2 DEF GetSentinel
  <2>1. TypeOK'
    OBVIOUS
  <2>2. ExactlyOnce'
    BY SMTT(30) DEF ExactlyOnce, InFlight, Task
  <2>3. QED
    BY <2>1, <2>2
<1>3. CASE PutResult(w) \/ PutError(w)
  <2>1. PICK kind \in {"result", "error"}, next \in {"waiting", "exiting"} :
            Put(w, kind) /\ wstate' = [wstate EXCEPT ![w] = next]
    BY <1>3 DEF PutResult, PutError
  <2> DEFINE m == [index |-> task[w], worker |-> w, kind |-> kind]
  <2>2. task[w] \in Task /\ m \in Message /\ outq' = outq \cup {m}
    BY <2>1 DEF Put, ExactlyOnce, InFlight, Message
  <2>3. TypeOK'
    BY <2>1, <2>2 DEF Put
  <2>4. ExactlyOnce'
    <3> HIDE DEF m
    <3>1. m.index = task[w] /\ wstate[w] = "busy"
      BY <2>1 DEF m, Put
    <3>2. /\ task[w] \in InFlight \ buffered /\ task[w] < taken
          /\ \A v \in Worker : wstate[v] = "busy" /\ task[v] = task[w] => v = w
          /\ \A n \in outq : n.index # task[w]
      BY <3>1 DEF ExactlyOnce
    <3>3. \A v \in Worker : wstate'[v] = "busy" =>
              v # w /\ wstate[v] = "busy" /\ task'[v] = task[v]
      BY <2>1 DEF Put
    <3>4. InFlight' = InFlight
          /\ UNCHANGED <<buffered, taken, nextTask, delivered>>
      BY <2>1 DEF Put, InFlight
    <3>5. \A v \in Worker : wstate'[v] = "busy" =>
              /\ task'[v] \in InFlight' \ buffered'
              /\ task'[v] < taken'
              /\ \A u \in Worker : wstate'[u] = "busy" /\ task'[u] = task'[v]
                                      => u = v
              /\ \A n \in outq' : n.index # task'[v]
      BY <2>2, <3>1, <3>2, <3>3, <3>4 DEF ExactlyOnce
    <3>6. \A n \in outq' : n.index \in InFlight' \ buffered' /\ n.index < taken'
      BY <2>2, <3>1, <3>2, <3>4 DEF ExactlyOnce
    <3>7. \A n, o \in outq' : n.index = o.index => n = o
      BY <2>2, <3>1, <3>2 DEF ExactlyOnce
    <3>8. QED
      BY <3>4, <3>5, <3>6, <3>7 DEF ExactlyOnce
  <2>5. QED
    BY <2>3, <2>4
<1>4. CASE Exit(w)
  <2> USE <1>4 DEF Exit
  <2>1. TypeOK'
    OBVIOUS
  <2>2. ExactlyOnce'
    BY SMTT(30) DEF ExactlyOnce, InFlight, Task
  <2>3. QED
    BY <2>1, <2>2
<1>5. QED
  BY <1>1, <1>2, <1>3, <1>4 DEF WorkerStep

LEMMA KillIInv ==
    ASSUME IInv, NEW w \in Worker, Kill(w)
    PROVE  IInv'
<1> USE ConstantsAssumption DEF IInv, parentVars, Kill
<1>1. TypeOK'
  <2>1. inputLost' \in BOOLEAN
    BY Zenon DEF TypeOK
  <2>2. wstate' \in [Worker -> {"waiting", "busy", "exiting", "dead"}]
        /\ task' \in [Worker -> Task \cup {NoTask}]
    BY DEF TypeOK
  <2>3. kills' \in Nat
    BY DEF TypeOK
  <2>4. QED
    BY <2>1, <2>2, <2>3 DEF TypeOK
<1>2. ExactlyOnce'
  BY SMTT(30) DEF ExactlyOnce, InFlight, Task, TypeOK
<1>3. QED
  BY <1>1, <1>2

\* What a delivery does: the window slides by one, and the result delivered
\* was neither held nor kept anywhere else.
LEMMA DeliverIInv ==
    ASSUME IInv, Deliver, delivered \in InFlight, delivered < taken,
           \A w \in Worker : wstate[w] = "busy" => task[w] # delivered,
           \A n \in outq' : n \in outq /\ n.index # delivered,
           \A i \in buffered' : i \in buffered /\ i # delivered,
           UNCHANGED <<pc, sentinels, workerVars, kills>>
    PROVE  IInv'
<1> USE ConstantsAssumption
        DEF IInv, TypeOK, Deliver, SubmitNext, workerVars, InFlight, Task
<1>1. TypeOK'
  <2>1. delivered' \in 0 .. Total /\ nextTask' \in 0 .. Total
    OBVIOUS
  <2>2. outq' \subseteq Message /\ buffered' \subseteq Task
    OBVIOUS
  <2>3. QED
    BY <2>1, <2>2
<1>2. /\ delivered' <= taken' /\ taken' <= nextTask'
      /\ nextTask' <= delivered' + Prefetch
      /\ \A i \in InFlight : i # delivered => i \in InFlight'
  BY DEF ExactlyOnce
<1>3. ExactlyOnce'
  <2> USE <1>2 DEF ExactlyOnce
  <2>1. \A w \in Worker : wstate'[w] = "busy" =>
            /\ task'[w] \in InFlight' \ buffered'
            /\ task'[w] < taken'
            /\ \A v \in Worker : wstate'[v] = "busy" /\ task'[v] = task'[w]
                                    => v = w
            /\ \A n \in outq' : n.index # task'[w]
    <3> HIDE DEF InFlight
    <3> QED OBVIOUS
  <2>2. \A n \in outq' : n.index \in InFlight' \ buffered' /\ n.index < taken'
    <3> HIDE DEF InFlight
    <3> QED OBVIOUS
  <2>3. \A n, o \in outq' : n.index = o.index => n = o
    OBVIOUS
  <2>4. \A i \in buffered' : i \in InFlight' /\ i < taken'
    <3> HIDE DEF InFlight
    <3> QED OBVIOUS
  <2>5. QED
    BY <2>1, <2>2, <2>3, <2>4
<1>4. QED
  BY <1>1, <1>3

\* A step of the parent that only moves pc, sends sentinels, terminates a
\* worker or drops a message keeps the inductive invariant.
LEMMA ShrinkIInv ==
    ASSUME IInv, TypeOK', outq' \subseteq outq,
           UNCHANGED <<nextTask, taken, buffered, delivered>>,
           \A w \in Worker : wstate'[w] = "busy" =>
               wstate[w] = "busy" /\ task'[w] = task[w]
    PROVE  IInv'
<1>1. InFlight' = InFlight
  BY DEF InFlight
<1>2. ExactlyOnce'
  BY <1>1 DEF IInv, ExactlyOnce
<1>3. QED
  BY <1>2 DEF IInv

LEMMA ParentIInv ==
    ASSUME IInv, Parent
    PROVE  IInv'
<1> USE ConstantsAssumption DEF workerVars
<1>1. CASE PrefillDone \/ PrefillRaises \/ JoinDone
  <2>1. TypeOK'
    BY <1>1 DEF IInv, TypeOK, PrefillDone, PrefillRaises, JoinDone
  <2>2. QED
    BY <1>1, <2>1, ShrinkIInv DEF PrefillDone, PrefillRaises, JoinDone
<1>2. CASE GetTimeout \/ LoopDone
  <2>1. TypeOK'
    BY <1>2 DEF IInv, TypeOK, GetTimeout, LoopDone, SendSentinels
  <2>2. QED
    BY <1>2, <2>1, ShrinkIInv DEF GetTimeout, LoopDone
<1>3. CASE \E w \in Worker : Terminate(w)
  <2>1. PICK w \in Worker : Terminate(w)
    BY <1>3
  <2>2. TypeOK'
    BY <2>1 DEF IInv, TypeOK, Terminate, parentVars
  <2>3. QED
    BY <2>1, <2>2, ShrinkIInv DEF Terminate, parentVars, IInv, TypeOK
<1>4. CASE TakeBuffered
  <2>1. /\ delivered \in InFlight /\ delivered < taken
        /\ \A w \in Worker : wstate[w] = "busy" => task[w] # delivered
        /\ \A n \in outq : n.index # delivered
    BY <1>4 DEF TakeBuffered, IInv, ExactlyOnce
  <2>2. QED
    BY <1>4, <2>1, DeliverIInv DEF TakeBuffered
<1>5. ASSUME NEW m \in outq, TakeExpected(m)
      PROVE  IInv'
  <2>1. /\ delivered \in InFlight /\ delivered < taken
        /\ \A w \in Worker : wstate[w] = "busy" => task[w] # delivered
        /\ \A n \in outq' : n \in outq /\ n.index # delivered
        /\ \A i \in buffered' : i \in buffered /\ i # delivered
    BY <1>5 DEF TakeExpected, Receive, IInv, ExactlyOnce
  <2>2. Deliver /\ UNCHANGED <<pc, sentinels, workerVars, kills>>
    BY <1>5 DEF TakeExpected, Receive
  <2>3. QED
    BY <2>1, <2>2, DeliverIInv
<1>6. ASSUME NEW m \in outq, SetAside(m)
      PROVE  IInv'
  <2> USE <1>6 DEF SetAside, Receive
  <2>1. m.index \in Task /\ m.index \in InFlight /\ m.index < taken
        /\ InFlight' = InFlight
    BY DEF IInv, ExactlyOnce, InFlight
  <2>2. TypeOK'
    BY <2>1 DEF IInv, TypeOK
  <2>3. ExactlyOnce'
    <3>1. \A w \in Worker : wstate[w] = "busy" => task[w] # m.index
      BY DEF IInv, ExactlyOnce
    <3>2. \A n \in outq' : n \in outq /\ n.index # m.index
      BY DEF IInv, ExactlyOnce
    <3>3. QED
      BY <2>1, <3>1, <3>2 DEF IInv, ExactlyOnce
  <2>4. QED
    BY <2>2, <2>3 DEF IInv
<1>7. ASSUME NEW m \in outq, TakeError(m)
      PROVE  IInv'
  <2>1. TypeOK'
    BY <1>7 DEF IInv, TypeOK, TakeError, Receive, SendSentinels
  <2>2. QED
    BY <1>7, <2>1, ShrinkIInv DEF TakeError, Receive
<1>8. QED
  BY <1>1, <1>2, <1>3, <1>4, <1>5, <1>6, <1>7 DEF Parent, Consume

LEMMA NextIInv == IInv /\ [Next]_vars => IInv'
<1> SUFFICES ASSUME IInv, [Next]_vars PROVE IInv'
  OBVIOUS
<1>1. CASE UNCHANGED vars
  BY <1>1 DEF vars, IInv, TypeOK, ExactlyOnce, InFlight
<1>2. CASE Next
  BY <1>2, ParentIInv, WorkerStepIInv, KillIInv DEF Next
<1>3. QED
  BY <1>1, <1>2

\* The state of the pool has its types in every reachable state of every
\* configuration; with it, ExactlyOnce: no task is submitted, held, answered or
\* set aside twice, and the window in flight is never wider than Prefetch.
THEOREM ExactlyOnceAlways == Spec => [](TypeOK /\ ExactlyOnce)
<1>1. Spec => []IInv
  BY InitIInv, NextIInv, PTL DEF Spec
<1>2. IInv => TypeOK /\ ExactlyOnce
  BY DEF IInv
<1>3. QED
  BY <1>1, <1>2, PTL

-----------------------------------------------------------------------------
\* Distinct messages answer distinct tasks of the window, none of them the
\* task a worker still holds: at most Prefetch - 1 slots are used.
LEMMA BusyLeavesSlot == IInv => PutNeverBlocks
<1> SUFFICES ASSUME IInv, NEW w \in Worker, wstate[w] = "busy"
             PROVE  Cardinality(outq) < Prefetch
  BY DEF PutNeverBlocks
<1> USE ConstantsAssumption
<1> DEFINE window == delivered .. nextTask - 1
           free == window \ {task[w]}
           index == [m \in outq |-> m.index]
<1>1. /\ delivered \in Int /\ nextTask \in Int /\ Prefetch \in Int
      /\ nextTask - delivered <= Prefetch /\ task[w] \in window
  BY DEF IInv, TypeOK, ExactlyOnce, InFlight, Task
<1>2. /\ IsFiniteSet(window)
      /\ Cardinality(window) <= Prefetch
      /\ Cardinality(window) \in Nat
  <2> HIDE DEF window
  <2>1. nextTask - 1 \in Int
    BY <1>1
  <2>2. /\ IsFiniteSet(window)
        /\ Cardinality(window) = IF delivered > nextTask - 1 THEN 0
                                  ELSE (nextTask - 1) - delivered + 1
    BY <1>1, <2>1, FS_Interval DEF window
  <2>3. QED
    BY <1>1, <2>2
<1>3. IsFiniteSet(free) /\ Cardinality(free) = Cardinality(window) - 1
  BY <1>1, <1>2, FS_RemoveElement
<1>4. index \in Injection(outq, free)
  <2>1. \A m \in outq : m.index \in free
    BY DEF IInv, TypeOK, ExactlyOnce, InFlight, Task
  <2>2. \A m, n \in outq : m.index = n.index => m = n
    BY DEF IInv, ExactlyOnce
  <2>3. QED
    BY <2>1, <2>2 DEF Injection, IsInjective
<1>5. IsFiniteSet(outq) /\ Cardinality(outq) <= Cardinality(free)
  <2> HIDE DEF free, index
  <2> QED BY <1>3, <1>4, FS_Injection
<1>6. Cardinality(outq) \in Nat
  BY <1>5, FS_CardinalityType
<1>7. QED
  BY <1>2, <1>3, <1>5, <1>6

\* The puts of the workers never block, for every prefetch depth and number of
\* workers, more workers than slots included.
THEOREM PutNeverBlocksAlways == Spec => []PutNeverBlocks
  BY ExactlyOnceAlways, BusyLeavesSlot, PTL DEF IInv

-----------------------------------------------------------------------------
LEMMA NothingLostNext ==
    ASSUME IInv, IInv', NothingLost, [Next]_vars
    PROVE  NothingLost'
<1> SUFFICES ASSUME pc' \in {"prefill", "consume"}, kills' = 0
             PROVE  InFlight' \subseteq Queued' \cup Held' \cup Answered'
                                          \cup buffered'
  BY DEF NothingLost
<1> DEFINE Placed == Queued \cup Held \cup Answered \cup buffered
<1> USE ConstantsAssumption
<1>1. CASE UNCHANGED vars
  BY <1>1 DEF vars, NothingLost, InFlight, Queued, Held, Answered
<1>2. ASSUME NEW w \in Worker, WorkerStep(w)
      PROVE  InFlight' \subseteq Placed'
  <2>1. /\ UNCHANGED <<pc, nextTask, buffered, delivered, kills>>
    BY <1>2 DEF WorkerStep, GetTask, GetSentinel, PutResult, PutError, Put,
                Exit, parentVars
  <2>2. InFlight' = InFlight /\ InFlight \subseteq Placed
    BY <2>1 DEF InFlight, NothingLost
  <2>3. CASE GetTask(w)
    <3>1. \A v \in Worker : wstate[v] = "busy" =>
              wstate'[v] = "busy" /\ task'[v] = task[v]
      BY <2>3 DEF GetTask, IInv, TypeOK
    <3>2. Held \subseteq Held' /\ taken \in Held'
      BY <2>3, <3>1 DEF GetTask, Held, IInv, TypeOK
    <3>3. Queued \subseteq Queued' \cup {taken}
      BY <2>3 DEF GetTask, Queued, Task, parentVars, IInv, TypeOK
    <3>4. Answered' = Answered
      BY <2>3 DEF GetTask, Answered
    <3>5. QED
      BY <2>1, <2>2, <3>2, <3>3, <3>4
  <2>4. CASE GetSentinel(w) \/ Exit(w)
    <3>1. UNCHANGED <<task, outq, taken>> /\ wstate[w] # "busy"
          /\ \A v \in Worker : wstate[v] = "busy" => wstate'[v] = "busy"
      BY <2>4 DEF GetSentinel, Exit, IInv, TypeOK
    <3>2. Held \subseteq Held' /\ Queued' = Queued /\ Answered' = Answered
      BY <2>1, <3>1 DEF Held, Queued, Answered
    <3>3. QED
      BY <2>1, <2>2, <3>2
  <2>5. CASE PutResult(w) \/ PutError(w)
    <3>1. PICK kind \in {"result", "error"} :
              Put(w, kind) /\ \A v \in Worker : v # w => wstate'[v] = wstate[v]
      BY <2>5 DEF PutResult, PutError, IInv, TypeOK
    <3>2. task[w] \in Answered'
      <4>1. [index |-> task[w], worker |-> w, kind |-> kind] \in outq'
        BY <3>1 DEF Put
      <4>2. QED
        BY <4>1 DEF Answered
    <3>3. \A v \in Worker : v # w => task'[v] = task[v]
      BY <3>1 DEF Put, IInv, TypeOK
    <3>4. Held \subseteq Held' \cup {task[w]}
      BY <3>1, <3>3 DEF Held
    <3>5. Queued' = Queued /\ Answered \subseteq Answered'
      BY <2>1, <3>1 DEF Put, Queued, Answered
    <3>6. QED
      BY <2>1, <2>2, <3>2, <3>4, <3>5
  <2>6. QED
    BY <1>2, <2>3, <2>4, <2>5 DEF WorkerStep
<1>3. ASSUME NEW w \in Worker, Kill(w)
      PROVE  InFlight' \subseteq Placed'
  BY <1>3 DEF Kill, IInv, TypeOK
<1>4. CASE Parent
  <2>1. CASE PrefillDone \/ PrefillRaises
    BY <2>1 DEF PrefillDone, PrefillRaises, workerVars, NothingLost, InFlight,
                Queued, Held, Answered
  <2>2. CASE GetTimeout \/ LoopDone \/ JoinDone \/ \E w \in Worker : Terminate(w)
    BY <2>2 DEF GetTimeout, LoopDone, JoinDone, Terminate, SendSentinels,
                parentVars
  <2>3. ASSUME Deliver, pc = "consume", kills = 0, delivered \notin InFlight',
               UNCHANGED workerVars,
               \A m \in outq : m.index # delivered => m \in outq',
               \A i \in buffered : i # delivered => i \in buffered'
        PROVE  InFlight' \subseteq Placed'
    <3>1. Held' = Held /\ UNCHANGED taken
      BY <2>3 DEF Held, workerVars
    <3>2. Answered \subseteq Answered' \cup {delivered}
      BY <2>3 DEF Answered
    <3>3. /\ InFlight' \subseteq InFlight \cup {nextTask}
          /\ Queued \subseteq Queued'
          /\ nextTask < nextTask' => nextTask \in Queued'
      BY <2>3, <3>1 DEF Deliver, SubmitNext, IInv, TypeOK, InFlight, Queued, Task,
                        ExactlyOnce
    <3>4. nextTask \in InFlight' => nextTask < nextTask'
      BY DEF InFlight
    <3>5. InFlight \subseteq Placed
      BY <2>3 DEF NothingLost
    <3>6. QED
      BY <2>3, <3>1, <3>2, <3>3, <3>4, <3>5
  <2>4. CASE TakeBuffered
    <3>1. Deliver /\ pc = "consume" /\ kills = 0 /\ UNCHANGED workerVars
          /\ outq' = outq /\ buffered' = buffered \ {delivered}
      BY <2>4 DEF TakeBuffered
    <3>2. delivered \notin InFlight'
      BY <3>1 DEF Deliver, InFlight, IInv, TypeOK
    <3>3. QED
      BY <2>3, <3>1, <3>2
  <2>5. ASSUME NEW m \in outq, TakeExpected(m)
        PROVE  InFlight' \subseteq Placed'
    <3>1. /\ Deliver /\ pc = "consume" /\ kills = 0 /\ UNCHANGED workerVars
          /\ buffered' = buffered
          /\ outq' = outq \ {m} /\ m.index = delivered
      BY <2>5 DEF TakeExpected, Receive
    <3>2. delivered \notin InFlight'
      BY <3>1 DEF Deliver, InFlight, IInv, TypeOK
    <3>3. QED
      BY <2>3, <3>1, <3>2
  <2>6. ASSUME NEW m \in outq, SetAside(m)
        PROVE  InFlight' \subseteq Placed'
    <3> USE <2>6 DEF SetAside, Receive
    <3>1. Answered \subseteq Answered' \cup {m.index}
      BY DEF Answered
    <3>2. InFlight' = InFlight /\ Queued' = Queued /\ Held' = Held
      BY DEF InFlight, Queued, Held, workerVars
    <3>3. QED
      BY <3>1, <3>2 DEF NothingLost
  <2>7. ASSUME NEW m \in outq, TakeError(m)
        PROVE  InFlight' \subseteq Placed'
    BY <2>7 DEF TakeError, SendSentinels
  <2>8. QED
    BY <1>4, <2>1, <2>2, <2>4, <2>5, <2>6, <2>7 DEF Parent, Consume
<1>5. QED
  BY <1>1, <1>2, <1>3, <1>4 DEF Next

\* However results overtake each other, none is dropped while the parent still
\* reads: a task in flight is queued, held, answered or set aside.
THEOREM NothingLostAlways == Spec => []NothingLost
<1>1. Init => NothingLost
  BY ConstantsAssumption, PrefillTargetType
     DEF Init, NothingLost, InFlight, Queued, Task
<1>2. (TypeOK /\ ExactlyOnce) /\ (TypeOK /\ ExactlyOnce)'
         /\ NothingLost /\ [Next]_vars => NothingLost'
  BY NothingLostNext DEF IInv
<1>3. QED
  BY <1>1, <1>2, ExactlyOnceAlways, PTL DEF Spec

-----------------------------------------------------------------------------
\* Types, for every number of workers, tasks, prefetch slots and kills.
THEOREM TypesCorrect == Spec => []TypeOK
  BY ExactlyOnceAlways, PTL

Waiting == {w \in Worker : wstate[w] = "waiting"}
Returning == pc \in {"joinReturn", "returned"}

\* The window is empty when the consumer has everything.
LEMMA NothingInFlight ==
    ASSUME IInv, delivered = Total
    PROVE  /\ taken = nextTask /\ buffered = {} /\ outq = {}
           /\ \A w \in Worker : wstate[w] # "busy"
<1>1. nextTask = Total /\ taken = Total
  BY ConstantsAssumption DEF IInv, TypeOK, ExactlyOnce
<1>2. InFlight = {}
  BY <1>1, ConstantsAssumption DEF InFlight, Task
<1>3. QED
  BY <1>1, <1>2 DEF IInv, TypeOK, ExactlyOnce

LEMMA WaitingIsFinite == IsFiniteSet(Waiting) /\ Cardinality(Waiting) <= NumWorkers
<1>1. IsFiniteSet(Worker) /\ Cardinality(Worker) = NumWorkers
  <2>1. 1 \in Int /\ NumWorkers \in Int /\ NumWorkers >= 1
    BY ConstantsAssumption
  <2>2. /\ IsFiniteSet(1 .. NumWorkers)
        /\ Cardinality(1 .. NumWorkers) = IF 1 > NumWorkers THEN 0 ELSE NumWorkers - 1 + 1
    BY <2>1, FS_Interval
  <2>3. QED
    BY <2>1, <2>2 DEF Worker
<1>2. Waiting \subseteq Worker
  BY DEF Waiting
<1>3. QED
  BY <1>1, <1>2, FS_Subset

LEMMA CleanReturnNext ==
    ASSUME IInv, IInv', CleanReturn, [Next]_vars
    PROVE  CleanReturn'
<1> USE ConstantsAssumption
<1>1. SUFFICES ASSUME Returning'
               PROVE  delivered' = Total /\ Cardinality(Waiting') <= sentinels'
  <2>1. ASSUME delivered' = Total
        PROVE  buffered' = {} /\ outq' = {} /\ \A w \in Worker : wstate'[w] # "busy"
    <3>1. nextTask' = Total /\ taken' = Total
      BY <2>1 DEF IInv, TypeOK, ExactlyOnce
    <3>2. InFlight' = {}
      BY <2>1, <3>1 DEF InFlight, Task
    <3>3. QED
      BY <3>1, <3>2 DEF IInv, TypeOK, ExactlyOnce
  <2>2. QED
    BY <2>1 DEF CleanReturn, Returning, Waiting
<1>2. /\ IsFiniteSet(Waiting) /\ Cardinality(Waiting) \in Nat
      /\ Cardinality(Waiting) <= NumWorkers /\ sentinels \in Nat
  BY WaitingIsFinite, FS_CardinalityType DEF IInv, TypeOK
<1>3. ASSUME Returning
      PROVE  /\ delivered = Total /\ Cardinality(Waiting) <= sentinels
             /\ taken = nextTask /\ outq = {}
             /\ \A w \in Worker : wstate[w] # "busy"
  BY <1>3, NothingInFlight DEF CleanReturn, Returning, Waiting
\* Fewer wait and no None is taken.
<1>4. ASSUME Returning, delivered' = delivered, sentinels' = sentinels, Waiting' \subseteq Waiting
      PROVE  delivered' = Total /\ Cardinality(Waiting') <= sentinels'
  <2>1. Cardinality(Waiting') <= Cardinality(Waiting) /\ Cardinality(Waiting') \in Nat
    BY <1>2, <1>4, FS_Subset, FS_CardinalityType
  <2>2. QED
    BY <1>2, <1>3, <1>4, <2>1
<1>5. CASE UNCHANGED vars
  BY <1>1, <1>4, <1>5 DEF vars, Returning, Waiting
<1>6. ASSUME NEW w \in Worker, WorkerStep(w)
      PROVE  delivered' = Total /\ Cardinality(Waiting') <= sentinels'
  <2>1. Returning
    BY <1>1, <1>6 DEF WorkerStep, GetTask, GetSentinel, PutResult, PutError, Put, Exit, Returning,
                      parentVars
  <2>2. CASE GetSentinel(w)
    <3>1. w \in Waiting /\ Waiting' = Waiting \ {w}
      BY <2>2 DEF GetSentinel, Waiting, IInv, TypeOK
    <3>2. Cardinality(Waiting') = Cardinality(Waiting) - 1
      BY <1>2, <3>1, FS_RemoveElement
    <3>3. QED
      BY <1>2, <1>3, <2>1, <2>2, <3>2 DEF GetSentinel
  <2>3. CASE Exit(w)
    BY <1>4, <2>1, <2>3 DEF Exit, Waiting, IInv, TypeOK, parentVars
  <2>4. ~GetTask(w) /\ ~PutResult(w) /\ ~PutError(w)
    BY <1>3, <2>1 DEF GetTask, PutResult, PutError, Put, IInv, TypeOK
  <2>5. QED
    BY <1>6, <2>2, <2>3, <2>4 DEF WorkerStep
<1>7. ASSUME NEW w \in Worker, Kill(w) \/ Terminate(w)
      PROVE  delivered' = Total /\ Cardinality(Waiting') <= sentinels'
  <2>1. Returning /\ delivered' = delivered /\ sentinels' = sentinels
    BY <1>1, <1>7 DEF Kill, Terminate, Returning, parentVars
  <2>2. Waiting' \subseteq Waiting
    BY <1>7 DEF Kill, Terminate, Waiting, IInv, TypeOK
  <2>3. QED
    BY <1>4, <2>1, <2>2
<1>8. CASE JoinDone
  <2>1. Returning
    BY <1>1, <1>8 DEF JoinDone, Returning
  <2>2. QED
    BY <1>4, <1>8, <2>1 DEF JoinDone, Waiting, workerVars
<1>9. CASE LoopDone
  <2>1. Waiting' = Waiting /\ sentinels' = sentinels + NumWorkers /\ delivered' = Total
    BY <1>9 DEF LoopDone, SendSentinels, Waiting, workerVars
  <2>2. QED
    BY <1>2, <2>1
<1>10. ~PrefillDone /\ ~PrefillRaises /\ ~TakeBuffered /\ ~GetTimeout
       /\ \A m \in outq : ~TakeExpected(m) /\ ~SetAside(m) /\ ~TakeError(m)
  BY <1>1 DEF PrefillDone, PrefillRaises, TakeBuffered, TakeExpected, SetAside, TakeError,
              GetTimeout, SendSentinels, Receive, Returning
<1>11. QED
  BY <1>5, <1>6, <1>7, <1>8, <1>9, <1>10 DEF Next, Parent, Consume

\* When the consumer has everything, no result is left over, nobody works, and
\* there is a None for every worker that waits, however many there are.
THEOREM CleanReturnAlways == Spec => []CleanReturn
<1>1. Init => CleanReturn
  BY DEF Init, CleanReturn
<1>2. (TypeOK /\ ExactlyOnce) /\ (TypeOK /\ ExactlyOnce)'
         /\ CleanReturn /\ [Next]_vars => CleanReturn'
  BY CleanReturnNext DEF IInv
<1>3. QED
  BY <1>1, <1>2, ExactlyOnceAlways, PTL DEF Spec

-----------------------------------------------------------------------------
(* How long a call can take.  Every step, of the parent, of a worker or a    *)
(* fault, moves something towards its end.                                   *)

Busy == {w \in Worker : wstate[w] = "busy"}
Serving == {w \in Worker : wstate[w] \in {"waiting", "busy"}}
Alive == {w \in Worker : wstate[w] # "dead"}
Phase == CASE pc = "prefill" -> 3 [] pc = "consume" -> 2
           [] pc \in {"joinReturn", "joinRaise"} -> 1 [] OTHER -> 0

\* The steps that are left, at most: a task is got, put, received, and delivered
\* either at once or from the buffer; a worker ends in two steps.
StepsLeft ==
    4 * (Total - taken) + 3 * Cardinality(Busy) + 2 * Cardinality(outq)
      + Cardinality(buffered) + (Total - delivered)
      + Cardinality(Serving) + Cardinality(Alive) + Phase

LEMMA WorkersAreFinite == IsFiniteSet(Worker) /\ Cardinality(Worker) = NumWorkers
<1>1. 1 \in Int /\ NumWorkers \in Int /\ NumWorkers >= 1
  BY ConstantsAssumption
<1>2. /\ IsFiniteSet(1 .. NumWorkers)
      /\ Cardinality(1 .. NumWorkers) = IF 1 > NumWorkers THEN 0 ELSE NumWorkers - 1 + 1
  BY <1>1, FS_Interval
<1>3. QED
  BY <1>1, <1>2 DEF Worker

\* What is counted is finite.
LEMMA CountsAreNumbers ==
    ASSUME IInv
    PROVE  /\ IsFiniteSet(Busy) /\ IsFiniteSet(Serving) /\ IsFiniteSet(Alive)
           /\ IsFiniteSet(outq) /\ IsFiniteSet(buffered)
           /\ Cardinality(Busy) \in Nat /\ Cardinality(Serving) \in Nat
           /\ Cardinality(Alive) \in Nat
           /\ Cardinality(outq) \in Nat /\ Cardinality(buffered) \in Nat
           /\ Total - taken \in Nat /\ Total - delivered \in Nat
<1>1. Busy \subseteq Worker /\ Serving \subseteq Worker /\ Alive \subseteq Worker
  BY DEF Busy, Serving, Alive
<1>2. IsFiniteSet(Task)
  <2>1. Total - 1 \in Int /\ 0 \in Int
    BY ConstantsAssumption
  <2>2. QED
    BY <2>1, FS_Interval DEF Task
<1>3. IsFiniteSet(buffered)
  BY <1>2, FS_Subset DEF IInv, TypeOK
<1>4. IsFiniteSet(outq)
  <2> DEFINE index == [m \in outq |-> m.index]
  <2>1. index \in Injection(outq, Task)
    <3>1. \A m \in outq : m.index \in Task
      BY DEF IInv, TypeOK, Message
    <3>2. \A m, n \in outq : m.index = n.index => m = n
      BY DEF IInv, ExactlyOnce
    <3>3. QED
      BY <3>1, <3>2 DEF Injection, IsInjective
  <2> HIDE DEF index
  <2>2. QED
    BY <1>2, <2>1, FS_Injection
<1>5. Total - taken \in Nat /\ Total - delivered \in Nat
  BY ConstantsAssumption DEF IInv, TypeOK
<1>6. IsFiniteSet(Busy) /\ IsFiniteSet(Serving) /\ IsFiniteSet(Alive)
  BY <1>1, WorkersAreFinite, FS_Subset
<1>7. QED
  BY <1>3, <1>4, <1>5, <1>6, FS_CardinalityType

\* A worker that is killed or terminated.
LEMMA DeadWorkerCounts ==
    ASSUME IInv, NEW w \in Worker, wstate[w] # "dead", wstate' = [wstate EXCEPT ![w] = "dead"]
    PROVE  /\ Cardinality(Busy') <= Cardinality(Busy) /\ Cardinality(Busy') \in Nat
           /\ Cardinality(Serving') <= Cardinality(Serving) /\ Cardinality(Serving') \in Nat
           /\ Cardinality(Alive') = Cardinality(Alive) - 1
<1>1. Busy' = Busy \ {w} /\ Serving' = Serving \ {w} /\ Alive' = Alive \ {w} /\ w \in Alive
  BY DEF IInv, TypeOK, Busy, Serving, Alive
<1>2. /\ IsFiniteSet(Busy) /\ IsFiniteSet(Serving) /\ IsFiniteSet(Alive)
      /\ Cardinality(Busy) \in Nat /\ Cardinality(Serving) \in Nat /\ Cardinality(Alive) \in Nat
  BY CountsAreNumbers
<1>3. Busy' \in SUBSET Busy /\ Serving' \in SUBSET Serving
  BY <1>1
<1>4. /\ Cardinality(Busy') <= Cardinality(Busy) /\ Cardinality(Busy') \in Nat
      /\ Cardinality(Serving') <= Cardinality(Serving) /\ Cardinality(Serving') \in Nat
  BY <1>2, <1>3, FS_Subset, FS_CardinalityType
<1>5. Cardinality(Alive') = Cardinality(Alive) - 1
  BY <1>1, <1>2, FS_RemoveElement
<1>6. QED
  BY <1>4, <1>5

\* Every step takes at least one of the steps that are left.
LEMMA StepCounts ==
    ASSUME IInv, Next
    PROVE  StepsLeft' < StepsLeft
<1> USE ConstantsAssumption
<1> DEFINE a == Total - taken
           b == Cardinality(Busy)
           c == Cardinality(outq)
           d == Cardinality(buffered)
           e == Total - delivered
           f == Cardinality(Serving)
           g == Cardinality(Alive)
           h == Phase
<1>1. /\ a \in Nat /\ b \in Nat /\ c \in Nat /\ d \in Nat /\ e \in Nat /\ f \in Nat /\ g \in Nat
      /\ IsFiniteSet(Busy) /\ IsFiniteSet(Serving) /\ IsFiniteSet(Alive)
      /\ IsFiniteSet(outq) /\ IsFiniteSet(buffered)
  BY CountsAreNumbers
<1>2. h \in Nat
  BY DEF Phase
<1>3. StepsLeft = 4 * a + 3 * b + 2 * c + d + e + f + g + h
  BY DEF StepsLeft
<1>4. StepsLeft' = 4 * a' + 3 * b' + 2 * c' + d' + e' + f' + g' + h'
  BY DEF StepsLeft
<1>5. taken \in Nat /\ delivered \in Nat /\ Total \in Nat
  BY DEF IInv, TypeOK
<1>w. wstate' = wstate => b' = b /\ f' = f /\ g' = g
  BY DEF Busy, Serving, Alive
<1>p. pc' = pc => h' = h
  BY DEF Phase
<1>o. /\ taken' = taken => a' = a
      /\ outq' = outq => c' = c
      /\ buffered' = buffered => d' = d
      /\ delivered' = delivered => e' = e
      /\ delivered' = delivered + 1 => e' = e - 1
  BY <1>5
<1>g. ASSUME NEW w \in Worker, GetTask(w) PROVE StepsLeft' < StepsLeft
  <2>1. /\ UNCHANGED <<pc, buffered, delivered, outq>> /\ taken' = taken + 1
        /\ wstate[w] = "waiting" /\ wstate' = [wstate EXCEPT ![w] = "busy"]
    BY <1>g DEF GetTask, parentVars
  <2>2. Busy' = Busy \cup {w} /\ w \notin Busy /\ Serving' = Serving /\ Alive' = Alive
    BY <2>1 DEF IInv, TypeOK, Busy, Serving, Alive
  <2>3. b' = b + 1 /\ f' = f /\ g' = g
    BY <1>1, <2>2, FS_AddElement
  <2>4. a' = a - 1
    BY <1>5, <2>1
  <2>5. c' = c /\ d' = d /\ e' = e /\ h' = h
    BY <1>o, <1>p, <2>1
  <2> HIDE DEF a, b, c, d, e, f, g, h
  <2>6. QED
    BY <1>1, <1>2, <1>3, <1>4, <2>3, <2>4, <2>5
<1>s. ASSUME NEW w \in Worker, GetSentinel(w) \/ Exit(w) PROVE StepsLeft' < StepsLeft
  <2>1. /\ UNCHANGED <<pc, buffered, delivered, outq, taken>>
        /\ \/ wstate[w] = "waiting" /\ wstate' = [wstate EXCEPT ![w] = "exiting"]
           \/ wstate[w] = "exiting" /\ wstate' = [wstate EXCEPT ![w] = "dead"]
    BY <1>s DEF GetSentinel, Exit, parentVars
  <2>2. Busy' = Busy
    BY <2>1 DEF IInv, TypeOK, Busy
  <2>3. \/ Serving' = Serving \ {w} /\ w \in Serving /\ Alive' = Alive
        \/ Serving' = Serving /\ Alive' = Alive \ {w} /\ w \in Alive
    BY <2>1 DEF IInv, TypeOK, Serving, Alive
  <2>4. \/ f' = f - 1 /\ g' = g
        \/ f' = f /\ g' = g - 1
    BY <1>1, <2>3, FS_RemoveElement
  <2>5. a' = a /\ b' = b /\ c' = c /\ d' = d /\ e' = e /\ h' = h
    BY <1>o, <1>p, <2>1, <2>2
  <2> HIDE DEF a, b, c, d, e, f, g, h
  <2>6. QED
    BY <1>1, <1>2, <1>3, <1>4, <2>4, <2>5
<1>u. ASSUME NEW w \in Worker, PutResult(w) \/ PutError(w) PROVE StepsLeft' < StepsLeft
  <2>1. PICK kind \in {"result", "error"} :
           /\ Put(w, kind) /\ UNCHANGED <<pc, buffered, delivered, taken>>
           /\ \/ wstate' = [wstate EXCEPT ![w] = "waiting"]
              \/ wstate' = [wstate EXCEPT ![w] = "exiting"]
    BY <1>u DEF PutResult, PutError, Put, parentVars
  <2> DEFINE m == [index |-> task[w], worker |-> w, kind |-> kind]
  <2>2. wstate[w] = "busy" /\ outq' = outq \cup {m} /\ m.index = task[w]
    BY <2>1 DEF Put
  <2> HIDE DEF m
  <2>3. m \notin outq
    BY <2>2 DEF IInv, ExactlyOnce
  <2>4. c' = c + 1
    BY <1>1, <2>2, <2>3, FS_AddElement
  <2>5. Busy' = Busy \ {w} /\ w \in Busy /\ Alive' = Alive
    BY <2>1, <2>2 DEF IInv, TypeOK, Busy, Alive
  <2>6. Serving' \in SUBSET Serving
    BY <2>1, <2>2 DEF IInv, TypeOK, Serving
  <2>7. b' = b - 1 /\ g' = g /\ f' <= f /\ f' \in Nat
    BY <1>1, <2>5, <2>6, FS_RemoveElement, FS_Subset, FS_CardinalityType
  <2>8. a' = a /\ d' = d /\ e' = e /\ h' = h
    BY <1>o, <1>p, <2>1
  <2> HIDE DEF a, b, c, d, e, f, g, h
  <2>9. PICK f1 \in Nat : f' = f1 /\ f1 <= f
    BY <2>7
  <2>10. QED
    BY <1>1, <1>2, <1>3, <1>4, <2>4, <2>7, <2>8, <2>9
<1>k. ASSUME NEW w \in Worker, Kill(w) \/ Terminate(w) PROVE StepsLeft' < StepsLeft
  <2>1. /\ UNCHANGED <<pc, buffered, delivered, outq, taken>>
        /\ wstate[w] # "dead" /\ wstate' = [wstate EXCEPT ![w] = "dead"]
    BY <1>k DEF Kill, Terminate, parentVars
  <2>2. b' <= b /\ b' \in Nat /\ f' <= f /\ f' \in Nat /\ g' = g - 1
    BY <2>1, DeadWorkerCounts
  <2>3. a' = a /\ c' = c /\ d' = d /\ e' = e /\ h' = h
    BY <1>o, <1>p, <2>1
  <2> HIDE DEF a, b, c, d, e, f, g, h
  <2>4. PICK b1 \in Nat, f1 \in Nat : b' = b1 /\ b1 <= b /\ f' = f1 /\ f1 <= f
    BY <2>2
  <2>5. g' = g - 1
    BY <2>2
  <2>6. QED
    BY <1>1, <1>2, <1>3, <1>4, <2>3, <2>4, <2>5
<1>h. ASSUME PrefillDone \/ PrefillRaises \/ GetTimeout \/ LoopDone \/ JoinDone
      PROVE  StepsLeft' < StepsLeft
  <2>1. UNCHANGED <<buffered, delivered, outq, taken, wstate>>
    BY <1>h DEF PrefillDone, PrefillRaises, GetTimeout, LoopDone, JoinDone, workerVars
  <2>2. h' < h /\ h' \in Nat
    BY <1>h DEF PrefillDone, PrefillRaises, GetTimeout, LoopDone, JoinDone, SendSentinels, Phase
  <2>3. a' = a /\ b' = b /\ c' = c /\ d' = d /\ e' = e /\ f' = f /\ g' = g
    BY <1>o, <1>w, <2>1
  <2> HIDE DEF a, b, c, d, e, f, g, h
  <2>4. PICK h1 \in Nat : h' = h1 /\ h1 < h
    BY <2>2
  <2>5. QED
    BY <1>1, <1>2, <1>3, <1>4, <2>3, <2>4
<1>b. ASSUME TakeBuffered PROVE StepsLeft' < StepsLeft
  <2>1. /\ UNCHANGED <<pc, outq, taken, wstate>> /\ delivered' = delivered + 1
        /\ buffered' = buffered \ {delivered} /\ delivered \in buffered
    BY <1>b DEF TakeBuffered, Deliver, workerVars
  <2>2. d' = d - 1
    BY <1>1, <2>1, FS_RemoveElement
  <2>3. a' = a /\ b' = b /\ c' = c /\ e' = e - 1 /\ f' = f /\ g' = g /\ h' = h
    BY <1>o, <1>p, <1>w, <2>1
  <2> HIDE DEF a, b, c, d, e, f, g, h
  <2>4. QED
    BY <1>1, <1>2, <1>3, <1>4, <2>2, <2>3
<1>m. ASSUME NEW m \in outq, TakeExpected(m) \/ SetAside(m) \/ TakeError(m)
      PROVE  StepsLeft' < StepsLeft
  <2>1. outq' = outq \ {m} /\ UNCHANGED <<taken, wstate>>
    BY <1>m DEF TakeExpected, SetAside, TakeError, Receive, workerVars
  <2>2. c' = c - 1
    BY <1>1, <2>1, FS_RemoveElement
  <2>3. a' = a /\ b' = b /\ f' = f /\ g' = g
    BY <1>o, <1>w, <2>1
  <2>4. CASE TakeExpected(m)
    <3>1. d' = d /\ e' = e - 1 /\ h' = h
      BY <1>o, <1>p, <2>4 DEF TakeExpected, Deliver
    <3> HIDE DEF a, b, c, d, e, f, g, h
    <3>2. QED
      BY <1>1, <1>2, <1>3, <1>4, <2>2, <2>3, <3>1
  <2>5. CASE SetAside(m)
    <3>1. buffered' = buffered \cup {m.index} /\ m.index \notin buffered
      BY <2>5 DEF SetAside, IInv, ExactlyOnce
    <3>2. d' = d + 1
      BY <1>1, <3>1, FS_AddElement
    <3>3. e' = e /\ h' = h
      BY <1>o, <1>p, <2>5 DEF SetAside
    <3> HIDE DEF a, b, c, d, e, f, g, h
    <3>4. QED
      BY <1>1, <1>2, <1>3, <1>4, <2>2, <2>3, <3>2, <3>3
  <2>6. CASE TakeError(m)
    <3>1. d' = d /\ e' = e /\ h' < h /\ h' \in Nat
      BY <1>o, <2>6 DEF TakeError, Receive, SendSentinels, Phase
    <3> HIDE DEF a, b, c, d, e, f, g, h
    <3>2. PICK h1 \in Nat : h' = h1 /\ h1 < h
      BY <3>1
    <3>3. d' = d /\ e' = e
      BY <3>1
    <3>4. QED
      BY <1>1, <1>2, <1>3, <1>4, <2>2, <2>3, <3>2, <3>3
  <2>7. QED
    BY <1>m, <2>4, <2>5, <2>6
<1>z. QED
  BY <1>g, <1>s, <1>u, <1>k, <1>h, <1>b, <1>m DEF Next, Parent, Consume, WorkerStep

\* No call takes more than 5 * Total + 2 * NumWorkers + 3 steps, however the
\* processes are scheduled and whatever is killed: there is no exchange of
\* messages that could go on for ever.
THEOREM CallIsBounded ==
    Spec => /\ [](StepsLeft \in 0 .. 5 * Total + 2 * NumWorkers + 3)
            /\ [][StepsLeft' < StepsLeft]_vars
<1>1. Init => StepsLeft = 5 * Total + 2 * NumWorkers + 3
  <2> SUFFICES ASSUME Init PROVE StepsLeft = 5 * Total + 2 * NumWorkers + 3
    OBVIOUS
  <2>1. Busy = {} /\ Serving = Worker /\ Alive = Worker
    BY DEF Init, Busy, Serving, Alive
  <2>2. /\ Cardinality(Busy) = 0 /\ Cardinality(Serving) = NumWorkers
        /\ Cardinality(Alive) = NumWorkers
    BY <2>1, WorkersAreFinite, FS_EmptySet
  <2>3. Cardinality(outq) = 0 /\ Cardinality(buffered) = 0
    BY FS_EmptySet DEF Init
  <2>4. taken = 0 /\ delivered = 0 /\ Phase = 3
    BY DEF Init, Phase
  <2>5. QED
    BY <2>2, <2>3, <2>4, ConstantsAssumption DEF StepsLeft
<1>2. IInv => StepsLeft \in Nat
  <2> SUFFICES ASSUME IInv PROVE StepsLeft \in Nat
    OBVIOUS
  <2>1. Phase \in Nat
    BY DEF Phase
  <2>2. QED
    BY <2>1, CountsAreNumbers DEF StepsLeft
<1> DEFINE Bound == 5 * Total + 2 * NumWorkers + 3
           Bounded == StepsLeft \in Nat /\ StepsLeft <= Bound
<1>3. Bound \in Nat
  BY ConstantsAssumption
<1>4. Init => Bounded
  BY <1>1, <1>3
<1>5. IInv /\ [Next]_vars => [StepsLeft' < StepsLeft]_vars
  BY StepCounts
<1>6. UNCHANGED vars => StepsLeft' = StepsLeft
  BY DEF vars, StepsLeft, Busy, Serving, Alive, Phase
<1> HIDE DEF Bound
<1>7. IInv /\ (StepsLeft \in Nat)' /\ Bounded /\ [Next]_vars => Bounded'
  <2> SUFFICES ASSUME IInv, (StepsLeft \in Nat)', Bounded, [Next]_vars PROVE Bounded'
    OBVIOUS
  <2>1. StepsLeft' \in Nat
    OBVIOUS
  <2>2. StepsLeft' < StepsLeft \/ StepsLeft' = StepsLeft
    BY <1>5, <1>6
  <2>3. Bound' = Bound
    BY DEF Bound
  <2>4. QED
    BY <1>3, <2>1, <2>2, <2>3
<1>8. Bounded => StepsLeft \in 0 .. Bound
  BY <1>3
<1>9. Spec => []IInv
  BY InitIInv, NextIInv, PTL DEF Spec
<1>10. Spec => [](StepsLeft \in 0 .. Bound) /\ [][StepsLeft' < StepsLeft]_vars
  BY <1>2, <1>4, <1>5, <1>7, <1>8, <1>9, PTL DEF Spec
<1>11. QED
  BY <1>10 DEF Bound

-----------------------------------------------------------------------------
(* What the parent waits for.  A get that times out is an error of the run,  *)
(* so an answer that nobody owes any more must not be waited for.            *)

\* The window is always filled: prefill, and one more task for each delivery.
WindowIsFull == nextTask = IF delivered + Prefetch <= Total THEN delivered + Prefetch ELSE Total

\* Until the loop ends nobody is told to go, and a worker that was not killed and
\* still left has its error in the output queue.
LeaversReport ==
    pc \in {"prefill", "consume"} =>
        /\ sentinels = 0
        /\ kills = 0 =>
              /\ ~inputLost
              /\ \A w \in Worker : wstate[w] \in {"exiting", "dead"} =>
                    \E m \in outq : m.worker = w /\ m.kind = "error"

\* The expected result is with a live worker, or it is the oldest task of the
\* input queue, every worker is free, and none holds the lock of the queue.
AnswerIsDue ==
    \/ \E w \in Worker : wstate[w] = "busy" /\ task[w] = delivered
    \/ /\ taken = delivered /\ taken < nextTask
       /\ ~inputLost
       /\ \A w \in Worker : wstate[w] = "waiting"

LEMMA WindowStaysFull ==
    ASSUME IInv, WindowIsFull, [Next]_vars
    PROVE  WindowIsFull'
<1> USE ConstantsAssumption
<1>1. nextTask' = nextTask /\ delivered' = delivered => WindowIsFull'
  BY DEF WindowIsFull
<1>2. Deliver /\ delivered < Total => WindowIsFull'
  BY DEF Deliver, SubmitNext, WindowIsFull, IInv, TypeOK
<1>3. CASE UNCHANGED vars
  BY <1>1, <1>3 DEF vars
<1>4. ASSUME NEW w \in Worker, WorkerStep(w) \/ Kill(w) \/ Terminate(w)
      PROVE  WindowIsFull'
  BY <1>1, <1>4 DEF WorkerStep, GetTask, GetSentinel, PutResult, PutError, Put, Exit, Kill,
                    Terminate, parentVars
<1>5. CASE PrefillDone \/ PrefillRaises \/ GetTimeout \/ LoopDone \/ JoinDone
  BY <1>1, <1>5 DEF PrefillDone, PrefillRaises, GetTimeout, LoopDone, JoinDone
<1>6. CASE TakeBuffered
  <2>1. Deliver /\ delivered \in buffered
    BY <1>6 DEF TakeBuffered
  <2>2. delivered < Total
    BY <2>1 DEF IInv, TypeOK, Task
  <2>3. QED
    BY <1>2, <2>1, <2>2
<1>7. ASSUME NEW m \in outq, TakeExpected(m) \/ SetAside(m) \/ TakeError(m)
      PROVE  WindowIsFull'
  BY <1>1, <1>2, <1>7 DEF TakeExpected, SetAside, TakeError, Receive
<1>8. QED
  BY <1>3, <1>4, <1>5, <1>6, <1>7 DEF Next, Parent, Consume

LEMMA LeaversReportNext ==
    ASSUME IInv, LeaversReport, [Next]_vars
    PROVE  LeaversReport'
<1> USE ConstantsAssumption
<1>1. CASE UNCHANGED vars
  BY <1>1 DEF vars, LeaversReport
<1>2. ASSUME NEW w \in Worker, GetTask(w)
      PROVE  LeaversReport'
  BY <1>2 DEF GetTask, LeaversReport, parentVars, IInv, TypeOK
<1>3. ASSUME NEW w \in Worker, GetSentinel(w)
      PROVE  LeaversReport'
  BY <1>3 DEF GetSentinel, LeaversReport
<1>4. ASSUME NEW w \in Worker, PutResult(w)
      PROVE  LeaversReport'
  BY <1>4 DEF PutResult, Put, LeaversReport, parentVars, IInv, TypeOK
<1>5. ASSUME NEW w \in Worker, PutError(w)
      PROVE  LeaversReport'
  <2> DEFINE mine == [index |-> task[w], worker |-> w, kind |-> "error"]
  <2>1. /\ outq' = outq \cup {mine} /\ mine.worker = w /\ mine.kind = "error"
        /\ wstate' = [wstate EXCEPT ![w] = "exiting"]
        /\ pc' = pc /\ sentinels' = sentinels /\ kills' = kills /\ inputLost' = inputLost
    BY <1>5 DEF PutError, Put, parentVars
  <2> HIDE DEF mine
  <2>2. \A v \in Worker : v # w => wstate'[v] = wstate[v]
    BY <2>1 DEF IInv, TypeOK
  <2>3. QED
    BY <2>1, <2>2 DEF LeaversReport
<1>6. ASSUME NEW w \in Worker, Exit(w)
      PROVE  LeaversReport'
  <2>1. /\ wstate[w] = "exiting" /\ outq' = outq /\ pc' = pc /\ sentinels' = sentinels
        /\ kills' = kills /\ inputLost' = inputLost
        /\ \A v \in Worker : v # w => wstate'[v] = wstate[v]
    BY <1>6 DEF Exit, parentVars, IInv, TypeOK
  <2>2. QED
    BY <2>1 DEF LeaversReport
<1>7. ASSUME NEW w \in Worker, Kill(w)
      PROVE  LeaversReport'
  BY <1>7 DEF Kill, LeaversReport, parentVars, IInv, TypeOK
<1>8. CASE PrefillDone
  BY <1>8 DEF PrefillDone, LeaversReport, workerVars
<1>9. CASE TakeBuffered
  BY <1>9 DEF TakeBuffered, LeaversReport, workerVars
\* A result that is received is nobody's error.
<1>10. ASSUME NEW m \in outq, TakeExpected(m) \/ SetAside(m)
       PROVE  LeaversReport'
  <2>1. /\ m.kind = "result" /\ outq' = outq \ {m}
        /\ pc' = pc /\ sentinels' = sentinels /\ UNCHANGED workerVars /\ kills' = kills
    BY <1>10 DEF TakeExpected, SetAside, Receive
  <2>2. QED
    BY <2>1 DEF LeaversReport, workerVars
<1>11. CASE PrefillRaises \/ GetTimeout \/ LoopDone
  BY <1>11 DEF PrefillRaises, GetTimeout, LoopDone, SendSentinels, LeaversReport
<1>12. ASSUME NEW m \in outq, TakeError(m)
       PROVE  LeaversReport'
  BY <1>12 DEF TakeError, SendSentinels, LeaversReport
<1>13. ASSUME NEW w \in Worker, Terminate(w)
       PROVE  LeaversReport'
  BY <1>13 DEF Terminate, parentVars, LeaversReport
<1>14. CASE JoinDone
  BY <1>14 DEF JoinDone, LeaversReport
<1>15. QED
  BY <1>1, <1>2, <1>3, <1>4, <1>5, <1>6, <1>7, <1>8, <1>9, <1>10, <1>11, <1>12, <1>13, <1>14
     DEF Next, Parent, Consume, WorkerStep

\* While nobody has been killed, the parent never waits for nothing: whenever the
\* output queue is empty and the expected result is not set aside, a worker that is
\* alive has the task or every worker is free to take it.  So a get can time out only
\* because a worker is slow, not because an answer, a task or a place in the window
\* was lost when results overtook each other or a worker left with an error.
THEOREM WaitsOnlyForWork ==
    Spec => [](/\ pc = "consume" /\ kills = 0
               /\ delivered < Total /\ delivered \notin buffered /\ outq = {}
               => AnswerIsDue)
<1>1. ASSUME IInv, NothingLost, WindowIsFull, LeaversReport,
             pc = "consume", kills = 0, delivered < Total, delivered \notin buffered, outq = {}
      PROVE  AnswerIsDue
  <2> USE ConstantsAssumption
  <2>1. delivered < nextTask /\ delivered \in InFlight
    BY <1>1 DEF WindowIsFull, IInv, TypeOK, InFlight, Task
  <2>2. delivered \in Queued \cup Held
    BY <1>1, <2>1 DEF NothingLost, Answered
  <2>3. CASE delivered \in Held
    BY <2>3 DEF Held, AnswerIsDue
  <2>4. CASE delivered \in Queued
    <3>1. taken = delivered
      BY <1>1, <2>4 DEF Queued, IInv, TypeOK, ExactlyOnce
    <3>2. \A w \in Worker : wstate[w] # "busy"
      BY <1>1, <3>1 DEF IInv, TypeOK, ExactlyOnce, InFlight, Task
    <3>3. ~inputLost /\ \A w \in Worker : wstate[w] \notin {"exiting", "dead"}
      BY <1>1 DEF LeaversReport
    <3>4. \A w \in Worker : wstate[w] = "waiting"
      BY <1>1, <3>2, <3>3 DEF IInv, TypeOK
    <3>5. QED
      BY <2>1, <3>1, <3>3, <3>4 DEF AnswerIsDue
  <2>5. QED
    BY <2>2, <2>3, <2>4
<1>2. Init => WindowIsFull
  BY ConstantsAssumption DEF Init, PrefillTarget, WindowIsFull
<1>3. Init => LeaversReport
  BY DEF Init, LeaversReport
<1>4. IInv /\ WindowIsFull /\ [Next]_vars => WindowIsFull'
  BY WindowStaysFull
<1>5. IInv /\ LeaversReport /\ [Next]_vars => LeaversReport'
  BY LeaversReportNext
<1>6. Spec => []IInv
  BY InitIInv, NextIInv, PTL DEF Spec
<1>7. Spec => [](WindowIsFull /\ LeaversReport)
  BY <1>2, <1>3, <1>4, <1>5, <1>6, PTL DEF Spec
<1>8. QED
  BY <1>1, <1>6, <1>7, NothingLostAlways, PTL
=============================================================================
