------------------------ MODULE NanogemmSweepProofs ------------------------
(***************************************************************************)
(* The sweep of NanogemmSweep, for any set of combinations, any number of  *)
(* workers and data processors and any limits: types and the order of the  *)
(* end; no rows are lost, duplicated or overwritten, and the sweep         *)
(* implements ResultSink; a data processor holds what its limits allow and *)
(* only what is behind the end marker can be missing.                      *)
(***************************************************************************)
EXTENDS NanogemmSweep, FiniteSetTheorems, TLAPS

-----------------------------------------------------------------------------
(* Types. *)

(* A write leaves the files well-typed. *)
LEMMA WriteType ==
  ASSUME FilesOK, NEW d \in Dps, NEW n \in Nat, NEW rows \in SUBSET Tasks,
         Write(d, n, rows)
  PROVE  FilesOK'
<1> DEFINE new == [i \in DOMAIN files[d] \cup {n} |->
                     IF i = n THEN rows ELSE files[d][i]]
<1>1. files' = [files EXCEPT ![d] = new]
  BY DEF Write
<1>2. DOMAIN files' = Dps
  BY <1>1 DEF FilesOK
<1>3. ASSUME NEW e \in Dps, NEW m \in DOMAIN files'[e]
      PROVE  m \in Nat /\ files'[e][m] \in SUBSET Tasks
  <2>1. CASE e = d
    <3>1. files'[e] = new
      BY <1>1, <2>1 DEF FilesOK
    <3>2. m \in DOMAIN files[d] \cup {n}
      BY <1>3, <3>1
    <3> QED BY <3>1, <3>2 DEF FilesOK
  <2>2. CASE e # d
    BY <1>1, <1>3, <2>2 DEF FilesOK
  <2> QED BY <2>1, <2>2
<1> QED BY <1>2, <1>3 DEF FilesOK

(* The initial state is well-typed. *)
LEMMA InitType == Init => TypeOK
<1> SUFFICES ASSUME Init PROVE TypeOK
  OBVIOUS
<1>1. spawned \in Nat
  <2>1. Cardinality(Workers) \in Nat
    BY SweepAssumption, FS_CardinalityType
  <2> QED BY <2>1, SweepAssumption DEF Init
<1>2. serial \in [Workers -> Nat]
  BY <1>1, SweepAssumption DEF Init
<1>3. \A d \in Dps : DOMAIN files[d] = {}
  BY DEF Init
<1>4. FilesOK
  BY <1>3 DEF Init, FilesOK
<1>5. PoolOK
  BY <1>1, <1>2 DEF Init, PoolOK, Messages
<1>6. MainOK /\ DpOK
  BY DEF Init, MainOK, DpOK
<1>7. PipeOK
  BY DEF Init, PipeOK
<1> QED BY <1>4, <1>5, <1>6, <1>7 DEF TypeOK

(* Every step of a worker leaves the state well-typed. *)
LEMMA WorkerType ==
  ASSUME TypeOK, NEW w \in Workers, Worker(w) \/ Flush(w)
  PROVE  TypeOK'
<1>1. CASE Take(w)
  <2>1. PoolOK'
    BY <1>1 DEF TypeOK, Take, PoolOK, Messages
  <2>2. MainOK' /\ DpOK' /\ FilesOK'
    BY <1>1 DEF TypeOK, Take, PoolOK, MainOK, DpOK, FilesOK, mainVars, dpVars
  <2>3. PipeOK'
    BY <1>1 DEF TypeOK, Take, PoolOK, PipeOK
  <2> QED BY <2>1, <2>2, <2>3 DEF TypeOK
<1>2. CASE Simulate(w)
  <2>1. PoolOK'
    <3>1. wtask[w] \in Tasks
      BY <1>2 DEF TypeOK, Simulate, PoolOK
    <3>2. wbuf' \in [Workers -> SUBSET Messages] /\ produced' \in SUBSET Tasks
      BY <1>2, <3>1 DEF TypeOK, Simulate, PoolOK, Messages
    <3> QED BY <1>2, <3>1, <3>2 DEF TypeOK, Simulate, PoolOK
  <2>2. MainOK' /\ DpOK' /\ FilesOK'
    BY <1>2 DEF TypeOK, Simulate, PoolOK, MainOK, DpOK, FilesOK, mainVars, dpVars
  <2>3. PipeOK'
    BY <1>2 DEF TypeOK, Simulate, PoolOK, PipeOK
  <2> QED BY <2>1, <2>2, <2>3 DEF TypeOK
<1>3. CASE Report(w)
  <2>1. PoolOK'
    BY <1>3 DEF TypeOK, Report, PoolOK, Messages
  <2>2. MainOK' /\ DpOK' /\ FilesOK'
    BY <1>3 DEF TypeOK, Report, PoolOK, MainOK, DpOK, FilesOK, mainVars, dpVars
  <2>3. PipeOK'
    BY <1>3 DEF TypeOK, Report, PoolOK, PipeOK
  <2> QED BY <2>1, <2>2, <2>3 DEF TypeOK
<1>4. CASE Raise(w)
  <2>1. PoolOK'
    BY <1>4 DEF TypeOK, Raise, PoolOK, Messages
  <2>2. MainOK' /\ DpOK' /\ FilesOK'
    BY <1>4 DEF TypeOK, Raise, PoolOK, MainOK, DpOK, FilesOK, mainVars, dpVars
  <2>3. PipeOK'
    BY <1>4 DEF TypeOK, Raise, PoolOK, PipeOK
  <2> QED BY <2>1, <2>2, <2>3 DEF TypeOK
<1>5. CASE Die(w)
  <2>1. PoolOK'
    BY <1>5 DEF TypeOK, Die, PoolOK, Messages
  <2>2. MainOK' /\ DpOK' /\ FilesOK'
    BY <1>5 DEF TypeOK, Die, PoolOK, MainOK, DpOK, FilesOK, mainVars, dpVars
  <2>3. PipeOK'
    BY <1>5 DEF TypeOK, Die, PoolOK, PipeOK
  <2> QED BY <2>1, <2>2, <2>3 DEF TypeOK
<1>6. CASE Replace(w)
  <2>1. PoolOK'
    BY <1>6 DEF TypeOK, Replace, PoolOK, Messages
  <2>2. MainOK' /\ DpOK' /\ FilesOK'
    BY <1>6 DEF TypeOK, Replace, PoolOK, MainOK, DpOK, FilesOK, mainVars, dpVars
  <2>3. PipeOK'
    BY <1>6 DEF TypeOK, Replace, PoolOK, PipeOK
  <2> QED BY <2>1, <2>2, <2>3 DEF TypeOK
<1>7. CASE Leave(w)
  <2>1. PoolOK'
    BY <1>7 DEF TypeOK, Leave, PoolOK, Messages
  <2>2. MainOK' /\ DpOK' /\ FilesOK'
    BY <1>7 DEF TypeOK, Leave, PoolOK, MainOK, DpOK, FilesOK, mainVars, dpVars
  <2>3. PipeOK'
    BY <1>7 DEF TypeOK, Leave, PoolOK, PipeOK
  <2> QED BY <2>1, <2>2, <2>3 DEF TypeOK
<1>8. CASE Flush(w)
  <2>1. PoolOK'
    BY <1>8 DEF TypeOK, Flush, PoolOK, Messages
  <2>2. MainOK' /\ DpOK' /\ FilesOK'
    BY <1>8 DEF TypeOK, Flush, PoolOK, MainOK, DpOK, FilesOK, mainVars, dpVars
  <2>3. PipeOK'
    <3>1. PICK m \in Messages : pipe' = [pipe EXCEPT ![QueueOf(w)] = Append(@, m)]
      BY <1>8 DEF TypeOK, Flush, PoolOK
    <3>2. QueueOf(w) \in Dps
      BY <1>8, SweepAssumption DEF TypeOK, PoolOK, QueueOf, Dps
    <3> QED BY <3>1, <3>2 DEF TypeOK, PipeOK
  <2> QED BY <2>1, <2>2, <2>3 DEF TypeOK
<1> QED BY <1>1, <1>2, <1>3, <1>4, <1>5, <1>6, <1>7, <1>8 DEF Worker

(* Every step of a data processor leaves the state well-typed. *)
LEMMA DataProcessorType ==
  ASSUME TypeOK, NEW d \in Dps, DataProcessor(d) \/ DpCrash(d)
  PROVE  TypeOK'
<1>1. CASE CheckEvent(d)
  <2>1. PoolOK' /\ MainOK' /\ FilesOK'
    BY <1>1 DEF TypeOK, CheckEvent, PoolOK, MainOK, FilesOK, poolVars, mainVars
  <2>2. DpOK'
    BY <1>1 DEF TypeOK, CheckEvent, DpOK
  <2>3. PipeOK'
    BY <1>1 DEF TypeOK, CheckEvent, PipeOK
  <2> QED BY <2>1, <2>2, <2>3 DEF TypeOK
<1>2. CASE CheckEmpty(d)
  <2>1. PoolOK' /\ MainOK' /\ FilesOK'
    BY <1>2 DEF TypeOK, CheckEmpty, PoolOK, MainOK, FilesOK, poolVars, mainVars
  <2>2. DpOK'
    BY <1>2 DEF TypeOK, CheckEmpty, DpOK
  <2>3. PipeOK'
    BY <1>2 DEF TypeOK, CheckEmpty, PipeOK
  <2> QED BY <2>1, <2>2, <2>3 DEF TypeOK
<1>3. CASE GetEmpty(d)
  <2>1. PoolOK' /\ MainOK' /\ FilesOK'
    BY <1>3 DEF TypeOK, GetEmpty, PoolOK, MainOK, FilesOK, poolVars, mainVars
  <2>2. DpOK'
    BY <1>3 DEF TypeOK, GetEmpty, DpOK
  <2>3. PipeOK'
    BY <1>3 DEF TypeOK, GetEmpty, PipeOK
  <2> QED BY <2>1, <2>2, <2>3 DEF TypeOK
<1>4. CASE DpCrash(d)
  <2>1. PoolOK' /\ MainOK' /\ FilesOK'
    BY <1>4 DEF TypeOK, DpCrash, PoolOK, MainOK, FilesOK, poolVars, mainVars
  <2>2. DpOK'
    BY <1>4 DEF TypeOK, DpCrash, DpOK
  <2>3. PipeOK'
    BY <1>4 DEF TypeOK, DpCrash, PipeOK
  <2> QED BY <2>1, <2>2, <2>3 DEF TypeOK
<1>5. CASE Get(d)
  <2> DEFINE m == Head(pipe[d])
             df == IF frame[d] = {} THEN {m} ELSE frame[d]
             list == IF frame[d] = {} THEN dfList[d] ELSE dfList[d] \cup {m}
  <2>1. m \in Tasks
    BY <1>5 DEF TypeOK, PipeOK, Get, Messages
  <2>2. df \in SUBSET Tasks /\ list \in SUBSET Tasks
    BY <2>1 DEF TypeOK, DpOK
  <2>3. DpOK'
    BY <1>5, <2>2 DEF TypeOK, DpOK, Get
  <2>4. PoolOK' /\ MainOK' /\ FilesOK'
    BY <1>5 DEF TypeOK, Get, PoolOK, MainOK, FilesOK, poolVars, mainVars
  <2>5. PipeOK'
    BY <1>5 DEF TypeOK, Get, PipeOK
  <2> QED BY <2>3, <2>4, <2>5 DEF TypeOK
<1>6. CASE Save(d)
  <2>1. FilesOK'
    BY <1>6, WriteType DEF TypeOK, DpOK, Save
  <2>2. PoolOK' /\ MainOK' /\ DpOK' /\ PipeOK'
    BY <1>6 DEF TypeOK, Save, PoolOK, MainOK, DpOK, PipeOK, poolVars, mainVars
  <2> QED BY <2>1, <2>2 DEF TypeOK
<1>7. CASE SaveLast(d)
  <2>1. FilesOK'
    <3>1. CASE UNCHANGED files
      BY <3>1 DEF TypeOK, FilesOK
    <3>2. CASE Write(d, count[d], frame[d] \cup dfList[d])
      BY <3>2, WriteType DEF TypeOK, DpOK
    <3> QED BY <1>7, <3>1, <3>2 DEF SaveLast
  <2>2. PoolOK' /\ MainOK' /\ DpOK' /\ PipeOK'
    BY <1>7 DEF TypeOK, SaveLast, PoolOK, MainOK, DpOK, PipeOK, poolVars, mainVars
  <2> QED BY <2>1, <2>2 DEF TypeOK
<1> QED BY <1>1, <1>2, <1>3, <1>4, <1>5, <1>6, <1>7 DEF DataProcessor

(* Every step of main() leaves the state well-typed. *)
LEMMA MainType ==
  ASSUME TypeOK,
         Main \/ Interrupt \/ \E d \in Dps : FlushStop(d)
  PROVE  TypeOK'
<1>1. ASSUME CloseAndSetEnd \/ PutStops \/ JoinDps \/ JoinPool \/ Return \/ PropagateFailure
      PROVE  TypeOK'
  <2>1. PoolOK' /\ DpOK' /\ FilesOK' /\ PipeOK'
    BY <1>1 DEF TypeOK, PoolOK, DpOK, FilesOK, PipeOK, poolVars, dpVars, CloseAndSetEnd,
       PutStops, JoinDps, JoinPool, Return, PropagateFailure
  <2>2. MainOK'
    BY <1>1 DEF TypeOK, MainOK, CloseAndSetEnd, PutStops, JoinDps, JoinPool, Return,
       PropagateFailure
  <2> QED BY <2>1, <2>2 DEF TypeOK
<1>2. ASSUME AbandonPool \/ Interrupt \/ TerminateDps
      PROVE  TypeOK'
  <2>1. PoolOK'
    BY <1>2 DEF TypeOK, PoolOK, poolVars, AbandonPool, Interrupt, TerminateDps
  <2>2. DpOK'
    BY <1>2 DEF TypeOK, DpOK, dpVars, AbandonPool, Interrupt, TerminateDps
  <2>3. MainOK' /\ FilesOK' /\ PipeOK'
    BY <1>2 DEF TypeOK, MainOK, FilesOK, PipeOK, mainVars, dpVars, AbandonPool, Interrupt,
       TerminateDps
  <2> QED BY <2>1, <2>2, <2>3 DEF TypeOK
<1>3. ASSUME NEW d \in Dps, FlushStop(d)
      PROVE  TypeOK'
  <2>1. PipeOK'
    BY <1>3 DEF TypeOK, PipeOK, FlushStop, Messages
  <2>2. PoolOK' /\ MainOK' /\ DpOK' /\ FilesOK'
    BY <1>3 DEF TypeOK, PoolOK, MainOK, DpOK, FilesOK, poolVars, dpVars, FlushStop
  <2> QED BY <2>1, <2>2 DEF TypeOK
<1> QED BY <1>1, <1>2, <1>3 DEF Main

(* Every step leaves the state well-typed. *)
LEMMA TypeStep == TypeOK /\ [Next]_vars => TypeOK'
<1> SUFFICES ASSUME TypeOK, [Next]_vars PROVE TypeOK'
  OBVIOUS
<1>1. CASE Next
  BY <1>1, WorkerType, DataProcessorType, MainType DEF Next
<1>2. CASE UNCHANGED vars
  BY <1>2 DEF TypeOK, PoolOK, MainOK, PipeOK, DpOK, FilesOK, vars, poolVars, mainVars, dpVars
<1> QED BY <1>1, <1>2

(* Every state of the sweep is well-typed: in particular queue numbers are *)
(* those of existing data processors, and a worker that runs or reports    *)
(* has a combination.                                                      *)
THEOREM TypeCorrect == Spec => []TypeOK
  BY InitType, TypeStep, PTL DEF Spec

-----------------------------------------------------------------------------
(* A combination has one fate, and a data processor leaves only after all. *)

Busy(w) == wst[w] \in {"running", "put"}

(* A combination waits, runs in one worker, or has one result.             *)
OneFate ==
  /\ todo \cap (reported \cup failed) = {}
  /\ reported \cap failed = {}
  /\ \A w \in Workers : Busy(w) => wtask[w] \notin todo \cup reported \cup failed
  /\ \A v, w \in Workers : Busy(v) /\ Busy(w) /\ v # w => wtask[v] # wtask[w]

(* end_event follows the success of all, and what leads out of the loop of *)
(* a data processor follows end_event.                                     *)
EndOrder ==
  /\ endEvent => reported = Tasks
  /\ main = "raised" => failed # {}
  /\ \A d \in Dps : dp[d] \in {"empty?", "last", "exited"} => endEvent
  /\ \A d \in Dps : dp[d] = "exited" => frame[d] = {} /\ dfList[d] = {}

SweepInv == TypeOK /\ OneFate /\ EndOrder

LEMMA InitSweepInv == Init => SweepInv
<1> SUFFICES ASSUME Init PROVE OneFate /\ EndOrder
  BY InitType DEF SweepInv
<1>1. OneFate
  BY DEF Init, OneFate, Busy
<1>2. EndOrder
  BY DEF Init, EndOrder
<1> QED BY <1>1, <1>2

LEMMA OneFateKept ==
  ASSUME SweepInv, Next
  PROVE  OneFate'
<1> USE DEF SweepInv, TypeOK, PoolOK
<1>1. ASSUME NEW w \in Workers, Worker(w) \/ Flush(w)
      PROVE  OneFate'
  <2>1. CASE Take(w)
    BY <2>1 DEF Take, OneFate, Busy, mainVars
  <2>2. CASE Simulate(w)
    BY <2>2 DEF Simulate, OneFate, Busy, mainVars
  <2>3. CASE Report(w)
    BY <2>3 DEF Report, OneFate, Busy
  <2>4. CASE Raise(w)
    BY <2>4 DEF Raise, OneFate, Busy
  <2>5. CASE Die(w)
    BY <2>5 DEF Die, OneFate, Busy, mainVars
  <2>6. CASE Replace(w)
    BY <2>6 DEF Replace, OneFate, Busy, mainVars
  <2>7. CASE Leave(w)
    BY <2>7 DEF Leave, OneFate, Busy, mainVars
  <2>8. CASE Flush(w)
    BY <2>8 DEF Flush, OneFate, Busy, mainVars
  <2> QED BY <1>1, <2>1, <2>2, <2>3, <2>4, <2>5, <2>6, <2>7, <2>8 DEF Worker
<1>2. ASSUME NEW d \in Dps, DataProcessor(d) \/ FlushStop(d) \/ DpCrash(d)
      PROVE  OneFate'
  BY <1>2 DEF DataProcessor, CheckEvent, CheckEmpty, GetEmpty, Get, Save, SaveLast, DpCrash,
     FlushStop, OneFate, Busy, poolVars, mainVars
<1>3. ASSUME Main \/ Interrupt
      PROVE  OneFate'
  BY <1>3 DEF Main, CloseAndSetEnd, PutStops, JoinDps, JoinPool, Return, PropagateFailure,
     AbandonPool, TerminateDps, Interrupt, OneFate, Busy, poolVars, mainVars
<1> QED BY <1>1, <1>2, <1>3 DEF Next

LEMMA EndOrderKept ==
  ASSUME SweepInv, Next
  PROVE  EndOrder'
<1> USE DEF SweepInv, TypeOK, MainOK, DpOK
<1>1. ASSUME NEW w \in Workers, Worker(w) \/ Flush(w)
      PROVE  EndOrder'
  <2>1. UNCHANGED <<endEvent, main, dp, frame, dfList>>
    BY <1>1 DEF Worker, Take, Simulate, Report, Raise, Die, Replace, Leave, Flush, mainVars, dpVars
  <2>2. reported \subseteq reported' /\ reported' \subseteq Tasks /\ failed \subseteq failed'
    BY <1>1 DEF Worker, Take, Simulate, Report, Raise, Die, Replace, Leave, Flush, mainVars, PoolOK
  <2> QED BY <2>1, <2>2 DEF EndOrder
<1>2. ASSUME NEW d \in Dps, DataProcessor(d) \/ DpCrash(d)
      PROVE  EndOrder'
  <2>1. UNCHANGED <<endEvent, main, reported, failed>>
    BY <1>2 DEF DataProcessor, CheckEvent, CheckEmpty, GetEmpty, Get, Save, SaveLast, DpCrash, mainVars
  <2>2. \A e \in Dps \ {d} : dp'[e] = dp[e] /\ frame'[e] = frame[e] /\ dfList'[e] = dfList[e]
    BY <1>2 DEF DataProcessor, CheckEvent, CheckEmpty, GetEmpty, Get, Save, SaveLast, DpCrash
  <2>3. dp'[d] \in {"empty?", "last", "exited"} => endEvent
    BY <1>2 DEF DataProcessor, CheckEvent, CheckEmpty, GetEmpty, Get, Save, SaveLast, DpCrash, EndOrder
  <2>4. dp'[d] = "exited" => frame'[d] = {} /\ dfList'[d] = {}
    BY <1>2 DEF DataProcessor, CheckEvent, CheckEmpty, GetEmpty, Get, Save, SaveLast, DpCrash
  <2> QED BY <2>1, <2>2, <2>3, <2>4 DEF EndOrder
<1>3. ASSUME Main \/ Interrupt \/ \E d \in Dps : FlushStop(d)
      PROVE  EndOrder'
  BY <1>3 DEF Main, CloseAndSetEnd, PutStops, JoinDps, JoinPool, Return, PropagateFailure,
     AbandonPool, TerminateDps, Interrupt, FlushStop, EndOrder, mainVars, dpVars
<1> QED BY <1>1, <1>2, <1>3 DEF Next

LEMMA SweepStep == SweepInv /\ [Next]_vars => SweepInv'
<1> SUFFICES ASSUME SweepInv, [Next]_vars PROVE OneFate' /\ EndOrder'
  BY TypeStep DEF SweepInv
<1>1. CASE Next
  BY <1>1, OneFateKept, EndOrderKept
<1>2. CASE UNCHANGED vars
  BY <1>2 DEF SweepInv, OneFate, EndOrder, Busy, vars, poolVars, mainVars, dpVars
<1> QED BY <1>1, <1>2

(* In every state each combination has one fate, and end_event stands for  *)
(* the success of all.                                                     *)
THEOREM SweepInvariant == Spec => []SweepInv
  BY InitSweepInv, SweepStep, PTL DEF Spec

(* A data processor that returns has written everything it had taken, and  *)
(* returns only after every simulation has succeeded (main 714-744,        *)
(* process_results 464-533).                                               *)
THEOREM ReturnsEmptyHanded == Spec => []ExitedIsEmptyHanded
<1>1. SweepInv => ExitedIsEmptyHanded
  BY DEF SweepInv, EndOrder, ExitedIsEmptyHanded
<1> QED BY <1>1, SweepInvariant, PTL

(* One simulation that raises is enough for no data processor ever to      *)
(* return, whatever the number of workers, queues and combinations.        *)
THEOREM FailureStrandsProcessors == Spec => []FailureLeavesProcessorsWaiting
<1>1. SweepInv => FailureLeavesProcessorsWaiting
  <2> SUFFICES ASSUME SweepInv, main = "raised" \/ failed # {}
               PROVE  ~endEvent /\ \A d \in Dps : dp[d] # "exited"
    BY DEF FailureLeavesProcessorsWaiting
  <2>1. failed # {} /\ failed \subseteq Tasks /\ reported \cap failed = {}
    BY DEF SweepInv, TypeOK, MainOK, OneFate, EndOrder
  <2>2. reported # Tasks
    BY <2>1
  <2> QED BY <2>2 DEF SweepInv, EndOrder
<1> QED BY <1>1, SweepInvariant, PTL
-----------------------------------------------------------------------------
(* Where a data processor has the rows of combination t. *)
InQueue(t, d) == \E i \in 1 .. Len(pipe[d]) : pipe[d][i] = t
Held(t, d)    == t \in frame[d] \/ t \in dfList[d]
Filed(t, d)   == \E n \in DOMAIN files[d] : t \in files[d][n]
AtDp(t, d)    == InQueue(t, d) \/ Held(t, d) \/ Filed(t, d)

(* A data processor has the rows of t in one place at most. *)
OnceAt(t, d) ==
  /\ \A i, j \in 1 .. Len(pipe[d]) : pipe[d][i] = t /\ pipe[d][j] = t => i = j
  /\ InQueue(t, d) => ~Held(t, d) /\ ~Filed(t, d)
  /\ ~(t \in frame[d] /\ t \in dfList[d])
  /\ Held(t, d) => ~Filed(t, d)
  /\ \A m, n \in DOMAIN files[d] : t \in files[d][m] /\ t \in files[d][n] => m = n

Once ==
  \A t \in Tasks :
    /\ \A v, w \in Workers : t \in wbuf[v] /\ t \in wbuf[w] => v = w
    /\ \A w \in Workers, d \in Dps : t \in wbuf[w] => ~AtDp(t, d)
    /\ \A d, e \in Dps : AtDp(t, d) /\ AtDp(t, e) => d = e
    /\ \A d \in Dps : OnceAt(t, d)

(* Rows are on their way only after their simulation has delivered them,   *)
(* which it does once.                                                     *)
Produced ==
  /\ produced \cap todo = {}
  /\ \A w \in Workers : wst[w] = "running" => wtask[w] \notin produced
  /\ \A t \in Tasks, w \in Workers : t \in wbuf[w] => t \in produced
  /\ \A t \in Tasks, d \in Dps : AtDp(t, d) => t \in produced

(* The number of the next file is above those of the files there are. *)
Numbered ==
  \A d \in Dps : dp[d] # "exited" => \A n \in DOMAIN files[d] : n < count[d]

(* Rows stay on their way while nothing kills the workers. *)
Kept ==
  main \notin {"raised", "terminating", "interrupted"} =>
    \A t \in produced : (\E w \in Workers : t \in wbuf[w]) \/ (\E d \in Dps : AtDp(t, d))

RowsInv == SweepInv /\ Once /\ Produced /\ Numbered /\ Kept
-----------------------------------------------------------------------------
(* What the parts of a step do to the places of rows. *)

LEMMA TailQueue ==
  ASSUME TypeOK, NEW d \in Dps, pipe[d] # <<>>, pipe' = [pipe EXCEPT ![d] = Tail(@)]
  PROVE  /\ \A e \in Dps \ {d} : pipe'[e] = pipe[e]
         /\ Head(pipe[d]) \in Messages
         /\ Len(pipe[d]) \in Nat \ {0} /\ pipe[d][1] = Head(pipe[d])
         /\ Len(pipe'[d]) = Len(pipe[d]) - 1
         /\ \A i \in 1 .. Len(pipe'[d]) : pipe'[d][i] = pipe[d][i + 1]
<1>1. pipe[d] \in Seq(Messages) /\ pipe' \in [Dps -> Seq(Messages)]
  BY DEF TypeOK, PipeOK
<1> QED BY <1>1 DEF TypeOK, PipeOK

LEMMA QueueShifts ==
  ASSUME TypeOK, NEW d \in Dps, pipe[d] # <<>>, pipe' = [pipe EXCEPT ![d] = Tail(@)],
         NEW t \in Tasks, OnceAt(t, d)
  PROVE  /\ InQueue(t, d) <=> InQueue(t, d)' \/ t = Head(pipe[d])
         /\ t = Head(pipe[d]) => ~InQueue(t, d)'
         /\ \A i, j \in 1 .. Len(pipe'[d]) : pipe'[d][i] = t /\ pipe'[d][j] = t => i = j
<1>1. /\ Len(pipe[d]) \in Nat \ {0} /\ pipe[d][1] = Head(pipe[d])
      /\ Len(pipe'[d]) = Len(pipe[d]) - 1
      /\ \A i \in 1 .. Len(pipe'[d]) : pipe'[d][i] = pipe[d][i + 1]
  BY TailQueue
<1>2. InQueue(t, d)' => InQueue(t, d)
  BY <1>1 DEF InQueue
<1>3. t = Head(pipe[d]) => InQueue(t, d)
  BY <1>1 DEF InQueue
<1>4. ASSUME InQueue(t, d), t # Head(pipe[d]) PROVE InQueue(t, d)'
  <2>1. PICK i \in 1 .. Len(pipe[d]) : pipe[d][i] = t
    BY <1>4 DEF InQueue
  <2>2. i - 1 \in 1 .. Len(pipe'[d]) /\ pipe'[d][i - 1] = t
    BY <1>1, <1>4, <2>1
  <2> QED BY <2>2 DEF InQueue
<1>5. t = Head(pipe[d]) => ~InQueue(t, d)'
  <2> SUFFICES ASSUME t = Head(pipe[d]), NEW i \in 1 .. Len(pipe'[d]), pipe'[d][i] = t
               PROVE  FALSE
    BY DEF InQueue
  <2> QED BY <1>1 DEF OnceAt
<1>6. \A i, j \in 1 .. Len(pipe'[d]) : pipe'[d][i] = t /\ pipe'[d][j] = t => i = j
  <2> SUFFICES ASSUME NEW i \in 1 .. Len(pipe'[d]), NEW j \in 1 .. Len(pipe'[d]),
                      pipe'[d][i] = t, pipe'[d][j] = t
               PROVE  i = j
    OBVIOUS
  <2>1. i + 1 \in 1 .. Len(pipe[d]) /\ j + 1 \in 1 .. Len(pipe[d])
        /\ pipe[d][i + 1] = t /\ pipe[d][j + 1] = t
    BY <1>1
  <2>2. i + 1 = j + 1
    BY <2>1 DEF OnceAt
  <2> QED BY <2>2
<1> QED BY <1>2, <1>3, <1>4, <1>5, <1>6

Put(d, m) == pipe' = [pipe EXCEPT ![d] = Append(@, m)]

LEMMA AppendQueue ==
  ASSUME TypeOK, NEW d \in Dps, NEW m \in Messages, Put(d, m)
  PROVE  /\ \A e \in Dps \ {d} : pipe'[e] = pipe[e]
         /\ \A t \in Messages : InQueue(t, d)' <=> InQueue(t, d) \/ t = m
         /\ \A t \in Tasks : OnceAt(t, d) /\ (t = m => ~InQueue(t, d)) =>
              \A i, j \in 1 .. Len(pipe'[d]) : pipe'[d][i] = t /\ pipe'[d][j] = t => i = j
<1>1. pipe[d] \in Seq(Messages) /\ DOMAIN pipe = Dps
  BY DEF TypeOK, PipeOK
<1>2. /\ Len(pipe[d]) \in Nat /\ Len(pipe'[d]) = Len(pipe[d]) + 1
      /\ \A i \in 1 .. Len(pipe[d]) : pipe'[d][i] = pipe[d][i]
      /\ pipe'[d][Len(pipe[d]) + 1] = m
  BY <1>1 DEF Put
<1>3. \A e \in Dps \ {d} : pipe'[e] = pipe[e]
  BY <1>1 DEF Put
<1>4. \A t \in Messages : InQueue(t, d)' <=> InQueue(t, d) \/ t = m
  BY <1>2 DEF InQueue
<1>5. ASSUME NEW t \in Tasks, OnceAt(t, d), t = m => ~InQueue(t, d),
             NEW i \in 1 .. Len(pipe'[d]), NEW j \in 1 .. Len(pipe'[d]),
             pipe'[d][i] = t, pipe'[d][j] = t
      PROVE  i = j
  <2>1. CASE i \in 1 .. Len(pipe[d]) /\ j \in 1 .. Len(pipe[d])
    BY <1>2, <1>5, <2>1 DEF OnceAt
  <2>2. CASE i = Len(pipe[d]) + 1 \/ j = Len(pipe[d]) + 1
    BY <1>2, <1>5, <2>2 DEF InQueue
  <2> QED BY <1>2, <2>1, <2>2
<1> QED BY <1>3, <1>4, <1>5

LEMMA WriteAdds ==
  ASSUME FilesOK, NEW d \in Dps, NEW n \in Nat, NEW rows \in SUBSET Tasks,
         n \notin DOMAIN files[d], Write(d, n, rows)
  PROVE  /\ \A e \in Dps \ {d} : files'[e] = files[e]
         /\ DOMAIN files'[d] = DOMAIN files[d] \cup {n}
         /\ \A m \in DOMAIN files[d] : files'[d][m] = files[d][m]
         /\ files'[d][n] = rows
         /\ \A t \in Tasks : Filed(t, d)' <=> Filed(t, d) \/ t \in rows
<1> DEFINE new == [i \in DOMAIN files[d] \cup {n} |->
                     IF i = n THEN rows ELSE files[d][i]]
<1>1. files' = [files EXCEPT ![d] = new] /\ DOMAIN files = Dps
  BY DEF Write, FilesOK
<1>2. files'[d] = new
  BY <1>1
<1>3. \A e \in Dps \ {d} : files'[e] = files[e]
  BY <1>1
<1>4. /\ DOMAIN files'[d] = DOMAIN files[d] \cup {n}
      /\ \A m \in DOMAIN files[d] : files'[d][m] = files[d][m]
      /\ files'[d][n] = rows
  BY <1>2
<1>5. \A t \in Tasks : Filed(t, d)' <=> Filed(t, d) \/ t \in rows
  BY <1>4 DEF Filed
<1> QED BY <1>3, <1>4, <1>5
-----------------------------------------------------------------------------
(* Every step keeps the rows where it should. *)

PlaceVars == <<wbuf, pipe, frame, dfList, files>>

(* A step that moves no rows. *)
LEMMA StillKeepsOnce ==
  ASSUME Once, UNCHANGED PlaceVars
  PROVE  /\ Once'
         /\ \A t \in Tasks, d \in Dps : AtDp(t, d)' <=> AtDp(t, d)
<1>1. \A t \in Tasks, d \in Dps :
        /\ InQueue(t, d)' <=> InQueue(t, d)
        /\ Held(t, d)' <=> Held(t, d)
        /\ Filed(t, d)' <=> Filed(t, d)
  BY DEF PlaceVars, InQueue, Held, Filed
<1>2. \A t \in Tasks, d \in Dps : OnceAt(t, d) => OnceAt(t, d)'
  BY <1>1 DEF OnceAt, PlaceVars
<1>3. \A t \in Tasks, d \in Dps : AtDp(t, d)' <=> AtDp(t, d)
  BY <1>1 DEF AtDp
<1> QED BY <1>2, <1>3 DEF Once, PlaceVars

(* What one data processor does to its own rows does not concern others.   *)
LEMMA OwnRowsOnly ==
  ASSUME Once, UNCHANGED wbuf, NEW d \in Dps,
         \A e \in Dps \ {d} : /\ pipe'[e] = pipe[e] /\ files'[e] = files[e]
                              /\ frame'[e] = frame[e] /\ dfList'[e] = dfList[e],
         \A t \in Tasks : (AtDp(t, d)' <=> AtDp(t, d)) /\ OnceAt(t, d)'
  PROVE  /\ Once'
         /\ \A t \in Tasks, e \in Dps : AtDp(t, e)' <=> AtDp(t, e)
<1>1. \A t \in Tasks, e \in Dps \ {d} :
        /\ InQueue(t, e)' <=> InQueue(t, e)
        /\ Held(t, e)' <=> Held(t, e)
        /\ Filed(t, e)' <=> Filed(t, e)
  BY DEF InQueue, Held, Filed
<1>2. \A t \in Tasks, e \in Dps \ {d} : OnceAt(t, e) => OnceAt(t, e)'
  BY <1>1 DEF OnceAt
<1>3. \A t \in Tasks, e \in Dps : AtDp(t, e)' <=> AtDp(t, e)
  BY <1>1 DEF AtDp
<1>4. \A t \in Tasks, e \in Dps : OnceAt(t, e)'
  BY <1>2 DEF Once
<1> QED BY <1>3, <1>4 DEF Once

(* The frame taken from the queue goes to stat_df or to df_list. *)
LEMMA GetMovesOne ==
  ASSUME TypeOK, Once, NEW d \in Dps, Get(d)
  PROVE  /\ Once'
         /\ \A t \in Tasks, e \in Dps : AtDp(t, e)' <=> AtDp(t, e)
<1> DEFINE m == Head(pipe[d])
           df == IF frame[d] = {} THEN {m} ELSE frame[d]
           list == IF frame[d] = {} THEN dfList[d] ELSE dfList[d] \cup {m}
<1>1. pipe[d] # <<>> /\ pipe' = [pipe EXCEPT ![d] = Tail(@)] /\ m \in Tasks
  BY TailQueue DEF Get, Messages
<1>2. /\ \A e \in Dps \ {d} : /\ pipe'[e] = pipe[e] /\ files'[e] = files[e]
                              /\ frame'[e] = frame[e] /\ dfList'[e] = dfList[e]
      /\ UNCHANGED <<wbuf, files>>
  BY <1>1, TailQueue DEF Get, poolVars
<1>3. \/ frame'[d] = df \cup list /\ dfList'[d] = {}
      \/ frame'[d] = df /\ dfList'[d] = list
  BY DEF Get, TypeOK, DpOK
<1>4. ASSUME NEW t \in Tasks
      PROVE  /\ Held(t, d)' <=> Held(t, d) \/ t = m
             /\ ~(t \in frame[d] /\ t \in dfList[d]) /\ (t = m => ~Held(t, d))
                  => ~(t \in frame'[d] /\ t \in dfList'[d])
  BY <1>3 DEF Held
<1>5. ASSUME NEW t \in Tasks
      PROVE  (AtDp(t, d)' <=> AtDp(t, d)) /\ OnceAt(t, d)'
  <2>1. OnceAt(t, d)
    BY DEF Once
  <2>2. /\ InQueue(t, d) <=> InQueue(t, d)' \/ t = m
        /\ t = m => ~InQueue(t, d)'
        /\ \A i, j \in 1 .. Len(pipe'[d]) : pipe'[d][i] = t /\ pipe'[d][j] = t => i = j
    BY <1>1, <2>1, QueueShifts
  <2>3. Filed(t, d)' <=> Filed(t, d)
    BY <1>2 DEF Filed
  <2>4. OnceAt(t, d)'
    BY <1>2, <1>4, <2>1, <2>2, <2>3 DEF OnceAt
  <2>5. AtDp(t, d)' <=> AtDp(t, d)
    BY <1>4, <2>2, <2>3 DEF AtDp
  <2> QED BY <2>4, <2>5
<1> QED BY <1>2, <1>5, OwnRowsOnly

(* An empty frame taken from the queue moves no rows. *)
LEMMA GetEmptyMovesNone ==
  ASSUME TypeOK, Once, NEW d \in Dps, GetEmpty(d)
  PROVE  /\ Once'
         /\ \A t \in Tasks, e \in Dps : AtDp(t, e)' <=> AtDp(t, e)
<1>1. pipe[d] # <<>> /\ pipe' = [pipe EXCEPT ![d] = Tail(@)] /\ Head(pipe[d]) \notin Tasks
  BY SweepAssumption DEF GetEmpty
<1>2. /\ \A e \in Dps \ {d} : /\ pipe'[e] = pipe[e] /\ files'[e] = files[e]
                              /\ frame'[e] = frame[e] /\ dfList'[e] = dfList[e]
      /\ UNCHANGED <<wbuf, files, frame, dfList>>
  BY <1>1, TailQueue DEF GetEmpty, poolVars
<1>3. ASSUME NEW t \in Tasks
      PROVE  (AtDp(t, d)' <=> AtDp(t, d)) /\ OnceAt(t, d)'
  <2>1. OnceAt(t, d)
    BY DEF Once
  <2>2. /\ InQueue(t, d) <=> InQueue(t, d)'
        /\ \A i, j \in 1 .. Len(pipe'[d]) : pipe'[d][i] = t /\ pipe'[d][j] = t => i = j
    BY <1>1, <2>1, QueueShifts
  <2>3. (Filed(t, d)' <=> Filed(t, d)) /\ (Held(t, d)' <=> Held(t, d))
    BY <1>2 DEF Filed, Held
  <2>4. OnceAt(t, d)'
    BY <1>2, <2>1, <2>2, <2>3 DEF OnceAt
  <2> QED BY <2>2, <2>3, <2>4 DEF AtDp
<1> QED BY <1>2, <1>3, OwnRowsOnly

(* Held rows that are written to a new file are nowhere else afterwards.   *)
LEMMA WriteMovesHeld ==
  ASSUME TypeOK, Once, NEW d \in Dps, NEW rows \in SUBSET Tasks,
         count[d] \notin DOMAIN files[d], Write(d, count[d], rows),
         \A t \in Tasks : Held(t, d) <=> t \in rows \/ Held(t, d)',
         \A t \in Tasks : ~(t \in rows /\ Held(t, d)'),
         \A t \in Tasks : t \in frame'[d] /\ t \in dfList'[d] => t \in frame[d] /\ t \in dfList[d],
         \A e \in Dps \ {d} : frame'[e] = frame[e] /\ dfList'[e] = dfList[e],
         UNCHANGED <<wbuf, pipe>>
  PROVE  /\ Once'
         /\ \A t \in Tasks, e \in Dps : AtDp(t, e)' <=> AtDp(t, e)
<1>1. /\ \A e \in Dps \ {d} : files'[e] = files[e]
      /\ DOMAIN files'[d] = DOMAIN files[d] \cup {count[d]}
      /\ \A m \in DOMAIN files[d] : files'[d][m] = files[d][m]
      /\ files'[d][count[d]] = rows
      /\ \A t \in Tasks : Filed(t, d)' <=> Filed(t, d) \/ t \in rows
  <2>1. FilesOK /\ count[d] \in Nat
    BY DEF TypeOK, DpOK
  <2> QED BY <2>1, WriteAdds
<1>2. ASSUME NEW t \in Tasks
      PROVE  (AtDp(t, d)' <=> AtDp(t, d)) /\ OnceAt(t, d)'
  <2>1. OnceAt(t, d)
    BY DEF Once
  <2>2. InQueue(t, d)' <=> InQueue(t, d)
    BY DEF InQueue
  <2>3. AtDp(t, d)' <=> AtDp(t, d)
    BY <1>1, <2>2 DEF AtDp
  <2>4. t \in rows => ~Filed(t, d)
    BY <2>1 DEF OnceAt
  <2>5. \A m, n \in DOMAIN files'[d] : t \in files'[d][m] /\ t \in files'[d][n] => m = n
    BY <1>1, <2>1, <2>4 DEF OnceAt, Filed
  <2>6. OnceAt(t, d)'
    BY <1>1, <2>1, <2>2, <2>4, <2>5 DEF OnceAt
  <2> QED BY <2>3, <2>6
<1>3. \A e \in Dps \ {d} : /\ pipe'[e] = pipe[e] /\ files'[e] = files[e]
                          /\ frame'[e] = frame[e] /\ dfList'[e] = dfList[e]
  BY <1>1
<1> QED BY <1>2, <1>3, OwnRowsOnly

LEMMA SaveMovesFrame ==
  ASSUME TypeOK, Once, Numbered, NEW d \in Dps, Save(d)
  PROVE  /\ Once'
         /\ \A t \in Tasks, e \in Dps : AtDp(t, e)' <=> AtDp(t, e)
<1>1. count[d] \notin DOMAIN files[d]
  BY DEF Save, Numbered, TypeOK, DpOK
<1>2. frame[d] \in SUBSET Tasks /\ Write(d, count[d], frame[d])
  BY DEF Save, TypeOK, DpOK
<1>3. /\ frame'[d] = {} /\ dfList' = dfList /\ UNCHANGED <<wbuf, pipe>>
      /\ \A e \in Dps \ {d} : frame'[e] = frame[e] /\ dfList'[e] = dfList[e]
  BY DEF Save, TypeOK, DpOK, poolVars
<1>4. /\ \A t \in Tasks : Held(t, d) <=> t \in frame[d] \/ Held(t, d)'
      /\ \A t \in Tasks : ~(t \in frame[d] /\ Held(t, d)')
      /\ \A t \in Tasks : t \in frame'[d] /\ t \in dfList'[d] => t \in frame[d] /\ t \in dfList[d]
  BY <1>3 DEF Held, Once, OnceAt
<1> QED BY <1>1, <1>2, <1>3, <1>4, WriteMovesHeld

LEMMA SaveLastMovesRest ==
  ASSUME TypeOK, Once, Numbered, NEW d \in Dps, SaveLast(d)
  PROVE  /\ Once'
         /\ \A t \in Tasks, e \in Dps : AtDp(t, e)' <=> AtDp(t, e)
<1>1. count[d] \notin DOMAIN files[d]
  BY DEF SaveLast, Numbered, TypeOK, DpOK
<1>2. /\ frame'[d] = {} /\ dfList'[d] = {} /\ UNCHANGED <<wbuf, pipe>>
      /\ \A e \in Dps \ {d} : frame'[e] = frame[e] /\ dfList'[e] = dfList[e]
  BY DEF SaveLast, TypeOK, DpOK, poolVars
<1>3. CASE frame[d] \cup dfList[d] = {}
  <2>1. UNCHANGED files
    BY <1>3 DEF SaveLast
  <2>2. frame' = frame /\ dfList' = dfList
    BY <1>2, <1>3 DEF SaveLast, TypeOK, DpOK
  <2> QED BY <1>2, <2>1, <2>2, StillKeepsOnce DEF PlaceVars
<1>4. CASE frame[d] \cup dfList[d] # {}
  <2>1. frame[d] \cup dfList[d] \in SUBSET Tasks /\ Write(d, count[d], frame[d] \cup dfList[d])
    BY <1>4 DEF SaveLast, TypeOK, DpOK
  <2>2. /\ \A t \in Tasks : Held(t, d) <=> t \in frame[d] \cup dfList[d] \/ Held(t, d)'
        /\ \A t \in Tasks : ~(t \in frame[d] \cup dfList[d] /\ Held(t, d)')
        /\ \A t \in Tasks : t \in frame'[d] /\ t \in dfList'[d] => t \in frame[d] /\ t \in dfList[d]
    BY <1>2 DEF Held
  <2> QED BY <1>1, <1>2, <2>1, <2>2, WriteMovesHeld
<1> QED BY <1>3, <1>4
(* The rows a simulation delivers are new. *)
LEMMA SimulateAddsOne ==
  ASSUME RowsInv, NEW w \in Workers, Simulate(w)
  PROVE  Once' /\ Produced' /\ Kept'
<1>1. /\ wst[w] = "running" /\ wtask[w] \in Tasks /\ wtask[w] \notin produced
      /\ UNCHANGED <<todo, wtask, main, pipe, frame, dfList, files>>
      /\ wst' = [wst EXCEPT ![w] = "put"]
  BY DEF RowsInv, SweepInv, TypeOK, PoolOK, Produced, Simulate, mainVars, dpVars
<1>2. \A t \in Tasks, d \in Dps :
        (AtDp(t, d)' <=> AtDp(t, d)) /\ (OnceAt(t, d) => OnceAt(t, d)')
  BY <1>1 DEF AtDp, OnceAt, InQueue, Held, Filed
<1>3. CASE wbuf' = [wbuf EXCEPT ![w] = @ \cup {wtask[w]}] /\ produced' = produced \cup {wtask[w]}
  <2>1. \A t \in Tasks, v \in Workers : t \in wbuf'[v] <=> t \in wbuf[v] \/ (v = w /\ t = wtask[w])
    BY <1>3 DEF RowsInv, SweepInv, TypeOK, PoolOK
  <2>2. /\ \A v \in Workers : wtask[w] \notin wbuf[v]
        /\ \A d \in Dps : ~AtDp(wtask[w], d)
    BY <1>1 DEF RowsInv, Produced
  <2>3. Once'
    BY <1>2, <2>1, <2>2 DEF RowsInv, Once
  <2>4. Produced'
    <3>1. produced' \cap todo' = {}
      BY <1>1, <1>3 DEF RowsInv, SweepInv, OneFate, Busy, Produced
    <3>2. \A v \in Workers : wst'[v] = "running" => wtask'[v] \notin produced'
      BY <1>1, <1>3 DEF RowsInv, SweepInv, TypeOK, PoolOK, OneFate, Busy, Produced
    <3> QED BY <1>2, <1>3, <2>1, <3>1, <3>2 DEF RowsInv, Produced
  <2>5. Kept'
    BY <1>1, <1>2, <1>3, <2>1 DEF RowsInv, SweepInv, TypeOK, PoolOK, Kept
  <2> QED BY <2>3, <2>4, <2>5
<1>4. CASE wbuf' = [wbuf EXCEPT ![w] = @ \cup {Empty}] /\ UNCHANGED produced
  <2>1. \A t \in Tasks, v \in Workers : t \in wbuf'[v] <=> t \in wbuf[v]
    BY <1>4, SweepAssumption DEF RowsInv, SweepInv, TypeOK, PoolOK
  <2>2. Once'
    BY <1>2, <2>1 DEF RowsInv, Once
  <2>3. Produced'
    BY <1>1, <1>2, <1>4, <2>1 DEF RowsInv, SweepInv, TypeOK, PoolOK, Produced
  <2>4. Kept'
    BY <1>1, <1>2, <1>4, <2>1 DEF RowsInv, SweepInv, TypeOK, PoolOK, Kept
  <2> QED BY <2>2, <2>3, <2>4
<1> QED BY <1>3, <1>4 DEF Simulate

(* A feeder thread moves a message from its buffer to the end of a pipe.   *)
LEMMA FlushMovesOne ==
  ASSUME RowsInv, NEW w \in Workers, Flush(w)
  PROVE  Once' /\ Produced' /\ Kept'
<1>1. UNCHANGED <<todo, wst, wtask, produced, main, frame, dfList, files>>
  BY DEF Flush, mainVars, dpVars
<1>q. PICK q \in Dps : q = QueueOf(w)
  BY SweepAssumption DEF RowsInv, SweepInv, TypeOK, PoolOK, QueueOf, Dps
<1>2. PICK m \in wbuf[w] :
        /\ wbuf' = [wbuf EXCEPT ![w] = @ \ {m}]
        /\ pipe' = [pipe EXCEPT ![q] = Append(@, m)]
  BY <1>q DEF Flush
<1>3. m \in Messages /\ TypeOK
  BY <1>2 DEF RowsInv, SweepInv, TypeOK, PoolOK
<1>4. /\ \A e \in Dps \ {q} : pipe'[e] = pipe[e]
      /\ \A t \in Messages : InQueue(t, q)' <=> InQueue(t, q) \/ t = m
      /\ \A t \in Tasks : OnceAt(t, q) /\ (t = m => ~InQueue(t, q)) =>
           \A i, j \in 1 .. Len(pipe'[q]) : pipe'[q][i] = t /\ pipe'[q][j] = t => i = j
  <2>1. Put(q, m)
    BY <1>2 DEF Put
  <2> QED BY <1>3, <2>1, AppendQueue
<1>5. \A t \in Tasks, v \in Workers : t \in wbuf'[v] <=> t \in wbuf[v] /\ ~(v = w /\ t = m)
  BY <1>2, <1>3 DEF TypeOK, PoolOK
<1>6. \A t \in Tasks, d \in Dps :
        /\ Held(t, d)' <=> Held(t, d)
        /\ Filed(t, d)' <=> Filed(t, d)
        /\ InQueue(t, d)' <=> InQueue(t, d) \/ (d = q /\ t = m)
  BY <1>1, <1>4, <1>q DEF Held, Filed, InQueue, Messages
<1>7. \A t \in Tasks, d \in Dps : AtDp(t, d)' <=> AtDp(t, d) \/ (d = q /\ t = m)
  BY <1>6 DEF AtDp
<1>8. ASSUME NEW t \in Tasks
      PROVE  /\ t = m => \A d \in Dps : ~AtDp(t, d)
             /\ t = m => \A v \in Workers \ {w} : t \notin wbuf[v]
             /\ \A d \in Dps : OnceAt(t, d)
  BY <1>2, <1>8 DEF RowsInv, Once
<1>9. ASSUME NEW t \in Tasks, NEW d \in Dps
      PROVE  OnceAt(t, d)'
  <2>1. \A i, j \in 1 .. Len(pipe'[d]) : pipe'[d][i] = t /\ pipe'[d][j] = t => i = j
    <3>1. CASE d = q
      BY <1>4, <1>8, <3>1 DEF AtDp
    <3>2. CASE d # q
      BY <1>4, <1>8, <3>2 DEF OnceAt
    <3> QED BY <3>1, <3>2
  <2> QED BY <1>1, <1>6, <1>8, <2>1 DEF OnceAt, AtDp
<1>10. Once'
  BY <1>5, <1>7, <1>8, <1>9 DEF RowsInv, Once
<1>11. Produced'
  BY <1>1, <1>2, <1>5, <1>7 DEF RowsInv, Produced
<1>12. Kept'
  BY <1>1, <1>2, <1>3, <1>5, <1>7 DEF RowsInv, Kept, TypeOK, PoolOK
<1> QED BY <1>10, <1>11, <1>12

(* The other steps of a worker move no rows. *)
LEMMA WorkerKeepsRows ==
  ASSUME RowsInv, NEW w \in Workers, Worker(w) \/ Flush(w)
  PROVE  Once' /\ Produced' /\ Numbered' /\ Kept'
<1>1. Numbered'
  <2>1. UNCHANGED <<dp, count, files>>
    BY DEF Worker, Take, Simulate, Report, Raise, Die, Replace, Leave, Flush, dpVars
  <2> QED BY <2>1 DEF RowsInv, Numbered
<1>2. ASSUME Take(w) \/ Report(w) \/ Raise(w) \/ Die(w) \/ Replace(w) \/ Leave(w)
      PROVE  Once' /\ Produced' /\ Kept'
  <2>1. UNCHANGED PlaceVars /\ UNCHANGED <<produced, main>>
    BY <1>2 DEF PlaceVars, Take, Report, Raise, Die, Replace, Leave, mainVars, dpVars
  <2>2. Once' /\ \A t \in Tasks, d \in Dps : AtDp(t, d)' <=> AtDp(t, d)
    BY <2>1, StillKeepsOnce DEF RowsInv
  <2>3. /\ produced' \cap todo' = {}
        /\ \A v \in Workers : wst'[v] = "running" => wtask'[v] \notin produced'
    BY <1>2, <2>1 DEF Take, Report, Raise, Die, Replace, Leave, RowsInv, Produced, SweepInv, TypeOK,
       PoolOK
  <2>4. Produced'
    BY <2>1, <2>2, <2>3 DEF RowsInv, Produced, PlaceVars
  <2>5. Kept'
    BY <2>1, <2>2 DEF RowsInv, Kept, PlaceVars, SweepInv, TypeOK, PoolOK
  <2> QED BY <2>2, <2>4, <2>5
<1> QED BY <1>1, <1>2, SimulateAddsOne, FlushMovesOne DEF Worker

(* Every step of a data processor. *)
LEMMA DataProcessorKeepsRows ==
  ASSUME RowsInv, NEW d \in Dps, DataProcessor(d) \/ DpCrash(d)
  PROVE  Once' /\ Produced' /\ Numbered' /\ Kept'
<1>1. UNCHANGED <<todo, wst, wtask, wbuf, produced, main>>
  BY DEF DataProcessor, CheckEvent, CheckEmpty, GetEmpty, Get, Save, SaveLast, DpCrash,
     poolVars, mainVars
<1>2. Once' /\ \A t \in Tasks, e \in Dps : AtDp(t, e)' <=> AtDp(t, e)
  <2>1. CASE CheckEvent(d) \/ CheckEmpty(d) \/ DpCrash(d)
    <3>1. UNCHANGED PlaceVars
      BY <2>1 DEF CheckEvent, CheckEmpty, DpCrash, PlaceVars, poolVars
    <3> QED BY <3>1, StillKeepsOnce DEF RowsInv
  <2>2. TypeOK /\ Once /\ Numbered
    BY DEF RowsInv, SweepInv
  <2> QED BY <2>1, <2>2, GetMovesOne, GetEmptyMovesNone, SaveMovesFrame, SaveLastMovesRest
      DEF DataProcessor
<1>3. Produced'
  BY <1>1, <1>2 DEF RowsInv, Produced
<1>4. Kept'
  BY <1>1, <1>2 DEF RowsInv, Kept, SweepInv, TypeOK, PoolOK
<1>5. Numbered'
  <2>1. CASE CheckEvent(d) \/ CheckEmpty(d) \/ DpCrash(d) \/ Get(d) \/ GetEmpty(d)
    BY <2>1 DEF CheckEvent, CheckEmpty, DpCrash, Get, GetEmpty, RowsInv, SweepInv, TypeOK, DpOK,
       Numbered
  <2>2. CASE Save(d)
    <3>1. count[d] \in Nat /\ \A n \in DOMAIN files[d] : n \in Nat /\ n < count[d]
      BY <2>2 DEF RowsInv, SweepInv, TypeOK, DpOK, FilesOK, Numbered, Save
    <3>2. /\ DOMAIN files'[d] = DOMAIN files[d] \cup {count[d]}
          /\ \A e \in Dps \ {d} : files'[e] = files[e]
      <4>1. FilesOK /\ frame[d] \in SUBSET Tasks /\ count[d] \notin DOMAIN files[d]
        BY <3>1 DEF RowsInv, SweepInv, TypeOK, DpOK
      <4> QED BY <2>2, <3>1, <4>1, WriteAdds DEF Save
    <3>3. /\ count'[d] = count[d] + 1
          /\ \A e \in Dps \ {d} : count'[e] = count[e] /\ dp'[e] = dp[e]
      BY <2>2 DEF RowsInv, SweepInv, TypeOK, DpOK, Save
    <3> QED BY <3>1, <3>2, <3>3 DEF RowsInv, Numbered
  <2>3. CASE SaveLast(d)
    <3>1. /\ dp'[d] = "exited"
          /\ \A e \in Dps \ {d} : count'[e] = count[e] /\ dp'[e] = dp[e] /\ files'[e] = files[e]
      BY <2>3 DEF RowsInv, SweepInv, TypeOK, DpOK, FilesOK, SaveLast, Write
    <3> QED BY <3>1 DEF RowsInv, Numbered
  <2> QED BY <2>1, <2>2, <2>3 DEF DataProcessor
<1> QED BY <1>2, <1>3, <1>4, <1>5
(* main() writes no rows; when it terminates the pool, buffers are lost.   *)
LEMMA MainKeepsRows ==
  ASSUME RowsInv, Main \/ Interrupt \/ \E d \in Dps : FlushStop(d)
  PROVE  Once' /\ Produced' /\ Numbered' /\ Kept'
<1> USE DEF RowsInv, SweepInv, TypeOK, PoolOK, MainOK, DpOK
<1>1. ASSUME \/ CloseAndSetEnd \/ PutStops \/ JoinDps \/ JoinPool \/ Return
             \/ PropagateFailure \/ TerminateDps
      PROVE  Once' /\ Produced' /\ Numbered' /\ Kept'
  <2>1. /\ UNCHANGED PlaceVars /\ UNCHANGED <<todo, wst, wtask, produced, count>>
        /\ \A d \in Dps : dp'[d] = "exited" <=> dp[d] = "exited"
        /\ main \in {"raised", "terminating", "interrupted"} =>
             main' \in {"raised", "terminating", "interrupted"}
    BY <1>1 DEF CloseAndSetEnd, PutStops, JoinDps, JoinPool, Return, PropagateFailure,
       TerminateDps, PlaceVars, poolVars, dpVars
  <2>2. Once' /\ \A t \in Tasks, d \in Dps : AtDp(t, d)' <=> AtDp(t, d)
    BY <2>1, StillKeepsOnce
  <2> QED BY <2>1, <2>2 DEF Produced, Numbered, Kept, PlaceVars
<1>2. ASSUME AbandonPool \/ Interrupt
      PROVE  Once' /\ Produced' /\ Numbered' /\ Kept'
  <2>1. /\ UNCHANGED <<todo, wtask, produced, pipe, dp, frame, dfList, count, files>>
        /\ wbuf' = [w \in Workers |-> {}] /\ wst' = [w \in Workers |-> "gone"]
        /\ main' \in {"raised", "terminating", "interrupted"}
    BY <1>2 DEF AbandonPool, Interrupt, mainVars, dpVars
  <2>2. \A t \in Tasks, d \in Dps :
          (AtDp(t, d)' <=> AtDp(t, d)) /\ (OnceAt(t, d) => OnceAt(t, d)')
    BY <2>1 DEF AtDp, OnceAt, InQueue, Held, Filed
  <2> QED BY <2>1, <2>2 DEF Once, Produced, Numbered, Kept
<1>3. ASSUME NEW d \in Dps, FlushStop(d)
      PROVE  Once' /\ Produced' /\ Numbered' /\ Kept'
  <2>1. /\ UNCHANGED <<todo, wst, wtask, wbuf, produced, main, dp, frame, dfList, count, files>>
        /\ Put(d, Empty) /\ Empty \in Messages
    BY <1>3 DEF FlushStop, Put, poolVars, dpVars, Messages
  <2>2. /\ \A e \in Dps \ {d} : pipe'[e] = pipe[e]
        /\ \A t \in Messages : InQueue(t, d)' <=> InQueue(t, d) \/ t = Empty
        /\ \A t \in Tasks : OnceAt(t, d) /\ (t = Empty => ~InQueue(t, d)) =>
             \A i, j \in 1 .. Len(pipe'[d]) : pipe'[d][i] = t /\ pipe'[d][j] = t => i = j
    BY <2>1, AppendQueue
  <2>3. ASSUME NEW t \in Tasks
        PROVE  (AtDp(t, d)' <=> AtDp(t, d)) /\ OnceAt(t, d)'
    <3>1. OnceAt(t, d) /\ t # Empty /\ t \in Messages
      BY SweepAssumption DEF Once, Messages
    <3>2. /\ InQueue(t, d)' <=> InQueue(t, d)
          /\ \A i, j \in 1 .. Len(pipe'[d]) : pipe'[d][i] = t /\ pipe'[d][j] = t => i = j
      BY <2>2, <3>1
    <3>3. (Filed(t, d)' <=> Filed(t, d)) /\ (Held(t, d)' <=> Held(t, d))
      BY <2>1 DEF Filed, Held
    <3>4. OnceAt(t, d)'
      BY <2>1, <3>1, <3>2, <3>3 DEF OnceAt
    <3> QED BY <3>2, <3>3, <3>4 DEF AtDp
  <2>4. Once' /\ \A t \in Tasks, e \in Dps : AtDp(t, e)' <=> AtDp(t, e)
    BY <2>1, <2>2, <2>3, OwnRowsOnly
  <2> QED BY <2>1, <2>4 DEF Produced, Numbered, Kept
<1> QED BY <1>1, <1>2, <1>3 DEF Main

LEMMA InitRows == Init => RowsInv
<1> SUFFICES ASSUME Init PROVE Once /\ Produced /\ Numbered /\ Kept
  BY InitSweepInv DEF RowsInv
<1>1. \A t \in Tasks, d \in Dps : ~AtDp(t, d) /\ OnceAt(t, d)
  BY DEF Init, AtDp, OnceAt, InQueue, Held, Filed
<1>2. Once
  BY <1>1 DEF Init, Once
<1>3. Produced /\ Numbered /\ Kept
  BY <1>1 DEF Init, Produced, Numbered, Kept
<1> QED BY <1>2, <1>3

LEMMA RowsStep == RowsInv /\ [Next]_vars => RowsInv'
<1> SUFFICES ASSUME RowsInv, [Next]_vars PROVE RowsInv'
  OBVIOUS
<1>1. SweepInv'
  BY SweepStep DEF RowsInv
<1>2. CASE Next
  <2>1. Once' /\ Produced' /\ Numbered' /\ Kept'
    BY <1>2, WorkerKeepsRows, DataProcessorKeepsRows, MainKeepsRows DEF Next
  <2> QED BY <1>1, <2>1 DEF RowsInv
<1>3. CASE UNCHANGED vars
  <2>1. UNCHANGED PlaceVars /\ UNCHANGED <<todo, wst, wtask, produced, main, dp, count>>
    BY <1>3 DEF vars, poolVars, mainVars, dpVars, PlaceVars
  <2>2. Once' /\ \A t \in Tasks, d \in Dps : AtDp(t, d)' <=> AtDp(t, d)
    BY <2>1, StillKeepsOnce DEF RowsInv
  <2>3. Produced' /\ Numbered' /\ Kept'
    BY <2>1, <2>2 DEF RowsInv, SweepInv, TypeOK, PoolOK, Produced, Numbered, Kept, PlaceVars
  <2> QED BY <1>1, <2>2, <2>3 DEF RowsInv
<1> QED BY <1>2, <1>3

(* In every state each combination's rows have one place, come from its    *)
(* one simulation, and are kept while no worker is killed; a data          *)
(* processor's next file number is free.                                   *)
THEOREM RowsInvariant == Spec => []RowsInv
  BY InitRows, RowsStep, PTL DEF Spec
-----------------------------------------------------------------------------
(* What follows for the rows. *)

LEMMA PlacesMeanRows ==
  ASSUME NEW t, NEW p \in Places(t)
  PROVE  \/ \E w \in Workers : t \in wbuf[w] /\ p = <<"buffer", w>>
         \/ \E d \in Dps, i \in Nat : i \in 1 .. Len(pipe[d]) /\ pipe[d][i] = t /\ p = <<"pipe", d, i>>
         \/ \E d \in Dps : t \in frame[d] /\ p = <<"frame", d>>
         \/ \E d \in Dps : t \in dfList[d] /\ p = <<"list", d>>
         \/ \E d \in Dps : \E n \in DOMAIN files[d] : t \in files[d][n] /\ p = <<"file", d, n>>
<1>1. CASE p \in InBuffer(t)
  BY <1>1 DEF InBuffer
<1>2. CASE p \in InPipe(t)
  BY <1>2 DEF InPipe
<1>3. CASE p \in InMemory(t)
  BY <1>3 DEF InMemory
<1>4. CASE p \in InFile(t)
  BY <1>4 DEF InFile
<1> QED BY <1>1, <1>2, <1>3, <1>4 DEF Places

LEMMA RowsHavePlaces ==
  ASSUME NEW t, (\E w \in Workers : t \in wbuf[w]) \/ (\E d \in Dps : AtDp(t, d))
  PROVE  Places(t) # {}
<1>1. ASSUME NEW w \in Workers, t \in wbuf[w] PROVE <<"buffer", w>> \in Places(t)
  BY <1>1 DEF Places, InBuffer
<1>2. ASSUME NEW d \in Dps, InQueue(t, d) PROVE Places(t) # {}
  <2>1. PICK i \in 1 .. Len(pipe[d]) : pipe[d][i] = t
    BY <1>2 DEF InQueue
  <2>2. <<"pipe", d, i>> \in InPipe(t)
    BY <2>1 DEF InPipe
  <2> QED BY <2>2 DEF Places
<1>3. ASSUME NEW d \in Dps, Held(t, d) PROVE Places(t) # {}
  <2>1. <<"frame", d>> \in InMemory(t) \/ <<"list", d>> \in InMemory(t)
    BY <1>3 DEF Held, InMemory
  <2> QED BY <2>1 DEF Places
<1>4. ASSUME NEW d \in Dps, Filed(t, d) PROVE Places(t) # {}
  <2>1. PICK n \in DOMAIN files[d] : t \in files[d][n]
    BY <1>4 DEF Filed
  <2>2. <<"file", d, n>> \in InFile(t)
    BY <2>1 DEF InFile
  <2> QED BY <2>2 DEF Places
<1> QED BY <1>1, <1>2, <1>3, <1>4 DEF AtDp

(* Rows are never duplicated between a worker's put() and the files,       *)
(* through any interleaving of feeders, merges, saves and terminations     *)
(* (simrun 440, process_results 464-533).                                  *)
THEOREM RowsStoredOnce == Spec => []AtMostOnce
<1>1. RowsInv => AtMostOnce
  <2> SUFFICES ASSUME RowsInv, NEW t \in Tasks, NEW p \in Places(t), NEW q \in Places(t)
               PROVE  p = q
    BY DEF AtMostOnce
  <2>1. /\ \A v, w \in Workers : t \in wbuf[v] /\ t \in wbuf[w] => v = w
        /\ \A w \in Workers, d \in Dps : t \in wbuf[w] => ~AtDp(t, d)
        /\ \A d, e \in Dps : AtDp(t, d) /\ AtDp(t, e) => d = e
        /\ \A d \in Dps : OnceAt(t, d)
    BY DEF RowsInv, Once
  <2>2. CASE \E w \in Workers : t \in wbuf[w]
    <3>1. \A d \in Dps : ~AtDp(t, d)
      BY <2>1, <2>2
    <3>2. (\E w \in Workers : t \in wbuf[w] /\ p = <<"buffer", w>>)
          /\ (\E w \in Workers : t \in wbuf[w] /\ q = <<"buffer", w>>)
      BY <3>1, PlacesMeanRows DEF AtDp, InQueue, Held, Filed
    <3> QED BY <2>1, <3>2
  <2>3. CASE \A w \in Workers : t \notin wbuf[w]
    <3> DEFINE At(r, d) ==
          \/ \E i \in Nat : i \in 1 .. Len(pipe[d]) /\ pipe[d][i] = t /\ r = <<"pipe", d, i>>
          \/ t \in frame[d] /\ r = <<"frame", d>>
          \/ t \in dfList[d] /\ r = <<"list", d>>
          \/ \E n \in DOMAIN files[d] : t \in files[d][n] /\ r = <<"file", d, n>>
    <3>1. PICK d \in Dps : At(p, d)
      BY <2>3, PlacesMeanRows
    <3>2. PICK e \in Dps : At(q, e)
      BY <2>3, PlacesMeanRows
    <3>3. AtDp(t, d) /\ AtDp(t, e)
      BY <3>1, <3>2 DEF AtDp, InQueue, Held, Filed
    <3>4. d = e
      BY <2>1, <3>3
    <3>5. OnceAt(t, d)
      BY <2>1
    <3>6. CASE InQueue(t, d)
      <4>1. ~Held(t, d) /\ ~Filed(t, d)
        BY <3>5, <3>6 DEF OnceAt
      <4> QED BY <3>1, <3>2, <3>4, <3>5, <4>1 DEF OnceAt, Held, Filed
    <3>7. CASE Filed(t, d)
      <4>1. ~Held(t, d) /\ ~InQueue(t, d)
        BY <3>5, <3>7 DEF OnceAt
      <4> QED BY <3>1, <3>2, <3>4, <3>5, <4>1 DEF OnceAt, Held, InQueue
    <3>8. CASE ~InQueue(t, d) /\ ~Filed(t, d)
      BY <3>1, <3>2, <3>4, <3>5, <3>8 DEF OnceAt, InQueue, Filed
    <3> QED BY <3>6, <3>7, <3>8
  <2> QED BY <2>2, <2>3
<1> QED BY <1>1, RowsInvariant, PTL

(* No merge, save or exit of a data processor drops rows: as long as main()*)
(* does not leave with an exception or a SIGINT, delivered rows are in a   *)
(* buffer, a pipe, a data processor's memory or a file.                    *)
THEOREM NothingIsDropped == Spec => []NothingDropped
<1>1. RowsInv => NothingDropped
  BY RowsHavePlaces DEF RowsInv, Kept, NothingDropped
<1> QED BY <1>1, RowsInvariant, PTL

-----------------------------------------------------------------------------
(* The sweep implements ResultSink. *)

LEMMA FilePlaces ==
  ASSUME NEW f, NEW t
  PROVE  UNION {{<<"file", d, n>> : n \in {m \in DOMAIN f[d] : t \in f[d][m]}} : d \in Dps} # {}
           <=> \E d \in Dps : \E n \in DOMAIN f[d] : t \in f[d][n]
<1> DEFINE in == UNION {{<<"file", d, n>> : n \in {m \in DOMAIN f[d] : t \in f[d][m]}} : d \in Dps}
<1>1. ASSUME NEW p \in in PROVE \E d \in Dps : \E n \in DOMAIN f[d] : t \in f[d][n]
  OBVIOUS
<1>2. ASSUME NEW d \in Dps, NEW n \in DOMAIN f[d], t \in f[d][n] PROVE in # {}
  <2>1. <<"file", d, n>> \in in
    BY <1>2
  <2> QED BY <2>1
<1> QED BY <1>1, <1>2

FiledTasks == {t \in Tasks : \E d \in Dps : Filed(t, d)}

LEMMA StoredIsFiled == Stored = FiledTasks /\ Stored' = FiledTasks'
<1>1. Stored = FiledTasks
  BY FilePlaces DEF Stored, InFile, FiledTasks, Filed
<1>2. Stored' = FiledTasks'
  BY FilePlaces DEF Stored, InFile, FiledTasks, Filed
<1> QED BY <1>1, <1>2

(* A step that leaves the files alone leaves the stored rows alone. *)
LEMMA SameFiles == UNCHANGED files => UNCHANGED Stored
  BY DEF Stored, InFile

(* A write is a Store of ResultSink, or nothing when there are no rows.    *)
LEMMA WriteStores ==
  ASSUME RowsInv, NEW d \in Dps, NEW rows \in SUBSET Tasks, dp[d] # "exited",
         \A t \in rows : Held(t, d), Write(d, count[d], rows), UNCHANGED produced
  PROVE  [Sink!Next]_Sink!vars
<1>1. FilesOK /\ count[d] \in Nat /\ count[d] \notin DOMAIN files[d]
  BY DEF RowsInv, SweepInv, TypeOK, DpOK, Numbered
<1>2. /\ \A e \in Dps \ {d} : files'[e] = files[e]
      /\ \A t \in Tasks : Filed(t, d)' <=> Filed(t, d) \/ t \in rows
  BY <1>1, WriteAdds
<1>3. \A t \in Tasks, e \in Dps : Filed(t, e)' <=> Filed(t, e) \/ (e = d /\ t \in rows)
  BY <1>2 DEF Filed
<1>4. Stored' = Stored \cup rows
  BY <1>3, StoredIsFiled DEF FiledTasks
<1>5. rows \subseteq produced \ Stored
  <2> SUFFICES ASSUME NEW t \in rows PROVE t \in produced /\ \A e \in Dps : ~Filed(t, e)
    BY StoredIsFiled DEF FiledTasks
  <2>1. AtDp(t, d) /\ ~Filed(t, d)
    BY DEF AtDp, RowsInv, Once, OnceAt
  <2>2. \A e \in Dps : Filed(t, e) => e = d
    BY <2>1 DEF AtDp, RowsInv, Once
  <2> QED BY <2>1, <2>2 DEF RowsInv, Produced
<1>6. CASE rows = {}
  BY <1>4, <1>6 DEF Sink!vars
<1>7. CASE rows # {}
  BY <1>4, <1>5, <1>7 DEF Sink!Next, Sink!Store
<1> QED BY <1>6, <1>7

(* Any number of processes, queues, merges and partial files add up to a   *)
(* sink: every step of the sweep delivers the rows of one new combination, *)
(* stores rows that were not stored, or changes neither; rows once stored  *)
(* are never overwritten (simrun 421-440, process_results 464-533).        *)
THEOREM SweepImplementsSink == Spec => SinkSpec
<1>1. Init => Sink!Init
  <2> SUFFICES ASSUME Init PROVE produced = {} /\ Stored = {}
    BY DEF Sink!Init
  <2>1. \A t \in Tasks, d \in Dps : ~Filed(t, d)
    BY DEF Init, Filed
  <2> QED BY <2>1, StoredIsFiled DEF Init, FiledTasks
<1>2. RowsInv /\ [Next]_vars => [Sink!Next]_Sink!vars
  <2> SUFFICES ASSUME RowsInv, [Next]_vars PROVE [Sink!Next]_Sink!vars
    OBVIOUS
  <2>1. ASSUME UNCHANGED <<files, produced>> PROVE [Sink!Next]_Sink!vars
    BY <2>1, SameFiles DEF Sink!vars
  <2>2. ASSUME NEW w \in Workers, Worker(w) \/ Flush(w) PROVE [Sink!Next]_Sink!vars
    <3>1. CASE Simulate(w)
      <4>1. wtask[w] \in Tasks \ produced /\ UNCHANGED files
        BY <3>1 DEF Simulate, RowsInv, SweepInv, TypeOK, PoolOK, Produced, dpVars
      <4>2. CASE produced' = produced \cup {wtask[w]}
        <5>1. UNCHANGED Stored
          BY <4>1, SameFiles
        <5>2. Sink!Produce(wtask[w])
          BY <4>1, <4>2, <5>1 DEF Sink!Produce
        <5> QED BY <4>1, <5>2 DEF Sink!Next
      <4>3. CASE UNCHANGED produced
        BY <2>1, <4>1, <4>3
      <4> QED BY <3>1, <4>2, <4>3 DEF Simulate
    <3>2. CASE \/ Take(w) \/ Report(w) \/ Raise(w) \/ Die(w) \/ Replace(w) \/ Leave(w)
               \/ Flush(w)
      BY <2>1, <3>2 DEF Take, Report, Raise, Die, Replace, Leave, Flush, dpVars
    <3> QED BY <2>2, <3>1, <3>2 DEF Worker
  <2>3. ASSUME NEW d \in Dps, DataProcessor(d) \/ FlushStop(d) \/ DpCrash(d)
        PROVE  [Sink!Next]_Sink!vars
    <3>1. UNCHANGED produced
      BY <2>3 DEF DataProcessor, CheckEvent, CheckEmpty, GetEmpty, Get, Save, SaveLast, DpCrash,
         FlushStop, poolVars
    <3>2. CASE Save(d)
      <4>1. /\ frame[d] \in SUBSET Tasks /\ dp[d] # "exited"
            /\ \A t \in frame[d] : Held(t, d)
            /\ Write(d, count[d], frame[d])
        BY <3>2 DEF Save, Held, RowsInv, SweepInv, TypeOK, DpOK
      <4> QED BY <3>1, <4>1, WriteStores
    <3>3. CASE SaveLast(d)
      <4>1. CASE UNCHANGED files
        BY <2>1, <3>1, <4>1
      <4>2. CASE Write(d, count[d], frame[d] \cup dfList[d])
        <5>1. /\ frame[d] \cup dfList[d] \in SUBSET Tasks /\ dp[d] # "exited"
              /\ \A t \in frame[d] \cup dfList[d] : Held(t, d)
          BY <3>3 DEF SaveLast, Held, RowsInv, SweepInv, TypeOK, DpOK
        <5> QED BY <3>1, <4>2, <5>1, WriteStores
      <4> QED BY <3>3, <4>1, <4>2 DEF SaveLast
    <3>4. CASE \/ CheckEvent(d) \/ CheckEmpty(d) \/ GetEmpty(d) \/ Get(d) \/ FlushStop(d)
               \/ DpCrash(d)
      BY <2>1, <3>1, <3>4 DEF CheckEvent, CheckEmpty, GetEmpty, Get, FlushStop, DpCrash, dpVars
    <3> QED BY <2>3, <3>2, <3>3, <3>4 DEF DataProcessor
  <2>4. ASSUME Main \/ Interrupt PROVE [Sink!Next]_Sink!vars
    BY <2>1, <2>4 DEF Main, Interrupt, CloseAndSetEnd, PutStops, JoinDps, JoinPool, Return,
       PropagateFailure, AbandonPool, TerminateDps, poolVars, dpVars
  <2>5. CASE UNCHANGED vars
    BY <2>1, <2>5 DEF vars, poolVars, dpVars
  <2> QED BY <2>2, <2>3, <2>4, <2>5 DEF Next
<1> QED BY <1>1, <1>2, RowsInvariant, PTL DEF Spec, SinkSpec, Sink!Spec
-----------------------------------------------------------------------------
(* A data processor with the limits it keeps while it waits, and the frame *)
(* that is over its limit while it saves.                                  *)
Within(d) ==
  /\ frame[d] = {} => dfList[d] = {}
  /\ dp[d] \in {"check", "empty?", "get"} =>
       Cardinality(frame[d]) <= SplitSize /\ Cardinality(dfList[d]) <= MergeCount
  /\ dp[d] = "save" => dfList[d] = {} /\ Cardinality(frame[d]) > SplitSize
  /\ \A n \in DOMAIN files[d] : n < count[d] => Cardinality(files[d][n]) > SplitSize

LimitsInv == \A d \in Dps : Within(d)

LEMMA RowsCount ==
  ASSUME NEW S \in SUBSET Tasks
  PROVE  Cardinality(S) \in Nat /\ (Cardinality(S) = 0 <=> S = {})
<1>1. IsFiniteSet(S)
  BY FS_Subset, SweepAssumption
<1> QED BY <1>1, FS_CardinalityType, FS_EmptySet

LEMMA LimitsInit == Init => LimitsInv
<1> SUFFICES ASSUME Init, NEW d \in Dps PROVE Within(d)
  BY DEF LimitsInv
<1>1. /\ frame[d] = {} /\ dfList[d] = {} /\ dp[d] = "check" /\ DOMAIN files[d] = {}
  BY DEF Init
<1> QED BY <1>1, FS_EmptySet, SweepAssumption DEF Within

(* A data processor another actor's step does not touch. *)
LEMMA StillWithin ==
  ASSUME NEW d \in Dps, Within(d),
         frame'[d] = frame[d], dfList'[d] = dfList[d], dp'[d] = dp[d],
         files'[d] = files[d], count'[d] = count[d]
  PROVE  Within(d)'
  BY DEF Within

(* The frame that is taken joins stat_df or df_list, which is merged before*)
(* it is over its limit; stat_df is saved as soon as it is over its own.   *)
LEMMA GetWithin ==
  ASSUME TypeOK, NEW d \in Dps, Within(d), Get(d)
  PROVE  Within(d)'
<1> DEFINE m      == Head(pipe[d])
           df     == IF frame[d] = {} THEN {m} ELSE frame[d]
           list   == IF frame[d] = {} THEN dfList[d] ELSE dfList[d] \cup {m}
           merged == IF MustMerge(list) THEN df \cup list ELSE df
           left   == IF MustMerge(list) THEN {} ELSE list
<1>1. m \in Tasks
  <2>1. m \in Messages
    BY TailQueue DEF Get
  <2> QED BY <2>1 DEF Get, Messages
<1>2. frame[d] \in SUBSET Tasks /\ dfList[d] \in SUBSET Tasks
  BY DEF TypeOK, DpOK
<1>3. df \in SUBSET Tasks /\ list \in SUBSET Tasks /\ merged \in SUBSET Tasks /\ df # {}
  BY <1>1, <1>2
<1>4. /\ frame' = [frame EXCEPT ![d] = merged]
      /\ dfList' = [dfList EXCEPT ![d] = left]
      /\ dp' = [dp EXCEPT ![d] = IF MustSplit(merged, left) THEN "save" ELSE "check"]
      /\ files' = files /\ count' = count /\ dp[d] = "get"
  BY DEF Get
<1>5. /\ frame'[d] = merged /\ dfList'[d] = left
      /\ dp'[d] = IF MustSplit(merged, left) THEN "save" ELSE "check"
  BY <1>4 DEF TypeOK, DpOK
<1>6. /\ Cardinality(frame[d]) <= SplitSize
      /\ frame[d] = {} => dfList[d] = {}
  BY <1>4 DEF Within
<1>7. merged # {}
  BY <1>3
<1>8. /\ Cardinality(left) <= MergeCount
      /\ Cardinality(merged) \in Nat /\ Cardinality(list) \in Nat
  <2>1. Cardinality(list) \in Nat /\ Cardinality(merged) \in Nat /\ Cardinality({}) = 0
    BY <1>3, RowsCount, FS_EmptySet
  <2>2. CASE MustMerge(list)
    BY <2>1, <2>2, SweepAssumption
  <2>3. CASE ~MustMerge(list)
    <3>1. left = list
      BY <2>3
    <3> QED BY <2>1, <2>3, <3>1, SweepAssumption DEF MustMerge
  <2> QED BY <2>1, <2>2, <2>3
<1>9. MustSplit(merged, left) => left = {}
  <2>1. CASE MustMerge(list)
    BY <2>1
  <2>2. CASE ~MustMerge(list) /\ frame[d] = {}
    BY <2>2, <1>6
  <2>3. CASE ~MustMerge(list) /\ frame[d] # {}
    <3>1. merged = frame[d]
      BY <2>3
    <3>2. ~(Cardinality(merged) > SplitSize)
      BY <3>1, <1>6, <1>8, SweepAssumption
    <3> QED BY <3>2 DEF MustSplit
  <2> QED BY <2>1, <2>2, <2>3
<1> HIDE DEF merged, left, list, df
<1>10. MustSplit(merged, left) <=> Cardinality(merged) > SplitSize
  BY DEF MustSplit
<1>11. CASE MustSplit(merged, left)
  BY <1>4, <1>5, <1>7, <1>9, <1>10, <1>11 DEF Within
<1>12. CASE ~MustSplit(merged, left)
  <2>1. Cardinality(merged) <= SplitSize
    BY <1>8, <1>10, <1>12, SweepAssumption
  <2> QED BY <1>4, <1>5, <1>7, <1>8, <1>12, <2>1 DEF Within
<1> QED BY <1>11, <1>12

(* A file below the next number holds more than split_bytes: it is one     *)
(* that Save wrote, and the last file takes the next number.               *)
LEMMA SaveWithin ==
  ASSUME TypeOK, Numbered, NEW d \in Dps, Within(d), Save(d)
  PROVE  Within(d)'
<1>1. /\ dp[d] = "save" /\ Cardinality(frame[d]) > SplitSize /\ dfList[d] = {}
      /\ dp'[d] = "check" /\ frame'[d] = {} /\ dfList'[d] = {}
      /\ count'[d] = count[d] + 1 /\ count[d] \in Nat
  BY DEF Save, Within, TypeOK, DpOK
<1>2. files'[d] = [i \in DOMAIN files[d] \cup {count[d]} |-> IF i = count[d] THEN frame[d] ELSE files[d][i]]
  BY DEF Save, Write, TypeOK, FilesOK
<1>3. ASSUME NEW n \in DOMAIN files'[d] PROVE Cardinality(files'[d][n]) > SplitSize
  <2>1. CASE n = count[d]
    BY <1>1, <1>2, <2>1
  <2>2. CASE n # count[d]
    <3>1. n \in DOMAIN files[d] /\ files'[d][n] = files[d][n]
      BY <1>2, <1>3, <2>2
    <3>2. n < count[d]
      BY <1>1, <3>1 DEF Numbered
    <3> QED BY <3>1, <3>2 DEF Within
  <2> QED BY <2>1, <2>2
<1> QED BY <1>1, <1>3, FS_EmptySet, SweepAssumption DEF Within

LEMMA SaveLastWithin ==
  ASSUME TypeOK, Numbered, NEW d \in Dps, Within(d), SaveLast(d)
  PROVE  Within(d)'
<1>1. dp'[d] = "exited" /\ frame'[d] = {} /\ dfList'[d] = {} /\ count' = count /\ count[d] \in Nat
  BY DEF SaveLast, TypeOK, DpOK
<1>2. ASSUME NEW n \in DOMAIN files'[d], n < count[d]
      PROVE  n \in DOMAIN files[d] /\ files'[d][n] = files[d][n]
  <2> DEFINE rest == frame[d] \cup dfList[d]
  <2>1. CASE rest = {}
    BY <1>2, <2>1 DEF SaveLast
  <2>2. CASE rest # {}
    <3>1. Write(d, count[d], rest)
      BY <2>2 DEF SaveLast
    <3>2. files'[d] = [i \in DOMAIN files[d] \cup {count[d]} |-> IF i = count[d] THEN rest ELSE files[d][i]]
      BY <3>1 DEF Write, TypeOK, FilesOK
    <3>3. n # count[d]
      BY <1>1, <1>2
    <3> QED BY <1>2, <3>2, <3>3
  <2> QED BY <2>1, <2>2
<1> QED BY <1>1, <1>2 DEF Within

LEMMA LimitsStep == RowsInv /\ LimitsInv /\ [Next]_vars => LimitsInv'
<1> SUFFICES ASSUME RowsInv, LimitsInv, [Next]_vars, NEW e \in Dps PROVE Within(e)'
  BY DEF LimitsInv
<1>1. TypeOK /\ Numbered /\ Within(e)
  BY DEF RowsInv, SweepInv, LimitsInv
<1>2. CASE UNCHANGED dpVars
  BY <1>1, <1>2, StillWithin DEF dpVars
<1>3. ASSUME NEW d \in Dps, DataProcessor(d) \/ DpCrash(d) PROVE Within(e)'
  <2>1. CASE d # e
    <3>1. /\ frame'[e] = frame[e] /\ dfList'[e] = dfList[e] /\ dp'[e] = dp[e]
          /\ files'[e] = files[e] /\ count'[e] = count[e]
      BY <1>1, <1>3, <2>1
      DEF DataProcessor, DpCrash, CheckEvent, CheckEmpty, GetEmpty, Get, Save, SaveLast, Write,
          TypeOK, DpOK, FilesOK
    <3> QED BY <1>1, <3>1, StillWithin
  <2>2. CASE d = e /\ (CheckEvent(d) \/ CheckEmpty(d) \/ GetEmpty(d) \/ DpCrash(d))
    <3>1. /\ frame' = frame /\ dfList' = dfList /\ files' = files /\ count' = count
          /\ \/ dp'[e] \in {"last", "killed"}
             \/ dp[e] \in {"check", "empty?", "get"} /\ dp'[e] \in {"check", "empty?", "get"}
      BY <1>1, <2>2 DEF CheckEvent, CheckEmpty, GetEmpty, DpCrash, TypeOK, DpOK
    <3> QED BY <1>1, <3>1 DEF Within
  <2> QED BY <1>1, <1>3, <2>1, <2>2, GetWithin, SaveWithin, SaveLastWithin DEF DataProcessor
<1>4. CASE TerminateDps
  <2>1. frame' = frame /\ dfList' = dfList /\ files' = files /\ count' = count /\ dp'[e] \in {"exited", "killed"}
    BY <1>4 DEF TerminateDps
  <2> QED BY <1>1, <2>1 DEF Within
<1> QED BY <1>2, <1>3, <1>4
    DEF Next, Worker, Take, Simulate, Report, Raise, Die, Replace, Leave, Flush, FlushStop, Main,
        CloseAndSetEnd, PutStops, JoinDps, JoinPool, Return, PropagateFailure, AbandonPool, Interrupt,
        vars, mainVars

(* However many frames arrive and in whatever order, a data processor that *)
(* waits holds no more than its two limits, df_list is empty with stat_df, *)
(* and only the last file of a data processor may be short                 *)
(* (process_results 485-533).                                              *)
THEOREM MemoryIsBounded == Spec => []MemoryBounded
<1>1. LimitsInv => MemoryBounded
  BY DEF LimitsInv, Within, MemoryBounded
<1>2. RowsInv /\ LimitsInv /\ [Next]_vars => (RowsInv /\ LimitsInv)'
  BY RowsStep, LimitsStep
<1> QED BY <1>1, <1>2, InitRows, LimitsInit, PTL DEF Spec
-----------------------------------------------------------------------------
(* A process that is gone has nothing left to write, and main() is past    *)
(* its joins only when what it joined has ended.                           *)
Joined ==
  /\ \A w \in Workers : wst[w] = "gone" => wbuf[w] = {}
  /\ \A w \in Workers : wst[w] = "idle" => wbuf[w] = {}
  /\ main \in {"pooljoin", "leaving", "done"} => \A d \in Dps : dp[d] \in {"exited", "killed"}
  /\ main \in {"leaving", "done"} => \A w \in Workers : wst[w] = "gone"

LEMMA JoinedInit == Init => Joined
  BY DEF Init, Joined

LEMMA JoinedStep == TypeOK /\ Joined /\ [Next]_vars => Joined'
<1> SUFFICES ASSUME TypeOK, Joined, [Next]_vars PROVE Joined'
  OBVIOUS
<1> USE DEF Joined, TypeOK, PoolOK, MainOK, DpOK
<1>1. ASSUME NEW w \in Workers, Worker(w) \/ Flush(w) PROVE Joined'
  <2>1. /\ wst' \in [Workers -> {"idle", "running", "put", "exiting", "gone"}]
        /\ \A v \in Workers : v # w => wst'[v] = wst[v] /\ wbuf'[v] = wbuf[v]
        /\ wst'[w] \in {"idle", "gone"} => wbuf'[w] = {}
        /\ wst[w] = "gone" => wst'[w] = "gone"
        /\ main' = main /\ dp' = dp
    <3>1. CASE Take(w)
      BY <3>1 DEF Take, mainVars, dpVars
    <3>2. CASE Simulate(w)
      BY <3>2 DEF Simulate, mainVars, dpVars
    <3>3. CASE Report(w) \/ Raise(w) \/ Die(w)
      BY <3>3 DEF Report, Raise, Die, mainVars, dpVars
    <3>4. CASE Replace(w) \/ Leave(w)
      BY <3>4 DEF Replace, Leave, mainVars, dpVars
    <3>5. CASE Flush(w)
      BY <3>5 DEF Flush, mainVars, dpVars
    <3> QED BY <1>1, <3>1, <3>2, <3>3, <3>4, <3>5 DEF Worker
  <2> QED BY <2>1
<1>2. ASSUME NEW d \in Dps, DataProcessor(d) \/ DpCrash(d) PROVE Joined'
  BY <1>2 DEF DataProcessor, DpCrash, CheckEvent, CheckEmpty, GetEmpty, Get, Save, SaveLast,
              poolVars, mainVars
<1>3. ASSUME NEW d \in Dps, FlushStop(d) PROVE Joined'
  BY <1>3 DEF FlushStop, poolVars, dpVars
<1>4. CASE Main \/ Interrupt
  <2>1. CASE CloseAndSetEnd \/ PutStops \/ JoinDps \/ JoinPool \/ Return \/ PropagateFailure
    BY <2>1 DEF CloseAndSetEnd, PutStops, JoinDps, JoinPool, Return, PropagateFailure, poolVars, dpVars
  <2>2. CASE AbandonPool
    BY <2>2 DEF AbandonPool, mainVars, dpVars
  <2>3. CASE Interrupt
    BY <2>3 DEF Interrupt, dpVars
  <2>4. CASE TerminateDps
    BY <2>4 DEF TerminateDps, poolVars
  <2> QED BY <1>4, <2>1, <2>2, <2>3, <2>4 DEF Main
<1>5. CASE UNCHANGED vars
  BY <1>5 DEF vars, poolVars, mainVars, dpVars
<1> QED BY <1>1, <1>2, <1>3, <1>4, <1>5 DEF Next

(* A sweep that ends normally has lost rows only in the pipe of a data     *)
(* processor that had left, or with one that died: no worker takes rows    *)
(* with it, and no data processor that returns does (main 714-747).        *)
THEOREM LossesAreBehindTheEnd == Spec => []LostOnlyBehindTheEnd
<1>1. RowsInv /\ Joined => LostOnlyBehindTheEnd
  <2> SUFFICES ASSUME RowsInv, Joined, main = "done", NEW t \in produced \ Stored
               PROVE  \E d \in Dps :
                        \/ dp[d] \in {"exited", "killed"} /\ InQueue(t, d)
                        \/ dp[d] = "killed" /\ t \in frame[d] \cup dfList[d]
    BY DEF LostOnlyBehindTheEnd, InQueue
  <2>1. t \in Tasks
    BY DEF RowsInv, SweepInv, TypeOK, PoolOK
  <2>2. \A w \in Workers : t \notin wbuf[w]
    BY DEF Joined
  <2>3. PICK d \in Dps : AtDp(t, d)
    BY <2>2 DEF RowsInv, Kept
  <2>4. dp[d] \in {"exited", "killed"}
    BY DEF Joined
  <2>5. ~Filed(t, d)
    <3> SUFFICES ASSUME NEW n \in DOMAIN files[d], t \in files[d][n] PROVE FALSE
      BY DEF Filed
    <3>1. <<"file", d, n>> \in InFile(t)
      BY DEF InFile
    <3> QED BY <2>1, <3>1 DEF Stored
  <2>6. dp[d] = "exited" => ~Held(t, d)
    BY DEF RowsInv, SweepInv, EndOrder, Held
  <2> QED BY <2>3, <2>4, <2>5, <2>6 DEF AtDp, Held
<1>2. RowsInv /\ Joined /\ [Next]_vars => (RowsInv /\ Joined)'
  BY RowsStep, JoinedStep DEF RowsInv, SweepInv
<1> QED BY <1>1, <1>2, InitRows, JoinedInit, PTL DEF Spec
=============================================================================
