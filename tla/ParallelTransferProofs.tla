----------------------- MODULE ParallelTransferProofs -----------------------
(***************************************************************************)
(* Theorems about ParallelTransfer, for every number of threads, object    *)
(* size, set of aborting threads and set of faults.                        *)
(*                                                                         *)
(* That the initial handle is closed last is not inductive.  What is adds  *)
(* to it where a thread is when its handle is closed (ArrivedClosed), that *)
(* an open barrier has all threads past their copy (OpenedAll), and that   *)
(* nothing but a quit breaks the barrier or cuts a copy short (QuitFirst). *)
(*                                                                         *)
(* That a success is complete rests on arithmetic besides: the ranges add  *)
(* up to the object and cover it, so counts that add up to total_size      *)
(* leave nothing out.                                                      *)
(***************************************************************************)
EXTENDS ParallelTransfer, DataLemmas

Past == {"barrier", "finish", "ended"}

NotSubmitted == mpc = "submit" => \A i \in Workers : i >= k => wpc[i] = "none"

ArrivedClosed ==
  \A i \in Workers \ {Initial} :
    wpc[i] \in {"arrive", "barrier", "finish"} => i \in closed

OpenedAll ==
  barrier = "draining" => /\ \A i \in Workers : wpc[i] \in Past
                          /\ Workers \ {Initial} \subseteq closed

QuitFirst ==
  /\ barrier = "broken" => quit
  /\ \A i \in Workers : status[i] = "aborted" => quit
  /\ \A i \in Workers : wpc[i] = "finish" => barrier = "draining" \/ quit
  /\ \A q \in Quitters : qpc[q] \in {"break", "shutdown", "join"} => quit

FinalizedAll ==
  Initial \in closed => /\ Workers \subseteq closed
                        /\ \A i \in Workers : wpc[i] \in Past /\ status[i] # "aborted"

IInv ==
  /\ TypeOK /\ NotSubmitted /\ ArrivedClosed /\ OpenedAll /\ QuitFirst
  /\ FinalizedAll

(***************************************************************************)
(* bytes_range_for_thread: no range is longer than the object or shorter   *)
(* than nothing.                                                           *)
(***************************************************************************)
LEMMA PartLenNat == \A i \in Workers : PartLen(i) \in Nat
<1> DEFINE q == PerThread
<1>1. N \in Nat /\ N > 0 /\ Total \in Nat
  BY NAssumption, TotalAssumption
<1>2. q \in Nat /\ N * q <= Total
  BY <1>1, SMTT(30) DEF PerThread
<1> SUFFICES ASSUME NEW i \in Workers PROVE PartLen(i) \in Nat
  OBVIOUS
<1> HIDE DEF q
<1>3. i \in Nat /\ 1 <= i /\ i <= N
  BY <1>1 DEF Workers
<1>4. i * q \in Int /\ (i - 1) * q \in Int /\ (i - 1) * q = i * q - q
  BY <1>2, <1>3
<1>5. CASE i < N
  BY <1>2, <1>4, <1>5 DEF PartLen, Begin, End, q
<1>6. CASE i = N
  BY <1>1, <1>2, <1>4, <1>6 DEF PartLen, Begin, End, q
<1> QED
  BY <1>1, <1>3, <1>5, <1>6

USE DEF mainVars, workVars, mgrVars, noteVars, Go, Future, Ends, MainRaises

(* Nothing is submitted, opened or aborted yet. *)
LEMMA InitInv == Init => IInv
<1> SUFFICES ASSUME Init PROVE IInv
  OBVIOUS
<1>1. left \in [Workers -> Nat]
  BY PartLenNat DEF Init
<1>2. k \in 1..N+1
  BY NAssumption DEF Init
<1>3. TypeOK
  BY <1>1, <1>2 DEF Init, TypeOK
<1>4. NotSubmitted /\ ArrivedClosed /\ OpenedAll /\ QuitFirst /\ FinalizedAll
  BY DEF Init, NotSubmitted, ArrivedClosed, OpenedAll, QuitFirst, FinalizedAll
<1> QED
  BY <1>3, <1>4 DEF IInv

(* The transfer threads keep the invariant. *)
LEMMA WorkerStepInv ==
  ASSUME IInv, NEW w \in Workers, WorkerStep(w)
  PROVE  IInv'
<1>1. CASE Start(w)
  <2>1. TypeOK'
    BY <1>1 DEF IInv, TypeOK, Start
  <2>2. NotSubmitted'
    BY <1>1 DEF IInv, TypeOK, NotSubmitted,
       Start, Initial
  <2>3. ArrivedClosed'
    BY <1>1 DEF IInv, TypeOK, ArrivedClosed,
       Start, Initial
  <2>4. OpenedAll'
    BY <1>1 DEF IInv, TypeOK, OpenedAll, ArrivedClosed, NotSubmitted, Past,
       Start, Initial
  <2>5. QuitFirst'
    BY <1>1 DEF IInv, TypeOK, QuitFirst, OpenedAll,
       Start, Initial
  <2>6. FinalizedAll'
    BY <1>1 DEF IInv, TypeOK, FinalizedAll, OpenedAll, QuitFirst, NotSubmitted, Past,
       Start, Initial
  <2> QED
    BY <2>1, <2>2, <2>3, <2>4, <2>5, <2>6 DEF IInv
<1>2. CASE CopyChunk(w)
  <2>1. TypeOK'
    BY <1>2 DEF IInv, TypeOK, CopyChunk, More
  <2>2. NotSubmitted'
    BY <1>2 DEF IInv, TypeOK, NotSubmitted,
       CopyChunk, More, Initial
  <2>3. ArrivedClosed'
    BY <1>2 DEF IInv, TypeOK, ArrivedClosed,
       CopyChunk, More, Initial
  <2>4. OpenedAll'
    BY <1>2 DEF IInv, TypeOK, OpenedAll, ArrivedClosed, NotSubmitted, Past,
       CopyChunk, More, Initial
  <2>5. QuitFirst'
    BY <1>2 DEF IInv, TypeOK, QuitFirst, OpenedAll,
       CopyChunk, More, Initial
  <2>6. FinalizedAll'
    BY <1>2 DEF IInv, TypeOK, FinalizedAll, OpenedAll, QuitFirst, NotSubmitted, Past,
       CopyChunk, More, Initial
  <2> QED
    BY <2>1, <2>2, <2>3, <2>4, <2>5, <2>6 DEF IInv
<1>3. CASE CopyAborted(w)
  <2>1. TypeOK'
    BY <1>3 DEF IInv, TypeOK, CopyAborted, More
  <2>2. NotSubmitted'
    BY <1>3 DEF IInv, TypeOK, NotSubmitted,
       CopyAborted, More, Initial
  <2>3. ArrivedClosed'
    BY <1>3 DEF IInv, TypeOK, ArrivedClosed,
       CopyAborted, More, Initial
  <2>4. OpenedAll'
    BY <1>3 DEF IInv, TypeOK, OpenedAll, ArrivedClosed, NotSubmitted, Past,
       CopyAborted, More, Initial
  <2>5. QuitFirst'
    BY <1>3 DEF IInv, TypeOK, QuitFirst, OpenedAll,
       CopyAborted, More, Initial
  <2>6. FinalizedAll'
    BY <1>3 DEF IInv, TypeOK, FinalizedAll, OpenedAll, QuitFirst, NotSubmitted, Past,
       CopyAborted, More, Initial
  <2> QED
    BY <2>1, <2>2, <2>3, <2>4, <2>5, <2>6 DEF IInv
<1>4. CASE CopyDone(w)
  <2>1. TypeOK'
    BY <1>4 DEF IInv, TypeOK, CopyDone, More
  <2>2. NotSubmitted'
    BY <1>4 DEF IInv, TypeOK, NotSubmitted,
       CopyDone, More, Initial
  <2>3. ArrivedClosed'
    BY <1>4 DEF IInv, TypeOK, ArrivedClosed,
       CopyDone, More, Initial
  <2>4. OpenedAll'
    BY <1>4 DEF IInv, TypeOK, OpenedAll, ArrivedClosed, NotSubmitted, Past,
       CopyDone, More, Initial
  <2>5. QuitFirst'
    BY <1>4 DEF IInv, TypeOK, QuitFirst, OpenedAll,
       CopyDone, More, Initial
  <2>6. FinalizedAll'
    BY <1>4 DEF IInv, TypeOK, FinalizedAll, OpenedAll, QuitFirst, NotSubmitted, Past,
       CopyDone, More, Initial
  <2> QED
    BY <2>1, <2>2, <2>3, <2>4, <2>5, <2>6 DEF IInv
<1>5. CASE CloseAux(w)
  <2>1. TypeOK'
    BY <1>5 DEF IInv, TypeOK, CloseAux
  <2>2. NotSubmitted'
    BY <1>5 DEF IInv, TypeOK, NotSubmitted,
       CloseAux, Initial
  <2>3. ArrivedClosed'
    BY <1>5 DEF IInv, TypeOK, ArrivedClosed,
       CloseAux, Initial
  <2>4. OpenedAll'
    BY <1>5 DEF IInv, TypeOK, OpenedAll, ArrivedClosed, NotSubmitted, Past,
       CloseAux, Initial
  <2>5. QuitFirst'
    BY <1>5 DEF IInv, TypeOK, QuitFirst, OpenedAll,
       CloseAux, Initial
  <2>6. FinalizedAll'
    BY <1>5 DEF IInv, TypeOK, FinalizedAll, OpenedAll, QuitFirst, NotSubmitted, Past,
       CloseAux, Initial
  <2> QED
    BY <2>1, <2>2, <2>3, <2>4, <2>5, <2>6 DEF IInv
<1>6. CASE Arrive(w)
  <2>1. TypeOK'
    BY <1>6, ZenonT(60) DEF IInv, TypeOK, Arrive, AllArrived
  <2>2. NotSubmitted'
    BY <1>6 DEF IInv, TypeOK, NotSubmitted,
       Arrive, AllArrived, Initial
  <2>3. ArrivedClosed'
    BY <1>6 DEF IInv, TypeOK, ArrivedClosed,
       Arrive, AllArrived, Initial
  <2>4. OpenedAll'
    BY <1>6 DEF IInv, TypeOK, OpenedAll, ArrivedClosed, NotSubmitted, Past,
       Arrive, AllArrived, Initial
  <2>5. QuitFirst'
    BY <1>6 DEF IInv, TypeOK, QuitFirst, OpenedAll,
       Arrive, AllArrived, Initial
  <2>6. FinalizedAll'
    BY <1>6 DEF IInv, TypeOK, FinalizedAll, OpenedAll, QuitFirst, NotSubmitted, Past,
       Arrive, AllArrived, Initial
  <2> QED
    BY <2>1, <2>2, <2>3, <2>4, <2>5, <2>6 DEF IInv
<1>7. CASE Wake(w)
  <2>1. TypeOK'
    BY <1>7 DEF IInv, TypeOK, Wake
  <2>2. NotSubmitted'
    BY <1>7 DEF IInv, TypeOK, NotSubmitted,
       Wake, Initial
  <2>3. ArrivedClosed'
    BY <1>7 DEF IInv, TypeOK, ArrivedClosed,
       Wake, Initial
  <2>4. OpenedAll'
    BY <1>7 DEF IInv, TypeOK, OpenedAll, ArrivedClosed, NotSubmitted, Past,
       Wake, Initial
  <2>5. QuitFirst'
    BY <1>7 DEF IInv, TypeOK, QuitFirst, OpenedAll,
       Wake, Initial
  <2>6. FinalizedAll'
    BY <1>7 DEF IInv, TypeOK, FinalizedAll, OpenedAll, QuitFirst, NotSubmitted, Past,
       Wake, Initial
  <2> QED
    BY <2>1, <2>2, <2>3, <2>4, <2>5, <2>6 DEF IInv
<1>8. CASE Finish(w)
  <2>1. TypeOK'
    BY <1>8 DEF IInv, TypeOK, Finish, MayFinalize, CloseRaised, Returned
  <2>2. NotSubmitted'
    BY <1>8 DEF IInv, TypeOK, NotSubmitted,
       Finish, MayFinalize, CloseRaised, Returned, Initial
  <2>3. ArrivedClosed'
    BY <1>8 DEF IInv, TypeOK, ArrivedClosed,
       Finish, MayFinalize, CloseRaised, Returned, Initial
  <2>4. OpenedAll'
    BY <1>8 DEF IInv, TypeOK, OpenedAll, ArrivedClosed, NotSubmitted, Past,
       Finish, MayFinalize, CloseRaised, Returned, Initial
  <2>5. QuitFirst'
    BY <1>8 DEF IInv, TypeOK, QuitFirst, OpenedAll,
       Finish, MayFinalize, CloseRaised, Returned, Initial
  <2>6. FinalizedAll'
    BY <1>8 DEF IInv, TypeOK, FinalizedAll, OpenedAll, QuitFirst, NotSubmitted, Past,
       Finish, MayFinalize, CloseRaised, Returned, Initial
  <2> QED
    BY <2>1, <2>2, <2>3, <2>4, <2>5, <2>6 DEF IInv
<1> QED
  BY <1>1, <1>2, <1>3, <1>4, <1>5, <1>6, <1>7, <1>8 DEF WorkerStep

(* The calling thread keeps it. *)
LEMMA MainStepInv ==
  ASSUME IInv, MainStep
  PROVE  IInv'
<1>1. CASE Submit
  <2>1. TypeOK'
    <3>1. k \in Workers /\ k \in 1..N+1 /\ k + 1 \in 1..N+1
      BY <1>1, NAssumption DEF IInv, TypeOK, Submit, Workers
    <3> QED
      BY <1>1, <3>1 DEF IInv, TypeOK, Submit
  <2>2. NotSubmitted'
    <3>1. CASE shut
      BY <1>1, <3>1 DEF NotSubmitted, Submit
    <3>2. CASE ~shut
      <4>1. ASSUME NEW i \in Workers, i >= k + 1
            PROVE  i >= k /\ i # k
        BY <4>1, NAssumption DEF IInv, TypeOK, Workers
      <4>2. k' = k + 1 /\ mpc = "submit"
        BY <1>1, <3>2 DEF Submit
      <4>3. \A i \in Workers : i # k => wpc'[i] = wpc[i]
        BY <1>1, <3>2 DEF Submit, IInv, TypeOK
      <4> QED
        BY <4>1, <4>2, <4>3 DEF IInv, NotSubmitted
    <3> QED
      BY <3>1, <3>2
  <2>3. ArrivedClosed'
    BY <1>1 DEF IInv, TypeOK, ArrivedClosed,
       Submit, Workers, Initial
  <2>4. OpenedAll'
    BY <1>1 DEF IInv, TypeOK, OpenedAll, ArrivedClosed, NotSubmitted, Past,
       Submit, Workers, Initial
  <2>5. QuitFirst'
    BY <1>1 DEF IInv, TypeOK, QuitFirst, OpenedAll,
       Submit, Workers, Initial
  <2>6. FinalizedAll'
    BY <1>1 DEF IInv, TypeOK, FinalizedAll, OpenedAll, QuitFirst, NotSubmitted, Past,
       Submit, Workers, Initial
  <2> QED
    BY <2>1, <2>2, <2>3, <2>4, <2>5, <2>6 DEF IInv
<1>2. CASE OpenFails
  <2>1. TypeOK'
    BY <1>2 DEF IInv, TypeOK, OpenFails
  <2>2. NotSubmitted'
    BY <1>2 DEF IInv, TypeOK, NotSubmitted,
       OpenFails, Initial
  <2>3. ArrivedClosed'
    BY <1>2 DEF IInv, TypeOK, ArrivedClosed,
       OpenFails, Initial
  <2>4. OpenedAll'
    BY <1>2 DEF IInv, TypeOK, OpenedAll, ArrivedClosed, NotSubmitted, Past,
       OpenFails, Initial
  <2>5. QuitFirst'
    BY <1>2 DEF IInv, TypeOK, QuitFirst, OpenedAll,
       OpenFails, Initial
  <2>6. FinalizedAll'
    BY <1>2 DEF IInv, TypeOK, FinalizedAll, OpenedAll, QuitFirst, NotSubmitted, Past,
       OpenFails, Initial
  <2> QED
    BY <2>1, <2>2, <2>3, <2>4, <2>5, <2>6 DEF IInv
<1>3. CASE Submitted
  <2>1. TypeOK'
    BY <1>3, NAssumption DEF IInv, TypeOK, Submitted
  <2>2. NotSubmitted'
    BY <1>3 DEF NotSubmitted, Submitted
  <2>3. ArrivedClosed'
    BY <1>3 DEF IInv, TypeOK, ArrivedClosed,
       Submitted, Initial
  <2>4. OpenedAll'
    BY <1>3 DEF IInv, TypeOK, OpenedAll, ArrivedClosed, NotSubmitted, Past,
       Submitted, Initial
  <2>5. QuitFirst'
    BY <1>3 DEF IInv, TypeOK, QuitFirst, OpenedAll,
       Submitted, Initial
  <2>6. FinalizedAll'
    BY <1>3 DEF IInv, TypeOK, FinalizedAll, OpenedAll, QuitFirst, NotSubmitted, Past,
       Submitted, Initial
  <2> QED
    BY <2>1, <2>2, <2>3, <2>4, <2>5, <2>6 DEF IInv
<1>4. CASE Collect
  <2>1. TypeOK'
    BY <1>4, NAssumption DEF IInv, TypeOK, Collect
  <2>2. NotSubmitted'
    BY <1>4 DEF NotSubmitted, Collect
  <2>3. ArrivedClosed'
    BY <1>4 DEF IInv, TypeOK, ArrivedClosed,
       Collect, Initial
  <2>4. OpenedAll'
    BY <1>4 DEF IInv, TypeOK, OpenedAll, ArrivedClosed, NotSubmitted, Past,
       Collect, Initial
  <2>5. QuitFirst'
    BY <1>4 DEF IInv, TypeOK, QuitFirst, OpenedAll,
       Collect, Initial
  <2>6. FinalizedAll'
    BY <1>4 DEF IInv, TypeOK, FinalizedAll, OpenedAll, QuitFirst, NotSubmitted, Past,
       Collect, Initial
  <2> QED
    BY <2>1, <2>2, <2>3, <2>4, <2>5, <2>6 DEF IInv
<1>5. CASE Report
  <2>1. TypeOK'
    BY <1>5 DEF IInv, TypeOK, Report
  <2>2. NotSubmitted'
    BY <1>5 DEF IInv, TypeOK, NotSubmitted,
       Report, Initial
  <2>3. ArrivedClosed'
    BY <1>5 DEF IInv, TypeOK, ArrivedClosed,
       Report, Initial
  <2>4. OpenedAll'
    BY <1>5 DEF IInv, TypeOK, OpenedAll, ArrivedClosed, NotSubmitted, Past,
       Report, Initial
  <2>5. QuitFirst'
    BY <1>5 DEF IInv, TypeOK, QuitFirst, OpenedAll,
       Report, Initial
  <2>6. FinalizedAll'
    BY <1>5 DEF IInv, TypeOK, FinalizedAll, OpenedAll, QuitFirst, NotSubmitted, Past,
       Report, Initial
  <2> QED
    BY <2>1, <2>2, <2>3, <2>4, <2>5, <2>6 DEF IInv
<1>6. CASE Interrupted
  <2>1. TypeOK'
    BY <1>6 DEF IInv, TypeOK, Interrupted
  <2>2. NotSubmitted'
    BY <1>6 DEF IInv, TypeOK, NotSubmitted,
       Interrupted, Initial
  <2>3. ArrivedClosed'
    BY <1>6 DEF IInv, TypeOK, ArrivedClosed,
       Interrupted, Initial
  <2>4. OpenedAll'
    BY <1>6 DEF IInv, TypeOK, OpenedAll, ArrivedClosed, NotSubmitted, Past,
       Interrupted, Initial
  <2>5. QuitFirst'
    BY <1>6 DEF IInv, TypeOK, QuitFirst, OpenedAll,
       Interrupted, Initial
  <2>6. FinalizedAll'
    BY <1>6 DEF IInv, TypeOK, FinalizedAll, OpenedAll, QuitFirst, NotSubmitted, Past,
       Interrupted, Initial
  <2> QED
    BY <2>1, <2>2, <2>3, <2>4, <2>5, <2>6 DEF IInv
<1>7. CASE MainQuits
  <2>1. TypeOK'
    BY <1>7 DEF IInv, TypeOK, MainQuits, Quitters
  <2>2. NotSubmitted'
    BY <1>7 DEF IInv, TypeOK, NotSubmitted,
       MainQuits, Quitters, Initial
  <2>3. ArrivedClosed'
    BY <1>7 DEF IInv, TypeOK, ArrivedClosed,
       MainQuits, Quitters, Initial
  <2>4. OpenedAll'
    BY <1>7 DEF IInv, TypeOK, OpenedAll, ArrivedClosed, NotSubmitted, Past,
       MainQuits, Quitters, Initial
  <2>5. QuitFirst'
    BY <1>7 DEF IInv, TypeOK, QuitFirst, OpenedAll,
       MainQuits, Quitters, Initial
  <2>6. FinalizedAll'
    BY <1>7 DEF IInv, TypeOK, FinalizedAll, OpenedAll, QuitFirst, NotSubmitted, Past,
       MainQuits, Quitters, Initial
  <2> QED
    BY <2>1, <2>2, <2>3, <2>4, <2>5, <2>6 DEF IInv
<1>8. CASE MainReraises
  <2>1. TypeOK'
    BY <1>8 DEF IInv, TypeOK, MainReraises, Quitters
  <2>2. NotSubmitted'
    BY <1>8 DEF IInv, TypeOK, NotSubmitted,
       MainReraises, Quitters, Initial
  <2>3. ArrivedClosed'
    BY <1>8 DEF IInv, TypeOK, ArrivedClosed,
       MainReraises, Quitters, Initial
  <2>4. OpenedAll'
    BY <1>8 DEF IInv, TypeOK, OpenedAll, ArrivedClosed, NotSubmitted, Past,
       MainReraises, Quitters, Initial
  <2>5. QuitFirst'
    BY <1>8 DEF IInv, TypeOK, QuitFirst, OpenedAll,
       MainReraises, Quitters, Initial
  <2>6. FinalizedAll'
    BY <1>8 DEF IInv, TypeOK, FinalizedAll, OpenedAll, QuitFirst, NotSubmitted, Past,
       MainReraises, Quitters, Initial
  <2> QED
    BY <2>1, <2>2, <2>3, <2>4, <2>5, <2>6 DEF IInv
<1> QED
  BY <1>1, <1>2, <1>3, <1>4, <1>5, <1>6, <1>7, <1>8 DEF MainStep

(* A quit keeps it, at each of its steps. *)
LEMMA QuitStepInv ==
  ASSUME IInv, NEW q \in Quitters, QuitStep(q)
  PROVE  IInv'
<1>1. CASE QuitCheck(q)
  <2>1. TypeOK'
    BY <1>1 DEF IInv, TypeOK, QuitCheck
  <2>2. NotSubmitted'
    BY <1>1 DEF IInv, TypeOK, NotSubmitted,
       QuitCheck, Initial
  <2>3. ArrivedClosed'
    BY <1>1 DEF IInv, TypeOK, ArrivedClosed,
       QuitCheck, Initial
  <2>4. OpenedAll'
    BY <1>1 DEF IInv, TypeOK, OpenedAll, ArrivedClosed, NotSubmitted, Past,
       QuitCheck, Initial
  <2>5. QuitFirst'
    BY <1>1 DEF IInv, TypeOK, QuitFirst, OpenedAll,
       QuitCheck, Initial
  <2>6. FinalizedAll'
    BY <1>1 DEF IInv, TypeOK, FinalizedAll, OpenedAll, QuitFirst, NotSubmitted, Past,
       QuitCheck, Initial
  <2> QED
    BY <2>1, <2>2, <2>3, <2>4, <2>5, <2>6 DEF IInv
<1>2. CASE QuitBreak(q)
  <2>1. TypeOK'
    BY <1>2 DEF IInv, TypeOK, QuitBreak, AfterAbort
  <2>2. NotSubmitted'
    BY <1>2 DEF IInv, TypeOK, NotSubmitted,
       QuitBreak, AfterAbort, Initial
  <2>3. ArrivedClosed'
    BY <1>2 DEF IInv, TypeOK, ArrivedClosed,
       QuitBreak, AfterAbort, Initial
  <2>4. OpenedAll'
    BY <1>2 DEF IInv, TypeOK, OpenedAll, ArrivedClosed, NotSubmitted, Past,
       QuitBreak, AfterAbort, Initial
  <2>5. QuitFirst'
    BY <1>2 DEF IInv, TypeOK, QuitFirst, OpenedAll,
       QuitBreak, AfterAbort, Initial
  <2>6. FinalizedAll'
    BY <1>2 DEF IInv, TypeOK, FinalizedAll, OpenedAll, QuitFirst, NotSubmitted, Past,
       QuitBreak, AfterAbort, Initial
  <2> QED
    BY <2>1, <2>2, <2>3, <2>4, <2>5, <2>6 DEF IInv
<1>3. CASE QuitShutdown(q)
  <2>1. TypeOK'
    BY <1>3 DEF IInv, TypeOK, QuitShutdown
  <2>2. NotSubmitted'
    BY <1>3 DEF IInv, TypeOK, NotSubmitted,
       QuitShutdown, Initial
  <2>3. ArrivedClosed'
    BY <1>3 DEF IInv, TypeOK, ArrivedClosed,
       QuitShutdown, Initial
  <2>4. OpenedAll'
    BY <1>3 DEF IInv, TypeOK, OpenedAll, ArrivedClosed, NotSubmitted, Past,
       QuitShutdown, Initial
  <2>5. QuitFirst'
    BY <1>3 DEF IInv, TypeOK, QuitFirst, OpenedAll,
       QuitShutdown, Initial
  <2>6. FinalizedAll'
    BY <1>3 DEF IInv, TypeOK, FinalizedAll, OpenedAll, QuitFirst, NotSubmitted, Past,
       QuitShutdown, Initial
  <2> QED
    BY <2>1, <2>2, <2>3, <2>4, <2>5, <2>6 DEF IInv
<1>4. CASE QuitJoin(q)
  <2>1. TypeOK'
    BY <1>4 DEF IInv, TypeOK, QuitJoin
  <2>2. NotSubmitted'
    BY <1>4 DEF IInv, TypeOK, NotSubmitted,
       QuitJoin, Initial
  <2>3. ArrivedClosed'
    BY <1>4 DEF IInv, TypeOK, ArrivedClosed,
       QuitJoin, Initial
  <2>4. OpenedAll'
    BY <1>4 DEF IInv, TypeOK, OpenedAll, ArrivedClosed, NotSubmitted, Past,
       QuitJoin, Initial
  <2>5. QuitFirst'
    BY <1>4 DEF IInv, TypeOK, QuitFirst, OpenedAll,
       QuitJoin, Initial
  <2>6. FinalizedAll'
    BY <1>4 DEF IInv, TypeOK, FinalizedAll, OpenedAll, QuitFirst, NotSubmitted, Past,
       QuitJoin, Initial
  <2> QED
    BY <2>1, <2>2, <2>3, <2>4, <2>5, <2>6 DEF IInv
<1> QED
  BY <1>1, <1>2, <1>3, <1>4 DEF QuitStep

(* The callback of AsyncNotify keeps it. *)
LEMMA RecordInv ==
  ASSUME IInv, NEW w \in Workers, Record(w)
  PROVE  IInv'
  BY DEF IInv, TypeOK, NotSubmitted, ArrivedClosed, OpenedAll, QuitFirst,
         FinalizedAll, Record, Recordable

(* So does a thread that asks for an abort. *)
LEMMA AbortInv ==
  ASSUME IInv, NEW a \in Aborters, Abort(a)
  PROVE  IInv'
  BY DEF IInv, TypeOK, NotSubmitted, ArrivedClosed, OpenedAll, QuitFirst,
         FinalizedAll, Abort, Quitters

(* Every step keeps the invariant. *)
LEMMA NextInv == IInv /\ [Next]_vars => IInv'
<1> SUFFICES ASSUME IInv, [Next]_vars PROVE IInv'
  OBVIOUS
<1>1. ASSUME NEW i \in Workers, WorkerStep(i) PROVE IInv'
  BY <1>1, WorkerStepInv
<1>2. ASSUME NEW i \in Workers, Record(i) PROVE IInv'
  BY <1>2, RecordInv
<1>3. ASSUME NEW a \in Aborters, Abort(a) PROVE IInv'
  BY <1>3, AbortInv
<1>4. ASSUME NEW q \in Quitters, QuitStep(q) PROVE IInv'
  BY <1>4, QuitStepInv
<1>5. CASE MainStep
  BY <1>5, MainStepInv
<1>6. CASE UNCHANGED vars
  BY <1>6 DEF vars, IInv, TypeOK, NotSubmitted, ArrivedClosed, OpenedAll,
         QuitFirst, FinalizedAll, Past
<1> QED
  BY <1>1, <1>2, <1>3, <1>4, <1>5, <1>6 DEF Next

(* So it always holds. *)
LEMMA Inductive == Spec => []IInv
  BY InitInv, NextInv, PTL DEF Spec

(***************************************************************************)
(* The variables of a transfer keep their types: no thread copies more     *)
(* than its range and no range is negative, however the object is divided. *)
(***************************************************************************)
THEOREM TypeCorrect == Spec => []TypeOK
<1>1. IInv => TypeOK
  BY DEF IInv
<1> QED
  BY <1>1, Inductive, PTL

(***************************************************************************)
(* _Multipart_close_manager: "the initial transfer thread is also the last *)
(* one to call the close method".                                          *)
(***************************************************************************)
THEOREM InitialClosesLast == Spec => []FinalLast
<1>1. IInv => FinalLast
  BY DEF IInv, TypeOK, FinalizedAll, FinalLast
<1> QED
  BY <1>1, Inductive, PTL

(***************************************************************************)
(* A transfer that an abort cut short is never finalized.                  *)
(***************************************************************************)
THEOREM NeverFinalizedShort == Spec => []AbortedNotFinalized
<1>1. IInv => AbortedNotFinalized
  BY DEF IInv, FinalizedAll, AbortedNotFinalized
<1> QED
  BY <1>1, Inductive, PTL

-----------------------------------------------------------------------------
(* What is reported was finalized *)

\* The future of the thread with the initial handle has a result.
FirstDone == wpc[Initial] = "ended" /\ status[Initial] \in {"int", "aborted"}

ReportInv ==
  /\ \A i \in Workers : broke[i] => quit
  /\ wpc[Initial] = "ended" /\ status[Initial] = "int" => Initial \in closed \/ quit
  /\ mpc = "collect" /\ k > Initial => FirstDone
  /\ outcome = "ok" => FirstDone
  /\ notified = "called" => Initial \in recorded
  /\ Initial \in recorded => FirstDone

(* The initial thread has a byte to copy. *)
LEMMA FirstPart == Total >= N => PartLen(Initial) # 0 /\ Initial \in Workers
<1> SUFFICES ASSUME Total >= N PROVE PartLen(Initial) # 0 /\ Initial \in Workers
  OBVIOUS
<1>1. N \in Nat /\ N > 0 /\ Total \in Nat
  BY NAssumption, TotalAssumption
<1>2. Total \div N >= 1
  BY <1>1
<1> QED
  BY <1>1, <1>2 DEF PartLen, Begin, End, PerThread, Initial, Workers

(***************************************************************************)
(* A transfer thread ends with an int or None only after its part in the   *)
(* close.                                                                  *)
(***************************************************************************)
LEMMA ReportWorker ==
  ASSUME IInv, IInv', ReportInv, PartLen(Initial) # 0, Initial \in Workers,
         NEW w \in Workers, WorkerStep(w)
  PROVE  ReportInv'
  BY DEF IInv, TypeOK, QuitFirst, ReportInv, FirstDone, WorkerStep, Start, CopyChunk,
     CopyAborted, CopyDone, CloseAux, Arrive, Wake, Finish, MayFinalize, Returned,
     CloseRaised, More

(* The calling thread reports what the futures say. *)
LEMMA ReportMain ==
  ASSUME IInv, ReportInv, Initial \in Workers, MainStep
  PROVE  ReportInv'
  BY NAssumption DEF IInv, TypeOK, NotSubmitted, ReportInv, FirstDone, MainStep, Submit, OpenFails,
     Submitted, Collect, Report, Interrupted, MainQuits, MainReraises, Initial, Workers

(* The callback and a quit do not make a success of anything else. *)
LEMMA ReportOthers ==
  ASSUME IInv, ReportInv, Initial \in Workers,
         \/ \E i \in Workers : Record(i)
         \/ \E a \in Aborters : Abort(a)
         \/ \E q \in Quitters : QuitStep(q)
         \/ UNCHANGED vars
  PROVE  ReportInv'
  BY DEF IInv, TypeOK, ReportInv, FirstDone, Record, Recordable, Abort, QuitStep, QuitCheck,
     QuitBreak, QuitShutdown, QuitJoin, vars

(* Every step keeps ReportInv. *)
LEMMA ReportNext ==
  ASSUME IInv, ReportInv, Total >= N, [Next]_vars
  PROVE  ReportInv'
<1>1. IInv' /\ PartLen(Initial) # 0 /\ Initial \in Workers
  BY NextInv, FirstPart
<1>2. ASSUME NEW i \in Workers, WorkerStep(i) PROVE ReportInv'
  BY <1>1, <1>2, ReportWorker
<1>3. CASE MainStep
  BY <1>1, <1>3, ReportMain
<1>4. CASE \/ \E i \in Workers : Record(i)
           \/ \E a \in Aborters : Abort(a)
           \/ \E q \in Quitters : QuitStep(q)
           \/ UNCHANGED vars
  BY <1>1, <1>4, ReportOthers
<1> QED
  BY <1>2, <1>3, <1>4 DEF Next

(***************************************************************************)
(* A success that is returned, or told to the callback, is that of an      *)
(* object that was finalized, unless the transfer was aborted -- provided  *)
(* that no range is empty: the thread of an empty one returns without      *)
(* closing anything (run transfer_small).                                  *)
(***************************************************************************)
THEOREM ReportedFinal ==
  ASSUME Total >= N PROVE Spec => []FinalizedUnlessQuit
<1>1. Init => ReportInv
  BY FirstPart, NAssumption DEF Init, ReportInv, FirstDone, Initial
<1>2. IInv /\ ReportInv /\ [Next]_vars => ReportInv'
  BY ReportNext
<1>3. IInv /\ ReportInv => FinalizedUnlessQuit
  BY FirstPart DEF IInv, QuitFirst, ReportInv, FirstDone, Reported,
     FinalizedUnlessQuit
<1> QED
  BY <1>1, <1>2, <1>3, Inductive, PTL DEF Spec

-----------------------------------------------------------------------------
(* Success means that all was copied *)

(***************************************************************************)
(* The ranges of the threads add up to the object, and when it has a byte  *)
(* for every thread none of them is empty.                                 *)
(***************************************************************************)
LEMMA Quotient ==
  PerThread \in Nat /\ N * PerThread <= Total /\ (Total >= N => PerThread >= 1)
<1>1. N \in Nat /\ N > 0 /\ Total \in Nat
  BY NAssumption, TotalAssumption
<1>2. PerThread \in Nat /\ N * PerThread <= Total
  BY <1>1, SMTT(30) DEF PerThread
<1>3. Total >= N => PerThread >= 1
  BY <1>1 DEF PerThread
<1> QED BY <1>2, <1>3

(***************************************************************************)
(* All ranges have the length of a quotient, and the last one the          *)
(* remainder too.                                                          *)
(***************************************************************************)
LEMMA RangeLengths ==
  /\ \A i \in Workers : i < N => PartLen(i) = PerThread
  /\ PartLen(N) = Total - (N - 1) * PerThread
  /\ Total >= N => \A i \in Workers : PartLen(i) > 0
<1>1. N \in Nat /\ N > 0 /\ Total \in Nat /\ Workers = 1..N
  BY NAssumption, TotalAssumption DEF Workers
<1>2. PICK q \in Nat : q = PerThread /\ N * q <= Total /\ (Total >= N => q >= 1)
  BY Quotient
<1>3. ASSUME NEW i \in 1..N, i < N
      PROVE  PartLen(i) = q
  <2>1. (i - 1) * q = i * q - q
    OBVIOUS
  <2> QED BY <1>2, <1>3, <2>1 DEF PartLen, Begin, End
<1>4. PartLen(N) = Total - (N - 1) * q
  BY <1>1, <1>2 DEF PartLen, Begin, End
<1>5. (N - 1) * q = N * q - q /\ N * q \in Int
  BY <1>1
<1>6. Total >= N => PartLen(N) > 0
  BY <1>1, <1>2, <1>4, <1>5
<1>7. Total >= N => \A i \in 1..N : PartLen(i) > 0
  <2>1. \A i \in 1..N : i < N \/ i = N
    BY <1>1
  <2> QED BY <1>2, <1>3, <1>6, <2>1
<1> QED BY <1>1, <1>2, <1>3, <1>4, <1>7

(* The lengths of the ranges add up to total_size. *)
LEMMA RangesAddUp ==
  ASSUME NEW f, NEW F, f = [i \in Workers |-> PartLen(i)], Sums(Workers, f, F)
  PROVE  F[Workers] = Total
<1>1. N \in Nat /\ N > 0 /\ Total \in Nat /\ Workers = 1..N
  BY NAssumption, TotalAssumption DEF Workers
<1>2. PICK q \in Nat : q = PerThread
  BY Quotient
<1>3. f \in [Workers -> Int] /\ IsFiniteSet(Workers)
  BY <1>1, PartLenNat, FS_Interval
<1>a. IntSums(Workers, f, F)
  BY <1>3 DEF IntSums
<1> DEFINE T == {n \in Nat : n < N => F[1..n] = n * q}
<1>4. 0 \in T
  <2>1. 1..0 = {} /\ 0 * q = 0
    OBVIOUS
  <2> QED BY <2>1, SumsAt
<1>5. ASSUME NEW n \in Nat, n \in T
      PROVE  n + 1 \in T
  <2>1. SUFFICES ASSUME n + 1 < N
                 PROVE  F[1..(n + 1)] = (n + 1) * q
    OBVIOUS
  <2>2. PICK j \in Workers : j = n + 1 /\ j < N
    BY <1>1, <2>1
  <2>3. 1..j \in SUBSET Workers /\ j \in 1..j /\ (1..j) \ {j} = 1..n
    BY <1>1, <2>2
  <2>4. F[1..j] = f[j] + F[(1..j) \ {j}]
    <3>1. Takes(f, F, 1..j, j)
      BY <1>a, <2>3, SumTakes
    <3> QED BY <3>1 DEF Takes
  <2>5. f[j] = q
    BY <1>2, <2>2, RangeLengths
  <2>6. F[1..n] = n * q /\ n * q \in Int
    BY <1>1, <1>5, <2>1
  <2>7. (n + 1) * q = q + n * q
    OBVIOUS
  <2> QED BY <2>2, <2>3, <2>4, <2>5, <2>6, <2>7
<1> HIDE DEF T
<1>6. PICK m \in Nat : m = N - 1 /\ m < N
  BY <1>1
<1>7. F[1..m] = m * q
  <2>1. m \in T
    BY <1>4, <1>5, NatClosed
  <2> QED BY <1>6, <2>1 DEF T
<1>8. N \in 1..N /\ (1..N) \ {N} = 1..m /\ 1..N \in SUBSET Workers
  BY <1>1, <1>6
<1>9. F[1..N] = f[N] + F[(1..N) \ {N}]
  <2>1. Takes(f, F, 1..N, N)
    BY <1>a, <1>8, SumTakes
  <2> QED BY <2>1 DEF Takes
<1>10. f[N] = Total - m * q /\ m * q \in Int
  <2>1. f[N] = PartLen(N) /\ m * q \in Int
    BY <1>1
  <2>2. PartLen(N) = Total - (N - 1) * PerThread
    BY RangeLengths
  <2> QED BY <1>2, <1>6, <2>1, <2>2
<1>11. PICK d \in Int : d = m * q
  BY <1>10
<1>12. F[(1..N) \ {N}] = d
  BY <1>7, <1>8, <1>11
<1>13. F[1..N] = (Total - d) + d
  BY <1>9, <1>10, <1>11, <1>12
<1>14. (Total - d) + d = Total
  BY <1>1
<1> QED BY <1>1, <1>13, <1>14

(* The bytes of the object lie in the ranges. *)
LEMMA RangesCover ==
  ASSUME NEW t \in 0..(Total - 1)
  PROVE  \E i \in Workers : t \in Begin(i)..(End(i) - 1)
<1>1. N \in Nat /\ N > 0 /\ Total \in Nat /\ Workers = 1..N
  BY NAssumption, TotalAssumption DEF Workers
<1>2. PICK q \in Nat : q = PerThread
  BY Quotient
<1>3. CASE t >= (N - 1) * q
  <2>1. N \in Workers /\ Begin(N) = (N - 1) * q /\ End(N) = Total /\ (N - 1) * q \in Int
    BY <1>1, <1>2 DEF Begin, End
  <2> QED BY <1>1, <1>3, <2>1
<1>4. CASE t < (N - 1) * q
  <2> DEFINE T == {n \in Nat : n <= N - 1 /\ n * q <= t => n * q <= t}
  <2>1. q > 0
    <3>1. q = 0 => (N - 1) * q = 0
      BY <1>1
    <3> QED BY <1>4, <3>1
  <2>2. PICK n \in Nat : t < n * q /\ \A m \in Nat : t < m * q => n <= m
    <3> DEFINE S == {n \in Nat : t < n * q}
    <3>1. N - 1 \in S
      BY <1>1, <1>4
    <3> HIDE DEF S
    <3>2. PICK n \in S : \A m \in S : n <= m
      <4>1. S \in SUBSET Nat /\ S # {}
        BY <3>1 DEF S
      <4> QED BY <4>1, LeastNat
    <3> QED BY <3>2 DEF S
  <2>3. n <= N - 1 /\ n > 0
    <3>1. 0 * q = 0 /\ N - 1 \in Nat
      BY <1>1
    <3> QED BY <1>4, <2>2, <3>1
  <2>4. (n - 1) * q <= t
    <3>1. n - 1 \in Nat /\ ~(n <= n - 1) /\ (n - 1) * q \in Int
      BY <2>3
    <3> QED BY <2>2, <3>1
  <2>5. n \in Workers /\ Begin(n) = (n - 1) * q /\ End(n) = n * q
    BY <1>1, <1>2, <2>3 DEF Begin, End
  <2>6. n * q \in Int /\ (n - 1) * q \in Int
    OBVIOUS
  <2> QED BY <2>2, <2>4, <2>5, <2>6
<1> QED BY <1>1, <1>3, <1>4

(***************************************************************************)
(* bytes_transferred equals total_size only if no thread has left anything *)
(* of its range.                                                           *)
(***************************************************************************)
LEMMA AllCopied ==
  ASSUME TypeOK, Transferred = Total
  PROVE  \A i \in Workers : left[i] = 0
<1>1. IsFiniteSet(Workers) /\ Workers = 1..N
  BY NAssumption, FS_Interval DEF Workers
<1>2. PICK f : f = [i \in Workers |-> PartLen(i) - left[i]]
  OBVIOUS
<1>3. PICK g : g = [i \in Workers |-> PartLen(i)]
  OBVIOUS
<1>4. left \in [Workers -> Nat] /\ \A i \in Workers : PartLen(i) \in Nat
  BY PartLenNat DEF TypeOK
<1>5. f \in [Workers -> Int] /\ g \in [Workers -> Int] /\ \A i \in Workers : f[i] <= g[i]
  BY <1>2, <1>3, <1>4
<1>6. PICK G : Sums(Workers, g, G)
  BY <1>1, SumsExist
<1>7. G[Workers] = Total
  BY <1>3, <1>6, RangesAddUp
<1>8. PICK F : Sums(Workers, f, F) /\ F[Workers] = Transferred
  <2> DEFINE H == CHOOSE h : h = [s \in SUBSET Workers |->
                     IF s = {} THEN 0
                     ELSE (PartLen(CHOOSE x \in s : TRUE) - left[CHOOSE x \in s : TRUE])
                          + h[s \ {CHOOSE x \in s : TRUE}]]
  <2>1. Transferred = H[Workers]
    BY DEF Transferred, MapThenSumSet, MapThenFoldSet
  <2>2. PICK E : Sums(Workers, f, E)
    BY <1>1, SumsExist
  <2>3. E = [s \in SUBSET Workers |->
               IF s = {} THEN 0
               ELSE (PartLen(CHOOSE x \in s : TRUE) - left[CHOOSE x \in s : TRUE])
                    + E[s \ {CHOOSE x \in s : TRUE}]]
    BY <1>2, <2>2 DEF Sums, Some
  <2>4. H = [s \in SUBSET Workers |->
               IF s = {} THEN 0
               ELSE (PartLen(CHOOSE x \in s : TRUE) - left[CHOOSE x \in s : TRUE])
                    + H[s \ {CHOOSE x \in s : TRUE}]]
    BY <2>3
  <2> HIDE DEF H
  <2>5. Sums(Workers, f, H)
    BY <1>2, <2>4 DEF Sums, Some
  <2> QED BY <2>1, <2>5
<1>9. f = g
  <2>1. IntSums(Workers, f, F) /\ IntSums(Workers, g, G)
    BY <1>1, <1>5, <1>6, <1>8 DEF IntSums
  <2> QED BY <1>5, <1>7, <1>8, <2>1, SameSums
<1> QED BY <1>2, <1>3, <1>4, <1>9

\* The result of the thread's future does not raise.
Delivered(i) == wpc[i] = "ended" /\ status[i] \in {"int", "aborted"}

\* A thread that is past its own close, or has a result, left no handle open.
HandlesClosed ==
  /\ Initial \notin aux
  /\ \A i \in Workers :
       wpc[i] \in {"arrive", "barrier", "finish"} \/ Delivered(i) => i \notin aux

CollectedSoFar == mpc = "collect" => \A i \in Workers : i < k => Delivered(i)

SucceededFully ==
  outcome = "ok" => /\ mpc = "returned"
                    /\ \A i \in Workers : Delivered(i) /\ left[i] = 0

CompleteInv == HandlesClosed /\ CollectedSoFar /\ SucceededFully

(***************************************************************************)
(* A transfer thread comes to the barrier, or to its result, with its      *)
(* handle closed.                                                          *)
(***************************************************************************)
LEMMA CompleteWorker ==
  ASSUME IInv, CompleteInv, \A i \in Workers : PartLen(i) > 0,
         NEW w \in Workers, WorkerStep(w)
  PROVE  CompleteInv'
<1>1. HandlesClosed'
  BY DEF IInv, TypeOK, CompleteInv, HandlesClosed, Delivered, WorkerStep, Start,
     CopyChunk, CopyAborted, CopyDone, CloseAux, Arrive, Wake, Finish, Returned,
     CloseRaised
<1>2. CollectedSoFar' /\ SucceededFully'
  BY DEF IInv, TypeOK, CompleteInv, CollectedSoFar, SucceededFully, Delivered,
     WorkerStep, Start, CopyChunk, CopyAborted, CopyDone, CloseAux, Arrive, Wake,
     Finish
<1> QED BY <1>1, <1>2 DEF CompleteInv

(* The calling thread reports success only for counts that add up. *)
LEMMA CompleteMain ==
  ASSUME IInv, CompleteInv, Total >= N, MainStep
  PROVE  CompleteInv'
<1>1. N \in Nat /\ N > 0 /\ Total \in Nat /\ Workers = 1..N
  BY NAssumption, TotalAssumption DEF Workers
<1>2. HandlesClosed'
  BY <1>1 DEF IInv, TypeOK, NotSubmitted, CompleteInv, HandlesClosed, Delivered, MainStep,
     Submit, OpenFails, Submitted, Collect, Report, Interrupted, MainQuits, MainReraises
<1>3. CollectedSoFar'
  BY <1>1 DEF IInv, TypeOK, CompleteInv, CollectedSoFar, SucceededFully, Delivered,
     MainStep, Submit, OpenFails, Submitted, Collect, Report, Interrupted, MainQuits,
     MainReraises
<1>4. outcome # "ok" \/ mpc = "returned"
  BY DEF CompleteInv, SucceededFully
<1>5. SucceededFully'
  <2>1. CASE Report /\ outcome' = "ok"
    <3>1. AllTransferred
      BY <2>1 DEF Report
    <3>2. \A i \in Workers : Delivered(i)
      BY <1>1, <2>1 DEF IInv, TypeOK, CompleteInv, CollectedSoFar, Report
    <3>3. Transferred = Total
      BY <1>1, <3>1 DEF AllTransferred
    <3>4. \A i \in Workers : left[i] = 0
      BY <3>3, AllCopied DEF IInv
    <3> QED BY <2>1, <3>2, <3>4 DEF Report, SucceededFully, Delivered
  <2>2. CASE ~Report
    <3>1. mpc # "returned"
      BY <2>2 DEF MainStep, Submit, OpenFails, Submitted, Collect, Interrupted,
         MainQuits, MainReraises
    <3>2. outcome' # "ok"
      BY <1>4, <2>2, <3>1 DEF MainStep, Submit, OpenFails, Submitted, Collect,
         Interrupted, MainQuits, MainReraises
    <3> QED BY <3>2 DEF SucceededFully
  <2>3. CASE outcome' # "ok"
    BY <2>3 DEF SucceededFully
  <2> QED BY <2>1, <2>2, <2>3
<1> QED BY <1>2, <1>3, <1>5 DEF CompleteInv

(* The callback and a quit change none of it. *)
LEMMA CompleteOthers ==
  ASSUME IInv, CompleteInv,
         \/ \E i \in Workers : Record(i)
         \/ \E a \in Aborters : Abort(a)
         \/ \E q \in Quitters : QuitStep(q)
         \/ UNCHANGED vars
  PROVE  CompleteInv'
  BY DEF IInv, TypeOK, CompleteInv, HandlesClosed, CollectedSoFar, SucceededFully,
     Delivered, Record, Abort, QuitStep, QuitCheck, QuitBreak, QuitShutdown, QuitJoin,
     vars

(* Every step keeps CompleteInv. *)
LEMMA CompleteNext ==
  ASSUME IInv, CompleteInv, Total >= N, [Next]_vars
  PROVE  CompleteInv'
<1>1. \A i \in Workers : PartLen(i) > 0
  BY RangeLengths
<1>2. ASSUME NEW i \in Workers, WorkerStep(i) PROVE CompleteInv'
  BY <1>1, <1>2, CompleteWorker
<1>3. CASE MainStep
  BY <1>3, CompleteMain
<1>4. CASE \/ \E i \in Workers : Record(i)
           \/ \E a \in Aborters : Abort(a)
           \/ \E q \in Quitters : QuitStep(q)
           \/ UNCHANGED vars
  BY <1>4, CompleteOthers
<1> QED
  BY <1>2, <1>3, <1>4 DEF Next

(***************************************************************************)
(* io_main returns True, because the counts of the threads add up to       *)
(* total_size, only when every byte of the object was copied by the thread *)
(* whose range it lies in and every auxiliary handle is closed -- whatever *)
(* the number of threads and the size, short reads, errors and aborts --   *)
(* provided that no range is empty (run transfer_small).                   *)
(***************************************************************************)
THEOREM SuccessIsComplete ==
  ASSUME Total >= N PROVE Spec => []SuccessComplete
<1>1. Init => CompleteInv
  BY NAssumption DEF Init, CompleteInv, HandlesClosed, CollectedSoFar, SucceededFully,
     Delivered
<1>2. IInv /\ CompleteInv /\ [Next]_vars => CompleteInv'
  BY CompleteNext
<1>3. IInv /\ CompleteInv => SuccessComplete
  <2>1. SUFFICES ASSUME IInv, CompleteInv, outcome = "ok"
                 PROVE  /\ 0..(Total - 1) \subseteq UNION {Copied(i) : i \in Workers}
                        /\ aux = {}
    BY DEF SuccessComplete
  <2>2. \A i \in Workers : Delivered(i) /\ left[i] = 0
    BY <2>1 DEF CompleteInv, SucceededFully
  <2>3. aux = {}
    BY <2>1, <2>2 DEF IInv, TypeOK, CompleteInv, HandlesClosed
  <2>4. ASSUME NEW t \in 0..(Total - 1)
        PROVE  t \in UNION {Copied(i) : i \in Workers}
    <3>1. PICK i \in Workers : t \in Begin(i)..(End(i) - 1)
      BY RangesCover
    <3>2. End(i) - 0 = End(i)
      BY NAssumption, TotalAssumption, Quotient DEF End, Workers
    <3>3. Copied(i) = Begin(i)..(End(i) - 1)
      BY <2>2, <3>1, <3>2 DEF Copied
    <3> QED BY <3>1, <3>3
  <2> QED BY <2>3, <2>4
<1> QED
  BY <1>1, <1>2, <1>3, Inductive, PTL DEF Spec
=============================================================================
