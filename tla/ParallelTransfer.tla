-------------------------- MODULE ParallelTransfer --------------------------
(***************************************************************************)
(* One parallel put or get: irods/parallel.py.  The calling thread ("main")*)
(* carves the object into one byte range per thread, opens a handle for    *)
(* each range and submits it to a ThreadPoolExecutor; the transfer threads *)
(* copy, close their handle, meet at a threading.Barrier, and thread 1,    *)
(* which has the initial handle, makes the finalizing close.  Main then    *)
(* collects the results, or returns an AsyncNotify object that the threads *)
(* call when they end.  abort_parallel_transfers() may be called from any  *)
(* other thread (or from a signal handler) and calls the manager's quit(). *)
(*                                                                         *)
(* A chunk of COPY_BUF_SIZE bytes is one unit of Total.  The executor and  *)
(* the barrier belong to the Python library; they are modelled from its    *)
(* documentation as far as parallel.py uses them.  Removing the handles    *)
(* from the set that is closed at exit (the first line of quit()) is left  *)
(* out: nothing here reads that set.                                       *)
(*                                                                         *)
(* An operator X_Y beside X is X with a plausible bug Y; no specification  *)
(* uses it, and the properties are shown to notice it.                     *)
(***************************************************************************)
EXTENDS Integers, FiniteSetsExt

CONSTANTS
  N,          \* num_threads
  Total,      \* total_size
  Aborters,   \* threads that call abort_parallel_transfers()
  Faults      \* subset of {"io", "short", "close", "final", "open", "interrupt"}

ASSUME NAssumption == N \in Nat \ {0}
ASSUME TotalAssumption == Total \in Nat
ASSUME AbortersAssumption == "main" \notin Aborters

Workers == 1..N
Initial == 1                            \* the thread with mgr.initial_io
Quitters == Aborters \cup {"main"}      \* threads that run mgr.quit()

VARIABLES
  mpc,        \* main: "submit", "collect", "quit", "returned"
  nonblock,   \* Oper.NONBLOCKING
  k,          \* next range to submit; next future to collect
  outcome,    \* what main returned: "ok", "failed", "raised", "async"
  wpc,        \* the transfer threads
  left,       \* units of its range a thread has not copied
  status,     \* its future: "none", "int", "aborted" (None), "error", "cancelled"
  broke,      \* its barrier.wait() raised BrokenBarrierError
  aux,        \* mgr.aux: the open handles that are not the initial one
  closed,     \* threads whose handle is closed
  quit,       \* mgr._quit
  barrier,    \* "filling", "draining", "broken"
  shut,       \* the executor takes no more work
  qpc,        \* the threads inside mgr.quit()
  recorded,   \* AsyncNotify._futures_done
  notified    \* "no", "done", "called": the transfer-done callback ran

mainVars == <<mpc, nonblock, k, outcome>>
workVars == <<wpc, left, status, broke>>
mgrVars == <<aux, closed, quit, barrier, shut, qpc>>
noteVars == <<recorded, notified>>
vars == <<mpc, nonblock, k, outcome, wpc, left, status, broke, aux, closed,
          quit, barrier, shut, qpc, recorded, notified>>

(***************************************************************************)
(* bytes_range_for_thread: the last range takes the remainder.             *)
(***************************************************************************)
PerThread == Total \div N
Begin(i) == (i - 1) * PerThread

End_NoRemainder(i) == i * PerThread

End(i) == IF i < N THEN i * PerThread ELSE Total
PartLen(i) == End(i) - Begin(i)

Init ==
  /\ mpc = "submit" /\ nonblock \in BOOLEAN /\ k = 1 /\ outcome = "none"
  /\ wpc = [i \in Workers |-> "none"]
  /\ left = [i \in Workers |-> PartLen(i)]
  /\ status = [i \in Workers |-> "none"]
  /\ broke = [i \in Workers |-> FALSE]
  /\ aux = {} /\ closed = {} /\ quit = FALSE
  /\ barrier = "filling" /\ shut = FALSE
  /\ qpc = [q \in Quitters |-> "off"]
  /\ recorded = {} /\ notified = "no"

Go(i, where) == wpc' = [wpc EXCEPT ![i] = where]
Future(i, result) == status' = [status EXCEPT ![i] = result]

\* The thread's function returns or raises: its future is done.
Ends(i, result) == Go(i, "ended") /\ Future(i, result)

Running(i) == wpc[i] \in {"copy", "close", "arrive", "barrier", "finish"}

-----------------------------------------------------------------------------
(* The transfer threads: _io_part, _copy_part, remove_io *)

\* A thread of the executor takes the range.  An empty one returns 0 at once;
\* otherwise both files seek to its first byte.
Start(i) ==
  /\ wpc[i] = "queued"
  /\ \/ /\ PartLen(i) = 0
        /\ Ends(i, "int")
     \/ /\ PartLen(i) # 0
        /\ Go(i, "copy") /\ UNCHANGED status
     \/ /\ PartLen(i) # 0 /\ "io" \in Faults
        /\ Ends(i, "error")
  /\ UNCHANGED <<mainVars, left, broke, mgrVars, noteVars>>

\* The loop of _copy_part has more to copy: bytecount < length.
More_OffByOne(i) == left[i] >= 0

More(i) == left[i] > 0

\* One turn of the loop.
CopyChunk(i) ==
  /\ wpc[i] = "copy" /\ More(i) /\ ~quit
  /\ \/ /\ left' = [left EXCEPT ![i] = @ - 1]
        /\ UNCHANGED <<wpc, status>>
     \/ /\ "short" \in Faults            \* read() returns no bytes
        /\ Go(i, "close") /\ UNCHANGED <<left, status>>
     \/ /\ "io" \in Faults               \* read() or write() raises
        /\ Ends(i, "error") /\ UNCHANGED left
  /\ UNCHANGED <<mainVars, broke, mgrVars, noteVars>>

CopyAborted(i) ==
  /\ wpc[i] = "copy" /\ More(i) /\ quit
  /\ Go(i, "close") /\ Future(i, "aborted")
  /\ UNCHANGED <<mainVars, left, broke, mgrVars, noteVars>>

CopyDone(i) ==
  /\ wpc[i] = "copy" /\ ~More(i)
  /\ Go(i, "close")
  /\ UNCHANGED <<mainVars, left, status, broke, mgrVars, noteVars>>

\* The local file is closed, and in remove_io, under the manager's lock, an
\* auxiliary handle is closed and forgotten.
CloseAux(i) ==
  /\ wpc[i] = "close"
  /\ \/ /\ i = Initial
        /\ Go(i, "arrive") /\ UNCHANGED <<status, aux, closed>>
     \/ /\ i # Initial
        /\ closed' = closed \cup {i} /\ aux' = aux \ {i}
        /\ Go(i, "arrive") /\ UNCHANGED status
     \/ /\ "close" \in Faults
        /\ Ends(i, "error") /\ UNCHANGED <<aux, closed>>
  /\ UNCHANGED <<mainVars, left, broke, quit, barrier, shut, qpc, noteVars>>

\* Barrier(num_threads): it opens when all its parties, one per range, have
\* arrived.
AllArrived_OneMore(i) == FALSE

AllArrived_OneShort(i) == \E j \in Workers : \A w \in Workers \ {i, j} : wpc[w] = "barrier"

AllArrived(i) == \A w \in Workers \ {i} : wpc[w] = "barrier"

\* exit_barrier.wait(): a broken barrier raises, the last party opens it and
\* goes on, any other waits.
Arrive(i) ==
  /\ wpc[i] = "arrive"
  /\ \/ /\ barrier = "broken"
        /\ Go(i, "finish") /\ broke' = [broke EXCEPT ![i] = TRUE]
        /\ UNCHANGED barrier
     \/ /\ barrier = "filling" /\ AllArrived(i)
        /\ Go(i, "finish") /\ barrier' = "draining"
        /\ UNCHANGED broke
     \/ /\ barrier = "filling" /\ ~AllArrived(i)
        /\ Go(i, "barrier")
        /\ UNCHANGED <<broke, barrier>>
  /\ UNCHANGED <<mainVars, left, status, aux, closed, quit, shut, qpc, noteVars>>

\* A waiting thread wakes up; it looks at the state of the barrier only then,
\* so an abort() after the last party came still reaches it.
Wake(i) ==
  /\ wpc[i] = "barrier" /\ barrier # "filling"
  /\ Go(i, "finish")
  /\ broke' = [broke EXCEPT ![i] = (barrier = "broken")]
  /\ UNCHANGED <<mainVars, left, status, mgrVars, noteVars>>

MayFinalize_IgnoresQuit(i) == i = Initial /\ ~broke[i]

MayFinalize(i) == i = Initial /\ ~(broke[i] \/ quit)

Returned(i) == IF status[i] = "aborted" THEN "aborted" ELSE "int"

\* An exception of the finalizing close is the result of the future.
CloseRaised_Swallowed(i) == Returned(i)

CloseRaised(i) == "error"

\* The end of remove_io, with the finalizing close, and of the thread.
Finish(i) ==
  /\ wpc[i] = "finish"
  /\ \/ /\ MayFinalize(i)
        /\ closed' = closed \cup {i}
        /\ Ends(i, Returned(i))
     \/ /\ MayFinalize(i) /\ "final" \in Faults
        /\ Ends(i, CloseRaised(i)) /\ UNCHANGED closed
     \/ /\ ~MayFinalize(i)
        /\ Ends(i, Returned(i)) /\ UNCHANGED closed
  /\ UNCHANGED <<mainVars, left, broke, aux, quit, barrier, shut, qpc, noteVars>>

WorkerStep(i) ==
  \/ Start(i) \/ CopyChunk(i) \/ CopyAborted(i) \/ CopyDone(i) \/ CloseAux(i)
  \/ Arrive(i) \/ Wake(i) \/ Finish(i)

-----------------------------------------------------------------------------
(* The calling thread: _io_multipart_threaded and io_main *)

\* Open the handle of the next range (the first one is open already) and
\* submit it.  submit() raises RuntimeError once the executor is shut down.
Submit ==
  /\ mpc = "submit" /\ k <= N
  /\ aux' = IF k = Initial THEN aux ELSE aux \cup {k}
  /\ \/ /\ ~shut
        /\ Go(k, "queued") /\ k' = k + 1
        /\ UNCHANGED mpc
     \/ /\ shut
        /\ mpc' = "quit"
        /\ UNCHANGED <<wpc, k>>
  /\ UNCHANGED <<nonblock, outcome, left, status, broke, closed, quit, barrier,
                 shut, qpc, noteVars>>

\* An exception other than RuntimeError, KeyboardInterrupt and SystemExit
\* leaves the function; nothing is told to the threads.
MainRaises == mpc' = "returned" /\ outcome' = "raised" /\ UNCHANGED <<nonblock, k>>

OpenFails ==
  /\ mpc = "submit" /\ k <= N /\ k # Initial /\ "open" \in Faults
  /\ MainRaises
  /\ UNCHANGED <<workVars, mgrVars, noteVars>>

Submitted ==
  /\ mpc = "submit" /\ k > N
  /\ IF nonblock THEN mpc' = "returned" /\ outcome' = "async" /\ UNCHANGED k
                 ELSE mpc' = "collect" /\ k' = 1 /\ UNCHANGED outcome
  /\ UNCHANGED <<nonblock, workVars, mgrVars, noteVars>>

\* future.result(), in the order of the ranges.
Collect ==
  /\ mpc = "collect" /\ k <= N /\ wpc[k] = "ended"
  /\ IF status[k] \in {"int", "aborted"}
     THEN k' = k + 1 /\ UNCHANGED <<mpc, nonblock, outcome>>
     ELSE MainRaises
  /\ UNCHANGED <<workVars, mgrVars, noteVars>>

\* bytes_transferred = total_size, where a future that returned None makes it 0.
Transferred == MapThenSumSet(LAMBDA i : PartLen(i) - left[i], Workers)

AllTransferred_SkipsNone ==
  Transferred + MapThenSumSet(LAMBDA i : IF status[i] = "aborted" THEN left[i] ELSE 0,
                              Workers) = Total

AllTransferred ==
  IF \E i \in Workers : status[i] = "aborted" THEN Total = 0 ELSE Transferred = Total

Report ==
  /\ mpc = "collect" /\ k > N
  /\ mpc' = "returned"
  /\ outcome' = IF AllTransferred THEN "ok" ELSE "failed"
  /\ UNCHANGED <<nonblock, k, workVars, mgrVars, noteVars>>

\* KeyboardInterrupt or SystemExit is raised in the calling thread.
Interrupted ==
  /\ mpc \in {"submit", "collect"} /\ "interrupt" \in Faults
  /\ mpc' = "quit"
  /\ UNCHANGED <<nonblock, k, outcome, workVars, mgrVars, noteVars>>

MainQuits ==
  /\ mpc = "quit" /\ qpc["main"] = "off"
  /\ qpc' = [qpc EXCEPT !["main"] = "check"]
  /\ UNCHANGED <<mainVars, workVars, aux, closed, quit, barrier, shut, noteVars>>

MainReraises ==
  /\ mpc = "quit" /\ qpc["main"] = "done"
  /\ MainRaises
  /\ UNCHANGED <<workVars, mgrVars, noteVars>>

MainStep ==
  \/ Submit \/ OpenFails \/ Submitted \/ Collect \/ Report \/ Interrupted
  \/ MainQuits \/ MainReraises

-----------------------------------------------------------------------------
(* abort_parallel_transfers() and mgr.quit() *)

\* The manager can be found in transfer_managers as long as the call or one
\* of its threads keeps a reference to it.
Abort(a) ==
  /\ qpc[a] = "off"
  /\ mpc # "returned" \/ \E i \in Workers : wpc[i] \notin {"none", "ended"}
  /\ qpc' = [qpc EXCEPT ![a] = "check"]
  /\ UNCHANGED <<mainVars, workVars, aux, closed, quit, barrier, shut, noteVars>>

QuitCheck(q) ==
  /\ qpc[q] = "check"
  /\ quit' = TRUE
  /\ qpc' = [qpc EXCEPT ![q] = IF quit THEN "done" ELSE "break"]
  /\ UNCHANGED <<mainVars, workVars, aux, closed, barrier, shut, noteVars>>

\* What exit_barrier.abort() leaves.
AfterAbort_LeavesBarrier == barrier

AfterAbort == "broken"

QuitBreak(q) ==
  /\ qpc[q] = "break"
  /\ barrier' = AfterAbort
  /\ qpc' = [qpc EXCEPT ![q] = "shutdown"]
  /\ UNCHANGED <<mainVars, workVars, aux, closed, quit, shut, noteVars>>

\* executor.shutdown(cancel_futures=True): what no thread has taken is
\* cancelled, nothing more is accepted ...
QuitShutdown(q) ==
  /\ qpc[q] = "shutdown"
  /\ shut' = TRUE
  /\ wpc' = [i \in Workers |-> IF wpc[i] = "queued" THEN "ended" ELSE wpc[i]]
  /\ status' = [i \in Workers |-> IF wpc[i] = "queued" THEN "cancelled" ELSE status[i]]
  /\ qpc' = [qpc EXCEPT ![q] = "join"]
  /\ UNCHANGED <<mainVars, left, broke, aux, closed, quit, barrier, noteVars>>

\* ... and its default, wait=True, joins the threads.
QuitJoin(q) ==
  /\ qpc[q] = "join"
  /\ \A i \in Workers : ~Running(i)
  /\ qpc' = [qpc EXCEPT ![q] = "done"]
  /\ UNCHANGED <<mainVars, workVars, aux, closed, quit, barrier, shut, noteVars>>

QuitStep(q) == QuitCheck(q) \/ QuitBreak(q) \/ QuitShutdown(q) \/ QuitJoin(q)

-----------------------------------------------------------------------------
(* AsyncNotify.__call__, which every future calls as it is done *)

\* A future that holds an exception, or was cancelled, raises from result()
\* inside the callback, which concurrent.futures logs and drops.
Recordable_IgnoresNone(i) == wpc[i] = "ended" /\ status[i] = "int"

Recordable(i) == wpc[i] = "ended" /\ status[i] \in {"int", "aborted"}

Record(i) ==
  /\ outcome = "async" /\ Recordable(i) /\ i \notin recorded
  /\ recorded' = recorded \cup {i}
  /\ notified' = IF recorded' # Workers THEN notified
                 ELSE IF \E j \in Workers : status[j] = "aborted" THEN "done"
                 ELSE "called"
  /\ UNCHANGED <<mainVars, workVars, mgrVars>>

-----------------------------------------------------------------------------
Next ==
  \/ MainStep
  \/ \E i \in Workers : WorkerStep(i) \/ Record(i)
  \/ \E a \in Aborters : Abort(a)
  \/ \E q \in Quitters : QuitStep(q)

Spec == Init /\ [][Next]_vars

(***************************************************************************)
(* Threads that can run do: reads, writes and closes end, if only by the   *)
(* connection timeout.  Nobody has to call for an abort, and no fault has  *)
(* to happen.                                                              *)
(***************************************************************************)
MainProgress ==
  Submit \/ Submitted \/ Collect \/ Report \/ MainQuits \/ MainReraises

FairSpec ==
  /\ Spec
  /\ WF_vars(MainProgress)
  /\ \A i \in Workers : WF_vars(WorkerStep(i)) /\ WF_vars(Record(i))
  /\ \A q \in Quitters : WF_vars(QuitStep(q))

-----------------------------------------------------------------------------
TypeOK ==
  /\ mpc \in {"submit", "collect", "quit", "returned"}
  /\ nonblock \in BOOLEAN
  /\ k \in 1..N+1
  /\ outcome \in {"none", "ok", "failed", "raised", "async"}
  /\ wpc \in [Workers -> {"none", "queued", "copy", "close", "arrive", "barrier",
                          "finish", "ended"}]
  /\ left \in [Workers -> Nat]
  /\ status \in [Workers -> {"none", "int", "aborted", "error", "cancelled"}]
  /\ broke \in [Workers -> BOOLEAN]
  /\ aux \subseteq Workers /\ closed \subseteq Workers
  /\ quit \in BOOLEAN /\ shut \in BOOLEAN
  /\ barrier \in {"filling", "draining", "broken"}
  /\ qpc \in [Quitters -> {"off", "check", "break", "shutdown", "join", "done"}]
  /\ recorded \subseteq Workers
  /\ notified \in {"no", "done", "called"}

(***************************************************************************)
(* The initial handle, whose close updates the catalog, is the last one    *)
(* that is closed, whatever fails and whenever the transfer is aborted.    *)
(***************************************************************************)
FinalLast == Initial \in closed => closed = Workers

(***************************************************************************)
(* An object is not finalized when a thread left part of it uncopied       *)
(* because the transfer was aborted -- not even by the abort that sets     *)
(* _quit, is noticed by that thread, and has not yet broken the barrier.   *)
(***************************************************************************)
AbortedNotFinalized ==
  Initial \in closed => \A i \in Workers : status[i] # "aborted"

(***************************************************************************)
(* True is returned only when every byte of the object was copied by some  *)
(* thread and every auxiliary handle is closed.                            *)
(***************************************************************************)
Copied(i) == Begin(i)..(End(i) - left[i] - 1)

SuccessComplete ==
  outcome = "ok" => /\ 0..Total-1 \subseteq UNION {Copied(i) : i \in Workers}
                    /\ aux = {}

(***************************************************************************)
(* Success is reported, by the return value or to the callback, for an     *)
(* object that is finalized, unless somebody aborted the transfer.         *)
(***************************************************************************)
Reported == outcome = "ok" \/ notified = "called"

FinalizedUnlessQuit == Reported => Initial \in closed \/ quit

(***************************************************************************)
(* Aborted or not: the callback is "called when all threads of the         *)
(* parallel PUT or GET have been terminated and the data object closed",   *)
(* and a transfer affected by an abort fails.                              *)
(***************************************************************************)
ReportedClosed == Reported => Initial \in closed

(***************************************************************************)
(* The call returns or raises.                                             *)
(***************************************************************************)
MainReturns == <>(mpc = "returned")

(***************************************************************************)
(* No transfer thread is left behind.                                      *)
(***************************************************************************)
ThreadsEnd == \A i \in Workers : wpc[i] = "queued" ~> wpc[i] = "ended"

(***************************************************************************)
(* Whoever waits in wait_until_transfer_done() is let go, but for a        *)
(* transfer of which a part was cancelled before a thread took it.         *)
(***************************************************************************)
NotifyCompletes ==
  outcome = "async" ~> \/ notified # "no"
                       \/ \E i \in Workers : status[i] \in {"cancelled", "error"}
=============================================================================
