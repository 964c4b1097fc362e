--------------------------- MODULE NanogemmSweep ---------------------------
(***************************************************************************)
(* The process structure of configs/multi-isa-nanogemm.py: main() hands    *)
(* the parameter combinations to a pool of simulation workers (one task    *)
(* per worker process), every worker puts the frame of its simulation on   *)
(* the queue of one data processor, and the data processors gather frames  *)
(* and write them to HDF5 files until main() tells them to stop.           *)
(*                                                                         *)
(* The multiprocessing library is modelled from how this file uses it: a   *)
(* put() appends to a buffer of the calling process, whose feeder thread   *)
(* writes to the queue's pipe later; empty() looks at the pipe only; a     *)
(* worker process exits once its feeder has written everything.            *)
(***************************************************************************)
EXTENDS Naturals, Sequences, FiniteSets

CONSTANTS
  Tasks,        \* combinations left after filtering
  Workers,      \* pool slots (sim_worker_count)
  NumDps,       \* dp_worker_count
  PipeCap,      \* frames a queue's pipe holds before its writers block
  MergeCount,   \* df_merge_count
  SplitSize,    \* split_bytes, in frames
  Outcomes,     \* what a simulation may do: rows, empty, raise, die
  Faults,       \* what may happen from outside: interrupt, dpcrash
  Empty         \* the message an empty DataFrame is

Dps == 0 .. NumDps - 1

ASSUME SweepAssumption ==
  /\ Empty \notin Tasks
  /\ NumDps \in Nat \ {0}
  /\ PipeCap \in Nat \ {0}
  /\ MergeCount \in Nat
  /\ SplitSize \in Nat
  /\ IsFiniteSet(Tasks)
  /\ IsFiniteSet(Workers)
  /\ Outcomes \subseteq {"rows", "empty", "raise", "die"}
  /\ Faults \subseteq {"interrupt", "dpcrash"}

VARIABLES
  todo,      \* combinations no worker has taken yet
  wst,       \* worker slot: idle, running, put, exiting, gone
  wtask,     \* worker slot: the combination it runs
  wbuf,      \* worker slot: messages its feeder thread has not written
  serial,    \* worker slot: the number in the process name
  spawned,   \* number of processes named so far
  reported,  \* combinations whose success reached main()
  failed,    \* combinations whose exception reached main()
  main,      \* where main() is
  endEvent,  \* end_event
  mbuf,      \* queues whose stop message main()'s feeder has not written
  pipe,      \* per data processor: the messages in its queue's pipe
  dp,        \* per data processor: where process_results() is
  frame,     \* per data processor: combinations in stat_df
  dfList,    \* per data processor: combinations in df_list
  count,     \* per data processor: out_file_count
  files,     \* per data processor: file number -> combinations in it
  produced   \* history: combinations whose non-empty frame was put

poolVars == <<todo, wst, wtask, wbuf, serial, spawned, produced>>
mainVars == <<reported, failed, main, endEvent, mbuf>>
dpVars   == <<dp, frame, dfList, count, files>>
vars     == <<poolVars, mainVars, pipe, dpVars>>

Messages == Tasks \cup {Empty}

(* The queue of a worker, from the number in its process name. *)
QueueOf(w) == serial[w] % NumDps

PoolOK ==
  /\ todo \in SUBSET Tasks
  /\ wst \in [Workers -> {"idle", "running", "put", "exiting", "gone"}]
  /\ wtask \in [Workers -> Messages]
  /\ \A w \in Workers : wst[w] \in {"running", "put"} => wtask[w] \in Tasks
  /\ wbuf \in [Workers -> SUBSET Messages]
  /\ serial \in [Workers -> Nat]
  /\ spawned \in Nat
  /\ produced \in SUBSET Tasks

MainOK ==
  /\ reported \in SUBSET Tasks
  /\ failed \in SUBSET Tasks
  /\ main \in {"iterating", "closing", "joining", "pooljoin", "leaving",
               "done", "raised", "terminating", "interrupted"}
  /\ endEvent \in BOOLEAN
  /\ mbuf \in SUBSET Dps

PipeOK == pipe \in [Dps -> Seq(Messages)]

DpOK ==
  /\ dp \in [Dps -> {"check", "empty?", "get", "save", "last", "exited", "killed"}]
  /\ frame \in [Dps -> SUBSET Tasks]
  /\ dfList \in [Dps -> SUBSET Tasks]
  /\ count \in [Dps -> Nat]

FilesOK ==
  /\ DOMAIN files = Dps
  /\ \A d \in Dps : \A n \in DOMAIN files[d] :
       n \in Nat /\ files[d][n] \in SUBSET Tasks

TypeOK == PoolOK /\ MainOK /\ PipeOK /\ DpOK /\ FilesOK

Init ==
  /\ todo = Tasks
  /\ wst = [w \in Workers |-> "idle"]
  /\ wtask = [w \in Workers |-> Empty]
  /\ wbuf = [w \in Workers |-> {}]
  /\ spawned = NumDps + Cardinality(Workers)
  /\ serial \in {s \in [Workers -> NumDps + 1 .. spawned] :
                   \A v, w \in Workers : s[v] = s[w] => v = w}
  /\ reported = {}
  /\ failed = {}
  /\ main = "iterating"
  /\ endEvent = FALSE
  /\ mbuf = {}
  /\ pipe = [d \in Dps |-> <<>>]
  /\ dp = [d \in Dps |-> "check"]
  /\ frame = [d \in Dps |-> {}]
  /\ dfList = [d \in Dps |-> {}]
  /\ count = [d \in Dps |-> 0]
  /\ files = [d \in Dps |-> <<>>]
  /\ produced = {}
-----------------------------------------------------------------------------
(* The pool workers. *)

(* An idle worker takes a combination from the pool's task queue. *)
Take(w) ==
  /\ wst[w] = "idle"
  /\ \E t \in todo :
       /\ todo' = todo \ {t}
       /\ wtask' = [wtask EXCEPT ![w] = t]
  /\ wst' = [wst EXCEPT ![w] = "running"]
  /\ UNCHANGED <<wbuf, serial, spawned, produced, mainVars, pipe, dpVars>>

(* simrun() reaches its last line, the put on the worker's queue.  The     *)
(* frame is empty when the workload never raised a workend event.          *)
Simulate(w) ==
  /\ wst[w] = "running"
  /\ wst' = [wst EXCEPT ![w] = "put"]
  /\ \/ /\ "rows" \in Outcomes
        /\ wbuf' = [wbuf EXCEPT ![w] = @ \cup {wtask[w]}]
        /\ produced' = produced \cup {wtask[w]}
     \/ /\ "empty" \in Outcomes
        /\ wbuf' = [wbuf EXCEPT ![w] = @ \cup {Empty}]
        /\ UNCHANGED produced
  /\ UNCHANGED <<todo, wtask, serial, spawned, mainVars, pipe, dpVars>>

(* The worker's feeder thread writes its message to the pipe. *)
Flush(w) ==
  /\ wst[w] # "gone"
  /\ Len(pipe[QueueOf(w)]) < PipeCap
  /\ \E m \in wbuf[w] :
       /\ wbuf' = [wbuf EXCEPT ![w] = @ \ {m}]
       /\ pipe' = [pipe EXCEPT ![QueueOf(w)] = Append(@, m)]
  /\ UNCHANGED <<todo, wst, wtask, serial, spawned, produced, mainVars, dpVars>>

(* simrun() has returned: the pool sends its success to main(). *)
Report(w) ==
  /\ wst[w] = "put"
  /\ reported' = reported \cup {wtask[w]}
  /\ wst' = [wst EXCEPT ![w] = "exiting"]
  /\ UNCHANGED <<todo, wtask, wbuf, serial, spawned, produced,
                 failed, main, endEvent, mbuf, pipe, dpVars>>

(* simrun() raised: the pool sends the exception to main(). *)
Raise(w) ==
  /\ "raise" \in Outcomes
  /\ wst[w] = "running"
  /\ failed' = failed \cup {wtask[w]}
  /\ wst' = [wst EXCEPT ![w] = "exiting"]
  /\ UNCHANGED <<todo, wtask, wbuf, serial, spawned, produced,
                 reported, main, endEvent, mbuf, pipe, dpVars>>

(* The worker process dies in the simulation (a fatal() of gem5 leaves the *)
(* process): nothing is sent.                                              *)
Die(w) ==
  /\ "die" \in Outcomes
  /\ wst[w] = "running"
  /\ wst' = [wst EXCEPT ![w] = "exiting"]
  /\ UNCHANGED <<todo, wtask, wbuf, serial, spawned, produced,
                 mainVars, pipe, dpVars>>

(* maxtasksperchild=1: a worker that has run its task exits after its      *)
(* feeder is done, and the pool starts a new process in its slot while     *)
(* main() still iterates.                                                  *)
Replace(w) ==
  /\ wst[w] = "exiting"
  /\ wbuf[w] = {}
  /\ main \in {"iterating", "raised"}
  /\ spawned' = spawned + 1
  /\ serial' = [serial EXCEPT ![w] = spawned + 1]
  /\ wst' = [wst EXCEPT ![w] = "idle"]
  /\ wtask' = [wtask EXCEPT ![w] = Empty]
  /\ UNCHANGED <<todo, wbuf, produced, mainVars, pipe, dpVars>>

(* Mutant: the pool is never closed, so idle workers wait for more tasks. *)
LeaveUnclosed(w) ==
  /\ main \in {"closing", "joining", "pooljoin"}
  /\ wst[w] = "exiting" /\ wbuf[w] = {}
  /\ wst' = [wst EXCEPT ![w] = "gone"]
  /\ UNCHANGED <<todo, wtask, wbuf, serial, spawned, produced,
                 mainVars, pipe, dpVars>>

(* The pool is closed: workers leave and are not replaced. *)
Leave(w) ==
  /\ main \in {"closing", "joining", "pooljoin"}
  /\ \/ wst[w] = "idle"
     \/ wst[w] = "exiting" /\ wbuf[w] = {}
  /\ wst' = [wst EXCEPT ![w] = "gone"]
  /\ UNCHANGED <<todo, wtask, wbuf, serial, spawned, produced,
                 mainVars, pipe, dpVars>>
-----------------------------------------------------------------------------
(* A data processor: process_results(). *)

(* Mutant: the loop is left whenever the queue is found empty. *)
CheckEventIgnored(d) ==
  /\ dp[d] = "check"
  /\ dp' = [dp EXCEPT ![d] = "empty?"]
  /\ UNCHANGED <<poolVars, mainVars, pipe, frame, dfList, count, files>>

(* "not end_event.is_set()": short-circuits to get() while it is not set. *)
CheckEvent(d) ==
  /\ dp[d] = "check"
  /\ dp' = [dp EXCEPT ![d] = IF endEvent THEN "empty?" ELSE "get"]
  /\ UNCHANGED <<poolVars, mainVars, pipe, frame, dfList, count, files>>

(* "or not queue.empty()": the loop is left when the pipe is empty. *)
CheckEmpty(d) ==
  /\ dp[d] = "empty?"
  /\ dp' = [dp EXCEPT ![d] = IF pipe[d] = <<>> THEN "last" ELSE "get"]
  /\ UNCHANGED <<poolVars, mainVars, pipe, frame, dfList, count, files>>

(* Enough frames wait in df_list to be merged; the mutant is off by one. *)
MustMergeLate(list) == Cardinality(list) > MergeCount + 1
MustMerge(list) == Cardinality(list) > MergeCount

(* stat_df is large enough to be written.                                  *)
MustSplit(merged, list) == Cardinality(merged) > SplitSize

(* get() blocks until the pipe has a message.  An empty frame is skipped;  *)
(* the mutant leaves the loop instead.                                     *)
GetEmptyLeaves(d) ==
  /\ dp[d] = "get"
  /\ pipe[d] # <<>> /\ Head(pipe[d]) = Empty
  /\ pipe' = [pipe EXCEPT ![d] = Tail(@)]
  /\ dp' = [dp EXCEPT ![d] = "last"]
  /\ UNCHANGED <<poolVars, mainVars, frame, dfList, count, files>>

GetEmpty(d) ==
  /\ dp[d] = "get"
  /\ pipe[d] # <<>> /\ Head(pipe[d]) = Empty
  /\ pipe' = [pipe EXCEPT ![d] = Tail(@)]
  /\ dp' = [dp EXCEPT ![d] = "check"]
  /\ UNCHANGED <<poolVars, mainVars, frame, dfList, count, files>>

(* The first frame becomes stat_df and later ones wait in df_list until    *)
(* there are more than df_merge_count of them.                             *)
Get(d) ==
  /\ dp[d] = "get"
  /\ pipe[d] # <<>> /\ Head(pipe[d]) # Empty
  /\ pipe' = [pipe EXCEPT ![d] = Tail(@)]
  /\ LET m      == Head(pipe[d])
         df     == IF frame[d] = {} THEN {m} ELSE frame[d]
         list   == IF frame[d] = {} THEN dfList[d] ELSE dfList[d] \cup {m}
         merged == IF MustMerge(list) THEN df \cup list ELSE df
         left   == IF MustMerge(list) THEN {} ELSE list
     IN /\ frame' = [frame EXCEPT ![d] = merged]
        /\ dfList' = [dfList EXCEPT ![d] = left]
        /\ dp' = [dp EXCEPT ![d] = IF MustSplit(merged, left) THEN "save" ELSE "check"]
  /\ UNCHANGED <<poolVars, mainVars, count, files>>

(* to_hdf(..., mode='w') on file number n: an existing file is replaced.   *)
(* The mutant forgets the data processor's number in the file name.        *)
WriteSharedName(d, n, rows) ==
  files' = [e \in Dps |->
              IF e = d THEN [i \in DOMAIN files[d] \cup {n} |-> IF i = n THEN rows ELSE files[d][i]]
              ELSE [i \in DOMAIN files[e] \ {n} |-> files[e][i]]]
Write(d, n, rows) ==
  files' = [files EXCEPT ![d] = [i \in DOMAIN @ \cup {n} |->
                                   IF i = n THEN rows ELSE @[i]]]

(* Mutant: stat_df is not reset after the write. *)
SaveKeepsFrame(d) ==
  /\ dp[d] = "save"
  /\ Write(d, count[d], frame[d])
  /\ count' = [count EXCEPT ![d] = @ + 1]
  /\ dp' = [dp EXCEPT ![d] = "check"]
  /\ UNCHANGED <<poolVars, mainVars, pipe, frame, dfList>>

(* "Saving partial data": the file is written and stat_df starts anew. *)
Save(d) ==
  /\ dp[d] = "save"
  /\ Write(d, count[d], frame[d])
  /\ count' = [count EXCEPT ![d] = @ + 1]
  /\ frame' = [frame EXCEPT ![d] = {}]
  /\ dp' = [dp EXCEPT ![d] = "check"]
  /\ UNCHANGED <<poolVars, mainVars, pipe, dfList>>

(* Mutant: the final flush forgets the frames that wait in df_list. *)
SaveLastUnmerged(d) ==
  /\ dp[d] = "last"
  /\ IF frame[d] = {} THEN UNCHANGED files ELSE Write(d, count[d], frame[d])
  /\ frame' = [frame EXCEPT ![d] = {}]
  /\ dfList' = [dfList EXCEPT ![d] = {}]
  /\ dp' = [dp EXCEPT ![d] = "exited"]
  /\ UNCHANGED <<poolVars, mainVars, pipe, count>>

(* After the loop: what is left is merged and written. *)
SaveLast(d) ==
  /\ dp[d] = "last"
  /\ LET rest == frame[d] \cup dfList[d]
     IN IF rest = {} THEN UNCHANGED files ELSE Write(d, count[d], rest)
  /\ frame' = [frame EXCEPT ![d] = {}]
  /\ dfList' = [dfList EXCEPT ![d] = {}]
  /\ dp' = [dp EXCEPT ![d] = "exited"]
  /\ UNCHANGED <<poolVars, mainVars, pipe, count>>

(* Writing a file raises (a full disk, a memory limit): the process dies. *)
DpCrash(d) ==
  /\ "dpcrash" \in Faults
  /\ dp[d] \in {"save", "last"}
  /\ dp' = [dp EXCEPT ![d] = "killed"]
  /\ UNCHANGED <<poolVars, mainVars, pipe, frame, dfList, count, files>>
-----------------------------------------------------------------------------
(* main() from the start of the pool on. *)

(* Mutant: a simulation that raised counts as done. *)
CloseOnAnyResult ==
  /\ main = "iterating"
  /\ reported \cup failed = Tasks
  /\ main' = "closing"
  /\ endEvent' = TRUE
  /\ UNCHANGED <<reported, failed, mbuf, poolVars, pipe, dpVars>>

(* The loop over imap_unordered ends: every combination has succeeded. *)
CloseAndSetEnd ==
  /\ main = "iterating"
  /\ reported = Tasks
  /\ main' = "closing"
  /\ endEvent' = TRUE
  /\ UNCHANGED <<reported, failed, mbuf, poolVars, pipe, dpVars>>

(* Mutants: one stop message too many, and none at all. *)
PutOneStopTooMany ==
  /\ main = "closing"
  /\ main' = "joining"
  /\ mbuf' = 0 .. NumDps
  /\ UNCHANGED <<reported, failed, endEvent, poolVars, pipe, dpVars>>

PutNoStops ==
  /\ main = "closing"
  /\ main' = "joining"
  /\ UNCHANGED <<reported, failed, endEvent, mbuf, poolVars, pipe, dpVars>>

(* One empty DataFrame is put on every queue. *)
PutStops ==
  /\ main = "closing"
  /\ main' = "joining"
  /\ mbuf' = Dps
  /\ UNCHANGED <<reported, failed, endEvent, poolVars, pipe, dpVars>>

FlushStop(d) ==
  /\ d \in mbuf
  /\ main # "interrupted"
  /\ Len(pipe[d]) < PipeCap
  /\ mbuf' = mbuf \ {d}
  /\ pipe' = [pipe EXCEPT ![d] = Append(@, Empty)]
  /\ UNCHANGED <<reported, failed, main, endEvent, poolVars, dpVars>>

(* Mutant: the data processors are not joined. *)
JoinNoDps ==
  /\ main = "joining"
  /\ main' = "pooljoin"
  /\ UNCHANGED <<reported, failed, endEvent, mbuf, poolVars, pipe, dpVars>>

JoinDps ==
  /\ main = "joining"
  /\ \A d \in Dps : dp[d] \in {"exited", "killed"}
  /\ main' = "pooljoin"
  /\ UNCHANGED <<reported, failed, endEvent, mbuf, poolVars, pipe, dpVars>>

JoinPool ==
  /\ main = "pooljoin"
  /\ \A w \in Workers : wst[w] = "gone"
  /\ main' = "leaving"
  /\ UNCHANGED <<reported, failed, endEvent, mbuf, poolVars, pipe, dpVars>>

(* main() returns; the interpreter waits for main's own feeder threads. *)
Return ==
  /\ main = "leaving"
  /\ mbuf = {}
  /\ main' = "done"
  /\ UNCHANGED <<reported, failed, endEvent, mbuf, poolVars, pipe, dpVars>>

(* The exception of a simulation comes out of the loop: it is no           *)
(* KeyboardInterrupt, so neither handler of the try statement runs.        *)
PropagateFailure ==
  /\ main = "iterating"
  /\ failed # {}
  /\ main' = "raised"
  /\ UNCHANGED <<reported, failed, endEvent, mbuf, poolVars, pipe, dpVars>>

(* Leaving with the exception, the interpreter terminates the pool (and    *)
(* then waits for the data processors, which are not daemons).             *)
AbandonPool ==
  /\ main = "raised"
  /\ \E w \in Workers : wst[w] # "gone"
  /\ wst' = [w \in Workers |-> "gone"]
  /\ wbuf' = [w \in Workers |-> {}]
  /\ UNCHANGED <<todo, wtask, serial, spawned, produced, mainVars, pipe, dpVars>>

(* SIGINT: stop_processes_and_exit() terminates the pool ... *)
Interrupt ==
  /\ "interrupt" \in Faults
  /\ main \notin {"done", "terminating", "interrupted"}
  /\ main' = "terminating"
  /\ wst' = [w \in Workers |-> "gone"]
  /\ wbuf' = [w \in Workers |-> {}]
  /\ UNCHANGED <<todo, wtask, serial, spawned, produced,
                 reported, failed, endEvent, mbuf, pipe, dpVars>>

(* ... and then the data processors. *)
TerminateDps ==
  /\ main = "terminating"
  /\ main' = "interrupted"
  /\ dp' = [d \in Dps |-> IF dp[d] = "exited" THEN "exited" ELSE "killed"]
  /\ UNCHANGED <<reported, failed, endEvent, mbuf, poolVars, pipe,
                 frame, dfList, count, files>>
-----------------------------------------------------------------------------
Worker(w) == Take(w) \/ Simulate(w) \/ Report(w) \/ Raise(w) \/ Die(w)
               \/ Replace(w) \/ Leave(w)

DataProcessor(d) == CheckEvent(d) \/ CheckEmpty(d) \/ GetEmpty(d) \/ Get(d)
                      \/ Save(d) \/ SaveLast(d)

Main == CloseAndSetEnd \/ PutStops \/ JoinDps \/ JoinPool \/ Return
          \/ PropagateFailure \/ AbandonPool \/ TerminateDps

Next ==
  \/ \E w \in Workers : Worker(w) \/ Flush(w)
  \/ \E d \in Dps : DataProcessor(d) \/ FlushStop(d) \/ DpCrash(d)
  \/ Main
  \/ Interrupt

Spec == Init /\ [][Next]_vars

(* Every process and every feeder thread runs; faults need not happen. *)
Fairness ==
  /\ \A w \in Workers : WF_vars(Worker(w)) /\ WF_vars(Flush(w))
  /\ \A d \in Dps : WF_vars(DataProcessor(d)) /\ WF_vars(FlushStop(d))
  /\ WF_vars(Main)

FairSpec == Spec /\ Fairness
-----------------------------------------------------------------------------
(***************************************************************************)
(* Properties.                                                             *)
(***************************************************************************)

(* Where the rows of combination t are. *)
InBuffer(t) == {<<"buffer", w>> : w \in {v \in Workers : t \in wbuf[v]}}
InPipe(t)   == UNION {{<<"pipe", d, i>> : i \in {j \in 1 .. Len(pipe[d]) : pipe[d][j] = t}}
                        : d \in Dps}
InMemory(t) == {<<"frame", d>> : d \in {e \in Dps : t \in frame[e]}}
                 \cup {<<"list", d>> : d \in {e \in Dps : t \in dfList[e]}}
InFile(t)   == UNION {{<<"file", d, n>> : n \in {m \in DOMAIN files[d] : t \in files[d][m]}}
                        : d \in Dps}
Places(t)   == InBuffer(t) \cup InPipe(t) \cup InMemory(t) \cup InFile(t)

Stored == {t \in Tasks : InFile(t) # {}}

(* The rows of a combination are never duplicated on their way from the    *)
(* worker to the files (simrun 440, process_results 464-533).              *)
AtMostOnce == \A t \in Tasks : \A p, q \in Places(t) : p = q

(* While nothing kills the workers, rows that a simulation delivered are   *)
(* somewhere: no merge, save or exit of a data processor drops them.       *)
NothingDropped ==
  main \notin {"raised", "terminating", "interrupted"} =>
    \A t \in produced : Places(t) # {}

(* When the program has ended normally, rows that are in no file were      *)
(* left in the pipe of a data processor that had already seen its queue    *)
(* empty, or went down with one: main() sets end_event when the pool has   *)
(* reported all tasks, which a worker does before its feeder has written.  *)
LostOnlyBehindTheEnd ==
  main = "done" =>
    \A t \in produced \ Stored :
      \E d \in Dps :
        \/ dp[d] \in {"exited", "killed"} /\ (\E i \in 1 .. Len(pipe[d]) : pipe[d][i] = t)
        \/ dp[d] = "killed" /\ t \in frame[d] \cup dfList[d]

(* A data processor that returns from process_results() has written all    *)
(* it had taken, and only returns once every simulation has succeeded.     *)
ExitedIsEmptyHanded ==
  \A d \in Dps : dp[d] = "exited" =>
    frame[d] \cup dfList[d] = {} /\ endEvent /\ reported = Tasks

(* One simulation that raises leaves every data processor waiting:         *)
(* end_event is set on the successful path of main() only.                 *)
FailureLeavesProcessorsWaiting ==
  (main = "raised" \/ failed # {}) => ~endEvent /\ \A d \in Dps : dp[d] # "exited"

(* A data processor waits for its next frame with at most df_merge_count   *)
(* frames unmerged and at most split_bytes merged; every file but its last *)
(* is larger than split_bytes.  df_list only fills behind a stat_df: the   *)
(* branch of the final flush for an empty stat_df with a non-empty df_list *)
(* (lines 514-515) never runs.                                             *)
MemoryBounded ==
  \A d \in Dps :
    /\ frame[d] = {} => dfList[d] = {}
    /\ dp[d] \in {"check", "empty?", "get"} =>
         Cardinality(frame[d]) <= SplitSize /\ Cardinality(dfList[d]) <= MergeCount
    /\ \A n \in DOMAIN files[d] : n < count[d] => Cardinality(files[d][n]) > SplitSize

(* The sweep as its user sees it: rows are stored once and stay stored. *)
Sink == INSTANCE ResultSink WITH stored <- Stored
SinkSpec == Sink!Spec

(* Bounded pipes never block the sweep: with simulations that return,      *)
(* every combination is reported and main() leaves its loop.               *)
SweepCompletes == <>(main = "closing")

(* Once main() has set end_event every data processor returns: the stop    *)
(* message wakes the one that had seen the event unset.                    *)
ProcessorsStop == endEvent ~> \A d \in Dps : dp[d] = "exited"

(* A feeder is stuck behind a data processor that has left. *)
Stuck ==
  \E d \in Dps :
    /\ dp[d] = "exited"
    /\ Len(pipe[d]) = PipeCap
    /\ \/ d \in mbuf
       \/ \E w \in Workers : wst[w] # "gone" /\ QueueOf(w) = d /\ wbuf[w] # {}

(* main() then ends too, unless a feeder's pipe has filled up behind a     *)
(* data processor that has left: then pool.join() waits for ever.          *)
MainEndsUnlessStuck == endEvent ~> (main = "done" \/ Stuck)
=============================================================================
