----------------------------- MODULE NFTClient -----------------------------
(***************************************************************************)
(* The client that writes mappings to the kernel: callers of AddMapping    *)
(* put operations into a bounded queue and wait for an answer for at most  *)
(* five seconds, one worker takes them out in batches, and Close stops the *)
(* worker.                                                                 *)
(*                                                                         *)
(* Every operation is one call of AddMapping in a goroutine of its own.    *)
(* A channel `done' is open, holds an error, or is closed; it takes the    *)
(* error of a caller that has left, because it has a buffer.               *)
(***************************************************************************)
EXTENDS KernelMap, Integers, Sequences, Functions

CONSTANTS
  Ops,          \* the calls of AddMapping
  Element,      \* per operation: its fake and its real address
  IPv6Fakes,    \* the fakes that are IPv6 addresses
  EnableIPv6,
  QueueSize,    \* batchChanSize, 8192
  BatchSize,    \* batchMaxSize, 256
  InitialMap,   \* what the kernel holds at the start
  MaxFailures   \* bound on the netlink operations that fail

ASSUME NFTClientAssumption ==
  /\ EnableIPv6 \in BOOLEAN
  /\ {QueueSize, BatchSize} \subseteq Nat \ {0}
  /\ MaxFailures \in Nat

\* All writes of a fake lead it to the same real address, as stateless hashing
\* gives it, and so did those of the process before, which filled the map.
\* Module Gateway is about fakes that change hands.
ASSUME StatelessHashing ==
  \A o \in Ops :
     /\ \A p \in Ops : Element[o].fake = Element[p].fake => Element[o] = Element[p]
     /\ \A e \in Lookup(InitialMap, Element[o].fake) : e.real = Element[o].real

VARIABLES
  call,      \* per operation: where its caller stands
  done,      \* per operation: its channel
  batchCh,   \* the queue
  batch,     \* the worker's batch
  worker,    \* where the worker stands
  finalErr,  \* whether the worker answers with an error
  stopping,  \* the worker returns after this batch
  cancelled, \* cancelCh is closed
  closer,    \* where the caller of Close stands
  conn,      \* there is a netlink connection
  kernel,    \* external: the kernel's map
  failures

vars == <<call, done, batchCh, batch, worker, finalErr, stopping, cancelled, closer,
          conn, kernel, failures>>

Taken == Range(batch)

-----------------------------------------------------------------------------
(* AddMapping *)

Skipped(o) == ~EnableIPv6 /\ Element[o].fake \in IPv6Fakes

\* An IPv6 mapping on a node without IPv6 is not written, and no error.
AddMappingSkip(o) ==
  /\ call[o] = "new"
  /\ Skipped(o)
  /\ call' = [call EXCEPT ![o] = "ok"]
  /\ UNCHANGED <<done, batchCh, batch, worker, finalErr, stopping, cancelled, closer,
                 conn, kernel, failures>>

AddMapping(o) ==
  /\ call[o] = "new"
  /\ ~Skipped(o)
  /\ IF Len(batchCh) < QueueSize
     THEN /\ batchCh' = Append(batchCh, o)
          /\ call' = [call EXCEPT ![o] = "waiting"]
     ELSE /\ call' = [call EXCEPT ![o] = "full"]
          /\ UNCHANGED batchCh
  /\ UNCHANGED <<done, batch, worker, finalErr, stopping, cancelled, closer, conn,
                 kernel, failures>>

\* The caller reads its channel: the error, or nil once it is closed.
Answered(o) ==
  /\ call[o] = "waiting"
  /\ done[o] # "open"
  /\ call' = [call EXCEPT ![o] = IF done[o] = "err" THEN "err" ELSE "ok"]
  /\ UNCHANGED <<done, batchCh, batch, worker, finalErr, stopping, cancelled, closer,
                 conn, kernel, failures>>

\* Five seconds have passed; the operation stays where it is.  An answer that
\* is there too may lose against the timer.
TimedOut(o) ==
  /\ call[o] = "waiting"
  /\ call' = [call EXCEPT ![o] = "timeout"]
  /\ UNCHANGED <<done, batchCh, batch, worker, finalErr, stopping, cancelled, closer,
                 conn, kernel, failures>>

-----------------------------------------------------------------------------
(* batchWorker *)

\* The worker waits for an operation or for cancelCh; a select with both
\* ready takes either.
Take ==
  /\ worker = "select"
  /\ batchCh # <<>>
  /\ batch' = Append(batch, Head(batchCh))
  /\ batchCh' = Tail(batchCh)
  /\ worker' = "drain"
  /\ UNCHANGED <<call, done, finalErr, stopping, cancelled, closer, conn, kernel,
                 failures>>

\* The drain loop takes what is queued, up to the size of a batch.
Drain ==
  /\ worker = "drain"
  /\ Len(batch) < BatchSize
  /\ batchCh # <<>>
  /\ batch' = Append(batch, Head(batchCh))
  /\ batchCh' = Tail(batchCh)
  /\ UNCHANGED <<call, done, worker, finalErr, stopping, cancelled, closer, conn,
                 kernel,
                 failures>>

\* The batch is full or nothing is ready.
Drained ==
  /\ worker = "drain"
  /\ Len(batch) = BatchSize \/ (batchCh = <<>> /\ ~cancelled)
  /\ worker' = "flush"
  /\ UNCHANGED <<call, done, batchCh, batch, finalErr, stopping, cancelled, closer, conn,
                 kernel, failures>>

\* Mutant of Cancel: only the drain loop looks at cancelCh.
CancelWhileDraining ==
  /\ cancelled
  /\ worker = "drain" /\ Len(batch) < BatchSize
  /\ stopping' = TRUE
  /\ worker' = "flush"
  /\ UNCHANGED <<call, done, batchCh, batch, finalErr, cancelled, closer, conn,
                 kernel, failures>>

\* The worker sees cancelCh: it flushes what it has and stops.
Cancel ==
  /\ cancelled
  /\ worker = "select" \/ (worker = "drain" /\ Len(batch) < BatchSize)
  /\ stopping' = TRUE
  /\ worker' = IF batch = <<>> THEN "stopped" ELSE "flush"
  /\ UNCHANGED <<call, done, batchCh, batch, finalErr, cancelled, closer, conn,
                 kernel, failures>>

\* flushBatchLocked, as the pairs of its result and of the kernel's map.  It
\* fails without a connection; a netlink error may be met before or after the
\* kernel has committed, and is bounded.
FlushResults ==
  LET elements == {Element[o] : o \in {x \in Taken : ~Skipped(x)}}
      clean    == ~Conflict(kernel, elements)
  IN  IF ~conn THEN {<<"err", kernel>>}
      ELSE {IF clean THEN <<"ok", Committed(kernel, elements)>>
            ELSE <<"exists", kernel>>}
           \cup {<<"err", k>> :
                   k \in {m \in {kernel} \cup {Committed(kernel, elements)} :
                            failures < MaxFailures /\ (clean \/ m = kernel)}}

Failed(result) == IF conn /\ result = "err" THEN failures + 1 ELSE failures

\* The first attempt; "file exists" counts as success.
Flush ==
  /\ worker = "flush"
  /\ \E res \in FlushResults :
        /\ kernel' = res[2]
        /\ failures' = Failed(res[1])
        /\ worker' = IF res[1] = "err" THEN "reconnect" ELSE "answer"
  /\ finalErr' = FALSE
  /\ UNCHANGED <<call, done, batchCh, batch, stopping, cancelled, closer, conn>>

\* reconnectLocked: the connection is replaced, or lost after five attempts,
\* and then the first error is the answer.
Reconnect ==
  /\ worker = "reconnect"
  /\ \/ /\ conn' = TRUE
        /\ worker' = "retry"
        /\ UNCHANGED <<finalErr, failures>>
     \/ /\ failures < MaxFailures
        /\ failures' = failures + 1
        /\ conn' = FALSE
        /\ worker' = "answer"
        /\ finalErr' = TRUE
  /\ UNCHANGED <<call, done, batchCh, batch, stopping, cancelled, closer, kernel>>

\* Mutant of Retry: its result is not looked at.
RetryIgnored ==
  /\ worker = "retry"
  /\ \E res \in FlushResults :
        /\ kernel' = res[2]
        /\ failures' = Failed(res[1])
  /\ worker' = "answer"
  /\ UNCHANGED <<call, done, batchCh, batch, finalErr, stopping, cancelled,
                 closer, conn>>

\* The second and last attempt, over the new connection.
Retry ==
  /\ worker = "retry"
  /\ \E res \in FlushResults :
        /\ kernel' = res[2]
        /\ failures' = Failed(res[1])
        /\ finalErr' = (res[1] = "err")
  /\ worker' = "answer"
  /\ UNCHANGED <<call, done, batchCh, batch, stopping, cancelled, closer, conn>>

\* Where the worker goes once its batch is answered.
AfterBatch == IF stopping THEN "stopped" ELSE "select"

\* Mutant of Answer: the channels have no buffer.
AnswerUnbuffered ==
  /\ worker = "answer"
  /\ finalErr => call[Head(batch)] = "waiting"
  /\ done' = [done EXCEPT ![Head(batch)] = IF finalErr THEN "err" ELSE "closed"]
  /\ batch' = Tail(batch)
  /\ worker' = IF Len(batch) > 1 THEN "answer" ELSE AfterBatch
  /\ UNCHANGED <<call, batchCh, finalErr, stopping, cancelled, closer, conn,
                 kernel, failures>>

\* Mutant of Answer: the batch is not emptied.
AnswerKeepsBatch ==
  /\ worker = "answer"
  /\ done' = [o \in Ops |-> IF o \notin Taken THEN done[o]
                            ELSE IF finalErr THEN "err" ELSE "closed"]
  /\ worker' = AfterBatch
  /\ UNCHANGED <<call, batchCh, batch, finalErr, stopping, cancelled, closer,
                 conn, kernel, failures>>

\* One operation of the batch is answered: its error is sent, and its channel
\* closed.
Answer ==
  /\ worker = "answer"
  /\ done' = [done EXCEPT ![Head(batch)] = IF finalErr THEN "err" ELSE "closed"]
  /\ batch' = Tail(batch)
  /\ worker' = IF Len(batch) > 1 THEN "answer" ELSE AfterBatch
  /\ UNCHANGED <<call, batchCh, finalErr, stopping, cancelled, closer, conn,
                 kernel, failures>>

Work ==
  \/ Take \/ Drain \/ Drained \/ Cancel
  \/ Flush \/ Reconnect \/ Retry \/ Answer

-----------------------------------------------------------------------------
(* Close *)

Close ==
  /\ closer = "idle"
  /\ cancelled' = TRUE
  /\ closer' = "waiting"
  /\ UNCHANGED <<call, done, batchCh, batch, worker, finalErr, stopping, conn, kernel,
                 failures>>

CloseReturns ==
  /\ closer = "waiting"
  /\ worker = "stopped"
  /\ closer' = "closed"
  /\ conn' = FALSE
  /\ UNCHANGED <<call, done, batchCh, batch, worker, finalErr, stopping, cancelled,
                 kernel, failures>>

-----------------------------------------------------------------------------

Init ==
  /\ call = [o \in Ops |-> "new"]
  /\ done = [o \in Ops |-> "open"]
  /\ batchCh = <<>>
  /\ batch = <<>>
  /\ worker = "select"
  /\ finalErr = FALSE
  /\ stopping = FALSE
  /\ cancelled = FALSE
  /\ closer = "idle"
  /\ conn = TRUE
  /\ kernel = InitialMap
  /\ failures = 0

Next ==
  \/ \E o \in Ops :
        AddMappingSkip(o) \/ AddMapping(o) \/ Answered(o) \/ TimedOut(o)
  \/ Work
  \/ Close \/ CloseReturns

Spec == Init /\ [][Next]_vars

\* The worker, the timers and the goroutine in Close are scheduled.  Nobody
\* has to call AddMapping or Close.
Fairness ==
  /\ WF_vars(Work)
  /\ WF_vars(CloseReturns)
  /\ \A o \in Ops : WF_vars(Answered(o) \/ TimedOut(o))

FairSpec == Spec /\ Fairness

-----------------------------------------------------------------------------
(* Properties *)

WorkerStates ==
  {"select", "drain", "flush", "reconnect", "retry", "answer", "stopped"}

\* Callers, channels and the worker are where the code can be, and neither
\* the queue nor the batch grows past its size.
TypeOK ==
  /\ call \in [Ops -> {"new", "waiting", "ok", "err", "timeout", "full"}]
  /\ done \in [Ops -> {"open", "err", "closed"}]
  /\ batchCh \in Seq(Ops) /\ Len(batchCh) <= QueueSize
  /\ batch \in Seq(Ops) /\ Len(batch) <= BatchSize
  /\ worker \in WorkerStates
  /\ {finalErr, stopping, cancelled, conn} \subseteq BOOLEAN
  /\ closer \in {"idle", "waiting", "closed"}
  /\ failures \in 0 .. MaxFailures

\* Every operation that a caller has queued is in exactly one place (the
\* queue, the batch or answered), so that no channel is closed twice, which
\* would end the process, and none is forgotten: not by a batch that fails,
\* not by a retry, and not by a worker that stops in the middle of a batch.
\* The queue and the batch keep to their sizes (TypeOK).
EachAnsweredOnce ==
  LET open == batch \o batchCh
  IN  /\ TypeOK
      /\ IsInjective(open)
      /\ Range(open) = {o \in Ops : /\ call[o] \in {"waiting", "timeout"}
                                    /\ done[o] = "open"}
      /\ worker = "stopped" => batch = <<>>

\* A caller that AddMapping told "no error" finds its mapping in the kernel
\* (a flush that fails with "file exists" is taken to hold nothing but
\* duplicates, because hashing is stateless).
OkIsRouted ==
  \A o \in Ops : call[o] = "ok" /\ ~Skipped(o) =>
     \E e \in Lookup(kernel, Element[o].fake) : e.real = Element[o].real

\* Close returns: a worker that is told to stop finishes its batch, whatever
\* netlink does and although the callers may have left.
CloseEnds == closer = "waiting" ~> closer = "closed"

\* As long as the client is not closed every queued operation is answered,
\* also one whose caller gave up: a failed batch does not block the next.
QueueIsServed ==
  \A o \in Ops : call[o] = "waiting" ~> done[o] # "open" \/ cancelled

=============================================================================
