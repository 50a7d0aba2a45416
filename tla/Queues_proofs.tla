--------------------------- MODULE Queues_proofs ----------------------------
(***************************************************************************)
(* Proofs about the two queues that a worker drains: NFTClient's, of the   *)
(* elements that are written to the kernel in batches, and SafeConn's, of  *)
(* the messages to a peer (the second half, where SafeConn's specification *)
(* is the instance W).                                                     *)
(*                                                                         *)
(* NFTClient, for any number of callers and any size of the queue and of a *)
(* batch.                                                                  *)
(*                                                                         *)
(* That every operation is in one place is inductive once it is known when *)
(* the worker holds a batch.  That an operation which was told "no error"  *)
(* is routed needs in addition that the kernel's map agrees with what is   *)
(* written to it, so that no flush meets a conflict, and that a batch the  *)
(* worker is about to answer without error is in the map as a whole.       *)
(***************************************************************************)
EXTENDS NFTClient, SequenceTheorems, TLAPS

\* What is in a queue, and that it is there once.
In(o, s) == \E i \in 1 .. Len(s) : s[i] = o
Distinct(s) == \A i, j \in 1 .. Len(s) : s[i] = s[j] => i = j

\* The caller's answer is outstanding.
Pending(o) == call[o] \in {"waiting", "timeout"} /\ done[o] = "open"

\* Where the operations are that wait for their answer.
PlaceInv ==
  /\ Distinct(batch) /\ Distinct(batchCh)
  /\ \A o \in Ops : ~(In(o, batch) /\ In(o, batchCh))
  /\ \A o \in Ops : Pending(o) <=> In(o, batch) \/ In(o, batchCh)
  /\ \A o \in Ops : call[o] = "new" => done[o] = "open"
  /\ worker \in {"select", "stopped"} <=> batch = <<>>

\* The map leads no fake to an address other than the one that is written.
Agrees(k) ==
  \A o \in Ops : Element[o].fake \in DOMAIN k =>
     k[Element[o].fake].real = Element[o].real

\* The map leads the operation's fake somewhere.
Routed(k, o) == Element[o].fake \in DOMAIN k

\* What has been answered without error, or is about to be, is in the map.
RouteInv ==
  /\ Agrees(kernel)
  /\ \A o \in Ops : ~Skipped(o) /\ (call[o] = "ok" \/ done[o] = "closed") =>
        Routed(kernel, o)
  /\ worker = "answer" /\ ~finalErr =>
        \A o \in Ops : ~Skipped(o) /\ In(o, batch) => Routed(kernel, o)

\* The inductive invariant of the client.
ClientInv == TypeOK /\ PlaceInv /\ RouteInv

-----------------------------------------------------------------------------
(* Sequences without repetition *)

\* What is appended to a queue is in it, and what was in it stays.
LEMMA AppendIn ==
  ASSUME NEW s \in Seq(Ops), NEW x \in Ops
  PROVE  /\ \A o \in Ops : In(o, Append(s, x)) <=> In(o, s) \/ o = x
         /\ Distinct(s) /\ ~In(x, s) => Distinct(Append(s, x))
<1> DEFINE t == Append(s, x)
<1>1. /\ Len(t) = Len(s) + 1 /\ Len(s) \in Nat
      /\ \A i \in 1 .. Len(s) : t[i] = s[i]
      /\ t[Len(s) + 1] = x
  BY AppendProperties, LenProperties
<1> HIDE DEF t
<1>2. ASSUME NEW o \in Ops
      PROVE  In(o, t) <=> In(o, s) \/ o = x
  <2>1. ASSUME In(o, t)
        PROVE  In(o, s) \/ o = x
    <3>1. PICK i \in 1 .. Len(t) : t[i] = o
      BY <2>1 DEF In
    <3>2. i \in 1 .. Len(s) \/ i = Len(s) + 1
      BY <1>1
    <3> QED  BY <1>1, <3>1, <3>2 DEF In
  <2>2. ASSUME In(o, s)
        PROVE  In(o, t)
    <3>1. PICK i \in 1 .. Len(s) : s[i] = o
      BY <2>2 DEF In
    <3>2. i \in 1 .. Len(t) /\ t[i] = o
      BY <1>1, <3>1
    <3> QED  BY <3>2 DEF In
  <2>3. In(x, t)
    <3>1. Len(s) + 1 \in 1 .. Len(t)
      BY <1>1
    <3> QED  BY <1>1, <3>1 DEF In
  <2> QED  BY <2>1, <2>2, <2>3
<1>3. ASSUME Distinct(s), ~In(x, s),
             NEW i \in 1 .. Len(t), NEW j \in 1 .. Len(t), t[i] = t[j]
      PROVE  i = j
  <2>1. /\ i \in 1 .. Len(s) \/ i = Len(s) + 1
        /\ j \in 1 .. Len(s) \/ j = Len(s) + 1
    BY <1>1
  <2> QED  BY <1>1, <1>3, <2>1 DEF Distinct, In
<1>4. Distinct(s) /\ ~In(x, s) => Distinct(t)
  BY <1>3 DEF Distinct
<1> QED  BY <1>2, <1>4 DEF t

\* What is taken from the front of a queue is no longer in it.
LEMMA TailIn ==
  ASSUME NEW s \in Seq(Ops), s # <<>>
  PROVE  /\ Head(s) \in Ops /\ Tail(s) \in Seq(Ops) /\ Len(Tail(s)) = Len(s) - 1
         /\ \A o \in Ops : In(o, s) <=> In(o, Tail(s)) \/ o = Head(s)
         /\ Distinct(s) => Distinct(Tail(s)) /\ ~In(Head(s), Tail(s))
<1> DEFINE t == Tail(s)
<1>1. /\ Head(s) \in Ops /\ t \in Seq(Ops)
      /\ Len(t) = Len(s) - 1 /\ Len(s) \in Nat /\ Len(t) \in Nat
      /\ \A i \in 1 .. Len(t) : t[i] = s[i + 1]
  BY HeadTailProperties, LenProperties
<1>2. Head(s) = s[1]
  OBVIOUS
<1> HIDE DEF t
<1>3. ASSUME NEW o \in Ops
      PROVE  In(o, s) <=> In(o, t) \/ o = Head(s)
  <2>1. ASSUME In(o, s)
        PROVE  In(o, t) \/ o = Head(s)
    <3>1. PICK i \in 1 .. Len(s) : s[i] = o
      BY <2>1 DEF In
    <3>2. CASE i = 1
      BY <1>2, <3>1, <3>2
    <3>3. CASE i # 1
      <4>1. i - 1 \in 1 .. Len(t) /\ (i - 1) + 1 = i
        BY <1>1, <3>3
      <4>2. t[i - 1] = o
        BY <1>1, <3>1, <4>1
      <4> QED  BY <4>1, <4>2 DEF In
    <3> QED  BY <3>2, <3>3
  <2>2. ASSUME In(o, t)
        PROVE  In(o, s)
    <3>1. PICK i \in 1 .. Len(t) : t[i] = o
      BY <2>2 DEF In
    <3>2. i + 1 \in 1 .. Len(s) /\ s[i + 1] = o
      BY <1>1, <3>1
    <3> QED  BY <3>2 DEF In
  <2>3. In(Head(s), s)
    <3>1. 1 \in 1 .. Len(s)
      BY <1>1
    <3> QED  BY <1>2, <3>1 DEF In
  <2> QED  BY <2>1, <2>2, <2>3
<1>4. ASSUME Distinct(s)
      PROVE  Distinct(t) /\ ~In(Head(s), t)
  <2>1. \A i \in 1 .. Len(t) : i + 1 \in 1 .. Len(s) /\ i + 1 # 1
    BY <1>1
  <2>2. 1 \in 1 .. Len(s)
    BY <1>1
  <2>3. ~In(Head(s), t)
    BY <1>1, <1>2, <1>4, <2>1, <2>2 DEF In, Distinct
  <2>4. ASSUME NEW i \in 1 .. Len(t), NEW j \in 1 .. Len(t), t[i] = t[j]
        PROVE  i = j
    <3>1. s[i + 1] = s[j + 1]
      BY <1>1, <2>4
    <3>2. i + 1 = j + 1
      BY <1>4, <2>1, <3>1 DEF Distinct
    <3> QED  BY <1>1, <3>2
  <2> QED  BY <2>3, <2>4 DEF Distinct
<1> QED  BY <1>1, <1>3, <1>4 DEF t

-----------------------------------------------------------------------------
(* The flush of a batch *)

\* The worker's batch, as flushBatchLocked sees it.
LEMMA TakenIn ==
  ASSUME batch \in Seq(Ops)
  PROVE  Taken = {o \in Ops : In(o, batch)}
<1>1. DOMAIN batch = 1 .. Len(batch) /\ \A i \in 1 .. Len(batch) : batch[i] \in Ops
  BY LenProperties, ElementOfSeq
<1> QED  BY <1>1 DEF Taken, Range, In

\* A committed transaction keeps the map's elements, adds those it is given,
\* and leaves the map in agreement with what is written (stateless hashing).
LEMMA CommittedAgrees ==
  ASSUME NEW k, Agrees(k), NEW os \in SUBSET Ops
  PROVE  LET elements == {Element[o] : o \in os}
         IN  /\ ~Conflict(k, elements)
             /\ Agrees(Committed(k, elements))
             /\ \A o \in Ops : Routed(k, o) \/ o \in os => Routed(Committed(k, elements), o)
<1> DEFINE elements == {Element[o] : o \in os}
           c == Committed(k, elements)
<1>1. \A e \in elements : \E p \in Ops : e = Element[p]
  OBVIOUS
<1>2. ~Conflict(k, elements)
  BY <1>1, StatelessHashing DEF Conflict, Agrees, Lookup
<1>3. /\ DOMAIN c = DOMAIN k \cup {e.fake : e \in elements}
      /\ \A f \in DOMAIN k : c[f] = k[f]
      /\ \A f \in DOMAIN c \ DOMAIN k : c[f] = CHOOSE e \in elements : e.fake = f
  BY DEF Committed
<1>4. ASSUME NEW o \in Ops, Element[o].fake \in DOMAIN c
      PROVE  c[Element[o].fake].real = Element[o].real
  <2> DEFINE f == Element[o].fake
  <2>1. CASE f \in DOMAIN k
    BY <1>3, <2>1 DEF Agrees
  <2>2. CASE f \notin DOMAIN k
    <3>1. \E e \in elements : e.fake = f
      BY <1>3, <1>4, <2>2
    <3>2. c[f] \in elements /\ c[f].fake = f
      BY <1>3, <1>4, <2>2, <3>1, Zenon
    <3>3. PICK p \in Ops : c[f] = Element[p]
      BY <1>1, <3>2, Zenon
    <3>4. Element[o].fake = Element[p].fake
      BY <3>2, <3>3
    <3> QED  BY <3>3, <3>4, StatelessHashing
  <2> QED  BY <2>1, <2>2
<1>5. \A o \in Ops : Routed(k, o) \/ o \in os => Routed(c, o)
  BY <1>3 DEF Routed
<1> QED  BY <1>2, <1>4, <1>5 DEF Agrees

\* A flush of the batch, whether it succeeds or fails, keeps what is routed;
\* one that succeeds routes the whole batch, and none fails with a conflict.
LEMMA FlushRight ==
  ASSUME TypeOK, Agrees(kernel), NEW res \in FlushResults
  PROVE  /\ Agrees(res[2])
         /\ \A o \in Ops : Routed(kernel, o) => Routed(res[2], o)
         /\ res[1] # "err" =>
              \A o \in Ops : ~Skipped(o) /\ In(o, batch) => Routed(res[2], o)
         /\ Failed(res[1]) \in 0 .. MaxFailures
<1> DEFINE os == {x \in Taken : ~Skipped(x)}
           elements == {Element[o] : o \in os}
           c == Committed(kernel, elements)
<1>1. Taken = {o \in Ops : In(o, batch)}
  BY TakenIn DEF TypeOK
<1>2. os \in SUBSET Ops /\ \A o \in Ops : ~Skipped(o) /\ In(o, batch) => o \in os
  BY <1>1
<1>3. /\ ~Conflict(kernel, elements) /\ Agrees(c)
      /\ \A o \in Ops : Routed(kernel, o) \/ o \in os => Routed(c, o)
  BY <1>2, CommittedAgrees, Zenon
<1>4. \/ ~conn /\ res = <<"err", kernel>>
      \/ res = <<"ok", c>>
      \/ failures < MaxFailures /\ (res = <<"err", kernel>> \/ res = <<"err", c>>)
  <2> HIDE DEF c
  <2>1. CASE ~conn
    BY <2>1 DEF FlushResults
  <2>2. CASE conn
    <3>1. res \in {<<"ok", c>>} \cup {<<"err", k>> : k \in {m \in {kernel} \cup {c} :
                                        failures < MaxFailures}}
      BY <1>3, <2>2 DEF FlushResults, c
    <3> QED  BY <3>1
  <2> QED  BY <2>1, <2>2
<1> HIDE DEF c, os
<1>5. Agrees(res[2]) /\ \A o \in Ops : Routed(kernel, o) => Routed(res[2], o)
  BY <1>3, <1>4
<1>6. res[1] # "err" => \A o \in Ops : ~Skipped(o) /\ In(o, batch) => Routed(res[2], o)
  BY <1>2, <1>3, <1>4
<1>7. failures \in 0 .. MaxFailures /\ MaxFailures \in Nat
  BY NFTClientAssumption DEF TypeOK
<1>8. Failed(res[1]) = failures \/ (failures < MaxFailures /\ Failed(res[1]) = failures + 1)
  BY <1>4 DEF Failed
<1>9. Failed(res[1]) \in 0 .. MaxFailures
  BY <1>7, <1>8
<1> QED  BY <1>5, <1>6, <1>9

-----------------------------------------------------------------------------
(* The callers *)

\* A caller that is skipped, answered or too late moves nothing; one that is
\* answered without error finds its mapping in the kernel.
LEMMA CallerInv ==
  ASSUME ClientInv, NEW o \in Ops, AddMappingSkip(o) \/ Answered(o) \/ TimedOut(o)
  PROVE  ClientInv'
<1>1. /\ UNCHANGED <<done, batchCh, batch, worker, finalErr, stopping, cancelled, closer,
                     conn, kernel, failures>>
      /\ call' = [call EXCEPT ![o] = call'[o]]
      /\ call'[o] \in {"ok", "err", "timeout"}
  BY DEF AddMappingSkip, Answered, TimedOut, ClientInv, TypeOK
<1>2. \A p \in Ops : p # o => call'[p] = call[p]
  BY <1>1 DEF ClientInv, TypeOK
<1>3. TypeOK'
  <2>1. call' \in [Ops -> {"new", "waiting", "ok", "err", "timeout", "full"}]
    BY <1>1 DEF ClientInv, TypeOK
  <2> QED  BY <1>1, <2>1 DEF ClientInv, TypeOK
<1>4. Pending(o)' <=> Pending(o)
  <2>1. \/ call[o] = "new" /\ call'[o] = "ok"
        \/ done[o] # "open"
        \/ call[o] = "waiting" /\ call'[o] = "timeout"
    BY DEF AddMappingSkip, Answered, TimedOut, ClientInv, TypeOK
  <2> QED  BY <1>1, <2>1 DEF Pending
<1>5. \A p \in Ops : Pending(p)' <=> Pending(p)
  BY <1>1, <1>2, <1>4 DEF Pending
<1>6. PlaceInv'
  BY <1>1, <1>2, <1>5 DEF ClientInv, PlaceInv
<1>7. ~Skipped(o) /\ call'[o] = "ok" => call[o] = "ok" \/ done[o] = "closed"
  BY <1>1 DEF AddMappingSkip, Answered, TimedOut, ClientInv, TypeOK
<1>8. RouteInv'
  BY <1>1, <1>2, <1>7 DEF ClientInv, RouteInv, Skipped
<1> QED  BY <1>3, <1>6, <1>8 DEF ClientInv

\* AddMapping puts the operation into the queue, which does not hold it yet,
\* or finds the queue full.
LEMMA AddMappingInv ==
  ASSUME ClientInv, NEW o \in Ops, AddMapping(o)
  PROVE  ClientInv'
<1>1. /\ UNCHANGED <<done, batch, worker, finalErr, stopping, cancelled, closer, conn,
                     kernel, failures>>
      /\ call[o] = "new"
      /\ \/ /\ Len(batchCh) < QueueSize
            /\ batchCh' = Append(batchCh, o) /\ call' = [call EXCEPT ![o] = "waiting"]
         \/ batchCh' = batchCh /\ call' = [call EXCEPT ![o] = "full"]
  BY DEF AddMapping
<1>2. /\ \A p \in Ops : p # o => call'[p] = call[p]
      /\ call' \in [Ops -> {"new", "waiting", "ok", "err", "timeout", "full"}]
      /\ call'[o] \in {"waiting", "full"}
  BY <1>1 DEF ClientInv, TypeOK
<1>3. ~Pending(o) /\ ~In(o, batch) /\ ~In(o, batchCh)
  BY <1>1 DEF ClientInv, PlaceInv, Pending
<1>4. RouteInv'
  BY <1>1, <1>2 DEF ClientInv, RouteInv, Skipped
<1>5. CASE batchCh' = batchCh /\ call' = [call EXCEPT ![o] = "full"]
  <2>1. \A p \in Ops : Pending(p)' <=> Pending(p)
    BY <1>1, <1>3, <1>5 DEF Pending, ClientInv, TypeOK
  <2> QED  BY <1>1, <1>2, <1>4, <1>5, <2>1 DEF ClientInv, TypeOK, PlaceInv
<1>6. CASE /\ Len(batchCh) < QueueSize
           /\ batchCh' = Append(batchCh, o) /\ call' = [call EXCEPT ![o] = "waiting"]
  <2>1. batchCh \in Seq(Ops) /\ Len(batchCh) \in Nat /\ QueueSize \in Nat
    BY LenProperties, NFTClientAssumption DEF ClientInv, TypeOK
  <2>2. batchCh' \in Seq(Ops) /\ Len(batchCh') <= QueueSize
    BY <1>6, <2>1, AppendProperties
  <2>3. TypeOK'
    BY <1>1, <1>2, <2>2 DEF ClientInv, TypeOK
  <2>4. \A p \in Ops : In(p, batchCh') <=> In(p, batchCh) \/ p = o
    BY <1>6, <2>1, AppendIn
  <2>5. Distinct(batchCh')
    BY <1>3, <1>6, <2>1, AppendIn DEF ClientInv, PlaceInv
  <2>6. done[o] = "open"
    BY <1>1 DEF ClientInv, PlaceInv
  <2>7. Pending(o)' /\ \A p \in Ops : p # o => (Pending(p)' <=> Pending(p))
    BY <1>1, <1>2, <1>6, <2>6 DEF Pending, ClientInv, TypeOK
  <2>8. PlaceInv'
    BY <1>1, <1>2, <1>3, <2>4, <2>5, <2>6, <2>7 DEF ClientInv, PlaceInv
  <2> QED  BY <1>4, <2>3, <2>8 DEF ClientInv
<1> QED  BY <1>1, <1>5, <1>6

-----------------------------------------------------------------------------
(* The worker *)

\* The worker takes the operation at the head of the queue into its batch.
LEMMA TakeInv ==
  ASSUME ClientInv, Take \/ Drain
  PROVE  ClientInv'
<1> DEFINE o == Head(batchCh)
<1>1. /\ UNCHANGED <<call, done, finalErr, stopping, cancelled, closer, conn, kernel,
                     failures>>
      /\ batchCh # <<>> /\ Len(batch) < BatchSize
      /\ batch' = Append(batch, o) /\ batchCh' = Tail(batchCh) /\ worker' = "drain"
  <2>1. CASE Take
    <3>1. Len(batch) = 0
      BY <2>1 DEF Take, ClientInv, PlaceInv
    <3> QED  BY <2>1, <3>1, NFTClientAssumption DEF Take
  <2>2. CASE Drain
    BY <2>2 DEF Drain
  <2> QED  BY <2>1, <2>2
<1>2. /\ batch \in Seq(Ops) /\ batchCh \in Seq(Ops)
      /\ Len(batch) \in Nat /\ Len(batchCh) \in Nat
      /\ BatchSize \in Nat /\ QueueSize \in Nat /\ Len(batchCh) <= QueueSize
  BY LenProperties, NFTClientAssumption DEF ClientInv, TypeOK
<1>3. /\ o \in Ops /\ batchCh' \in Seq(Ops) /\ Len(batchCh') = Len(batchCh) - 1
      /\ \A p \in Ops : In(p, batchCh) <=> In(p, batchCh') \/ p = o
      /\ Distinct(batchCh') /\ ~In(o, batchCh')
  BY <1>1, <1>2, TailIn DEF ClientInv, PlaceInv
<1>4. ~In(o, batch)
  BY <1>3 DEF ClientInv, PlaceInv
<1> HIDE DEF o
<1>5. /\ \A p \in Ops : In(p, batch') <=> In(p, batch) \/ p = o
      /\ Distinct(batch')
  BY <1>1, <1>2, <1>3, <1>4, AppendIn DEF ClientInv, PlaceInv
<1>6. batch' \in Seq(Ops) /\ batch' # <<>> /\ Len(batch') = Len(batch) + 1
  BY <1>1, <1>2, <1>3, AppendProperties
<1>7. TypeOK'
  <2>1. Len(batch') <= BatchSize /\ Len(batchCh') <= QueueSize
    BY <1>1, <1>2, <1>3, <1>6
  <2> QED  BY <1>1, <1>3, <1>6, <2>1 DEF ClientInv, TypeOK, WorkerStates
<1>8. PlaceInv'
  <2>1. \A p \in Ops : Pending(p)' <=> Pending(p)
    BY <1>1 DEF Pending
  <2> QED  BY <1>1, <1>3, <1>4, <1>5, <1>6, <2>1 DEF ClientInv, PlaceInv
<1>9. RouteInv'
  BY <1>1 DEF ClientInv, RouteInv, Skipped
<1> QED  BY <1>7, <1>8, <1>9 DEF ClientInv

\* The worker stops draining, or loses its connection: the batch stays.
LEMMA StayInv ==
  ASSUME ClientInv, Drained \/ Cancel \/ Reconnect
  PROVE  ClientInv'
<1>1. UNCHANGED <<call, done, batchCh, batch, cancelled, closer, kernel>>
  BY DEF Drained, Cancel, Reconnect
<1>2. /\ worker' \in {"select", "stopped"} <=> batch = <<>>
      /\ worker' \in WorkerStates
      /\ worker' = "answer" => finalErr'
  BY DEF Drained, Cancel, Reconnect, ClientInv, PlaceInv, TypeOK, WorkerStates
<1>3. failures' \in 0 .. MaxFailures
  <2>1. failures' = failures \/ (failures < MaxFailures /\ failures' = failures + 1)
    BY DEF Drained, Cancel, Reconnect
  <2> QED  BY <2>1, NFTClientAssumption DEF ClientInv, TypeOK
<1>4. finalErr' \in BOOLEAN /\ stopping' \in BOOLEAN /\ conn' \in BOOLEAN
  BY Zenon DEF Drained, Cancel, Reconnect, ClientInv, TypeOK
<1>5. TypeOK'
  BY <1>1, <1>2, <1>3, <1>4 DEF ClientInv, TypeOK
<1>6. PlaceInv'
  <2>1. \A p \in Ops : Pending(p)' <=> Pending(p)
    BY <1>1 DEF Pending
  <2> QED  BY <1>1, <1>2, <2>1 DEF ClientInv, PlaceInv
<1>7. RouteInv'
  BY <1>1, <1>2 DEF ClientInv, RouteInv, Skipped
<1> QED  BY <1>5, <1>6, <1>7 DEF ClientInv

\* The first and the second attempt to write the batch.
LEMMA FlushInv ==
  ASSUME ClientInv, Flush \/ Retry
  PROVE  ClientInv'
<1>1. UNCHANGED <<call, done, batchCh, batch, stopping, cancelled, closer, conn>>
  BY DEF Flush, Retry
<1>2. PICK res \in FlushResults :
        /\ kernel' = res[2] /\ failures' = Failed(res[1])
        /\ finalErr' \in BOOLEAN
        /\ worker' \in {"reconnect", "answer"}
        /\ worker' = "answer" /\ ~finalErr' => res[1] # "err"
  BY Zenon DEF Flush, Retry
<1>3. worker \in {"flush", "retry"} /\ batch # <<>>
  BY DEF Flush, Retry, ClientInv, PlaceInv
<1>4. /\ Agrees(kernel')
      /\ \A o \in Ops : Routed(kernel, o) => Routed(kernel', o)
      /\ res[1] # "err" =>
           \A o \in Ops : ~Skipped(o) /\ In(o, batch) => Routed(kernel', o)
      /\ failures' \in 0 .. MaxFailures
  BY <1>2, FlushRight DEF ClientInv, RouteInv
<1>5. TypeOK'
  BY <1>1, <1>2, <1>4 DEF ClientInv, TypeOK, WorkerStates
<1>6. PlaceInv'
  <2>1. \A p \in Ops : Pending(p)' <=> Pending(p)
    BY <1>1 DEF Pending
  <2> QED  BY <1>1, <1>2, <1>3, <2>1 DEF ClientInv, PlaceInv
<1>7. RouteInv'
  BY <1>1, <1>2, <1>4 DEF ClientInv, RouteInv, Skipped
<1> QED  BY <1>5, <1>6, <1>7 DEF ClientInv

\* The first operation of the batch is answered and leaves it.
LEMMA AnswerInv ==
  ASSUME ClientInv, Answer
  PROVE  ClientInv'
<1>1. /\ batch \in Seq(Ops) /\ batch # <<>> /\ Len(batch) \in Nat
      /\ Len(batch) <= BatchSize
  BY LenProperties DEF Answer, ClientInv, TypeOK, PlaceInv
<1>2. PICK o \in Ops : o = Head(batch)
  BY <1>1, TailIn
<1>3. /\ UNCHANGED <<call, batchCh, finalErr, stopping, cancelled, closer, conn, kernel,
                     failures>>
      /\ worker = "answer" /\ batch' = Tail(batch)
      /\ done' = [done EXCEPT ![o] = IF finalErr THEN "err" ELSE "closed"]
      /\ worker' = IF Len(batch) > 1 THEN "answer" ELSE AfterBatch
  BY <1>2 DEF Answer
<1>4. /\ batch' \in Seq(Ops) /\ Len(batch') = Len(batch) - 1
      /\ \A p \in Ops : In(p, batch) <=> In(p, batch') \/ p = o
      /\ Distinct(batch') /\ ~In(o, batch')
  BY <1>2, <1>3, <1>1, TailIn DEF ClientInv, PlaceInv
<1>5. /\ done' \in [Ops -> {"open", "err", "closed"}] /\ done'[o] # "open"
      /\ \A p \in Ops : p # o => done'[p] = done[p]
      /\ done'[o] = "closed" => ~finalErr
  BY <1>3, <1>4 DEF ClientInv, TypeOK
<1>6. batch' = <<>> <=> ~(Len(batch) > 1)
  BY <1>1, <1>4, EmptySeq, LenProperties
<1>7. worker' \in {"select", "stopped", "answer"} /\ (worker' = "answer" <=> batch' # <<>>)
  BY <1>3, <1>6 DEF AfterBatch
<1>8. TypeOK'
  <2>1. Len(batch') <= BatchSize
    BY <1>1, <1>4, NFTClientAssumption
  <2> QED  BY <1>3, <1>4, <1>5, <1>7, <2>1 DEF ClientInv, TypeOK, WorkerStates
<1>9. Pending(o) /\ ~Pending(o)' /\ \A p \in Ops : p # o => (Pending(p)' <=> Pending(p))
  BY <1>3, <1>4, <1>5 DEF Pending, ClientInv, PlaceInv
<1>10. PlaceInv'
  <2>1. call[o] # "new"
    BY <1>9 DEF Pending
  <2> QED  BY <1>3, <1>4, <1>5, <1>7, <1>9, <2>1 DEF ClientInv, PlaceInv
<1>11. RouteInv'
  <2>1. ~finalErr /\ ~Skipped(o) => Routed(kernel, o)
    BY <1>3, <1>4 DEF ClientInv, RouteInv
  <2> QED  BY <1>3, <1>4, <1>5, <2>1 DEF ClientInv, RouteInv, Skipped
<1> QED  BY <1>8, <1>10, <1>11 DEF ClientInv

-----------------------------------------------------------------------------
(* The invariant *)

\* NewNFTClient: nothing is queued, and the map is as the process before left
\* it.
LEMMA InitClientInv == Init => ClientInv
<1> SUFFICES ASSUME Init PROVE ClientInv
  OBVIOUS
<1>1. TypeOK
  <2>1. Len(batch) = 0 /\ Len(batchCh) = 0 /\ batch \in Seq(Ops) /\ batchCh \in Seq(Ops)
    BY DEF Init
  <2>2. failures \in 0 .. MaxFailures /\ 0 <= QueueSize /\ 0 <= BatchSize
    BY NFTClientAssumption DEF Init
  <2>3. {finalErr, stopping, cancelled, conn} \subseteq BOOLEAN
    BY Zenon DEF Init
  <2> QED  BY <2>1, <2>2, <2>3 DEF Init, TypeOK, WorkerStates
<1>2. Len(batch) = 0 /\ Len(batchCh) = 0
  BY DEF Init
<1>3. Distinct(batch) /\ Distinct(batchCh) /\ \A o \in Ops : ~In(o, batch) /\ ~In(o, batchCh)
  BY <1>2 DEF Distinct, In
<1>4. PlaceInv
  BY <1>3 DEF Init, PlaceInv, Pending
<1>5. Agrees(kernel)
  BY StatelessHashing DEF Init, Agrees, Lookup
<1>6. RouteInv
  BY <1>5 DEF Init, RouteInv
<1> QED  BY <1>1, <1>4, <1>6 DEF ClientInv

\* Close and its return touch neither operations nor the map.
LEMMA CloseInv ==
  ASSUME ClientInv, Close \/ CloseReturns
  PROVE  ClientInv'
<1>1. UNCHANGED <<call, done, batchCh, batch, worker, finalErr, stopping, kernel, failures>>
  BY DEF Close, CloseReturns
<1>2. closer' \in {"idle", "waiting", "closed"} /\ cancelled' \in BOOLEAN /\ conn' \in BOOLEAN
  BY Zenon DEF Close, CloseReturns, ClientInv, TypeOK
<1>3. TypeOK'
  BY <1>1, <1>2 DEF ClientInv, TypeOK
<1>4. PlaceInv'
  BY <1>1 DEF ClientInv, PlaceInv, Pending
<1>5. RouteInv'
  BY <1>1 DEF ClientInv, RouteInv, Skipped
<1> QED  BY <1>3, <1>4, <1>5 DEF ClientInv

\* Every step of a caller, of the worker and of Close keeps the invariant.
LEMMA NextClientInv == ClientInv /\ [Next]_vars => ClientInv'
<1> SUFFICES ASSUME ClientInv, [Next]_vars PROVE ClientInv'
  OBVIOUS
<1>1. CASE \E o \in Ops : AddMappingSkip(o) \/ AddMapping(o) \/ Answered(o) \/ TimedOut(o)
  BY <1>1, CallerInv, AddMappingInv
<1>2. CASE Work
  BY <1>2, TakeInv, StayInv, FlushInv, AnswerInv DEF Work
<1>3. CASE Close \/ CloseReturns
  BY <1>3, CloseInv
<1>4. CASE UNCHANGED vars
  <2>1. TypeOK'
    BY <1>4 DEF vars, ClientInv, TypeOK
  <2>2. PlaceInv'
    BY <1>4 DEF vars, ClientInv, PlaceInv, Pending
  <2>3. RouteInv'
    BY <1>4 DEF vars, ClientInv, RouteInv, Skipped
  <2> QED  BY <2>1, <2>2, <2>3 DEF ClientInv
<1> QED  BY <1>1, <1>2, <1>3, <1>4 DEF Next

\* The invariant holds at every moment of the client's life.
THEOREM ClientInvariance == Spec => []ClientInv
  BY InitClientInv, NextClientInv, PTL DEF Spec

\* Every operation that was queued is in the queue, in the batch or answered,
\* in exactly one of these places, whatever netlink does, whoever gives up
\* waiting and whenever the worker is stopped (batchWorker, AddMapping).
THEOREM AnsweredOnceCorrect == Spec => []EachAnsweredOnce
<1>1. ClientInv => EachAnsweredOnce
  <2> SUFFICES ASSUME ClientInv PROVE EachAnsweredOnce
    OBVIOUS
  <2> DEFINE open == batch \o batchCh
             b == Len(batch)
  <2>1. /\ batch \in Seq(Ops) /\ batchCh \in Seq(Ops)
        /\ b \in Nat /\ Len(batchCh) \in Nat
    BY LenProperties DEF ClientInv, TypeOK
  <2>2. /\ open \in Seq(Ops) /\ Len(open) = b + Len(batchCh)
        /\ DOMAIN open = 1 .. b + Len(batchCh)
        /\ \A i \in 1 .. b : open[i] = batch[i]
        /\ \A i \in 1 .. b + Len(batchCh) : ~(i <= b) => open[i] = batchCh[i - b]
    BY <2>1, ConcatProperties, LenProperties
  <2> HIDE DEF open, b
  <2>3. \A i \in DOMAIN open :
           \/ i \in 1 .. b /\ open[i] = batch[i]
           \/ i - b \in 1 .. Len(batchCh) /\ open[i] = batchCh[i - b]
    BY <2>1, <2>2
  <2>4. ASSUME NEW i \in DOMAIN open, NEW j \in DOMAIN open, open[i] = open[j]
        PROVE  i = j
    <3>1. open[i] \in Ops
      BY <2>2, ElementOfSeq
    <3>2. CASE i \in 1 .. b /\ j \in 1 .. b
      BY <2>2, <2>4, <3>2 DEF ClientInv, PlaceInv, Distinct, b
    <3>3. CASE i - b \in 1 .. Len(batchCh) /\ j - b \in 1 .. Len(batchCh)
      <4>1. open[i] = batchCh[i - b] /\ open[j] = batchCh[j - b]
        BY <2>1, <2>2, <3>3
      <4>2. i - b = j - b
        BY <2>4, <3>3, <4>1, Zenon DEF ClientInv, PlaceInv, Distinct
      <4> QED  BY <2>1, <2>2, <4>2
    <3>4. ~(i \in 1 .. b /\ j - b \in 1 .. Len(batchCh) /\ open[j] = batchCh[j - b])
      BY <2>2, <2>4, <3>1 DEF ClientInv, PlaceInv, In, b
    <3>5. ~(j \in 1 .. b /\ i - b \in 1 .. Len(batchCh) /\ open[i] = batchCh[i - b])
      BY <2>2, <2>4, <3>1 DEF ClientInv, PlaceInv, In, b
    <3> QED  BY <2>3, <3>2, <3>3, <3>4, <3>5
  <2>5. IsInjective(open)
    BY <2>4 DEF IsInjective
  <2>6. Range(open) = {o \in Ops : In(o, batch) \/ In(o, batchCh)}
    <3>1. ASSUME NEW i \in DOMAIN open
          PROVE  open[i] \in Ops /\ (In(open[i], batch) \/ In(open[i], batchCh))
      BY <2>2, <2>3, ElementOfSeq DEF In, b
    <3>2. ASSUME NEW o \in Ops, In(o, batch)
          PROVE  \E i \in DOMAIN open : open[i] = o
      <4>1. PICK i \in 1 .. b : batch[i] = o
        BY <3>2 DEF In, b
      <4>2. i \in DOMAIN open
        BY <2>1, <2>2
      <4> QED  BY <2>2, <4>1, <4>2
    <3>3. ASSUME NEW o \in Ops, In(o, batchCh)
          PROVE  \E i \in DOMAIN open : open[i] = o
      <4>1. PICK i \in 1 .. Len(batchCh) : batchCh[i] = o
        BY <3>3 DEF In
      <4>2. i + b \in DOMAIN open /\ ~(i + b <= b) /\ (i + b) - b = i
        BY <2>1, <2>2
      <4> QED  BY <2>2, <4>1, <4>2
    <3> QED  BY <3>1, <3>2, <3>3 DEF Range
  <2>7. Range(open) = {o \in Ops : /\ call[o] \in {"waiting", "timeout"}
                                   /\ done[o] = "open"}
    BY <2>6 DEF ClientInv, PlaceInv, Pending
  <2> QED  BY <2>5, <2>7 DEF EachAnsweredOnce, ClientInv, PlaceInv, open
<1> QED  BY <1>1, ClientInvariance, PTL

\* A caller that AddMapping told "no error" finds its mapping in the kernel:
\* after any number of failed attempts and lost connections no error of a batch
\* is lost, and with stateless hashing "file exists" hides no other mapping.
THEOREM OkCorrect == Spec => []OkIsRouted
<1>1. ClientInv => OkIsRouted
  BY DEF ClientInv, RouteInv, Agrees, Routed, OkIsRouted, Lookup
<1> QED  BY <1>1, ClientInvariance, PTL

-----------------------------------------------------------------------------
(***************************************************************************)
(* SafeConn, for any number of producers and messages and any capacity of  *)
(* the queue, as SafeConn assumes of them; ConnInv carries this along.     *)
(*                                                                         *)
(* That the wire holds a prefix of what was accepted is not inductive: it  *)
(* follows from where the messages are that are still under way.  The      *)
(* buffer continues the wire, and the queue continues the buffer up to the *)
(* nil that Close puts into it, behind which nothing is written.           *)
(***************************************************************************)

CONSTANTS Producers, Batches, WriteQueueSize, MaxPings
VARIABLES writeChan, next, checked, writer, buffer, wire, accepted, refused, closed,
          connCloser, open, pings

\* A connection with its own queue.
W == INSTANCE SafeConn WITH QueueSize <- WriteQueueSize, closer <- connCloser

\* A message is known by its producer and its number.
Message == Producers \X Nat

\* The types of the connection's state.
ConnTypes ==
  /\ writeChan \in Seq(Message \cup {W!Nil}) /\ Len(writeChan) <= WriteQueueSize
  /\ buffer \in Seq(Message) /\ wire \in Seq(Message) /\ accepted \in Seq(Message)
  /\ writer \in {"select", "drain", "ended"}
  /\ connCloser \in {"none", "stored", "queued", "done"}
  /\ next \in [Producers -> Nat] /\ checked \subseteq Producers

\* The nil of Close is not among the first i messages of a queue.
Unbroken(q, i) == \A j \in 1 .. i : q[j] # W!Nil

\* How many of the accepted messages the writer has encoded.
Written == Len(wire) + Len(buffer)

\* What was accepted is on the wire, then in the buffer, then in the queue.
InOrder ==
  /\ Written <= Len(accepted)
  /\ \A i \in 1 .. Len(wire) : wire[i] = accepted[i]
  /\ \A i \in 1 .. Len(buffer) : buffer[i] = accepted[Len(wire) + i]

\* The queue holds what follows, up to the nil.
QueueInOrder ==
  /\ \A i \in 1 .. Len(writeChan) : Unbroken(writeChan, i) =>
        Written + i <= Len(accepted) /\ accepted[Written + i] = writeChan[i]
  /\ Unbroken(writeChan, Len(writeChan)) => Len(accepted) = Written + Len(writeChan)

\* Whatever ends the writer, or tells it to end, has closed the connection.
EndsClosed ==
  /\ closed = (connCloser # "none")
  /\ refused => closed
  /\ writer = "ended" => closed
  /\ ~Unbroken(writeChan, Len(writeChan)) => closed

\* The inductive invariant of the connection.
ConnInv ==
  /\ W!SafeConnAssumption
  /\ ConnTypes /\ EndsClosed /\ InOrder /\ (writer # "ended" => QueueInOrder)

-----------------------------------------------------------------------------

\* StartClose leaves the connection closed, whoever calls it.
LEMMA StartCloseCloses ==
  ASSUME ConnInv, W!StartClose
  PROVE  /\ closed' /\ closed' = (connCloser' # "none")
         /\ connCloser' \in {"none", "stored", "queued", "done"}
  BY Zenon DEF W!StartClose, ConnInv, ConnTypes, EndsClosed

\* A step that moves no message keeps the order, and so does one that ends
\* the writer.
LEMMA OrderKept ==
  ASSUME ConnInv, UNCHANGED <<wire, buffer, accepted>>,
         writer' = "ended" \/ (writeChan' = writeChan /\ writer' = writer)
  PROVE  InOrder' /\ (writer' # "ended" => QueueInOrder')
  BY DEF ConnInv, InOrder, QueueInOrder, Unbroken, Written

\* What may be in the queue is a message or the nil.
LEMMA MessageNotNil ==
  ASSUME NEW p \in Producers, NEW n \in Nat
  PROVE  <<p, n>> \in Message /\ <<p, n>> # W!Nil
  BY DEF Message, W!Nil

-----------------------------------------------------------------------------
(* One lemma for each action that moves a message *)

\* CloseQueues: behind the nil nothing is said of the queue.
LEMMA CloseQueuesInv ==
  ASSUME ConnInv, W!CloseQueues
  PROVE  ConnInv'
<1>1. closed /\ closed' = (connCloser' # "none") /\ UNCHANGED <<closed, refused, writer>>
  BY Zenon DEF W!CloseQueues, ConnInv, ConnTypes, EndsClosed
<1>2. CASE Len(writeChan) < WriteQueueSize
  <2>1. /\ writeChan' = Append(writeChan, W!Nil)
        /\ writeChan' \in Seq(Message \cup {W!Nil})
        /\ Len(writeChan') = Len(writeChan) + 1
        /\ \A i \in 1 .. Len(writeChan) : writeChan'[i] = writeChan[i]
        /\ writeChan'[Len(writeChan) + 1] = W!Nil
        /\ Len(writeChan) \in Nat
    BY <1>2, AppendProperties, LenProperties DEF W!CloseQueues, ConnInv, ConnTypes
  <2>2. ConnTypes' /\ EndsClosed'
    BY <1>1, <1>2, <2>1
       DEF W!CloseQueues, ConnInv, ConnTypes, EndsClosed, W!SafeConnAssumption
  <2>3. ~Unbroken(writeChan', Len(writeChan'))
    BY <2>1 DEF Unbroken
  <2>4. InOrder'
    BY DEF ConnInv, InOrder, Written, W!CloseQueues
  <2>5. ASSUME writer # "ended", NEW i \in 1 .. Len(writeChan'), Unbroken(writeChan', i)
        PROVE  Written + i <= Len(accepted) /\ accepted[Written + i] = writeChan'[i]
    <3>1. i \in 1 .. Len(writeChan) /\ Unbroken(writeChan, i)
      BY <2>1, <2>5 DEF Unbroken
    <3> QED  BY <2>1, <2>5, <3>1 DEF ConnInv, QueueInOrder
  <2>6. writer' # "ended" => QueueInOrder'
    BY <1>1, <2>3, <2>5, Zenon DEF QueueInOrder, Written, W!CloseQueues
  <2> QED  BY <2>2, <2>4, <2>6 DEF ConnInv
<1>3. CASE ~(Len(writeChan) < WriteQueueSize)
  <2>1. writeChan' = writeChan
    BY <1>3 DEF W!CloseQueues
  <2>2. ConnTypes' /\ EndsClosed'
    BY <1>1, <2>1 DEF W!CloseQueues, ConnInv, ConnTypes, EndsClosed, Unbroken
  <2> QED  BY <2>1, <2>2, OrderKept DEF ConnInv, W!CloseQueues
<1> QED  BY <1>2, <1>3

\* Send: the message goes to the end of the queue and of what was accepted, or
\* the connection is closed.
LEMMA SendInv ==
  ASSUME ConnInv, NEW p \in Producers, W!Send(p)
  PROVE  ConnInv'
<1>1. next' \in [Producers -> Nat] /\ checked' \subseteq Producers
  <2>1. \/ next' = [next EXCEPT ![p] = @ + 1]
        \/ next' = [next EXCEPT ![p] = Batches[p] + 1]
    BY DEF W!Send
  <2>2. next[p] + 1 \in Nat /\ Batches[p] + 1 \in Nat
    BY DEF ConnInv, ConnTypes, W!SafeConnAssumption
  <2>3. next' \in [Producers -> Nat]
    BY <2>1, <2>2, Zenon DEF ConnInv, ConnTypes
  <2> QED  BY <2>3 DEF W!Send, ConnInv, ConnTypes
<1>2. CASE Len(writeChan) < WriteQueueSize
  <2> DEFINE m == <<p, next[p]>>
  <2>1. m \in Message /\ m # W!Nil
    BY MessageNotNil DEF ConnInv, ConnTypes
  <2> HIDE DEF m
  <2>2. /\ writeChan' = Append(writeChan, m) /\ accepted' = Append(accepted, m)
        /\ UNCHANGED <<refused, closed, connCloser, writer, buffer, wire>>
    BY <1>2 DEF W!Send, m
  <2>3. /\ writeChan' \in Seq(Message \cup {W!Nil})
        /\ Len(writeChan') = Len(writeChan) + 1
        /\ \A i \in 1 .. Len(writeChan) : writeChan'[i] = writeChan[i]
        /\ writeChan'[Len(writeChan) + 1] = m
        /\ Len(writeChan) \in Nat
    BY <2>1, <2>2, AppendProperties, LenProperties DEF ConnInv, ConnTypes
  <2>4. /\ accepted' \in Seq(Message)
        /\ Len(accepted') = Len(accepted) + 1
        /\ \A i \in 1 .. Len(accepted) : accepted'[i] = accepted[i]
        /\ accepted'[Len(accepted) + 1] = m
        /\ Len(accepted) \in Nat
    BY <2>1, <2>2, AppendProperties, LenProperties DEF ConnInv, ConnTypes
  <2>5. Len(wire) \in Nat /\ Len(buffer) \in Nat
    BY LenProperties DEF ConnInv, ConnTypes
  <2>6. ConnTypes'
    BY <1>1, <1>2, <2>2, <2>3, <2>4 DEF ConnInv, ConnTypes, W!SafeConnAssumption
  <2>7. Unbroken(writeChan', Len(writeChan) + 1) <=> Unbroken(writeChan, Len(writeChan))
    BY <2>1, <2>3 DEF Unbroken
  <2>8. EndsClosed'
    BY <2>2, <2>3, <2>7 DEF ConnInv, EndsClosed
  <2>9. InOrder'
    <3>1. Written' = Written /\ Written <= Len(accepted')
      BY <2>2, <2>4, <2>5 DEF ConnInv, InOrder, Written
    <3>2. \A i \in 1 .. Len(wire) : i \in 1 .. Len(accepted)
      BY <2>4, <2>5 DEF ConnInv, InOrder, Written
    <3>3. \A i \in 1 .. Len(buffer) : Len(wire) + i \in 1 .. Len(accepted)
      BY <2>4, <2>5 DEF ConnInv, InOrder, Written
    <3>4. /\ \A i \in 1 .. Len(wire) : wire[i] = accepted'[i]
          /\ \A i \in 1 .. Len(buffer) : buffer[i] = accepted'[Len(wire) + i]
      BY <2>4, <3>2, <3>3 DEF ConnInv, InOrder
    <3> QED  BY <2>2, <3>1, <3>4, Zenon DEF InOrder
  <2>10. ASSUME writer # "ended"
         PROVE  QueueInOrder'
    <3>1. Written' = Written /\ Written \in Nat
      BY <2>2, <2>5 DEF Written
    <3>2. Unbroken(writeChan, Len(writeChan)) => Len(accepted) = Written + Len(writeChan)
      BY <2>10 DEF ConnInv, QueueInOrder
    <3>3. ASSUME NEW i \in 1 .. Len(writeChan) + 1, Unbroken(writeChan', i)
          PROVE  Written + i <= Len(accepted') /\ accepted'[Written + i] = writeChan'[i]
      <4>1. CASE i \in 1 .. Len(writeChan)
        <5>1. Unbroken(writeChan, i)
          BY <2>3, <3>3, <4>1 DEF Unbroken
        <5>2. Written + i <= Len(accepted) /\ accepted[Written + i] = writeChan[i]
          BY <2>10, <4>1, <5>1 DEF ConnInv, QueueInOrder
        <5> QED  BY <2>3, <2>4, <3>1, <4>1, <5>2
      <4>2. CASE i = Len(writeChan) + 1
        BY <2>3, <2>4, <2>7, <3>1, <3>2, <3>3, <4>2
      <4> QED  BY <2>3, <4>1, <4>2
    <3> QED  BY <2>3, <2>4, <2>7, <3>1, <3>2, <3>3 DEF QueueInOrder
  <2> QED  BY <2>2, <2>6, <2>8, <2>9, <2>10 DEF ConnInv
<1>3. CASE ~(Len(writeChan) < WriteQueueSize)
  <2>1. /\ W!StartClose /\ UNCHANGED <<writeChan, accepted, writer, buffer, wire>>
    BY <1>3 DEF W!Send
  <2>2. ConnTypes' /\ EndsClosed'
    BY <1>1, <2>1, StartCloseCloses DEF ConnInv, ConnTypes, EndsClosed, Unbroken
  <2> QED  BY <2>1, <2>2, OrderKept DEF ConnInv
<1> QED  BY <1>2, <1>3

\* Take: the head of the queue goes to the end of the buffer or, with the
\* buffer, to the wire; at the nil the writer ends.
LEMMA DrainInv ==
  ASSUME ConnInv, W!Take
  PROVE  ConnInv'
<1>1. /\ Len(writeChan) \in Nat \ {0} /\ Head(writeChan) = writeChan[1]
      /\ writeChan[1] \in Message \cup {W!Nil}
      /\ writeChan' \in Seq(Message \cup {W!Nil})
      /\ Len(writeChan') = Len(writeChan) - 1
      /\ \A i \in 1 .. Len(writeChan') : writeChan'[i] = writeChan[i + 1]
      /\ UNCHANGED <<next, checked, accepted, refused, closed, connCloser>>
      /\ writer # "ended"
  BY HeadTailProperties, EmptySeq, LenProperties, ElementOfSeq DEF W!Take, ConnInv, ConnTypes
<1>2. CASE Head(writeChan) = W!Nil
  <2>1. writer' = "ended" /\ UNCHANGED <<buffer, wire>>
    BY <1>2 DEF W!Take, W!Ended
  <2>2. closed
    BY <1>1, <1>2 DEF ConnInv, EndsClosed, Unbroken
  <2>3. ConnTypes' /\ EndsClosed'
    BY <1>1, <2>1, <2>2 DEF ConnInv, ConnTypes, EndsClosed, W!SafeConnAssumption
  <2> QED  BY <1>1, <2>1, <2>3, OrderKept DEF ConnInv
<1>3. CASE Head(writeChan) # W!Nil
  <2> DEFINE m == Head(writeChan)
  <2>1. m \in Message /\ W!Encode(m) /\ writer' = "drain" /\ m = writeChan[1]
    BY <1>1, <1>3 DEF W!Take
  <2> HIDE DEF m
  <2>2. Len(wire) \in Nat /\ Len(buffer) \in Nat /\ Len(accepted) \in Nat
    BY LenProperties DEF ConnInv, ConnTypes
  <2>3. ASSUME NEW i \in 0 .. Len(writeChan')
        PROVE  Unbroken(writeChan', i) <=> Unbroken(writeChan, i + 1)
    <3>1. ASSUME Unbroken(writeChan', i), NEW j \in 1 .. i + 1
          PROVE  writeChan[j] # W!Nil
      <4>1. CASE j = 1
        BY <1>1, <1>3, <4>1
      <4>2. CASE j # 1
        <5>1. j - 1 \in 1 .. i /\ j - 1 \in 1 .. Len(writeChan') /\ (j - 1) + 1 = j
          BY <1>1, <4>2
        <5> QED  BY <1>1, <3>1, <5>1, Zenon DEF Unbroken
      <4> QED  BY <4>1, <4>2
    <3>2. ASSUME Unbroken(writeChan, i + 1), NEW j \in 1 .. i
          PROVE  writeChan'[j] # W!Nil
      BY <1>1, <3>2 DEF Unbroken
    <3> QED  BY <3>1, <3>2 DEF Unbroken
  <2>4. /\ Written + 1 <= Len(accepted) /\ accepted[Written + 1] = m
    <3>1. Unbroken(writeChan, 1)
      BY <1>1, <1>3 DEF Unbroken
    <3> QED  BY <1>1, <2>1, <3>1 DEF ConnInv, QueueInOrder
  <2>5. /\ wire' \in Seq(Message) /\ buffer' \in Seq(Message) /\ Written' = Written + 1
        /\ InOrder'
    <3>1. CASE buffer' = Append(buffer, m) /\ wire' = wire
      <4>1. /\ buffer' \in Seq(Message) /\ Len(buffer') = Len(buffer) + 1
            /\ \A i \in 1 .. Len(buffer) : buffer'[i] = buffer[i]
            /\ buffer'[Len(buffer) + 1] = m
        BY <2>1, <3>1, AppendProperties DEF ConnInv, ConnTypes
      <4>2. Written' = Written + 1 /\ Written' <= Len(accepted')
        BY <1>1, <2>2, <2>4, <3>1, <4>1 DEF Written
      <4>3. ASSUME NEW i \in 1 .. Len(buffer')
            PROVE  buffer'[i] = accepted'[Len(wire') + i]
        <5>1. CASE i \in 1 .. Len(buffer)
          BY <1>1, <3>1, <4>1, <5>1 DEF ConnInv, InOrder
        <5>2. CASE i = Len(buffer) + 1
          <6>1. Len(wire) + i = Written + 1
            BY <2>2, <5>2 DEF Written
          <6> QED  BY <1>1, <2>4, <3>1, <4>1, <5>2, <6>1
        <5> QED  BY <2>2, <4>1, <5>1, <5>2
      <4> QED  BY <1>1, <3>1, <4>1, <4>2, <4>3 DEF ConnInv, ConnTypes, InOrder
    <3>2. CASE wire' = wire \o buffer \o <<m>> /\ buffer' = <<>>
      <4> DEFINE w == wire \o buffer
      <4>1. /\ w \in Seq(Message) /\ Len(w) = Written
            /\ \A i \in 1 .. Written : w[i] = IF i <= Len(wire) THEN wire[i]
                                               ELSE buffer[i - Len(wire)]
        BY ConcatProperties DEF ConnInv, ConnTypes, Written
      <4>2. wire' = Append(w, m)
        BY <2>1, <3>2, <4>1, AppendIsConcat
      <4> HIDE DEF w
      <4>3. /\ wire' \in Seq(Message) /\ Len(wire') = Written + 1
            /\ \A i \in 1 .. Written : wire'[i] = w[i]
            /\ wire'[Written + 1] = m
        BY <2>1, <4>1, <4>2, AppendProperties
      <4>4. buffer' \in Seq(Message) /\ Len(buffer') = 0
        BY <3>2, EmptySeq
      <4>5. ASSUME NEW i \in 1 .. Written
            PROVE  w[i] = accepted[i]
        <5>1. CASE i <= Len(wire)
          BY <2>2, <4>1, <5>1 DEF ConnInv, InOrder, Written
        <5>2. CASE i > Len(wire)
          <6>1. /\ i - Len(wire) \in 1 .. Len(buffer) /\ Len(wire) + (i - Len(wire)) = i
            BY <2>2, <5>2 DEF Written
          <6>2. buffer[i - Len(wire)] = accepted[i]
            BY <6>1 DEF ConnInv, InOrder
          <6>3. w[i] = buffer[i - Len(wire)]
            BY <2>2, <4>1, <5>2
          <6> QED  BY <6>2, <6>3
        <5> QED  BY <2>2, <5>1, <5>2
      <4>6. Written \in Nat /\ Written' = Written + 1
        BY <2>2, <4>3, <4>4 DEF Written
      <4>7. \A i \in 1 .. Len(wire') : wire'[i] = accepted'[i]
        BY <1>1, <2>4, <4>3, <4>5, <4>6
      <4>8. \A i \in 1 .. Len(buffer') : buffer'[i] = accepted'[Len(wire') + i]
        BY <4>4
      <4> QED  BY <1>1, <2>4, <4>3, <4>4, <4>6, <4>7, <4>8 DEF InOrder
    <3> QED  BY <2>1, <3>1, <3>2 DEF W!Encode
  <2>6. ConnTypes'
    BY <1>1, <2>1, <2>5 DEF ConnInv, ConnTypes, W!SafeConnAssumption
  <2>7. EndsClosed'
    BY <1>1, <2>1, <2>3 DEF ConnInv, EndsClosed
  <2>8. Written \in Nat
    BY <2>2 DEF Written
  <2>9. ASSUME NEW i \in 1 .. Len(writeChan'), Unbroken(writeChan', i)
        PROVE  Written' + i <= Len(accepted') /\ accepted'[Written' + i] = writeChan'[i]
    <3>1. Unbroken(writeChan, i + 1) /\ i + 1 \in 1 .. Len(writeChan)
      BY <1>1, <2>3, <2>9
    <3>2. /\ Written + (i + 1) <= Len(accepted)
          /\ accepted[Written + (i + 1)] = writeChan[i + 1]
      BY <1>1, <3>1 DEF ConnInv, QueueInOrder
    <3>3. Written' + i = Written + (i + 1)
      BY <2>5, <2>8
    <3> QED  BY <1>1, <3>2, <3>3
  <2>10. ASSUME Unbroken(writeChan', Len(writeChan'))
         PROVE  Len(accepted') = Written' + Len(writeChan')
    <3>1. Unbroken(writeChan, Len(writeChan))
      BY <1>1, <2>3, <2>10
    <3>2. Len(accepted) = Written + Len(writeChan)
      BY <1>1, <3>1 DEF ConnInv, QueueInOrder
    <3>3. Len(writeChan') = Len(writeChan) - 1 /\ Len(writeChan) \in Nat /\ accepted' = accepted
      BY <1>1
    <3>4. \A w, l \in Nat : (w + 1) + (l - 1) = w + l
      OBVIOUS
    <3> QED  BY <2>5, <2>8, <3>2, <3>3, <3>4
  <2> QED  BY <2>5, <2>6, <2>7, <2>9, <2>10 DEF ConnInv, QueueInOrder
<1> QED  BY <1>2, <1>3

\* Flush: the buffer goes to the wire.
LEMMA FlushConnInv ==
  ASSUME ConnInv, W!Flush
  PROVE  ConnInv'
<1>1. /\ wire' \in Seq(Message) /\ Len(wire') = Len(wire) + Len(buffer)
      /\ \A i \in 1 .. Len(wire) + Len(buffer) :
            wire'[i] = IF i <= Len(wire) THEN wire[i] ELSE buffer[i - Len(wire)]
  BY ConcatProperties DEF W!Flush, ConnInv, ConnTypes
<1>2. buffer' \in Seq(Message) /\ Len(buffer') = 0
  BY EmptySeq DEF W!Flush
<1>3. Len(wire) \in Nat /\ Len(buffer) \in Nat /\ Len(accepted) \in Nat
  BY LenProperties DEF ConnInv, ConnTypes
<1>4. ConnTypes' /\ EndsClosed'
  BY <1>1, <1>2 DEF W!Flush, ConnInv, ConnTypes, EndsClosed, Unbroken
<1>5. Written' = Written
  BY <1>1, <1>2, <1>3 DEF Written
<1>6. InOrder'
  BY <1>1, <1>2, <1>3 DEF W!Flush, ConnInv, InOrder, Written
<1>7. QueueInOrder'
  BY <1>5 DEF W!Flush, ConnInv, QueueInOrder, Unbroken
<1> QED  BY <1>4, <1>6, <1>7 DEF ConnInv

-----------------------------------------------------------------------------
(* The invariant *)

\* At the start nothing is queued.
LEMMA InitConnInv == W!SafeConnAssumption /\ W!Init => ConnInv
<1> SUFFICES ASSUME W!SafeConnAssumption, W!Init
             PROVE  ConnInv
  OBVIOUS
<1>1. Len(writeChan) = 0 /\ Len(buffer) = 0 /\ Len(wire) = 0 /\ Len(accepted) = 0
  BY EmptySeq DEF W!Init
<1>2. ConnTypes
  BY <1>1, EmptySeq DEF W!Init, ConnTypes, W!SafeConnAssumption
<1>3. EndsClosed
  <2>1. Unbroken(writeChan, Len(writeChan))
    BY <1>1 DEF Unbroken
  <2> QED  BY <2>1, Zenon DEF W!Init, EndsClosed
<1>4. Written = 0
  BY <1>1 DEF Written
<1>5. InOrder
  BY <1>1, <1>4 DEF InOrder
<1>6. QueueInOrder
  BY <1>1, <1>4 DEF QueueInOrder
<1> QED  BY <1>2, <1>3, <1>5, <1>6 DEF ConnInv

\* Every step of the connection keeps the invariant.
LEMMA NextConnInv ==
  ASSUME ConnInv, [W!Next]_(W!vars)
  PROVE  ConnInv'
<1>1. ASSUME W!CloseSocket \/ W!HandlerCloses \/ W!SendPing \/ UNCHANGED W!vars
      PROVE  ConnInv'
  <2>1. ConnTypes' /\ EndsClosed'
    BY <1>1, StartCloseCloses
       DEF W!CloseSocket, W!HandlerCloses, W!SendPing, W!vars, ConnInv, ConnTypes, EndsClosed,
           Unbroken
  <2>2. UNCHANGED <<wire, buffer, accepted, writeChan, writer>>
    BY <1>1 DEF W!CloseSocket, W!HandlerCloses, W!SendPing, W!vars
  <2> QED  BY <2>1, <2>2, OrderKept DEF ConnInv
<1>2. ASSUME NEW p \in Producers, W!Check(p)
      PROVE  ConnInv'
  <2>1. next' \in [Producers -> Nat] /\ checked' \subseteq Producers
    <3>1. CASE closed
      <4>1. next' = [next EXCEPT ![p] = Batches[p] + 1] /\ checked' = checked
        BY <1>2, <3>1 DEF W!Check
      <4>2. Batches[p] + 1 \in Nat
        BY DEF ConnInv, W!SafeConnAssumption
      <4> QED  BY <4>1, <4>2 DEF ConnInv, ConnTypes
    <3>2. CASE ~closed
      BY <1>2, <3>2 DEF W!Check, ConnInv, ConnTypes
    <3> QED  BY <3>1, <3>2
  <2>2. ConnTypes' /\ EndsClosed'
    BY <1>2, <2>1 DEF W!Check, ConnInv, ConnTypes, EndsClosed, Unbroken
  <2> QED  BY <1>2, <2>2, OrderKept DEF W!Check, ConnInv
<1>3. ASSUME W!FlushFails \/ W!PingFails
      PROVE  ConnInv'
  <2>1. /\ W!StartClose /\ writer' = "ended"
        /\ UNCHANGED <<writeChan, next, checked, accepted, refused, buffer, wire>>
    BY <1>3 DEF W!FlushFails, W!PingFails, W!Ended
  <2>2. ConnTypes' /\ EndsClosed'
    BY <2>1, StartCloseCloses DEF ConnInv, ConnTypes, EndsClosed
  <2> QED  BY <2>1, <2>2, OrderKept DEF ConnInv
<1>4. ASSUME W!TakeFails
      PROVE  ConnInv'
  <2>1. /\ W!StartClose /\ writer' = "ended" /\ writeChan # <<>>
        /\ writeChan' = Tail(writeChan)
        /\ UNCHANGED <<next, checked, accepted, refused, buffer, wire>>
    BY <1>4 DEF W!TakeFails, W!Ended
  <2>2. /\ writeChan' \in Seq(Message \cup {W!Nil}) /\ Len(writeChan) \in Nat
        /\ Len(writeChan') = Len(writeChan) - 1
    BY <2>1, HeadTailProperties, LenProperties DEF ConnInv, ConnTypes
  <2>3. ConnTypes' /\ EndsClosed'
    BY <2>1, <2>2, StartCloseCloses DEF ConnInv, ConnTypes, EndsClosed, W!SafeConnAssumption
  <2> QED  BY <2>1, <2>3, OrderKept DEF ConnInv
<1> QED
  BY <1>1, <1>2, <1>3, <1>4, CloseQueuesInv, SendInv, DrainInv, FlushConnInv
     DEF W!Next, W!Close, W!WriteLoop

\* The invariant holds throughout.
LEMMA ConnInvariance == W!SafeConnAssumption /\ W!Spec => []ConnInv
  BY InitConnInv, NextConnInv, PTL DEF W!Spec

\* What the peer gets is a prefix of what was queued, in order and without a
\* gap, and the queue keeps to its capacity (SafeConn.writeLoop).
THEOREM PrefixCorrect == W!SafeConnAssumption /\ W!Spec => []W!WireIsPrefix
<1>1. ConnInv => W!TypeOK
  BY LenProperties, ElementOfSeq DEF ConnInv, ConnTypes, W!TypeOK, Message
<1>2. ConnInv => \E n \in 0 .. Len(accepted) : wire = SubSeq(accepted, 1, n)
  <2> SUFFICES ASSUME ConnInv
               PROVE  \E n \in 0 .. Len(accepted) : wire = SubSeq(accepted, 1, n)
    OBVIOUS
  <2>1. Len(wire) \in Nat /\ Len(buffer) \in Nat /\ Len(accepted) \in Nat
    BY LenProperties DEF ConnInv, ConnTypes
  <2>2. Len(wire) <= Len(accepted) /\ \A i \in 1 .. Len(wire) : wire[i] = accepted[i]
    BY <2>1 DEF ConnInv, InOrder, Written
  <2>3. /\ SubSeq(accepted, 1, Len(wire)) \in Seq(Message)
        /\ Len(SubSeq(accepted, 1, Len(wire))) = Len(wire)
        /\ \A i \in 1 .. Len(wire) : SubSeq(accepted, 1, Len(wire))[i] = accepted[i]
    BY <2>1, <2>2, SubSeqProperties, ElementOfSeq DEF ConnInv, ConnTypes
  <2>4. wire = SubSeq(accepted, 1, Len(wire))
    BY <2>2, <2>3, SeqEqual DEF ConnInv, ConnTypes
  <2>5. Len(wire) \in 0 .. Len(accepted)
    BY <2>1, <2>2
  <2> QED  BY <2>4, <2>5, Zenon
<1> QED  BY <1>1, <1>2, ConnInvariance, PTL DEF W!WireIsPrefix

\* No message is lost on a connection that goes on: a producer that finds no
\* room and a writer that ends have closed it (SafeConn.Close).
THEOREM LossCorrect == W!SafeConnAssumption /\ W!Spec => []W!LossCloses
<1>1. ConnInv => W!LossCloses
  BY DEF ConnInv, EndsClosed, W!LossCloses
<1> QED  BY <1>1, ConnInvariance, PTL

=============================================================================
