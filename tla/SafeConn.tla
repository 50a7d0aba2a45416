------------------------------ MODULE SafeConn ------------------------------
(***************************************************************************)
(* The sending side of one connection: producers put messages into the     *)
(* bounded writeChan without waiting, writeLoop encodes them into a        *)
(* buffer and flushes it, and Close may be called by either at any time.   *)
(* A producer is a BroadcastMappings or sendPexMessage call (one message)  *)
(* or a sendAllMappingsToConn call (one message for each batch).           *)
(***************************************************************************)
EXTENDS Naturals, Sequences

CONSTANTS
  Producers,
  Batches,     \* producer -> the number of its messages
  QueueSize,   \* capacity of writeChan (1024)
  MaxPings     \* bound on the pings that are sent before the end

ASSUME SafeConnAssumption ==
  /\ Batches \in [Producers -> Nat]
  /\ QueueSize \in Nat \ {0} /\ MaxPings \in Nat

VARIABLES
  writeChan,   \* messages <<producer, batch>>, or Nil
  next,        \* producer -> its next batch
  checked,     \* producers that have seen the connection open
  writer,      \* writeLoop: "select", "drain", "ended"
  buffer,      \* encoded, not flushed
  wire,        \* what the peer gets
  accepted,    \* every message that was put into writeChan
  refused,     \* some message was not
  closed,      \* sc.closed
  closer,      \* the one Close that runs: "none", "stored", "queued", "done"
  open,        \* the socket
  pings

vars == <<writeChan, next, checked, writer, buffer, wire, accepted, refused,
          closed, closer, open, pings>>

Nil == <<>>

-----------------------------------------------------------------------------
(* Close, under closeOnce *)

\* The first caller runs it: closed is set.
StartClose ==
  IF closer = "none" THEN closed' = TRUE /\ closer' = "stored"
                     ELSE UNCHANGED <<closed, closer>>

\* The writer is told, if there is room.
CloseQueues ==
  /\ closer = "stored"
  /\ closer' = "queued"
  /\ writeChan' = IF Len(writeChan) < QueueSize THEN Append(writeChan, Nil) ELSE writeChan
  /\ UNCHANGED <<next, checked, writer, buffer, wire, accepted, refused, closed,
                 open, pings>>

CloseSocket ==
  /\ closer = "queued"
  /\ closer' = "done"
  /\ open' = FALSE
  /\ UNCHANGED <<writeChan, next, checked, writer, buffer, wire, accepted, refused,
                 closed, pings>>

\* The handler returns: the peer is gone, or the tie-break or Close of the
\* manager ended the connection.
HandlerCloses ==
  /\ closer = "none"
  /\ StartClose
  /\ UNCHANGED <<writeChan, next, checked, writer, buffer, wire, accepted, refused,
                 open, pings>>

-----------------------------------------------------------------------------
(* BroadcastMappings, sendPexMessage, sendAllMappingsToConn *)

\* A producer looks at closed, and gives up if it is set.
Check(p) ==
  /\ p \notin checked
  /\ next[p] <= Batches[p]
  /\ IF closed
     THEN next' = [next EXCEPT ![p] = Batches[p] + 1] /\ UNCHANGED checked
     ELSE checked' = checked \cup {p} /\ UNCHANGED next
  /\ UNCHANGED <<writeChan, writer, buffer, wire, accepted, refused, closed, closer,
                 open, pings>>

\* Mutant of Send: a message that finds no room is dropped.
SendDrops(p) ==
  /\ p \in checked
  /\ checked' = checked \ {p}
  /\ IF Len(writeChan) < QueueSize
     THEN /\ writeChan' = Append(writeChan, <<p, next[p]>>)
          /\ accepted' = Append(accepted, <<p, next[p]>>)
          /\ UNCHANGED refused
     ELSE refused' = TRUE /\ UNCHANGED <<writeChan, accepted>>
  /\ next' = [next EXCEPT ![p] = @ + 1]
  /\ UNCHANGED <<writer, buffer, wire, open, closed, closer, pings>>

\* It queues the message; when there is no room it closes the connection.
Send(p) ==
  /\ p \in checked
  /\ checked' = checked \ {p}
  /\ IF Len(writeChan) < QueueSize
     THEN /\ writeChan' = Append(writeChan, <<p, next[p]>>)
          /\ accepted' = Append(accepted, <<p, next[p]>>)
          /\ next' = [next EXCEPT ![p] = @ + 1]
          /\ UNCHANGED <<refused, closed, closer>>
     ELSE /\ StartClose
          /\ refused' = TRUE
          /\ next' = [next EXCEPT ![p] = Batches[p] + 1]
          /\ UNCHANGED <<writeChan, accepted>>
  /\ UNCHANGED <<writer, buffer, wire, open, pings>>

-----------------------------------------------------------------------------
(* writeLoop *)

Ended == writer' = "ended" /\ UNCHANGED <<buffer, wire>>

\* Encode m: the buffer keeps it, or is full and spills to the socket.
Encode(m) ==
  \/ buffer' = Append(buffer, m) /\ UNCHANGED wire
  \/ open /\ wire' = wire \o buffer \o <<m>> /\ buffer' = <<>>

\* Mutant of Take: the queue is read from its end.
TakeLast ==
  /\ writer \in {"select", "drain"}
  /\ writeChan # <<>>
  /\ writeChan' = SubSeq(writeChan, 1, Len(writeChan) - 1)
  /\ IF writeChan[Len(writeChan)] = Nil THEN Ended
     ELSE Encode(writeChan[Len(writeChan)]) /\ writer' = "drain"
  /\ UNCHANGED <<next, checked, accepted, refused, closed, closer, open, pings>>

\* The next message is taken and encoded; nil ends the loop.
Take ==
  /\ writer \in {"select", "drain"}
  /\ writeChan # <<>>
  /\ writeChan' = Tail(writeChan)
  /\ IF Head(writeChan) = Nil THEN Ended
     ELSE Encode(Head(writeChan)) /\ writer' = "drain"
  /\ UNCHANGED <<next, checked, accepted, refused, closed, closer, open, pings>>

\* Encode fails when the buffer spills to a socket that is closed or stuck.
TakeFails ==
  /\ writer \in {"select", "drain"}
  /\ writeChan # <<>>
  /\ Head(writeChan) # Nil
  /\ writeChan' = Tail(writeChan)
  /\ StartClose
  /\ Ended
  /\ UNCHANGED <<next, checked, accepted, refused, open, pings>>

\* The queue is empty: the buffer is flushed.
Flush ==
  /\ writer = "drain"
  /\ writeChan = <<>>
  /\ open
  /\ wire' = wire \o buffer
  /\ buffer' = <<>>
  /\ writer' = "select"
  /\ UNCHANGED <<writeChan, next, checked, accepted, refused, closed, closer, open,
                 pings>>

\* The flush fails, or the peer takes nothing until the write deadline.
FlushFails ==
  /\ writer = "drain"
  /\ writeChan = <<>>
  /\ StartClose
  /\ Ended
  /\ UNCHANGED <<writeChan, next, checked, accepted, refused, open, pings>>

\* Every 30 s a ping is sent, when nothing else is.
SendPing ==
  /\ writer = "select"
  /\ open
  /\ pings < MaxPings
  /\ pings' = pings + 1
  /\ UNCHANGED <<writeChan, next, checked, writer, buffer, wire, accepted, refused,
                 closed,
                 closer, open>>

\* Mutant of PingFails: a failed ping is ignored.
PingFailsOn ==
  /\ writer = "select"
  /\ ~open
  /\ UNCHANGED vars

PingFails ==
  /\ writer = "select"
  /\ ~open
  /\ StartClose
  /\ Ended
  /\ UNCHANGED <<writeChan, next, checked, accepted, refused, open, pings>>

-----------------------------------------------------------------------------

Init ==
  /\ writeChan = <<>>
  /\ next = [p \in Producers |-> 1]
  /\ checked = {}
  /\ writer = "select"
  /\ buffer = <<>> /\ wire = <<>> /\ accepted = <<>>
  /\ refused = FALSE /\ closed = FALSE /\ closer = "none" /\ open = TRUE
  /\ pings = 0

Close == CloseQueues \/ CloseSocket
WriteLoop == Take \/ TakeFails \/ Flush \/ FlushFails \/ PingFails

Next ==
  \/ Close \/ HandlerCloses
  \/ \E p \in Producers : Check(p) \/ Send(p)
  \/ WriteLoop \/ SendPing

Spec == Init /\ [][Next]_vars

\* The goroutines run on; the ticker makes the writer look at a closed socket.
FairSpec ==
  /\ Spec
  /\ WF_vars(Close) /\ WF_vars(WriteLoop)
  /\ \A p \in Producers : WF_vars(Check(p) \/ Send(p))

-----------------------------------------------------------------------------
(* Properties *)

\* The queue never holds more than its capacity, and the writer is at one of
\* its places.
TypeOK ==
  /\ Len(writeChan) <= QueueSize
  /\ \A i \in DOMAIN writeChan : writeChan[i] = Nil \/ writeChan[i][1] \in Producers
  /\ writer \in {"select", "drain", "ended"}
  /\ closer \in {"none", "stored", "queued", "done"}
  /\ next \in [Producers -> Nat] /\ checked \subseteq Producers

\* The peer gets what was queued, in order and without a gap, up to the point
\* where the connection ends (writeLoop), and the queue keeps to its capacity
\* (TypeOK).
WireIsPrefix == TypeOK /\ \E n \in 0 .. Len(accepted) : wire = SubSeq(accepted, 1, n)

\* No message is lost on a connection that goes on: one that was not queued,
\* or was queued and will not be written, has closed it, so that the peers
\* connect again and send each other all they hold.
LossCloses ==
  /\ refused => closed
  /\ writer = "ended" /\ wire # accepted => closed

\* Once Close is called, the goroutine of the connection ends, also when the
\* queue had no room for the nil that tells it to.
WriterEnds == closed ~> writer = "ended"

=============================================================================
