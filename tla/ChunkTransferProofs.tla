------------------------ MODULE ChunkTransferProofs ------------------------
(***************************************************************************)
(* Proofs about ChunkTransfer, for any number of transfers, chunks and     *)
(* packets and any values of the limits: a model is handed over at most    *)
(* once, success is never reported for a model that simply did not arrive, *)
(* and the protocol implements ModelTransfer.                              *)
(***************************************************************************)
EXTENDS ChunkTransfer, TLAPS

-----------------------------------------------------------------------------
(* The inductive invariant.                                                *)

\* Nothing exists of a transfer that was not started.
FreshInv ==
    \A t \in Transfers : phase[t] \in {"idle", "skipped"} =>
        /\ t \notin cache
        /\ \A m \in net : m.t # t
        /\ held[t] = {}
        /\ Handovers(t) = 0
        /\ t \notin completed \cup discarded

\* After the hand-over no buffer comes back: the transfer is remembered as
\* completed until nothing of it is under way any more.
HandoverInv ==
    \A t \in Transfers :
        /\ Handovers(t) # 0 =>
              /\ Handovers(t) = 1
              /\ held[t] = {}
              /\ t \in completed \/ Quiet(t)
        /\ t \in completed => Handovers(t) = 1

\* Until a transfer is handed over or loses data, what is acknowledged, at
\* the sender or in a packet, is in the receiver's buffer, which is never
\* complete between two handlers.
AckInv ==
    \A t \in Transfers :
        /\ held[t] # Chunks
        /\ t \notin discarded /\ Handovers(t) = 0 =>
              /\ acked[t] \subseteq held[t]
              /\ \A m \in net : m.type = "ack" /\ m.t = t => m.got \subseteq held[t]

IndInv ==
    /\ TypeOK
    /\ FreshInv
    /\ HandoverInv
    /\ AckInv
    /\ SuccessIsReal
    /\ KeyNamesRunning

-----------------------------------------------------------------------------
(* The network and the message constructors.                               *)

\* Sending adds no packet but the ones sent.
LEMMA SendAdds ==
    ASSUME NEW ms, Send(ms)
    PROVE  net' \subseteq net \cup ms
BY DEF Send, WithPackets

\* Receiving consumes a packet of the network and adds only the answer.
LEMMA ReceiveAdds ==
    ASSUME NEW m, NEW ms, Receive(m, ms)
    PROVE  m \in net /\ net' \subseteq net \cup ms
BY DEF Receive, WithPackets

\* The constructors build packets of the protocol.
LEMMA ConstructorTypes ==
    ASSUME NEW t \in Transfers
    PROVE  /\ \A i \in Chunks : Chunk(t, i) \in Messages
           /\ \A got \in SUBSET Chunks :
                 Ack(t, got) \in Messages /\ MissingReport(t, got) \in Messages
BY DEF Chunk, Ack, MissingReport, FirstMissing, Messages, ChunkMsg, AckMsg, NackMsg

\* What a handler finds in a packet of the network.
LEMMA PacketFields ==
    ASSUME NEW m \in Messages
    PROVE  /\ m.t \in Transfers
           /\ m.type = "chunk" => m.i \in Chunks
           /\ m.type = "ack" => m.got \in SUBSET Chunks
           /\ m.type = "nack" => m.missing \in SUBSET Chunks
BY DEF Messages, ChunkMsg, AckMsg, NackMsg

\* The fields of the packets the constructors build.
LEMMA ConstructorFields ==
    ASSUME NEW t, NEW i, NEW got
    PROVE  /\ Chunk(t, i).type = "chunk" /\ Chunk(t, i).t = t
           /\ Ack(t, got).type = "ack" /\ Ack(t, got).t = t /\ Ack(t, got).got = got
           /\ MissingReport(t, got).type = "nack" /\ MissingReport(t, got).t = t
BY DEF Chunk, Ack, MissingReport

-----------------------------------------------------------------------------
(* Type correctness.                                                       *)

\* Every key a transfer uses is a key of the registry.
LEMMA KeyOfTransfer == ASSUME NEW t \in Transfers PROVE Key[t] \in Keys
BY DEF Keys

\* Leaving the loop preserves the types of the sender's state.
LEMMA ReturnType ==
    ASSUME TypeOK, NEW t \in Transfers,
           NEW how \in {"ok", "failed"}, Return(t, how)
    PROVE  /\ phase' \in [Transfers -> Phases]
           /\ next' \in [Transfers -> 0 .. N]
           /\ acked' \in [Transfers -> SUBSET Chunks]
           /\ due' \in [Transfers -> SUBSET Chunks]
           /\ attempts' \in [Transfers -> [Chunks -> Nat]]
           /\ snap' \in [Transfers -> SUBSET Chunks]
           /\ expired' \subseteq Transfers
           /\ active' \subseteq Transfers
           /\ inflight' \in [Keys -> Transfers \cup {None}]
BY ConstantsAssumption, KeyOfTransfer DEF TypeOK, Return, KeyPopped, Phases

\* The type invariant is preserved by every step of the protocol.
LEMMA TypeStep ==
    ASSUME TypeOK, [Next]_vars
    PROVE  TypeOK'
<1> USE ConstantsAssumption
<1>1. ASSUME NEW t \in Transfers, StartTransfer(t) PROVE TypeOK'
  <2>1. CASE AlreadyInFlight(t)
    BY <1>1, <2>1 DEF TypeOK, StartTransfer, receiverVars, Phases
  <2>2. CASE ~AlreadyInFlight(t)
    <3>1. inflight' \in [Keys -> Transfers \cup {None}]
      <4>1. inflight' = [inflight EXCEPT ![Key[t]] = t]
        BY <1>1, <2>2 DEF StartTransfer
      <4> QED BY <4>1, KeyOfTransfer DEF TypeOK
    <3>2. phase' \in [Transfers -> Phases]
      BY <1>1, <2>2 DEF TypeOK, StartTransfer, Phases
    <3>3. cache' \subseteq Transfers /\ active' \subseteq Transfers
      BY <1>1, <2>2 DEF TypeOK, StartTransfer
    <3> QED BY <1>1, <3>1, <3>2, <3>3 DEF TypeOK, StartTransfer, receiverVars
  <2> QED BY <2>1, <2>2
<1>2. ASSUME NEW t \in Transfers, LoopTop(t) PROVE TypeOK'
  <2>1. CASE Return(t, "ok") \/ Return(t, "failed")
    BY <1>2, <2>1, ReturnType DEF TypeOK, LoopTop, receiverVars
  <2>2. CASE phase' = [phase EXCEPT ![t] = "retry"] /\ snap' = [snap EXCEPT ![t] = due[t]]
             /\ UNCHANGED <<next, acked, due, attempts, expired, active, inflight>>
    BY <1>2, <2>2 DEF TypeOK, LoopTop, receiverVars, Phases
  <2> QED BY <1>2, <2>1, <2>2 DEF LoopTop
<1>3. ASSUME NEW t \in Transfers, RetryStep(t) PROVE TypeOK'
  <2>1. PICK i \in snap[t] \ acked[t] :
             \/ Return(t, "failed") /\ UNCHANGED net
             \/ /\ attempts[t][i] < MaxAttempts
                /\ Send({Chunk(t, i)})
                /\ due' = [due EXCEPT ![t] = @ \ {i}]
                /\ attempts' = [attempts EXCEPT ![t][i] = @ + 1]
                /\ snap' = [snap EXCEPT ![t] = {j \in @ : j > i}]
                /\ UNCHANGED <<phase, next, acked, expired, active, inflight>>
    BY <1>3 DEF RetryStep
  <2>2. CASE Return(t, "failed") /\ UNCHANGED net
    BY <1>3, <2>2, ReturnType DEF TypeOK, RetryStep, receiverVars
  <2>3. CASE ~(Return(t, "failed") /\ UNCHANGED net)
    <3>1. i \in Chunks BY <2>1 DEF TypeOK
    <3>2. net' \subseteq Messages
      BY <2>1, <2>3, <3>1, SendAdds, ConstructorTypes DEF TypeOK
    <3>3. /\ due' = [due EXCEPT ![t] = due[t] \ {i}]
          /\ snap' = [snap EXCEPT ![t] = {j \in snap[t] : j > i}]
          /\ UNCHANGED <<phase, next, acked, expired, active, inflight>>
      BY <2>1, <2>3
    <3>5. due' \in [Transfers -> SUBSET Chunks]
      BY <3>3 DEF TypeOK
    <3>6. snap' \in [Transfers -> SUBSET Chunks]
      BY <3>3 DEF TypeOK
    <3>4. attempts' \in [Transfers -> [Chunks -> Nat]]
      BY <2>1, <2>3, <3>1 DEF TypeOK
    <3> QED BY <1>3, <3>2, <3>3, <3>4, <3>5, <3>6 DEF TypeOK, RetryStep, receiverVars
  <2> QED BY <2>2, <2>3
<1>4. ASSUME NEW t \in Transfers, RetryDone(t) PROVE TypeOK'
  BY <1>4 DEF TypeOK, RetryDone, receiverVars, Phases
<1>5. ASSUME NEW t \in Transfers, FillStep(t) PROVE TypeOK'
  <2>1. next[t] \in Chunks
    BY <1>5 DEF FillStep, WindowOpen, TypeOK, Chunks
  <2>2. net' \subseteq Messages
    BY <1>5, <2>1, SendAdds, ConstructorTypes DEF TypeOK, FillStep
  <2>3. next' \in [Transfers -> 0 .. N]
    BY <1>5, <2>1 DEF TypeOK, FillStep, Chunks
  <2> QED BY <1>5, <2>1, <2>2, <2>3 DEF TypeOK, FillStep, receiverVars
<1>6. ASSUME NEW t \in Transfers, FillDone(t) PROVE TypeOK'
  <2>1. CASE Return(t, "ok")
    BY <1>6, <2>1, ReturnType DEF TypeOK, FillDone, receiverVars
  <2>2. CASE ~Return(t, "ok")
    BY <1>6, <2>2 DEF TypeOK, FillDone, receiverVars, Phases
  <2> QED BY <2>1, <2>2
<1>7. ASSUME NEW t \in Transfers, Abort(t) PROVE TypeOK'
  BY <1>7, ReturnType DEF TypeOK, Abort, receiverVars
<1>8. ASSUME NEW t \in Transfers, DeadlinePasses(t) PROVE TypeOK'
  BY <1>8 DEF TypeOK, DeadlinePasses, receiverVars
<1>9. ASSUME NEW t \in Transfers, NEW i \in Chunks, AckOverdue(t, i) PROVE TypeOK'
  BY <1>9 DEF TypeOK, AckOverdue, receiverVars
<1>10. ASSUME NEW t \in Transfers, ProcessCompletedModel(t) PROVE TypeOK'
  BY <1>10 DEF TypeOK, ProcessCompletedModel, senderVars
<1>11. ASSUME NEW t \in Transfers, LocalRoundAdvances(t) PROVE TypeOK'
  BY <1>11 DEF TypeOK, LocalRoundAdvances, senderVars
<1>12. ASSUME NEW S \in SUBSET cache, CleanupOutgoingCache(S) PROVE TypeOK'
  BY <1>12 DEF TypeOK, CleanupOutgoingCache, receiverVars
<1>13. ASSUME NEW B \in SUBSET Buffered, NEW C \in SUBSET completed,
              NEW R \in SUBSET recent, CleanupStaleTransfers(B, C, R)
       PROVE  TypeOK'
  BY <1>13 DEF TypeOK, CleanupStaleTransfers, WithoutBuffers, senderVars, Buffered
<1>14. ASSUME NEW B \in SUBSET Buffered, NackIncompleteBuffers(B) PROVE TypeOK'
  <2>1. net' \subseteq Messages
    BY <1>14, SendAdds, ConstructorTypes DEF TypeOK, NackIncompleteBuffers, Buffered
  <2> QED BY <1>14, <2>1 DEF TypeOK, NackIncompleteBuffers, senderVars, receiverVars
<1>15. ASSUME NEW m \in net, OnModelChunk(m) PROVE TypeOK'
  <2> DEFINE got == held[m.t] \cup {m.i}
  <2>1. m.t \in Transfers /\ m.i \in Chunks /\ got \in SUBSET Chunks
    BY <1>15, PacketFields DEF OnModelChunk, TypeOK
  <2>2. CASE ChunkOfCompleted(m)
    <3>1. net' \subseteq Messages
      BY <2>1, <2>2, ReceiveAdds, ConstructorTypes DEF TypeOK, ChunkOfCompleted
    <3> QED BY <1>15, <2>2, <3>1 DEF TypeOK, OnModelChunk, ChunkOfCompleted,
                                     senderVars, receiverVars
  <2>3. CASE ChunkSeenBefore(m)
    <3>1. net' \subseteq Messages
      BY <2>1, <2>3, ReceiveAdds, ConstructorTypes DEF TypeOK, ChunkSeenBefore
    <3> QED BY <1>15, <2>3, <3>1 DEF TypeOK, OnModelChunk, ChunkSeenBefore,
                                     senderVars, receiverVars
  <2>4. CASE ChunkRejected(m)
    <3>1. net' \subseteq Messages
      BY <2>4, ReceiveAdds DEF TypeOK, ChunkRejected
    <3> QED BY <1>15, <2>1, <2>4, <3>1 DEF TypeOK, OnModelChunk, ChunkRejected,
                                           senderVars
  <2>5. CASE ChunkStored(m)
    <3>1. PICK out \in SUBSET {Ack(m.t, got), MissingReport(m.t, got)} :
               Receive(m, out)
      BY <2>5 DEF ChunkStored
    <3>2. Ack(m.t, got) \in Messages /\ MissingReport(m.t, got) \in Messages
      BY <2>1, ConstructorTypes
    <3>3. net' \subseteq net \cup out
      BY <3>1, ReceiveAdds
    <3>4. net' \subseteq Messages
      BY <3>2, <3>3 DEF TypeOK
    <3> QED BY <1>15, <2>1, <2>5, <3>4 DEF TypeOK, OnModelChunk, ChunkStored,
                                           senderVars
  <2>6. CASE ChunkCompletes(m)
    <3>1. net' \subseteq Messages
      BY <2>1, <2>6, ReceiveAdds, ConstructorTypes DEF TypeOK, ChunkCompletes
    <3>2. /\ held' \in [Transfers -> SUBSET Chunks]
          /\ recent' \subseteq Transfers \X Chunks
      BY <2>1, <2>6 DEF TypeOK, ChunkCompletes
    <3>3. CASE m.t \in Undecodable
      BY <1>15, <2>1, <2>6, <3>1, <3>2, <3>3
         DEF TypeOK, OnModelChunk, ChunkCompletes, senderVars
    <3>4. CASE m.t \notin Undecodable
      <4>1. completed' \subseteq Transfers /\ UNCHANGED <<ahead, delivered, discarded>>
        BY <2>1, <2>6, <3>4 DEF TypeOK, ChunkCompletes, MarkedCompleted
      <4>2. callbacks' \in [Transfers -> Nat]
        BY <2>1, <2>6, <3>4 DEF TypeOK, ChunkCompletes, CallbackScheduled
      <4> QED BY <1>15, <3>1, <3>2, <4>1, <4>2 DEF TypeOK, OnModelChunk, senderVars
    <3> QED BY <3>3, <3>4
  <2> QED BY <1>15, <2>2, <2>3, <2>4, <2>5, <2>6 DEF OnModelChunk
<1>16. ASSUME NEW m \in net, OnChunkAck(m) PROVE TypeOK'
  <2>1. m.t \in Transfers /\ m.got \in SUBSET Chunks /\ net' \subseteq net
    BY <1>16, PacketFields, ReceiveAdds DEF OnChunkAck, TypeOK
  <2> QED BY <1>16, <2>1 DEF TypeOK, OnChunkAck, receiverVars
<1>17. ASSUME NEW m \in net, OnRequestChunks(m) PROVE TypeOK'
  <2>1. m.t \in Transfers /\ m.missing \in SUBSET Chunks
    BY <1>17, PacketFields DEF OnRequestChunks, TypeOK
  <2>2. net' \subseteq Messages
    <3>1. PICK ms \in SUBSET {Chunk(m.t, i) : i \in Chunks} : Receive(m, ms)
      BY <1>17, <2>1 DEF OnRequestChunks, FirstMissing
    <3> QED BY <2>1, <3>1, ReceiveAdds, ConstructorTypes DEF TypeOK
  <2>3. Marked(m) \subseteq Chunks
    BY <2>1 DEF Marked, FirstMissing
  <2>4. /\ due' \in [Transfers -> SUBSET Chunks]
        /\ attempts' \in [Transfers -> [Chunks -> Nat]]
    <3>1. CASE UNCHANGED <<due, attempts>>
      BY <3>1 DEF TypeOK
    <3>2. CASE ~UNCHANGED <<due, attempts>>
      <4>1. due' = [due EXCEPT ![m.t] = @ \cup Marked(m)]
        BY <1>17, <3>2 DEF OnRequestChunks
      <4>2. attempts' = [attempts EXCEPT ![m.t] =
                [i \in Chunks |-> IF i \in Marked(m) THEN 0 ELSE @[i]]]
        BY <1>17, <3>2 DEF OnRequestChunks
      <4>3. due' \in [Transfers -> SUBSET Chunks]
        BY <2>1, <2>3, <4>1 DEF TypeOK
      <4>4. attempts' \in [Transfers -> [Chunks -> Nat]]
        BY <2>1, <4>2 DEF TypeOK
      <4> QED BY <4>3, <4>4
    <3> QED BY <3>1, <3>2
  <2> QED BY <1>17, <2>2, <2>4 DEF TypeOK, OnRequestChunks, receiverVars
<1>18. ASSUME NEW m \in net, Lose(m) PROVE TypeOK'
  BY <1>18 DEF TypeOK, Lose, senderVars, receiverVars
<1>19. CASE UNCHANGED vars
  BY <1>19 DEF TypeOK, vars, senderVars, receiverVars
<1> QED
  BY <1>1, <1>2, <1>3, <1>4, <1>5, <1>6, <1>7, <1>8, <1>9, <1>10, <1>11, <1>12,
     <1>13, <1>14, <1>15, <1>16, <1>17, <1>18, <1>19
     DEF Next, SenderStep, Handle

-----------------------------------------------------------------------------
(* What a step may touch.                                                  *)

\* A step of the sending coroutine of t, or of its timers: the receiver does
\* not notice, t was running, only chunks of t are sent, and the loop is left
\* as "ok" only with every chunk acknowledged.
SenderMoves(t) ==
    \/ SenderStep(t) \/ Abort(t) \/ DeadlinePasses(t)
    \/ \E i \in Chunks : AckOverdue(t, i)

SenderEffect(t) ==
    /\ phase[t] \in Running
    /\ phase'[t] \in Running \cup {"ok", "failed"}
    /\ \A u \in Transfers \ {t} : phase'[u] = phase[u]
    /\ phase'[t] = "ok" => acked[t] = Chunks
    /\ \A u \in Transfers : acked'[u] \subseteq acked[u]
    /\ \A p \in net' : p \in net \/ (p.type = "chunk" /\ p.t = t)
    /\ \/ phase'[t] \in Running /\ UNCHANGED <<active, inflight>>
       \/ active' = active \ {t} /\ inflight' = KeyPopped(t)
    /\ UNCHANGED <<cache, receiverVars>>

\* Leaving the loop has that effect.
LEMMA ReturnEffect ==
    ASSUME TypeOK, NEW t \in Transfers, phase[t] \in Running,
           NEW how \in {"ok", "failed"}, Return(t, how),
           how = "ok" => acked[t] = Chunks,
           UNCHANGED <<cache, net, receiverVars>>
    PROVE  SenderEffect(t)
BY DEF TypeOK, Return, SenderEffect

\* So have all steps of the sender.
LEMMA SenderMovesEffect ==
    ASSUME TypeOK, NEW t \in Transfers, SenderMoves(t)
    PROVE  SenderEffect(t)
<1> USE DEF Running
<1>1. CASE LoopTop(t)
  <2>1. CASE Return(t, "ok") /\ AllAcked(t)
    BY <1>1, <2>1, ReturnEffect DEF LoopTop, AllAcked
  <2>2. CASE Return(t, "failed")
    BY <1>1, <2>2, ReturnEffect DEF LoopTop
  <2>3. CASE phase' = [phase EXCEPT ![t] = "retry"]
             /\ UNCHANGED <<next, acked, due, attempts, expired, active, inflight>>
    BY <1>1, <2>3 DEF LoopTop, SenderEffect, TypeOK
  <2> QED BY <1>1, <2>1, <2>2, <2>3 DEF LoopTop
<1>2. CASE RetryStep(t)
  <2>1. CASE Return(t, "failed") /\ UNCHANGED net
    BY <1>2, <2>1, ReturnEffect DEF RetryStep
  <2>2. CASE ~(Return(t, "failed") /\ UNCHANGED net)
    <3>1. PICK i : Send({Chunk(t, i)})
                   /\ UNCHANGED <<phase, next, acked, expired, active, inflight>>
      BY <1>2, <2>2 DEF RetryStep
    <3>2. \A p \in net' : p \in net \/ (p.type = "chunk" /\ p.t = t)
      BY <3>1, SendAdds, ConstructorFields
    <3> QED BY <1>2, <3>1, <3>2 DEF RetryStep, SenderEffect
  <2> QED BY <2>1, <2>2
<1>3. CASE RetryDone(t)
  BY <1>3 DEF RetryDone, SenderEffect, TypeOK
<1>4. CASE FillStep(t)
  <2>1. \A p \in net' : p \in net \/ (p.type = "chunk" /\ p.t = t)
    BY <1>4, SendAdds, ConstructorFields DEF FillStep
  <2> QED BY <1>4, <2>1 DEF FillStep, SenderEffect
<1>5. CASE FillDone(t)
  <2>1. CASE Return(t, "ok") /\ AllAcked(t)
    BY <1>5, <2>1, ReturnEffect DEF FillDone, AllAcked
  <2>2. CASE ~(Return(t, "ok") /\ AllAcked(t))
    BY <1>5, <2>2 DEF FillDone, SenderEffect, TypeOK
  <2> QED BY <2>1, <2>2
<1>6. CASE Abort(t)
  BY <1>6, ReturnEffect DEF Abort
<1>7. CASE DeadlinePasses(t) \/ \E i \in Chunks : AckOverdue(t, i)
  BY <1>7 DEF DeadlinePasses, AckOverdue, SenderEffect
<1> QED BY <1>1, <1>2, <1>3, <1>4, <1>5, <1>6, <1>7 DEF SenderMoves, SenderStep

\* Handling a chunk of m.t touches nothing of another transfer.
ChunkEffect(m) ==
    /\ m.t \in Transfers /\ m.i \in Chunks
    /\ \A p \in net' : p \in net \/ p.t = m.t
    /\ \A u \in Transfers \ {m.t} :
          /\ held'[u] = held[u]
          /\ callbacks'[u] = callbacks[u]
          /\ u \in completed' <=> u \in completed
          /\ u \in discarded' <=> u \in discarded
    /\ UNCHANGED <<senderVars, delivered>>

\* So do all branches of on_model_chunk.
LEMMA OnModelChunkEffect ==
    ASSUME TypeOK, NEW m \in net, OnModelChunk(m)
    PROVE  ChunkEffect(m)
<1>1. m.t \in Transfers /\ m.i \in Chunks
  BY PacketFields DEF OnModelChunk, TypeOK
<1>2. CASE ChunkOfCompleted(m)
  BY <1>1, <1>2, ReceiveAdds, ConstructorFields
     DEF OnModelChunk, ChunkOfCompleted, ChunkEffect, receiverVars
<1>3. CASE ChunkSeenBefore(m)
  <2>1. \A p \in net' : p \in net \/ p.t = m.t
    BY <1>3, ReceiveAdds, ConstructorFields DEF ChunkSeenBefore
  <2> QED BY <1>1, <1>3, <2>1 DEF OnModelChunk, ChunkSeenBefore, ChunkEffect, receiverVars
<1>4. CASE ChunkRejected(m)
  BY <1>1, <1>4, ReceiveAdds DEF OnModelChunk, ChunkRejected, ChunkEffect
<1>5. CASE ChunkStored(m)
  <2>1. \A p \in net' : p \in net \/ p.t = m.t
    BY <1>5, ReceiveAdds, ConstructorFields DEF ChunkStored
  <2> QED BY <1>1, <1>5, <2>1 DEF OnModelChunk, ChunkStored, ChunkEffect, TypeOK
<1>6. CASE ChunkCompletes(m)
  <2>1. \A p \in net' : p \in net \/ p.t = m.t
    BY <1>6, ReceiveAdds, ConstructorFields DEF ChunkCompletes
  <2>2. \A u \in Transfers \ {m.t} : callbacks'[u] = callbacks[u]
    BY <1>1, <1>6 DEF ChunkCompletes, CallbackScheduled, TypeOK
  <2> QED BY <1>1, <1>6, <2>1, <2>2
          DEF OnModelChunk, ChunkCompletes, MarkedCompleted, ChunkEffect, TypeOK
<1> QED BY <1>2, <1>3, <1>4, <1>5, <1>6 DEF OnModelChunk

\* The sender's handlers answer only with chunks of the packet's transfer.
LEMMA SenderHandlerEffect ==
    ASSUME TypeOK, NEW m \in net, OnChunkAck(m) \/ OnRequestChunks(m)
    PROVE  /\ m.t \in Transfers
           /\ \A p \in net' : p \in net \/ (p.type = "chunk" /\ p.t = m.t)
           /\ UNCHANGED <<phase, active, inflight, cache, receiverVars>>
<1>1. m.t \in Transfers
  BY PacketFields DEF TypeOK
<1>2. CASE OnChunkAck(m)
  BY <1>1, <1>2, ReceiveAdds DEF OnChunkAck
<1>3. CASE OnRequestChunks(m)
  <2>1. PICK sub : Receive(m, {Chunk(m.t, i) : i \in sub}) \/ Receive(m, {})
    BY <1>3 DEF OnRequestChunks
  <2>2. \A p \in net' : p \in net \/ (p.type = "chunk" /\ p.t = m.t)
    BY <2>1, ReceiveAdds, ConstructorFields
  <2> QED BY <1>1, <1>3, <2>2 DEF OnRequestChunks
<1> QED BY <1>2, <1>3

\* The early reports are about buffered transfers.
LEMMA NackEffect ==
    ASSUME TypeOK, NEW B \in SUBSET Buffered, NackIncompleteBuffers(B)
    PROVE  \A p \in net' : p \in net \/ (p.type = "nack" /\ p.t \in Buffered)
BY SendAdds, ConstructorFields DEF NackIncompleteBuffers

-----------------------------------------------------------------------------
(* The parts of the invariant are preserved.                               *)

\* Packets, buffers and cache entries appear only after the start.
LEMMA FreshStep ==
    ASSUME TypeOK, FreshInv, [Next]_vars
    PROVE  FreshInv'
<1>1. ASSUME NEW t \in Transfers, StartTransfer(t) PROVE FreshInv'
  BY <1>1 DEF FreshInv, StartTransfer, receiverVars, TypeOK, Handovers
<1>2. ASSUME NEW t \in Transfers, SenderMoves(t) PROVE FreshInv'
  BY <1>2, SenderMovesEffect DEF SenderEffect, FreshInv, receiverVars, Handovers, Running
<1>3. ASSUME NEW t \in Transfers, ProcessCompletedModel(t) PROVE FreshInv'
  <2>1. callbacks[t] # 0 /\ Handovers(t) # 0
    BY <1>3 DEF ProcessCompletedModel, Handovers, TypeOK
  <2>2. \A u \in Transfers \ {t} : Handovers(u)' = Handovers(u)
    BY <1>3 DEF ProcessCompletedModel, Handovers, TypeOK
  <2> QED BY <1>3, <2>1, <2>2 DEF ProcessCompletedModel, FreshInv, senderVars
<1>4. ASSUME NEW t \in Transfers, LocalRoundAdvances(t) PROVE FreshInv'
  BY <1>4 DEF LocalRoundAdvances, FreshInv, senderVars, Handovers
<1>5. ASSUME NEW S \in SUBSET cache, CleanupOutgoingCache(S) PROVE FreshInv'
  BY <1>5 DEF CleanupOutgoingCache, FreshInv, receiverVars, Handovers
<1>6. ASSUME NEW B \in SUBSET Buffered, NEW C \in SUBSET completed,
             NEW R \in SUBSET recent, CleanupStaleTransfers(B, C, R)
      PROVE  FreshInv'
  BY <1>6 DEF CleanupStaleTransfers, WithoutBuffers, Buffered, FreshInv, senderVars,
              Handovers
<1>7. ASSUME NEW B \in SUBSET Buffered, NackIncompleteBuffers(B) PROVE FreshInv'
  BY <1>7, NackEffect DEF NackIncompleteBuffers, Buffered, FreshInv, senderVars,
                          receiverVars, Handovers
<1>8. ASSUME NEW m \in net, OnModelChunk(m) PROVE FreshInv'
  BY <1>8, OnModelChunkEffect DEF ChunkEffect, FreshInv, senderVars, Handovers
<1>9. ASSUME NEW m \in net, OnChunkAck(m) \/ OnRequestChunks(m) PROVE FreshInv'
  BY <1>9, SenderHandlerEffect DEF FreshInv, receiverVars, Handovers
<1>10. ASSUME NEW m \in net, Lose(m) PROVE FreshInv'
  BY <1>10 DEF Lose, FreshInv, senderVars, receiverVars, Handovers
<1>11. CASE UNCHANGED vars
  BY <1>11 DEF FreshInv, vars, senderVars, receiverVars, Handovers
<1> QED
  BY <1>1, <1>2, <1>3, <1>4, <1>5, <1>6, <1>7, <1>8, <1>9, <1>10, <1>11
     DEF Next, SenderMoves, Handle

\* A chunk of a transfer that was handed over finds it completed: it is in
\* the network, so the transfer is not quiet.
LEMMA HandoverStep ==
    ASSUME TypeOK, HandoverInv, [Next]_vars
    PROVE  HandoverInv'
<1> USE DEF Quiet
<1>1. ASSUME NEW t \in Transfers, StartTransfer(t) PROVE HandoverInv'
  BY <1>1 DEF HandoverInv, StartTransfer, receiverVars, TypeOK, Handovers, Running
<1>2. ASSUME NEW t \in Transfers, SenderMoves(t) PROVE HandoverInv'
  BY <1>2, SenderMovesEffect
     DEF SenderEffect, HandoverInv, receiverVars, Handovers, Running
<1>3. ASSUME NEW t \in Transfers, ProcessCompletedModel(t) PROVE HandoverInv'
  <2>1. \A u \in Transfers : Handovers(u)' = Handovers(u)
    BY <1>3 DEF ProcessCompletedModel, Handovers, TypeOK
  <2> QED BY <1>3, <2>1 DEF ProcessCompletedModel, HandoverInv, senderVars
<1>4. ASSUME NEW t \in Transfers, LocalRoundAdvances(t) PROVE HandoverInv'
  BY <1>4 DEF LocalRoundAdvances, HandoverInv, senderVars, Handovers
<1>5. ASSUME NEW S \in SUBSET cache, CleanupOutgoingCache(S) PROVE HandoverInv'
  BY <1>5 DEF CleanupOutgoingCache, HandoverInv, receiverVars, Handovers
<1>6. ASSUME NEW B \in SUBSET Buffered, NEW C \in SUBSET completed,
             NEW R \in SUBSET recent, CleanupStaleTransfers(B, C, R)
      PROVE  HandoverInv'
  BY <1>6 DEF CleanupStaleTransfers, WithoutBuffers, Buffered, HandoverInv,
              senderVars, Handovers
<1>7. ASSUME NEW B \in SUBSET Buffered, NackIncompleteBuffers(B) PROVE HandoverInv'
  BY <1>7, NackEffect DEF NackIncompleteBuffers, Buffered, HandoverInv, senderVars,
                          receiverVars, Handovers
<1>8. ASSUME NEW m \in net, OnModelChunk(m) PROVE HandoverInv'
  <2>1. ChunkEffect(m)
    BY <1>8, OnModelChunkEffect
  <2>2. ~Quiet(m.t)
    BY <1>8
  <2>3. CASE ~ChunkStored(m) /\ ~ChunkCompletes(m)
    BY <1>8, <2>1, <2>2, <2>3
       DEF OnModelChunk, ChunkOfCompleted, ChunkSeenBefore, ChunkRejected,
           ChunkEffect, HandoverInv, Handovers, receiverVars, senderVars
  <2>4. CASE ChunkStored(m)
    <3>1. Handovers(m.t) = 0 /\ m.t \notin completed
      BY <2>1, <2>2, <2>4 DEF ChunkStored, HandoverInv, ChunkEffect
    <3>2. UNCHANGED <<completed, callbacks, delivered>>
      BY <2>4 DEF ChunkStored
    <3> QED BY <2>1, <3>1, <3>2 DEF ChunkEffect, HandoverInv, Handovers, senderVars
  <2>5. CASE ChunkCompletes(m)
    <3>1. Handovers(m.t) = 0 /\ m.t \notin completed
      BY <2>1, <2>2, <2>5 DEF ChunkCompletes, HandoverInv, ChunkEffect
    <3>2. held'[m.t] = {}
      BY <2>1, <2>5 DEF ChunkCompletes, ChunkEffect, TypeOK
    <3>3. CASE m.t \in Undecodable
      <4>1. UNCHANGED <<completed, callbacks, delivered>>
        BY <2>5, <3>3 DEF ChunkCompletes
      <4> QED BY <2>1, <3>1, <4>1 DEF ChunkEffect, HandoverInv, Handovers, senderVars
    <3>4. CASE m.t \notin Undecodable
      <4>1. completed' = completed \cup {m.t}
        BY <2>5, <3>4 DEF ChunkCompletes, MarkedCompleted
      <4>2. Handovers(m.t)' = 1
        BY <2>1, <2>5, <3>1, <3>4
           DEF ChunkCompletes, CallbackScheduled, Handovers, TypeOK, ChunkEffect
      <4> QED BY <2>1, <3>2, <4>1, <4>2 DEF ChunkEffect, HandoverInv, Handovers, senderVars
    <3> QED BY <3>3, <3>4
  <2> QED BY <2>3, <2>4, <2>5
<1>9. ASSUME NEW m \in net, OnChunkAck(m) \/ OnRequestChunks(m) PROVE HandoverInv'
  BY <1>9, SenderHandlerEffect DEF HandoverInv, receiverVars, Handovers
<1>10. ASSUME NEW m \in net, Lose(m) PROVE HandoverInv'
  BY <1>10 DEF Lose, HandoverInv, senderVars, receiverVars, Handovers
<1>11. CASE UNCHANGED vars
  BY <1>11 DEF HandoverInv, vars, senderVars, receiverVars, Handovers
<1> QED
  BY <1>1, <1>2, <1>3, <1>4, <1>5, <1>6, <1>7, <1>8, <1>9, <1>10, <1>11
     DEF Next, SenderMoves, Handle

\* Acknowledgements describe the buffer, which only grows until it is handed
\* over or discarded.
LEMMA AckStep ==
    ASSUME TypeOK, FreshInv, HandoverInv, AckInv, [Next]_vars
    PROVE  AckInv'
<1>1. ASSUME NEW t \in Transfers, StartTransfer(t) PROVE AckInv'
  BY <1>1 DEF AckInv, StartTransfer, receiverVars, Handovers
<1>2. ASSUME NEW t \in Transfers, SenderMoves(t) PROVE AckInv'
  BY <1>2, SenderMovesEffect DEF SenderEffect, AckInv, receiverVars, Handovers
<1>3. ASSUME NEW t \in Transfers, ProcessCompletedModel(t) PROVE AckInv'
  <2>1. \A u \in Transfers : Handovers(u)' = Handovers(u)
    BY <1>3 DEF ProcessCompletedModel, Handovers, TypeOK
  <2> QED BY <1>3, <2>1 DEF ProcessCompletedModel, AckInv, senderVars
<1>4. ASSUME NEW t \in Transfers, LocalRoundAdvances(t) PROVE AckInv'
  BY <1>4 DEF LocalRoundAdvances, AckInv, senderVars, Handovers
<1>5. ASSUME NEW S \in SUBSET cache, CleanupOutgoingCache(S) PROVE AckInv'
  BY <1>5 DEF CleanupOutgoingCache, AckInv, receiverVars, Handovers
<1>6. ASSUME NEW B \in SUBSET Buffered, NEW C \in SUBSET completed,
             NEW R \in SUBSET recent, CleanupStaleTransfers(B, C, R)
      PROVE  AckInv'
  <2>1. Chunks # {} BY ConstantsAssumption DEF Chunks
  <2> QED BY <1>6, <2>1 DEF CleanupStaleTransfers, WithoutBuffers, Buffered, AckInv,
                            senderVars, Handovers
<1>7. ASSUME NEW B \in SUBSET Buffered, NackIncompleteBuffers(B) PROVE AckInv'
  BY <1>7, NackEffect DEF NackIncompleteBuffers, AckInv, senderVars, receiverVars,
                          Handovers
<1>8. ASSUME NEW m \in net, OnModelChunk(m) PROVE AckInv'
  <2> DEFINE t == m.t
             got == held[t] \cup {m.i}
  <2>1. ChunkEffect(m)
    BY <1>8, OnModelChunkEffect
  <2>2. UNCHANGED <<acked, delivered>> /\ t \in Transfers
    BY <2>1 DEF ChunkEffect, senderVars
  <2>3. SUFFICES /\ held'[t] # Chunks
                 /\ t \notin discarded' /\ Handovers(t)' = 0 =>
                      /\ acked[t] \subseteq held'[t]
                      /\ \A p \in net' : p.type = "ack" /\ p.t = t
                                              => p.got \subseteq held'[t]
    BY <2>1, <2>2 DEF ChunkEffect, AckInv, Handovers
  <2>4. CASE ChunkOfCompleted(m)
    BY <2>2, <2>4 DEF ChunkOfCompleted, HandoverInv, AckInv, Handovers, receiverVars
  <2>5. CASE ChunkSeenBefore(m)
    <3>1. \A p \in net' : p \in net \/ p = Ack(t, held[t])
      BY <2>5, ReceiveAdds DEF ChunkSeenBefore
    <3> QED BY <2>2, <2>5, <3>1, ConstructorFields
            DEF ChunkSeenBefore, AckInv, Handovers, receiverVars
  <2>6. CASE ChunkRejected(m)
    BY <2>2, <2>6, ReceiveAdds DEF ChunkRejected, AckInv, Handovers
  <2>7. CASE ChunkStored(m)
    <3>1. \A p \in net' : p \in net \/ p = Ack(t, got) \/ p = MissingReport(t, got)
      BY <2>7, ReceiveAdds DEF ChunkStored
    <3>2. held'[t] = got /\ got # Chunks
      BY <2>2, <2>7 DEF ChunkStored, TypeOK
    <3>3. UNCHANGED <<callbacks, discarded>>
      BY <2>7 DEF ChunkStored
    <3> QED BY <2>2, <3>1, <3>2, <3>3, ConstructorFields DEF AckInv, Handovers
  <2>8. CASE ChunkCompletes(m)
    <3>1. held'[t] = {} /\ Chunks # {}
      BY <2>2, <2>8, ConstantsAssumption DEF ChunkCompletes, TypeOK, Chunks
    <3>2. CASE t \in Undecodable
      BY <2>8, <3>1, <3>2 DEF ChunkCompletes
    <3>3. CASE t \notin Undecodable
      <4>1. Handovers(t)' # 0
        BY <2>2, <2>8, <3>3
           DEF ChunkCompletes, CallbackScheduled, Handovers, TypeOK
      <4> QED BY <3>1, <4>1
    <3> QED BY <3>2, <3>3
  <2> QED BY <1>8, <2>4, <2>5, <2>6, <2>7, <2>8 DEF OnModelChunk
<1>9. ASSUME NEW m \in net, OnChunkAck(m) PROVE AckInv'
  <2>1. /\ m.t \in Transfers /\ net' \subseteq net /\ UNCHANGED receiverVars
    BY <1>9, SenderHandlerEffect, ReceiveAdds DEF OnChunkAck
  <2>2. \A u \in Transfers :
           acked'[u] \subseteq acked[u] \cup {i \in m.got : u = m.t}
    BY <1>9, <2>1 DEF OnChunkAck, TypeOK
  <2> QED BY <1>9, <2>1, <2>2 DEF OnChunkAck, AckInv, Handovers, receiverVars
<1>10. ASSUME NEW m \in net, OnRequestChunks(m) PROVE AckInv'
  <2>1. acked' = acked
    BY <1>10 DEF OnRequestChunks
  <2> QED BY <1>10, <2>1, SenderHandlerEffect DEF AckInv, receiverVars, Handovers
<1>11. ASSUME NEW m \in net, Lose(m) PROVE AckInv'
  BY <1>11 DEF Lose, AckInv, senderVars, receiverVars, Handovers
<1>12. CASE UNCHANGED vars
  BY <1>12 DEF AckInv, vars, senderVars, receiverVars, Handovers
<1> QED
  BY <1>1, <1>2, <1>3, <1>4, <1>5, <1>6, <1>7, <1>8, <1>9, <1>10, <1>11, <1>12
     DEF Next, SenderMoves, Handle

\* The hand-over and the loss of data are never undone.
LEMMA Monotone ==
    ASSUME TypeOK, HandoverInv, [Next]_vars
    PROVE  /\ \A t \in Transfers : Handovers(t) # 0 => Handovers(t)' # 0
           /\ discarded \subseteq discarded'
<1>1. ASSUME NEW m \in net, OnModelChunk(m)
      PROVE  /\ \A t \in Transfers : Handovers(t) # 0 => Handovers(t)' # 0
             /\ discarded \subseteq discarded'
  <2>1. ChunkEffect(m)
    BY <1>1, OnModelChunkEffect
  <2>2. callbacks'[m.t] \in {callbacks[m.t], callbacks[m.t] + 1}
    BY <1>1, <2>1 DEF OnModelChunk, ChunkOfCompleted, ChunkSeenBefore, ChunkRejected,
                ChunkStored, ChunkCompletes, CallbackScheduled, receiverVars, TypeOK,
                ChunkEffect
  <2>3. discarded \subseteq discarded'
    BY <1>1 DEF OnModelChunk, ChunkOfCompleted, ChunkSeenBefore, ChunkRejected,
                ChunkStored, ChunkCompletes, receiverVars
  <2>4. Handovers(m.t) # 0 => Handovers(m.t)' # 0
    BY <2>1, <2>2 DEF ChunkEffect, Handovers, TypeOK
  <2> QED BY <2>1, <2>3, <2>4 DEF ChunkEffect, Handovers
<1>2. ASSUME NEW t \in Transfers, ProcessCompletedModel(t)
      PROVE  /\ \A u \in Transfers : Handovers(u)' = Handovers(u)
             /\ UNCHANGED discarded
  BY <1>2 DEF ProcessCompletedModel, Handovers, TypeOK
<1>3. CASE \E t \in Transfers : SenderMoves(t)
  BY <1>3, SenderMovesEffect DEF SenderEffect, receiverVars, Handovers
<1>4. CASE \E m \in net : OnChunkAck(m) \/ OnRequestChunks(m)
  BY <1>4, SenderHandlerEffect DEF receiverVars, Handovers
<1>5. CASE \E t \in Transfers : StartTransfer(t) \/ LocalRoundAdvances(t)
  BY <1>5 DEF StartTransfer, LocalRoundAdvances, receiverVars, Handovers
<1>6. CASE \/ \E S \in SUBSET cache : CleanupOutgoingCache(S)
           \/ \E B \in SUBSET Buffered, C \in SUBSET completed, R \in SUBSET recent :
                 CleanupStaleTransfers(B, C, R)
           \/ \E B \in SUBSET Buffered : NackIncompleteBuffers(B)
           \/ \E m \in net : Lose(m)
           \/ UNCHANGED vars
  BY <1>6 DEF CleanupOutgoingCache, CleanupStaleTransfers, NackIncompleteBuffers, Lose,
              vars, receiverVars, Handovers
<1> QED BY <1>1, <1>2, <1>3, <1>4, <1>5, <1>6 DEF Next, SenderMoves, Handle

\* A transfer becomes "ok" only in a step of its sender, with every chunk
\* acknowledged.
LEMMA OkNeedsAcks ==
    ASSUME TypeOK, [Next]_vars, NEW t \in Transfers, phase'[t] = "ok", phase[t] # "ok"
    PROVE  acked[t] = Chunks /\ phase[t] \in Running
<1>1. CASE \E u \in Transfers : SenderMoves(u)
  BY <1>1, SenderMovesEffect DEF SenderEffect
<1>2. CASE \E u \in Transfers : StartTransfer(u)
  BY <1>2 DEF StartTransfer, TypeOK
<1>3. CASE UNCHANGED phase
  BY <1>3
<1> QED
  BY <1>1, <1>2, <1>3, OnModelChunkEffect, SenderHandlerEffect
     DEF Next, SenderMoves, Handle, ProcessCompletedModel, LocalRoundAdvances,
         CleanupOutgoingCache, CleanupStaleTransfers, NackIncompleteBuffers, Lose,
         vars, senderVars, ChunkEffect

\* Success needs every acknowledgement, so a buffer that held every chunk.
LEMMA SuccessStep ==
    ASSUME TypeOK, HandoverInv, AckInv, SuccessIsReal, HandoverInv', [Next]_vars
    PROVE  SuccessIsReal'
<1> SUFFICES ASSUME NEW t \in Transfers, phase'[t] = "ok"
             PROVE  Handovers(t)' = 1 \/ t \in discarded'
  BY DEF SuccessIsReal
<1>1. Handovers(t) # 0 \/ t \in discarded
  <2>1. CASE phase[t] = "ok"
    BY <2>1 DEF SuccessIsReal
  <2>2. CASE phase[t] # "ok"
    <3>1. acked[t] = Chunks
      BY <2>2, OkNeedsAcks
    <3>2. held[t] \subseteq Chunks /\ held[t] # Chunks
      BY DEF AckInv, TypeOK
    <3> QED BY <3>1, <3>2 DEF AckInv
  <2> QED BY <2>1, <2>2
<1>2. Handovers(t)' # 0 => Handovers(t)' = 1
  BY DEF HandoverInv
<1> QED BY <1>1, <1>2, Monotone

\* A key is registered by the sender it names and popped before that sender
\* is forgotten.
LEMMA KeyStep ==
    ASSUME TypeOK, KeyNamesRunning, [Next]_vars
    PROVE  KeyNamesRunning'
<1> USE DEF Running
<1>1. ASSUME NEW t \in Transfers, StartTransfer(t) PROVE KeyNamesRunning'
  <2>1. CASE UNCHANGED <<active, inflight>> /\ phase' = [phase EXCEPT ![t] = "skipped"]
    <3>1. \A k \in Keys : inflight[k] # None => inflight[k] \in Transfers \ {t}
      BY <1>1 DEF StartTransfer, KeyNamesRunning, TypeOK
    <3> QED BY <2>1, <3>1 DEF KeyNamesRunning, TypeOK
  <2>2. CASE /\ phase' = [phase EXCEPT ![t] = "top"]
             /\ inflight' = [inflight EXCEPT ![Key[t]] = t]
             /\ active' = active \cup {t}
    <3>1. \A k \in Keys : inflight[k] # None => inflight[k] \in Transfers
      BY DEF TypeOK
    <3>2. ASSUME NEW k \in Keys, inflight'[k] # None
          PROVE  /\ phase'[inflight'[k]] \in Running
                 /\ Key[inflight'[k]] = k
                 /\ inflight'[k] \in active'
      <4>1. CASE k = Key[t]
        BY <2>2, <4>1 DEF TypeOK
      <4>2. CASE k # Key[t]
        <5>1. inflight'[k] = inflight[k]
          BY <2>2, <4>2 DEF TypeOK
        <5> QED BY <2>2, <3>1, <3>2, <5>1 DEF TypeOK, KeyNamesRunning
      <4> QED BY <4>1, <4>2
    <3> QED BY <3>2 DEF KeyNamesRunning
  <2> QED BY <1>1, <2>1, <2>2 DEF StartTransfer
<1>2. ASSUME NEW t \in Transfers, SenderMoves(t) PROVE KeyNamesRunning'
  <2>1. SenderEffect(t)
    BY <1>2, SenderMovesEffect
  <2>2. \A k \in Keys : inflight[k] # None => inflight[k] \in Transfers
    BY DEF TypeOK
  <2>3. CASE phase'[t] \in Running /\ UNCHANGED <<active, inflight>>
    BY <2>1, <2>2, <2>3 DEF SenderEffect, KeyNamesRunning
  <2>4. CASE active' = active \ {t} /\ inflight' = KeyPopped(t)
    <3>1. \A k \in Keys : inflight'[k] = IF k = Key[t] THEN None ELSE inflight[k]
      BY <2>4 DEF KeyPopped, TypeOK
    <3> QED BY <2>1, <2>2, <2>4, <3>1 DEF SenderEffect, KeyNamesRunning
  <2> QED BY <2>1, <2>3, <2>4 DEF SenderEffect
<1>3. ASSUME NEW S \in SUBSET cache, CleanupOutgoingCache(S) PROVE KeyNamesRunning'
  <2>1. \A k \in Keys : inflight'[k] = IF inflight[k] \in cache' THEN inflight[k] ELSE None
    BY <1>3 DEF CleanupOutgoingCache
  <2> QED BY <1>3, <2>1 DEF CleanupOutgoingCache, KeyNamesRunning
<1>4. CASE UNCHANGED <<phase, active, inflight>>
  BY <1>4 DEF KeyNamesRunning
<1> QED
  BY <1>1, <1>2, <1>3, <1>4, OnModelChunkEffect, SenderHandlerEffect
     DEF Next, SenderMoves, Handle, ProcessCompletedModel, LocalRoundAdvances,
         CleanupStaleTransfers, NackIncompleteBuffers, Lose, vars, senderVars,
         ChunkEffect

-----------------------------------------------------------------------------
(* The theorems.                                                           *)

\* The invariant holds initially.
LEMMA InitInv == Init => IndInv
<1> SUFFICES ASSUME Init PROVE IndInv
  OBVIOUS
<1> USE ConstantsAssumption
<1>1. TypeOK
  BY DEF Init, TypeOK, Phases
<1>2. FreshInv /\ HandoverInv /\ SuccessIsReal
  BY DEF Init, FreshInv, HandoverInv, SuccessIsReal, Handovers
<1>3. AckInv
  <2>1. 0 \in Chunks BY DEF Chunks
  <2> QED BY <2>1 DEF Init, AckInv
<1>4. KeyNamesRunning
  BY DEF Init, KeyNamesRunning
<1> QED BY <1>1, <1>2, <1>3, <1>4 DEF IndInv

\* Every step preserves it.
LEMMA NextInv == IndInv /\ [Next]_vars => IndInv'
BY TypeStep, FreshStep, HandoverStep, AckStep, SuccessStep, KeyStep DEF IndInv

\* The inductive invariant holds in every reachable state.
THEOREM Invariance == Spec => []IndInv
BY InitInv, NextInv, PTL DEF Spec

\* The state of the protocol is well typed.
THEOREM TypeCorrect == Spec => []TypeOK
<1>1. IndInv => TypeOK BY DEF IndInv
<1> QED BY <1>1, Invariance, PTL

\* A model is handed to the aggregator at most once.
THEOREM DeliveredAtMostOnce == Spec => []AtMostOnce
<1>1. IndInv => AtMostOnce
  BY DEF IndInv, HandoverInv, AtMostOnce
<1> QED BY <1>1, Invariance, PTL

\* A reported success stands for a model that arrived, unless the receiver
\* discarded received chunks.
THEOREM NoFalseSuccess == Spec => []SuccessIsReal
<1>1. IndInv => SuccessIsReal BY DEF IndInv
<1> QED BY <1>1, Invariance, PTL

\* An idempotency key names a transfer that is being sent.
THEOREM KeysNameRunning == Spec => []KeyNamesRunning
<1>1. IndInv => KeyNamesRunning BY DEF IndInv
<1> QED BY <1>1, Invariance, PTL

-----------------------------------------------------------------------------
(* The protocol implements ModelTransfer.                                  *)

SendMap == [t \in Transfers |->
                IF phase[t] \in Running THEN "sending" ELSE phase[t]]
RecvMap == [t \in Transfers |->
                IF delivered[t] > 0 THEN "handed over"
                ELSE IF callbacks[t] > 0 THEN "arrived" ELSE "absent"]

\* Every step is a step of ModelTransfer or leaves its variables alone.
LEMMA RefineStep ==
    ASSUME IndInv, IndInv', [Next]_vars
    PROVE  [Promise!Next]_(Promise!vars)
<1> USE DEF IndInv, Running
<1>1. ASSUME NEW t \in Transfers, StartTransfer(t)
      PROVE  Promise!Start(t) \/ Promise!Skip(t)
  <2>1. UNCHANGED <<RecvMap, discarded>>
    BY <1>1 DEF StartTransfer, receiverVars, RecvMap
  <2>2. CASE AlreadyInFlight(t) /\ phase' = [phase EXCEPT ![t] = "skipped"]
    <3>1. \E u \in Transfers : Key[u] = Key[t] /\ SendMap[u] = "sending"
      <4>1. PICK u \in cache : inflight[Key[t]] = u
        BY <2>2 DEF AlreadyInFlight
      <4>2. u \in Transfers /\ u # None
        BY ConstantsAssumption DEF TypeOK
      <4>3. phase[u] \in Running /\ Key[u] = Key[t]
        BY <4>1, <4>2, KeyOfTransfer DEF KeyNamesRunning
      <4> QED BY <4>2, <4>3 DEF SendMap
    <3>2. SendMap[t] = "idle" /\ SendMap' = [SendMap EXCEPT ![t] = "skipped"]
      BY <1>1, <2>2 DEF StartTransfer, SendMap, TypeOK
    <3> QED BY <2>1, <3>1, <3>2 DEF Promise!Skip, SendMap, RecvMap
  <2>3. CASE phase' = [phase EXCEPT ![t] = "top"]
    <3>1. SendMap[t] = "idle" /\ SendMap' = [SendMap EXCEPT ![t] = "sending"]
      BY <1>1, <2>3 DEF StartTransfer, SendMap, TypeOK
    <3> QED BY <2>1, <3>1 DEF Promise!Start, SendMap, RecvMap
  <2> QED BY <1>1, <2>2, <2>3 DEF StartTransfer
<1>2. ASSUME NEW t \in Transfers, SenderMoves(t)
      PROVE  Promise!Succeed(t) \/ Promise!Fail(t) \/ UNCHANGED Promise!vars
  <2>1. SenderEffect(t)
    BY <1>2, SenderMovesEffect
  <2>2. UNCHANGED <<RecvMap, discarded>> /\ SendMap[t] = "sending"
    BY <2>1 DEF SenderEffect, receiverVars, RecvMap, SendMap
  <2>3. CASE phase'[t] \in Running
    <3>1. SendMap' = SendMap
      BY <2>1, <2>3 DEF SenderEffect, SendMap
    <3> QED BY <2>2, <3>1 DEF Promise!vars, SendMap, RecvMap
  <2>4. CASE phase'[t] = "failed"
    <3>1. SendMap' = [SendMap EXCEPT ![t] = "failed"]
      BY <2>1, <2>4 DEF SenderEffect, SendMap
    <3> QED BY <2>2, <3>1 DEF Promise!Fail, SendMap, RecvMap
  <2>5. CASE phase'[t] = "ok"
    <3>1. SendMap' = [SendMap EXCEPT ![t] = "ok"]
      BY <2>1, <2>5 DEF SenderEffect, SendMap
    <3>2. Handovers(t)' = 1 \/ t \in discarded
      BY <2>2, <2>5 DEF SuccessIsReal
    <3>3. RecvMap[t] # "absent" \/ t \in discarded
      BY <2>1, <3>2 DEF RecvMap, Handovers, SenderEffect, receiverVars, TypeOK
    <3> QED BY <2>2, <3>1, <3>3 DEF Promise!Succeed, SendMap, RecvMap
  <2> QED BY <2>1, <2>3, <2>4, <2>5 DEF SenderEffect
<1>3. ASSUME NEW t \in Transfers, ProcessCompletedModel(t)
      PROVE  Promise!HandOver(t)
  <2>1. callbacks[t] = 1 /\ delivered[t] = 0
    <3>1. callbacks[t] \in Nat /\ delivered[t] \in Nat /\ callbacks[t] > 0
      BY <1>3 DEF ProcessCompletedModel, TypeOK
    <3>2. callbacks[t] + delivered[t] = 1
      BY <3>1 DEF HandoverInv, Handovers
    <3> QED BY <3>1, <3>2
  <2>2. RecvMap[t] = "arrived" /\ RecvMap' = [RecvMap EXCEPT ![t] = "handed over"]
    <3>1. delivered'[t] = 1 /\ \A u \in Transfers \ {t} :
                              delivered'[u] = delivered[u] /\ callbacks'[u] = callbacks[u]
      BY <1>3, <2>1 DEF ProcessCompletedModel, TypeOK
    <3>2. RecvMap[t] = "arrived" /\ RecvMap'[t] = "handed over"
      BY <2>1, <3>1 DEF RecvMap
    <3>3. \A u \in Transfers \ {t} : RecvMap'[u] = RecvMap[u]
      BY <3>1 DEF RecvMap
    <3>4. RecvMap' = [u \in Transfers |-> RecvMap'[u]]
          /\ RecvMap = [u \in Transfers |-> RecvMap[u]]
      BY DEF RecvMap
    <3> QED BY <3>2, <3>3, <3>4
  <2>3. UNCHANGED <<SendMap, discarded>>
    BY <1>3 DEF ProcessCompletedModel, SendMap, senderVars
  <2> QED BY <2>2, <2>3 DEF Promise!HandOver, SendMap, RecvMap
<1>4. ASSUME NEW B \in SUBSET Buffered, NEW C \in SUBSET completed,
             NEW R \in SUBSET recent, CleanupStaleTransfers(B, C, R)
      PROVE  Promise!Drop(B)
  <2>1. \A t \in B : SendMap[t] \in {"sending", "ok", "failed"}
    BY DEF Buffered, FreshInv, TypeOK, Phases, SendMap
  <2>2. UNCHANGED <<SendMap, RecvMap>> /\ discarded' = discarded \cup B
    BY <1>4 DEF CleanupStaleTransfers, SendMap, RecvMap, senderVars
  <2> QED BY <2>1, <2>2 DEF Promise!Drop, SendMap, RecvMap
<1>5. ASSUME NEW m \in net, OnModelChunk(m)
      PROVE  Promise!Arrive(m.t) \/ Promise!Drop({m.t}) \/ UNCHANGED Promise!vars
  <2>1. ChunkEffect(m)
    BY <1>5, OnModelChunkEffect
  <2>2. SendMap' = SendMap /\ SendMap[m.t] \in {"sending", "ok", "failed"}
    BY <2>1 DEF ChunkEffect, FreshInv, TypeOK, Phases, SendMap, senderVars
  <2>3. CASE ~ChunkCompletes(m)
    <3>1. UNCHANGED <<callbacks, delivered, discarded>>
      BY <1>5, <2>3 DEF OnModelChunk, ChunkOfCompleted, ChunkSeenBefore,
                        ChunkRejected, ChunkStored, receiverVars
    <3>2. RecvMap' = RecvMap
      BY <3>1 DEF RecvMap
    <3> QED BY <2>2, <3>1, <3>2 DEF Promise!vars, SendMap, RecvMap
  <2>4. CASE ChunkCompletes(m) /\ m.t \in Undecodable
    <3>1. UNCHANGED <<callbacks, delivered>> /\ discarded' = discarded \cup {m.t}
      BY <2>4 DEF ChunkCompletes
    <3>2. RecvMap' = RecvMap
      BY <3>1 DEF RecvMap
    <3> QED BY <2>2, <3>1, <3>2 DEF Promise!Drop, SendMap, RecvMap
  <2>5. CASE ChunkCompletes(m) /\ m.t \notin Undecodable
    <3>1. callbacks[m.t] = 0 /\ delivered[m.t] = 0
      <4>1. m.t \in Transfers /\ m.t \notin completed /\ ~Quiet(m.t)
        BY <2>1, <2>5 DEF ChunkCompletes, Quiet, ChunkEffect
      <4>2. callbacks[m.t] \in Nat /\ delivered[m.t] \in Nat
        BY <4>1 DEF TypeOK
      <4>3. callbacks[m.t] + delivered[m.t] = 0
        BY <4>1 DEF HandoverInv, Handovers
      <4> QED BY <4>2, <4>3
    <3>2. /\ callbacks' = [callbacks EXCEPT ![m.t] = callbacks[m.t] + 1]
          /\ UNCHANGED <<delivered, discarded>>
      BY <2>5 DEF ChunkCompletes, CallbackScheduled
    <3>3. RecvMap[m.t] = "absent" /\ RecvMap' = [RecvMap EXCEPT ![m.t] = "arrived"]
      <4>1. m.t \in Transfers /\ callbacks'[m.t] = 1 /\ delivered' = delivered
        BY <2>1, <3>1, <3>2 DEF TypeOK, ChunkEffect
      <4>2. \A u \in Transfers \ {m.t} : callbacks'[u] = callbacks[u]
        BY <2>1 DEF ChunkEffect
      <4>3. RecvMap[m.t] = "absent" /\ RecvMap'[m.t] = "arrived"
        <5>1. \A t \in Transfers : delivered[t] = 0 /\ callbacks[t] = 0
                                     => RecvMap[t] = "absent"
          BY DEF RecvMap
        <5>2. \A t \in Transfers : delivered'[t] = 0 /\ callbacks'[t] = 1
                                     => RecvMap'[t] = "arrived"
          BY DEF RecvMap
        <5> QED BY <3>1, <4>1, <5>1, <5>2
      <4>4. \A u \in Transfers \ {m.t} : RecvMap'[u] = RecvMap[u]
        BY <4>1, <4>2 DEF RecvMap
      <4>5. RecvMap' = [u \in Transfers |-> RecvMap'[u]]
            /\ RecvMap = [u \in Transfers |-> RecvMap[u]]
        BY DEF RecvMap
      <4> QED BY <4>3, <4>4, <4>5
    <3> QED BY <2>2, <3>2, <3>3 DEF Promise!Arrive, SendMap, RecvMap
  <2> QED BY <2>3, <2>4, <2>5
<1>6. CASE UNCHANGED <<phase, callbacks, delivered, discarded>>
  BY <1>6 DEF Promise!vars
<1>7. ASSUME NEW m \in net, OnChunkAck(m) \/ OnRequestChunks(m)
      PROVE  UNCHANGED <<phase, callbacks, delivered, discarded>>
  BY <1>7, SenderHandlerEffect DEF receiverVars
<1>8. ASSUME \/ \E t \in Transfers : LocalRoundAdvances(t)
             \/ \E S \in SUBSET cache : CleanupOutgoingCache(S)
             \/ \E B \in SUBSET Buffered : NackIncompleteBuffers(B)
             \/ \E m \in net : Lose(m)
             \/ UNCHANGED vars
      PROVE  UNCHANGED <<phase, callbacks, delivered, discarded>>
  BY <1>8 DEF LocalRoundAdvances, CleanupOutgoingCache, NackIncompleteBuffers, Lose,
              vars, senderVars, receiverVars
<1>9. \A B \in SUBSET Buffered : B \in SUBSET Transfers
  BY DEF Buffered
<1>10. \A m \in net : m.t \in Transfers
  BY PacketFields DEF TypeOK
<1>11. CASE \E t \in Transfers : StartTransfer(t) \/ SenderMoves(t)
                                 \/ ProcessCompletedModel(t)
  BY <1>1, <1>2, <1>3, <1>11 DEF Promise!Next
<1>12. CASE \E B \in SUBSET Buffered, C \in SUBSET completed, R \in SUBSET recent :
              CleanupStaleTransfers(B, C, R)
  BY <1>4, <1>9, <1>12 DEF Promise!Next
<1>13. CASE \E m \in net : OnModelChunk(m)
  BY <1>5, <1>10, <1>13 DEF Promise!Next
<1> QED
  BY <1>6, <1>7, <1>8, <1>11, <1>12, <1>13 DEF Next, SenderMoves, Handle

\* The windowed, acknowledged, cached and deduplicated transfer keeps the
\* promise of ModelTransfer.
THEOREM Refinement == Spec => KeepsPromise
<1>1. Init => Promise!Init
  BY DEF Init, Promise!Init, Running
<1>2. IndInv /\ IndInv' /\ [Next]_vars => [Promise!Next]_(Promise!vars)
  BY RefineStep
<1> QED BY <1>1, <1>2, Invariance, PTL DEF Spec, KeepsPromise, Promise!Spec
=============================================================================
