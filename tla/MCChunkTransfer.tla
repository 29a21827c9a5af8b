-------------------------- MODULE MCChunkTransfer --------------------------
(***************************************************************************)
(* ChunkTransfer for TLC: the transfers share one sender and one           *)
(* idempotency key (the same model sent again to the same peer).           *)
(***************************************************************************)
EXTENDS ChunkTransfer, TLC

MCKey == [t \in Transfers |-> "key"]
MCSender == [t \in Transfers |-> "peer"]

\* Bounds of the run with several transfers: no good buffer expires, the receiver
\* forgets neither a chunk of a buffer or of a completed transfer nor a
\* completed transfer, and one sender at a time is in trouble.
MostlyCalm ==
    /\ discarded \subseteq Undecodable
    /\ \A t \in Transfers, i \in Chunks :
          i \in held[t] \/ t \in completed => <<t, i>> \in recent
    /\ \A t \in Transfers : Handovers(t) > 0 => t \in completed
    /\ Cardinality(expired \cup {t \in Transfers : due[t] # {}}) <= 1
=============================================================================
