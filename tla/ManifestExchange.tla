-------------------------- MODULE ManifestExchange --------------------------
(***************************************************************************)
(* Fetching a manifest from peers by its hash.  A server splits the bytes  *)
(* it has registered into chunks and sends each in a datagram of its own;  *)
(* the client collects the chunks of its current request, whatever their   *)
(* order and however often they come, and verifies the whole.  Datagrams   *)
(* are lost, delayed, repeated and reordered.                              *)
(*                                                                         *)
(* The message handlers around the assembler, the registry and the rate    *)
(* limiter are not part of the repository (manifest_exchange.py describes  *)
(* them): Request, Serve and the filter of Receive stand for them.         *)
(***************************************************************************)
EXTENDS Naturals, Sequences, SequencesExt

CONSTANTS
    Servers,      \* peers asked for the manifest
    Manifest,     \* the canonical bytes whose hash is the swarm id
    Others,       \* other bytes a server may have registered under that id
    ChunkSize,    \* CHUNK_DATA_SIZE
    RateLimit,    \* requests a server takes from one peer ...
    RateWindow,   \* ... within this time
    MaxNonce,     \* bound: requests of the client
    MaxClock,     \* bound: the servers' clock
    MaxUpdates    \* bound: registrations

ASSUME ExchangeAssumption ==
    /\ \A c \in Others \cup {Manifest} : c \in Seq(0..255) /\ c # <<>>
    /\ Manifest \notin Others
    /\ ChunkSize \in Nat \ {0} /\ RateLimit \in Nat \ {0} /\ RateWindow \in Nat \ {0}

VARIABLES
    registry,   \* _by_id of each server, for this swarm id; <<>>: not there
    history,    \* _history of each server, for this client
    clock,      \* time.monotonic
    updates,    \* registrations so far
    net,        \* datagrams that are or were under way
    asm,        \* the ManifestAssembler of the current request
    status,     \* of the current request
    sources     \* history: what was served under the current nonce

xVars == <<registry, history, clock, updates, net, asm, status, sources>>

Contents == {Manifest} \cup Others

\* chunk_manifest_bytes
Pieces(c) ==
    [i \in 1..((Len(c) + ChunkSize - 1) \div ChunkSize) |->
        SubSeq(c, (i - 1) * ChunkSize + 1,
               IF i * ChunkSize < Len(c) THEN i * ChunkSize ELSE Len(c))]

\* A fresh ManifestAssembler for a nonce
Assembler(n) == [nonce |-> n, total |-> 0, chunks |-> <<>>]

XInit ==
    /\ registry = [s \in Servers |-> <<>>] /\ history = [s \in Servers |-> <<>>]
    /\ clock = 0 /\ updates = 0 /\ net = {} /\ asm = Assembler(0)
    /\ status = "idle" /\ sources = {}

-----------------------------------------------------------------------------
(* The servers.                                                              *)

\* register, or register_bytes, which trusts its caller about the hash
Register(s, c) ==
    /\ updates < MaxUpdates
    /\ updates' = updates + 1
    /\ registry' = [registry EXCEPT ![s] = c]
    /\ UNCHANGED <<history, clock, net, asm, status, sources>>

\* allow drops the stale entries at the front first
Bucket(s) ==
    LET first == SelectInSeq(history[s], LAMBDA t : t + RateWindow >= clock)
    IN IF first = 0 THEN <<>> ELSE SubSeq(history[s], first, Len(history[s]))

Allowed(s) == Len(Bucket(s)) < RateLimit

\* The replies to the request m: the chunks of what is registered, or a refusal
Chunks(m, c) ==
    {[type |-> "chunk", server |-> m.server, nonce |-> m.nonce,
      index |-> i, total |-> Len(Pieces(c)), data |-> Pieces(c)[i]] : i \in DOMAIN Pieces(c)}
Nack(m) == [type |-> "nack", server |-> m.server, nonce |-> m.nonce]

\* The handler of a request, which may come more than once
Serve(m) ==
    /\ m \in net /\ m.type = "request"
    /\ LET s == m.server
           c == registry[s]
       IN IF ~Allowed(s)
          THEN /\ net' = net \cup {Nack(m)}
               /\ history' = [history EXCEPT ![s] = Bucket(s)]
               /\ UNCHANGED sources
          ELSE /\ history' = [history EXCEPT ![s] = Append(Bucket(s), clock)]
               /\ net' = net \cup IF c = <<>> THEN {Nack(m)} ELSE Chunks(m, c)
               /\ sources' = IF m.nonce = asm.nonce /\ c # <<>> THEN sources \cup {c}
                             ELSE sources
    /\ UNCHANGED <<registry, clock, updates, asm, status>>

-----------------------------------------------------------------------------
(* The client.                                                               *)

\* A request under a new nonce, with an assembler of its own
Request(s) ==
    /\ status # "waiting" /\ status # "loaded" /\ asm.nonce < MaxNonce
    /\ asm' = Assembler(asm.nonce + 1)
    /\ status' = "waiting" /\ sources' = {}
    /\ net' = net \cup {[type |-> "request", server |-> s, nonce |-> asm.nonce + 1]}
    /\ UNCHANGED <<registry, history, clock, updates>>

\* Mutant: a chunk that is already there counts as contradictory.
RefusesRepeats(m) ==
    \/ asm.total \notin {0, m.total}
    \/ m.index > m.total
    \/ m.index \in DOMAIN asm.chunks

\* add_chunk raises: another total, an index out of range, or other data
Inconsistent(m) ==
    \/ asm.total \notin {0, m.total}
    \/ m.index > m.total
    \/ m.index \in DOMAIN asm.chunks /\ asm.chunks[m.index] # m.data

\* add_chunk accepts; the total of the first chunk stays
AddChunk(m) ==
    [nonce |-> asm.nonce, total |-> m.total,
     chunks |-> [i \in DOMAIN asm.chunks \cup {m.index} |->
                    IF i = m.index THEN m.data ELSE asm.chunks[i]]]

IsComplete(a) == a.total # 0 /\ DOMAIN a.chunks = 1..a.total

\* assemble_and_verify: the chunks in order of their index, compared by hash
Assembled(a) == FlattenSeq([i \in 1..a.total |-> a.chunks[i]])
Verified(a) == Assembled(a) = Manifest

\* A reply to the current request; others are dropped.  The loader checks the
\* hash of what it was handed once more before it parses it.
Receive(m) ==
    /\ m \in net /\ status = "waiting"
    /\ m.type # "request" /\ m.nonce = asm.nonce
    /\ \/ /\ m.type = "nack"
          /\ status' = "refused" /\ UNCHANGED asm
       \/ /\ m.type = "chunk" /\ Inconsistent(m)
          /\ status' = "inconsistent" /\ UNCHANGED asm
       \/ /\ m.type = "chunk" /\ ~Inconsistent(m)
          /\ asm' = AddChunk(m)
          /\ status' = IF ~IsComplete(AddChunk(m)) THEN "waiting"
                       ELSE IF Verified(AddChunk(m)) THEN "loaded" ELSE "mismatch"
    /\ UNCHANGED <<registry, history, clock, updates, net, sources>>

\* The budget of the exchange is used up; late chunks no longer count
Timeout ==
    /\ status = "waiting"
    /\ status' = "timeout"
    /\ UNCHANGED <<registry, history, clock, updates, net, asm, sources>>

Pass ==
    /\ clock < MaxClock
    /\ clock' = clock + 1
    /\ UNCHANGED <<registry, history, updates, net, asm, status, sources>>

XNext ==
    \/ \E s \in Servers, c \in Contents : Register(s, c)
    \/ \E s \in Servers : Request(s)
    \/ \E m \in net : Serve(m) \/ Receive(m)
    \/ Timeout \/ Pass

XSpec == XInit /\ [][XNext]_xVars

-----------------------------------------------------------------------------
(* Properties.                                                               *)

\* What the network does to the datagrams never fails an exchange: add_chunk
\* and assemble_and_verify raise only when the bytes served under this nonce
\* were not always the manifest's.  And however chunks of several contents are
\* mixed under one nonce, what is loaded is the manifest, every byte in place.
ExchangeSound ==
    /\ status \in {"inconsistent", "mismatch"} => \E c \in sources : c # Manifest
    /\ status = "loaded" => Assembled(asm) = Manifest
    /\ \A s \in Servers : Len(history[s]) <= RateLimit
=============================================================================
