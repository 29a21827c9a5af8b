--------------------------- MODULE ModelTransfer ---------------------------
(***************************************************************************)
(* What send_model_update promises its caller and the receiving            *)
(* aggregator: a model is handed over at most once, and only if it was     *)
(* sent; success is reported only for a model that has arrived complete,   *)
(* unless the receiver lost received data; a send is skipped only while    *)
(* the same model is on its way to the same peer.                          *)
(***************************************************************************)
CONSTANTS
    Transfers,      \* attempts to send a model
    Key             \* Key[t]: the model and the peer it goes to

VARIABLES
    send,           \* send[t]: what the caller of the send knows
    recv,           \* recv[t]: how far the model is at the receiver
    lost            \* transfers whose received data the receiver dropped

vars == <<send, recv, lost>>

TypeOK ==
    /\ send \in [Transfers -> {"idle", "sending", "ok", "failed", "skipped"}]
    /\ recv \in [Transfers -> {"absent", "arrived", "handed over"}]
    /\ lost \subseteq Transfers

Init ==
    /\ send = [t \in Transfers |-> "idle"]
    /\ recv = [t \in Transfers |-> "absent"]
    /\ lost = {}

Start(t) ==
    /\ send[t] = "idle"
    /\ send' = [send EXCEPT ![t] = "sending"]
    /\ UNCHANGED <<recv, lost>>

Skip(t) ==
    /\ send[t] = "idle"
    /\ \E u \in Transfers : Key[u] = Key[t] /\ send[u] = "sending"
    /\ send' = [send EXCEPT ![t] = "skipped"]
    /\ UNCHANGED <<recv, lost>>

Succeed(t) ==
    /\ send[t] = "sending"
    /\ recv[t] # "absent" \/ t \in lost
    /\ send' = [send EXCEPT ![t] = "ok"]
    /\ UNCHANGED <<recv, lost>>

Fail(t) ==
    /\ send[t] = "sending"
    /\ send' = [send EXCEPT ![t] = "failed"]
    /\ UNCHANGED <<recv, lost>>

\* The model may be completed after the sender has given up.
Arrive(t) ==
    /\ send[t] \in {"sending", "ok", "failed"}
    /\ recv[t] = "absent"
    /\ recv' = [recv EXCEPT ![t] = "arrived"]
    /\ UNCHANGED <<send, lost>>

HandOver(t) ==
    /\ recv[t] = "arrived"
    /\ recv' = [recv EXCEPT ![t] = "handed over"]
    /\ UNCHANGED <<send, lost>>

\* Chunks of the transfers T are dropped: their buffers are too old, or
\* their bytes cannot be decoded.
Drop(T) ==
    /\ \A t \in T : send[t] \in {"sending", "ok", "failed"}
    /\ lost' = lost \cup T
    /\ UNCHANGED <<send, recv>>

Next ==
    \/ \E t \in Transfers :
          \/ Start(t) \/ Skip(t) \/ Succeed(t) \/ Fail(t)
          \/ Arrive(t) \/ HandOver(t)
    \/ \E T \in SUBSET Transfers : Drop(T)

Spec == Init /\ [][Next]_vars
=============================================================================
