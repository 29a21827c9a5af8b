----------------------- MODULE ModelAggregatorProofs -----------------------
(***************************************************************************)
(* Proofs about ModelAggregator, for any number of peers, calls of         *)
(* run_continuous and suspended handlers and any values of the limits: one *)
(* loop and one aggregation at a time, no update merged twice or lost by a *)
(* failed round, and a bound on the queue that failing aggregations cannot *)
(* exceed.                                                                 *)
(***************************************************************************)
EXTENDS ModelAggregator, TLAPS

-----------------------------------------------------------------------------
(* The inductive invariant.                                                *)

\* The re-entry flag stands for the one loop that runs rounds.
LoopInv ==
    /\ OneLoop
    /\ active <=> \E l \in Loops : InMain(l)

\* _aggregating stands for the one aggregation under way; no other loop has
\* a drained batch.
AggregationInv ==
    /\ OneAggregation
    /\ aggregating <=> \E l \in Loops : Aggregates(l)
    /\ \A l \in Loops : ~Aggregates(l) => batch[l] = <<>>

\* An update is in one place: its handler, the queue, a batch or the model.
PlacesInv ==
    /\ handlers \subseteq seen /\ merged \subseteq seen
    /\ \A u \in Entries(pending) : u \in seen /\ u \notin handlers /\ u \notin merged
    /\ \A l \in Loops : \A u \in Entries(batch[l]) :
          /\ u \in seen /\ u \notin handlers /\ u \notin merged
          /\ u \notin Entries(pending)
    /\ \A u \in handlers : u \notin merged

\* What n failures in a row may have left in the queue.
Backlog(n) == MaxPending * (n + 1)

\* Only a failed aggregation lets the queue grow past max_pending_updates,
\* once per failure; a complete round has drained it again.
BacklogInv ==
    /\ \A l \in Loops :
          /\ pc[l] \in {"train", "send", "wait", "backoff"} =>
                Len(pending) <= Backlog(errors[l])
          /\ pc[l] \in {"snapshot", "aggregate", "apply"} =>
                Len(batch[l]) <= Backlog(errors[l]) /\ Len(pending) <= MaxPending
          /\ pc[l] \in {"post", "final"} => Len(pending) <= MaxPending
    /\ (\A l \in Loops : ~InMain(l)) => Len(pending) <= MaxPending

IndInv ==
    /\ TypeOK
    /\ LoopInv
    /\ AggregationInv
    /\ PlacesInv
    /\ BacklogInv

-----------------------------------------------------------------------------
(* Queues and the backlog.                                                 *)

LEMMA EntriesOfEmpty == Entries(<<>>) = {}
BY DEF Entries

LEMMA EntriesOfAppend ==
    ASSUME NEW q \in Seq(Updates), NEW u \in Updates
    PROVE  /\ Append(q, u) \in Seq(Updates)
           /\ Len(Append(q, u)) = Len(q) + 1
           /\ Entries(Append(q, u)) = Entries(q) \cup {u}
<1>1. Append(q, u) \in Seq(Updates) /\ Len(Append(q, u)) = Len(q) + 1
  OBVIOUS
<1>2. ASSUME NEW v PROVE v \in Entries(Append(q, u)) <=> v \in Entries(q) \cup {u}
  <2>1. CASE v = u
    <3>1. Append(q, u)[Len(q) + 1] = u /\ Len(q) + 1 \in DOMAIN Append(q, u)
      OBVIOUS
    <3> QED BY <2>1, <3>1 DEF Entries
  <2>2. CASE v # u
    <3>1. \A k \in DOMAIN q : k \in DOMAIN Append(q, u) /\ Append(q, u)[k] = q[k]
      OBVIOUS
    <3>2. \A k \in DOMAIN Append(q, u) : k \in DOMAIN q \/ Append(q, u)[k] = u
      OBVIOUS
    <3> QED BY <2>2, <3>1, <3>2 DEF Entries
  <2> QED BY <2>1, <2>2
<1> QED BY <1>1, <1>2

LEMMA EntriesOfConcat ==
    ASSUME NEW b \in Seq(Updates), NEW q \in Seq(Updates)
    PROVE  /\ b \o q \in Seq(Updates)
           /\ Len(b \o q) = Len(b) + Len(q)
           /\ Entries(b \o q) \subseteq Entries(b) \cup Entries(q)
<1>1. b \o q \in Seq(Updates) /\ Len(b \o q) = Len(b) + Len(q)
  OBVIOUS
<1>2. ASSUME NEW k \in DOMAIN (b \o q)
      PROVE  (b \o q)[k] \in Entries(b) \cup Entries(q)
  <2>1. CASE k <= Len(b)
    <3>1. k \in DOMAIN b /\ (b \o q)[k] = b[k] BY <2>1
    <3> QED BY <3>1 DEF Entries
  <2>2. CASE k > Len(b)
    <3>1. k - Len(b) \in DOMAIN q /\ (b \o q)[k] = q[k - Len(b)] BY <2>2
    <3> QED BY <3>1 DEF Entries
  <2> QED BY <2>1, <2>2
<1> QED BY <1>1, <1>2 DEF Entries

LEMMA BacklogGrows ==
    ASSUME NEW n \in Nat
    PROVE  /\ Backlog(n) \in Nat
           /\ MaxPending <= Backlog(n)
           /\ Backlog(n + 1) = Backlog(n) + MaxPending
           /\ Backlog(n) <= Backlog(n + 1)
           /\ Backlog(0) = MaxPending
<1>1. MaxPending \in Nat BY ConstantsAssumption
<1>2. MaxPending * (n + 1) = MaxPending * n + MaxPending
      /\ MaxPending * ((n + 1) + 1) = MaxPending * (n + 1) + MaxPending
      /\ MaxPending * (0 + 1) = MaxPending
  BY <1>1
<1>3. MaxPending * n \in Nat BY <1>1
<1> QED BY <1>1, <1>2, <1>3 DEF Backlog

-----------------------------------------------------------------------------
(* The parts of a loop's step.                                             *)

\* Leaving the loop, with the flag and at most the updates it had.
LEMMA ExitStep ==
    ASSUME IndInv,
           NEW l \in Loops, InMain(l),
           NEW q \in Seq(Updates),
           Entries(q) \subseteq Entries(pending) \cup Entries(batch[l]),
           NEW ag \in BOOLEAN, ag <=> (aggregating /\ ~Aggregates(l)),
           Exit(l, q, ag),
           errors' \in [Loops -> 0 .. MaxErrors - 1],
           UNCHANGED <<handlers, seen, merged>>
    PROVE  IndInv'
<1> USE DEF IndInv
<1>1. PICK stage \in {"final", "done"}, b \in {q, <<>>} :
         /\ pc' = [pc EXCEPT ![l] = stage]
         /\ batch' = [batch EXCEPT ![l] = b]
         /\ stage = "final" => ~ag /\ aggregating' = TRUE
         /\ stage = "done" => aggregating' = ag /\ b = <<>>
  BY DEF Exit, Goto, Drainable
<1>2. pending' = <<>> /\ active' = FALSE /\ running' = FALSE
      /\ event' = event /\ round' = round
  BY DEF Exit, Cleared
<1>3. <<>> \in Seq(Updates) /\ b \in Seq(Updates)
  <2>1. <<>> \in Seq(Updates) OBVIOUS
  <2> QED BY <2>1
<1>4. TypeOK'
  <2>1. pc' \in [Loops -> Stages]
    BY <1>1 DEF TypeOK, Stages, ExitStages
  <2>2. batch' \in [Loops -> Seq(Updates)]
    BY <1>1, <1>3 DEF TypeOK
  <2>3. aggregating' \in BOOLEAN BY <1>1
  <2> QED BY <1>2, <1>3, <2>1, <2>2, <2>3 DEF TypeOK
<1>5. \A m \in Loops : pc'[m] = IF m = l THEN stage ELSE pc[m]
  BY <1>1 DEF TypeOK
<1>6. \A m \in Loops : batch'[m] = IF m = l THEN b ELSE batch[m]
  BY <1>1 DEF TypeOK
<1>7. \A m \in Loops : ~InMain(m)'
  BY <1>1, <1>5 DEF LoopInv, OneLoop, InMain, MainStages
<1>8. LoopInv'
  BY <1>2, <1>7 DEF LoopInv, OneLoop
<1>9. AggregationInv'
  <2>1. CASE stage = "done"
    <3>1. \A m \in Loops : Aggregates(m)' <=> m # l /\ Aggregates(m)
      BY <2>1, <1>5 DEF Aggregates
    <3>2. aggregating' = ag /\ b = <<>> BY <2>1, <1>1
    <3>3. ag <=> \E m \in Loops : m # l /\ Aggregates(m)
      BY DEF AggregationInv, OneAggregation, Aggregates, InMain, MainStages
    <3>4. OneAggregation' BY <3>1 DEF AggregationInv, OneAggregation
    <3>5. aggregating' <=> \E m \in Loops : Aggregates(m)' BY <3>1, <3>2, <3>3
    <3>6. \A m \in Loops : ~Aggregates(m)' => batch'[m] = <<>>
      BY <3>1, <3>2, <1>6 DEF AggregationInv
    <3> QED BY <3>4, <3>5, <3>6 DEF AggregationInv
  <2>2. CASE stage = "final"
    <3>1. \A m \in Loops : m # l => ~Aggregates(m)
      BY <2>2, <1>1 DEF AggregationInv, OneAggregation, Aggregates
    <3>2. \A m \in Loops : Aggregates(m)' <=> m = l
      BY <2>2, <1>5, <3>1 DEF Aggregates
    <3>3. OneAggregation' BY <3>2 DEF OneAggregation
    <3>4. aggregating' <=> \E m \in Loops : Aggregates(m)' BY <2>2, <1>1, <3>2
    <3>5. \A m \in Loops : ~Aggregates(m)' => batch'[m] = <<>>
      BY <3>1, <3>2, <1>6 DEF AggregationInv
    <3> QED BY <3>3, <3>4, <3>5 DEF AggregationInv
  <2> QED BY <1>1, <2>1, <2>2
<1>10. PlacesInv'
  <2>1. \A m \in Loops : \A u \in Entries(batch'[m]) :
          u \in Entries(pending) \/ \E n \in Loops : u \in Entries(batch[n])
    BY <1>1, <1>6, EntriesOfEmpty
  <2>2. Entries(pending') = {} BY <1>2, EntriesOfEmpty
  <2> QED BY <2>1, <2>2 DEF PlacesInv
<1>11. BacklogInv'
  <2>1. Len(pending') = 0 BY <1>2
  <2>2. 0 <= MaxPending BY ConstantsAssumption
  <2>3. \A m \in Loops : pc'[m] \notin MainStages BY <1>7 DEF InMain
  <2> QED BY <2>1, <2>2, <2>3 DEF BacklogInv, MainStages
<1> QED BY <1>4, <1>8, <1>9, <1>10, <1>11

\* A failed round, with a queue within the backlog of one more failure.
LEMMA FailStep ==
    ASSUME IndInv,
           NEW l \in Loops, InMain(l),
           NEW q \in Seq(Updates),
           Entries(q) \subseteq Entries(pending) \cup Entries(batch[l]),
           Len(q) <= Backlog(errors[l] + 1),
           (\E m \in Loops : pc[m] = "final") => Len(q) <= MaxPending,
           NEW ag \in BOOLEAN, ag <=> (aggregating /\ ~Aggregates(l)),
           Fails(l, q, ag),
           UNCHANGED <<handlers, seen, merged>>
    PROVE  IndInv'
<1> USE DEF IndInv
<1>1. CASE GivesUp(errors[l] + 1) /\ Exit(l, q, ag) /\ UNCHANGED errors
  BY <1>1, ExitStep DEF TypeOK
<1>2. CASE /\ ~GivesUp(errors[l] + 1)
           /\ errors' = [errors EXCEPT ![l] = @ + 1]
           /\ event' = FALSE
           /\ pending' = q
           /\ aggregating' = ag
           /\ batch' = [batch EXCEPT ![l] = <<>>]
           /\ Goto(l, "backoff")
           /\ UNCHANGED <<running, active, round>>
  <2>1. <<>> \in Seq(Updates) OBVIOUS
  <2>2. TypeOK'
    <3>1. pc' \in [Loops -> Stages]
      BY <1>2 DEF TypeOK, Goto, Stages, MainStages
    <3>2. batch' \in [Loops -> Seq(Updates)]
      BY <1>2, <2>1 DEF TypeOK
    <3>3. errors[l] + 1 \in 0 .. MaxErrors - 1
      BY <1>2, ConstantsAssumption DEF TypeOK, GivesUp
    <3>4. errors' \in [Loops -> 0 .. MaxErrors - 1]
      BY <1>2, <3>3 DEF TypeOK
    <3> QED BY <1>2, <3>1, <3>2, <3>4 DEF TypeOK
  <2>3. \A m \in Loops : pc'[m] = IF m = l THEN "backoff" ELSE pc[m]
    BY <1>2 DEF TypeOK, Goto
  <2>4. \A m \in Loops : batch'[m] = IF m = l THEN <<>> ELSE batch[m]
    BY <1>2 DEF TypeOK
  <2>5. \A m \in Loops : InMain(m)' <=> InMain(m)
    BY <2>3 DEF InMain, MainStages
  <2>6. LoopInv'
    BY <1>2, <2>5 DEF LoopInv, OneLoop
  <2>7. AggregationInv'
    <3>1. \A m \in Loops : Aggregates(m)' <=> m # l /\ Aggregates(m)
      BY <2>3 DEF Aggregates
    <3>2. ag <=> \E m \in Loops : m # l /\ Aggregates(m)
      BY DEF AggregationInv, OneAggregation, Aggregates, InMain, MainStages
    <3>3. OneAggregation' BY <3>1 DEF AggregationInv, OneAggregation
    <3>4. aggregating' <=> \E m \in Loops : Aggregates(m)' BY <1>2, <3>1, <3>2
    <3>5. \A m \in Loops : ~Aggregates(m)' => batch'[m] = <<>>
      BY <3>1, <2>4 DEF AggregationInv
    <3> QED BY <3>3, <3>4, <3>5 DEF AggregationInv
  <2>8. PlacesInv'
    <3>1. \A m \in Loops : \A u \in Entries(batch'[m]) :
             m # l /\ u \in Entries(batch[m])
      BY <2>4, EntriesOfEmpty
    <3>2. \A m \in Loops : m # l =>
             \A u \in Entries(batch[m]) : u \notin Entries(batch[l])
      BY EntriesOfEmpty DEF AggregationInv, OneAggregation
    <3>3. \A u \in Entries(pending') :
             u \in Entries(pending) \/ u \in Entries(batch[l])
      BY <1>2
    <3>4. \A m \in Loops : \A u \in Entries(batch'[m]) :
             u \notin Entries(pending')
      BY <3>1, <3>2, <3>3 DEF PlacesInv
    <3> QED BY <3>1, <3>3, <3>4 DEF PlacesInv
  <2>9. BacklogInv'
    <3>1. \A m \in Loops : m # l => pc[m] \notin MainStages
      BY DEF LoopInv, OneLoop, InMain
    <3>2. \A m \in Loops : m # l /\ pc'[m] = "final" => Len(pending') <= MaxPending
      BY <1>2, <2>3
    <3>3. Len(pending') <= Backlog(errors'[l])
      BY <1>2 DEF TypeOK
    <3>4. pc'[l] = "backoff" /\ InMain(l)' BY <2>3, <2>5
    <3>5. \A m \in Loops : m # l => pc'[m] \notin MainStages BY <2>3, <3>1
    <3> QED BY <3>2, <3>3, <3>4, <3>5 DEF BacklogInv, MainStages
  <2> QED BY <2>2, <2>6, <2>7, <2>8, <2>9
<1> QED BY <1>1, <1>2 DEF Fails

\* The next round of the loop.
LEMMA BeginStep ==
    ASSUME IndInv,
           NEW l \in Loops,
           \/ InMain(l) /\ ~Aggregates(l) /\ active' = active
           \/ pc[l] = "off" /\ ~active /\ active' = TRUE,
           BeginRound(l),
           running' \in BOOLEAN,
           errors' \in [Loops -> 0 .. MaxErrors - 1],
           pc[l] # "post" => errors' = errors,
           UNCHANGED <<handlers, seen, merged>>
    PROVE  IndInv'
<1> USE DEF IndInv
<1>1. TypeOK'
  <2>1. pc' \in [Loops -> Stages]
    BY DEF TypeOK, BeginRound, Goto, Stages, MainStages
  <2>2. round' \in 0 .. MaxRound
    BY ConstantsAssumption DEF TypeOK, BeginRound
  <2> QED BY <2>1, <2>2 DEF TypeOK, BeginRound
<1>2. \A m \in Loops : pc'[m] = IF m = l THEN "train" ELSE pc[m]
  BY DEF TypeOK, BeginRound, Goto
<1>3. \A m \in Loops : m # l => ~InMain(m)
  BY DEF LoopInv, OneLoop
<1>4. \A m \in Loops : InMain(m)' <=> m = l
  BY <1>2, <1>3 DEF InMain, MainStages
<1>5. LoopInv'
  <2>1. active' BY DEF LoopInv
  <2> QED BY <1>4, <2>1 DEF LoopInv, OneLoop
<1>6. AggregationInv'
  <2>1. \A m \in Loops : Aggregates(m)' <=> Aggregates(m)
    BY <1>2 DEF Aggregates, InMain, MainStages
  <2>2. batch' = batch /\ aggregating' = aggregating BY DEF BeginRound
  <2> QED BY <2>1, <2>2 DEF AggregationInv, OneAggregation
<1>7. PlacesInv'
  BY DEF PlacesInv, BeginRound, Entries
<1>8. BacklogInv'
  <2>1. pending' = pending BY DEF BeginRound
  <2>2. errors[l] \in Nat /\ errors'[l] \in Nat BY <1>1 DEF TypeOK
  <2>3. Len(pending) \in Nat /\ MaxPending \in Nat BY ConstantsAssumption DEF TypeOK
  <2>4. /\ Backlog(errors'[l]) \in Nat /\ MaxPending <= Backlog(errors'[l])
    BY <2>2, BacklogGrows
  <2>5. Len(pending) <= Backlog(errors'[l])
    <3>1. CASE pc[l] = "post"
      BY <3>1, <2>3, <2>4 DEF BacklogInv
    <3>2. CASE pc[l] = "off"
      <4>1. \A m \in Loops : ~InMain(m)
        BY <3>2, <1>3 DEF InMain, MainStages
      <4> QED BY <4>1, <2>3, <2>4 DEF BacklogInv
    <3>3. CASE pc[l] \in {"train", "send", "wait", "backoff"}
      BY <3>3 DEF BacklogInv
    <3> QED BY <3>1, <3>2, <3>3 DEF InMain, MainStages, Aggregates
  <2>6. \A m \in Loops : m # l => pc'[m] = pc[m] /\ pc'[m] \notin MainStages
    BY <1>2, <1>3 DEF InMain
  <2>7. pc'[l] = "train" /\ InMain(l)' BY <1>2, <1>4
  <2> QED BY <2>1, <2>5, <2>6, <2>7 DEF BacklogInv, MainStages
<1> QED BY <1>1, <1>5, <1>6, <1>7, <1>8

\* A loop that passes on to a later stage of its round and leaves the queue,
\* the batches and the flags alone.
LEMMA GotoStep ==
    ASSUME IndInv,
           NEW l \in Loops,
           NEW from, NEW to,
           \/ from = "train" /\ to = "send"
           \/ from = "send" /\ to = "wait"
           \/ from = "wait" /\ to = "post" /\ Len(pending) <= MaxPending
           \/ from = "snapshot" /\ to = "aggregate"
           \/ from = "aggregate" /\ to = "apply"
           \/ from = "off" /\ to = "ignored",
           pc[l] = from, Goto(l, to),
           UNCHANGED <<running, active, round, pending, event, aggregating, errors,
                       batch, handlers, seen, merged>>
    PROVE  IndInv'
<1> USE DEF IndInv
<1>1. TypeOK'
  <2>1. pc' \in [Loops -> Stages]
    BY DEF TypeOK, Goto, Stages, MainStages
  <2> QED BY <2>1 DEF TypeOK
<1>2. \A m \in Loops : pc'[m] = IF m = l THEN to ELSE pc[m]
  BY DEF TypeOK, Goto
<1>3. \A m \in Loops : InMain(m)' <=> InMain(m)
  BY <1>2 DEF InMain, MainStages
<1>4. LoopInv' BY <1>3 DEF LoopInv, OneLoop
<1>5. \A m \in Loops : Aggregates(m)' <=> Aggregates(m)
  BY <1>2 DEF Aggregates
<1>6. AggregationInv' BY <1>5 DEF AggregationInv, OneAggregation
<1>7. PlacesInv' BY DEF PlacesInv, Entries
<1>8. BacklogInv' BY <1>2, <1>3 DEF BacklogInv
<1> QED BY <1>1, <1>4, <1>6, <1>7, <1>8

\* The queue as it is meets the hypotheses of FailStep.
LEMMA QueueFits ==
    ASSUME IndInv, NEW l \in Loops, InMain(l)
    PROVE  /\ pending \in Seq(Updates)
           /\ Len(pending) <= Backlog(errors[l] + 1)
           /\ (\E m \in Loops : pc[m] = "final") => Len(pending) <= MaxPending
<1> USE DEF IndInv
<1>1. errors[l] \in Nat BY DEF TypeOK
<1>2. /\ Backlog(errors[l]) \in Nat /\ MaxPending <= Backlog(errors[l])
      /\ Backlog(errors[l] + 1) = Backlog(errors[l]) + MaxPending
  BY <1>1, BacklogGrows
<1>3. pending \in Seq(Updates) /\ Len(pending) \in Nat /\ MaxPending \in Nat
  BY ConstantsAssumption DEF TypeOK
<1>4. Len(pending) <= Backlog(errors[l]) \/ Len(pending) <= MaxPending
  BY DEF BacklogInv, InMain, MainStages
<1>5. Len(pending) <= Backlog(errors[l] + 1)
  BY <1>2, <1>3, <1>4
<1> QED BY <1>3, <1>5 DEF BacklogInv

-----------------------------------------------------------------------------
(* Every action preserves the invariant.                                   *)

LEMMA HandlerInv ==
    ASSUME IndInv, NEW u \in Updates, HandlerStarts(u) \/ HandlerEnds(u)
    PROVE  IndInv'
<1> USE DEF IndInv
<1>1. CASE HandlerStarts(u)
  <2> USE <1>1 DEF HandlerStarts, loopVars
  <2>1. TypeOK' BY DEF TypeOK
  <2>2. LoopInv' BY DEF LoopInv, OneLoop, InMain
  <2>3. AggregationInv' BY DEF AggregationInv, OneAggregation, Aggregates
  <2>4. PlacesInv' BY DEF PlacesInv, Entries
  <2>5. BacklogInv' BY DEF BacklogInv, InMain
  <2> QED BY <2>1, <2>2, <2>3, <2>4, <2>5
<1>2. CASE HandlerEnds(u)
  <2> USE <1>2 DEF HandlerEnds, loopVars
  <2>1. CASE pending' = Append(pending, u) /\ Room(u) /\ event' = TRUE
    <3>1. /\ pending' \in Seq(Updates)
          /\ Len(pending') = Len(pending) + 1
          /\ Entries(pending') = Entries(pending) \cup {u}
      BY <2>1, EntriesOfAppend DEF TypeOK
    <3>2. TypeOK' BY <2>1, <3>1 DEF TypeOK
    <3>3. LoopInv' BY DEF LoopInv, OneLoop, InMain
    <3>4. AggregationInv' BY DEF AggregationInv, OneAggregation, Aggregates
    <3>5. PlacesInv' BY <3>1 DEF PlacesInv
    <3>6. Len(pending') <= MaxPending
      BY <2>1, <3>1, ConstantsAssumption DEF Room, TypeOK
    <3>7. \A l \in Loops : Len(pending') <= Backlog(errors[l])
      <4>1. ASSUME NEW l \in Loops PROVE Len(pending') <= Backlog(errors[l])
        <5>1. errors[l] \in Nat BY DEF TypeOK
        <5>2. Backlog(errors[l]) \in Nat /\ MaxPending <= Backlog(errors[l])
          BY <5>1, BacklogGrows
        <5>3. Len(pending') \in Nat /\ MaxPending \in Nat
          BY <3>1, ConstantsAssumption
        <5> QED BY <5>2, <5>3, <3>6
      <4> QED BY <4>1
    <3>8. BacklogInv' BY <3>6, <3>7 DEF BacklogInv, InMain
    <3> QED BY <3>2, <3>3, <3>4, <3>5, <3>8
  <2>2. CASE UNCHANGED <<pending, event>>
    <3> USE <2>2
    <3>1. TypeOK' BY DEF TypeOK
    <3>2. LoopInv' BY DEF LoopInv, OneLoop, InMain
    <3>3. AggregationInv' BY DEF AggregationInv, OneAggregation, Aggregates
    <3>4. PlacesInv' BY DEF PlacesInv, Entries
    <3>5. BacklogInv' BY DEF BacklogInv, InMain
    <3> QED BY <3>1, <3>2, <3>3, <3>4, <3>5
  <2> QED BY <2>1, <2>2
<1> QED BY <1>1, <1>2

LEMMA RunContinuousInv ==
    ASSUME IndInv, NEW l \in Loops, RunContinuous(l)
    PROVE  IndInv'
<1>1. CASE AlreadyEntered
  BY <1>1, GotoStep DEF RunContinuous, AlreadyEntered
<1>2. CASE ~AlreadyEntered
  <2>1. /\ ~active /\ active' = TRUE /\ running' = TRUE /\ BeginRound(l)
        /\ errors' = errors /\ pc[l] = "off"
        /\ UNCHANGED <<handlers, seen, merged>>
    BY <1>2 DEF RunContinuous, AlreadyEntered
  <2>2. errors' \in [Loops -> 0 .. MaxErrors - 1]
    BY <2>1 DEF IndInv, TypeOK
  <2> QED BY <2>1, <2>2, BeginStep
<1> QED BY <1>1, <1>2

\* The steps of a round that may fail with the queue as it is.
LEMMA PlainFailInv ==
    ASSUME IndInv, NEW l \in Loops, InMain(l), ~Aggregates(l),
           Fails(l, pending, aggregating), UNCHANGED <<handlers, seen, merged>>
    PROVE  IndInv'
<1>1. aggregating \in BOOLEAN BY DEF IndInv, TypeOK
<1>2. aggregating <=> (aggregating /\ ~Aggregates(l)) OBVIOUS
<1>3. Entries(pending) \subseteq Entries(pending) \cup Entries(batch[l]) OBVIOUS
<1> QED BY <1>1, <1>2, <1>3, QueueFits, FailStep

LEMMA PlainExitInv ==
    ASSUME IndInv, NEW l \in Loops, InMain(l), ~Aggregates(l),
           Exit(l, pending, aggregating),
           errors' \in [Loops -> 0 .. MaxErrors - 1],
           UNCHANGED <<handlers, seen, merged>>
    PROVE  IndInv'
<1>1. aggregating \in BOOLEAN /\ pending \in Seq(Updates)
  BY DEF IndInv, TypeOK
<1>2. aggregating <=> (aggregating /\ ~Aggregates(l)) OBVIOUS
<1>3. Entries(pending) \subseteq Entries(pending) \cup Entries(batch[l]) OBVIOUS
<1> QED BY <1>1, <1>2, <1>3, ExitStep

LEMMA LoopAgainInv ==
    ASSUME IndInv, NEW l \in Loops, pc[l] \in {"post", "backoff"},
           LoopAgain(l),
           errors' \in [Loops -> 0 .. MaxErrors - 1],
           pc[l] # "post" => errors' = errors,
           UNCHANGED <<handlers, seen, merged>>
    PROVE  IndInv'
<1>1. InMain(l) /\ ~Aggregates(l) BY DEF InMain, MainStages, Aggregates
<1>2. CASE Exit(l, pending, aggregating)
  BY <1>1, <1>2, PlainExitInv
<1>3. CASE BeginRound(l) /\ UNCHANGED <<running, active>>
  <2>1. running' \in BOOLEAN BY <1>3 DEF IndInv, TypeOK
  <2> QED BY <1>1, <1>3, <2>1, BeginStep
<1> QED BY <1>2, <1>3 DEF LoopAgain

LEMMA RoundInv ==
    ASSUME IndInv, NEW l \in Loops,
           TrainEnds(l) \/ SendEnds(l) \/ PostEnds(l) \/ BackoffEnds(l)
    PROVE  IndInv'
<1>1. errors \in [Loops -> 0 .. MaxErrors - 1] BY DEF IndInv, TypeOK
<1>2. CASE TrainEnds(l)
  <2>1. /\ pc[l] = "train" /\ InMain(l) /\ ~Aggregates(l)
        /\ UNCHANGED <<handlers, seen, merged>>
    BY <1>2 DEF TrainEnds, InMain, MainStages, Aggregates
  <2>2. CASE Goto(l, "send") /\ UNCHANGED <<running, active, round, pending, event,
                                           aggregating, errors, batch>>
    BY <2>1, <2>2, GotoStep
  <2>3. CASE Exit(l, pending, aggregating) /\ UNCHANGED errors
    BY <1>1, <2>1, <2>3, PlainExitInv
  <2>4. CASE Fails(l, pending, aggregating)
    BY <2>1, <2>4, PlainFailInv
  <2> QED BY <1>2, <2>2, <2>3, <2>4 DEF TrainEnds
<1>3. CASE SendEnds(l)
  <2>1. /\ pc[l] = "send" /\ InMain(l) /\ ~Aggregates(l)
        /\ UNCHANGED <<handlers, seen, merged>>
    BY <1>3 DEF SendEnds, InMain, MainStages, Aggregates
  <2>2. CASE Goto(l, "wait") /\ UNCHANGED <<running, active, round, pending, event,
                                           aggregating, errors, batch>>
    BY <2>1, <2>2, GotoStep
  <2>3. CASE Fails(l, pending, aggregating)
    BY <2>1, <2>3, PlainFailInv
  <2> QED BY <1>3, <2>2, <2>3 DEF SendEnds
<1>4. CASE PostEnds(l)
  <2>1. /\ pc[l] = "post" /\ InMain(l) /\ ~Aggregates(l)
        /\ UNCHANGED <<handlers, seen, merged>>
    BY <1>4 DEF PostEnds, InMain, MainStages, Aggregates
  <2>2. CASE errors' = [errors EXCEPT ![l] = 0] /\ LoopAgain(l)
    <3>1. errors' \in [Loops -> 0 .. MaxErrors - 1]
      BY <1>1, <2>2, ConstantsAssumption
    <3> QED BY <2>1, <2>2, <3>1, LoopAgainInv
  <2>3. CASE Fails(l, pending, aggregating)
    BY <2>1, <2>3, PlainFailInv
  <2> QED BY <1>4, <2>2, <2>3 DEF PostEnds
<1>5. CASE BackoffEnds(l)
  BY <1>1, <1>5, LoopAgainInv DEF BackoffEnds
<1> QED BY <1>2, <1>3, <1>4, <1>5

\* The drain starts the one aggregation; a queue that is not drained is
\* either too short or guarded by a loop in its final aggregation.
LEMMA WaitInv ==
    ASSUME IndInv, NEW l \in Loops, WaitEnds(l)
    PROVE  IndInv'
<1> USE DEF IndInv
<1>1. pc[l] = "wait" /\ InMain(l) /\ UNCHANGED <<running, active, round, event, errors,
                                     handlers, seen, merged>>
  BY DEF WaitEnds, InMain, MainStages
<1>2. CASE ~Drainable(pending, aggregating) /\ Goto(l, "post")
           /\ UNCHANGED <<batch, pending, aggregating>>
  <2>1. Len(pending) <= MaxPending
    <3>1. CASE ~(Len(pending) >= MinPeers)
      BY <3>1, ConstantsAssumption DEF TypeOK
    <3>2. CASE aggregating
      <4>1. PICK m \in Loops : Aggregates(m) BY <3>2 DEF AggregationInv
      <4>2. pc[m] = "final"
        BY <1>1, <4>1 DEF Aggregates, LoopInv, OneLoop, InMain, MainStages
      <4> QED BY <4>2 DEF BacklogInv
    <3> QED BY <1>2, <3>1, <3>2 DEF Drainable
  <2> QED BY <1>1, <1>2, <2>1, GotoStep
<1>3. CASE /\ Drainable(pending, aggregating)
           /\ batch' = [batch EXCEPT ![l] = pending]
           /\ pending' = Cleared(pending)
           /\ aggregating' = TRUE
           /\ Goto(l, "snapshot")
  <2>1. pending' = <<>> /\ <<>> \in Seq(Updates) BY <1>3 DEF Cleared
  <2>2. TypeOK'
    <3>1. pc' \in [Loops -> Stages]
      BY <1>3 DEF TypeOK, Goto, Stages, MainStages
    <3>2. batch' \in [Loops -> Seq(Updates)]
      BY <1>3 DEF TypeOK
    <3> QED BY <1>1, <1>3, <2>1, <3>1, <3>2 DEF TypeOK
  <2>3. \A m \in Loops : pc'[m] = IF m = l THEN "snapshot" ELSE pc[m]
    BY <1>3 DEF TypeOK, Goto
  <2>4. \A m \in Loops : batch'[m] = IF m = l THEN pending ELSE batch[m]
    BY <1>3 DEF TypeOK
  <2>5. \A m \in Loops : InMain(m)' <=> InMain(m)
    BY <1>1, <2>3 DEF InMain, MainStages
  <2>6. LoopInv' BY <1>1, <2>5 DEF LoopInv, OneLoop
  <2>7. \A m \in Loops : ~Aggregates(m)
    BY <1>3 DEF Drainable, AggregationInv
  <2>8. AggregationInv'
    <3>1. \A m \in Loops : Aggregates(m)' <=> m = l
      BY <2>3, <2>7 DEF Aggregates
    <3>2. \A m \in Loops : m # l => batch'[m] = <<>>
      BY <2>4, <2>7 DEF AggregationInv
    <3> QED BY <1>3, <3>1, <3>2 DEF AggregationInv, OneAggregation
  <2>9. PlacesInv'
    <3>1. Entries(pending') = {} BY <2>1, EntriesOfEmpty
    <3> QED BY <1>1, <2>4, <3>1 DEF PlacesInv
  <2>10. BacklogInv'
    <3>1. Len(pending') = 0 /\ 0 <= MaxPending
      BY <2>1, ConstantsAssumption
    <3>2. Len(pending) <= Backlog(errors[l]) BY <1>1 DEF BacklogInv
    <3>3. \A m \in Loops : m # l => pc'[m] \notin MainStages
      BY <1>1, <2>3 DEF LoopInv, OneLoop, InMain
    <3>4. pc'[l] = "snapshot" /\ batch'[l] = pending /\ errors' = errors
      BY <1>1, <2>3, <2>4
    <3>5. \A m \in Loops :
             /\ pc'[m] \in {"train", "send", "wait", "backoff"} =>
                   Len(pending') <= Backlog(errors'[m])
             /\ pc'[m] \in {"snapshot", "aggregate", "apply"} =>
                   Len(batch'[m]) <= Backlog(errors'[m]) /\ Len(pending') <= MaxPending
             /\ pc'[m] \in {"post", "final"} => Len(pending') <= MaxPending
      BY <3>1, <3>2, <3>3, <3>4 DEF MainStages
    <3> QED BY <3>1, <3>5 DEF BacklogInv
  <2> QED BY <2>2, <2>6, <2>8, <2>9, <2>10
<1> QED BY <1>2, <1>3 DEF WaitEnds

LEMMA ReturnInv ==
    ASSUME IndInv, NEW l \in Loops, SnapshotTaken(l) \/ AggregateReturns(l)
    PROVE  IndInv'
BY GotoStep DEF SnapshotTaken, AggregateReturns

\* The batch of the one aggregation goes into the model.
LEMMA AggregateInv ==
    ASSUME IndInv, NEW l \in Loops, ApplySucceeds(l)
    PROVE  IndInv'
<1> USE DEF IndInv
<1> DEFINE to == IF pc[l] = "apply" THEN "post" ELSE "clear"
<1>1. /\ pc[l] \in {"apply", "final"}
      /\ merged' = merged \cup Entries(batch[l])
      /\ batch' = [batch EXCEPT ![l] = <<>>]
      /\ event' = FALSE /\ aggregating' = FALSE
      /\ pc' = [pc EXCEPT ![l] = to]
      /\ UNCHANGED <<running, active, round, pending, errors, handlers, seen>>
  BY DEF ApplySucceeds, Goto
<1>2. \A m \in Loops : pc'[m] = IF m = l THEN to ELSE pc[m]
  BY <1>1 DEF TypeOK
<1>3. \A m \in Loops : batch'[m] = IF m = l THEN <<>> ELSE batch[m]
  BY <1>1 DEF TypeOK
<1>4. TypeOK'
  <2>1. to \in Stages BY DEF Stages, MainStages, ExitStages
  <2>2. pc' \in [Loops -> Stages] BY <1>1, <2>1 DEF TypeOK
  <2>3. <<>> \in Seq(Updates) OBVIOUS
  <2>4. batch' \in [Loops -> Seq(Updates)] BY <1>1, <2>3 DEF TypeOK
  <2>5. Entries(batch[l]) \subseteq Updates BY DEF TypeOK, Entries
  <2>6. merged' \subseteq Updates BY <1>1, <2>5 DEF TypeOK
  <2> QED BY <1>1, <2>2, <2>4, <2>6 DEF TypeOK
<1>5. \A m \in Loops : InMain(m)' <=> InMain(m)
  BY <1>1, <1>2 DEF InMain, MainStages
<1>6. LoopInv' BY <1>1, <1>5 DEF LoopInv, OneLoop
<1>7. \A m \in Loops : ~Aggregates(m)'
  BY <1>1, <1>2 DEF Aggregates, AggregationInv, OneAggregation
<1>8. \A m \in Loops : batch'[m] = <<>>
  BY <1>1, <1>3 DEF Aggregates, AggregationInv, OneAggregation
<1>9. AggregationInv' BY <1>1, <1>7, <1>8 DEF AggregationInv, OneAggregation
<1>10. PlacesInv'
  <2>1. \A m \in Loops : Entries(batch'[m]) = {} BY <1>8, EntriesOfEmpty
  <2> QED BY <1>1, <2>1 DEF PlacesInv
<1>11. BacklogInv'
  <2>1. pc[l] = "apply" => Len(pending') <= MaxPending BY <1>1 DEF BacklogInv
  <2>2. pending' = pending /\ errors' = errors BY <1>1
  <2>3. \A m \in Loops : pc'[m] \notin {"snapshot", "aggregate", "apply"}
    BY <1>2, <1>7 DEF Aggregates
  <2> QED BY <1>2, <1>5, <2>1, <2>2, <2>3 DEF BacklogInv
<1> QED BY <1>4, <1>6, <1>9, <1>10, <1>11

\* A failed aggregation puts its batch back, a failure of the model loses it.
LEMMA FailureInv ==
    ASSUME IndInv, NEW l \in Loops, AggregateFails(l) \/ ModelFails(l)
    PROVE  IndInv'
<1>1. /\ pc[l] \in {"snapshot", "aggregate", "apply"} /\ InMain(l)
      /\ UNCHANGED <<handlers, seen, merged>>
  BY DEF AggregateFails, ModelFails, InMain, MainStages
<1>2. FALSE <=> (aggregating /\ ~Aggregates(l)) BY <1>1 DEF Aggregates
<1>4. CASE AggregateFails(l)
  <2>1. Fails(l, batch[l] \o pending, FALSE) BY <1>4 DEF AggregateFails, Restored
  <2>2. batch[l] \in Seq(Updates) /\ pending \in Seq(Updates) /\ errors[l] \in Nat
    BY DEF IndInv, TypeOK
  <2>3. /\ batch[l] \o pending \in Seq(Updates)
        /\ Len(batch[l] \o pending) = Len(batch[l]) + Len(pending)
        /\ Entries(batch[l] \o pending) \subseteq Entries(batch[l]) \cup Entries(pending)
    BY <2>2, EntriesOfConcat
  <2>4. Len(batch[l]) <= Backlog(errors[l]) /\ Len(pending) <= MaxPending
    BY <1>1 DEF IndInv, BacklogInv
  <2>5. /\ Backlog(errors[l]) \in Nat
        /\ Backlog(errors[l] + 1) = Backlog(errors[l]) + MaxPending
    BY <2>2, BacklogGrows
  <2>6. Len(batch[l]) \in Nat /\ Len(pending) \in Nat /\ MaxPending \in Nat
    BY <2>2, ConstantsAssumption
  <2>7. Len(batch[l] \o pending) <= Backlog(errors[l] + 1)
    BY <2>3, <2>4, <2>5, <2>6
  <2>8. ~ \E m \in Loops : pc[m] = "final"
    BY <1>1 DEF IndInv, AggregationInv, OneAggregation, Aggregates
  <2> QED BY <1>1, <1>2, <2>1, <2>3, <2>7, <2>8, FailStep
<1>5. CASE ModelFails(l)
  <2>1. Fails(l, pending, FALSE) BY <1>5 DEF ModelFails
  <2>2. Entries(pending) \subseteq Entries(pending) \cup Entries(batch[l]) OBVIOUS
  <2> QED BY <1>1, <1>2, <2>1, <2>2, QueueFits, FailStep
<1> QED BY <1>4, <1>5

\* The end of the finally clause: the loop's batch is gone and the queue is
\* cleared or left.
LEMMA DoneStep ==
    ASSUME IndInv, NEW l \in Loops, pc[l] \in ExitStages,
           Goto(l, "done"),
           batch' = [batch EXCEPT ![l] = <<>>],
           aggregating' \in BOOLEAN,
           aggregating' <=> (aggregating /\ pc[l] # "final"),
           pending' \in {<<>>, pending},
           UNCHANGED <<running, active, round, event, errors, handlers, seen,
                       merged>>
    PROVE  IndInv'
<1> USE DEF IndInv
<1>1. \A m \in Loops : pc'[m] = IF m = l THEN "done" ELSE pc[m]
  BY DEF TypeOK, Goto
<1>2. \A m \in Loops : batch'[m] = IF m = l THEN <<>> ELSE batch[m]
  BY DEF TypeOK
<1>3. <<>> \in Seq(Updates) OBVIOUS
<1>4. TypeOK'
  <2>1. pc' \in [Loops -> Stages] BY DEF TypeOK, Goto, Stages
  <2>2. batch' \in [Loops -> Seq(Updates)] BY <1>3 DEF TypeOK
  <2>3. pending' \in Seq(Updates) BY <1>3 DEF TypeOK
  <2> QED BY <2>1, <2>2, <2>3 DEF TypeOK
<1>5. \A m \in Loops : InMain(m)' <=> InMain(m)
  BY <1>1 DEF InMain, MainStages, ExitStages
<1>6. LoopInv' BY <1>5 DEF LoopInv, OneLoop
<1>7. AggregationInv'
  <2>1. \A m \in Loops : Aggregates(m)' <=> m # l /\ Aggregates(m)
    BY <1>1 DEF Aggregates
  <2>2. (aggregating /\ pc[l] # "final") <=> \E m \in Loops : m # l /\ Aggregates(m)
    BY DEF AggregationInv, OneAggregation, Aggregates, ExitStages
  <2>3. OneAggregation' BY <2>1 DEF AggregationInv, OneAggregation
  <2>4. aggregating' <=> \E m \in Loops : Aggregates(m)' BY <2>1, <2>2
  <2>5. \A m \in Loops : ~Aggregates(m)' => batch'[m] = <<>>
    BY <2>1, <1>2 DEF AggregationInv
  <2> QED BY <2>3, <2>4, <2>5 DEF AggregationInv
<1>8. PlacesInv'
  <2>1. \A m \in Loops : \A u \in Entries(batch'[m]) : u \in Entries(batch[m])
    BY <1>2, EntriesOfEmpty
  <2>2. \A u \in Entries(pending') : u \in Entries(pending)
    BY EntriesOfEmpty
  <2> QED BY <2>1, <2>2 DEF PlacesInv
<1>9. BacklogInv'
  <2>1. Len(pending') <= Len(pending) /\ Len(pending') \in Nat /\ Len(pending) \in Nat
    <3>1. Len(<<>>) = 0 OBVIOUS
    <3> QED BY <1>3, <1>4, <3>1 DEF TypeOK
  <2>2. \A m \in Loops : m # l => batch'[m] = batch[m] /\ pc'[m] = pc[m]
    BY <1>1, <1>2
  <2>3. MaxPending \in Nat /\ \A m \in Loops : Backlog(errors[m]) \in Nat
    <3>1. \A m \in Loops : errors[m] \in Nat BY DEF TypeOK
    <3>2. \A n \in Nat : Backlog(n) \in Nat BY BacklogGrows
    <3> QED BY <3>1, <3>2, ConstantsAssumption
  <2>4. \A m \in Loops :
           /\ pc'[m] \in {"train", "send", "wait", "backoff"} =>
                 Len(pending') <= Backlog(errors'[m])
           /\ pc'[m] \in {"snapshot", "aggregate", "apply"} =>
                 Len(batch'[m]) <= Backlog(errors'[m]) /\ Len(pending') <= MaxPending
           /\ pc'[m] \in {"post", "final"} => Len(pending') <= MaxPending
    BY <1>1, <2>1, <2>2, <2>3 DEF BacklogInv
  <2>5. (\A m \in Loops : ~InMain(m)') => Len(pending') <= MaxPending
    BY <1>5, <2>1, <2>3 DEF BacklogInv
  <2> QED BY <2>4, <2>5 DEF BacklogInv
<1> QED BY <1>4, <1>6, <1>7, <1>8, <1>9

LEMMA DoneInv ==
    ASSUME IndInv, NEW l \in Loops, FinalFails(l) \/ FinalClears(l) \/ CancelExit(l)
    PROVE  IndInv'
<1>1. aggregating \in BOOLEAN BY DEF IndInv, TypeOK
<1>2. CASE FinalFails(l)
  BY <1>2, DoneStep DEF FinalFails, ExitStages
<1>3. CASE FinalClears(l)
  <2>1. batch[l] = <<>>
    BY <1>3 DEF FinalClears, IndInv, AggregationInv, Aggregates
  <2>2. batch' = [batch EXCEPT ![l] = <<>>]
    BY <1>3, <2>1 DEF FinalClears, IndInv, TypeOK
  <2> QED BY <1>1, <1>3, <2>2, DoneStep DEF FinalClears, ExitStages
<1>4. CASE CancelExit(l)
  <2>1. aggregating' \in BOOLEAN /\ (aggregating' <=> (aggregating /\ pc[l] # "final"))
    BY <1>1, <1>4 DEF CancelExit
  <2> QED BY <1>4, <2>1, DoneStep DEF CancelExit
<1> QED BY <1>2, <1>3, <1>4

LEMMA CancelInv ==
    ASSUME IndInv, NEW l \in Loops, CancelMain(l)
    PROVE  IndInv'
<1> DEFINE ag == aggregating /\ ~Aggregates(l)
<1>1. ag \in BOOLEAN /\ pending \in Seq(Updates) /\ InMain(l)
  BY DEF IndInv, TypeOK, CancelMain, InMain
<1>3. errors' \in [Loops -> 0 .. MaxErrors - 1] BY DEF IndInv, TypeOK, CancelMain
<1>4. Exit(l, pending, ag) /\ UNCHANGED <<handlers, seen, merged>>
  BY DEF CancelMain
<1>5. Entries(pending) \subseteq Entries(pending) \cup Entries(batch[l]) OBVIOUS
<1>6. ag <=> (aggregating /\ ~Aggregates(l)) OBVIOUS
<1> HIDE DEF ag
<1> QED BY <1>1, <1>3, <1>4, <1>5, <1>6, ExitStep

\* Steps that touch neither the queue nor a loop.
LEMMA IdleInv ==
    ASSUME IndInv, Stop \/ UNCHANGED vars
    PROVE  IndInv'
<1> USE DEF IndInv
<1>1. /\ running' \in BOOLEAN
      /\ UNCHANGED <<active, round, pending, event, aggregating, pc, errors, batch,
                     handlers, seen, merged>>
  BY DEF Stop, vars, loopVars, TypeOK
<1>2. TypeOK' BY <1>1 DEF TypeOK
<1>3. LoopInv' BY <1>1 DEF LoopInv, OneLoop, InMain
<1>4. AggregationInv' BY <1>1 DEF AggregationInv, OneAggregation, Aggregates
<1>5. PlacesInv' BY <1>1 DEF PlacesInv, Entries
<1>6. BacklogInv' BY <1>1 DEF BacklogInv, InMain
<1> QED BY <1>2, <1>3, <1>4, <1>5, <1>6

-----------------------------------------------------------------------------
(* The theorems.                                                           *)

LEMMA InitInv == Init => IndInv
<1> SUFFICES ASSUME Init PROVE IndInv OBVIOUS
<1>1. <<>> \in Seq(Updates) /\ Len(<<>>) = 0 OBVIOUS
<1>2. 0 \in 0 .. MaxErrors - 1 /\ 0 \in 0 .. MaxRound /\ 0 <= MaxPending
  BY ConstantsAssumption
<1>3. TypeOK BY <1>1, <1>2 DEF Init, TypeOK, Stages
<1>4. \A l \in Loops : pc[l] = "off" BY DEF Init
<1>5. LoopInv BY <1>4 DEF Init, LoopInv, OneLoop, InMain, MainStages
<1>6. AggregationInv BY <1>4 DEF Init, AggregationInv, OneAggregation, Aggregates
<1>7. PlacesInv BY EntriesOfEmpty DEF Init, PlacesInv
<1>8. BacklogInv BY <1>1, <1>2, <1>4 DEF Init, BacklogInv
<1> QED BY <1>3, <1>5, <1>6, <1>7, <1>8 DEF IndInv

LEMMA NextInv == IndInv /\ [Next]_vars => IndInv'
<1> SUFFICES ASSUME IndInv, [Next]_vars PROVE IndInv' OBVIOUS
<1>1. CASE \E u \in Updates : HandlerStarts(u) \/ HandlerEnds(u)
  BY <1>1, HandlerInv
<1>2. ASSUME NEW l \in Loops,
             RunContinuous(l) \/ LoopStep(l) \/ CancelMain(l) \/ CancelExit(l)
      PROVE  IndInv'
  BY <1>2, RunContinuousInv, RoundInv, WaitInv, ReturnInv, AggregateInv, FailureInv,
     DoneInv, CancelInv DEF LoopStep
<1>3. CASE Stop \/ UNCHANGED vars
  BY <1>3, IdleInv
<1> QED BY <1>1, <1>2, <1>3 DEF Next

\* The inductive invariant holds of every reachable state.
THEOREM Invariance == Spec => []IndInv
BY InitInv, NextInv, PTL DEF Spec

\* The aggregator's state is well typed; a loop never counts as many errors
\* in a row as make it give up.
THEOREM TypeCorrect == Spec => []TypeOK
<1>1. IndInv => TypeOK BY DEF IndInv
<1> QED BY <1>1, Invariance, PTL

\* Two calls of run_continuous never run rounds at the same time.
THEOREM LoopsExclude == Spec => []OneLoop
<1>1. IndInv => OneLoop BY DEF IndInv, LoopInv
<1> QED BY <1>1, Invariance, PTL

\* Two aggregations never overlap, not even that of a new loop with the
\* final one of the loop before.
THEOREM AggregationsExclude == Spec => []OneAggregation
<1>1. IndInv => OneAggregation BY DEF IndInv, AggregationInv
<1> QED BY <1>1, Invariance, PTL

\* No update goes into the model twice.
THEOREM UpdatesMergedOnce == Spec => []MergedOnce
<1>1. IndInv => MergedOnce BY DEF IndInv, PlacesInv, MergedOnce, Held
<1> QED BY <1>1, Invariance, PTL

\* However aggregations fail, the queue stays within max_pending_updates
\* times the number of failures in a row that end the loop.
THEOREM QueueBounded == Spec => []BacklogBound
<1>1. IndInv => BacklogBound
  <2> SUFFICES ASSUME IndInv PROVE BacklogBound OBVIOUS
  <2>1. MaxPending \in Nat /\ MaxErrors \in Nat \ {0} /\ Len(pending) \in Nat
    BY ConstantsAssumption DEF IndInv, TypeOK
  <2>2. MaxPending <= MaxPending * MaxErrors
    <3>1. PICK k \in Nat : MaxErrors = k + 1
      <4>1. MaxErrors - 1 \in Nat /\ MaxErrors = (MaxErrors - 1) + 1 BY <2>1
      <4> QED BY <4>1
    <3>2. MaxPending <= Backlog(k) BY BacklogGrows
    <3> QED BY <3>1, <3>2 DEF Backlog
  <2>3. ASSUME NEW l \in Loops, Len(pending) <= Backlog(errors[l])
        PROVE  BacklogBound
    <3>1. errors[l] \in Nat /\ errors[l] + 1 <= MaxErrors
      BY <2>1 DEF IndInv, TypeOK
    <3>2. PICK d \in Nat : MaxErrors = (errors[l] + 1) + d
      <4>1. MaxErrors - (errors[l] + 1) \in Nat BY <2>1, <3>1
      <4> QED BY <2>1, <3>1, <4>1
    <3>3. MaxPending * ((errors[l] + 1) + d)
            = MaxPending * (errors[l] + 1) + MaxPending * d
      BY <2>1, <3>1, <3>2
    <3>4. MaxPending * d \in Nat /\ MaxPending * (errors[l] + 1) \in Nat
      BY <2>1, <3>1, <3>2
    <3>5. Backlog(errors[l]) <= MaxPending * MaxErrors
      BY <3>2, <3>3, <3>4 DEF Backlog
    <3>6. Backlog(errors[l]) \in Nat /\ MaxPending * MaxErrors \in Nat
      BY <3>2, <3>3, <3>4 DEF Backlog
    <3> QED BY <2>1, <2>3, <3>5, <3>6 DEF BacklogBound
  <2>4. CASE Len(pending) <= MaxPending
    <3>1. MaxPending * MaxErrors \in Nat BY <2>1
    <3> QED BY <2>1, <2>2, <2>4, <3>1 DEF BacklogBound
  <2> QED BY <2>3, <2>4 DEF IndInv, BacklogInv, InMain, MainStages
<1> QED BY <1>1, Invariance, PTL

-----------------------------------------------------------------------------
(* No update is lost while the loop runs.                                  *)

\* What a step of the running loop may do with the updates it holds.
KeepsQueue ==
    running /\ running' =>
          \/ Held \subseteq Held' \cup merged'
          \/ \E l \in Loops : pc[l] \in {"snapshot", "apply"} /\ pc'[l] = "backoff"
          \/ \E l \in Loops : pc[l] # "done" /\ pc'[l] = "done"

\* A batch that is put back is in the queue.
LEMMA ConcatKeeps ==
    ASSUME NEW b \in Seq(Updates), NEW q \in Seq(Updates)
    PROVE  Entries(b) \cup Entries(q) \subseteq Entries(b \o q)
<1>1. \A k \in DOMAIN b : k \in DOMAIN (b \o q) /\ (b \o q)[k] = b[k]
  OBVIOUS
<1>2. \A k \in DOMAIN q : Len(b) + k \in DOMAIN (b \o q) /\ (b \o q)[Len(b) + k] = q[k]
  OBVIOUS
<1> QED BY <1>1, <1>2 DEF Entries

\* A step that only moves updates between the queue, one batch and the model.
LEMMA MovesOnly ==
    ASSUME batch \in [Loops -> Seq(Updates)], NEW l \in Loops, NEW b,
           batch' = [batch EXCEPT ![l] = b],
           Entries(pending) \cup Entries(batch[l])
              \subseteq Entries(pending') \cup Entries(b) \cup merged'
    PROVE  Held \subseteq Held' \cup merged'
<1>1. batch'[l] = b /\ \A m \in Loops \ {l} : batch'[m] = batch[m]
  OBVIOUS
<1>2. ASSUME NEW m \in Loops, NEW u \in Entries(batch[m])
      PROVE  u \in Held' \cup merged'
  <2>1. CASE m = l BY <1>1, <2>1 DEF Held
  <2>2. CASE m # l BY <1>1, <2>2 DEF Held
  <2> QED BY <2>1, <2>2
<1>3. ASSUME NEW u \in Entries(pending) PROVE u \in Held' \cup merged'
  BY <1>1 DEF Held
<1> QED BY <1>2, <1>3 DEF Held

\* A step that leaves the batches alone and drops nothing from the queue.
LEMMA QueueGrows ==
    ASSUME batch' = batch, Entries(pending) \subseteq Entries(pending')
    PROVE  Held \subseteq Held' \cup merged'
BY DEF Held

\* A failing round keeps what it is given, and a loop that gives up is not
\* running any more.
LEMMA FailKeeps ==
    ASSUME IndInv, NEW l \in Loops, NEW q, NEW ag, Fails(l, q, ag),
           Entries(pending) \cup Entries(batch[l]) \subseteq Entries(q)
    PROVE  KeepsQueue
<1>1. CASE Exit(l, q, ag) BY <1>1 DEF Exit, KeepsQueue
<1>2. CASE pending' = q /\ batch' = [batch EXCEPT ![l] = <<>>]
  <2>1. batch \in [Loops -> Seq(Updates)] BY DEF IndInv, TypeOK
  <2>2. Held \subseteq Held' \cup merged' BY <1>2, <2>1, MovesOnly
  <2> QED BY <2>2 DEF KeepsQueue
<1> QED BY <1>1, <1>2 DEF Fails

\* A loop that is not aggregating has no batch to lose.
LEMMA IdleBatch ==
    ASSUME IndInv, NEW l \in Loops, ~Aggregates(l)
    PROVE  Entries(batch[l]) = {}
BY EntriesOfEmpty DEF IndInv, AggregationInv

LEMMA AgainKeeps ==
    ASSUME IndInv, NEW l \in Loops, LoopAgain(l)
    PROVE  KeepsQueue
<1>1. CASE Exit(l, pending, aggregating) BY <1>1 DEF Exit, KeepsQueue
<1>2. CASE BeginRound(l) BY <1>2, QueueGrows DEF BeginRound, KeepsQueue
<1> QED BY <1>1, <1>2 DEF LoopAgain

\* The steps of a call of run_continuous.
LEMMA LoopKeeps ==
    ASSUME IndInv, NEW l \in Loops, LoopStep(l)
    PROVE  KeepsQueue
<1>1. batch \in [Loops -> Seq(Updates)] /\ pending \in Seq(Updates) /\ pc \in [Loops -> Stages]
  BY DEF IndInv, TypeOK
<1>2. CASE TrainEnds(l)
  <2>1. Entries(batch[l]) = {} BY <1>2, IdleBatch DEF TrainEnds, Aggregates
  <2>2. CASE UNCHANGED <<pending, batch>> BY <2>2, QueueGrows DEF KeepsQueue
  <2>3. CASE Exit(l, pending, aggregating) BY <2>3 DEF Exit, KeepsQueue
  <2>4. CASE Fails(l, pending, aggregating) BY <2>1, <2>4, FailKeeps
  <2> QED BY <1>2, <2>2, <2>3, <2>4 DEF TrainEnds
<1>3. CASE SendEnds(l)
  <2>1. Entries(batch[l]) = {} BY <1>3, IdleBatch DEF SendEnds, Aggregates
  <2>2. CASE UNCHANGED <<pending, batch>> BY <2>2, QueueGrows DEF KeepsQueue
  <2>3. CASE Fails(l, pending, aggregating) BY <2>1, <2>3, FailKeeps
  <2> QED BY <1>3, <2>2, <2>3 DEF SendEnds
<1>4. CASE WaitEnds(l)
  <2>1. Entries(batch[l]) = {} BY <1>4, IdleBatch DEF WaitEnds, Aggregates
  <2>2. CASE UNCHANGED <<batch, pending>> BY <2>2, QueueGrows DEF KeepsQueue
  <2>3. CASE batch' = [batch EXCEPT ![l] = pending]
    <3>1. Held \subseteq Held' \cup merged' BY <1>1, <2>1, <2>3, MovesOnly
    <3> QED BY <3>1 DEF KeepsQueue
  <2> QED BY <1>4, <2>2, <2>3 DEF WaitEnds
<1>5. CASE SnapshotTaken(l) \/ AggregateReturns(l)
  BY <1>5, QueueGrows DEF SnapshotTaken, AggregateReturns, KeepsQueue
<1>6. CASE AggregateFails(l)
  <2>1. Entries(pending) \cup Entries(batch[l]) \subseteq Entries(Restored(batch[l], pending))
    BY <1>1, ConcatKeeps DEF Restored
  <2> QED BY <1>6, <2>1, FailKeeps DEF AggregateFails
<1>7. CASE ApplySucceeds(l)
  <2>1. /\ batch' = [batch EXCEPT ![l] = <<>>] /\ pending' = pending
        /\ merged' = merged \cup Entries(batch[l])
    BY <1>7 DEF ApplySucceeds
  <2>2. Held \subseteq Held' \cup merged' BY <1>1, <2>1, MovesOnly
  <2> QED BY <2>2 DEF KeepsQueue
<1>8. CASE ModelFails(l)
  <2>1. CASE Exit(l, pending, FALSE) BY <2>1 DEF Exit, KeepsQueue
  <2>2. CASE Goto(l, "backoff")
    <3>1. pc[l] \in {"snapshot", "apply"} /\ pc'[l] = "backoff"
      BY <1>1, <1>8, <2>2 DEF ModelFails, Goto
    <3> QED BY <3>1 DEF KeepsQueue
  <2> QED BY <1>8, <2>1, <2>2 DEF ModelFails, Fails
<1>9. CASE PostEnds(l)
  <2>1. Entries(batch[l]) = {} BY <1>9, IdleBatch DEF PostEnds, Aggregates
  <2>2. CASE LoopAgain(l) BY <2>2, AgainKeeps
  <2>3. CASE Fails(l, pending, aggregating) BY <2>1, <2>3, FailKeeps
  <2> QED BY <1>9, <2>2, <2>3 DEF PostEnds
<1>10. CASE BackoffEnds(l) BY <1>10, AgainKeeps DEF BackoffEnds
<1>11. CASE FinalFails(l) \/ FinalClears(l)
  <2>1. pc[l] # "done" /\ pc'[l] = "done"
    BY <1>1, <1>11 DEF FinalFails, FinalClears, Goto
  <2> QED BY <2>1 DEF KeepsQueue
<1> QED BY <1>2, <1>3, <1>4, <1>5, <1>6, <1>7, <1>8, <1>9, <1>10, <1>11 DEF LoopStep

LEMMA StepKeeps == IndInv /\ [Next]_vars => [KeepsQueue]_vars
<1> SUFFICES ASSUME IndInv, Next PROVE KeepsQueue OBVIOUS
<1>0. pc \in [Loops -> Stages] /\ pending \in Seq(Updates) BY DEF IndInv, TypeOK
<1>1. ASSUME NEW u \in Updates, HandlerStarts(u) PROVE KeepsQueue
  BY <1>1, QueueGrows DEF HandlerStarts, loopVars, KeepsQueue
<1>2. ASSUME NEW u \in Updates, HandlerEnds(u) PROVE KeepsQueue
  <2>1. Entries(pending) \subseteq Entries(pending')
    BY <1>0, <1>2, EntriesOfAppend DEF HandlerEnds
  <2> QED BY <1>2, <2>1, QueueGrows DEF HandlerEnds, loopVars, KeepsQueue
<1>3. ASSUME NEW l \in Loops, RunContinuous(l) PROVE KeepsQueue
  BY <1>3, QueueGrows DEF RunContinuous, BeginRound, KeepsQueue
<1>4. ASSUME NEW l \in Loops, LoopStep(l) PROVE KeepsQueue BY <1>4, LoopKeeps
<1>5. ASSUME NEW l \in Loops, CancelMain(l) PROVE KeepsQueue
  BY <1>5 DEF CancelMain, Exit, KeepsQueue
<1>6. ASSUME NEW l \in Loops, CancelExit(l) PROVE KeepsQueue
  <2>1. pc[l] # "done" /\ pc'[l] = "done"
    BY <1>0, <1>6 DEF CancelExit, Goto, ExitStages
  <2> QED BY <2>1 DEF KeepsQueue
<1>7. CASE Stop BY <1>7 DEF Stop, KeepsQueue
<1> QED BY <1>1, <1>2, <1>3, <1>4, <1>5, <1>6, <1>7 DEF Next

\* While the loop runs, an update that was accepted stays in the queue or in a
\* batch until it is merged, across failed and deferred aggregations; only a
\* model that raises, or the end of an earlier call's finally clause, drops it.
THEOREM AcceptedStays == Spec => QueueIsKept
BY Invariance, StepKeeps, PTL DEF Spec, QueueIsKept, KeepsQueue
=============================================================================
