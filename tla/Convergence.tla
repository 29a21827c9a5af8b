----------------------------- MODULE Convergence ----------------------------
(***************************************************************************)
(* The convergence monitor: it keeps the best metrics seen so far, counts  *)
(* the rounds without a better one, looks for a trend in a window of the   *)
(* losses, and says when training should stop.                             *)
(***************************************************************************)
EXTENDS Integers, Sequences, SequencesExt, FiniteSets

CONSTANTS
    LossValues,     \* values of the loss
    Accuracies,     \* values of the accuracy
    MinDelta,       \* min_delta
    Patience,       \* patience
    WindowSize,     \* window_size
    TargetLoss,     \* target_loss; below every loss: None
    TargetAccuracy, \* target_accuracy; above every accuracy: None
    Infinity,       \* above every loss
    MaxRounds       \* bound

ASSUME ConvergenceAssumption ==
    /\ LossValues \subseteq Nat /\ Accuracies \subseteq Nat /\ MinDelta \in Nat
    /\ Patience \in Nat \ {0} /\ WindowSize \in Nat \ {0}
    /\ TargetLoss \in Int /\ TargetAccuracy \in Int
    /\ Infinity \in Nat /\ \A l \in LossValues : l + MinDelta < Infinity

VARIABLES
    bestLoss, bestAccuracy,  \* _best_loss, _best_accuracy
    idle,                    \* _rounds_without_improvement
    losses,                  \* _loss_history
    status,                  \* of the last report
    stop,                    \* should_stop of the last report
    disk,                    \* state_dict of a checkpoint
    metrics                  \* history: the metrics of every round

vVars == <<bestLoss, bestAccuracy, idle, losses, status, stop, disk, metrics>>

VInit ==
    /\ bestLoss = Infinity /\ bestAccuracy = 0 /\ idle = 0 /\ losses = <<>>
    /\ status = "none" /\ stop = FALSE /\ disk = <<Infinity, 0, 0, <<>>, <<>>>>
    /\ metrics = <<>>

LastOf(s, n) == SubSeq(s, IF Len(s) > n THEN Len(s) - n + 1 ELSE 1, Len(s))

\* _mann_kendall_plateau: the pairs that rise and those that fall nearly
\* balance, |S| / (n (n-1) / 2) < 0.3
Plateau(values) ==
    LET Pairs == {p \in (DOMAIN values) \X (DOMAIN values) : p[1] < p[2]}
        Rises == {p \in Pairs : values[p[2]] - values[p[1]] > MinDelta}
        Falls == {p \in Pairs : values[p[1]] - values[p[2]] > MinDelta}
        S == Cardinality(Rises) - Cardinality(Falls)
    IN Pairs = {} \/ 10 * (IF S < 0 THEN -S ELSE S) < 3 * Cardinality(Pairs)

\* _determine_status with the fields update has just set; the diverging
\* threshold is one half
Status(loss, accuracy, best, rounds, kept) ==
    IF accuracy >= TargetAccuracy \/ loss <= TargetLoss THEN "converged"
    ELSE IF Len(kept) < WindowSize \/ WindowSize < 2 THEN "improving"
    ELSE IF Plateau(LastOf(kept, WindowSize))
         THEN IF rounds >= Patience THEN "converged" ELSE "plateau"
    ELSE IF 2 * loss > 3 * best THEN "diverging" ELSE "improving"

\* Mutant: the loss is compared with the one before instead of the best.
BetterThanLast(loss) == losses = <<>> \/ loss + MinDelta < losses[Len(losses)]

\* A loss only counts as better when it is by more than min_delta
Better(loss) == loss + MinDelta < bestLoss

\* update and should_stop.  The two clauses of the first are independent: either
\* metric resets the count.
Update(loss, accuracy) ==
    /\ Len(metrics) < MaxRounds
    /\ metrics' = Append(metrics, <<loss, accuracy>>)
    /\ losses' = LastOf(Append(losses, loss), 2 * WindowSize)
    /\ bestLoss' = IF Better(loss) THEN loss ELSE bestLoss
    /\ bestAccuracy' = IF accuracy > bestAccuracy + MinDelta THEN accuracy ELSE bestAccuracy
    /\ idle' = IF bestLoss' # bestLoss \/ bestAccuracy' # bestAccuracy THEN 0 ELSE idle + 1
    /\ status' = Status(loss, accuracy, bestLoss', idle', losses')
    /\ stop' = (status' = "converged" \/ idle' >= Patience)
    /\ UNCHANGED disk

\* state_dict goes into a checkpoint, load_state_dict takes it from there
SaveState ==
    /\ disk' = <<bestLoss, bestAccuracy, idle, losses, metrics>>
    /\ UNCHANGED <<bestLoss, bestAccuracy, idle, losses, status, stop, metrics>>

LoadState ==
    /\ bestLoss' = disk[1] /\ bestAccuracy' = disk[2] /\ idle' = disk[3]
    /\ losses' = disk[4] /\ metrics' = disk[5]
    /\ status' = "none" /\ stop' = FALSE
    /\ UNCHANGED disk

VNext ==
    \/ \E loss \in LossValues, accuracy \in Accuracies : Update(loss, accuracy)
    \/ SaveState \/ LoadState

VSpec == VInit /\ [][VNext]_vVars

-----------------------------------------------------------------------------
(* Properties.                                                               *)

Earlier == SubSeq(metrics, 1, Len(metrics) - Patience)
Recent == LastOf(metrics, Patience)

\* Training is stopped short of its targets only when none of the last
\* `patience` rounds was better than all before them by more than min_delta;
\* and it is stopped as soon as none of them was better at all.  Many small
\* improvements in a row count as one when they add up, and a checkpoint in
\* between changes nothing.
StopsOnPlateau ==
    LET last == metrics[Len(metrics)]
        short == last[1] > TargetLoss /\ last[2] < TargetAccuracy
        NotBetter(r, d) ==
            /\ \E e \in ToSet(Earlier) : r[1] + d >= e[1]
            /\ r[2] <= d \/ \E e \in ToSet(Earlier) : r[2] <= e[2] + d
    IN status # "none" =>
        /\ stop /\ short => \A r \in ToSet(Recent) : NotBetter(r, MinDelta)
        /\ (\A r \in ToSet(Recent) : NotBetter(r, 0)) => stop
=============================================================================
