----------------------------- MODULE Compression ----------------------------
(***************************************************************************)
(* The compression pipeline for one tensor of weights: delta to a base,    *)
(* error feedback, top-k sparsification, linear quantization, and back.    *)
(* The residual of the error feedback lives from one call to the next.     *)
(*                                                                         *)
(* Weights are integers and arithmetic is exact.  What was quantized to L  *)
(* levels is kept multiplied by L - 1, so that it stays an integer too.    *)
(***************************************************************************)
EXTENDS Integers, FiniteSets, FiniteSetsExt, Functions

CONSTANTS
    N,          \* weights in the tensor
    Weights,    \* tensors a call may compress
    Bases,      \* tensors both sides may hold as the base
    Configs,    \* configurations, as in CompressionConfig
    Narrow,     \* values a narrow cell (uint8) can hold; a wide one is of twice the width
    NoBase,     \* no base_weights given
    MaxCalls    \* bound

\* k: weights kept, 0 without sparsification.  levels: num_levels, 0 without
\* quantization.  linear: the quantization method is the one that is implemented.
CompressionConfig ==
    [delta : BOOLEAN, k : 0..N, levels : Nat \ {1}, linear : BOOLEAN, ef : BOOLEAN]

ASSUME CompressionAssumption ==
    /\ N \in Nat \ {0} /\ Narrow \in Nat \ {0} /\ NoBase \notin Bases
    /\ Weights \subseteq [1..N -> Int] /\ Bases \subseteq [1..N -> Int]
    /\ Configs \subseteq CompressionConfig

VARIABLES
    cfg,        \* the CompressionConfig in use
    residual,   \* _residuals
    efRound,    \* _round of the error feedback
    stored,     \* the state last saved to a file
    calls,      \* calls of compress_decompress_roundtrip
    last        \* history: input, what was kept of it and output of the last call

cVars == <<cfg, residual, efRound, stored, calls, last>>

Pos == 1..N
Zero == [i \in Pos |-> 0]
Plus(v, u) == [i \in Pos |-> v[i] + u[i]]
Minus(v, u) == [i \in Pos |-> v[i] - u[i]]
Times(c, v) == [i \in Pos |-> c * v[i]]
Size(x) == IF x < 0 THEN -x ELSE x

Fresh ==
    /\ residual = Zero /\ efRound = 0 /\ stored = [residual |-> Zero, round |-> 0]
    /\ calls = 0 /\ last = [ok |-> FALSE]

CInit == cfg \in Configs /\ Fresh

-----------------------------------------------------------------------------
(* Delta and sparsification.                                                 *)

ComputeDelta(w, base) == Minus(w, base)
ApplyDelta(unit, base, d) == Plus(Times(unit, base), d)

\* argpartition keeps some k of the largest; which of equal ones is open
TopK(v, k) ==
    {S \in kSubset(k, Pos) : \A i \in S, j \in Pos \ S : Size(v[i]) >= Size(v[j])}

\* sparsify_weights: the values at the positions that are kept
Sparsify(v) ==
    IF cfg.k = 0 \/ cfg.k >= N THEN {v} ELSE {Restrict(v, S) : S \in TopK(v, cfg.k)}

IsSparse == cfg.k # 0 /\ cfg.k < N

\* desparsify_weights; a tensor of which all was kept gives way to the base
Desparsify(unit, values, base) ==
    IF cfg.k = 0 THEN values
    ELSE IF ~IsSparse THEN IF base = NoBase THEN values ELSE Times(unit, base)
    ELSE [i \in Pos |-> IF i \in DOMAIN values THEN values[i]
                        ELSE IF base = NoBase THEN 0 ELSE unit * base[i]]

-----------------------------------------------------------------------------
(* Error feedback.                                                           *)

EFActive == cfg.ef /\ cfg.k # 0

\* apply: the residual goes into the delta
Corrected(d) == IF EFActive THEN Plus(d, residual) ELSE d

\* What the receiver would see of the sparse values, before quantization
Dense(values) == Desparsify(1, values, NoBase)

\* update is handed the delta from before apply
Residual(d, values) == Minus(d, Dense(values))

-----------------------------------------------------------------------------
(* Quantization.                                                             *)

Quantizes == cfg.levels # 0
Unit == IF Quantizes THEN cfg.levels - 1 ELSE 1

\* np.round: to the nearest, ties to even; a and b are not negative, b > 0
RoundHalfEven(a, b) ==
    LET q == a \div b
        r == a % b
    IN IF 2 * r > b \/ (2 * r = b /\ q % 2 = 1) THEN q + 1 ELSE q

\* The cell a value is stored in; out of its range the outcome is the build's
Cell == IF cfg.levels <= Narrow THEN Narrow ELSE Narrow * Narrow
Stored(q) == IF q < Cell THEN {q} ELSE {q % Cell, 0}

\* _quantize_array: the codes, with scale and zero point
Quantize(values) ==
    LET lo == Min(Range(values))
        hi == Max(Range(values))
    IN IF lo = hi
       THEN {[q |-> [i \in DOMAIN values |-> 0], scale |-> 0, zero |-> lo]}
       ELSE {[q |-> code, scale |-> hi - lo, zero |-> lo] :
                code \in {c \in [DOMAIN values -> UNION {Stored(RoundHalfEven((values[i] - lo) * Unit, hi - lo))
                                                          : i \in DOMAIN values}] :
                            \A i \in DOMAIN values :
                                c[i] \in Stored(RoundHalfEven((values[i] - lo) * Unit, hi - lo))}}

\* Mutant: a tensor of equal values comes back as zeros.
DequantizeToZero(code) ==
    [i \in DOMAIN code.q |-> IF code.scale = 0 THEN 0 ELSE code.q[i] * code.scale + Unit * code.zero]

\* _dequantize_array, times Unit; a scale of 0 marks equal values
Dequantize(code) ==
    [i \in DOMAIN code.q |->
        IF code.scale = 0 THEN Unit * code.zero ELSE code.q[i] * code.scale + Unit * code.zero]

-----------------------------------------------------------------------------
(* The pipeline.                                                             *)

HasDelta(base) == cfg.delta /\ base # NoBase

\* What the values become on their way through quantization and back
Carried(values) == IF Quantizes THEN {Dequantize(c) : c \in Quantize(values)} ELSE {values}

\* decompress_weights: a delta is not filled up from the base but added to it
Decompressed(values, base) ==
    IF HasDelta(base) THEN ApplyDelta(Unit, base, Desparsify(Unit, values, NoBase))
    ELSE Desparsify(Unit, values, base)

\* compress_decompress_roundtrip.  A method that passes the configuration's
\* checks but is not implemented raises once the residual is updated.
Roundtrip(w, base) ==
    LET d == IF HasDelta(base) THEN ComputeDelta(w, base) ELSE w
        fails == Quantizes /\ ~cfg.linear
    IN /\ calls < MaxCalls
       /\ calls' = calls + 1
       /\ \E values \in Sparsify(Corrected(d)) : \E carried \in IF fails THEN {values} ELSE Carried(values) :
            /\ residual' = IF EFActive THEN Residual(d, values) ELSE residual
            /\ efRound' = IF EFActive THEN efRound + 1 ELSE efRound
            /\ last' = [w |-> w, base |-> base, input |-> Corrected(d), kept |-> DOMAIN values,
                        out |-> IF fails THEN Zero ELSE Decompressed(carried, base), ok |-> ~fails]
       /\ UNCHANGED <<cfg, stored>>

\* reset, after an aggregation
Reset ==
    /\ residual' = Zero /\ efRound' = 0
    /\ UNCHANGED <<cfg, stored, calls, last>>

\* save and, in a later process, load
Save ==
    /\ stored' = [residual |-> residual, round |-> efRound]
    /\ UNCHANGED <<cfg, residual, efRound, calls, last>>

Reload ==
    /\ residual' = stored.residual /\ efRound' = stored.round
    /\ UNCHANGED <<cfg, stored, calls, last>>

CNext ==
    \/ \E w \in Weights, base \in Bases \cup {NoBase} : Roundtrip(w, base)
    \/ Reset \/ Save \/ Reload

CSpec == CInit /\ [][CNext]_cVars

-----------------------------------------------------------------------------
(* Properties.                                                               *)

\* The widths a cell can hold, and not all of a tensor kept next to a base it
\* is no delta to: there desparsify_weights answers the base
InRange == cfg.levels <= Cell /\ ~(cfg.k >= N /\ ~cfg.delta /\ last.base # NoBase)

\* What decompress_weights makes of what compress_weights made of a tensor:
\* the weights that were kept, the largest ones, are right to half a step of
\* the quantizer, the others are those of the base.
RoundTrip ==
    last.ok /\ InRange =>
        LET target == IF HasDelta(last.base) THEN Plus(last.base, last.input) ELSE last.input
            kept == {last.input[i] : i \in last.kept}
            step == IF Quantizes THEN Max(kept) - Min(kept) ELSE 0
            rest == IF last.base = NoBase THEN Zero ELSE last.base
        IN /\ Cardinality(last.kept) = IF IsSparse THEN cfg.k ELSE N
           /\ \A i \in last.kept : 2 * Size(last.out[i] - Unit * target[i]) <= step
           /\ \A i \in Pos \ last.kept :
                /\ last.out[i] = Unit * rest[i]
                /\ \A j \in last.kept : Size(last.input[j]) >= Size(last.input[i])
=============================================================================
