---------------------------- MODULE StockCosting ----------------------------
(***************************************************************************)
(* How stock is valued (src/posting/stock.rs and values.rs): the balance   *)
(* that a pair's ledger rows fold into, and the cost of the next issue,    *)
(* by moving average or from the FIFO layers.                              *)
(*                                                                         *)
(* Quantities are whole stock units and money is in cents, so round2 is    *)
(* rounding to an integer and round3 leaves a quantity alone.  A rate is   *)
(* not whole (a price may have fractions of a cent, a FIFO rate is never   *)
(* rounded): it is a fraction, and where the code has the error of a       *)
(* double the model is exact.                                              *)
(***************************************************************************)
EXTENDS Integers, Sequences, SequencesExt

-----------------------------------------------------------------------------
(* Sequences.                                                              *)

\* FoldLeft of SequencesExt, as a recursion over the prefixes of s.
Fold(op(_, _), base, s) ==
    LET acc[i \in 0..Len(s)] == IF i = 0 THEN base ELSE op(acc[i - 1], s[i])
    IN  acc[Len(s)]

Map(s, f(_)) == [i \in DOMAIN s |-> f(s[i])]

Concat(ss) == Fold(LAMBDA acc, s : acc \o s, <<>>, ss)

\* The images under f of the elements of s, concatenated.
FlatMap(s, f(_)) == Concat(Map(s, f))

\* The elements of s that are kept, in their order.
Filter(s, Keep(_)) == FlatMap(s, LAMBDA e : IF Keep(e) THEN <<e>> ELSE <<>>)

\* The sum of an integer f over the elements of s.
Total(s, f(_)) == SumFunction(Map(s, f))

-----------------------------------------------------------------------------
(* Fractions <<n, d>> in lowest terms with d > 0.                          *)

Abs(i) == IF i < 0 THEN -i ELSE i

\* The least denominator of n / d, for d > 0.
Denominator(n, d) ==
    CHOOSE e \in 1..d : (n * e) % d = 0 /\ \A f \in 1..(e - 1) : (n * f) % d # 0

Fractions == {x \in Int \X (Nat \ {0}) : Denominator(x[1], x[2]) = x[2]}

Frac(n, d) ==
    LET s == IF d < 0 THEN -1 ELSE 1
        e == Denominator(s * n, s * d)
    IN  <<(s * n * e) \div (s * d), e>>

Whole(n) == <<n, 1>>

x ++ y == Frac(x[1] * y[2] + y[1] * x[2], x[2] * y[2])
x -- y == Frac(x[1] * y[2] - y[1] * x[2], x[2] * y[2])
x ** y == Frac(x[1] * y[1], x[2] * y[2])
x // y == Frac(x[1] * y[2], x[2] * y[1])

Negated(x) == <<-x[1], x[2]>>
Positive(x) == x[1] > 0
Zero == Whole(0)

\* The sum of a sequence of fractions, and of f over the elements of one.
FracSum(s) == Fold(LAMBDA acc, x : acc ++ x, Zero, s)
SumOver(s, f(_)) == FracSum(Map(s, f))

\* To a whole cent, halves away from zero.
round2(x) ==
    LET r == (2 * Abs(x[1]) + x[2]) \div (2 * x[2])
    IN  Whole(IF x[1] < 0 THEN -r ELSE r)

-----------------------------------------------------------------------------
(* The balance.  A ledger row has a signed quantity and a rate.            *)

Value(row) == Whole(row.qty) ** row.rate

Quantity(rows) == Total(rows, LAMBDA r : r.qty)

compute_balance(rows) ==
    LET qty   == Quantity(rows)
        value == round2(SumOver(rows, Value))
    IN  [qty   |-> qty,
         value |-> value,
         rate  |-> IF qty = 0 THEN Zero ELSE round2(value // Whole(qty))]

-----------------------------------------------------------------------------
(* FIFO.                                                                   *)

\* Up to acc.need units of one layer.
TakeLayer(acc, layer) ==
    LET take == IF layer.qty <= acc.need THEN layer.qty ELSE acc.need
    IN  [need |-> acc.need - take,
         cost |-> acc.cost ++ (Whole(take) ** layer.rate),
         left |-> IF layer.qty = take THEN acc.left
                  ELSE Append(acc.left, [layer EXCEPT !.qty = @ - take])]

NothingTaken(n) == [need |-> n, cost |-> Zero, left |-> <<>>]

\* Mutant: the newest layer goes first.
NewestFirstMutant(layers, n) ==
    LET taken == Fold(TakeLayer, NothingTaken(n), Reverse(layers))
    IN  [taken EXCEPT !.left = Reverse(@)]

\* Units taken from the oldest of the layers, at most n, and what is left.
TakeOldest(layers, n) == Fold(TakeLayer, NothingTaken(n), layers)

\* A receipt adds a layer, an issue or reversal takes from the oldest; what
\* it needs beyond the layers is forgotten.
ReplayRow(layers, row) ==
    IF row.qty > 0 THEN Append(layers, [qty |-> row.qty, rate |-> row.rate])
    ELSE TakeOldest(layers, -row.qty).left

remaining_layers(prior) == Fold(ReplayRow, <<>>, prior)

\* Units beyond the layers cost the moving average.
fifo_rate(prior, n) ==
    LET taken == TakeOldest(remaining_layers(prior), n)
        short == Whole(taken.need) ** compute_balance(prior).rate
    IN  (taken.cost ++ short) // Whole(n)

FIFO == "FIFO"

issue_rate(prior, n, method) ==
    IF n <= 0 THEN Zero
    ELSE IF method = FIFO THEN fifo_rate(prior, n)
    ELSE compute_balance(prior).rate
=============================================================================
