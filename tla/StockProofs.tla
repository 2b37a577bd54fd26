----------------------------- MODULE StockProofs -----------------------------
(***************************************************************************)
(* Proofs about stock, for every set of documents, items and units and     *)
(* every order of submitting and cancelling: the inventory accounts agree  *)
(* with the stock ledger and with the bins, and goods go out, and come     *)
(* back, at what they cost.  One inductive invariant per question:         *)
(*                                                                         *)
(*    InventoryReconciles      InvInv                                      *)
(*    GrniClears               GrniInv                                     *)
(*    BinsMatch                BinInv                                      *)
(*    FifoIsOldestFirst        CostInv                                     *)
(*    DrainResidualBounded     CostInv                                     *)
(*    ReturnsAtOriginalCost    InvInv, CogsInv, ShapeInv and ReturnInv     *)
(***************************************************************************)
EXTENDS LedgerProofs

-----------------------------------------------------------------------------
(* Goods received and not invoiced.                                        *)

\* Whole numbers are multiplied like integers.
LEMMA WholeTimes ==
    ASSUME NEW a \in Int, NEW b \in Int PROVE Whole(a) ** Whole(b) = Whole(a * b)
  <1>1. Whole(a) ** Whole(b) = Frac(a * b, 1 * 1)
    BY DEF **, Whole
  <1>2. Whole(a * b) \in Fractions /\ Whole(a * b)[1] = a * b /\ Whole(a * b)[2] = 1
    BY WholeType DEF Whole
  <1>3. Whole(a * b) = Frac(a * b, 1)
    BY <1>2, FracSelf
  <1> QED BY <1>1, <1>3

\* A quantity in other units at the rate of those units has the same value.
LEMMA UnitValue ==
    ASSUME NEW q \in Int, NEW f \in Nat \ {0}, NEW x \in Fractions
    PROVE  Whole(q * f) ** (x // Whole(f)) = Whole(q) ** x
  <1> DEFINE a == x[1]
             b == x[2]
  <1>1. a \in Int /\ b \in Int \ {0} /\ q * f \in Int
    BY FractionType
  <1>2. x // Whole(f) = Frac(a * 1, b * f)
    BY DEF //, Whole
  <1>3. Whole(q) ** x = Frac(q * a, 1 * b)
    BY DEF **, Whole
  <1>4. Whole(q * f) = Frac(q * f, 1)
    <2>1. Whole(q * f) \in Fractions /\ Whole(q * f)[1] = q * f /\ Whole(q * f)[2] = 1
      BY <1>1, WholeType DEF Whole
    <2> QED BY <2>1, FracSelf
  <1> HIDE DEF a, b
  <1>5. a * 1 = a /\ 1 * b = b /\ b * f \in Int \ {0} /\ 1 * (b * f) = b * f
    BY <1>1
  <1>6. Frac(q * f, 1) ** Frac(a, b * f) = Frac((q * f) * a, 1 * (b * f))
    BY <1>1, <1>5, FracTimes
  <1>7. ((q * f) * a) * b = (q * a) * (b * f)
    BY <1>1
  <1>8. (q * f) * a \in Int /\ q * a \in Int
    BY <1>1
  <1>9. Frac((q * f) * a, b * f) = Frac(q * a, b)
    BY <1>1, <1>5, <1>7, <1>8, FracCong
  <1> QED BY <1>2, <1>3, <1>4, <1>5, <1>6, <1>9

\* The accounts of a voucher without stock, seen from accounts it never uses.
LEMMA MonetaryElsewhere ==
    ASSUME NEW w, IsSettled(w), Apart(w), VatOnly(w), NEW A \in SUBSET Compared,
           "receivable" \notin A, "payable" \notin A, "vat" \notin A,
           w.doctype = "JournalEntry" =>
              \A i \in DOMAIN journal_rows(w) : journal_rows(w)[i].account \notin A
    PROVE  MonetarySum(w, A) = Zero
  <1>1. \A a : Free(a) => a \notin A
    BY DEF Free
  <1>2. /\ FracSum(MapF(tax_legs(w, 1), OnAmount(A))) = Zero
        /\ FracSum(MapF(tax_legs(w, -1), OnAmount(A))) = Zero
    <2>1. 1 \in Int /\ -1 \in Int
      OBVIOUS
    <2> QED BY <2>1, TaxLegsOn
  <1>3. (Zero ++ Zero) ++ Zero = Zero /\ Zero ++ Zero = Zero
    BY ZeroSums
  <1>4. CASE w.doctype = "SalesInvoice"
    BY <1>1, <1>2, <1>3, <1>4, InvoiceSums DEF Apart
  <1>5. CASE w.doctype = "PurchaseInvoice"
    BY <1>1, <1>2, <1>3, <1>5, InvoiceSums DEF Apart
  <1>6. CASE w.doctype = "POSInvoice"
    BY <1>1, <1>2, <1>3, <1>6, InvoiceSums DEF Apart
  <1>7. CASE w.doctype = "PaymentEntry"
    <2>1. w.paid_from \notin A /\ w.paid_to \notin A
      BY <1>1, <1>7 DEF Apart
    <2> QED BY <1>3, <1>7, <2>1, OtherSums
  <1>8. CASE w.doctype = "Expense"
    <2>1. /\ w.expense_account \notin A /\ w.paid_from \notin A /\ w.credit_to \notin A
          /\ (w.tax_amount # 0 => w.tax_account \notin A)
      BY <1>1, <1>8 DEF Apart
    <2>2. (IF w.is_paid THEN w.paid_from ELSE w.credit_to) \notin A
      BY <2>1
    <2> QED BY <1>3, <1>8, <2>1, <2>2, OtherSums
  <1>9. CASE w.doctype = "CustomerDeposit"
    <2>1. w.cash_account \notin A /\ w.deposit_account \notin A
      BY <1>1, <1>9 DEF Apart
    <2> QED BY <1>3, <1>9, <2>1, OtherSums
  <1>10. CASE w.doctype = "JournalEntry"
    <2> DEFINE j == journal_rows(w)
               s == [i \in DOMAIN j |-> OnAmount(A)[JournalLeg[j[i]]]]
    <2>1. j \in Seq(Entries) /\ MonetarySum(w, A) = FracSum(s)
      BY <1>10, JournalSums
    <2>2. ASSUME NEW i \in 1..Len(j) PROVE OnAmount(A)[JournalLeg[j[i]]] = Zero
      <3>1. j[i] \in Entries /\ j[i].account \notin A
        BY <1>10, <2>1
      <3> HIDE DEF j
      <3>2. /\ j[i].account \in Accounts /\ j[i].debit - j[i].credit \in Int
            /\ JournalLeg[j[i]] = Gl("journal", j[i].account, j[i].debit - j[i].credit)
        BY <3>1, EntryType, NamesAreAccounts DEF JournalLeg
      <3> QED BY <3>1, <3>2, GlOn, IdsAre
    <2>3. s \in Seq({Zero})
      <3> HIDE DEF j
      <3> QED BY <2>1, <2>2
    <2> HIDE DEF s
    <2> QED BY <2>1, <2>3, FracSumZero
  <1>11. CASE w.doctype \notin {"SalesInvoice", "PurchaseInvoice", "POSInvoice", "PaymentEntry",
                                "Expense", "CustomerDeposit", "JournalEntry"}
    BY <1>11, OtherSums
  <1> QED BY <1>4, <1>5, <1>6, <1>7, <1>8, <1>9, <1>10, <1>11

\* A product of integers, known to the provers as one number.
LEMMA ProductOrder ==
    ASSUME NEW a \in Int, NEW b \in Int, NEW c \in Nat \ {0}
    PROVE  a * c <= b * c <=> a <= b
  <1>1. a <= b => a * c <= b * c
    OBVIOUS
  <1>2. b + 1 <= a => (b + 1) * c <= a * c
    OBVIOUS
  <1>3. (b + 1) * c = b * c + c /\ b * c \in Int /\ a * c \in Int
    OBVIOUS
  <1> QED BY <1>1, <1>2, <1>3

\* A fraction of at most n halves of a cent, either way.
Within(x, n) == 2 * x[1] <= n * x[2] /\ -(n * x[2]) <= 2 * x[1]

\* Nothing is within anything.
LEMMA WithinZero == \A n \in Nat : Within(Zero, n)
  BY DEF Within, Zero, Whole

\* Roundings add up.
LEMMA WithinPlus ==
    ASSUME NEW x \in Fractions, NEW y \in Fractions, NEW m \in Int, NEW n \in Int,
           Within(x, m), Within(y, n)
    PROVE  Within(x ++ y, m + n)
  <1> DEFINE a == x[1]
             b == x[2]
             c == y[1]
             d == y[2]
             e == (x ++ y)[1]
             f == (x ++ y)[2]
             p == b * d
             q == a * d + c * b
             k == m + n
  <1>1. a \in Int /\ b \in Nat \ {0} /\ c \in Int /\ d \in Nat \ {0} /\ e \in Int /\ f \in Nat \ {0}
    BY PlusIs, FractionType
  <1>2. e * p = q * f
    BY PlusIs
  <1>3. 2 * a <= m * b /\ -(m * b) <= 2 * a /\ 2 * c <= n * d /\ -(n * d) <= 2 * c
    BY DEF Within
  <1> HIDE DEF a, b, c, d, e, f
  <1>4. p \in Nat \ {0} /\ q \in Int /\ k \in Int
    BY <1>1
  <1>5. 2 * q <= k * p /\ -(k * p) <= 2 * q
    <2>1. (2 * a) * d <= (m * b) * d /\ (-(m * b)) * d <= (2 * a) * d
      BY <1>1, <1>3, ProductOrder
    <2>2. (2 * c) * b <= (n * d) * b /\ (-(n * d)) * b <= (2 * c) * b
      BY <1>1, <1>3, ProductOrder
    <2>3. /\ (2 * a) * d = 2 * (a * d) /\ (2 * c) * b = 2 * (c * b)
          /\ (m * b) * d = m * p /\ (n * d) * b = n * p
          /\ (-(m * b)) * d = -(m * p) /\ (-(n * d)) * b = -(n * p)
      BY <1>1
    <2>4. k * p = m * p + n * p /\ m * p \in Int /\ n * p \in Int /\ a * d \in Int /\ c * b \in Int
      BY <1>1, <1>4
    <2> HIDE DEF p, k
    <2> QED BY <2>1, <2>2, <2>3, <2>4
  <1> HIDE DEF p, q, k
  <1>6. (2 * e) * p <= (k * f) * p /\ (-(k * f)) * p <= (2 * e) * p
    <2>1. (2 * q) * f <= (k * p) * f /\ (-(k * p)) * f <= (2 * q) * f
      BY <1>1, <1>4, <1>5, ProductOrder
    <2>2. (2 * q) * f = 2 * (e * p) /\ (2 * e) * p = 2 * (e * p)
      BY <1>1, <1>2, <1>4
    <2>3. (k * p) * f = (k * f) * p /\ (-(k * p)) * f = (-(k * f)) * p
      BY <1>1, <1>4
    <2> QED BY <2>1, <2>2, <2>3
  <1>7. 2 * e <= k * f /\ -(k * f) <= 2 * e
    <2>1. 2 * e \in Int /\ k * f \in Int /\ -(k * f) \in Int
      BY <1>1, <1>4
    <2> QED BY <1>4, <1>6, <2>1, ProductOrder
  <1> QED BY <1>7 DEF Within, e, f, k

\* Fractions with the halves of a cent they are made of.
Roundings == {p \in Fractions \X Int : Within(p[1], p[2])}

\* The sum of roundings is within the sum of their bounds.
LEMMA WithinSum ==
    ASSUME NEW s \in Seq(Roundings)
    PROVE  Within(FracSum([i \in DOMAIN s |-> s[i][1]]), SumFunction([i \in DOMAIN s |-> s[i][2]]))
  <1> DEFINE X(u) == [i \in DOMAIN u |-> u[i][1]]
             N(u) == [i \in DOMAIN u |-> u[i][2]]
             P == {u \in Seq(Roundings) : Within(FracSum(X(u)), SumFunction(N(u)))}
  <1>1. <<>> \in P
    <2>1. X(<<>>) = <<>> /\ N(<<>>) = <<>> /\ <<>> \in Seq(Roundings)
      OBVIOUS
    <2>2. Within(FracSum(X(<<>>)), SumFunction(N(<<>>)))
      BY <2>1, IntSumEmpty, FracSumEmpty, WithinZero
    <2> HIDE DEF X, N
    <2> QED BY <2>1, <2>2
  <1>2. ASSUME NEW u \in Seq(Roundings), NEW p \in Roundings, u \in P PROVE Append(u, p) \in P
    <2>1. /\ \A i \in DOMAIN u : u[i][1] \in Fractions /\ u[i][2] \in Int
          /\ p[1] \in Fractions /\ p[2] \in Int /\ Within(p[1], p[2])
      BY DEF Roundings
    <2>2. X(u) \in Seq(Fractions) /\ N(u) \in Seq(Int)
      <3>1. DOMAIN u = 1..Len(u) /\ Len(u) \in Nat
        OBVIOUS
      <3> DEFINE x == X(u)
                 n == N(u)
      <3>2. x \in [1..Len(u) -> Fractions] /\ n \in [1..Len(u) -> Int]
        BY <2>1, <3>1
      <3> HIDE DEF x, n
      <3>3. x \in Seq(Fractions) /\ n \in Seq(Int)
        BY <3>1, <3>2
      <3> QED BY <3>3 DEF x, n
    <2>3. X(Append(u, p)) = Append(X(u), p[1]) /\ N(Append(u, p)) = Append(N(u), p[2])
      OBVIOUS
    <2>4. Within(FracSum(X(u)), SumFunction(N(u))) /\ Append(u, p) \in Seq(Roundings)
      BY <1>2
    <2> HIDE DEF X, N
    <2>5. /\ FracSum(X(Append(u, p))) = FracSum(X(u)) ++ p[1] /\ FracSum(X(u)) \in Fractions
          /\ SumFunction(N(Append(u, p))) = SumFunction(N(u)) + p[2] /\ SumFunction(N(u)) \in Int
      BY <2>1, <2>2, <2>3, FracSumAppend, FracSumType, IntSumAppend, IntSumType
    <2>6. Within(FracSum(X(u)) ++ p[1], SumFunction(N(u)) + p[2])
      BY <2>1, <2>4, <2>5, WithinPlus
    <2> QED BY <2>4, <2>5, <2>6
  <1> HIDE DEF P
  <1>3. s \in P
    BY <1>1, <1>2, SeqInduct
  <1> QED BY <1>3 DEF P

\* The lines of a bill that receives its own goods, and their stock rows.
GoodLines(w) ==
    {l \in Lines : /\ l.qty > 0 /\ l.valuation_rate = None /\ line_amount(l) = round2(Worth(l))[1]
                   /\ Default(l.warehouse, w.set_warehouse) # None}
Receipts == {r \in Moves : r.trans_type = "Receipt" /\ r.qty > 0}

\* Received at the rate of its line, a row is worth what the line says.
LEMMA ReceiptValue ==
    ASSUME NEW w, w.is_return = FALSE, NEW rows, NEW r \in Receipts
    PROVE  Value(CostOf(w, rows, r)) = Value(r)
  <1> DEFINE f == uom_factor(r.item, r.uom)
  <1>1. f \in Nat \ {0}
    BY FactorType
  <1>2. r \in Moves /\ r.trans_type = "Receipt" /\ r.qty > 0 /\ r.qty \in Int /\ r.rate \in Fractions
    BY MoveType DEF Receipts
  <1> HIDE DEF f
  <1>3. r.qty * f > 0 /\ r.qty * f \in Int
    BY <1>1, <1>2
  <1>4. CostRate(w, rows, r) = r.rate // Whole(f)
    <2>1. ~(r.qty * f < 0) /\ r.qty * f # 0
      BY <1>3
    <2>2. CostRate(w, rows, r) = ReceiptRate(r, f)
      BY <1>2, <2>1 DEF CostRate, f
    <2> QED BY <2>2 DEF ReceiptRate
  <1>5. CostOf(w, rows, r).qty = r.qty * f /\ CostOf(w, rows, r).rate = CostRate(w, rows, r)
    BY <1>2 DEF CostOf, Units, Moves, f
  <1> QED BY <1>1, <1>2, <1>4, <1>5, UnitValue DEF Value

\* What a line of such a bill takes from the expense, and what it puts into
\* stock.
StockedValue == [r \in Moves |-> IF r \in Stocked THEN Value(r) ELSE Zero]
LineNet(l) == IF IsStockLine(l) THEN line_amount(l) ELSE 0
LineWorth(l) == IF IsStockLine(l) THEN Worth(l) ELSE Zero
UnevenOf(l) == IF Uneven(l) THEN 1 ELSE 0
Unevens(v) == SumFunction([i \in DOMAIN v.items |-> UnevenOf(v.items[i])])

\* The lines that may be rounded are counted; nothing is within any such count.
LEMMA UnevenCount ==
    ASSUME NEW v, v.items \in Seq(Lines) PROVE Unevens(v) \in Int /\ Within(Zero, Unevens(v))
  <1> DEFINE u == [i \in DOMAIN v.items |-> UnevenOf(v.items[i])]
             s == [i \in DOMAIN v.items |-> <<Zero, UnevenOf(v.items[i])>>]
             z == [i \in DOMAIN s |-> s[i][1]]
  <1>1. \A i \in 1..Len(v.items) : UnevenOf(v.items[i]) \in Nat
    BY DEF UnevenOf
  <1>2. \A n \in Nat : <<Zero, n>> \in Roundings
    BY ZeroType, WithinZero DEF Roundings
  <1>3. u \in Seq(Int) /\ DOMAIN s = DOMAIN u
    BY <1>1
  <1>4. s \in Seq(Roundings)
    BY <1>1, <1>2
  <1>5. z \in Seq({Zero})
    <2>1. DOMAIN s = 1..Len(v.items) /\ Len(v.items) \in Nat
      OBVIOUS
    <2>2. \A i \in DOMAIN s : s[i][1] = Zero
      OBVIOUS
    <2>3. z \in [1..Len(v.items) -> {Zero}]
      BY <2>1, <2>2
    <2> HIDE DEF z
    <2> QED BY <2>1, <2>3
  <1>6. [i \in DOMAIN s |-> s[i][2]] = u
    OBVIOUS
  <1> HIDE DEF u, s
  <1>7. Within(FracSum(z), SumFunction(u))
    BY <1>4, <1>6, WithinSum
  <1> QED BY <1>3, <1>5, <1>7, FracSumZero, IntSumType DEF Unevens, u

\* A line is off by half a cent at most, and only where its worth is not a
\* whole number of cents.
LEMMA LineRounding ==
    ASSUME NEW w, NEW l \in GoodLines(w)
    PROVE  <<Whole(LineNet(l)) ++ Negated(LineWorth(l)), UnevenOf(l)>> \in Roundings
  <1> DEFINE W == Worth(l)
             z == Whole(LineNet(l)) ++ Negated(LineWorth(l))
  <1>1. W \in Fractions /\ line_amount(l) \in Int /\ line_amount(l) = round2(W)[1]
    BY LineType DEF GoodLines
  <1>2. W[1] \in Int /\ W[2] \in Nat \ {0} /\ Negated(W) = <<-W[1], W[2]>> /\ Negated(W) \in Fractions
    BY <1>1, FractionType, NegatedType DEF Negated
  <1>3. PICK r \in Int : /\ round2(W) = Whole(r)
                         /\ 2 * (W[1] - r * W[2]) <= W[2] /\ -W[2] <= 2 * (W[1] - r * W[2])
    BY <1>1, RoundIs
  <1>4. line_amount(l) = r /\ Whole(r) \in Fractions /\ Whole(r)[1] = r /\ Whole(r)[2] = 1
    BY <1>1, <1>3, WholeType DEF Whole
  <1>5. CASE ~IsStockLine(l)
    <2>1. z = Zero /\ UnevenOf(l) = 0
      BY <1>5, NegatedZero, ZeroSums DEF LineNet, LineWorth, UnevenOf, Uneven, Zero
    <2> QED BY <2>1, WithinZero, ZeroType DEF Roundings
  <1>6. CASE IsStockLine(l) /\ round2(W) = W
    <2>1. z = W ++ Negated(W) /\ UnevenOf(l) = 0
      BY <1>3, <1>4, <1>6 DEF LineNet, LineWorth, UnevenOf, Uneven
    <2>2. z = Zero
      BY <1>1, <2>1, PlusNegated
    <2> QED BY <2>1, <2>2, WithinZero, ZeroType DEF Roundings
  <1>7. CASE IsStockLine(l) /\ round2(W) # W
    <2>1. z = Whole(r) ++ Negated(W) /\ UnevenOf(l) = 1
      BY <1>4, <1>7 DEF LineNet, LineWorth, UnevenOf, Uneven
    <2> HIDE DEF W, z
    <2>2. z \in Fractions /\ z[1] \in Int /\ z[2] \in Nat \ {0}
      BY <1>2, <1>4, <2>1, PlusIs, FractionType
    <2>3. z[1] * (Whole(r)[2] * Negated(W)[2]) =
            (Whole(r)[1] * Negated(W)[2] + Negated(W)[1] * Whole(r)[2]) * z[2]
      BY <1>2, <1>4, <2>1, PlusIs
    <2> DEFINE b == W[2]
               t == r * b - W[1]
    <2>4. b \in Nat \ {0} /\ t \in Int /\ 2 * t <= b /\ -b <= 2 * t
      BY <1>2, <1>3
    <2>5. z[1] * b = t * z[2]
      <3>1. Negated(W)[1] = -W[1] /\ Negated(W)[2] = b
        BY <1>2
      <3>2. z[1] * (1 * b) = (r * b + (-W[1]) * 1) * z[2]
        BY <1>4, <2>3, <3>1
      <3>3. 1 * b = b /\ r * b + (-W[1]) * 1 = t
        BY <1>2
      <3> QED BY <3>2, <3>3
    <2> HIDE DEF b, t
    <2>6. (2 * z[1]) * b <= z[2] * b /\ (-z[2]) * b <= (2 * z[1]) * b
      <3>1. (2 * t) * z[2] <= b * z[2] /\ (-b) * z[2] <= (2 * t) * z[2]
        BY <2>2, <2>4, ProductOrder
      <3>2. (2 * t) * z[2] = 2 * (t * z[2]) /\ (2 * z[1]) * b = 2 * (z[1] * b)
        BY <2>2, <2>4
      <3>3. b * z[2] = z[2] * b /\ (-b) * z[2] = (-z[2]) * b
        BY <2>2, <2>4
      <3> QED BY <2>5, <3>1, <3>2, <3>3
    <2>7. 2 * z[1] <= z[2] /\ -z[2] <= 2 * z[1]
      BY <2>2, <2>4, <2>6, ProductOrder
    <2>8. Within(z, 1)
      BY <2>2, <2>7 DEF Within
    <2> QED BY <2>1, <2>2, <2>8 DEF Roundings, z
  <1> QED BY <1>5, <1>6, <1>7

\* What a new row of a stocked item is worth.
LEMMA StockedValueType == StockedValue \in [Moves -> Fractions]
  <1>1. \A r \in Moves : Value(r) \in Fractions
    BY ValueType DEF StockRows
  <1> QED BY <1>1, ZeroType DEF StockedValue

\* A line of goods is received at its worth.
LEMMA LineValue ==
    ASSUME NEW w, IsSettled(w), NEW l \in GoodLines(w)
    PROVE  /\ DocRow(w, 1, "Receipt", l) \in Seq(Receipts)
           /\ FracSum(MapF(DocRow(w, 1, "Receipt", l), StockedValue)) = LineWorth(l)
  <1> DEFINE h == Default(l.warehouse, w.set_warehouse)
             r == Sle("Receipt", l, h, 1 * l.qty, Default(l.valuation_rate, l.rate))
  <1>1. l \in Lines /\ l.qty > 0 /\ l.valuation_rate = None /\ h # None
    BY DEF GoodLines
  <1>2. l.qty \in Int /\ l.rate \in Fractions /\ l.warehouse \in Names /\ w.set_warehouse \in Names
    BY <1>1, LineType DEF IsSettled
  <1>3. h \in Names
    BY <1>2 DEF Default
  <1>4. DocRow(w, 1, "Receipt", l) = IF l.item = None THEN <<>> ELSE <<r>>
    BY <1>1 DEF DocRow
  <1> HIDE DEF h
  <1>5. Default(l.valuation_rate, l.rate) = l.rate /\ 1 * l.qty = l.qty
    BY <1>1, <1>2 DEF Default
  <1>6. r \in Moves
    BY <1>1, <1>2, <1>3, <1>5, SleType DEF TransTypes
  <1>7. /\ r.item = l.item /\ r.qty = l.qty /\ r.rate = l.rate /\ r.trans_type = "Receipt"
    BY <1>5 DEF Sle
  <1> HIDE DEF r
  <1>8. Value(r) = Worth(l)
    BY <1>7 DEF Value, Worth
  <1>9. StockedValue[r] = IF is_stock_item_type(l.item) THEN Worth(l) ELSE Zero
    BY <1>6, <1>7, <1>8 DEF StockedValue, Stocked
  <1>10. CASE l.item = None
    <2>1. LineWorth(l) = Zero /\ DocRow(w, 1, "Receipt", l) = <<>>
      BY <1>4, <1>10 DEF LineWorth, IsStockLine
    <2>2. <<>> \in Seq(Receipts)
      OBVIOUS
    <2> QED BY <2>1, <2>2, SumNone
  <1>11. CASE l.item # None
    <2>1. DocRow(w, 1, "Receipt", l) = <<r>>
      BY <1>4, <1>11
    <2>2. r \in Receipts
      BY <1>1, <1>6, <1>7 DEF Receipts
    <2>3. FracSum(MapF(<<r>>, StockedValue)) = StockedValue[r]
      BY <1>6, StockedValueType, SumOne
    <2>4. LineWorth(l) = IF is_stock_item_type(l.item) THEN Worth(l) ELSE Zero
      BY <1>11 DEF LineWorth, IsStockLine
    <2>5. <<r>> \in Seq(Receipts)
      BY <2>2
    <2> QED BY <1>9, <2>1, <2>3, <2>4, <2>5
  <1> QED BY <1>10, <1>11

\* The goods a bill receives are worth the net of its stocked lines, but for
\* the rounding.
LEMMA ReceivedValue ==
    ASSUME NEW w, IsSettled(w), w.doctype = "PurchaseInvoice", w.update_stock = TRUE,
           w.items \in Seq(GoodLines(w))
    PROVE  /\ derive_stock_rows(w) \in Seq(Receipts)
           /\ FracSum(MapF(derive_stock_rows(w), ValueOf)) \in Fractions
           /\ Within(StockNet(w) ++ Negated(FracSum(MapF(derive_stock_rows(w), ValueOf))), Unevens(w))
  <1> DEFINE ss == [i \in DOMAIN w.items |-> DocRow(w, 1, "Receipt", w.items[i])]
             raw == Concat(ss)
             s == Keep(raw, Stocked)
             a == [i \in DOMAIN w.items |-> LineNet(w.items[i])]
             b == [i \in DOMAIN w.items |-> LineWorth(w.items[i])]
             c == [i \in DOMAIN a |-> Whole(a[i])]
             n == [i \in DOMAIN b |-> Negated(b[i])]
             p == [i \in DOMAIN w.items |->
                     <<Whole(LineNet(w.items[i])) ++ Negated(LineWorth(w.items[i])), UnevenOf(w.items[i])>>]
  <1>1. "Receipt" \in TransTypes /\ 1 \in Int
    BY DEF TransTypes
  <1>2. raw = RawRows(w) /\ raw = stock_document_rows(w, 1, "Receipt")
    BY <1>1, DocRowsAre DEF RawRows
  <1>3. derive_stock_rows(w) = s
    BY <1>2, StockRowsAre
  <1>4. \A i \in DOMAIN w.items : w.items[i] \in GoodLines(w)
    OBVIOUS
  <1>5. \A i \in DOMAIN w.items :
           /\ DocRow(w, 1, "Receipt", w.items[i]) \in Seq(Receipts)
           /\ FracSum(MapF(DocRow(w, 1, "Receipt", w.items[i]), StockedValue)) = LineWorth(w.items[i])
    BY <1>4, LineValue
  <1>6. ss \in Seq(Seq(Receipts))
    <2> DEFINE e(i) == DocRow(w, 1, "Receipt", w.items[i])
               T == Seq(Receipts)
    <2>1. w.items \in Seq(Lines)
      BY DEF IsSettled
    <2>2. \A i \in DOMAIN w.items : e(i) \in T
      BY <1>5
    <2> HIDE DEF e, T
    <2>3. [i \in DOMAIN w.items |-> e(i)] \in Seq(T)
      BY <2>1, <2>2
    <2> QED BY <2>3 DEF e, T
  <1>7. raw \in Seq(Receipts)
    <2> HIDE DEF ss
    <2> QED BY <1>6, ConcatType
  <1>8. s \in Seq(Receipts)
    <2> HIDE DEF raw
    <2> QED BY <1>7, KeepIn
  <1>9. ss \in Seq(Seq(Moves)) /\ raw \in Seq(Moves)
    BY <1>1, DocRowsAre
  <1>10. FracSum(MapF(raw, StockedValue)) = FracSum([i \in DOMAIN ss |-> FracSum(MapF(ss[i], StockedValue))])
    <2> HIDE DEF ss
    <2> QED BY <1>9, StockedValueType, SumFlat
  <1>11. [i \in DOMAIN ss |-> FracSum(MapF(ss[i], StockedValue))] = b
    BY <1>5
  <1>12. a \in Seq(Int) /\ b \in Seq(Fractions)
    <2>1. \A i \in DOMAIN w.items : w.items[i] \in Lines
      BY <1>4 DEF GoodLines
    <2>2. \A i \in DOMAIN w.items : LineNet(w.items[i]) \in Int /\ LineWorth(w.items[i]) \in Fractions
      BY <2>1, LineType, ZeroType DEF LineNet, LineWorth
    <2>3. DOMAIN w.items = 1..Len(w.items) /\ Len(w.items) \in Nat
      BY DEF IsSettled
    <2>4. a \in [1..Len(w.items) -> Int] /\ b \in [1..Len(w.items) -> Fractions]
      BY <2>2, <2>3
    <2> HIDE DEF a, b
    <2> QED BY <2>3, <2>4
  <1>13. StockNet(w) = Whole(SumFunction(a))
    BY DEF StockNet, Total, Map, LineNet
  <1>14. Within(StockNet(w) ++ Negated(FracSum(b)), Unevens(w)) /\ FracSum(b) \in Fractions
    <2>1. p \in Seq(Roundings)
      <3> DEFINE e(i) == <<Whole(LineNet(w.items[i])) ++ Negated(LineWorth(w.items[i])), UnevenOf(w.items[i])>>
      <3>1. \A i \in DOMAIN w.items : e(i) \in Roundings
        BY <1>4, LineRounding
      <3>2. w.items \in Seq(Lines)
        BY DEF IsSettled
      <3> HIDE DEF e
      <3>3. [i \in DOMAIN w.items |-> e(i)] \in Seq(Roundings)
        BY <3>1, <3>2
      <3> QED BY <3>3 DEF e
    <2>2. /\ [i \in DOMAIN p |-> p[i][1]] = [i \in DOMAIN c |-> c[i] ++ n[i]]
          /\ [i \in DOMAIN p |-> p[i][2]] = [i \in DOMAIN w.items |-> UnevenOf(w.items[i])]
      OBVIOUS
    <2>3. DOMAIN a = DOMAIN b
      OBVIOUS
    <2> HIDE DEF a, b, p
    <2>4. c \in Seq(Fractions) /\ n \in Seq(Fractions) /\ Len(c) = Len(n)
      <3>1. Len(a) = Len(b)
        BY <1>12, <2>3
      <3>2. \A i \in 1..Len(a) : Whole(a[i]) \in Fractions /\ Negated(b[i]) \in Fractions
        BY <1>12, <3>1, WholeType, NegatedType
      <3> QED BY <1>12, <3>1, <3>2
    <2>5. FracSum(c) = StockNet(w) /\ FracSum(n) = Negated(FracSum(b)) /\ FracSum(b) \in Fractions
      BY <1>12, <1>13, WholeSum, FracSumNegated, FracSumType
    <2> HIDE DEF c, n
    <2>6. FracSum([i \in DOMAIN c |-> c[i] ++ n[i]]) = StockNet(w) ++ Negated(FracSum(b))
      BY <2>4, <2>5, FracSumPlus
    <2>7. Within(FracSum([i \in DOMAIN p |-> p[i][1]]), SumFunction([i \in DOMAIN p |-> p[i][2]]))
      BY <2>1, WithinSum
    <2> QED BY <2>2, <2>5, <2>6, <2>7 DEF Unevens
  <1> HIDE DEF a, b, ss
  <1> HIDE DEF raw
  <1>15. FracSum(MapF(s, ValueOf)) = FracSum(MapF(raw, StockedValue))
    <2>1. raw \in Seq(StockRows) /\ ValueOf \in [StockRows -> Fractions]
      BY <1>9, SubRows, MeasureTypes
    <2>2. FracSum(MapF(s, ValueOf)) =
            FracSum([i \in DOMAIN raw |-> IF raw[i] \in Stocked THEN ValueOf[raw[i]] ELSE Zero])
      BY <2>1, SumKeep
    <2>3. \A i \in DOMAIN raw : raw[i] \in Moves /\ raw[i] \in StockRows
      BY <1>9, <2>1
    <2>4. \A i \in DOMAIN raw :
             StockedValue[raw[i]] = IF raw[i] \in Stocked THEN ValueOf[raw[i]] ELSE Zero
      BY <2>3 DEF StockedValue, ValueOf
    <2>5. MapF(raw, StockedValue) =
            [i \in DOMAIN raw |-> IF raw[i] \in Stocked THEN ValueOf[raw[i]] ELSE Zero]
      BY <2>4 DEF MapF
    <2> QED BY <2>2, <2>5
  <1> QED BY <1>3, <1>8, <1>10, <1>11, <1>14, <1>15

\* A bill posts its costed receipts against GRNI and nothing else does.
LEMMA ReceiptLegs ==
    ASSUME sles \in Seq(Sles), NEW v, SeparateAccounts(v), NEW w, IsSettled(w),
           w.doctype = v.doctype, w.doctype = "PurchaseInvoice", w.is_return = FALSE,
           derive_stock_rows(w) \in Seq(Receipts)
    PROVE  StockSum(w, Moved(w), {"grni"}) = Negated(FracSum(MapF(derive_stock_rows(w), ValueOf)))
  <1> DEFINE s == derive_stock_rows(w)
             c == Costed(w)
             m == Moved(w)
             f == MapF(s, ValueOf)
  <1>1. /\ s \in Seq(Moves) /\ c \in Seq(Moves) /\ m \in Seq(Moves)
        /\ Len(c) = Len(s) /\ Len(m) = Len(s) /\ s \in Seq(StockRows)
    BY MovedType, SubRows
  <1>2. \A i \in 1..Len(s) : c[i] = CostOf(w, SubSeq(c, 1, i - 1), s[i])
    <2>1. c = CostRows(w, s) /\ w.is_return \in BOOLEAN
      BY DEF Costed
    <2> HIDE DEF c, s
    <2> QED BY <1>1, <2>1, CostRowsAre
  <1>3. \A i \in 1..Len(s) : m[i] = IF Spreads(w, c) THEN Respread(w, c, c[i]) ELSE c[i]
    BY <1>1, SpreadIs DEF Moved
  <1>4. \A i \in 1..Len(s) : s[i] \in Receipts
    OBVIOUS
  <1> HIDE DEF s, c, m
  <1>5. ASSUME NEW i \in 1..Len(s) PROVE LegSum(w, m[i], {"grni"}) = Negated(ValueOf[s[i]])
    <2>1. s[i] \in Receipts /\ s[i] \in Moves /\ s[i] \in StockRows
      BY <1>4 DEF Receipts, StockRows
    <2> DEFINE rows == SubSeq(c, 1, i - 1)
    <2>10. c[i] = CostOf(w, rows, s[i])
      BY <1>2
    <2> HIDE DEF rows
    <2>11. Value(CostOf(w, rows, s[i])) = Value(s[i])
      BY <2>1, ReceiptValue
    <2>2. Value(c[i]) = Value(s[i])
      BY <2>10, <2>11
    <2>3. c[i].trans_type = "Receipt"
      BY <2>1, <2>10 DEF CostOf, Receipts, Moves
    <2>4. m[i] = c[i]
      BY <1>3, <2>3 DEF Respread, IsOutput
    <2>5. ValueOf[s[i]] = Value(s[i]) /\ Value(s[i]) \in Fractions /\ Negated(Value(s[i])) \in Fractions
      BY <2>1, ValueType, NegatedType DEF ValueOf
    <2>6. Counter(w, m[i]) = "grni"
      BY CounterIn
    <2>7. InventoryAccount(m[i]) \notin {"grni"}
      BY InventoryAccountIn DEF SeparateAccounts, ControlAccounts
    <2>8. CASE Value(s[i]) = Zero
      BY <2>2, <2>4, <2>5, <2>8, NegatedZero DEF LegSum, PostsNone
    <2>9. CASE Value(s[i]) # Zero
      <3>1. ~PostsNone(m[i])
        BY <2>2, <2>3, <2>4, <2>9 DEF PostsNone
      <3>2. LegSum(w, m[i], {"grni"}) = Zero ++ Negated(Value(s[i]))
        BY <2>2, <2>4, <2>6, <2>7, <3>1 DEF LegSum
      <3> QED BY <2>5, <3>2, PlusZero
    <2> QED BY <2>8, <2>9
  <1>6. f \in Seq(Fractions) /\ DOMAIN f = DOMAIN s
    BY <1>1, MeasureTypes, MapType DEF MapF
  <1>7. [i \in DOMAIN m |-> LegSum(w, m[i], {"grni"})] = [i \in DOMAIN f |-> Negated(f[i])]
    <2>1. DOMAIN m = 1..Len(s) /\ DOMAIN s = 1..Len(s)
      BY <1>1
    <2>2. \A i \in 1..Len(s) : f[i] = ValueOf[s[i]]
      BY <2>1 DEF MapF
    <2> HIDE DEF f
    <2> QED BY <1>5, <1>6, <2>1, <2>2
  <1> HIDE DEF f
  <1>8. FracSum([i \in DOMAIN f |-> Negated(f[i])]) = Negated(FracSum(f))
    BY <1>6, FracSumNegated
  <1> QED BY <1>7, <1>8 DEF StockSum, s, m, f

GrniInv ==
    \A d \in Docs : SeparateAccounts(Vouchers[d]) /\ ReceivesItsGoods(Vouchers[d]) =>
        Within(FracSum(MapF(gl[d], OnAmount({"grni"}))), Unevens(Vouchers[d]))

\* The lines of a valid bill that receives its goods.
LEMMA GoodItems ==
    ASSUME NEW v \in Payloads, NEW w, SameFields(w, v), ReceivesItsGoods(v),
           Valid(resolve_account_fallbacks(v))
    PROVE  w.items \in Seq(GoodLines(w))
  <1> DEFINE u == resolve_account_fallbacks(v)
  <1>1. /\ v.items \in Seq(Lines) /\ w.items = v.items /\ w.set_warehouse = v.set_warehouse
        /\ u.items = v.items /\ u.doctype = "PurchaseInvoice"
    BY PayloadFields, ResolvedFields DEF SameFields, ReceivesItsGoods
  <1>2. \A l \in ToSet(v.items) : line_amount(l) = round2(Worth(l))[1]
    BY <1>1 DEF Valid, validate_invoice_totals, Invoices
  <1>3. \A l \in ToSet(v.items) : /\ l.qty > 0 /\ l.valuation_rate = None
                                  /\ Default(l.warehouse, w.set_warehouse) # None
    BY <1>1 DEF ReceivesItsGoods
  <1>4. \A i \in 1..Len(v.items) : v.items[i] \in Lines /\ v.items[i] \in ToSet(v.items)
    BY <1>1 DEF ToSet
  <1>5. \A i \in 1..Len(v.items) : v.items[i] \in GoodLines(w)
    BY <1>2, <1>3, <1>4 DEF GoodLines
  <1> QED BY <1>1, <1>5

\* A bill that receives its goods leaves the rounding of its lines on GRNI.
LEMMA BillClears ==
    ASSUME sles \in Seq(Sles), NEW v \in Payloads, NEW w, w = Settled(v), IsSettled(w),
           SameFields(w, v), SeparateAccounts(v), ReceivesItsGoods(v),
           Valid(resolve_account_fallbacks(v))
    PROVE  Within(FracSum(MapF(Posting(w), OnAmount({"grni"}))), Unevens(v))
  <1> DEFINE n == StockNet(w)
             V == FracSum(MapF(derive_stock_rows(w), ValueOf))
             S == StockSum(w, Moved(w), {"grni"})
  <1>1. /\ w.doctype = "PurchaseInvoice" /\ w.doctype = v.doctype
        /\ w.is_return = FALSE /\ w.update_stock = TRUE
    BY PayloadFields DEF SameFields, ReceivesItsGoods
  <1>2. Apart(w) /\ VatOnly(w) /\ w.items \in Seq(GoodLines(w))
    BY ApartFields, VatFields, GoodItems
  <1>3. derive_stock_rows(w) \in Seq(Receipts) /\ V \in Fractions /\ Within(n ++ Negated(V), Unevens(w))
    BY <1>1, <1>2, ReceivedValue
  <1>4. S = Negated(V)
    BY <1>1, <1>3, ReceiptLegs
  <1>9. n \in Fractions /\ Negated(V) \in Fractions
    BY <1>3, SplitTypes, NegatedType
  <1>10. Unevens(w) = Unevens(v)
    BY DEF SameFields, Unevens
  <1>5. MonetarySum(w, {"grni"}) = Zero
    <2>1. {"grni"} \in SUBSET Compared
      BY DEF Compared, ControlAccounts
    <2> QED BY <1>1, <1>2, <2>1, MonetaryElsewhere
  <1>6. ShiftOf(w, {"grni"}) = n
    <2>1. w.expense_account \notin {"grni"}
      BY <1>1, <1>2 DEF Apart, Free, Compared, ControlAccounts
    <2>2. ShiftOf(w, {"grni"}) = Zero ++ n
      BY <1>1, <2>1 DEF ShiftOf, Shift
    <2> HIDE DEF n
    <2> QED BY <1>9, <2>2, PlusZero
  <1>7. FracSum(MapF(Posting(w), OnAmount({"grni"}))) =
          MonetarySum(w, {"grni"}) ++ (S ++ ShiftOf(w, {"grni"}))
    BY <1>1, PostingSums
  <1> HIDE DEF n, V, S
  <1>8. Zero ++ (Negated(V) ++ n) = n ++ Negated(V)
    BY <1>9, PlusComm, PlusType, PlusZero
  <1> QED BY <1>3, <1>4, <1>5, <1>6, <1>7, <1>8, <1>10

\* GrniInv is inductive.
LEMMA GrniStep == LedgerTypeOK /\ FreshInv /\ GrniInv /\ [Next]_vars => GrniInv'
  <1> SUFFICES ASSUME LedgerTypeOK, FreshInv, GrniInv, [Next]_vars PROVE GrniInv'
    OBVIOUS
  <1>1. sles \in Seq(Sles)
    BY DEF LedgerTypeOK
  <1>2. ASSUME NEW d \in Docs, NEW w, Submits(d, w), IsSettled(w), SameFields(w, Vouchers[d]),
               w.is_return \in BOOLEAN
        PROVE  GrniInv'
    <2>1. gl'[d] = Posting(w)
      BY <1>2, SubmittedRows
    <2>2. SeparateAccounts(Vouchers[d]) /\ ReceivesItsGoods(Vouchers[d]) =>
             Within(FracSum(MapF(gl'[d], OnAmount({"grni"}))), Unevens(Vouchers[d]))
      <3>1. Vouchers[d] \in Payloads
        BY PayloadsAssumption
      <3>2. w = Settled(Vouchers[d]) /\ Valid(resolve_account_fallbacks(Vouchers[d]))
        BY <1>2 DEF Submits
      <3> QED BY <1>1, <1>2, <2>1, <3>1, <3>2, BillClears
    <2>3. \A e \in Docs : e # d => gl'[e] = gl[e]
      BY <1>2 DEF Submits, LedgerTypeOK
    <2> QED BY <2>2, <2>3 DEF GrniInv
  <1>3. ASSUME NEW d \in Docs, Cancels(d) PROVE GrniInv'
    <2>1. gl'[d] = gl[d] \o MapF(gl[d], ReverseRows(GlRows))
      BY <1>3 DEF Cancels, LedgerTypeOK
    <2>2. FracSum(MapF(gl'[d], OnAmount({"grni"}))) = Zero
      BY <2>1, UndoneRows
    <2>3. \A e \in Docs : e # d => gl'[e] = gl[e]
      BY <1>3 DEF Cancels, LedgerTypeOK
    <2>4. Within(Zero, Unevens(Vouchers[d]))
      BY PayloadsAssumption, PayloadFields, UnevenCount
    <2> QED BY <2>2, <2>3, <2>4 DEF GrniInv
  <1>4. CASE UNCHANGED <<company, status, gl, party_transactions, tax_transactions, sles, bins>>
    BY <1>4 DEF GrniInv
  <1> QED BY <1>2, <1>3, <1>4, Steps

\* GrniInv holds at the start.
LEMMA GrniInit == Init => GrniInv
  <1>1. \A d \in Docs : Within(Zero, Unevens(Vouchers[d]))
    BY PayloadsAssumption, PayloadFields, UnevenCount
  <1> QED BY <1>1, SumNone DEF Init, GrniInv

\* GrniInv is the part of the property on GRNI.
LEMMA GrniImplies == LedgerTypeOK /\ GrniInv => GrniClears
  <1> SUFFICES ASSUME LedgerTypeOK, GrniInv, NEW d \in Docs, SeparateAccounts(Vouchers[d]),
                      ReceivesItsGoods(Vouchers[d])
               PROVE  2 * Abs(OnAccounts(gl[d], {"grni"}, Amount)[1])
                         <= Total(Vouchers[d].items, LAMBDA line : IF Uneven(line) THEN 1 ELSE 0)
                              * OnAccounts(gl[d], {"grni"}, Amount)[2]
    BY DEF GrniClears, Written
  <1> DEFINE x == OnAccounts(gl[d], {"grni"}, Amount)
             n == Unevens(Vouchers[d])
  <1>1. gl[d] \in Seq(GlRows)
    BY DEF LedgerTypeOK
  <1>2. x = FracSum(MapF(gl[d], OnAmount({"grni"}))) /\ x \in Fractions
    BY <1>1, OnAccountsIs, MeasureTypes, SumType2
  <1>3. Within(x, n) /\ n \in Int
    BY <1>2, PayloadsAssumption, PayloadFields, UnevenCount DEF GrniInv
  <1>4. Total(Vouchers[d].items, LAMBDA line : IF Uneven(line) THEN 1 ELSE 0) = n
    BY DEF Total, Map, Unevens, UnevenOf
  <1> HIDE DEF x, n
  <1>5. x[1] \in Int /\ x[2] \in Nat
    BY <1>2, FractionType
  <1>6. 2 * Abs(x[1]) <= n * x[2]
    BY <1>3, <1>5 DEF Within, Abs
  <1> QED BY <1>4, <1>6 DEF x

-----------------------------------------------------------------------------
(* Patching a simulated ledger.                                            *)

\* The sum with one row replaced.
LEMMA SumReplace ==
    ASSUME NEW S, NEW f \in [S -> Fractions], NEW s \in Seq(S), NEW k \in DOMAIN s, NEW y \in S,
           NEW x \in Fractions, f[y] = f[s[k]] ++ x
    PROVE  FracSum(MapF([s EXCEPT ![k] = y], f)) = FracSum(MapF(s, f)) ++ x
  <1> DEFINE m == MapF(s, f)
             e == [i \in DOMAIN s |-> IF i = k THEN x ELSE Zero]
             t == [i \in DOMAIN m |-> m[i] ++ e[i]]
  <1>1. m \in Seq(Fractions) /\ Len(m) = Len(s) /\ DOMAIN m = DOMAIN s
    BY MapType DEF MapF
  <1>2. e \in Seq(Fractions) /\ Len(e) = Len(s) /\ DOMAIN e = DOMAIN s
    BY ZeroType
  <1>3. MapF([s EXCEPT ![k] = y], f) = t
    <2>1. ASSUME NEW i \in DOMAIN s PROVE f[[s EXCEPT ![k] = y][i]] = m[i] ++ e[i]
      <3>1. m[i] = f[s[i]] /\ f[s[i]] \in Fractions
        BY DEF MapF
      <3>2. CASE i = k
        BY <3>1, <3>2
      <3>3. CASE i # k
        <4>1. f[s[i]] ++ Zero = f[s[i]]
          BY <3>1, PlusZero
        <4> QED BY <3>1, <3>3, <4>1
      <3> QED BY <3>2, <3>3
    <2>2. DOMAIN [s EXCEPT ![k] = y] = DOMAIN s
      OBVIOUS
    <2> HIDE DEF m, e
    <2> QED BY <1>1, <2>1, <2>2 DEF MapF
  <1>4. FracSum(e) = x
    <2>1. k \in DOMAIN e /\ e[k] = x /\ \A i \in DOMAIN e \ {k} : e[i] = Zero
      OBVIOUS
    <2> HIDE DEF e
    <2> QED BY <1>2, <2>1, FracSumSingle
  <1> HIDE DEF m, e
  <1>5. FracSum(t) = FracSum(m) ++ FracSum(e)
    BY <1>1, <1>2, FracSumPlus
  <1> QED BY <1>3, <1>4, <1>5 DEF m

\* What is taken off and put back.
LEMMA PlusBack ==
    ASSUME NEW a \in Fractions, NEW b \in Fractions PROVE a ++ (b ++ Negated(a)) = b
  <1>1. Negated(a) \in Fractions /\ a ++ Negated(a) = Zero
    BY NegatedType, PlusNegated
  <1>2. b ++ Negated(a) = Negated(a) ++ b
    BY <1>1, PlusComm
  <1>3. a ++ (Negated(a) ++ b) = (a ++ Negated(a)) ++ b
    BY <1>1, PlusAssoc
  <1> QED BY <1>1, <1>2, <1>3, PlusZero

\* The legs from the j-th on have rows of their own in a ledger.
Injective(m, D) == \A i, j \in D : m[i] = m[j] => i = j
Placed(m, ledger, legs, D) ==
    \A j \in D : m[j] \in DOMAIN ledger /\ ledger[m[j]].qty = legs[j].qty /\ ledger[m[j]].rate = legs[j].rate
Room(ledger, legs, j) ==
    \E m : Injective(m, j..Len(legs)) /\ Placed(m, ledger, legs, j..Len(legs))

\* What a patch to rate x adds to the value of a row.
Repriced(x) == [r \in StockRows |-> (Whole(r.qty) ** x) ++ Negated(Value(r))]

\* What a row gains with another rate is a fraction.
LEMMA RepricedType ==
    ASSUME NEW x \in Fractions PROVE Repriced(x) \in [StockRows -> Fractions]
  <1>1. ASSUME NEW r \in StockRows PROVE (Whole(r.qty) ** x) ++ Negated(Value(r)) \in Fractions
    <2>1. Whole(r.qty) \in Fractions /\ Value(r) \in Fractions
      BY StockRowType, WholeType, ValueType
    <2>2. Whole(r.qty) ** x \in Fractions /\ Negated(Value(r)) \in Fractions
      BY <2>1, TimesType, NegatedType
    <2> QED BY <2>2, PlusType
  <1> QED BY <1>1 DEF Repriced

\* A row with another rate.
LEMMA RateChanged ==
    ASSUME NEW r \in StockRows, NEW x \in Fractions, NEW y, y = [r EXCEPT !.rate = x]
    PROVE  /\ y \in StockRows /\ y.qty = r.qty /\ y.rate = x
           /\ QtyOf[y] = QtyOf[r] ++ Zero
           /\ ValueOf[y] = ValueOf[r] ++ Repriced(x)[r]
  <1>1. y \in StockRows /\ y.qty = r.qty /\ y.rate = x
    BY DEF StockRows, Moves, Sles
  <1>2. r.qty \in Int /\ Whole(r.qty) \in Fractions /\ Value(r) \in Fractions
    BY StockRowType, WholeType, ValueType
  <1>3. QtyOf[y] = Whole(r.qty) /\ QtyOf[r] = Whole(r.qty)
    BY <1>1 DEF QtyOf
  <1>4. ValueOf[r] = Value(r) /\ ValueOf[y] = Whole(r.qty) ** x
    BY <1>1 DEF ValueOf, Value
  <1>5. Whole(r.qty) ** x \in Fractions
    BY <1>2, TimesType
  <1>6. Value(r) ++ ((Whole(r.qty) ** x) ++ Negated(Value(r))) = Whole(r.qty) ** x
    BY <1>2, <1>5, PlusBack
  <1>7. Repriced(x)[r] = (Whole(r.qty) ** x) ++ Negated(Value(r))
    BY DEF Repriced
  <1>8. Whole(r.qty) ++ Zero = Whole(r.qty)
    BY <1>2, PlusZero
  <1> QED BY <1>1, <1>3, <1>4, <1>6, <1>7, <1>8

\* Rows that look alike are worth alike, whichever of them is patched.
LEMMA Alike ==
    ASSUME NEW r \in StockRows, NEW q \in StockRows, r.qty = q.qty, r.rate = q.rate, NEW x
    PROVE  Repriced(x)[r] = Repriced(x)[q]
  BY DEF Repriced, Value

\* A place that is taken is exchanged for the one that was kept for the leg.
LEMMA RoomKept ==
    ASSUME NEW ledger, NEW legs, NEW n \in Nat, n = Len(legs), NEW i \in 1..n, NEW m,
           Injective(m, i..n), Placed(m, ledger, legs, i..n),
           NEW k \in DOMAIN ledger, ledger[k].qty = legs[i].qty, ledger[k].rate = legs[i].rate,
           NEW new, DOMAIN new = DOMAIN ledger, \A j \in DOMAIN ledger : j # k => new[j] = ledger[j]
    PROVE  Room(new, legs, i + 1)
  <1> DEFINE t == [j \in (i + 1)..n |-> IF m[j] = k THEN m[i] ELSE m[j]]
  <1>1. ASSUME NEW j \in (i + 1)..n PROVE j \in i..n /\ j # i /\ i \in i..n
    OBVIOUS
  <1>2. ASSUME NEW j \in (i + 1)..n
        PROVE  t[j] # k /\ t[j] \in DOMAIN ledger /\ ledger[t[j]].qty = legs[j].qty
               /\ ledger[t[j]].rate = legs[j].rate
    <2>1. j \in i..n /\ j # i /\ i \in i..n
      BY <1>1
    <2>2. CASE m[j] = k
      <3>1. t[j] = m[i]
        BY <2>2
      <3>2. m[i] # k
        BY <2>1, <2>2 DEF Injective
      <3> QED BY <2>1, <2>2, <3>1, <3>2 DEF Placed
    <2>3. CASE m[j] # k
      <3>1. t[j] = m[j]
        BY <2>3
      <3> QED BY <2>1, <2>3, <3>1 DEF Placed
    <2> QED BY <2>2, <2>3
  <1>3. Injective(t, (i + 1)..n)
    <2>1. ASSUME NEW a \in (i + 1)..n, NEW b \in (i + 1)..n, t[a] = t[b] PROVE a = b
      <3>1. a \in i..n /\ a # i /\ b \in i..n /\ b # i /\ i \in i..n
        BY <1>1
      <3>2. t[a] = (IF m[a] = k THEN m[i] ELSE m[a]) /\ t[b] = (IF m[b] = k THEN m[i] ELSE m[b])
        OBVIOUS
      <3> HIDE DEF t
      <3> QED BY <2>1, <3>1, <3>2 DEF Injective
    <2> HIDE DEF t
    <2> QED BY <2>1 DEF Injective
  <1> HIDE DEF t
  <1>4. Placed(t, new, legs, (i + 1)..n)
    BY <1>2 DEF Placed
  <1> QED BY <1>3, <1>4 DEF Room

\* A patch changes the next row of the legs and no quantity (PatchLedger).
LEMMA PatchStep ==
    ASSUME NEW ledger \in Seq(StockRows), NEW legs \in Seq(StockRows), NEW i \in 1..Len(legs),
           NEW x \in Fractions, Room(ledger, legs, i), NEW new, new = PatchLedger(ledger, legs[i], x)
    PROVE  /\ new \in Seq(StockRows) /\ Room(new, legs, i + 1)
           /\ FracSum(MapF(new, QtyOf)) = FracSum(MapF(ledger, QtyOf))
           /\ FracSum(MapF(new, ValueOf)) = FracSum(MapF(ledger, ValueOf)) ++ Repriced(x)[legs[i]]
  <1> DEFINE r == legs[i]
             n == Len(legs)
             alike == {k \in DOMAIN ledger : ledger[k].qty = r.qty /\ ledger[k].rate = r.rate}
             k == Max(alike)
             y == [ledger[k] EXCEPT !.rate = x]
  <1>1. PICK m : Injective(m, i..n) /\ Placed(m, ledger, legs, i..n)
    BY DEF Room
  <1>2. n \in Nat /\ i \in i..n /\ r \in StockRows
    OBVIOUS
  <1>3. m[i] \in alike
    BY <1>1, <1>2 DEF Placed
  <1>4. new = [ledger EXCEPT ![k] = y]
    <2>1. new = [ledger EXCEPT ![k].rate = x]
      BY <1>3 DEF PatchLedger
    <2> HIDE DEF k
    <2> QED BY <2>1
  <1>5. k \in alike
    <2>1. DOMAIN ledger = 1..Len(ledger) /\ Len(ledger) \in Nat
      OBVIOUS
    <2>2. alike \in SUBSET (1..Len(ledger)) /\ alike # {}
      BY <1>3, <2>1
    <2> HIDE DEF alike
    <2> QED BY <2>1, <2>2, MaxIs
  <1> HIDE DEF k
  <1>6. k \in DOMAIN ledger /\ ledger[k].qty = r.qty /\ ledger[k].rate = r.rate
    BY <1>5
  <1>7. ledger[k] \in StockRows
    BY <1>6
  <1>8. /\ y \in StockRows /\ QtyOf[y] = QtyOf[ledger[k]] ++ Zero
        /\ ValueOf[y] = ValueOf[ledger[k]] ++ Repriced(x)[ledger[k]]
    BY <1>7, RateChanged
  <1> HIDE DEF y
  <1>9. Repriced(x)[ledger[k]] = Repriced(x)[r]
    BY <1>2, <1>6, <1>7, Alike
  <1>10. new \in Seq(StockRows) /\ DOMAIN new = DOMAIN ledger
    BY <1>4, <1>6, <1>8
  <1>11. \A j \in DOMAIN ledger : j # k => new[j] = ledger[j]
    BY <1>4
  <1>12. Room(new, legs, i + 1)
    BY <1>1, <1>2, <1>6, <1>10, <1>11, RoomKept
  <1>13. FracSum(MapF(new, QtyOf)) = FracSum(MapF(ledger, QtyOf))
    <2>1. QtyOf \in [StockRows -> Fractions]
      BY MeasureTypes
    <2>2. k \in DOMAIN ledger /\ y \in StockRows /\ QtyOf[y] = QtyOf[ledger[k]] ++ Zero
      BY <1>6, <1>8
    <2>3. FracSum(MapF([ledger EXCEPT ![k] = y], QtyOf)) = FracSum(MapF(ledger, QtyOf)) ++ Zero
      BY <2>1, <2>2, ZeroType, SumReplace
    <2> QED BY <1>4, <2>1, <2>3, SumType2, PlusZero
  <1>14. FracSum(MapF(new, ValueOf)) = FracSum(MapF(ledger, ValueOf)) ++ Repriced(x)[r]
    <2>1. ValueOf \in [StockRows -> Fractions]
      BY MeasureTypes
    <2>2. Repriced(x)[r] \in Fractions
      BY <1>2, RepricedType
    <2> DEFINE z == Repriced(x)[r]
    <2>3. z \in Fractions /\ k \in DOMAIN ledger /\ y \in StockRows /\ ValueOf[y] = ValueOf[ledger[k]] ++ z
      BY <1>6, <1>8, <1>9, <2>2
    <2> HIDE DEF z
    <2>4. FracSum(MapF([ledger EXCEPT ![k] = y], ValueOf)) = FracSum(MapF(ledger, ValueOf)) ++ z
      BY <2>1, <2>3, SumReplace
    <2> QED BY <1>4, <2>4 DEF z
  <1> QED BY <1>10, <1>12, <1>13, <1>14

\* A kept row has a place of its own in the sequence it was kept from.
Embeds(m, t, s) ==
    /\ Injective(m, 1..Len(t))
    /\ \A j \in 1..Len(t) : m[j] \in 1..Len(s) /\ s[m[j]] = t[j]

\* An embedding grows with the sequence.
LEMMA EmbedAppend ==
    ASSUME NEW S, NEW s \in Seq(S), NEW t \in Seq(S), NEW x \in S, NEW m, Embeds(m, t, s)
    PROVE  /\ \E q : Embeds(q, t, Append(s, x))
           /\ \E q : Embeds(q, Append(t, x), Append(s, x))
  <1> DEFINE u == Append(s, x)
             q == [j \in 1..(Len(t) + 1) |-> IF j <= Len(t) THEN m[j] ELSE Len(s) + 1]
  <1>1. /\ Len(s) \in Nat /\ Len(t) \in Nat /\ Len(u) = Len(s) + 1 /\ Len(Append(t, x)) = Len(t) + 1
        /\ \A j \in 1..Len(s) : u[j] = s[j] /\ j \in 1..Len(u)
        /\ u[Len(s) + 1] = x /\ Len(s) + 1 \in 1..Len(u)
        /\ \A j \in 1..Len(t) : Append(t, x)[j] = t[j]
        /\ Append(t, x)[Len(t) + 1] = x
    OBVIOUS
  <1> HIDE DEF u
  <1>2. Embeds(m, t, u)
    BY <1>1 DEF Embeds
  <1>3. \A j \in 1..Len(t) : m[j] \in 1..Len(s)
    BY DEF Embeds
  <1>4. /\ \A j \in 1..Len(t) : j \in 1..(Len(t) + 1) /\ q[j] = m[j] /\ q[j] # Len(s) + 1
        /\ q[Len(t) + 1] = Len(s) + 1
        /\ \A j \in 1..(Len(t) + 1) : j \in 1..Len(t) \/ j = Len(t) + 1
    BY <1>1, <1>3
  <1> HIDE DEF q
  <1>5. Injective(q, 1..(Len(t) + 1))
    <2>1. ASSUME NEW a \in 1..(Len(t) + 1), NEW b \in 1..(Len(t) + 1), q[a] = q[b] PROVE a = b
      BY <1>4, <2>1 DEF Embeds, Injective
    <2> QED BY <2>1 DEF Injective
  <1>6. \A j \in 1..(Len(t) + 1) : q[j] \in 1..Len(u) /\ u[q[j]] = Append(t, x)[j]
    BY <1>1, <1>3, <1>4 DEF Embeds
  <1>7. Embeds(q, Append(t, x), u)
    BY <1>1, <1>5, <1>6 DEF Embeds
  <1> QED BY <1>2, <1>7 DEF u

\* What is kept is embedded in the sequence.
LEMMA KeepEmbeds ==
    ASSUME NEW S, NEW s \in Seq(S), NEW K PROVE \E m : Embeds(m, Keep(s, K), s)
  <1> DEFINE P == {u \in Seq(S) : \E m : Embeds(m, Keep(u, K), u)}
  <1>1. <<>> \in P
    <2>1. Len(<<>>) = 0 /\ <<>> \in Seq(S) /\ Keep(<<>>, K) = <<>>
      BY KeepEmpty
    <2>2. Embeds(<<>>, <<>>, <<>>)
      BY <2>1 DEF Embeds, Injective
    <2> QED BY <2>1, <2>2
  <1>2. ASSUME NEW u \in Seq(S), NEW x \in S, u \in P PROVE Append(u, x) \in P
    <2>1. PICK m : Embeds(m, Keep(u, K), u)
      BY <1>2
    <2>2. Keep(u, K) \in Seq(S)
      BY KeepIn
    <2>3. Keep(Append(u, x), K) = IF x \in K THEN Append(Keep(u, K), x) ELSE Keep(u, K)
      BY KeepAppend
    <2>4. /\ \E q : Embeds(q, Keep(u, K), Append(u, x))
          /\ \E q : Embeds(q, Append(Keep(u, K), x), Append(u, x))
      BY <2>1, <2>2, EmbedAppend
    <2>5. Append(u, x) \in Seq(S)
      OBVIOUS
    <2>6. \E q : Embeds(q, Keep(Append(u, x), K), Append(u, x))
      BY <2>3, <2>4
    <2> QED BY <2>5, <2>6
  <1> HIDE DEF P
  <1>3. Seq(S) \subseteq P
    BY <1>1, <1>2, SeqInduct
  <1> QED BY <1>3 DEF P

\* The new rows are found in the ledger, in order.
LEMMA FirstRoom ==
    ASSUME NEW a \in Seq(StockRows), NEW b \in Seq(StockRows), NEW K
    PROVE  Room(a \o b, Keep(b, K), 1)
  <1> DEFINE legs == Keep(b, K)
             c == a \o b
  <1>1. PICK m : Embeds(m, legs, b)
    BY KeepEmbeds
  <1>2. legs \in Seq(StockRows)
    BY KeepIn
  <1> HIDE DEF legs
  <1> DEFINE t == [j \in 1..Len(legs) |-> Len(a) + m[j]]
  <1>3. /\ Len(a) \in Nat /\ Len(b) \in Nat /\ DOMAIN c = 1..(Len(a) + Len(b))
        /\ \A k \in 1..Len(b) : c[Len(a) + k] = b[k] /\ Len(a) + k \in DOMAIN c
    OBVIOUS
  <1> HIDE DEF c
  <1>4. \A j \in 1..Len(legs) : m[j] \in 1..Len(b) /\ b[m[j]] = legs[j]
    BY <1>1 DEF Embeds
  <1>5. \A j \in 1..Len(legs) : t[j] \in DOMAIN c /\ c[t[j]] = legs[j] /\ t[j] = Len(a) + m[j]
    BY <1>3, <1>4
  <1> HIDE DEF t
  <1>6. Injective(t, 1..Len(legs))
    <2>1. ASSUME NEW i \in 1..Len(legs), NEW j \in 1..Len(legs), t[i] = t[j] PROVE i = j
      <3>1. m[i] \in Int /\ m[j] \in Int /\ Len(a) + m[i] = Len(a) + m[j]
        BY <1>4, <1>5, <2>1
      <3>2. m[i] = m[j]
        BY <1>3, <3>1
      <3> QED BY <1>1, <3>2 DEF Embeds, Injective
    <2> QED BY <2>1 DEF Injective
  <1>7. Placed(t, c, legs, 1..Len(legs))
    BY <1>5 DEF Placed
  <1> QED BY <1>6, <1>7 DEF Room, c, legs

\* A ledger patched with every leg in turn.
Patched(ledger, legs, x) == Fold(LAMBDA l, r : PatchLedger(l, r, x), ledger, legs)

\* A patched ledger is one.
LEMMA PatchType ==
    ASSUME NEW ledger \in Seq(StockRows), NEW r \in StockRows, NEW x \in Fractions
    PROVE  PatchLedger(ledger, r, x) \in Seq(StockRows)
  <1> DEFINE alike == {k \in DOMAIN ledger : ledger[k].qty = r.qty /\ ledger[k].rate = r.rate}
             k == Max(alike)
  <1>1. CASE alike = {}
    BY <1>1 DEF PatchLedger
  <1>2. CASE alike # {}
    <2>1. PatchLedger(ledger, r, x) = [ledger EXCEPT ![k].rate = x]
      BY <1>2 DEF PatchLedger
    <2>2. k \in alike
      <3>1. alike \in SUBSET (1..Len(ledger)) /\ Len(ledger) \in Nat
        OBVIOUS
      <3> HIDE DEF alike
      <3> QED BY <1>2, <3>1, MaxIs
    <2>3. k \in DOMAIN ledger
      BY <2>2
    <2> HIDE DEF k
    <2> DEFINE y == [ledger[k] EXCEPT !.rate = x]
    <2>4. ledger[k] \in StockRows
      BY <2>3
    <2>5. y \in StockRows
      BY <2>4, RateChanged
    <2>6. PatchLedger(ledger, r, x) = [ledger EXCEPT ![k] = y]
      BY <2>1
    <2> HIDE DEF y
    <2> QED BY <2>3, <2>5, <2>6
  <1> QED BY <1>1, <1>2

\* A ledger is patched leg by leg.
LEMMA PatchFcn ==
    ASSUME NEW ledger \in Seq(StockRows), NEW legs \in Seq(StockRows), NEW x \in Fractions
    PROVE  \E f \in [0..Len(legs) -> Seq(StockRows)] :
              /\ Patched(ledger, legs, x) = f[Len(legs)]
              /\ f[0] = ledger
              /\ \A i \in 1..Len(legs) : f[i] = PatchLedger(f[i - 1], legs[i], x)
  <1> DEFINE n == Len(legs)
             A == Seq(StockRows)
             G == [l \in A |-> [i \in 1..n |-> PatchLedger(l, legs[i], x)]]
             F == CHOOSE f : f = [i \in 0..n |-> IF i = 0 THEN ledger ELSE PatchLedger(f[i - 1], legs[i], x)]
  <1>1. n \in Nat /\ (\A i \in 1..n : legs[i] \in StockRows) /\ ledger \in A
    OBVIOUS
  <1>2. Patched(ledger, legs, x) = F[n]
    BY DEF Patched, Fold
  <1>3. IsStep(G, A, n)
    <2>1. \A l \in A, i \in 1..n : PatchLedger(l, legs[i], x) \in A
      BY <1>1, PatchType
    <2> HIDE DEF A
    <2> QED BY <2>1 DEF IsStep
  <1> HIDE DEF n
  <1>4. PICK g : IsIterate(g, A, n, ledger, G)
    <2> HIDE DEF G, A
    <2> QED BY <1>1, <1>3, Iterates
  <1>5. \A l \in A, i \in 1..n : G[l][i] = PatchLedger(l, legs[i], x)
    <2> HIDE DEF A
    <2> QED OBVIOUS
  <1> HIDE DEF G
  <1>6. g = [i \in 0..n |-> IF i = 0 THEN ledger ELSE PatchLedger(g[i - 1], legs[i], x)]
    <2> HIDE DEF A
    <2>1. g \in [0..n -> A] /\ g[0] = ledger
      BY <1>4 DEF IsIterate
    <2>2. \A i \in 1..n : g[i - 1] \in A
      BY <1>1, <2>1
    <2>3. \A i \in 1..n : g[i] = G[g[i - 1]][i]
      BY <1>4 DEF IsIterate
    <2> QED BY <1>1, <1>5, <2>1, <2>2, <2>3
  <1>7. F = [i \in 0..n |-> IF i = 0 THEN ledger ELSE PatchLedger(F[i - 1], legs[i], x)]
    BY <1>6
  <1> HIDE DEF F
  <1>8. F[0] = ledger /\ \A i \in 1..n : F[i] = PatchLedger(F[i - 1], legs[i], x)
    BY <1>1, <1>7
  <1>9. Follows(F, A, n, ledger, G)
    <2> HIDE DEF A
    <2> QED BY <1>1, <1>5, <1>8 DEF Follows
  <1>10. \A i \in 0..n : F[i] \in A
    <2> HIDE DEF A
    <2> QED BY <1>1, <1>3, <1>9, IteratesAgree
  <1>11. F \in [0..n -> A]
    <2> HIDE DEF A
    <2> QED BY <1>7, <1>10
  <1> QED BY <1>2, <1>8, <1>11 DEF n

\* What is measured of rows is a sequence of fractions.
LEMMA MeasuredSeq ==
    ASSUME NEW S, NEW f \in [S -> Fractions], NEW s \in Seq(S)
    PROVE  MapF(s, f) \in Seq(Fractions) /\ Len(MapF(s, f)) = Len(s)
  <1>1. MapF(s, f) \in Seq(Fractions)
    BY MapType
  <1>2. DOMAIN MapF(s, f) = 1..Len(s) /\ Len(s) \in Nat
    BY DEF MapF
  <1>3. Len(MapF(s, f)) = Len(s)
    BY <1>1, <1>2
  <1> QED BY <1>1, <1>3

\* What rows gain with another rate, row by row.
LEMMA RepricedSeq ==
    ASSUME NEW legs \in Seq(StockRows), NEW x \in Fractions, NEW e, e = MapF(legs, Repriced(x))
    PROVE  e \in Seq(Fractions) /\ Len(e) = Len(legs) /\ \A i \in 1..Len(legs) : e[i] = Repriced(x)[legs[i]]
  <1>1. Repriced(x) \in [StockRows -> Fractions]
    BY RepricedType
  <1>2. MapF(legs, Repriced(x)) \in Seq(Fractions) /\ Len(MapF(legs, Repriced(x))) = Len(legs)
    BY <1>1, MeasuredSeq
  <1>3. \A i \in 1..Len(legs) : e[i] = Repriced(x)[legs[i]]
    BY DEF MapF
  <1> QED BY <1>2, <1>3

\* A patched ledger has its quantity, and the value its legs gain.
LEMMA PatchedSums ==
    ASSUME NEW ledger \in Seq(StockRows), NEW legs \in Seq(StockRows), NEW x \in Fractions,
           Room(ledger, legs, 1)
    PROVE  /\ Patched(ledger, legs, x) \in Seq(StockRows)
           /\ FracSum(MapF(Patched(ledger, legs, x), QtyOf)) = FracSum(MapF(ledger, QtyOf))
           /\ FracSum(MapF(Patched(ledger, legs, x), ValueOf)) =
                FracSum(MapF(ledger, ValueOf)) ++ FracSum(MapF(legs, Repriced(x)))
  <1> DEFINE n == Len(legs)
             e == MapF(legs, Repriced(x))
  <1>1. PICK f \in [0..n -> Seq(StockRows)] :
            /\ Patched(ledger, legs, x) = f[n]
            /\ f[0] = ledger
            /\ \A i \in 1..n : f[i] = PatchLedger(f[i - 1], legs[i], x)
    BY PatchFcn
  <1>2. e \in Seq(Fractions) /\ Len(e) = n /\ \A i \in 1..n : e[i] = Repriced(x)[legs[i]]
    BY RepricedSeq
  <1> HIDE DEF e
  <1>3. PICK g \in [0..n -> Fractions] :
            FracSum(e) = g[n] /\ g[0] = Zero /\ \A i \in 1..n : g[i] = g[i - 1] ++ e[i]
    BY <1>2, FracSumFcn
  <1> DEFINE Good(i) == /\ Room(f[i], legs, i + 1)
                        /\ FracSum(MapF(f[i], QtyOf)) = FracSum(MapF(ledger, QtyOf))
                        /\ FracSum(MapF(f[i], ValueOf)) = FracSum(MapF(ledger, ValueOf)) ++ g[i]
             P == {i \in Nat : i <= n => Good(i)}
  <1>4. FracSum(MapF(ledger, ValueOf)) \in Fractions
    BY MeasureTypes, SumType2
  <1>5. 0 \in P
    <2>1. FracSum(MapF(ledger, ValueOf)) ++ Zero = FracSum(MapF(ledger, ValueOf))
      BY <1>4, PlusZero
    <2>2. 0 + 1 = 1
      OBVIOUS
    <2>3. Good(0)
      BY <1>1, <1>3, <2>1, <2>2
    <2> HIDE DEF Good
    <2> QED BY <2>3
  <1>6. ASSUME NEW i \in 1..n, i - 1 \in P PROVE i \in P
    <2>1. i - 1 \in 0..n /\ i - 1 <= n /\ (i - 1) + 1 = i /\ i \in Nat
      OBVIOUS
    <2>2. Good(i - 1)
      <3> HIDE DEF Good
      <3> QED BY <1>6, <2>1
    <2>3. f[i - 1] \in Seq(StockRows) /\ g[i - 1] \in Fractions /\ e[i] \in Fractions
      <3>1. f[i - 1] \in Seq(StockRows)
        BY <2>1
      <3>2. g[i - 1] \in Fractions
        BY <2>1
      <3>3. e[i] \in Fractions
        BY <1>2
      <3> QED BY <3>1, <3>2, <3>3
    <2> DEFINE l == f[i - 1]
    <2>4. Room(l, legs, i) /\ f[i] = PatchLedger(l, legs[i], x) /\ l \in Seq(StockRows)
      BY <1>1, <2>1, <2>2, <2>3
    <2>5. /\ FracSum(MapF(l, QtyOf)) = FracSum(MapF(ledger, QtyOf))
          /\ FracSum(MapF(l, ValueOf)) = FracSum(MapF(ledger, ValueOf)) ++ g[i - 1]
      BY <2>2
    <2> HIDE DEF l
    <2>6. /\ Room(f[i], legs, i + 1)
          /\ FracSum(MapF(f[i], QtyOf)) = FracSum(MapF(l, QtyOf))
          /\ FracSum(MapF(f[i], ValueOf)) = FracSum(MapF(l, ValueOf)) ++ Repriced(x)[legs[i]]
      BY <2>4, PatchStep
    <2>7. (FracSum(MapF(ledger, ValueOf)) ++ g[i - 1]) ++ e[i] = FracSum(MapF(ledger, ValueOf)) ++ g[i]
      BY <1>3, <1>4, <2>3, PlusAssoc
    <2>8. FracSum(MapF(f[i], ValueOf)) = FracSum(MapF(ledger, ValueOf)) ++ g[i]
      BY <1>2, <2>5, <2>6, <2>7
    <2>9. Good(i)
      BY <2>5, <2>6, <2>8
    <2> HIDE DEF Good
    <2> QED BY <2>1, <2>9
  <1>7. n \in Nat /\ n \in 0..n
    OBVIOUS
  <1> HIDE DEF P
  <1>8. 0..n \subseteq P
    BY <1>5, <1>6, <1>7, UpTo
  <1>9. Good(n)
    <2> HIDE DEF Good
    <2> QED BY <1>7, <1>8 DEF P
  <1>10. f[n] \in Seq(StockRows)
    BY <1>7
  <1> QED BY <1>1, <1>3, <1>9, <1>10 DEF e

-----------------------------------------------------------------------------
(* The bins.                                                               *)

\* A balance is a matter of two sums.
LEMMA SameBalance ==
    ASSUME NEW s \in Seq(StockRows), NEW t \in Seq(StockRows),
           FracSum(MapF(s, QtyOf)) = FracSum(MapF(t, QtyOf)),
           FracSum(MapF(s, ValueOf)) = FracSum(MapF(t, ValueOf))
    PROVE  compute_balance(s) = compute_balance(t)
  <1>1. /\ Quantity(s) \in Int /\ Whole(Quantity(s)) = FracSum(MapF(s, QtyOf))
        /\ SumOver(s, Value) = FracSum(MapF(s, ValueOf))
    BY QuantityIs
  <1>2. /\ Quantity(t) \in Int /\ Whole(Quantity(t)) = FracSum(MapF(t, QtyOf))
        /\ SumOver(t, Value) = FracSum(MapF(t, ValueOf))
    BY QuantityIs
  <1>3. Quantity(s) = Quantity(t)
    BY <1>1, <1>2, WholeUnique
  <1> QED BY <1>1, <1>2, <1>3 DEF compute_balance

Picked(s, K, f) == [i \in DOMAIN s |-> IF s[i] \in K THEN f[s[i]] ELSE Zero]

\* What is measured of the rows of a set.
LEMMA PickedType ==
    ASSUME NEW S, NEW f \in [S -> Fractions], NEW s \in Seq(S), NEW K
    PROVE  Picked(s, K, f) \in Seq(Fractions) /\ SumIf(s, K, f) = FracSum(Picked(s, K, f))
  <1>1. Len(s) \in Nat /\ DOMAIN s = 1..Len(s) /\ \A i \in 1..Len(s) : s[i] \in S
    OBVIOUS
  <1>2. \A i \in 1..Len(s) : f[s[i]] \in Fractions
    BY <1>1
  <1>3. \A i \in 1..Len(s) : (IF s[i] \in K THEN f[s[i]] ELSE Zero) \in Fractions
    BY <1>2, ZeroType
  <1>4. Picked(s, K, f) \in Seq(Fractions)
    BY <1>1, <1>3 DEF Picked
  <1>5. SumIf(s, K, f) = FracSum(Picked(s, K, f))
    BY SumKeep DEF SumIf, Picked
  <1> QED BY <1>4, <1>5

\* A row that is kept stays kept and adds g to its f.
Moves2(s, t, K, f, g) ==
    \A i \in 1..Len(s) : (t[i] \in K <=> s[i] \in K) /\ f[t[i]] = f[s[i]] ++ g[s[i]]

\* The sum over a set when its rows gain something.
LEMMA SumIfMoved ==
    ASSUME NEW S, NEW f \in [S -> Fractions], NEW g \in [S -> Fractions], NEW K,
           NEW s \in Seq(S), NEW t \in Seq(S), Len(s) = Len(t), Moves2(s, t, K, f, g)
    PROVE  SumIf(t, K, f) = SumIf(s, K, f) ++ SumIf(s, K, g)
  <1> DEFINE a == Picked(s, K, f)
             b == Picked(s, K, g)
             c == Picked(t, K, f)
  <1>1. a \in Seq(Fractions) /\ b \in Seq(Fractions)
    BY PickedType
  <1>2. SumIf(s, K, f) = FracSum(a) /\ SumIf(s, K, g) = FracSum(b) /\ SumIf(t, K, f) = FracSum(c)
    BY PickedType
  <1>3. Len(a) = Len(b) /\ DOMAIN a = DOMAIN s /\ DOMAIN t = DOMAIN s /\ DOMAIN s = 1..Len(s)
    BY <1>1 DEF Picked
  <1>4. \A i \in 1..Len(s) : (IF t[i] \in K THEN f[t[i]] ELSE Zero) = a[i] ++ b[i]
    <2>1. Zero ++ Zero = Zero
      BY ZeroSums
    <2> QED BY <2>1 DEF Moves2, Picked
  <1>5. c = [i \in DOMAIN a |-> a[i] ++ b[i]]
    <2> HIDE DEF a, b
    <2> QED BY <1>3, <1>4 DEF Picked
  <1> HIDE DEF a, b, c
  <1> QED BY <1>1, <1>2, <1>3, <1>5, FracSumPlus

Alikes(s, t, K, f) == \A i \in 1..Len(s) : (t[i] \in K <=> s[i] \in K) /\ f[t[i]] = f[s[i]]

\* The sum over a set when its rows gain nothing.
LEMMA SumIfSame ==
    ASSUME NEW S, NEW f \in [S -> Fractions], NEW K,
           NEW s \in Seq(S), NEW t \in Seq(S), Len(s) = Len(t), Alikes(s, t, K, f)
    PROVE  SumIf(t, K, f) = SumIf(s, K, f)
  <1> DEFINE a == Picked(s, K, f)
             c == Picked(t, K, f)
  <1>1. SumIf(s, K, f) = FracSum(a)
    BY PickedType
  <1>2. SumIf(t, K, f) = FracSum(c)
    BY PickedType
  <1>3. a = c
    <2>1. DOMAIN t = DOMAIN s /\ DOMAIN s = 1..Len(s)
      OBVIOUS
    <2> QED BY <2>1 DEF Alikes, Picked
  <1> QED BY <1>1, <1>2, <1>3

\* Storing a row keeps its pair, its quantity and its rate.
LEMMA StoredSame ==
    ASSUME NEW d \in Docs, NEW new, NEW s \in Seq(StockRows), NEW p, NEW t, t = MapF(s, StoreAs(d, new))
    PROVE  /\ t \in Seq(StockRows) /\ t \in Seq(Sles) /\ Len(t) = Len(s)
           /\ SumIf(t, AtPair(p), QtyOf) = SumIf(s, AtPair(p), QtyOf)
           /\ SumIf(t, AtPair(p), ValueOf) = SumIf(s, AtPair(p), ValueOf)
  <1>1. t \in Seq(Sles) /\ Len(t) = Len(s)
    BY StoredVouchers
  <1>2. t \in Seq(StockRows)
    BY <1>1, SubRows
  <1>3. ASSUME NEW i \in 1..Len(s)
        PROVE  (t[i] \in AtPair(p) <=> s[i] \in AtPair(p)) /\ QtyOf[t[i]] = QtyOf[s[i]]
                   /\ ValueOf[t[i]] = ValueOf[s[i]]
    <2>1. t[i] = StoreAs(d, new)[s[i]] /\ s[i] \in StockRows
      BY DEF MapF
    <2>2. t[i] = Stored(s[i], d, new)
      BY <2>1 DEF StoreAs
    <2>3. t[i] \in StockRows
      BY <1>1, <1>2
    <2>4. t[i].qty = s[i].qty /\ t[i].rate = s[i].rate /\ t[i].item = s[i].item
            /\ t[i].warehouse = s[i].warehouse
      BY <2>2 DEF Stored
    <2> QED BY <2>1, <2>3, <2>4 DEF AtPair, Pair, QtyOf, ValueOf, Value
  <1>4. Alikes(s, t, AtPair(p), QtyOf) /\ Alikes(s, t, AtPair(p), ValueOf)
    BY <1>3 DEF Alikes
  <1>5. QtyOf \in [StockRows -> Fractions] /\ ValueOf \in [StockRows -> Fractions]
    BY MeasureTypes
  <1>6. SumIf(t, AtPair(p), QtyOf) = SumIf(s, AtPair(p), QtyOf)
    BY <1>1, <1>2, <1>4, <1>5, SumIfSame
  <1>7. SumIf(t, AtPair(p), ValueOf) = SumIf(s, AtPair(p), ValueOf)
    BY <1>1, <1>2, <1>4, <1>5, SumIfSame
  <1> QED BY <1>1, <1>2, <1>6, <1>7

\* The outputs of a production, and what respreading adds to their value.
Outputs(w) == {r \in StockRows : IsOutput(w, r)}
Extra(w, x) == [r \in StockRows |-> IF r \in Outputs(w) THEN Repriced(x)[r] ELSE Zero]

\* What the outputs gain is a fraction.
LEMMA ExtraType ==
    ASSUME NEW w, NEW x \in Fractions PROVE Extra(w, x) \in [StockRows -> Fractions]
  <1>1. Repriced(x) \in [StockRows -> Fractions]
    BY RepricedType
  <1>2. \A r \in StockRows : Repriced(x)[r] \in Fractions
    BY <1>1
  <1> QED BY <1>2, ZeroType DEF Extra

\* The simulated ledger of a pair: the stored rows and the new ones, patched.
LEMMA SimulatedIs ==
    ASSUME sles \in Seq(Sles), NEW w, NEW c \in Seq(Moves), NEW p,
           NEW a, a = Keep(sles, AtPair(p)), NEW b, b = Keep(c, AtPair(p))
    PROVE  SimulatedLedger(w, p, c) = IF Spreads(w, c)
                                      THEN Patched(a \o b, Keep(b, Outputs(w)), SpreadRate(w, c))
                                      ELSE a \o b
  <1>1. c \in Seq(StockRows) /\ sles \in Seq(StockRows)
    BY SubRows
  <1>2. b \in Seq(StockRows)
    BY <1>1, KeepIn
  <1>3. Filter(c, LAMBDA r : Pair(r) = p) = b
    BY <1>1, PriorIs
  <1>4. prior_for(p, c) = a \o b
    BY <1>1, <1>3, PriorIs DEF prior_for
  <1>5. Filter(b, LAMBDA r : IsOutput(w, r)) = Keep(b, Outputs(w))
    <2>1. \A i \in DOMAIN b : b[i] \in StockRows
      BY <1>2
    <2>2. \A i \in DOMAIN b : IsOutput(w, b[i]) <=> b[i] \in Outputs(w)
      BY <2>1 DEF Outputs
    <2> QED BY <2>2 DEF Filter, FlatMap, Map, Keep
  <1> QED BY <1>3, <1>4, <1>5 DEF SimulatedLedger, Patched

\* What the legs of a pair gain is what its rows gain.
LEMMA ExtraSum ==
    ASSUME NEW w, NEW x \in Fractions, NEW c \in Seq(StockRows), NEW K
    PROVE  SumIf(c, K, Extra(w, x)) = FracSum(MapF(Keep(Keep(c, K), Outputs(w)), Repriced(x)))
  <1> DEFINE b == Keep(c, K)
             e == Extra(w, x)
             q == Repriced(x)
  <1>1. b \in Seq(StockRows)
    BY KeepIn
  <1>2. q \in [StockRows -> Fractions]
    BY RepricedType
  <1> HIDE DEF b, q
  <1>3. SumIf(b, Outputs(w), q) = FracSum(Picked(b, Outputs(w), q))
    BY <1>1, <1>2, PickedType
  <1>4. Picked(b, Outputs(w), q) = MapF(b, e)
    <2>1. \A i \in DOMAIN b : b[i] \in StockRows
      BY <1>1
    <2> QED BY <2>1 DEF Picked, MapF, Extra, q
  <1> QED BY <1>3, <1>4 DEF SumIf, b, q

\* Respreading changes the value of the outputs and no quantity.
LEMMA MovedSums ==
    ASSUME NEW w, NEW c \in Seq(Moves), NEW m, m = SpreadProduction(w, c), Spreads(w, c),
           NEW x, x = SpreadRate(w, c), NEW p
    PROVE  /\ SumIf(m, AtPair(p), QtyOf) = SumIf(c, AtPair(p), QtyOf)
           /\ SumIf(m, AtPair(p), ValueOf) =
                SumIf(c, AtPair(p), ValueOf) ++ SumIf(c, AtPair(p), Extra(w, x))
           /\ x \in Fractions
  <1>1. /\ m \in Seq(Moves) /\ Len(m) = Len(c)
        /\ \A i \in 1..Len(c) : m[i] = Respread(w, c, c[i])
    BY SpreadIs
  <1>2. c \in Seq(StockRows) /\ m \in Seq(StockRows)
    BY <1>1, SubRows
  <1>3. x \in Fractions
    BY <1>2, SpreadRateType
  <1>4. ASSUME NEW i \in 1..Len(c)
        PROVE  /\ m[i] \in AtPair(p) <=> c[i] \in AtPair(p)
               /\ QtyOf[m[i]] = QtyOf[c[i]] /\ ValueOf[m[i]] = ValueOf[c[i]] ++ Extra(w, x)[c[i]]
    <2>1. c[i] \in StockRows /\ m[i] \in StockRows /\ c[i] \in Moves
      BY <1>1, <1>2
    <2>2. m[i] = IF IsOutput(w, c[i]) THEN [c[i] EXCEPT !.rate = x] ELSE c[i]
      BY <1>1 DEF Respread
    <2>3. /\ ValueOf[c[i]] \in Fractions /\ ValueOf[c[i]] ++ Zero = ValueOf[c[i]]
          /\ QtyOf[c[i]] \in Fractions /\ QtyOf[c[i]] ++ Zero = QtyOf[c[i]]
      <3>1. ValueOf \in [StockRows -> Fractions] /\ QtyOf \in [StockRows -> Fractions]
        BY MeasureTypes
      <3>2. ValueOf[c[i]] \in Fractions /\ QtyOf[c[i]] \in Fractions
        BY <2>1, <3>1
      <3> QED BY <3>2, PlusZero
    <2>4. CASE IsOutput(w, c[i])
      <3>1. /\ QtyOf[m[i]] = QtyOf[c[i]] ++ Zero
            /\ ValueOf[m[i]] = ValueOf[c[i]] ++ Repriced(x)[c[i]]
        BY <1>3, <2>1, <2>2, <2>4, RateChanged
      <3>2. Extra(w, x)[c[i]] = Repriced(x)[c[i]]
        BY <2>1, <2>4 DEF Extra, Outputs
      <3>3. m[i].item = c[i].item /\ m[i].warehouse = c[i].warehouse
        BY <2>1, <2>2, <2>4 DEF Moves
      <3>4. m[i] \in AtPair(p) <=> c[i] \in AtPair(p)
        BY <2>1, <3>3 DEF AtPair, Pair
      <3> QED BY <2>3, <3>1, <3>2, <3>4
    <2>5. CASE ~IsOutput(w, c[i])
      <3>1. Extra(w, x)[c[i]] = Zero
        BY <2>1, <2>5 DEF Extra, Outputs
      <3> QED BY <2>2, <2>3, <2>5, <3>1
    <2> QED BY <2>4, <2>5
  <1>5. Alikes(c, m, AtPair(p), QtyOf) /\ Moves2(c, m, AtPair(p), ValueOf, Extra(w, x))
    BY <1>4 DEF Alikes, Moves2
  <1>6. QtyOf \in [StockRows -> Fractions] /\ ValueOf \in [StockRows -> Fractions]
    BY MeasureTypes
  <1>7. SumIf(m, AtPair(p), QtyOf) = SumIf(c, AtPair(p), QtyOf)
    BY <1>1, <1>2, <1>5, <1>6, SumIfSame
  <1> DEFINE e == Extra(w, x)
  <1>8. e \in [StockRows -> Fractions]
    BY <1>3, ExtraType
  <1>9. Moves2(c, m, AtPair(p), ValueOf, e)
    BY <1>5
  <1> HIDE DEF e
  <1>10. SumIf(m, AtPair(p), ValueOf) = SumIf(c, AtPair(p), ValueOf) ++ SumIf(c, AtPair(p), e)
    BY <1>1, <1>2, <1>6, <1>8, <1>9, SumIfMoved
  <1> QED BY <1>3, <1>7, <1>10 DEF e

\* A simulated ledger adds up to what will be stored.
LEMMA SimulatedSums ==
    ASSUME sles \in Seq(Sles), NEW w, NEW c \in Seq(Moves), NEW m, m = SpreadProduction(w, c), NEW p,
           NEW l, l = SimulatedLedger(w, p, c)
    PROVE  /\ l \in Seq(StockRows)
           /\ FracSum(MapF(l, QtyOf)) = SumIf(sles, AtPair(p), QtyOf) ++ SumIf(m, AtPair(p), QtyOf)
           /\ FracSum(MapF(l, ValueOf)) = SumIf(sles, AtPair(p), ValueOf) ++ SumIf(m, AtPair(p), ValueOf)
  <1> DEFINE a == Keep(sles, AtPair(p))
             b == Keep(c, AtPair(p))
  <1>1. c \in Seq(StockRows) /\ sles \in Seq(StockRows)
    BY SubRows
  <1>2. a \in Seq(StockRows) /\ b \in Seq(StockRows)
    BY <1>1, KeepIn
  <1>3. QtyOf \in [StockRows -> Fractions] /\ ValueOf \in [StockRows -> Fractions]
    BY MeasureTypes
  <1>4. FracSum(MapF(a \o b, QtyOf)) = FracSum(MapF(a, QtyOf)) ++ FracSum(MapF(b, QtyOf))
    BY <1>2, <1>3, SumConcat
  <1>5. FracSum(MapF(a \o b, ValueOf)) = FracSum(MapF(a, ValueOf)) ++ FracSum(MapF(b, ValueOf))
    BY <1>2, <1>3, SumConcat
  <1>6. a \o b \in Seq(StockRows)
    BY <1>2, ConcatProperties
  <1>7. l = IF Spreads(w, c) THEN Patched(a \o b, Keep(b, Outputs(w)), SpreadRate(w, c)) ELSE a \o b
    BY SimulatedIs
  <1>8. CASE ~Spreads(w, c)
    <2>1. l = a \o b /\ m = c
      BY <1>7, <1>8 DEF SpreadProduction
    <2> QED BY <1>4, <1>5, <1>6, <2>1 DEF SumIf
  <1>9. CASE Spreads(w, c)
    <2> DEFINE x == SpreadRate(w, c)
               legs == Keep(b, Outputs(w))
               z == FracSum(MapF(legs, Repriced(x)))
    <2>1. /\ SumIf(m, AtPair(p), QtyOf) = SumIf(c, AtPair(p), QtyOf)
          /\ SumIf(m, AtPair(p), ValueOf) =
               SumIf(c, AtPair(p), ValueOf) ++ SumIf(c, AtPair(p), Extra(w, x))
          /\ x \in Fractions
      BY <1>9, MovedSums
    <2>2. SumIf(c, AtPair(p), Extra(w, x)) = z
      <3> HIDE DEF x
      <3> QED BY <1>1, <2>1, ExtraSum
    <2>3. legs \in Seq(StockRows) /\ Room(a \o b, legs, 1)
      <3> HIDE DEF a, b
      <3> QED BY <1>2, KeepIn, FirstRoom
    <2>4. l = Patched(a \o b, legs, x)
      BY <1>7, <1>9
    <2>5. z \in Fractions
      <3> HIDE DEF legs, x
      <3> QED BY <2>1, <2>3, RepricedSeq, FracSumType
    <2> HIDE DEF legs, x
    <2>6. /\ l \in Seq(StockRows)
          /\ FracSum(MapF(l, QtyOf)) = FracSum(MapF(a \o b, QtyOf))
          /\ FracSum(MapF(l, ValueOf)) = FracSum(MapF(a \o b, ValueOf)) ++ z
      <3> DEFINE k == a \o b
      <3>1. k \in Seq(StockRows) /\ Room(k, legs, 1) /\ l = Patched(k, legs, x)
        BY <1>6, <2>3, <2>4
      <3> HIDE DEF k
      <3>2. /\ Patched(k, legs, x) \in Seq(StockRows)
            /\ FracSum(MapF(Patched(k, legs, x), QtyOf)) = FracSum(MapF(k, QtyOf))
            /\ FracSum(MapF(Patched(k, legs, x), ValueOf)) =
                 FracSum(MapF(k, ValueOf)) ++ FracSum(MapF(legs, Repriced(x)))
        BY <2>1, <2>3, <3>1, PatchedSums
      <3> QED BY <3>1, <3>2 DEF k
    <2> HIDE DEF z
    <2>7. FracSum(MapF(a, ValueOf)) \in Fractions /\ FracSum(MapF(b, ValueOf)) \in Fractions
      BY <1>2, <1>3, SumType2
    <2>8. (FracSum(MapF(a, ValueOf)) ++ FracSum(MapF(b, ValueOf))) ++ z =
            FracSum(MapF(a, ValueOf)) ++ (FracSum(MapF(b, ValueOf)) ++ z)
      BY <2>5, <2>7, PlusAssoc
    <2> QED BY <1>4, <1>5, <2>1, <2>2, <2>6, <2>8 DEF SumIf
  <1> QED BY <1>8, <1>9

Touched(s, p) == \E i \in 1..Len(s) : Pair(s[i]) = p
BinInv ==
    \A p : Touched(sles, p) => p \in DOMAIN bins /\ bins[p] = compute_balance(Keep(sles, AtPair(p)))

\* Nothing is kept of rows outside the set.
LEMMA KeepNone ==
    ASSUME NEW S, NEW s \in Seq(S), NEW K, \A i \in 1..Len(s) : s[i] \notin K
    PROVE  Keep(s, K) = <<>>
  <1> DEFINE P == {u \in Seq(S) : (\A i \in 1..Len(u) : u[i] \notin K) => Keep(u, K) = <<>>}
  <1>1. <<>> \in P
    <2>1. <<>> \in Seq(S) /\ Keep(<<>>, K) = <<>>
      BY KeepEmpty
    <2> QED BY <2>1
  <1>2. ASSUME NEW u \in Seq(S), NEW x \in S, u \in P PROVE Append(u, x) \in P
    <2> DEFINE t == Append(u, x)
    <2>1. t \in Seq(S) /\ Len(t) = Len(u) + 1 /\ Len(u) \in Nat /\ t[Len(u) + 1] = x
          /\ \A i \in 1..Len(u) : t[i] = u[i] /\ i \in 1..Len(t)
      OBVIOUS
    <2>2. Keep(t, K) = IF x \in K THEN Append(Keep(u, K), x) ELSE Keep(u, K)
      BY KeepAppend
    <2> HIDE DEF t
    <2>3. ASSUME \A i \in 1..Len(t) : t[i] \notin K PROVE Keep(t, K) = <<>>
      <3>1. x \notin K /\ \A i \in 1..Len(u) : u[i] \notin K
        BY <2>1, <2>3
      <3> QED BY <1>2, <2>2, <3>1
    <2> QED BY <2>1, <2>3 DEF t
  <1> HIDE DEF P
  <1>3. Seq(S) \subseteq P
    BY <1>1, <1>2, SeqInduct
  <1> QED BY <1>3 DEF P

\* The rows that are added, and the ledgers the bins are made from.
Covers(t, L) == \A i \in 1..Len(t) : Pair(t[i]) \in DOMAIN L
Balanced(L, s) == \A p \in DOMAIN L : compute_balance(L[p]) = compute_balance(Keep(s, AtPair(p)))

\* Bins recomputed from balanced ledgers match the stock ledger (recompute_bins).
LEMMA BinsKept ==
    ASSUME sles \in Seq(Sles), BinInv, NEW t \in Seq(Sles), sles' = sles \o t,
           NEW L, bins' = recompute_bins(L), Covers(t, L), Balanced(L, sles \o t)
    PROVE  BinInv'
  <1>1. sles \in Seq(StockRows) /\ t \in Seq(StockRows)
    BY SubRows
  <1>2. ASSUME NEW p, Touched(sles', p)
        PROVE  p \in DOMAIN bins' /\ bins'[p] = compute_balance(Keep(sles', AtPair(p)))
    <2>1. /\ DOMAIN bins' = DOMAIN bins \cup DOMAIN L
          /\ p \in DOMAIN L => p \in DOMAIN bins' /\ bins'[p] = compute_balance(L[p])
          /\ p \notin DOMAIN L /\ p \in DOMAIN bins => p \in DOMAIN bins' /\ bins'[p] = bins[p]
      BY DEF recompute_bins
    <2>2. CASE p \in DOMAIN L
      BY <2>1, <2>2 DEF Balanced
    <2>3. CASE p \notin DOMAIN L
      <3>1. \A i \in 1..Len(t) : Pair(t[i]) # p
        BY <2>3 DEF Covers
      <3>2. \A i \in 1..Len(t) : t[i] \notin AtPair(p)
        BY <3>1 DEF AtPair
      <3>3. Keep(t, AtPair(p)) = <<>>
        BY <1>1, <3>2, KeepNone
      <3>4. Keep(sles \o t, AtPair(p)) = Keep(sles, AtPair(p)) \o Keep(t, AtPair(p))
        BY <1>1, KeepConcat
      <3>5. Keep(sles, AtPair(p)) \in Seq(StockRows)
        BY <1>1, KeepIn
      <3>6. Keep(sles \o t, AtPair(p)) = Keep(sles, AtPair(p))
        BY <3>3, <3>4, <3>5
      <3>7. Touched(sles, p)
        <4>1. PICK i \in 1..Len(sles \o t) : Pair((sles \o t)[i]) = p
          BY <1>2 DEF Touched
        <4>2. /\ Len(sles) \in Nat /\ Len(t) \in Nat /\ Len(sles \o t) = Len(sles) + Len(t)
              /\ i \in 1..Len(sles) => (sles \o t)[i] = sles[i]
              /\ i \notin 1..Len(sles) => (sles \o t)[i] = t[i - Len(sles)]
          OBVIOUS
        <4>3. i \notin 1..Len(sles) => i - Len(sles) \in 1..Len(t)
          BY <4>2
        <4>4. i \in 1..Len(sles)
          BY <3>1, <4>1, <4>2, <4>3
        <4> QED BY <4>1, <4>2, <4>4 DEF Touched
      <3> QED BY <2>1, <2>3, <3>6, <3>7 DEF BinInv
    <2> QED BY <2>2, <2>3
  <1> QED BY <1>2 DEF BinInv

\* Ledgers with the sums of the stored rows.
LEMMA SameSums ==
    ASSUME sles \in Seq(Sles), NEW t \in Seq(Sles), NEW p, NEW l \in Seq(StockRows),
           FracSum(MapF(l, QtyOf)) = SumIf(sles, AtPair(p), QtyOf) ++ SumIf(t, AtPair(p), QtyOf),
           FracSum(MapF(l, ValueOf)) = SumIf(sles, AtPair(p), ValueOf) ++ SumIf(t, AtPair(p), ValueOf)
    PROVE  compute_balance(l) = compute_balance(Keep(sles \o t, AtPair(p)))
  <1>1. sles \in Seq(StockRows) /\ t \in Seq(StockRows)
    BY SubRows
  <1>2. QtyOf \in [StockRows -> Fractions] /\ ValueOf \in [StockRows -> Fractions]
    BY MeasureTypes
  <1>3. SumIf(sles \o t, AtPair(p), QtyOf) = SumIf(sles, AtPair(p), QtyOf) ++ SumIf(t, AtPair(p), QtyOf)
    BY <1>1, <1>2, SumIfConcat
  <1>4. SumIf(sles \o t, AtPair(p), ValueOf) = SumIf(sles, AtPair(p), ValueOf) ++ SumIf(t, AtPair(p), ValueOf)
    BY <1>1, <1>2, SumIfConcat
  <1> DEFINE k == Keep(sles \o t, AtPair(p))
  <1>5. k \in Seq(StockRows)
    <2>1. sles \o t \in Seq(StockRows)
      BY <1>1, ConcatProperties
    <2> QED BY <2>1, KeepIn
  <1>6. FracSum(MapF(k, QtyOf)) = FracSum(MapF(l, QtyOf))
          /\ FracSum(MapF(k, ValueOf)) = FracSum(MapF(l, ValueOf))
    BY <1>3, <1>4 DEF SumIf
  <1> HIDE DEF k
  <1>7. compute_balance(l) = compute_balance(k)
    BY <1>5, <1>6, SameBalance
  <1> QED BY <1>7 DEF k

\* A submit keeps the bins.
LEMMA BinsSubmit ==
    ASSUME sles \in Seq(Sles), BinInv, NEW d \in Docs, NEW w, IsSettled(w), w.is_return \in BOOLEAN,
           Submits(d, w)
    PROVE  BinInv'
  <1> DEFINE s == derive_stock_rows(w)
             c == Costed(w)
             m == Moved(w)
             t == MapF(m, StoreAs(d, "posted"))
             L == Simulated(w)
  <1>1. /\ s \in Seq(Moves) /\ c \in Seq(Moves) /\ m \in Seq(Moves)
        /\ Len(c) = Len(s) /\ Len(m) = Len(s) /\ m \in Seq(StockRows)
    BY MovedType, SubRows
  <1>2. m = SpreadProduction(w, c)
    BY DEF Moved
  <1>3. DOMAIN L = Pairs(s) /\ \A p \in Pairs(s) : L[p] = SimulatedLedger(w, p, c)
    BY DEF Simulated
  <1>4. sles' = sles \o t /\ bins' = recompute_bins(L)
    BY DEF Submits
  <1>5. t \in Seq(Sles) /\ Len(t) = Len(m)
    <2> HIDE DEF m
    <2> QED BY <1>1, StoredSame
  <1>6. ASSUME NEW i \in 1..Len(t) PROVE Pair(t[i]) \in Pairs(s)
    <2>1. i \in 1..Len(s) /\ i \in DOMAIN m /\ i \in DOMAIN s /\ m[i] \in StockRows
      BY <1>1, <1>5
    <2>2. t[i] = Stored(m[i], d, "posted")
      BY <2>1 DEF MapF, StoreAs
    <2>3. Pair(t[i]) = Pair(m[i])
      BY <2>2 DEF Pair, Stored
    <2>4. m[i].item = c[i].item /\ m[i].warehouse = c[i].warehouse
      BY <1>1, <1>2, <2>1, SpreadKeeps
    <2>5. c[i].item = s[i].item /\ c[i].warehouse = s[i].warehouse
      <3>1. c[i] = CostOf(w, SubSeq(c, 1, i - 1), s[i])
        <4>1. c = CostRows(w, s)
          BY DEF Costed
        <4> HIDE DEF c, s
        <4> QED BY <1>1, <2>1, <4>1, CostRowsAre
      <3>2. s[i] \in Moves
        BY <1>1, <2>1
      <3> QED BY <3>1, <3>2 DEF CostOf, Moves
    <2>6. Pair(t[i]) = Pair(s[i])
      BY <2>3, <2>4, <2>5 DEF Pair
    <2> QED BY <2>1, <2>6 DEF Pairs, ToSet
  <1>7. Covers(t, L)
    BY <1>3, <1>6 DEF Covers
  <1>8. ASSUME NEW p \in DOMAIN L
        PROVE  compute_balance(L[p]) = compute_balance(Keep(sles \o t, AtPair(p)))
    <2> DEFINE l == L[p]
    <2>1. l = SimulatedLedger(w, p, c)
      BY <1>3, <1>8
    <2> HIDE DEF L, l, m, c, s
    <2>2. /\ l \in Seq(StockRows)
          /\ FracSum(MapF(l, QtyOf)) = SumIf(sles, AtPair(p), QtyOf) ++ SumIf(m, AtPair(p), QtyOf)
          /\ FracSum(MapF(l, ValueOf)) = SumIf(sles, AtPair(p), ValueOf) ++ SumIf(m, AtPair(p), ValueOf)
      BY <1>1, <1>2, <2>1, SimulatedSums
    <2>3. /\ SumIf(t, AtPair(p), QtyOf) = SumIf(m, AtPair(p), QtyOf)
          /\ SumIf(t, AtPair(p), ValueOf) = SumIf(m, AtPair(p), ValueOf)
      BY <1>1, StoredSame
    <2> HIDE DEF t
    <2>4. compute_balance(l) = compute_balance(Keep(sles \o t, AtPair(p)))
      BY <1>5, <2>2, <2>3, SameSums
    <2> QED BY <2>4 DEF l
  <1> HIDE DEF L, t
  <1>9. Balanced(L, sles \o t)
    BY <1>8 DEF Balanced
  <1> QED BY <1>4, <1>5, <1>7, <1>9, BinsKept

\* A cancel keeps the bins.
LEMMA BinsCancel ==
    ASSUME sles \in Seq(Sles), BinInv, NEW d \in Docs, Cancels(d) PROVE BinInv'
  <1> DEFINE o == Keep(sles, OfVoucher(d))
             b == Back(d)
             t == MapF(o, ReverseSle(d))
             L == [p \in Pairs(b) |-> prior_for(p, b)]
  <1>1. o \in Seq(Sles) /\ o = sles_for_voucher(d) /\ \A i \in DOMAIN o : o[i] \in Sles
    BY VoucherRowsAre
  <1>2. DOMAIN b = DOMAIN o /\ \A i \in DOMAIN o : b[i] = Undo(o[i]) /\ Undo(o[i]) \in Sles
    BY <1>1, ReverseTypes DEF Back
  <1>3. b \in Seq(Sles) /\ b \in Seq(StockRows)
    <2>1. DOMAIN b = 1..Len(o) /\ Len(o) \in Nat
      BY <1>1, <1>2
    <2>2. b = [i \in 1..Len(o) |-> b[i]]
      BY <1>1, <2>1 DEF Back
    <2> HIDE DEF b
    <2>3. b \in Seq(Sles)
      BY <1>2, <2>1, <2>2
    <2> QED BY <2>3, SubRows
  <1>4. t = MapF(b, StoreAs(d, "cancelled"))
    <2>1. \A i \in DOMAIN o : ReverseSle(d)[o[i]] = Stored(Undo(o[i]), d, "cancelled")
      BY <1>1 DEF ReverseSle
    <2>2. \A i \in DOMAIN o : StoreAs(d, "cancelled")[b[i]] = Stored(Undo(o[i]), d, "cancelled")
      BY <1>2 DEF StoreAs, StockRows
    <2> HIDE DEF b, o
    <2> QED BY <1>2, <2>1, <2>2 DEF MapF
  <1>5. sles' = sles \o t /\ bins' = recompute_bins(L)
    BY DEF Cancels
  <1> HIDE DEF o, b, t
  <1>6. t \in Seq(Sles) /\ Len(t) = Len(b)
    BY <1>3, <1>4, StoredSame
  <1>7. ASSUME NEW i \in 1..Len(t) PROVE Pair(t[i]) \in Pairs(b)
    <2>1. i \in DOMAIN b /\ b[i] \in StockRows
      BY <1>3, <1>6
    <2>2. t[i] = Stored(b[i], d, "cancelled")
      BY <1>4, <2>1 DEF MapF, StoreAs
    <2>3. Pair(t[i]) = Pair(b[i])
      BY <2>2 DEF Pair, Stored
    <2> QED BY <2>1, <2>3 DEF Pairs, ToSet
  <1>8. DOMAIN L = Pairs(b) /\ \A p \in Pairs(b) : L[p] = prior_for(p, b)
    OBVIOUS
  <1> HIDE DEF L
  <1>9. Covers(t, L)
    BY <1>7, <1>8 DEF Covers
  <1>10. ASSUME NEW p \in DOMAIN L
         PROVE  compute_balance(L[p]) = compute_balance(Keep(sles \o t, AtPair(p)))
    <2> DEFINE l == L[p]
    <2>1. l = Keep(sles \o b, AtPair(p)) /\ l \in Seq(StockRows)
      BY <1>3, <1>8, PriorIs
    <2>2. QtyOf \in [StockRows -> Fractions] /\ ValueOf \in [StockRows -> Fractions] /\ sles \in Seq(StockRows)
      BY MeasureTypes, SubRows
    <2>3. SumIf(sles \o b, AtPair(p), QtyOf) = SumIf(sles, AtPair(p), QtyOf) ++ SumIf(b, AtPair(p), QtyOf)
      BY <1>3, <2>2, SumIfConcat
    <2>4. SumIf(sles \o b, AtPair(p), ValueOf) = SumIf(sles, AtPair(p), ValueOf) ++ SumIf(b, AtPair(p), ValueOf)
      BY <1>3, <2>2, SumIfConcat
    <2>5. /\ SumIf(t, AtPair(p), QtyOf) = SumIf(b, AtPair(p), QtyOf)
          /\ SumIf(t, AtPair(p), ValueOf) = SumIf(b, AtPair(p), ValueOf)
      BY <1>3, <1>4, StoredSame
    <2> HIDE DEF l
    <2>6. /\ FracSum(MapF(l, QtyOf)) = SumIf(sles, AtPair(p), QtyOf) ++ SumIf(t, AtPair(p), QtyOf)
          /\ FracSum(MapF(l, ValueOf)) = SumIf(sles, AtPair(p), ValueOf) ++ SumIf(t, AtPair(p), ValueOf)
      BY <2>1, <2>3, <2>4, <2>5 DEF SumIf
    <2>7. compute_balance(l) = compute_balance(Keep(sles \o t, AtPair(p)))
      BY <1>6, <2>1, <2>6, SameSums
    <2> QED BY <2>7 DEF l
  <1>11. Balanced(L, sles \o t)
    BY <1>10 DEF Balanced
  <1> QED BY <1>5, <1>6, <1>9, <1>11, BinsKept

\* BinInv is inductive.
LEMMA BinsStep == LedgerTypeOK /\ BinInv /\ [Next]_vars => BinInv'
  <1> SUFFICES ASSUME LedgerTypeOK, BinInv, [Next]_vars PROVE BinInv'
    OBVIOUS
  <1>1. sles \in Seq(Sles)
    BY DEF LedgerTypeOK
  <1>2. CASE UNCHANGED <<company, status, gl, party_transactions, tax_transactions, sles, bins>>
    BY <1>2 DEF BinInv
  <1> QED BY <1>1, <1>2, Steps, BinsSubmit, BinsCancel

\* BinInv holds at the start.
LEMMA BinsInit == Init => BinInv
  BY DEF Init, BinInv, Touched

\* BinInv is the part of the property on bins.
LEMMA BinsImply == LedgerTypeOK /\ BinInv => BinsMatch
  <1> SUFFICES ASSUME LedgerTypeOK, BinInv, NEW r \in ToSet(sles), NEW p, p = Pair(r)
               PROVE  p \in DOMAIN bins /\ bins[p] = compute_balance(sles_for_pair(p))
    BY DEF BinsMatch
  <1>1. sles \in Seq(Sles)
    BY DEF LedgerTypeOK
  <1>2. Touched(sles, p)
    <2>1. PICK i \in DOMAIN sles : sles[i] = r
      BY DEF ToSet
    <2>2. i \in 1..Len(sles)
      BY <1>1
    <2> QED BY <2>1, <2>2 DEF Touched
  <1>3. sles_for_pair(p) = Keep(sles, AtPair(p))
    <2>1. <<>> \in Seq(StockRows)
      OBVIOUS
    <2> QED BY <1>1, <2>1, PriorIs
  <1> QED BY <1>2, <1>3 DEF BinInv

-----------------------------------------------------------------------------
(* A production takes out what it puts in.                                 *)

\* What is divided among units and multiplied again.
LEMMA WholeDivided ==
    ASSUME NEW n \in Nat \ {0}, NEW x \in Fractions PROVE Whole(n) ** (x // Whole(n)) = x
  <1>1. Whole(1 * n) ** (x // Whole(n)) = Whole(1) ** x
    BY UnitValue
  <1>2. 1 * n = n
    OBVIOUS
  <1>3. Whole(1) ** x = x
    <2>1. x ** Whole(1) = x
      BY TimesOne
    <2>2. Whole(1) ** x = x ** Whole(1)
      <3>1. Whole(1) \in Fractions /\ x[1] \in Int /\ x[2] \in Int
        BY WholeType, FractionType
      <3>2. Whole(1)[1] * x[1] = x[1] * Whole(1)[1] /\ Whole(1)[2] * x[2] = x[2] * Whole(1)[2]
        BY <3>1 DEF Whole
      <3> QED BY <3>2 DEF **
    <2> QED BY <2>1, <2>2
  <1> QED BY <1>1, <1>2, <1>3

\* A sum of naturals with a positive term is positive.
LEMMA SumPositive ==
    ASSUME NEW s \in Seq(Nat), NEW k \in 1..Len(s), s[k] > 0 PROVE SumFunction(s) > 0
  <1> DEFINE P == {u \in Seq(Nat) : SumFunction(u) \in Nat
          /\ ((\E i \in 1..Len(u) : u[i] > 0) => SumFunction(u) > 0)}
  <1>1. <<>> \in P
    <2>1. <<>> \in Seq(Nat)
      OBVIOUS
    <2> QED BY <2>1, IntSumEmpty
  <1>2. ASSUME NEW u \in Seq(Nat), NEW x \in Nat, u \in P PROVE Append(u, x) \in P
    <2> DEFINE t == Append(u, x)
    <2>1. t \in Seq(Nat) /\ Len(t) = Len(u) + 1 /\ Len(u) \in Nat /\ t[Len(u) + 1] = x
          /\ \A i \in 1..Len(u) : t[i] = u[i]
      OBVIOUS
    <2>2. u \in Seq(Int) /\ x \in Int
      BY SeqMonotonic
    <2>3. SumFunction(t) = SumFunction(u) + x
      BY <2>2, IntSumAppend
    <2> HIDE DEF t
    <2>4. ASSUME NEW i \in 1..Len(t), t[i] > 0 PROVE SumFunction(t) > 0
      <3>1. CASE i = Len(u) + 1
        BY <1>2, <2>1, <2>3, <2>4, <3>1
      <3>2. CASE i # Len(u) + 1
        <4>1. i \in 1..Len(u) /\ u[i] > 0
          BY <2>1, <2>4, <3>2
        <4> QED BY <1>2, <2>3, <4>1
      <3> QED BY <3>1, <3>2
    <2>5. SumFunction(t) \in Nat
      BY <1>2, <2>3
    <2> QED BY <2>1, <2>4, <2>5 DEF t
  <1> HIDE DEF P
  <1>3. Seq(Nat) \subseteq P
    BY <1>1, <1>2, SeqInduct
  <1> QED BY <1>3 DEF P

Made == {r \in Moves : r.trans_type = "Production"}

\* What a production takes, and the quantity it makes.
TakenOf(c) == [i \in DOMAIN c |-> IF c[i].qty < 0 THEN Value(c[i]) ELSE Zero]
MadeOf(w, c) == [i \in DOMAIN c |-> IF IsOutput(w, c[i]) THEN c[i].qty ELSE 0]

\* A production makes what it consumes: its rows are worth nothing together.
LEMMA ProductionValue ==
    ASSUME NEW w, w.is_return = FALSE, NEW c \in Seq(Made), Spreads(w, c),
           NEW m, m = SpreadProduction(w, c)
    PROVE  FracSum(MapF(m, ValueOf)) = Zero
  <1> DEFINE x == SpreadRate(w, c)
             a == TakenOf(c)
             q == MadeOf(w, c)
             h == [i \in DOMAIN q |-> Whole(q[i])]
             b == [i \in DOMAIN h |-> h[i] ** x]
             C == Consumed(c)
             n == Produced(w, c)
  <1>1. c \in Seq(Moves) /\ c \in Seq(StockRows)
    <2>1. Made \subseteq Moves
      BY DEF Made
    <2>2. c \in Seq(Moves)
      BY <2>1, SeqMonotonic
    <2> QED BY <2>2, SubRows
  <1>2. a \in Seq(Fractions) /\ C = Negated(FracSum(a)) /\ C \in Fractions
    BY <1>1, ConsumedType DEF TakenOf
  <1>3. q \in Seq(Int) /\ n = SumFunction(q) /\ n \in Int
    BY <1>1, ProducedType DEF MadeOf
  <1>4. n \in Nat \ {0} /\ x = C // Whole(n)
    BY <1>3 DEF Spreads, SpreadRate
  <1>5. x \in Fractions
    BY <1>1, SpreadRateType
  <1>6. /\ m \in Seq(Moves) /\ Len(m) = Len(c)
        /\ \A i \in 1..Len(c) : m[i] = Respread(w, c, c[i])
    BY <1>1, SpreadIs
  <1>7. DOMAIN a = 1..Len(c) /\ DOMAIN q = 1..Len(c) /\ DOMAIN m = 1..Len(c) /\ Len(c) \in Nat
    BY <1>1, <1>6 DEF TakenOf, MadeOf
  <1>8. /\ \A i \in 1..Len(c) : a[i] = IF c[i].qty < 0 THEN Value(c[i]) ELSE Zero
        /\ \A i \in 1..Len(c) : q[i] = IF IsOutput(w, c[i]) THEN c[i].qty ELSE 0
    BY <1>7 DEF TakenOf, MadeOf
  <1> HIDE DEF x, a, q, C, n
  <1>9. /\ h \in Seq(Fractions) /\ DOMAIN h = 1..Len(c) /\ Len(h) = Len(c) /\ FracSum(h) = Whole(n)
        /\ \A i \in 1..Len(c) : h[i] = Whole(q[i])
    <2>1. FracSum(h) = Whole(n)
      BY <1>3, WholeSum
    <2>2. \A i \in 1..Len(c) : h[i] = Whole(q[i]) /\ Whole(q[i]) \in Fractions
      BY <1>3, <1>7, WholeType
    <2>3. DOMAIN h = 1..Len(c)
      BY <1>7
    <2>4. h \in Seq(Fractions) /\ Len(h) = Len(c)
      BY <1>7, <2>2, <2>3
    <2> QED BY <2>1, <2>2, <2>3, <2>4
  <1> HIDE DEF h
  <1>10. /\ b \in Seq(Fractions) /\ DOMAIN b = 1..Len(c) /\ Len(b) = Len(c)
         /\ FracSum(b) = Whole(n) ** x
         /\ \A i \in 1..Len(c) : b[i] = h[i] ** x
    <2>1. FracSum(b) = FracSum(h) ** x
      BY <1>5, <1>9, FracSumTimes
    <2>2. \A i \in 1..Len(c) : h[i] \in Fractions
      BY <1>9
    <2>3. \A i \in 1..Len(c) : h[i] ** x \in Fractions
      BY <1>5, <2>2, TimesType
    <2>4. DOMAIN b = 1..Len(c) /\ \A i \in 1..Len(c) : b[i] = h[i] ** x
      BY <1>9
    <2>5. b \in Seq(Fractions) /\ Len(b) = Len(c)
      BY <1>7, <2>3, <2>4
    <2> QED BY <1>9, <2>1, <2>4, <2>5
  <1> HIDE DEF b
  <1>11. ASSUME NEW i \in 1..Len(c) PROVE ValueOf[m[i]] = a[i] ++ b[i]
    <2>1. c[i] \in Made /\ c[i] \in Moves /\ c[i] \in StockRows /\ m[i] \in StockRows
      BY <1>1, <1>6, <1>7, SubRows DEF StockRows
    <2>2. c[i].qty \in Int /\ c[i].rate \in Fractions /\ Value(c[i]) \in Fractions
      BY <2>1, StockRowType, ValueType
    <2>3. IsOutput(w, c[i]) <=> c[i].qty > 0
      BY <2>1 DEF Made, IsOutput
    <2>4. Zero ** x = Zero /\ Whole(0) = Zero
      BY <1>5, TimesZero DEF Zero
    <2>5. CASE c[i].qty < 0
      <3>0. ~IsOutput(w, c[i])
        BY <2>2, <2>3, <2>5
      <3>1. m[i] = c[i] /\ a[i] = Value(c[i]) /\ q[i] = 0
        <4>1. m[i] = c[i]
          BY <1>6, <3>0 DEF Respread
        <4>2. a[i] = Value(c[i])
          BY <1>8, <2>2, <2>5
        <4> QED BY <1>8, <3>0, <4>1, <4>2
      <3>2. b[i] = Zero
        BY <1>9, <1>10, <2>4, <3>1
      <3> QED BY <2>1, <2>2, <3>1, <3>2, PlusZero DEF ValueOf
    <2>6. CASE c[i].qty > 0
      <3>1. m[i] = [c[i] EXCEPT !.rate = x] /\ a[i] = Zero /\ q[i] = c[i].qty
        BY <1>6, <1>8, <2>2, <2>3, <2>6 DEF Respread, x
      <3>2. m[i].qty = c[i].qty /\ m[i].rate = x
        BY <2>1, <3>1 DEF Moves
      <3>3. ValueOf[m[i]] = Whole(c[i].qty) ** x
        BY <2>1, <3>2 DEF ValueOf, Value
      <3>4. b[i] = Whole(c[i].qty) ** x /\ b[i] \in Fractions
        BY <1>9, <1>10, <3>1
      <3> QED BY <3>1, <3>3, <3>4, PlusZero
    <2>7. CASE c[i].qty = 0
      <3>0. ~IsOutput(w, c[i])
        BY <2>2, <2>3, <2>7
      <3>1. m[i] = c[i] /\ a[i] = Zero /\ q[i] = 0
        <4>1. m[i] = c[i]
          BY <1>6, <3>0 DEF Respread
        <4>2. a[i] = Zero
          BY <1>8, <2>2, <2>7
        <4> QED BY <1>8, <3>0, <4>1, <4>2
      <3>2. b[i] = Zero
        BY <1>9, <1>10, <2>4, <3>1
      <3>3. ValueOf[m[i]] = Zero
        BY <2>1, <2>2, <2>4, <2>7, <3>1, TimesZero DEF ValueOf, Value
      <3> QED BY <3>1, <3>2, <3>3, ZeroSums
    <2> QED BY <2>2, <2>5, <2>6, <2>7
  <1>12. MapF(m, ValueOf) = [i \in DOMAIN a |-> a[i] ++ b[i]]
    BY <1>7, <1>11 DEF MapF
  <1>13. FracSum(MapF(m, ValueOf)) = FracSum(a) ++ FracSum(b)
    <2>1. Len(a) = Len(b)
      BY <1>2, <1>7, <1>10
    <2> QED BY <1>2, <1>10, <1>12, <2>1, FracSumPlus
  <1>14. FracSum(b) = Negated(FracSum(a))
    BY <1>2, <1>4, <1>10, WholeDivided
  <1>15. FracSum(a) \in Fractions
    BY <1>2, FracSumType
  <1> QED BY <1>13, <1>14, <1>15, PlusNegated

-----------------------------------------------------------------------------
(* A transfer puts in what it takes out.                                   *)

\* Rows come in twos: out of a warehouse and into another.
Twin(a, b) ==
    /\ a.trans_type = "Transfer" /\ b.trans_type = "Transfer"
    /\ a.item = b.item /\ a.uom = b.uom /\ a.qty < 0 /\ b.qty = -a.qty
TwinAt(s, i) ==
    \/ s[i].qty < 0 /\ i + 1 \in 1..Len(s) /\ Twin(s[i], s[i + 1])
    \/ s[i].qty > 0 /\ i - 1 \in 1..Len(s) /\ Twin(s[i - 1], s[i])
Twins(s) == \A i \in 1..Len(s) : TwinAt(s, i)

\* Two more twins.
LEMMA TwinsAppend ==
    ASSUME NEW s \in Seq(Moves), Twins(s), NEW a \in Moves, NEW b \in Moves, Twin(a, b)
    PROVE  Twins(Append(Append(s, a), b))
  <1> DEFINE t == Append(Append(s, a), b)
             n == Len(s)
  <1>1. /\ n \in Nat /\ Len(t) = n + 2 /\ t[n + 1] = a /\ t[n + 2] = b
        /\ \A i \in 1..n : t[i] = s[i]
    OBVIOUS
  <1>2. a.qty \in Int /\ b.qty \in Int
    BY MoveType
  <1> HIDE DEF t, n
  <1>3. ASSUME NEW i \in 1..n PROVE TwinAt(t, i)
    <2>1. TwinAt(s, i)
      BY DEF Twins, n
    <2>2. i + 1 \in 1..n => t[i + 1] = s[i + 1] /\ i + 1 \in 1..Len(t)
      BY <1>1
    <2>3. i - 1 \in 1..n => t[i - 1] = s[i - 1] /\ i - 1 \in 1..Len(t)
      BY <1>1
    <2> QED BY <1>1, <2>1, <2>2, <2>3 DEF TwinAt, n
  <1>4. TwinAt(t, n + 1)
    <2>1. (n + 1) + 1 = n + 2 /\ n + 2 \in 1..Len(t)
      BY <1>1
    <2>2. t[n + 1].qty < 0 /\ (n + 1) + 1 \in 1..Len(t) /\ Twin(t[n + 1], t[(n + 1) + 1])
      BY <1>1, <2>1 DEF Twin
    <2> QED BY <2>2 DEF TwinAt
  <1>5. TwinAt(t, n + 2)
    <2>1. (n + 2) - 1 = n + 1 /\ n + 1 \in 1..Len(t)
      BY <1>1
    <2>2. t[n + 2].qty > 0
      BY <1>1, <1>2 DEF Twin
    <2> QED BY <1>1, <2>1, <2>2 DEF TwinAt
  <1>6. \A i \in 1..Len(t) : i \in 1..n \/ i = n + 1 \/ i = n + 2
    BY <1>1
  <1>7. Twins(t)
    BY <1>3, <1>4, <1>5, <1>6 DEF Twins
  <1> QED BY <1>7 DEF t

TransferLines ==
    {l \in Lines : l.qty > 0 /\ l.source_warehouse # None /\ l.target_warehouse # None}

\* A transfer line makes twins.
LEMMA LineTwins ==
    ASSUME NEW w, stock_entry_trans_type(w.stock_entry_type) = "Transfer", NEW l \in TransferLines,
           NEW s \in Seq(Moves), Twins(s)
    PROVE  Twins(s \o Keep(EntryRow(w, l), Stocked))
  <1> DEFINE x == Default(l.valuation_rate, Zero)
             a == Sle("Transfer", l, l.source_warehouse, -l.qty, x)
             b == Sle("Transfer", l, l.target_warehouse, l.qty, x)
  <1>1. /\ l.qty \in Int /\ l.qty > 0 /\ -l.qty \in Int /\ x \in Fractions /\ l \in Lines
        /\ l.source_warehouse \in Names /\ l.target_warehouse \in Names
        /\ l.source_warehouse # None /\ l.target_warehouse # None
    BY LineType, ZeroType DEF TransferLines, Default
  <1>2. s \o <<>> = s /\ <<>> \in Seq(Moves) /\ Keep(<<>>, Stocked) = <<>>
    BY KeepEmpty
  <1>3. CASE l.item = None
    <2>1. EntryRow(w, l) = <<>> \o <<>>
      BY <1>3 DEF EntryRow, EntryLeg
    <2>2. EntryRow(w, l) = <<>>
      BY <2>1
    <2> QED BY <1>2, <2>2
  <1>4. CASE l.item # None
    <2>1. EntryRow(w, l) = <<a>> \o <<b>>
      BY <1>1, <1>4 DEF EntryRow, EntryLeg
    <2>2. a \in Moves /\ b \in Moves
      <3>1. "Transfer" \in TransTypes
        BY DEF TransTypes
      <3> QED BY <1>1, <3>1, SleType
    <2>3. a.item = l.item /\ b.item = l.item /\ Twin(a, b)
      BY <1>1 DEF Sle, Twin
    <2> HIDE DEF a, b
    <2>4. EntryRow(w, l) = Append(Append(<<>>, a), b)
      BY <2>1
    <2>5. a \in Stocked <=> b \in Stocked
      BY <2>2, <2>3 DEF Stocked
    <2> DEFINE z == Append(<<>>, a)
    <2>6. z \in Seq(Moves) /\ EntryRow(w, l) = Append(z, b)
      BY <2>2, <2>4
    <2>7. Keep(z, Stocked) = IF a \in Stocked THEN z ELSE <<>>
      BY <1>2, <2>2, KeepAppend
    <2>8. Keep(EntryRow(w, l), Stocked) = IF b \in Stocked THEN Append(Keep(z, Stocked), b)
            ELSE Keep(z, Stocked)
      <3> HIDE DEF z
      <3>1. Keep(Append(z, b), Stocked) = IF b \in Stocked THEN Append(Keep(z, Stocked), b)
              ELSE Keep(z, Stocked)
        BY <2>2, <2>6, KeepAppend
      <3> QED BY <2>6, <3>1
    <2>9. CASE b \in Stocked
      <3>1. Keep(EntryRow(w, l), Stocked) = Append(Append(<<>>, a), b)
        BY <2>5, <2>7, <2>8, <2>9
      <3>2. s \o Append(Append(<<>>, a), b) = Append(Append(s, a), b)
        BY <2>2
      <3> QED BY <2>2, <2>3, <3>1, <3>2, TwinsAppend
    <2>10. CASE b \notin Stocked
      BY <1>2, <2>5, <2>7, <2>8, <2>10
    <2> QED BY <2>9, <2>10
  <1> QED BY <1>3, <1>4

\* The rows of a transfer are twins, out and in.
LEMMA TransferTwins ==
    ASSUME NEW w, IsSettled(w), w.doctype = "StockEntry",
           stock_entry_trans_type(w.stock_entry_type) = "Transfer", w.items \in Seq(TransferLines)
    PROVE  Twins(derive_stock_rows(w))
  <1> DEFINE E(u) == [i \in DOMAIN u |-> EntryRow(w, u[i])]
             P == {u \in Seq(TransferLines) : Twins(Keep(Concat(E(u)), Stocked))}
  <1>1. TransferLines \subseteq Lines
    BY DEF TransferLines
  <1>2. ASSUME NEW u \in Seq(TransferLines) PROVE E(u) \in Seq(Seq(Moves))
    <2>1. \A i \in 1..Len(u) : u[i] \in Lines
      BY <1>1
    <2>2. \A i \in 1..Len(u) : EntryRow(w, u[i]) \in Seq(Moves)
      BY <2>1, EntryRowType
    <2>3. DOMAIN u = 1..Len(u) /\ Len(u) \in Nat
      OBVIOUS
    <2> QED BY <2>2, <2>3
  <1>3. <<>> \in P
    <2>1. <<>> \in Seq(TransferLines) /\ E(<<>>) = <<>> /\ Concat(<<>>) = <<>> /\ Keep(<<>>, Stocked) = <<>>
      BY ConcatEmpty, KeepEmpty
    <2>2. Twins(<<>>)
      BY DEF Twins
    <2> QED BY <2>1, <2>2
  <1>4. ASSUME NEW u \in Seq(TransferLines), NEW l \in TransferLines, u \in P PROVE Append(u, l) \in P
    <2>1. E(Append(u, l)) = Append(E(u), EntryRow(w, l))
      <3>1. E(u) \in Seq(Seq(Moves)) /\ Len(E(u)) = Len(u) /\ Len(u) \in Nat
        BY <1>2
      <3>2. Append(E(u), EntryRow(w, l)) =
              [i \in 1..(Len(u) + 1) |-> IF i \in 1..Len(u) THEN E(u)[i] ELSE EntryRow(w, l)]
        BY <3>1
      <3>3. /\ DOMAIN Append(u, l) = 1..(Len(u) + 1)
            /\ \A i \in 1..(Len(u) + 1) : Append(u, l)[i] = IF i \in 1..Len(u) THEN u[i] ELSE l
        <4>1. Len(Append(u, l)) = Len(u) + 1 /\ Append(u, l) \in Seq(TransferLines)
          OBVIOUS
        <4>2. DOMAIN Append(u, l) = 1..(Len(u) + 1)
          BY <4>1
        <4>3. \A i \in 1..Len(u) : Append(u, l)[i] = u[i]
          OBVIOUS
        <4>4. Append(u, l)[Len(u) + 1] = l
          OBVIOUS
        <4>5. \A i \in 1..(Len(u) + 1) : i \in 1..Len(u) \/ i = Len(u) + 1
          BY <3>1
        <4> QED BY <4>2, <4>3, <4>4, <4>5
      <3>4. \A i \in 1..Len(u) : E(u)[i] = EntryRow(w, u[i])
        OBVIOUS
      <3> QED BY <3>1, <3>2, <3>3, <3>4
    <2> DEFINE e == E(u)
               y == EntryRow(w, l)
    <2>2. e \in Seq(Seq(Moves)) /\ y \in Seq(Moves)
      BY <1>1, <1>2, EntryRowType
    <2>3. Twins(Keep(Concat(e), Stocked))
      BY <1>4
    <2>4. E(Append(u, l)) = Append(e, y)
      BY <2>1
    <2> HIDE DEF E, e, y
    <2>5. Concat(Append(e, y)) = Concat(e) \o y
      BY <2>2, ConcatAppend
    <2>6. Concat(e) \in Seq(Moves)
      BY <2>2, ConcatType
    <2>7. Keep(Concat(e) \o y, Stocked) = Keep(Concat(e), Stocked) \o Keep(y, Stocked)
      BY <2>2, <2>6, KeepConcat
    <2>8. Keep(Concat(e), Stocked) \in Seq(Moves)
      BY <2>6, KeepIn
    <2>9. Twins(Keep(Concat(e), Stocked) \o Keep(y, Stocked))
      BY <2>3, <2>8, LineTwins DEF y
    <2>10. Append(u, l) \in Seq(TransferLines)
      OBVIOUS
    <2> QED BY <2>4, <2>5, <2>7, <2>9, <2>10
  <1>5. Seq(TransferLines) \subseteq P
    <2> HIDE DEF P
    <2> QED BY <1>3, <1>4, SeqInduct
  <1>6. derive_stock_rows(w) = Keep(stock_entry_rows(w), Stocked)
    BY StockRowsAre DEF RawRows
  <1>7. stock_entry_rows(w) = Concat(E(w.items))
    BY EntryRowsAre
  <1> QED BY <1>5, <1>6, <1>7

\* A row in stock units.
LEMMA CostOfFields ==
    ASSUME NEW w, NEW rows, NEW r \in Moves, NEW c, c = CostOf(w, rows, r)
    PROVE  /\ c.qty = Units(r) /\ c.rate = CostRate(w, rows, r) /\ c.item = r.item
           /\ c.warehouse = r.warehouse /\ c.trans_type = r.trans_type /\ c.uom = r.uom
  BY DEF CostOf, Moves

\* The unit of measure keeps the sign.
LEMMA UnitsSign ==
    ASSUME NEW r \in Moves
    PROVE  /\ Units(r) \in Int /\ (Units(r) < 0 <=> r.qty < 0) /\ (Units(r) > 0 <=> r.qty > 0)
           /\ (Units(r) = 0 <=> r.qty = 0)
  <1>1. uom_factor(r.item, r.uom) \in Nat \ {0} /\ r.qty \in Int
    BY FactorType, MoveType
  <1> DEFINE f == uom_factor(r.item, r.uom)
             q == r.qty
  <1>2. Units(r) = q * f
    BY DEF Units
  <1> HIDE DEF f, q
  <1>3. f \in Nat /\ f > 0 /\ q \in Int
    BY <1>1 DEF f, q
  <1>4. q * f \in Int /\ (q < 0 => q * f < 0) /\ (q > 0 => q * f > 0) /\ (q = 0 => q * f = 0)
    BY <1>3
  <1>5. /\ q * f \in Int /\ (q * f < 0 <=> q < 0) /\ (q * f > 0 <=> q > 0) /\ (q * f = 0 <=> q = 0)
    BY <1>3, <1>4
  <1> QED BY <1>2, <1>5 DEF q

Undoes(c, i) == ValueOf[c[i]] = Negated(ValueOf[c[i - 1]])

\* The goods of a transfer come in at the cost they went out at.
LEMMA TwinCost ==
    ASSUME sles \in Seq(Sles), NEW w, w.is_return = FALSE, NEW s \in Seq(Moves), Twins(s),
           NEW c, c = CostRows(w, s), NEW i \in 1..Len(s), s[i].qty > 0
    PROVE  i - 1 \in 1..Len(s) /\ s[i - 1].qty < 0 /\ Undoes(c, i)
  <1> DEFINE k == i - 1
             rows == SubSeq(c, 1, i - 1)
             past == SubSeq(c, 1, k - 1)
  <1>1. s[i] \in Moves /\ s[i].qty \in Int
    BY MoveType
  <1>2. k \in 1..Len(s) /\ Twin(s[k], s[i])
    BY <1>1 DEF Twins, TwinAt
  <1>3. s[k] \in Moves /\ s[k].qty \in Int /\ s[k].qty < 0
    BY <1>2, MoveType DEF Twin
  <1>4. /\ c \in Seq(Moves) /\ Len(c) = Len(s)
        /\ \A j \in 1..Len(s) : c[j] = CostOf(w, SubSeq(c, 1, j - 1), s[j])
    <2>1. w.is_return \in BOOLEAN
      OBVIOUS
    <2> QED BY <2>1, CostRowsAre
  <1>5. c[i] = CostOf(w, rows, s[i])
    BY <1>4
  <1>6. c[k] = CostOf(w, past, s[k])
    BY <1>2, <1>4
  <1>7. c[i] \in Moves /\ c[k] \in Moves
    BY <1>2, <1>4
  <1>8. /\ rows \in Seq(Moves) /\ Len(rows) = k /\ k \in DOMAIN rows /\ rows[k] = c[k]
        /\ DOMAIN rows = 1..k /\ k \in Nat
    <2>1. i - 1 \in 1..Len(c) /\ Len(c) \in Nat
      BY <1>2, <1>4
    <2>2. rows \in Seq(Moves) /\ Len(rows) = i - 1 /\ \A j \in 1..(i - 1) : rows[j] = c[j]
      BY <1>4, <2>1
    <2> QED BY <2>1, <2>2
  <1> HIDE DEF rows, past, k
  <1>9. c[i].qty = Units(s[i]) /\ c[i].rate = CostRate(w, rows, s[i])
    BY <1>1, <1>5, CostOfFields
  <1>10. c[k].qty = Units(s[k]) /\ c[k].item = s[k].item
    BY <1>3, <1>6, CostOfFields
  <1>11. Units(s[i]) > 0 /\ Units(s[i]) \in Int /\ Units(s[k]) < 0 /\ Units(s[k]) \in Int
    BY <1>1, <1>3, UnitsSign
  <1>12. Units(s[i]) = -Units(s[k])
    <2> DEFINE f == uom_factor(s[i].item, s[i].uom)
               q == s[k].qty
    <2>1. f \in Int /\ q \in Int
      BY <1>3, FactorType
    <2>2. Units(s[k]) = q * f /\ Units(s[i]) = (-q) * f
      BY <1>2 DEF Units, Twin
    <2> HIDE DEF f, q
    <2> QED BY <2>1, <2>2
  <1>13. CostRate(w, rows, s[i]) = OutCost(rows, s[i])
    <2>1. s[i].qty * uom_factor(s[i].item, s[i].uom) > 0
      BY <1>11 DEF Units
    <2>2. s[i].qty * uom_factor(s[i].item, s[i].uom) \in Int
      BY <1>11 DEF Units
    <2>3. s[i].trans_type = "Transfer"
      BY <1>2 DEF Twin
    <2> QED BY <2>1, <2>2, <2>3 DEF CostRate
  <1>14. OutCost(rows, s[i]) = c[k].rate
    <2> DEFINE out == {j \in DOMAIN rows : rows[j].item = s[i].item /\ rows[j].qty < 0}
    <2>1. k \in out
      BY <1>2, <1>8, <1>10, <1>11 DEF Twin
    <2>2. out \in SUBSET (1..k) /\ out # {}
      BY <1>8, <2>1
    <2>3. OutCost(rows, s[i]) = rows[Max(out)].rate
      BY <2>2 DEF OutCost
    <2> HIDE DEF out
    <2>4. Max(out) \in out /\ \A j \in out : j <= Max(out)
      BY <1>8, <2>2, MaxIs
    <2>5. Max(out) = k
      BY <1>8, <2>1, <2>2, <2>4
    <2> QED BY <1>8, <2>3, <2>5
  <1>15. ValueOf[c[i]] = Negated(ValueOf[c[k]])
    <2>1. c[i] \in StockRows /\ c[k] \in StockRows
      BY <1>7 DEF StockRows
    <2>2. c[i].qty = -c[k].qty /\ c[i].rate = c[k].rate /\ c[k].qty \in Int /\ c[k].rate \in Fractions
      BY <1>9, <1>10, <1>11, <1>12, <1>13, <1>14, <2>1, StockRowType
    <2>3. Whole(-c[k].qty) = Negated(Whole(c[k].qty))
      BY DEF Whole, Negated
    <2>4. Negated(Whole(c[k].qty)) ** c[k].rate = Negated(Whole(c[k].qty) ** c[k].rate)
      BY <2>2, WholeType, NegatedTimes
    <2> QED BY <2>1, <2>2, <2>3, <2>4 DEF ValueOf, Value
  <1> QED BY <1>2, <1>3, <1>15 DEF k, Undoes

\* A transfer is worth nothing: what goes in is what went out.
LEMMA TransferValue ==
    ASSUME sles \in Seq(Sles), NEW w, w.is_return = FALSE, NEW s \in Seq(Moves), Twins(s),
           NEW c, c = CostRows(w, s)
    PROVE  FracSum(MapF(c, ValueOf)) = Zero
  <1> DEFINE n == Len(s)
             v == MapF(c, ValueOf)
  <1>1. c \in Seq(Moves) /\ Len(c) = n
    <2>1. w.is_return \in BOOLEAN
      OBVIOUS
    <2> QED BY <2>1, CostRowsAre
  <1>2. c \in Seq(StockRows)
    BY <1>1, SubRows
  <1>3. v \in Seq(Fractions) /\ Len(v) = n
    BY <1>1, <1>2, MeasureTypes, MeasuredSeq
  <1>4. n \in Nat /\ \A i \in 1..n : v[i] = ValueOf[c[i]] /\ v[i] \in Fractions /\ s[i].qty \in Int
    <2>1. \A i \in 1..n : v[i] = ValueOf[c[i]]
      BY <1>1 DEF MapF
    <2>2. \A i \in 1..n : s[i].qty \in Int
      BY MoveType
    <2> QED BY <1>3, <2>1, <2>2
  <1>5. \A i \in 1..n : s[i].qty > 0 => i - 1 \in 1..n /\ s[i - 1].qty < 0 /\ v[i] = Negated(v[i - 1])
    <2>1. ASSUME NEW i \in 1..n, s[i].qty > 0
          PROVE  i - 1 \in 1..n /\ s[i - 1].qty < 0 /\ ValueOf[c[i]] = Negated(ValueOf[c[i - 1]])
      <3>1. i \in 1..Len(s) /\ s[i].qty > 0
        BY <2>1
      <3>2. i - 1 \in 1..Len(s) /\ s[i - 1].qty < 0
        BY <3>1, TwinCost
      <3>3. Undoes(c, i)
        BY <3>1, TwinCost
      <3> QED BY <3>2, <3>3 DEF Undoes
    <2> HIDE DEF n, v
    <2> QED BY <1>4, <2>1
  <1>6. \A i \in 1..n : s[i].qty < 0 => i + 1 \in 1..n /\ s[i + 1].qty > 0
    <2>1. \A i \in 1..n : s[i].qty < 0 => i + 1 \in 1..n /\ s[i + 1].qty = -s[i].qty
      BY <1>4 DEF Twins, TwinAt, Twin
    <2> QED BY <1>4, <2>1
  <1>7. \A i \in 1..n : s[i].qty < 0 \/ s[i].qty > 0
    BY DEF Twins, TwinAt
  <1> HIDE DEF v, n
  <1>8. PICK f \in [0..n -> Fractions] :
            FracSum(v) = f[n] /\ f[0] = Zero /\ \A i \in 1..n : f[i] = f[i - 1] ++ v[i]
    BY <1>3, FracSumFcn
  <1> DEFINE P == {i \in Nat : i <= n => f[i] = IF i > 0 /\ s[i].qty < 0 THEN v[i] ELSE Zero}
  <1>9. 0 \in P
    BY <1>8
  <1>10. ASSUME NEW i \in 1..n, i - 1 \in P PROVE i \in P
    <2>1. i - 1 \in Nat /\ i - 1 <= n /\ i \in Nat
      BY <1>4
    <2>2. f[i - 1] = IF i - 1 > 0 /\ s[i - 1].qty < 0 THEN v[i - 1] ELSE Zero
      BY <1>10, <2>1
    <2>3. f[i] = f[i - 1] ++ v[i] /\ v[i] \in Fractions
      BY <1>4, <1>8
    <2>4. CASE s[i].qty < 0
      <3>1. ~(i - 1 > 0 /\ s[i - 1].qty < 0)
        <4>1. ASSUME i - 1 > 0, s[i - 1].qty < 0 PROVE FALSE
          <5>1. i - 1 \in 1..n /\ (i - 1) + 1 = i
            BY <1>4, <4>1
          <5>2. s[i].qty > 0
            BY <1>6, <4>1, <5>1
          <5> QED BY <1>4, <2>4, <5>2
        <4> QED BY <4>1
      <3>2. f[i] = v[i]
        BY <2>2, <2>3, <3>1, PlusZero
      <3> QED BY <1>4, <2>1, <2>4, <3>2
    <2>5. CASE s[i].qty > 0
      <3>1. i - 1 \in 1..n /\ s[i - 1].qty < 0 /\ v[i] = Negated(v[i - 1]) /\ i - 1 > 0
        BY <1>4, <1>5, <2>5
      <3>2. f[i - 1] = v[i - 1] /\ v[i - 1] \in Fractions
        BY <1>4, <2>2, <3>1
      <3>3. f[i] = Zero
        BY <2>3, <3>1, <3>2, PlusNegated
      <3>4. ~(s[i].qty < 0)
        BY <1>4, <2>5
      <3> QED BY <2>1, <3>3, <3>4
    <2> QED BY <1>7, <2>4, <2>5
  <1> HIDE DEF P
  <1>11. 0..n \subseteq P
    BY <1>4, <1>9, <1>10, UpTo
  <1>12. n \in 0..n /\ n <= n
    BY <1>4
  <1>13. f[n] = IF n > 0 /\ s[n].qty < 0 THEN v[n] ELSE Zero
    BY <1>11, <1>12 DEF P
  <1>14. ~(n > 0 /\ s[n].qty < 0)
    BY <1>4, <1>6
  <1> QED BY <1>8, <1>13, <1>14 DEF v

-----------------------------------------------------------------------------
(* Perpetual inventory.                                                    *)

HasTypes(s, T) == \A i \in 1..Len(s) : s[i].trans_type \in T
Silent == {"Transfer", "Production"}
Typed(T) == {r \in Moves : r.trans_type \in T}

\* The transaction type of the rows of a document.
LEMMA DocTyped ==
    ASSUME NEW w, IsSettled(w), NEW sign \in Int, NEW T, NEW t \in TransTypes, t \in T
    PROVE  stock_document_rows(w, sign, t) \in Seq(Typed(T))
  <1> DEFINE D == [i \in DOMAIN w.items |-> DocRow(w, sign, t, w.items[i])]
  <1>1. stock_document_rows(w, sign, t) = Concat(D)
    BY DocRowsAre
  <1>2. ASSUME NEW l \in Lines PROVE DocRow(w, sign, t, l) \in Seq(Typed(T))
    <2> DEFINE h == Default(l.warehouse, w.set_warehouse)
               r == Sle(t, l, h, sign * l.qty, Default(l.valuation_rate, l.rate))
    <2>1. CASE None \in {l.item, h}
      BY <2>1 DEF DocRow
    <2>2. CASE None \notin {l.item, h}
      <3>1. DocRow(w, sign, t, l) = <<r>>
        BY <2>2 DEF DocRow
      <3>2. r \in Moves
        <4>1. <<r>> \in Seq(Moves)
          BY <3>1, DocRowType
        <4> HIDE DEF r
        <4> QED BY <4>1
      <3>3. r.trans_type = t
        BY DEF Sle
      <3>4. r \in Typed(T)
        BY <3>2, <3>3 DEF Typed
      <3> HIDE DEF r
      <3> QED BY <3>1, <3>4
    <2> QED BY <2>1, <2>2
  <1>3. w.items \in Seq(Lines)
    BY DEF IsSettled
  <1>4. \A i \in 1..Len(w.items) : DocRow(w, sign, t, w.items[i]) \in Seq(Typed(T))
    BY <1>2, <1>3
  <1>5. D \in Seq(Seq(Typed(T)))
    BY <1>3, <1>4
  <1> QED BY <1>1, <1>5, ConcatType

\* The transaction type of the rows of a stock entry.
LEMMA EntryTyped ==
    ASSUME NEW w, IsSettled(w), NEW T, stock_entry_trans_type(w.stock_entry_type) \in T
    PROVE  stock_entry_rows(w) \in Seq(Typed(T))
  <1> DEFINE D == [i \in DOMAIN w.items |-> EntryRow(w, w.items[i])]
             t == stock_entry_trans_type(w.stock_entry_type)
  <1>1. stock_entry_rows(w) = Concat(D)
    BY EntryRowsAre
  <1>2. ASSUME NEW l \in Lines, NEW h \in Names, NEW q \in Int
        PROVE  EntryLeg(w, l, h, q) \in Seq(Typed(T))
    <2> DEFINE r == Sle(t, l, h, q, Default(l.valuation_rate, Zero))
    <2>1. CASE None \in {l.item, h}
      BY <2>1 DEF EntryLeg
    <2>2. CASE None \notin {l.item, h}
      <3>1. EntryLeg(w, l, h, q) = <<r>>
        BY <2>2 DEF EntryLeg
      <3>2. r \in Moves
        <4>1. Default(l.valuation_rate, Zero) \in Fractions
          BY LineType, ZeroType DEF Default
        <4>2. t \in TransTypes
          BY TransTypeIs
        <4> QED BY <4>1, <4>2, SleType
      <3>3. r.trans_type = t
        BY DEF Sle
      <3>4. r \in Typed(T)
        BY <3>2, <3>3 DEF Typed
      <3> HIDE DEF r
      <3> QED BY <3>1, <3>4
    <2> QED BY <2>1, <2>2
  <1>3. ASSUME NEW l \in Lines PROVE EntryRow(w, l) \in Seq(Typed(T))
    <2>1. l.source_warehouse \in Names /\ l.target_warehouse \in Names /\ l.qty \in Int /\ -l.qty \in Int
      BY LineType
    <2>2. EntryLeg(w, l, l.source_warehouse, -l.qty) \in Seq(Typed(T))
            /\ EntryLeg(w, l, l.target_warehouse, l.qty) \in Seq(Typed(T))
      BY <1>2, <2>1
    <2> QED BY <2>2, ConcatProperties DEF EntryRow
  <1>4. w.items \in Seq(Lines)
    BY DEF IsSettled
  <1>5. \A i \in 1..Len(w.items) : EntryRow(w, w.items[i]) \in Seq(Typed(T))
    BY <1>3, <1>4
  <1>6. D \in Seq(Seq(Typed(T)))
    BY <1>4, <1>5
  <1> QED BY <1>1, <1>6, ConcatType

\* The transaction types of the derived rows.
LEMMA DerivedTyped ==
    ASSUME NEW w, IsSettled(w),
           NEW T, T = IF w.doctype = "StockEntry" THEN {stock_entry_trans_type(w.stock_entry_type)}
                      ELSE {"Issue", "Receipt"}
    PROVE  HasTypes(derive_stock_rows(w), T)
  <1>1. RawRows(w) \in Seq(Typed(T))
    <2>1. CASE w.doctype = "StockEntry"
      <3>1. RawRows(w) = stock_entry_rows(w)
        BY <2>1 DEF RawRows
      <3> QED BY <2>1, <3>1, EntryTyped
    <2>2. CASE w.doctype # "StockEntry"
      <3>1. "Issue" \in T /\ "Receipt" \in T /\ "Issue" \in TransTypes /\ "Receipt" \in TransTypes
        BY <2>2 DEF TransTypes
      <3>2. -1 \in Int /\ 1 \in Int
        OBVIOUS
      <3>3. stock_document_rows(w, -1, "Issue") \in Seq(Typed(T))
        BY <3>1, <3>2, DocTyped
      <3>4. stock_document_rows(w, 1, "Receipt") \in Seq(Typed(T))
        BY <3>1, <3>2, DocTyped
      <3>5. <<>> \in Seq(Typed(T))
        OBVIOUS
      <3> QED BY <2>2, <3>3, <3>4, <3>5 DEF RawRows
    <2> QED BY <2>1, <2>2
  <1>2. derive_stock_rows(w) = Keep(RawRows(w), Stocked)
    BY StockRowsAre
  <1>3. derive_stock_rows(w) \in Seq(Typed(T))
    BY <1>1, <1>2, KeepIn
  <1>4. \A i \in 1..Len(derive_stock_rows(w)) : derive_stock_rows(w)[i] \in Typed(T)
    BY <1>3
  <1> QED BY <1>4 DEF HasTypes, Typed

\* Costing keeps the transaction types.
LEMMA MovedTyped ==
    ASSUME sles \in Seq(Sles), NEW w, IsSettled(w), w.is_return \in BOOLEAN, NEW T,
           HasTypes(derive_stock_rows(w), T)
    PROVE  HasTypes(Costed(w), T) /\ HasTypes(Moved(w), T)
  <1> DEFINE s == derive_stock_rows(w)
             c == Costed(w)
             m == Moved(w)
  <1>1. /\ s \in Seq(Moves) /\ c \in Seq(Moves) /\ m \in Seq(Moves)
        /\ Len(c) = Len(s) /\ Len(m) = Len(s)
    BY MovedType
  <1>2. m = SpreadProduction(w, c) /\ c = CostRows(w, s)
    BY DEF Moved, Costed
  <1>3. \A i \in 1..Len(s) : s[i].trans_type \in T
    BY DEF HasTypes
  <1> HIDE DEF s, c, m
  <1>4. \A i \in 1..Len(s) : c[i] = CostOf(w, SubSeq(c, 1, i - 1), s[i])
    BY <1>1, <1>2, CostRowsAre
  <1>5. \A i \in 1..Len(s) : c[i].trans_type = s[i].trans_type
    <2> TAKE i \in 1..Len(s)
    <2>1. s[i] \in Moves
      BY <1>1
    <2> QED BY <1>4, <2>1, CostOfFields
  <1>6. \A i \in 1..Len(s) : m[i].trans_type = c[i].trans_type
    BY <1>1, <1>2, SpreadKeeps
  <1> QED BY <1>1, <1>3, <1>5, <1>6 DEF HasTypes, c, m

-----------------------------------------------------------------------------
(* What a posting puts on the inventory accounts.                          *)

\* The inventory accounts are no control accounts.
LEMMA InventoryApart ==
    ASSUME NEW v, SeparateAccounts(v)
    PROVE  /\ InventoryAccounts \in SUBSET Compared /\ "receivable" \notin InventoryAccounts
           /\ "payable" \notin InventoryAccounts /\ "vat" \notin InventoryAccounts
           /\ "grni" \notin InventoryAccounts
  <1>1. InventoryAccounts \cap ControlAccounts = {}
    BY DEF SeparateAccounts
  <1> QED BY <1>1 DEF Compared, ControlAccounts

\* A row that posts legs puts its value on an inventory account.
LEMMA LegValue ==
    ASSUME NEW v, SeparateAccounts(v), NEW w, w.doctype = v.doctype, NEW r \in StockRows
    PROVE  LegSum(w, r, InventoryAccounts) = IF r.trans_type \in Silent THEN Zero ELSE ValueOf[r]
  <1>1. Value(r) \in Fractions /\ ValueOf[r] = Value(r)
    BY ValueType DEF ValueOf
  <1>2. InventoryAccount(r) \in InventoryAccounts
    BY InventoryAccountIn
  <1>3. Counter(w, r) \notin InventoryAccounts
    <2>1. Counter(w, r) \notin (Compared \ {"grni"})
      BY CounterIn
    <2> QED BY <2>1, InventoryApart
  <1>4. CASE PostsNone(r)
    BY <1>1, <1>4 DEF LegSum, PostsNone, Silent
  <1>5. CASE ~PostsNone(r)
    <2>1. r.trans_type \notin Silent
      BY <1>5 DEF PostsNone, Silent
    <2>2. LegSum(w, r, InventoryAccounts) = Value(r) ++ Zero
      BY <1>2, <1>3, <1>5 DEF LegSum
    <2> QED BY <1>1, <2>1, <2>2, PlusZero
  <1> QED BY <1>4, <1>5

\* Rows that post put their value on the inventory accounts.
LEMMA LoudRows ==
    ASSUME NEW v, SeparateAccounts(v), NEW w, w.doctype = v.doctype, NEW s \in Seq(StockRows),
           NEW T, HasTypes(s, T), T \cap Silent = {}
    PROVE  StockSum(w, s, InventoryAccounts) = FracSum(MapF(s, ValueOf))
  <1>1. \A i \in DOMAIN s : s[i] \in StockRows /\ s[i].trans_type \notin Silent
    BY DEF HasTypes
  <1>2. \A i \in DOMAIN s : LegSum(w, s[i], InventoryAccounts) = ValueOf[s[i]]
    BY <1>1, LegValue
  <1>3. [i \in DOMAIN s |-> LegSum(w, s[i], InventoryAccounts)] = [i \in DOMAIN s |-> ValueOf[s[i]]]
    BY <1>2
  <1> QED BY <1>3 DEF StockSum, MapF

\* Rows that do not post put nothing on them.
LEMMA SilentRows ==
    ASSUME NEW v, SeparateAccounts(v), NEW w, w.doctype = v.doctype, NEW s \in Seq(StockRows),
           NEW T, HasTypes(s, T), T \subseteq Silent
    PROVE  StockSum(w, s, InventoryAccounts) = Zero
  <1> DEFINE z == [i \in DOMAIN s |-> LegSum(w, s[i], InventoryAccounts)]
  <1>1. \A i \in 1..Len(s) : s[i] \in StockRows /\ s[i].trans_type \in Silent
    BY DEF HasTypes
  <1>2. \A i \in 1..Len(s) : LegSum(w, s[i], InventoryAccounts) = Zero
    BY <1>1, LegValue
  <1>3. DOMAIN s = 1..Len(s) /\ Len(s) \in Nat
    OBVIOUS
  <1>4. DOMAIN z = 1..Len(s) /\ \A i \in 1..Len(s) : z[i] \in {Zero}
    BY <1>2, <1>3
  <1> HIDE DEF z
  <1>5. z = [i \in 1..Len(s) |-> z[i]]
    BY <1>4 DEF z
  <1>6. z \in Seq({Zero})
    BY <1>3, <1>4, <1>5
  <1>7. FracSum(z) = Zero
    BY <1>6, FracSumZero
  <1> QED BY <1>7 DEF StockSum, z

\* A journal leaves the inventory accounts alone.
LEMMA JournalElsewhere ==
    ASSUME NEW v \in Payloads, NEW w, SameFields(w, v), IsSettled(w), SeparateAccounts(v)
    PROVE  \A i \in DOMAIN journal_rows(w) : journal_rows(w)[i].account \notin InventoryAccounts
  <1> DEFINE S == {r \in Entries : r.account \notin InventoryAccounts}
  <1>1. v.accounts \in Seq(Entries) /\ w.accounts = v.accounts
    BY PayloadFields DEF SameFields
  <1>2. \A r \in ToSet(v.accounts) : r.account \notin InventoryAccounts
    BY DEF SeparateAccounts
  <1>3. \A i \in 1..Len(v.accounts) : v.accounts[i] \in S
    BY <1>1, <1>2 DEF ToSet
  <1>4. v.accounts \in Seq(S)
    BY <1>1, <1>3
  <1>5. journal_rows(w) = Keep(w.accounts, Named)
    BY <1>1, JournalRowsAre
  <1> HIDE DEF S
  <1>6. journal_rows(w) \in Seq(S)
    BY <1>1, <1>4, <1>5, KeepIn
  <1>7. \A i \in DOMAIN journal_rows(w) : journal_rows(w)[i] \in S
    BY <1>6
  <1> QED BY <1>7 DEF S

\* Only the legs of stock reach an inventory account.
LEMMA InventoryPosting ==
    ASSUME sles \in Seq(Sles), NEW v \in Payloads, NEW w, w = Settled(v), IsSettled(w),
           SameFields(w, v), w.is_return \in BOOLEAN, SeparateAccounts(v)
    PROVE  FracSum(MapF(Posting(w), OnAmount(InventoryAccounts))) =
             StockSum(w, Moved(w), InventoryAccounts)
  <1> DEFINE A == InventoryAccounts
             S == StockSum(w, Moved(w), A)
  <1>1. Apart(w) /\ VatOnly(w)
    BY ApartFields, VatFields
  <1>2. /\ A \in SUBSET Compared /\ "receivable" \notin A /\ "payable" \notin A /\ "vat" \notin A
        /\ "grni" \notin A
    BY InventoryApart
  <1>3. \A i \in DOMAIN journal_rows(w) : journal_rows(w)[i].account \notin A
    BY JournalElsewhere
  <1> HIDE DEF A
  <1>4. MonetarySum(w, A) = Zero
    BY <1>1, <1>2, <1>3, MonetaryElsewhere
  <1>5. ShiftOf(w, A) = Zero
    <2>1. w.doctype = "PurchaseInvoice" => w.expense_account \notin A
      BY <1>1, <1>2 DEF Apart, Free
    <2> QED BY <1>2, <2>1, ZeroSums DEF ShiftOf, Shift
  <1>6. FracSum(MapF(Posting(w), OnAmount(A))) = MonetarySum(w, A) ++ (S ++ ShiftOf(w, A)) /\ S \in Fractions
    BY PostingSums
  <1> HIDE DEF S
  <1>7. S ++ Zero = S /\ Zero ++ S = S
    BY <1>6, PlusZero
  <1> QED BY <1>4, <1>5, <1>6, <1>7 DEF S, A

\* Everything is kept of rows in the set.
LEMMA KeepAll ==
    ASSUME NEW S, NEW s \in Seq(S), NEW K, \A i \in 1..Len(s) : s[i] \in K
    PROVE  Keep(s, K) = s
  <1> DEFINE P == {u \in Seq(S) : (\A i \in 1..Len(u) : u[i] \in K) => Keep(u, K) = u}
  <1>1. <<>> \in P
    <2>1. <<>> \in Seq(S) /\ Keep(<<>>, K) = <<>>
      BY KeepEmpty
    <2> QED BY <2>1
  <1>2. ASSUME NEW u \in Seq(S), NEW x \in S, u \in P PROVE Append(u, x) \in P
    <2> DEFINE t == Append(u, x)
    <2>1. t \in Seq(S) /\ Len(t) = Len(u) + 1 /\ Len(u) \in Nat /\ t[Len(u) + 1] = x
          /\ \A i \in 1..Len(u) : t[i] = u[i] /\ i \in 1..Len(t)
      OBVIOUS
    <2>2. Keep(t, K) = IF x \in K THEN Append(Keep(u, K), x) ELSE Keep(u, K)
      BY KeepAppend
    <2>3. t = Append(u, x)
      OBVIOUS
    <2> HIDE DEF t
    <2>4. ASSUME \A i \in 1..Len(t) : t[i] \in K PROVE Keep(t, K) = t
      <3>1. x \in K /\ \A i \in 1..Len(u) : u[i] \in K
        BY <2>1, <2>4
      <3>2. Keep(u, K) = u
        BY <1>2, <3>1
      <3> QED BY <2>2, <2>3, <3>1, <3>2
    <2> QED BY <2>1, <2>4 DEF t
  <1> HIDE DEF P
  <1>3. Seq(S) \subseteq P
    BY <1>1, <1>2, SeqInduct
  <1> QED BY <1>3 DEF P

\* What a stored row has of the new one.
LEMMA StoredFields ==
    ASSUME NEW d \in Docs, NEW r \in StockRows, NEW s, s = StoreAs(d, "posted")[r]
    PROVE  /\ s \in Sles /\ s \in StockRows /\ s.qty = r.qty /\ s.rate = r.rate
           /\ s.voucher = d /\ ~s.is_reversal /\ ValueOf[s] = ValueOf[r] /\ Value(s) = Value(r)
  <1>1. s = Stored(r, d, "posted")
    BY DEF StoreAs
  <1>2. s \in Sles
    BY StoreType
  <1>3. s \in StockRows
    BY <1>2 DEF StockRows
  <1>4. s.qty = r.qty /\ s.rate = r.rate /\ s.voucher = d /\ ~s.is_reversal
    <2>1. s.qty = r.qty /\ s.rate = r.rate /\ s.voucher = d
      BY <1>1 DEF Stored
    <2>2. ~s.is_reversal
      <3> DEFINE b == "posted" = "cancelled"
      <3>1. ~b
        OBVIOUS
      <3> HIDE DEF b
      <3>2. s = [item |-> r.item, warehouse |-> r.warehouse, qty |-> r.qty, rate |-> r.rate,
                 voucher |-> d, is_reversal |-> b]
        BY <1>1 DEF Stored, b
      <3>3. s.is_reversal = b
        BY <3>2
      <3> QED BY <3>1, <3>3, Zenon
    <2> QED BY <2>1, <2>2
  <1>5. Value(s) = Value(r)
    BY <1>4 DEF Value
  <1> QED BY <1>2, <1>3, <1>4, <1>5 DEF ValueOf

\* The rows that were costed, and the rows that are stored.
Same(c, m, t) ==
    \A i \in 1..Len(c) : /\ t[i].qty = c[i].qty /\ m[i].qty = c[i].qty
                         /\ c[i].qty < 0 => Value(t[i]) = Value(c[i])

\* The stored rows are the costed ones, in order.
LEMMA StoredSameAs ==
    ASSUME NEW d \in Docs, NEW w, NEW c \in Seq(Moves), NEW m, m = SpreadProduction(w, c),
           NEW t, t = MapF(m, StoreAs(d, "posted"))
    PROVE  /\ t \in Seq(Sles) /\ t \in Seq(StockRows) /\ Len(t) = Len(c) /\ Same(c, m, t)
           /\ FracSum(MapF(t, ValueOf)) = FracSum(MapF(m, ValueOf))
           /\ \A i \in 1..Len(t) : t[i].voucher = d /\ ~t[i].is_reversal
  <1>1. /\ m \in Seq(Moves) /\ Len(m) = Len(c)
        /\ \A i \in 1..Len(c) : m[i] = IF Spreads(w, c) THEN Respread(w, c, c[i]) ELSE c[i]
    BY SpreadIs
  <1>2. m \in Seq(StockRows) /\ c \in Seq(StockRows)
    BY <1>1, SubRows
  <1>3. t \in Seq(Sles) /\ Len(t) = Len(m)
    BY <1>2, StoredVouchers
  <1>4. t \in Seq(StockRows)
    BY <1>3, SubRows
  <1>5. DOMAIN m = 1..Len(c) /\ DOMAIN t = 1..Len(c)
    BY <1>1, <1>3
  <1>6. \A i \in 1..Len(c) : t[i] = StoreAs(d, "posted")[m[i]] /\ m[i] \in StockRows
    BY <1>2, <1>5 DEF MapF
  <1>7. \A i \in 1..Len(c) : /\ t[i].qty = m[i].qty /\ ValueOf[t[i]] = ValueOf[m[i]]
                             /\ Value(t[i]) = Value(m[i])
                             /\ t[i].voucher = d /\ ~t[i].is_reversal
    <2> TAKE i \in 1..Len(c)
    <2> DEFINE r == m[i]
               z == t[i]
    <2>1. z = StoreAs(d, "posted")[r] /\ r \in StockRows
      BY <1>6
    <2> HIDE DEF r, z
    <2>2. /\ z.qty = r.qty /\ ValueOf[z] = ValueOf[r] /\ Value(z) = Value(r)
          /\ z.voucher = d /\ ~z.is_reversal
      BY <2>1, StoredFields
    <2> QED BY <2>2 DEF r, z
  <1>8. \A i \in 1..Len(c) : m[i].qty = c[i].qty
    BY SpreadKeeps
  <1>9. ASSUME NEW i \in 1..Len(c), c[i].qty < 0 PROVE m[i] = c[i]
    <2>1. c[i].qty \in Int
      BY <1>2, StockRowType
    <2>2. ~IsOutput(w, c[i])
      BY <1>9, <2>1 DEF IsOutput
    <2> QED BY <1>1, <2>2 DEF Respread
  <1>10. Same(c, m, t)
    BY <1>7, <1>8, <1>9 DEF Same
  <1>11. MapF(t, ValueOf) = MapF(m, ValueOf)
    BY <1>5, <1>7 DEF MapF
  <1> QED BY <1>1, <1>3, <1>4, <1>7, <1>10, <1>11

\* What the stored rows of a production say is what its spreading saw.
LEMMA ProductionSpreads ==
    ASSUME NEW w, w.is_return = FALSE, NEW c \in Seq(Made), NEW m, NEW t \in Seq(StockRows),
           Len(t) = Len(c), Same(c, m, t), Positive(Consumed(t)),
           NEW k \in 1..Len(t), t[k].qty > 0
    PROVE  Spreads(w, c)
  <1> DEFINE q == MadeOf(w, c)
  <1>1. c \in Seq(Moves) /\ c \in Seq(StockRows)
    <2>1. Made \subseteq Moves
      BY DEF Made
    <2>2. c \in Seq(Moves)
      BY <2>1, SeqMonotonic
    <2> QED BY <2>2, SubRows
  <1>2. DOMAIN c = 1..Len(c) /\ DOMAIN t = 1..Len(c) /\ Len(c) \in Nat
    OBVIOUS
  <1>3. /\ Consumed(c) = Negated(FracSum(TakenOf(c)))
        /\ Consumed(t) = Negated(FracSum(TakenOf(t)))
    BY <1>1, ConsumedType DEF TakenOf
  <1>4. \A i \in 1..Len(c) : TakenOf(t)[i] = TakenOf(c)[i]
    BY <1>2 DEF TakenOf, Same
  <1>5. TakenOf(t) = TakenOf(c)
    BY <1>2, <1>4 DEF TakenOf
  <1>6. Positive(Consumed(c))
    BY <1>3, <1>5
  <1>7. Produced(w, c) = SumFunction(q)
    BY <1>1, ProducedType DEF MadeOf
  <1>8. \A i \in 1..Len(c) : c[i].qty \in Int /\ c[i].trans_type = "Production"
    BY <1>1, StockRowType DEF Made
  <1>9. /\ DOMAIN q = 1..Len(c)
        /\ \A i \in 1..Len(c) : q[i] = IF c[i].qty > 0 THEN c[i].qty ELSE 0
    BY <1>2, <1>8 DEF MadeOf, IsOutput
  <1>10. \A i \in 1..Len(c) : q[i] \in Nat
    BY <1>8, <1>9
  <1>11. q \in [1..Len(c) -> Nat]
    <2>1. q = [i \in 1..Len(c) |-> q[i]]
      BY <1>2 DEF MadeOf
    <2> HIDE DEF q
    <2> QED BY <1>10, <2>1
  <1> HIDE DEF q
  <1>12. q \in Seq(Nat) /\ Len(q) = Len(c)
    BY <1>2, <1>11
  <1>13. k \in 1..Len(q) /\ q[k] > 0
    BY <1>8, <1>9, <1>12 DEF Same
  <1>14. SumFunction(q) > 0
    BY <1>12, <1>13, SumPositive
  <1> QED BY <1>6, <1>7, <1>14 DEF Spreads

\* ValueNeutral of the rows a document first wrote.
Neutral(v, own) ==
    v.doctype = "StockEntry" =>
        /\ stock_entry_trans_type(v.stock_entry_type) \in Silent => ~v.is_return
        /\ stock_entry_trans_type(v.stock_entry_type) = "Transfer" =>
              \A line \in ToSet(v.items) :
                  line.qty > 0 /\ line.source_warehouse # None /\ line.target_warehouse # None
        /\ stock_entry_trans_type(v.stock_entry_type) = "Production" =>
              Positive(Consumed(own)) /\ \E k \in 1..Len(own) : own[k].qty > 0

\* What a submit posts to inventory is what it stores.
LEMMA MovedValue ==
    ASSUME sles \in Seq(Sles), NEW d \in Docs, NEW v \in Payloads, NEW w, IsSettled(w),
           SameFields(w, v), SeparateAccounts(v),
           NEW t, t = MapF(Moved(w), StoreAs(d, "posted")), Neutral(v, t)
    PROVE  StockSum(w, Moved(w), InventoryAccounts) = FracSum(MapF(t, ValueOf))
  <1> DEFINE s == derive_stock_rows(w)
             c == Costed(w)
             m == Moved(w)
             y == stock_entry_trans_type(w.stock_entry_type)
             T == IF w.doctype = "StockEntry" THEN {y} ELSE {"Issue", "Receipt"}
  <1>1. /\ w.doctype = v.doctype /\ w.is_return = v.is_return /\ w.items = v.items
        /\ w.stock_entry_type = v.stock_entry_type /\ v.is_return \in BOOLEAN
        /\ v.items \in Seq(Lines)
    BY PayloadFields DEF SameFields
  <1>2. /\ s \in Seq(Moves) /\ c \in Seq(Moves) /\ m \in Seq(Moves) /\ Len(m) = Len(c)
        /\ m \in Seq(StockRows)
    BY <1>1, MovedType, SubRows
  <1>3. m = SpreadProduction(w, c) /\ c = CostRows(w, s)
    BY DEF Moved, Costed
  <1>4. HasTypes(s, T)
    BY DerivedTyped
  <1>5. HasTypes(c, T) /\ HasTypes(m, T)
    <2>1. w.is_return \in BOOLEAN
      BY <1>1
    <2> HIDE DEF T
    <2> QED BY <1>4, <2>1, MovedTyped
  <1> HIDE DEF s, c, m
  <1>6. /\ t \in Seq(StockRows) /\ Len(t) = Len(c) /\ Same(c, m, t)
        /\ FracSum(MapF(t, ValueOf)) = FracSum(MapF(m, ValueOf))
    <2>1. t = MapF(m, StoreAs(d, "posted"))
      BY DEF m
    <2> QED BY <1>2, <1>3, <2>1, StoredSameAs
  <1>7. CASE T \cap Silent = {}
    <2> HIDE DEF T
    <2>1. StockSum(w, m, InventoryAccounts) = FracSum(MapF(m, ValueOf))
      BY <1>1, <1>2, <1>5, <1>7, LoudRows
    <2> QED BY <1>6, <2>1 DEF m
  <1>8. CASE ~(T \cap Silent = {})
    <2>1. w.doctype = "StockEntry" /\ T = {y} /\ y \in Silent
      BY <1>8 DEF Silent
    <2>2. w.is_return = FALSE
      BY <1>1, <2>1 DEF Neutral
    <2>3. StockSum(w, m, InventoryAccounts) = Zero
      <3>1. T \subseteq Silent
        BY <2>1
      <3> HIDE DEF T
      <3> QED BY <1>1, <1>2, <1>5, <3>1, SilentRows
    <2>4. CASE y = "Transfer"
      <3>1. w.items \in Seq(TransferLines)
        <4>1. \A l \in ToSet(v.items) :
                 l.qty > 0 /\ l.source_warehouse # None /\ l.target_warehouse # None
          BY <1>1, <2>1, <2>4 DEF Neutral
        <4>2. \A i \in 1..Len(v.items) : v.items[i] \in ToSet(v.items) /\ v.items[i] \in Lines
          BY <1>1 DEF ToSet
        <4>3. \A i \in 1..Len(v.items) : v.items[i] \in TransferLines
          BY <4>1, <4>2 DEF TransferLines
        <4> QED BY <1>1, <4>3
      <3>2. Twins(s)
        BY <2>1, <2>4, <3>1, TransferTwins DEF s
      <3>3. FracSum(MapF(c, ValueOf)) = Zero
        BY <1>2, <1>3, <2>2, <3>2, TransferValue
      <3>4. \A i \in 1..Len(c) : c[i].trans_type = "Transfer"
        BY <1>5, <2>1, <2>4 DEF HasTypes
      <3>5. \A i \in 1..Len(c) : m[i] = c[i]
        <4>1. \A i \in 1..Len(c) : m[i] = IF Spreads(w, c) THEN Respread(w, c, c[i]) ELSE c[i]
          BY <1>2, <1>3, SpreadIs
        <4>2. \A i \in 1..Len(c) : ~IsOutput(w, c[i])
          BY <3>4 DEF IsOutput
        <4> QED BY <4>1, <4>2 DEF Respread
      <3>6. m = c
        BY <1>2, <3>5
      <3> QED BY <1>6, <2>3, <3>3, <3>6 DEF m
    <2>5. CASE y = "Production"
      <3>1. Positive(Consumed(t)) /\ \E k \in 1..Len(t) : t[k].qty > 0
        BY <1>1, <2>1, <2>5 DEF Neutral
      <3>2. PICK k \in 1..Len(t) : t[k].qty > 0
        BY <3>1
      <3>3. c \in Seq(Made)
        <4>1. \A i \in 1..Len(c) : c[i].trans_type = "Production" /\ c[i] \in Moves
          BY <1>2, <1>5, <2>1, <2>5 DEF HasTypes
        <4>2. \A i \in 1..Len(c) : c[i] \in Made
          BY <4>1 DEF Made
        <4> QED BY <1>2, <4>2
      <3>4. Spreads(w, c)
        BY <1>6, <2>2, <3>1, <3>2, <3>3, ProductionSpreads
      <3>5. FracSum(MapF(m, ValueOf)) = Zero
        BY <1>3, <2>2, <3>3, <3>4, ProductionValue
      <3> QED BY <1>6, <2>3, <3>5 DEF m
    <2> QED BY <2>1, <2>4, <2>5 DEF Silent
  <1> QED BY <1>7, <1>8

-----------------------------------------------------------------------------
(* The inventory accounts and the stock ledger.                            *)

First(d) == {r \in Sles : r.voucher = d /\ ~r.is_reversal}

Reconciled(d) ==
    FracSum(MapF(gl[d], OnAmount(InventoryAccounts))) = SumIf(sles, OfVoucher(d), ValueOf)

InvInv ==
    \A d \in Docs : SeparateAccounts(Vouchers[d]) /\ Neutral(Vouchers[d], Keep(sles, First(d))) =>
        Reconciled(d)

\* The rows of another document change nothing.
LEMMA OthersReconciled ==
    ASSUME sles \in Seq(Sles), NEW d \in Docs, NEW e \in Docs, e # d, NEW t \in Seq(Sles),
           \A i \in 1..Len(t) : t[i].voucher = d
    PROVE  /\ Keep(sles \o t, First(e)) = Keep(sles, First(e))
           /\ SumIf(sles \o t, OfVoucher(e), ValueOf) = SumIf(sles, OfVoucher(e), ValueOf)
  <1>1. ASSUME NEW K, \A r \in K : r.voucher = e PROVE Keep(sles \o t, K) = Keep(sles, K)
    <2>1. \A i \in 1..Len(t) : t[i] \notin K
      BY <1>1
    <2>2. Keep(t, K) = <<>>
      BY <2>1, KeepNone
    <2>3. Keep(sles \o t, K) = Keep(sles, K) \o Keep(t, K)
      BY KeepConcat
    <2>4. Keep(sles, K) \in Seq(Sles)
      BY KeepIn
    <2> QED BY <2>2, <2>3, <2>4
  <1>2. Keep(sles \o t, First(e)) = Keep(sles, First(e))
    BY <1>1 DEF First
  <1>3. Keep(sles \o t, OfVoucher(e)) = Keep(sles, OfVoucher(e))
    BY <1>1 DEF OfVoucher
  <1> QED BY <1>2, <1>3 DEF SumIf

\* The first rows of a document are all it has.
LEMMA FirstRows ==
    ASSUME sles \in Seq(Sles), NEW d \in Docs, \A i \in 1..Len(sles) : sles[i].voucher # d,
           NEW t \in Seq(Sles), \A i \in 1..Len(t) : t[i].voucher = d /\ ~t[i].is_reversal
    PROVE  /\ Keep(sles \o t, First(d)) = t
           /\ SumIf(sles \o t, OfVoucher(d), ValueOf) = FracSum(MapF(t, ValueOf))
  <1>1. ASSUME NEW K, \A r \in K : r.voucher = d, \A i \in 1..Len(t) : t[i] \in K
        PROVE  Keep(sles \o t, K) = t
    <2>1. \A i \in 1..Len(sles) : sles[i] \notin K
      BY <1>1
    <2>2. Keep(sles, K) = <<>>
      BY <2>1, KeepNone
    <2>3. Keep(t, K) = t
      BY <1>1, KeepAll
    <2>4. Keep(sles \o t, K) = Keep(sles, K) \o Keep(t, K)
      BY KeepConcat
    <2> QED BY <2>2, <2>3, <2>4
  <1>2. \A i \in 1..Len(t) : t[i] \in Sles
    OBVIOUS
  <1>3. Keep(sles \o t, First(d)) = t
    BY <1>1, <1>2 DEF First
  <1>4. Keep(sles \o t, OfVoucher(d)) = t
    BY <1>1, <1>2 DEF OfVoucher
  <1> QED BY <1>3, <1>4 DEF SumIf

\* A document and its cancellation take as much out of stock as they put in.
LEMMA VoucherUndone ==
    ASSUME sles \in Seq(Sles), NEW d \in Docs, NEW t,
           t = MapF(Keep(sles, OfVoucher(d)), ReverseSle(d))
    PROVE  SumIf(sles \o t, OfVoucher(d), ValueOf) = Zero
  <1> DEFINE x == [r \in Sles |-> ValueOf[r]]
             h == ReverseSle(d)
             V == OfVoucher(d)
  <1>1. h \in [Sles -> Sles]
    BY ReverseTypes
  <1>2. Keep(sles, V) \in Seq(Sles)
    BY KeepIn
  <1>3. t \in Seq(Sles)
    BY <1>1, <1>2, MapType
  <1>4. x \in [Sles -> Fractions]
    BY MeasureTypes DEF StockRows
  <1>5. ASSUME NEW r \in Sles, r \in V
        PROVE  (h[r] \in V <=> r \in V) /\ x[h[r]] = Negated(x[r])
    BY <1>5, StoredBack DEF OfVoucher
  <1>6. Mirrors(Sles, V, V, x, h)
    <2> HIDE DEF h, x, V
    <2> QED BY <1>5 DEF Mirrors
  <1> HIDE DEF h, x, V
  <1>7. SumIf(t, V, x) = Negated(SumIf(sles, V, x))
    BY <1>1, <1>4, <1>6, MirrorSum DEF h, V
  <1>8. SumIf(sles \o t, V, x) = SumIf(sles, V, x) ++ SumIf(t, V, x) /\ SumIf(sles, V, x) \in Fractions
    BY <1>3, <1>4, SumIfConcat
  <1>9. SumIf(sles \o t, V, x) = Zero
    BY <1>7, <1>8, PlusNegated
  <1>10. MapF(Keep(sles \o t, V), x) = MapF(Keep(sles \o t, V), ValueOf)
    <2>1. sles \o t \in Seq(Sles)
      BY <1>3, ConcatProperties
    <2>2. Keep(sles \o t, V) \in Seq(Sles)
      BY <2>1, KeepIn
    <2>3. \A i \in DOMAIN Keep(sles \o t, V) : Keep(sles \o t, V)[i] \in Sles
      BY <2>2
    <2> QED BY <2>3 DEF MapF, x
  <1> QED BY <1>9, <1>10 DEF SumIf, V

\* A submit keeps what vouchers put on inventory equal to their stock value.
LEMMA InvSubmit ==
    ASSUME LedgerTypeOK, FreshInv, InvInv, NEW d \in Docs, NEW w, Submits(d, w), IsSettled(w),
           SameFields(w, Vouchers[d]), w.is_return \in BOOLEAN
    PROVE  InvInv'
  <1> DEFINE t == MapF(Moved(w), StoreAs(d, "posted"))
  <1>1. sles \in Seq(Sles) /\ Vouchers[d] \in Payloads /\ w = Settled(Vouchers[d])
    BY PayloadsAssumption DEF LedgerTypeOK, Submits
  <1>2. t \in Seq(Sles) /\ \A i \in 1..Len(t) : t[i].voucher = d /\ ~t[i].is_reversal
    <2>1. Costed(w) \in Seq(Moves) /\ Moved(w) = SpreadProduction(w, Costed(w))
      BY <1>1, MovedType DEF Moved
    <2> QED BY <2>1, StoredSameAs
  <1>3. gl'[d] = Posting(w) /\ sles' = sles \o t
    BY SubmittedRows DEF Submits
  <1>4. \A i \in 1..Len(sles) : sles[i].voucher # d
    BY DEF FreshInv, Submits
  <1>5. \A e \in Docs : e # d => gl'[e] = gl[e]
    BY DEF Submits, LedgerTypeOK
  <1>6. Keep(sles', First(d)) = t /\ SumIf(sles', OfVoucher(d), ValueOf) = FracSum(MapF(t, ValueOf))
    <2> HIDE DEF t
    <2> QED BY <1>1, <1>2, <1>3, <1>4, FirstRows
  <1>7. ASSUME SeparateAccounts(Vouchers[d]), Neutral(Vouchers[d], t)
        PROVE  FracSum(MapF(gl'[d], OnAmount(InventoryAccounts))) = SumIf(sles', OfVoucher(d), ValueOf)
    <2>1. StockSum(w, Moved(w), InventoryAccounts) = FracSum(MapF(t, ValueOf))
      BY <1>1, <1>7, MovedValue
    <2>2. FracSum(MapF(Posting(w), OnAmount(InventoryAccounts))) =
            StockSum(w, Moved(w), InventoryAccounts)
      BY <1>1, <1>7, InventoryPosting
    <2> QED BY <1>3, <1>6, <2>1, <2>2
  <1> HIDE DEF t
  <1>8. ASSUME NEW e \in Docs, e # d
        PROVE  /\ Keep(sles', First(e)) = Keep(sles, First(e))
               /\ SumIf(sles', OfVoucher(e), ValueOf) = SumIf(sles, OfVoucher(e), ValueOf)
    BY <1>1, <1>2, <1>3, <1>8, OthersReconciled
  <1>9. ASSUME NEW e \in Docs, SeparateAccounts(Vouchers[e]), Neutral(Vouchers[e], Keep(sles', First(e)))
        PROVE  FracSum(MapF(gl'[e], OnAmount(InventoryAccounts))) = SumIf(sles', OfVoucher(e), ValueOf)
    <2>1. CASE e = d
      BY <1>6, <1>7, <1>9, <2>1
    <2>2. CASE e # d
      BY <1>5, <1>8, <1>9, <2>2 DEF InvInv, Reconciled
    <2> QED BY <2>1, <2>2
  <1> QED BY <1>9 DEF InvInv, Reconciled

\* A cancel keeps it.
LEMMA InvCancel ==
    ASSUME LedgerTypeOK, InvInv, NEW d \in Docs, Cancels(d)
    PROVE  InvInv'
  <1> DEFINE t == MapF(Keep(sles, OfVoucher(d)), ReverseSle(d))
  <1>1. sles \in Seq(Sles)
    BY DEF LedgerTypeOK
  <1>2. t \in Seq(Sles) /\ \A i \in 1..Len(t) : t[i].voucher = d
    <2>1. Keep(sles, OfVoucher(d)) \in Seq(Sles)
      BY <1>1, KeepIn
    <2> QED BY <2>1, BackVouchers
  <1>3. gl'[d] = gl[d] \o MapF(gl[d], ReverseRows(GlRows)) /\ sles' = sles \o t
    BY DEF Cancels, LedgerTypeOK
  <1>4. \A e \in Docs : e # d => gl'[e] = gl[e]
    BY DEF Cancels, LedgerTypeOK
  <1>5. FracSum(MapF(gl'[d], OnAmount(InventoryAccounts))) = Zero
    BY <1>3, UndoneRows
  <1>6. SumIf(sles', OfVoucher(d), ValueOf) = Zero
    BY <1>1, <1>3, VoucherUndone
  <1> HIDE DEF t
  <1>8. ASSUME NEW e \in Docs, e # d
        PROVE  /\ Keep(sles', First(e)) = Keep(sles, First(e))
               /\ SumIf(sles', OfVoucher(e), ValueOf) = SumIf(sles, OfVoucher(e), ValueOf)
    BY <1>1, <1>2, <1>3, <1>8, OthersReconciled
  <1>9. ASSUME NEW e \in Docs, SeparateAccounts(Vouchers[e]), Neutral(Vouchers[e], Keep(sles', First(e)))
        PROVE  FracSum(MapF(gl'[e], OnAmount(InventoryAccounts))) = SumIf(sles', OfVoucher(e), ValueOf)
    <2>1. CASE e = d
      BY <1>5, <1>6, <2>1
    <2>2. CASE e # d
      BY <1>4, <1>8, <1>9, <2>2 DEF InvInv, Reconciled
    <2> QED BY <2>1, <2>2
  <1> QED BY <1>9 DEF InvInv, Reconciled

\* InvInv is inductive.
LEMMA InvStep == LedgerTypeOK /\ FreshInv /\ InvInv /\ [Next]_vars => InvInv'
  <1> SUFFICES ASSUME LedgerTypeOK, FreshInv, InvInv, [Next]_vars PROVE InvInv'
    OBVIOUS
  <1>1. CASE UNCHANGED <<company, status, gl, party_transactions, tax_transactions, sles, bins>>
    BY <1>1 DEF InvInv, Reconciled
  <1> QED BY <1>1, Steps, InvSubmit, InvCancel

\* InvInv holds at the start.
LEMMA InvInit == Init => InvInv
  <1> SUFFICES ASSUME Init, NEW d \in Docs PROVE Reconciled(d)
    BY DEF InvInv
  <1>1. gl[d] = <<>> /\ sles = <<>>
    BY DEF Init
  <1>2. Keep(<<>>, OfVoucher(d)) = <<>>
    BY KeepEmpty
  <1> QED BY <1>1, <1>2, SumNone DEF Reconciled, SumIf

\* The rows of a document, as the properties name them.
LEMMA OwnRows ==
    ASSUME sles \in Seq(Sles), NEW d
    PROVE  /\ Filter(sles, LAMBDA r : r.voucher = d /\ ~r.is_reversal) = Keep(sles, First(d))
           /\ StockValue(d) = SumIf(sles, OfVoucher(d), ValueOf)
  <1>1. \A i \in DOMAIN sles : sles[i] \in Sles
    OBVIOUS
  <1>2. \A i \in DOMAIN sles : sles[i] \in First(d) <=> sles[i].voucher = d /\ ~sles[i].is_reversal
    BY <1>1 DEF First
  <1>3. Filter(sles, LAMBDA r : r.voucher = d /\ ~r.is_reversal) = Keep(sles, First(d))
    BY <1>2 DEF Filter, FlatMap, Map, Keep
  <1>4. sles \in Seq(StockRows) /\ ValueOf \in [StockRows -> Fractions]
    BY SubRows, MeasureTypes
  <1>5. SumIf(sles, OfVoucher(d), ValueOf) = FracSum(Picked(sles, OfVoucher(d), ValueOf))
    BY <1>4, PickedType
  <1>6. \A i \in DOMAIN sles : /\ sles[i] \in OfVoucher(d) <=> sles[i].voucher = d
                               /\ ValueOf[sles[i]] = Value(sles[i])
    BY <1>1 DEF OfVoucher, ValueOf, StockRows
  <1>7. Picked(sles, OfVoucher(d), ValueOf) =
          [i \in DOMAIN sles |-> IF sles[i].voucher = d THEN Value(sles[i]) ELSE Zero]
    BY <1>6 DEF Picked
  <1>8. StockValue(d) =
          FracSum([i \in DOMAIN sles |-> IF sles[i].voucher = d THEN Value(sles[i]) ELSE Zero])
    BY DEF StockValue, SumOver, Map
  <1> QED BY <1>3, <1>5, <1>7, <1>8

\* InvInv is the part of the property on inventory.
LEMMA InvImplies == LedgerTypeOK /\ InvInv => InventoryReconciles
  <1> SUFFICES ASSUME LedgerTypeOK, InvInv, NEW d \in Docs, SeparateAccounts(Vouchers[d]),
                      ValueNeutral(d)
               PROVE  OnAccounts(gl[d], InventoryAccounts, Amount) = StockValue(d)
    BY DEF InventoryReconciles, Written
  <1> DEFINE own == Keep(sles, First(d))
  <1>1. gl[d] \in Seq(GlRows) /\ sles \in Seq(Sles)
    BY DEF LedgerTypeOK
  <1>2. own \in Seq(Sles)
    BY <1>1, KeepIn
  <1>3. Filter(sles, LAMBDA r : r.voucher = d /\ ~r.is_reversal) = own
    BY <1>1, OwnRows
  <1>4. DOMAIN own = 1..Len(own)
    BY <1>2
  <1> HIDE DEF own
  <1>5. Neutral(Vouchers[d], own)
    BY <1>3, <1>4 DEF ValueNeutral, Neutral, Silent, ToSet
  <1>6. Reconciled(d)
    BY <1>5 DEF InvInv, own
  <1> QED BY <1>1, <1>6, OwnRows, OnAccountsIs DEF Reconciled

\* The inductive invariant behind StockReconciles.
StockInv == LedgerTypeOK /\ FreshInv /\ InvInv /\ GrniInv /\ BinInv

\* Stock is worth the same on the inventory accounts, in the stock ledger and
\* in the bins, and a bill that receives its own goods clears GRNI, whatever
\* is submitted and cancelled (cost_stock_movements, stock_gl_legs,
\* split_grni_from_expense, recompute_bins).
THEOREM StockAlwaysReconciles == Spec => []StockReconciles
  <1>1. Init => StockInv
    BY TypeInit, FreshInit, InvInit, GrniInit, BinsInit DEF StockInv
  <1>2. StockInv /\ [Next]_vars => StockInv'
    BY TypeStep, FreshStep, InvStep, GrniStep, BinsStep DEF StockInv
  <1>3. StockInv => StockReconciles
    BY InvImplies, GrniImplies, BinsImply DEF StockInv, StockReconciles
  <1> QED BY <1>1, <1>2, <1>3, PTL DEF Spec

-----------------------------------------------------------------------------
(* What an issue costs.                                                    *)

\* Rows with the same quantities at the same rates.
Matches(a, b) == \A i \in 1..Len(a) : a[i].qty = b[i].qty /\ a[i].rate = b[i].rate

\* The layers depend on quantities and rates only.
LEMMA RemainingSame ==
    ASSUME NEW a \in Seq(StockRows), NEW b \in Seq(StockRows), Len(a) = Len(b), Matches(a, b)
    PROVE  remaining_layers(a) = remaining_layers(b)
  <1> DEFINE n == Len(a)
  <1>1. n \in Nat /\ n = Len(b)
    OBVIOUS
  <1>2. PICK f \in [0..n -> Seq(Layers)] : /\ remaining_layers(a) = f[n] /\ f[0] = <<>>
                                           /\ \A i \in 1..n : f[i] = ReplayRow(f[i - 1], a[i])
    BY RemainingFcn
  <1>3. PICK g \in [0..n -> Seq(Layers)] : /\ remaining_layers(b) = g[n] /\ g[0] = <<>>
                                           /\ \A i \in 1..n : g[i] = ReplayRow(g[i - 1], b[i])
    BY <1>1, RemainingFcn
  <1> DEFINE P == {i \in 0..n : f[i] = g[i]}
  <1>4. 0 \in P
    BY <1>1, <1>2, <1>3
  <1>5. ASSUME NEW i \in 1..n, i - 1 \in P PROVE i \in P
    <2>1. \A l : ReplayRow(l, a[i]) = ReplayRow(l, b[i])
      BY DEF ReplayRow, Matches
    <2>2. i \in 0..n /\ f[i] = g[i]
      BY <1>2, <1>3, <1>5, <2>1
    <2> QED BY <2>2
  <1> HIDE DEF P, n
  <1>6. 0..n \subseteq P
    BY <1>1, <1>4, <1>5, UpTo
  <1>7. n \in P
    BY <1>1, <1>6
  <1> QED BY <1>2, <1>3, <1>7 DEF P

\* The rate of an issue depends on quantities and rates only.
LEMMA IssueRateSame ==
    ASSUME NEW a \in Seq(StockRows), NEW b \in Seq(StockRows), Len(a) = Len(b), Matches(a, b),
           NEW n, NEW m
    PROVE  issue_rate(a, n, m) = issue_rate(b, n, m)
  <1>1. DOMAIN a = 1..Len(a) /\ DOMAIN b = 1..Len(a) /\ \A i \in 1..Len(a) : a[i] \in StockRows
          /\ b[i] \in StockRows
    OBVIOUS
  <1>2. \A i \in 1..Len(a) : QtyOf[a[i]] = QtyOf[b[i]] /\ ValueOf[a[i]] = ValueOf[b[i]]
    BY <1>1 DEF QtyOf, ValueOf, Value, Matches
  <1>3. MapF(a, QtyOf) = MapF(b, QtyOf) /\ MapF(a, ValueOf) = MapF(b, ValueOf)
    BY <1>1, <1>2 DEF MapF
  <1>4. compute_balance(a) = compute_balance(b)
    BY <1>3, SameBalance
  <1>5. remaining_layers(a) = remaining_layers(b)
    BY RemainingSame
  <1> QED BY <1>4, <1>5 DEF issue_rate, fifo_rate

\* What is kept of matching sequences matches.
LEMMA KeptMatch ==
    ASSUME NEW a \in Seq(StockRows), NEW b \in Seq(StockRows), Len(a) = Len(b), NEW K,
           \A i \in 1..Len(a) : /\ a[i] \in K <=> b[i] \in K
                                /\ a[i] \in K => a[i].qty = b[i].qty /\ a[i].rate = b[i].rate
    PROVE  Len(Keep(a, K)) = Len(Keep(b, K)) /\ Matches(Keep(a, K), Keep(b, K))
  <1> DEFINE n == Len(a)
             A(i) == Keep(SubSeq(a, 1, i), K)
             B(i) == Keep(SubSeq(b, 1, i), K)
             P == {i \in 0..n : Len(A(i)) = Len(B(i)) /\ Matches(A(i), B(i))}
  <1>1. n \in Nat /\ n = Len(b)
    OBVIOUS
  <1>2. 0 \in P
    <2>1. SubSeq(a, 1, 0) = <<>> /\ SubSeq(b, 1, 0) = <<>>
      OBVIOUS
    <2>2. A(0) = <<>> /\ B(0) = <<>>
      BY <2>1, KeepEmpty
    <2> QED BY <1>1, <2>2 DEF Matches
  <1>3. ASSUME NEW i \in 1..n, i - 1 \in P PROVE i \in P
    <2> DEFINE u == SubSeq(a, 1, i - 1)
               v == SubSeq(b, 1, i - 1)
    <2>1. /\ u \in Seq(StockRows) /\ v \in Seq(StockRows)
          /\ SubSeq(a, 1, i) = Append(u, a[i]) /\ SubSeq(b, 1, i) = Append(v, b[i])
          /\ a[i] \in StockRows /\ b[i] \in StockRows
      OBVIOUS
    <2>2. A(i) = IF a[i] \in K THEN Append(A(i - 1), a[i]) ELSE A(i - 1)
      <3> DEFINE r == a[i]
      <3>1. u \in Seq(StockRows) /\ r \in StockRows /\ SubSeq(a, 1, i) = Append(u, r)
        BY <2>1
      <3> HIDE DEF u, r
      <3>2. Keep(Append(u, r), K) = IF r \in K THEN Append(Keep(u, K), r) ELSE Keep(u, K)
        BY <3>1, KeepAppend
      <3> QED BY <3>1, <3>2 DEF u, r
    <2>3. B(i) = IF b[i] \in K THEN Append(B(i - 1), b[i]) ELSE B(i - 1)
      <3> DEFINE r == b[i]
      <3>1. v \in Seq(StockRows) /\ r \in StockRows /\ SubSeq(b, 1, i) = Append(v, r)
        BY <2>1
      <3> HIDE DEF v, r
      <3>2. Keep(Append(v, r), K) = IF r \in K THEN Append(Keep(v, K), r) ELSE Keep(v, K)
        BY <3>1, KeepAppend
      <3> QED BY <3>1, <3>2 DEF v, r
    <2>4. A(i - 1) \in Seq(StockRows) /\ B(i - 1) \in Seq(StockRows)
      BY <2>1, KeepIn
    <2>5. i \in 0..n
      BY <1>1
    <2> DEFINE x == A(i - 1)
               y == B(i - 1)
    <2>6. Len(x) = Len(y) /\ Matches(x, y)
      BY <1>3
    <2>7. CASE a[i] \notin K
      BY <2>2, <2>3, <2>5, <2>6, <2>7
    <2>8. CASE a[i] \in K
      <3>1. A(i) = Append(x, a[i]) /\ B(i) = Append(y, b[i])
        BY <2>2, <2>3, <2>8
      <3>2. a[i].qty = b[i].qty /\ a[i].rate = b[i].rate
        BY <2>8
      <3>3. x \in Seq(StockRows) /\ y \in Seq(StockRows)
        BY <2>4
      <3> HIDE DEF x, y
      <3>4. Len(Append(x, a[i])) = Len(Append(y, b[i])) /\ Matches(Append(x, a[i]), Append(y, b[i]))
        BY <2>6, <3>2, <3>3 DEF Matches
      <3> QED BY <2>5, <3>1, <3>4
    <2> QED BY <2>7, <2>8
  <1> HIDE DEF P
  <1>4. 0..n \subseteq P
    <2> HIDE DEF n
    <2> QED BY <1>1, <1>2, <1>3, UpTo
  <1>5. n \in P
    BY <1>1, <1>4
  <1>6. SubSeq(a, 1, n) = a /\ SubSeq(b, 1, n) = b
    BY <1>1
  <1> QED BY <1>5, <1>6 DEF P

\* The rows of its pair that row k followed, and whether it took from the
\* output of its own voucher.
Prior(s, k) == Keep(SubSeq(s, 1, k - 1), AtPair(Pair(s[k])))
OwnOutput(s, j, k) == s[j].voucher = s[k].voucher /\ Pair(s[j]) = Pair(s[k]) /\ s[j].qty > 0
Takes(s, k) == IsProduction(Vouchers[s[k].voucher]) /\ \E j \in 1..(k - 1) : OwnOutput(s, j, k)
Issued(s, k) == s[k].qty < 0 /\ ~s[k].is_reversal /\ ~Takes(s, k)
CostOfIssue(s, k) == issue_rate(Prior(s, k), -s[k].qty, load_items(s[k].item).valuation_method)

\* Every issue has the cost of its day.
CostInv == \A k \in 1..Len(sles) : Issued(sles, k) => sles[k].rate = CostOfIssue(sles, k)

\* Later rows change nothing about earlier issues.
LEMMA EarlierKept ==
    ASSUME NEW s \in Seq(Sles), NEW t \in Seq(Sles), NEW k \in 1..Len(s)
    PROVE  /\ (s \o t)[k] = s[k] /\ CostOfIssue(s \o t, k) = CostOfIssue(s, k)
           /\ Issued(s \o t, k) <=> Issued(s, k)
  <1> DEFINE z == s \o t
  <1>1. \A j \in 1..k : z[j] = s[j]
    OBVIOUS
  <1>2. SubSeq(z, 1, k - 1) = SubSeq(s, 1, k - 1)
    OBVIOUS
  <1>3. k \in 1..k /\ \A j \in 1..(k - 1) : j \in 1..k
    OBVIOUS
  <1> HIDE DEF z
  <1>4. z[k] = s[k]
    BY <1>1, <1>3
  <1>5. CostOfIssue(z, k) = CostOfIssue(s, k)
    BY <1>2, <1>4 DEF CostOfIssue, Prior
  <1>6. \A j \in 1..(k - 1) : OwnOutput(z, j, k) <=> OwnOutput(s, j, k)
    BY <1>1, <1>3, <1>4 DEF OwnOutput
  <1>7. Issued(z, k) <=> Issued(s, k)
    BY <1>4, <1>6 DEF Issued, Takes
  <1> QED BY <1>4, <1>5, <1>7 DEF z

\* The later rows of a concatenation.
LEMMA LaterRows ==
    ASSUME NEW S, NEW s \in Seq(S), NEW t \in Seq(S), NEW i \in 1..Len(t)
    PROVE  /\ (s \o t)[Len(s) + i] = t[i]
           /\ SubSeq(s \o t, 1, Len(s) + i - 1) = s \o SubSeq(t, 1, i - 1)
           /\ SubSeq(t, 1, i - 1) \in Seq(S) /\ Len(SubSeq(t, 1, i - 1)) = i - 1
           /\ \A j \in 1..(i - 1) : SubSeq(t, 1, i - 1)[j] = t[j]
  <1>1. /\ SubSeq(t, 1, i - 1) \in Seq(S) /\ Len(SubSeq(t, 1, i - 1)) = i - 1
        /\ \A j \in 1..(i - 1) : SubSeq(t, 1, i - 1)[j] = t[j]
    OBVIOUS
  <1>2. (s \o t)[Len(s) + i] = t[i]
    OBVIOUS
  <1> DEFINE u == SubSeq(t, 1, i - 1)
             x == SubSeq(s \o t, 1, Len(s) + i - 1)
             y == s \o u
  <1>3. s \o t \in Seq(S) /\ Len(s \o t) = Len(s) + Len(t) /\ Len(s) \in Nat /\ Len(t) \in Nat
        /\ \A j \in 1..(Len(s) + Len(t)) : (s \o t)[j] = IF j <= Len(s) THEN s[j] ELSE t[j - Len(s)]
    OBVIOUS
  <1>4. x \in Seq(S) /\ Len(x) = Len(s) + i - 1 /\ \A j \in 1..(Len(s) + i - 1) : x[j] = (s \o t)[j]
    <2> DEFINE z == s \o t
    <2>1. z \in Seq(S) /\ Len(s) + i - 1 \in 0..Len(z)
      BY <1>3
    <2> HIDE DEF z
    <2> QED BY <2>1 DEF z
  <1>5. y \in Seq(S) /\ Len(y) = Len(s) + i - 1
        /\ \A j \in 1..(Len(s) + i - 1) : y[j] = IF j <= Len(s) THEN s[j] ELSE u[j - Len(s)]
    <2>1. u \in Seq(S) /\ Len(u) = i - 1
      BY <1>1
    <2> HIDE DEF u
    <2> QED BY <2>1
  <1>6. ASSUME NEW j \in 1..(Len(s) + i - 1) PROVE x[j] = y[j]
    <2>1. j \in 1..(Len(s) + Len(t))
      BY <1>3
    <2>2. CASE j <= Len(s)
      BY <1>3, <1>4, <1>5, <2>1, <2>2
    <2>3. CASE ~(j <= Len(s))
      <3>1. j - Len(s) \in 1..(i - 1)
        BY <1>3, <2>3
      <3>2. u[j - Len(s)] = t[j - Len(s)]
        BY <1>1, <3>1
      <3> QED BY <1>3, <1>4, <1>5, <2>1, <2>3, <3>2
    <2> QED BY <2>2, <2>3
  <1> HIDE DEF x, y, u
  <1>7. x = y
    BY <1>4, <1>5, <1>6
  <1> QED BY <1>1, <1>2, <1>7 DEF x, y, u

\* A stored row is of the pair it was costed for.
LEMMA StoredPair ==
    ASSUME NEW d, NEW new, NEW r \in StockRows, NEW s, s = StoreAs(d, new)[r]
    PROVE  s.item = r.item /\ s.warehouse = r.warehouse /\ Pair(s) = Pair(r)
  <1>1. s = Stored(r, d, new)
    BY DEF StoreAs
  <1>2. s.item = r.item /\ s.warehouse = r.warehouse
    BY <1>1 DEF Stored
  <1> QED BY <1>2 DEF Pair

\* The rows as they were costed, and as they are stored.
AsStored(c, t, d, w, j) ==
    /\ Pair(t[j]) = Pair(c[j]) /\ t[j].item = c[j].item /\ t[j].qty = c[j].qty
    /\ t[j].voucher = d
    /\ t[j].rate = c[j].rate \/ IsOutput(w, c[j])

\* A stored row is as it was costed.
LEMMA StoredAs ==
    ASSUME NEW d \in Docs, NEW w, NEW c \in Seq(Moves), NEW m, m = SpreadProduction(w, c),
           NEW t, t = MapF(m, StoreAs(d, "posted")), NEW j \in 1..Len(c)
    PROVE  AsStored(c, t, d, w, j)
  <1>1. /\ m \in Seq(Moves) /\ Len(m) = Len(c)
        /\ m[j] = IF Spreads(w, c) THEN Respread(w, c, c[j]) ELSE c[j]
    BY SpreadIs
  <1>2. m[j].item = c[j].item /\ m[j].warehouse = c[j].warehouse /\ m[j].qty = c[j].qty
    BY SpreadKeeps
  <1>3. j \in DOMAIN m /\ m[j] \in StockRows
    BY <1>1 DEF StockRows
  <1>4. t[j] = StoreAs(d, "posted")[m[j]]
    BY <1>3 DEF MapF
  <1>5. t[j].qty = m[j].qty /\ t[j].rate = m[j].rate /\ t[j].voucher = d
    BY <1>3, <1>4, StoredFields
  <1>6. t[j].item = m[j].item /\ Pair(t[j]) = Pair(m[j])
    BY <1>3, <1>4, StoredPair
  <1>7. Pair(m[j]) = Pair(c[j])
    BY <1>2 DEF Pair
  <1>8. m[j].rate = c[j].rate \/ IsOutput(w, c[j])
    BY <1>1 DEF Respread
  <1> QED BY <1>2, <1>5, <1>6, <1>7, <1>8 DEF AsStored

\* The output of a voucher is that of a production.
LEMMA OutputsAreMade ==
    ASSUME sles \in Seq(Sles), NEW w, IsSettled(w), w.is_return \in BOOLEAN, NEW v, SameFields(w, v),
           NEW j \in 1..Len(Costed(w)), IsOutput(w, Costed(w)[j])
    PROVE  IsProduction(v) /\ Costed(w)[j].qty > 0
  <1> DEFINE T == IF w.doctype = "StockEntry" THEN {stock_entry_trans_type(w.stock_entry_type)}
                  ELSE {"Issue", "Receipt"}
  <1>1. HasTypes(derive_stock_rows(w), T)
    BY DerivedTyped
  <1> HIDE DEF T
  <1>2. HasTypes(Costed(w), T)
    BY <1>1, MovedTyped
  <1>3. "Production" \in T /\ Costed(w)[j].qty > 0
    BY <1>2 DEF HasTypes, IsOutput
  <1>4. w.doctype = "StockEntry" /\ stock_entry_trans_type(w.stock_entry_type) = "Production"
    BY <1>3 DEF T
  <1> QED BY <1>3, <1>4 DEF IsProduction, SameFields

\* What an issue is costed from: the ledger and the voucher's rows before it.
LEMMA CostedIssue ==
    ASSUME sles \in Seq(Sles), NEW w, IsSettled(w), w.is_return \in BOOLEAN,
           NEW c, c = Costed(w), NEW i \in 1..Len(c), c[i].qty < 0, NEW u, u = SubSeq(c, 1, i - 1)
    PROVE  c[i].rate = issue_rate(Keep(sles \o u, AtPair(Pair(c[i]))), -c[i].qty,
                                  load_items(c[i].item).valuation_method)
  <1> DEFINE s == derive_stock_rows(w)
             r == s[i]
  <1>1. s \in Seq(Moves) /\ c \in Seq(Moves) /\ Len(c) = Len(s)
    BY MovedType
  <1>2. c = CostRows(w, s)
    BY DEF Costed
  <1>3. r \in Moves /\ i \in 1..Len(s)
    BY <1>1
  <1>4. c[i] = CostOf(w, u, r)
    BY <1>1, <1>2, <1>3, CostRowsAre
  <1>5. u \in Seq(Moves)
    BY <1>1
  <1> HIDE DEF r, s
  <1>6. /\ c[i].qty = Units(r) /\ c[i].rate = CostRate(w, u, r) /\ c[i].item = r.item
        /\ c[i].warehouse = r.warehouse
    BY <1>3, <1>4, CostOfFields
  <1>7. Units(r) \in Int /\ Units(r) < 0 /\ Pair(c[i]) = Pair(r)
    BY <1>3, <1>6, UnitsSign DEF Pair
  <1>8. CostRate(w, u, r) = issue_rate(prior_for(Pair(r), u), -Units(r), load_items(r.item).valuation_method)
    BY <1>7 DEF CostRate, Units
  <1>9. prior_for(Pair(r), u) = Keep(sles \o u, AtPair(Pair(r)))
    BY <1>5, SubRows, PriorIs
  <1> QED BY <1>6, <1>7, <1>8, <1>9

\* Rows of the same item and warehouse are at the same pairs.
LEMMA SamePair ==
    ASSUME NEW a \in StockRows, NEW b \in StockRows, Pair(a) = Pair(b), NEW p
    PROVE  a \in AtPair(p) <=> b \in AtPair(p)
  BY DEF AtPair

\* The rows of a concatenation, one by one.
LEMMA ConcatIs ==
    ASSUME NEW S, NEW s \in Seq(S), NEW t \in Seq(S)
    PROVE  /\ s \o t \in Seq(S) /\ Len(s \o t) = Len(s) + Len(t)
           /\ \A j \in 1..(Len(s) + Len(t)) : (s \o t)[j] = IF j <= Len(s) THEN s[j] ELSE t[j - Len(s)]
  OBVIOUS

\* Row i of t, which is stored for d, as row k of the ledger z.
NewRow(d, w, t, i, z, k) ==
    /\ IsSettled(w) /\ SameFields(w, Vouchers[d]) /\ w.is_return \in BOOLEAN
    /\ t = MapF(Moved(w), StoreAs(d, "posted"))
    /\ i \in 1..Len(t) /\ z = sles \o t /\ k = Len(sles) + i

\* A new issue has the cost of the ledger it is appended to, although the
\* outputs of its voucher were priced after it was costed.
LEMMA NewIssue ==
    ASSUME sles \in Seq(Sles), NEW d \in Docs, NEW w, NEW t, NEW i, NEW z, NEW k,
           NewRow(d, w, t, i, z, k), Issued(z, k)
    PROVE  z[k].rate = CostOfIssue(z, k)
  <1>0. /\ IsSettled(w) /\ SameFields(w, Vouchers[d]) /\ w.is_return \in BOOLEAN
        /\ t = MapF(Moved(w), StoreAs(d, "posted"))
        /\ i \in 1..Len(t) /\ z = sles \o t /\ k = Len(sles) + i
    BY DEF NewRow
  <1> USE <1>0
  <1> DEFINE c == Costed(w)
             x == SubSeq(t, 1, i - 1)
             u == SubSeq(c, 1, i - 1)
             a == sles \o x
             b == sles \o u
             p == Pair(c[i])
             K == AtPair(p)
             n == Len(sles)
  <1>1. c \in Seq(Moves) /\ Moved(w) = SpreadProduction(w, c)
    BY MovedType DEF Moved
  <1>2. t \in Seq(Sles) /\ Len(t) = Len(c)
    BY <1>1, StoredSameAs
  <1>3. \A j \in 1..Len(c) : AsStored(c, t, d, w, j)
    BY <1>1, StoredAs
  <1>4. /\ z[k] = t[i] /\ SubSeq(z, 1, k - 1) = a
        /\ x \in Seq(Sles) /\ Len(x) = i - 1 /\ \A j \in 1..(i - 1) : x[j] = t[j]
    BY <1>2, LaterRows
  <1>5. u \in Seq(Moves) /\ Len(u) = i - 1 /\ \A j \in 1..(i - 1) : u[j] = c[j]
    BY <1>1, <1>2
  <1>6. i \in 1..Len(c) /\ n \in Nat /\ \A j \in 1..(i - 1) : j \in 1..Len(c) /\ j \in 1..Len(t)
    BY <1>1, <1>2
  <1>7. /\ Pair(t[i]) = p /\ t[i].item = c[i].item /\ t[i].qty = c[i].qty /\ t[i].voucher = d
        /\ c[i].qty < 0 /\ c[i].qty \in Int /\ t[i].rate = c[i].rate
    <2>1. AsStored(c, t, d, w, i)
      BY <1>3, <1>6
    <2>2. t[i].qty < 0
      BY <1>4 DEF Issued
    <2>3. c[i] \in Moves
      BY <1>1, <1>6
    <2>4. c[i].qty \in Int
      BY <2>3, MoveType
    <2> QED BY <2>1, <2>2, <2>4 DEF AsStored, IsOutput
  <1>8. c[i].rate = issue_rate(Keep(b, K), -c[i].qty, load_items(c[i].item).valuation_method)
    <2> HIDE DEF c, u
    <2> QED BY <1>6, <1>7, CostedIssue DEF c, u
  <1>9. ASSUME NEW j \in 1..(i - 1), Pair(c[j]) = p, IsOutput(w, c[j]) PROVE FALSE
    <2>1. IsProduction(Vouchers[d]) /\ c[j].qty > 0
      BY <1>6, <1>9, OutputsAreMade
    <2>2. AsStored(c, t, d, w, j)
      BY <1>3, <1>6
    <2>3. z[n + j] = t[j] /\ n + j \in 1..(k - 1)
      <3>1. j \in 1..Len(t)
        BY <1>6
      <3>2. z[n + j] = t[j]
        BY <1>2, <3>1
      <3> QED BY <1>6, <3>2
    <2>4. OwnOutput(z, n + j, k)
      BY <1>4, <1>7, <1>9, <2>1, <2>2, <2>3 DEF OwnOutput, AsStored
    <2>5. Takes(z, k)
      <3> HIDE DEF n
      <3> QED BY <1>4, <1>7, <2>1, <2>3, <2>4 DEF Takes
    <2> QED BY <2>5 DEF Issued
  <1>10. /\ a \in Seq(StockRows) /\ b \in Seq(StockRows) /\ Len(a) = n + (i - 1) /\ Len(b) = n + (i - 1)
         /\ \A j \in 1..(n + (i - 1)) : /\ a[j] = IF j <= n THEN sles[j] ELSE x[j - n]
                                        /\ b[j] = IF j <= n THEN sles[j] ELSE u[j - n]
    <2>1. sles \in Seq(StockRows) /\ x \in Seq(StockRows) /\ u \in Seq(StockRows)
      BY <1>4, <1>5, SubRows
    <2>2. Len(x) = i - 1 /\ Len(u) = i - 1
      BY <1>4, <1>5
    <2> HIDE DEF x, u
    <2>3. /\ a \in Seq(StockRows) /\ Len(a) = n + (i - 1)
          /\ \A j \in 1..(n + (i - 1)) : a[j] = IF j <= n THEN sles[j] ELSE x[j - n]
      BY <2>1, <2>2, ConcatIs
    <2>4. /\ b \in Seq(StockRows) /\ Len(b) = n + (i - 1)
          /\ \A j \in 1..(n + (i - 1)) : b[j] = IF j <= n THEN sles[j] ELSE u[j - n]
      BY <2>1, <2>2, ConcatIs
    <2> QED BY <2>3, <2>4
  <1>11. ASSUME NEW j \in 1..Len(a)
         PROVE  /\ a[j] \in K <=> b[j] \in K
                /\ a[j] \in K => a[j].qty = b[j].qty /\ a[j].rate = b[j].rate
    <2>1. j \in 1..(n + (i - 1))
      BY <1>10
    <2>2. CASE j <= n
      BY <1>10, <2>1, <2>2
    <2>3. CASE ~(j <= n)
      <3> DEFINE h == j - n
      <3>1. h \in 1..(i - 1)
        BY <1>6, <2>1, <2>3
      <3>2. a[j] = t[h] /\ b[j] = c[h]
        BY <1>4, <1>5, <1>10, <2>1, <2>3, <3>1
      <3>3. a[j] \in StockRows /\ b[j] \in StockRows
        BY <1>10, <2>1
      <3> HIDE DEF h
      <3>4. AsStored(c, t, d, w, h)
        BY <1>3, <1>6, <3>1
      <3>5. Pair(a[j]) = Pair(b[j]) /\ a[j].qty = b[j].qty /\ (a[j].rate = b[j].rate \/ IsOutput(w, b[j]))
        BY <3>2, <3>4 DEF AsStored
      <3>6. a[j] \in K <=> b[j] \in K
        BY <3>3, <3>5, SamePair
      <3>7. b[j] \in K => ~IsOutput(w, b[j])
        BY <1>9, <3>1, <3>2 DEF AtPair
      <3> QED BY <3>5, <3>6, <3>7
    <2> QED BY <2>2, <2>3
  <1> HIDE DEF a, b, K
  <1>12. Len(Keep(a, K)) = Len(Keep(b, K)) /\ Matches(Keep(a, K), Keep(b, K))
    BY <1>10, <1>11, KeptMatch
  <1>13. Keep(a, K) \in Seq(StockRows) /\ Keep(b, K) \in Seq(StockRows)
    BY <1>10, KeepIn
  <1>14. \A q, o : issue_rate(Keep(a, K), q, o) = issue_rate(Keep(b, K), q, o)
    BY <1>12, <1>13, IssueRateSame
  <1>15. Prior(z, k) = Keep(a, K)
    BY <1>4, <1>7 DEF Prior, K
  <1> QED BY <1>4, <1>7, <1>8, <1>14, <1>15 DEF CostOfIssue

\* Nothing that was stored changes, so it is the new rows that count.
LEMMA CostAppend ==
    ASSUME sles \in Seq(Sles), CostInv, NEW t \in Seq(Sles), sles' = sles \o t,
           \A i \in 1..Len(t) : Issued(sles \o t, Len(sles) + i) =>
              (sles \o t)[Len(sles) + i].rate = CostOfIssue(sles \o t, Len(sles) + i)
    PROVE  CostInv'
  <1> DEFINE z == sles \o t
             n == Len(sles)
  <1>1. z \in Seq(Sles) /\ Len(z) = n + Len(t) /\ n \in Nat /\ Len(t) \in Nat
    OBVIOUS
  <1>2. ASSUME NEW k \in 1..Len(z), Issued(z, k) PROVE z[k].rate = CostOfIssue(z, k)
    <2>1. CASE k <= n
      <3>1. k \in 1..Len(sles)
        BY <1>1, <2>1
      <3>2. z[k] = sles[k] /\ CostOfIssue(z, k) = CostOfIssue(sles, k) /\ Issued(sles, k)
        BY <1>2, <3>1, EarlierKept
      <3> QED BY <3>1, <3>2 DEF CostInv
    <2>2. CASE ~(k <= n)
      <3> DEFINE i == k - n
      <3>1. i \in 1..Len(t) /\ k = Len(sles) + i
        BY <1>1, <2>2
      <3> HIDE DEF i
      <3> QED BY <1>2, <3>1
    <2> QED BY <2>1, <2>2
  <1> HIDE DEF z
  <1>3. sles' = z
    BY DEF z
  <1> QED BY <1>2, <1>3 DEF CostInv

\* A submit costs its issues on the rows before them.
LEMMA CostSubmit ==
    ASSUME LedgerTypeOK, CostInv, NEW d \in Docs, NEW w, Submits(d, w), IsSettled(w),
           SameFields(w, Vouchers[d]), w.is_return \in BOOLEAN
    PROVE  CostInv'
  <1> DEFINE t == MapF(Moved(w), StoreAs(d, "posted"))
  <1>1. sles \in Seq(Sles) /\ t \in Seq(Sles) /\ sles' = sles \o t
    BY SubmitTypes DEF LedgerTypeOK, Submits
  <1>2. ASSUME NEW i \in 1..Len(t), Issued(sles \o t, Len(sles) + i)
        PROVE  (sles \o t)[Len(sles) + i].rate = CostOfIssue(sles \o t, Len(sles) + i)
    <2> DEFINE z == sles \o t
               k == Len(sles) + i
    <2>1. Issued(z, k) /\ NewRow(d, w, t, i, z, k)
      BY <1>2 DEF NewRow
    <2> HIDE DEF z, k, t
    <2>2. z[k].rate = CostOfIssue(z, k)
      BY <1>1, <2>1, NewIssue
    <2> QED BY <2>2 DEF z, k
  <1> HIDE DEF t
  <1> QED BY <1>1, <1>2, CostAppend

\* The rows of a cancellation are reversals.
LEMMA ReversalRow ==
    ASSUME NEW d \in Docs, NEW r \in Sles, NEW s, s = ReverseSle(d)[r]
    PROVE  s.is_reversal
  <1> DEFINE b == "cancelled" = "cancelled"
             q == Undo(r)
  <1>1. s = Stored(q, d, "cancelled")
    BY DEF ReverseSle
  <1>2. b
    OBVIOUS
  <1> HIDE DEF b, q
  <1>3. s = [item |-> q.item, warehouse |-> q.warehouse, qty |-> q.qty, rate |-> q.rate,
             voucher |-> d, is_reversal |-> b]
    BY <1>1 DEF Stored, b
  <1>4. s.is_reversal = b
    BY <1>3
  <1> QED BY <1>2, <1>4, Zenon

\* A cancel adds reversals, which are no issues.
LEMMA CostCancel ==
    ASSUME LedgerTypeOK, CostInv, NEW d \in Docs, Cancels(d)
    PROVE  CostInv'
  <1> DEFINE o == Keep(sles, OfVoucher(d))
             t == MapF(o, ReverseSle(d))
  <1>1. sles \in Seq(Sles) /\ t \in Seq(Sles) /\ sles' = sles \o t
    BY CancelTypes DEF LedgerTypeOK, Cancels
  <1>2. o \in Seq(Sles)
    BY <1>1, KeepIn
  <1>3. ASSUME NEW i \in 1..Len(t) PROVE ~Issued(sles \o t, Len(sles) + i)
    <2>1. DOMAIN t = DOMAIN o /\ i \in DOMAIN t
      BY <1>1 DEF MapF
    <2>2. t[i] = ReverseSle(d)[o[i]] /\ o[i] \in Sles
      BY <1>2, <2>1 DEF MapF
    <2>3. t[i].is_reversal
      BY <2>2, ReversalRow
    <2>4. (sles \o t)[Len(sles) + i] = t[i]
      BY <1>1, LaterRows
    <2> QED BY <2>3, <2>4 DEF Issued
  <1> HIDE DEF t
  <1> QED BY <1>1, <1>3, CostAppend

\* CostInv is inductive.
LEMMA CostStep == LedgerTypeOK /\ CostInv /\ [Next]_vars => CostInv'
  <1> SUFFICES ASSUME LedgerTypeOK, CostInv, [Next]_vars PROVE CostInv'
    OBVIOUS
  <1>1. CASE \E d \in Docs : \E w : /\ Submits(d, w) /\ IsSettled(w) /\ SameFields(w, Vouchers[d])
                                    /\ w.is_return \in BOOLEAN
    BY <1>1, CostSubmit
  <1>2. CASE \E d \in Docs : Cancels(d)
    BY <1>2, CostCancel
  <1>3. CASE UNCHANGED <<company, status, gl, party_transactions, tax_transactions, sles, bins>>
    BY <1>3 DEF CostInv
  <1> QED BY <1>1, <1>2, <1>3, Steps

\* CostInv holds at the start.
LEMMA CostInit == Init => CostInv
  BY DEF Init, CostInv

\* What is in K is kept.
LEMMA KeepReaches ==
    ASSUME NEW S, NEW s \in Seq(S), NEW K, NEW j \in 1..Len(s), s[j] \in K
    PROVE  \E i \in DOMAIN Keep(s, K) : Keep(s, K)[i] = s[j]
  <1> DEFINE Reached(u, k) == \E i \in DOMAIN Keep(u, K) : Keep(u, K)[i] = u[k]
             P == {u \in Seq(S) : \A k \in 1..Len(u) : u[k] \in K => Reached(u, k)}
  <1>1. <<>> \in P
    OBVIOUS
  <1>2. ASSUME NEW u \in Seq(S), NEW x \in S, u \in P PROVE Append(u, x) \in P
    <2> DEFINE q == Append(u, x)
               a == Keep(u, K)
               b == Keep(q, K)
    <2>1. b = IF x \in K THEN Append(a, x) ELSE a
      BY KeepAppend
    <2>2. a \in Seq(S)
      BY KeepIn
    <2>3. q \in Seq(S) /\ Len(q) = Len(u) + 1 /\ q[Len(u) + 1] = x /\ \A k \in 1..Len(u) : q[k] = u[k]
      OBVIOUS
    <2>4. \A i \in DOMAIN a : i \in DOMAIN b /\ b[i] = a[i]
      <3> HIDE DEF a, b
      <3> QED BY <2>1, <2>2
    <2>5. x \in K => \E i \in DOMAIN b : b[i] = x
      <3> HIDE DEF a, b
      <3>1. x \in K => Len(a) + 1 \in DOMAIN b /\ b[Len(a) + 1] = x
        BY <2>1, <2>2
      <3> QED BY <3>1
    <2>6. ASSUME NEW k \in 1..Len(q), q[k] \in K PROVE \E i \in DOMAIN b : b[i] = q[k]
      <3>1. CASE k \in 1..Len(u)
        <4>1. Reached(u, k) /\ q[k] = u[k]
          BY <1>2, <2>3, <2>6, <3>1
        <4> HIDE DEF b, q
        <4> QED BY <2>4, <4>1
      <3>2. CASE k \notin 1..Len(u)
        <4>1. k = Len(u) + 1
          BY <2>3, <3>2
        <4> QED BY <2>3, <2>5, <2>6, <4>1
      <3> QED BY <3>1, <3>2
    <2> QED BY <2>3, <2>6
  <1> HIDE DEF P
  <1>3. s \in P
    BY <1>1, <1>2, SeqInduct
  <1> QED BY <1>3 DEF P

\* The issues that the properties are about.
LEMMA IssuesCost ==
    ASSUME sles \in Seq(Sles), CostInv, NEW f, NEW k \in Issues(f)
    PROVE  /\ k \in 1..Len(sles) /\ sles[k] \in Sles /\ sles[k].qty \in Int /\ sles[k].qty < 0
           /\ Before(k) = Prior(sles, k) /\ Before(k) \in Seq(Sles)
           /\ sles[k].rate = CostOfIssue(sles, k)
  <1>1. k \in 1..Len(sles) /\ sles[k] \in Sles /\ sles[k].qty < 0 /\ ~sles[k].is_reversal /\ ~TakesItsOutput(k)
    BY DEF Issues
  <1> DEFINE s == SubSeq(sles, 1, k - 1)
             p == Pair(sles[k])
  <1>2. s \in Seq(Sles) /\ Len(s) = k - 1 /\ \A j \in 1..(k - 1) : s[j] = sles[j] /\ s[j] \in Sles
    BY <1>1
  <1>3. \A j \in DOMAIN s : s[j] \in AtPair(p) <=> Pair(s[j]) = p
    BY <1>2 DEF AtPair, StockRows
  <1>4. Before(k) = Prior(sles, k)
    <2>1. [j \in DOMAIN s |-> IF Pair(s[j]) = p THEN <<s[j]>> ELSE <<>>]
          = [j \in DOMAIN s |-> IF s[j] \in AtPair(p) THEN <<s[j]>> ELSE <<>>]
      BY <1>3
    <2> QED BY <2>1 DEF Before, Prior, Filter, FlatMap, Map, Keep
  <1>5. Before(k) \in Seq(Sles)
    BY <1>2, <1>4, KeepIn DEF Prior
  <1>6. ~Takes(sles, k)
    <2> SUFFICES ASSUME IsProduction(Vouchers[sles[k].voucher]), NEW j \in 1..(k - 1), OwnOutput(sles, j, k)
                 PROVE  FALSE
      BY DEF Takes
    <2>1. s[j] \in AtPair(p) /\ s[j].voucher = sles[k].voucher /\ s[j].qty > 0
      BY <1>2, <1>3 DEF OwnOutput
    <2>2. \E i \in DOMAIN Keep(s, AtPair(p)) : Keep(s, AtPair(p))[i] = s[j]
      <3>1. j \in 1..Len(s) /\ s \in Seq(Sles)
        BY <1>2
      <3> HIDE DEF s, p
      <3> QED BY <2>1, <3>1, KeepReaches
    <2>3. s[j] \in ToSet(Before(k))
      BY <1>4, <2>2 DEF Prior, ToSet
    <2> QED BY <1>1, <2>1, <2>3 DEF TakesItsOutput
  <1>7. sles[k].qty \in Int
    BY <1>1 DEF Sles
  <1>8. Issued(sles, k)
    BY <1>1, <1>6 DEF Issued
  <1> QED BY <1>1, <1>4, <1>5, <1>7, <1>8 DEF CostInv

-----------------------------------------------------------------------------
(* What the rounding of the moving average leaves behind.                  *)

\* The balance and the value of a ledger with one more row.
LEMMA OneMoreRow ==
    ASSUME NEW s \in Seq(StockRows), NEW r \in StockRows
    PROVE  /\ Quantity(s) \in Int /\ Quantity(Append(s, r)) = Quantity(s) + r.qty
           /\ SumOver(s, Value) \in Fractions
           /\ SumOver(Append(s, r), Value) = SumOver(s, Value) ++ Value(r)
  <1> DEFINE t == Append(s, r)
             e == <<r>>
  <1>1. t \in Seq(StockRows) /\ e \in Seq(StockRows) /\ t = s \o e
    OBVIOUS
  <1>2. /\ Quantity(s) \in Int /\ Whole(Quantity(s)) = FracSum(MapF(s, QtyOf))
        /\ SumOver(s, Value) = FracSum(MapF(s, ValueOf))
    BY QuantityIs
  <1>3. /\ Quantity(t) \in Int /\ Whole(Quantity(t)) = FracSum(MapF(t, QtyOf))
        /\ SumOver(t, Value) = FracSum(MapF(t, ValueOf))
    <2> HIDE DEF t
    <2> QED BY <1>1, QuantityIs
  <1>4. QtyOf[r] = Whole(r.qty) /\ ValueOf[r] = Value(r) /\ r.qty \in Int
    BY StockRowType DEF QtyOf, ValueOf
  <1>5. FracSum(MapF(e, QtyOf)) = QtyOf[r] /\ FracSum(MapF(e, ValueOf)) = ValueOf[r]
    BY MeasureTypes, SumOne
  <1> HIDE DEF e, t
  <1>6. /\ FracSum(MapF(t, QtyOf)) = FracSum(MapF(s, QtyOf)) ++ FracSum(MapF(e, QtyOf))
        /\ FracSum(MapF(t, ValueOf)) = FracSum(MapF(s, ValueOf)) ++ FracSum(MapF(e, ValueOf))
    BY <1>1, MeasureTypes, SumConcat
  <1>7. Whole(Quantity(t)) = Whole(Quantity(s) + r.qty)
    BY <1>2, <1>3, <1>4, <1>5, <1>6, WholePlus
  <1>8. Quantity(s) + r.qty \in Int
    BY <1>2, <1>4
  <1>9. Quantity(t) = Quantity(s) + r.qty
    BY <1>3, <1>7, <1>8, WholeUnique
  <1>10. SumOver(s, Value) \in Fractions
    BY ValuesType
  <1> QED BY <1>2, <1>3, <1>4, <1>5, <1>6, <1>9, <1>10 DEF t

\* The average of a balance, against its value, in whole cents.
LEMMA AverageIs ==
    ASSUME NEW s \in Seq(StockRows), NEW n \in Nat \ {0}, Quantity(s) = n,
           NEW v, v = SumOver(s, Value)
    PROVE  \E r \in Int : /\ compute_balance(s).rate = Whole(r)
                          /\ 2 * (v[1] - (n * r) * v[2]) <= (1 + n) * v[2]
                          /\ -((1 + n) * v[2]) <= 2 * (v[1] - (n * r) * v[2])
  <1>1. v \in Fractions /\ v[1] \in Int /\ v[2] \in Nat \ {0}
    BY ValuesType, FractionType
  <1>2. PICK c \in Int : /\ round2(v) = Whole(c)
                         /\ 2 * (v[1] - c * v[2]) <= v[2] /\ -v[2] <= 2 * (v[1] - c * v[2])
    BY <1>1, RoundIs
  <1> DEFINE y == Whole(c) // Whole(n)
  <1>3. y \in Fractions /\ y[1] * n = c * y[2]
    <2>1. Whole(c) \in Fractions /\ Whole(n) \in Fractions /\ Whole(n) # Zero
      BY WholeType, WholeNotZero
    <2>2. y \in Fractions /\ y[1] * (Whole(c)[2] * Whole(n)[1]) = (Whole(c)[1] * Whole(n)[2]) * y[2]
      BY <2>1, DivideIs
    <2>3. Whole(c)[1] = c /\ Whole(c)[2] = 1 /\ Whole(n)[1] = n /\ Whole(n)[2] = 1
      BY DEF Whole
    <2> HIDE DEF y
    <2>4. y[1] \in Int /\ y[2] \in Int
      BY <2>2, FractionType
    <2> QED BY <2>2, <2>3, <2>4
  <1> HIDE DEF y
  <1>4. y[1] \in Int /\ y[2] \in Nat \ {0}
    BY <1>3, FractionType
  <1>5. PICK r \in Int : /\ round2(y) = Whole(r)
                         /\ 2 * (y[1] - r * y[2]) <= y[2] /\ -y[2] <= 2 * (y[1] - r * y[2])
    BY <1>3, RoundIs
  <1>6. compute_balance(s).rate = Whole(r)
    BY <1>2, <1>5 DEF compute_balance, y
  <1>7. 2 * (c - n * r) <= n /\ -n <= 2 * (c - n * r)
    <2> DEFINE f == y[1]
               e == y[2]
               g == 2 * (f - r * e)
    <2>1. f \in Int /\ e \in Nat \ {0} /\ g \in Int /\ g <= e /\ -e <= g /\ f * n = c * e
      BY <1>3, <1>4, <1>5
    <2>2. g * n = (2 * (c - n * r)) * e
      <3> HIDE DEF f, e
      <3>1. g * n = 2 * (f * n) - 2 * ((r * e) * n)
        BY <2>1
      <3>2. (2 * (c - n * r)) * e = 2 * (c * e) - 2 * ((r * e) * n)
        BY <2>1
      <3> QED BY <2>1, <3>1, <3>2
    <2>3. 2 * (c - n * r) \in Int
      OBVIOUS
    <2> DEFINE h == 2 * (c - n * r)
    <2> HIDE DEF f, e, g, h
    <2>4. g * n <= e * n /\ (-e) * n <= g * n
      BY <2>1, ProductOrder
    <2>5. e * n = n * e /\ (-e) * n = (-n) * e
      BY <2>1
    <2>6. h \in Int /\ h * e <= n * e /\ (-n) * e <= h * e
      BY <2>2, <2>3, <2>4, <2>5 DEF h
    <2>7. h <= n /\ -n <= h
      BY <2>1, <2>6, ProductOrder
    <2> QED BY <2>7 DEF h
  <1>8. 2 * (v[1] - (n * r) * v[2]) <= (1 + n) * v[2] /\ -((1 + n) * v[2]) <= 2 * (v[1] - (n * r) * v[2])
    <2> DEFINE a == v[1]
               b == v[2]
               h == 2 * (c - n * r)
               k == n * r
    <2>1. a \in Int /\ b \in Nat \ {0} /\ h \in Int /\ h <= n /\ -n <= h /\ k \in Int /\ h = 2 * (c - k)
      BY <1>1, <1>7
    <2>2. 2 * (a - c * b) <= b /\ -b <= 2 * (a - c * b)
      BY <1>2
    <2> HIDE DEF a, b, h, k
    <2>3. h * b <= n * b /\ (-n) * b <= h * b
      BY <2>1, ProductOrder
    <2>4. 2 * (a - k * b) = 2 * (a - c * b) + h * b
      <3>1. h * b = 2 * (c * b) - 2 * (k * b)
        BY <2>1
      <3>2. c * b \in Int /\ k * b \in Int
        BY <2>1
      <3> QED BY <2>1, <3>1, <3>2
    <2>5. (1 + n) * b = b + n * b /\ (-n) * b = -(n * b) /\ n * b \in Int /\ h * b \in Int /\ c * b \in Int
      BY <2>1
    <2>6. 2 * (a - k * b) <= (1 + n) * b /\ -((1 + n) * b) <= 2 * (a - k * b)
      BY <2>1, <2>2, <2>3, <2>4, <2>5
    <2> QED BY <2>6 DEF a, b, k
  <1> QED BY <1>6, <1>8

\* What stays behind when n units go at the average of n units.
LEMMA RestIs ==
    ASSUME NEW v \in Fractions, NEW n \in Nat \ {0}, NEW r \in Int,
           2 * (v[1] - (n * r) * v[2]) <= (1 + n) * v[2],
           -((1 + n) * v[2]) <= 2 * (v[1] - (n * r) * v[2]),
           NEW x, x = v ++ (Whole(-n) ** Whole(r))
    PROVE  x \in Fractions /\ 2 * Abs(x[1]) <= (1 + n) * x[2]
  <1> DEFINE m == -(n * r)
             w == Whole(m)
  <1>1. m \in Int /\ -n \in Int /\ (-n) * r = m
    OBVIOUS
  <1>2. x = v ++ w /\ w \in Fractions
    BY <1>1, WholeTimes, WholeType
  <1>3. w[1] = m /\ w[2] = 1
    BY DEF Whole
  <1> HIDE DEF m, w
  <1>4. x \in Fractions /\ x[1] * (v[2] * w[2]) = (v[1] * w[2] + w[1] * v[2]) * x[2]
    BY <1>2, PlusIs
  <1> DEFINE a == v[1]
             b == v[2]
             f == x[1]
             e == x[2]
             g == 2 * (a + m * b)
             N == 1 + n
  <1>5. a \in Int /\ b \in Nat \ {0} /\ f \in Int /\ e \in Nat \ {0}
    BY <1>4, FractionType
  <1>6. f * b = (a + m * b) * e
    BY <1>1, <1>3, <1>4, <1>5
  <1>7. g \in Int /\ g <= N * b /\ -(N * b) <= g /\ N \in Nat
    <2>1. (n * r) * b = -(m * b)
      BY <1>5 DEF m
    <2> QED BY <1>1, <1>5, <2>1
  <1>8. (2 * f) * b = g * e
    <2> DEFINE h == a + m * b
    <2>1. h \in Int /\ g = 2 * h
      BY <1>1, <1>5
    <2> HIDE DEF h, a, b, f, e
    <2>2. f * b = h * e
      BY <1>6 DEF h, a, b, f, e
    <2> HIDE DEF g
    <2>3. (2 * f) * b = 2 * (f * b) /\ (2 * h) * e = 2 * (h * e)
      BY <1>5, <2>1
    <2> QED BY <2>1, <2>2, <2>3
  <1> HIDE DEF a, b, f, e, g, N
  <1>9. g * e <= (N * b) * e /\ (-(N * b)) * e <= g * e
    <2>1. N * b \in Int /\ -(N * b) \in Int
      BY <1>5, <1>7
    <2> QED BY <1>5, <1>7, <2>1, ProductOrder
  <1>10. (N * b) * e = (N * e) * b /\ (-(N * b)) * e = (-(N * e)) * b
    BY <1>5, <1>7
  <1>11. 2 * f <= N * e /\ -(N * e) <= 2 * f
    <2>1. N * e \in Int /\ -(N * e) \in Int /\ 2 * f \in Int
      BY <1>5, <1>7
    <2> QED BY <1>5, <1>8, <1>9, <1>10, <2>1, ProductOrder
  <1>12. 2 * Abs(f) <= N * e
    <2>1. N * e \in Int
      BY <1>5, <1>7
    <2> DEFINE z == N * e
    <2> HIDE DEF z
    <2>2. z \in Int /\ 2 * f <= z /\ -z <= 2 * f
      BY <1>11, <2>1 DEF z
    <2>3. 2 * Abs(f) <= z
      BY <1>5, <2>2 DEF Abs
    <2> QED BY <2>3 DEF z
  <1> QED BY <1>4, <1>12 DEF f, e, N

\* CostInv bounds the residual of the moving average.
LEMMA DrainImplies == LedgerTypeOK /\ CostInv => DrainResidualBounded
  <1> SUFFICES ASSUME LedgerTypeOK, CostInv, NEW k \in Issues(FALSE),
                      Quantity(Append(Before(k), sles[k])) = 0
               PROVE  LET rest == SumOver(Append(Before(k), sles[k]), Value)
                      IN  2 * Abs(rest[1]) <= (1 - sles[k].qty) * rest[2]
    BY DEF DrainResidualBounded
  <1> DEFINE s == Before(k)
             r == sles[k]
             n == -r.qty
             v == SumOver(s, Value)
             x == SumOver(Append(s, r), Value)
  <1>1. /\ r \in Sles /\ r.qty \in Int /\ r.qty < 0 /\ s = Prior(sles, k) /\ s \in Seq(Sles)
        /\ r.rate = CostOfIssue(sles, k)
    BY IssuesCost DEF LedgerTypeOK
  <1>2. s \in Seq(StockRows) /\ r \in StockRows
    BY <1>1, SubRows DEF StockRows
  <1>3. load_items(r.item).valuation_method # FIFO
    BY DEF Issues
  <1>4. r.rate = compute_balance(s).rate
    BY <1>1, <1>3 DEF CostOfIssue, issue_rate
  <1> HIDE DEF s, r
  <1>5. /\ Quantity(s) \in Int /\ Quantity(Append(s, r)) = Quantity(s) + r.qty
        /\ v \in Fractions /\ x = v ++ Value(r)
    BY <1>2, OneMoreRow
  <1>6. n \in Nat \ {0} /\ Quantity(s) = n /\ r.qty = -n
    BY <1>1, <1>5 DEF s, r
  <1> HIDE DEF n, v, x
  <1>7. PICK c \in Int : /\ compute_balance(s).rate = Whole(c)
                         /\ 2 * (v[1] - (n * c) * v[2]) <= (1 + n) * v[2]
                         /\ -((1 + n) * v[2]) <= 2 * (v[1] - (n * c) * v[2])
    BY <1>2, <1>6, AverageIs DEF v
  <1>8. Value(r) = Whole(-n) ** Whole(c)
    BY <1>4, <1>6, <1>7 DEF Value
  <1>9. x = v ++ (Whole(-n) ** Whole(c))
    BY <1>5, <1>8
  <1>10. 2 * Abs(x[1]) <= (1 + n) * x[2]
    BY <1>5, <1>6, <1>7, <1>9, RestIs
  <1>11. 1 - r.qty = 1 + n
    BY <1>1, <1>6
  <1> QED BY <1>10, <1>11 DEF s, r, x

-----------------------------------------------------------------------------
(* FIFO, unit by unit.                                                     *)

\* The rates of q units at x, and of the units of some layers.
Run(q, x) == [u \in 1..q |-> x]
FullLayers == {l \in Layers : l.qty > 0}
RunOf == [l \in FullLayers |-> Run(l.qty, l.rate)]
Flat(layers) == Concat(MapF(layers, RunOf))

\* A run of units at one rate.
LEMMA RunType ==
    ASSUME NEW q \in Nat, NEW x \in Fractions
    PROVE  Run(q, x) \in Seq(Fractions) /\ Len(Run(q, x)) = q /\ \A j \in 1..q : Run(q, x)[j] = x
  BY DEF Run

\* What a run of units is worth.
LEMMA RunSum ==
    ASSUME NEW q \in Nat, NEW x \in Fractions PROVE FracSum(Run(q, x)) = Whole(q) ** x
  <1> DEFINE P == {i \in 0..q : FracSum(Run(i, x)) = Whole(i) ** x}
  <1>1. 0 \in P
    <2>1. Run(0, x) = <<>>
      BY DEF Run
    <2>2. Whole(0) ** x = Zero
      BY TimesZero DEF Zero
    <2> QED BY <2>1, <2>2, FracSumEmpty
  <1>2. ASSUME NEW i \in 1..q, i - 1 \in P PROVE i \in P
    <2>1. Run(i - 1, x) \in Seq(Fractions) /\ Run(i, x) = Append(Run(i - 1, x), x)
      BY DEF Run
    <2>2. FracSum(Run(i, x)) = FracSum(Run(i - 1, x)) ++ x
      BY <2>1, FracSumAppend
    <2>3. FracSum(Run(i - 1, x)) = Whole(i - 1) ** x
      BY <1>2
    <2> DEFINE a == i - 1
    <2>4. a \in Int /\ a + 1 = i /\ 1 \in Int
      OBVIOUS
    <2> HIDE DEF a
    <2>5. Whole(i) = Whole(a) ++ Whole(1)
      BY <2>4, WholePlus
    <2>6. Whole(a) \in Fractions /\ Whole(1) \in Fractions
      BY <2>4, WholeType
    <2>7. Whole(i) ** x = (Whole(a) ** x) ++ (Whole(1) ** x)
      BY <2>5, <2>6, TimesPlus
    <2>8. Whole(1) ** x = x
      <3>1. Whole(1) ** x = x ** Whole(1)
        <4>1. x[1] \in Int /\ x[2] \in Int
          BY FractionType
        <4>2. 1 * x[1] = x[1] * 1 /\ 1 * x[2] = x[2] * 1
          BY <4>1
        <4> QED BY <4>2 DEF **, Whole
      <3> QED BY <3>1, TimesOne
    <2>9. FracSum(Run(i, x)) = Whole(i) ** x
      BY <2>2, <2>3, <2>7, <2>8 DEF a
    <2> QED BY <2>9
  <1> HIDE DEF P
  <1>3. 0..q \subseteq P
    BY <1>1, <1>2, UpTo
  <1>4. q \in P
    BY <1>3
  <1> QED BY <1>4 DEF P

\* The fields of a layer.
LEMMA LayerFields ==
    ASSUME NEW l \in FullLayers
    PROVE  l \in Layers /\ l.qty \in Nat \ {0} /\ l.rate \in Fractions
  BY DEF FullLayers, Layers

\* The units of a layer.
LEMMA RunOfType == RunOf \in [FullLayers -> Seq(Fractions)]
  <1>1. \A l \in FullLayers : Run(l.qty, l.rate) \in Seq(Fractions)
    BY LayerFields, RunType
  <1> QED BY <1>1 DEF RunOf

\* No layers, no units.
LEMMA FlatEmpty == Flat(<<>>) = <<>>
  <1>1. MapF(<<>>, RunOf) = <<>>
    BY DEF MapF
  <1> QED BY <1>1, ConcatEmpty DEF Flat

\* The units of one more layer come last.
LEMMA FlatAppend ==
    ASSUME NEW ls \in Seq(FullLayers), NEW l \in FullLayers
    PROVE  /\ Flat(ls) \in Seq(Fractions)
           /\ Flat(Append(ls, l)) = Flat(ls) \o Run(l.qty, l.rate)
  <1> DEFINE a == MapF(ls, RunOf)
             y == RunOf[l]
  <1>1. a \in Seq(Seq(Fractions)) /\ y \in Seq(Fractions)
    BY RunOfType, MapType
  <1>2. MapF(Append(ls, l), RunOf) = Append(a, y)
    BY DEF MapF
  <1>3. y = Run(l.qty, l.rate)
    BY DEF RunOf
  <1> HIDE DEF a, y
  <1>4. Concat(Append(a, y)) = Concat(a) \o y /\ Concat(a) \in Seq(Fractions)
    BY <1>1, ConcatAppend, ConcatType
  <1> QED BY <1>2, <1>3, <1>4 DEF Flat, a

\* The units of layers.
LEMMA FlatType == ASSUME NEW ls \in Seq(FullLayers) PROVE Flat(ls) \in Seq(Fractions)
  <1>1. MapF(ls, RunOf) \in Seq(Seq(Fractions))
    BY RunOfType, MapType
  <1> QED BY <1>1, ConcatType DEF Flat

\* The first m units of F have been taken and cost what they cost.
FirstOf(F, m) == [j \in 1..m |-> F[j]]
Took(a, F, n, m) ==
    /\ m = IF n <= Len(F) THEN n ELSE Len(F)
    /\ a.need = n - m /\ a.cost = FracSum(FirstOf(F, m))
    /\ a.left \in Seq(FullLayers) /\ Len(Flat(a.left)) = Len(F) - m
    /\ \A j \in 1..(Len(F) - m) : Flat(a.left)[j] = F[m + j]

\* A layer without t of its units.
Remainder(l, t) == [l EXCEPT !.qty = @ - t]

\* How many units are taken from a layer.
FromLayer(a, l) == IF l.qty <= a.need THEN l.qty ELSE a.need

\* What taking from a layer leaves.
LEMMA TakeFields ==
    ASSUME NEW a, NEW l
    PROVE  /\ TakeLayer(a, l).need = a.need - FromLayer(a, l)
           /\ TakeLayer(a, l).cost = a.cost ++ (Whole(FromLayer(a, l)) ** l.rate)
           /\ TakeLayer(a, l).left = IF l.qty = FromLayer(a, l) THEN a.left
                                     ELSE Append(a.left, Remainder(l, FromLayer(a, l)))
  BY DEF TakeLayer, Remainder, FromLayer

\* The first units.
LEMMA FirstOfType ==
    ASSUME NEW F \in Seq(Fractions), NEW m \in 0..Len(F)
    PROVE  FirstOf(F, m) \in Seq(Fractions) /\ Len(FirstOf(F, m)) = m /\ \A j \in 1..m : FirstOf(F, m)[j] = F[j]
  BY DEF FirstOf

\* What is known of the parts that a step of taking puts together.
Parts(a, F, n, m, l, G, b) ==
    /\ a.need \in Int /\ a.cost \in Fractions /\ F \in Seq(Fractions) /\ n \in Nat /\ Took(a, F, n, m)
    /\ l \in FullLayers /\ G = F \o Run(l.qty, l.rate) /\ b = TakeLayer(a, l)

Layered(F, m, l, G) ==
    /\ m \in 0..Len(F) /\ l.qty \in Nat \ {0} /\ l.rate \in Fractions /\ Len(F) \in Nat
    /\ G \in Seq(Fractions) /\ Len(G) = Len(F) + l.qty
    /\ \A j \in 1..Len(F) : G[j] = F[j]
    /\ \A j \in 1..l.qty : G[Len(F) + j] = l.rate

\* The units of the layer come after those before it.
LEMMA PartsFacts ==
    ASSUME NEW a, NEW F, NEW n, NEW m, NEW l, NEW G, NEW b, Parts(a, F, n, m, l, G, b)
    PROVE  Layered(F, m, l, G)
  <1> DEFINE R == Run(l.qty, l.rate)
  <1>1. F \in Seq(Fractions) /\ n \in Nat /\ G = F \o R /\ l.qty \in Nat \ {0} /\ l.rate \in Fractions
    BY LayerFields DEF Parts
  <1>2. R \in Seq(Fractions) /\ Len(R) = l.qty /\ \A j \in 1..l.qty : R[j] = l.rate
    BY <1>1, RunType
  <1>3. m = IF n <= Len(F) THEN n ELSE Len(F)
    BY DEF Parts, Took
  <1>4. Len(F) \in Nat
    BY <1>1
  <1>5. m \in 0..Len(F)
    BY <1>1, <1>3, <1>4
  <1> HIDE DEF R
  <1>6. /\ G \in Seq(Fractions) /\ Len(G) = Len(F) + Len(R)
        /\ \A j \in 1..(Len(F) + Len(R)) : G[j] = IF j <= Len(F) THEN F[j] ELSE R[j - Len(F)]
    BY <1>1, <1>2, ConcatIs
  <1>7. \A j \in 1..Len(F) : G[j] = F[j]
    BY <1>1, <1>2, <1>4, <1>6
  <1>8. ASSUME NEW j \in 1..l.qty PROVE G[Len(F) + j] = l.rate
    <2>1. Len(F) + j \in 1..(Len(F) + Len(R)) /\ ~(Len(F) + j <= Len(F)) /\ (Len(F) + j) - Len(F) = j
      BY <1>1, <1>2, <1>4
    <2> QED BY <1>2, <1>6, <2>1
  <1> QED BY <1>1, <1>2, <1>4, <1>5, <1>6, <1>7, <1>8 DEF Layered

\* Nothing was needed any more: the layer stays.
LEMMA TakeNothing ==
    ASSUME NEW a, NEW F, NEW n, NEW m, NEW l, NEW G, NEW b, Parts(a, F, n, m, l, G, b), n <= Len(F)
    PROVE  Took(b, G, n, n)
  <1> DEFINE L == Len(F)
             q == l.qty
             H == Flat(a.left)
  <1>1. /\ m \in 0..L /\ q \in Nat \ {0} /\ l.rate \in Fractions /\ L \in Nat /\ G \in Seq(Fractions)
        /\ Len(G) = L + q /\ \A j \in 1..L : G[j] = F[j]
        /\ \A j \in 1..q : G[L + j] = l.rate
    <2>1. Layered(F, m, l, G)
      BY PartsFacts
    <2> QED BY <2>1 DEF Layered
  <1>2. /\ n \in Nat /\ m = n /\ a.need = 0 /\ a.cost = FracSum(FirstOf(F, n)) /\ a.cost \in Fractions
        /\ a.left \in Seq(FullLayers) /\ Len(H) = L - n /\ b = TakeLayer(a, l) /\ l \in FullLayers
        /\ \A j \in 1..(L - n) : H[j] = F[n + j]
    BY <1>1 DEF Parts, Took
  <1>3. FromLayer(a, l) = 0 /\ ~(l.qty = 0)
    BY <1>1, <1>2 DEF FromLayer
  <1>4. /\ b.need = 0 - 0 /\ b.cost = a.cost ++ (Whole(0) ** l.rate)
        /\ b.left = Append(a.left, Remainder(l, 0))
    BY <1>2, <1>3, TakeFields
  <1>5. Remainder(l, 0) = l
    BY <1>1, <1>2 DEF Remainder, FullLayers, Layers
  <1>6. b.left = Append(a.left, l) /\ b.left \in Seq(FullLayers)
    BY <1>2, <1>4, <1>5
  <1>7. b.cost = a.cost
    <2>1. Whole(0) ** l.rate = Zero
      BY <1>1, TimesZero DEF Zero
    <2> QED BY <1>2, <1>4, <2>1, PlusZero
  <1>8. FirstOf(G, n) = FirstOf(F, n)
    <2>1. \A j \in 1..n : j \in 1..L
      BY <1>1, <1>2
    <2>2. \A j \in 1..n : G[j] = F[j]
      BY <1>1, <2>1
    <2> QED BY <2>2 DEF FirstOf
  <1>9. Flat(b.left) = H \o Run(q, l.rate) /\ H \in Seq(Fractions)
    BY <1>2, <1>6, FlatAppend
  <1> DEFINE J == Flat(b.left)
             R == Run(q, l.rate)
             e == L - n
  <1>10. R \in Seq(Fractions) /\ Len(R) = q /\ \A j \in 1..q : R[j] = l.rate
    BY <1>1, RunType
  <1>11. J = H \o R /\ H \in Seq(Fractions) /\ Len(H) = e
    BY <1>2, <1>9
  <1>12. e \in Nat /\ L = n + e /\ Len(G) - n = e + q /\ \A j \in 1..e : H[j] = F[n + j]
    <2> HIDE DEF L, H, q
    <2>1. e \in Nat /\ L = n + e /\ Len(G) - n = e + q
      BY <1>1, <1>2 DEF L
    <2>2. \A j \in 1..e : H[j] = F[n + j]
      BY <1>2
    <2> QED BY <2>1, <2>2
  <1> HIDE DEF J, H, R, e
  <1>13. /\ Len(J) = e + q
         /\ \A j \in 1..(e + q) : J[j] = IF j <= e THEN H[j] ELSE R[j - e]
    <2>1. /\ Len(J) = Len(H) + Len(R)
          /\ \A j \in 1..(Len(H) + Len(R)) : J[j] = IF j <= Len(H) THEN H[j] ELSE R[j - Len(H)]
      BY <1>10, <1>11, ConcatIs
    <2> QED BY <1>10, <1>11, <2>1
  <1>14. ASSUME NEW j \in 1..(Len(G) - n) PROVE J[j] = G[n + j]
    <2>1. j \in 1..(e + q)
      BY <1>12
    <2>2. CASE j <= e
      <3>1. j \in 1..e /\ n + j \in 1..L
        BY <1>2, <1>12, <2>1, <2>2
      <3>2. J[j] = H[j] /\ H[j] = F[n + j]
        BY <1>12, <1>13, <2>1, <2>2, <3>1
      <3>3. G[n + j] = F[n + j]
        BY <1>1, <3>1
      <3> QED BY <3>2, <3>3
    <2>3. CASE ~(j <= e)
      <3> DEFINE h == j - e
      <3>1. h \in 1..q /\ L + h = n + j
        BY <1>1, <1>2, <1>12, <2>1, <2>3
      <3>2. J[j] = R[h] /\ R[h] = l.rate
        BY <1>10, <1>13, <2>1, <2>3, <3>1
      <3> HIDE DEF h
      <3>3. G[L + h] = l.rate
        BY <1>1, <3>1
      <3> QED BY <3>1, <3>2, <3>3
    <2> QED BY <2>2, <2>3
  <1>15. Len(J) = Len(G) - n /\ n <= Len(G)
    BY <1>1, <1>2, <1>12, <1>13
  <1>16. b.need = n - n
    BY <1>2, <1>4
  <1> QED BY <1>2, <1>6, <1>7, <1>8, <1>14, <1>15, <1>16 DEF Took, J

\* When more is needed nothing is left of the layers before.
LEMMA AllTaken ==
    ASSUME NEW a, NEW F, NEW n, NEW m, NEW l, NEW G, NEW b, Parts(a, F, n, m, l, G, b), ~(n <= Len(F))
    PROVE  /\ a.need = n - Len(F) /\ a.cost = FracSum(F) /\ a.left \in Seq(FullLayers) /\ Flat(a.left) = <<>>
           /\ n \in Nat /\ n > Len(F)
  <1> DEFINE L == Len(F)
             H == Flat(a.left)
  <1>1. L \in Nat /\ n \in Nat /\ F \in Seq(Fractions)
    <2>1. Layered(F, m, l, G)
      BY PartsFacts
    <2> QED BY <2>1 DEF Layered, Parts
  <1>2. m = L /\ a.need = n - L /\ a.cost = FracSum(FirstOf(F, L)) /\ a.left \in Seq(FullLayers)
          /\ Len(H) = L - L
    BY DEF Parts, Took
  <1>3. FirstOf(F, L) = F
    BY <1>1 DEF FirstOf
  <1>4. H \in Seq(Fractions)
    BY <1>2, FlatType
  <1> HIDE DEF H
  <1>5. H = <<>>
    BY <1>1, <1>2, <1>4
  <1> QED BY <1>1, <1>2, <1>3, <1>5 DEF H

\* The whole layer is needed.
LEMMA TakeAll ==
    ASSUME NEW a, NEW F, NEW n, NEW m, NEW l, NEW G, NEW b, Parts(a, F, n, m, l, G, b), ~(n <= Len(F)),
           l.qty <= n - Len(F)
    PROVE  Took(b, G, n, Len(G))
  <1> DEFINE L == Len(F)
             q == l.qty
             R == Run(q, l.rate)
  <1>1. /\ q \in Nat \ {0} /\ l.rate \in Fractions /\ L \in Nat /\ G \in Seq(Fractions) /\ Len(G) = L + q
    <2>1. Layered(F, m, l, G)
      BY PartsFacts
    <2> QED BY <2>1 DEF Layered
  <1>2. /\ a.need = n - L /\ a.cost = FracSum(F) /\ a.left \in Seq(FullLayers) /\ Flat(a.left) = <<>>
        /\ n \in Nat /\ n > L
    BY AllTaken
  <1>3. F \in Seq(Fractions) /\ G = F \o R /\ b = TakeLayer(a, l)
    BY DEF Parts
  <1>4. FromLayer(a, l) = q
    BY <1>2 DEF FromLayer
  <1>5. b.need = a.need - q /\ b.cost = a.cost ++ (Whole(q) ** l.rate) /\ b.left = a.left
    BY <1>3, <1>4, TakeFields
  <1>6. R \in Seq(Fractions) /\ FracSum(R) = Whole(q) ** l.rate
    BY <1>1, RunType, RunSum
  <1>7. b.cost = FracSum(G)
    <2> HIDE DEF R
    <2> QED BY <1>2, <1>3, <1>5, <1>6, FracSumConcat
  <1>8. FirstOf(G, Len(G)) = G
    BY <1>1 DEF FirstOf
  <1>9. Len(Flat(b.left)) = Len(G) - Len(G)
    BY <1>1, <1>2, <1>5
  <1>10. Len(G) = IF n <= Len(G) THEN n ELSE Len(G)
    BY <1>1, <1>2
  <1>11. b.need = n - Len(G)
    BY <1>1, <1>2, <1>5
  <1>12. \A j \in 1..(Len(G) - Len(G)) : FALSE
    BY <1>1
  <1> QED BY <1>2, <1>5, <1>7, <1>8, <1>9, <1>10, <1>11, <1>12 DEF Took

\* Part of the layer is needed.
LEMMA TakePart ==
    ASSUME NEW a, NEW F, NEW n, NEW m, NEW l, NEW G, NEW b, Parts(a, F, n, m, l, G, b), ~(n <= Len(F)),
           ~(l.qty <= n - Len(F))
    PROVE  Took(b, G, n, n)
  <1> DEFINE L == Len(F)
             q == l.qty
             t == n - L
             x == l.rate
             k == Remainder(l, t)
             R == Run(t, x)
             S == Run(q - t, x)
  <1>1. /\ q \in Nat \ {0} /\ x \in Fractions /\ L \in Nat /\ G \in Seq(Fractions) /\ Len(G) = L + q
        /\ \A j \in 1..L : G[j] = F[j]
        /\ \A j \in 1..q : G[L + j] = x
    <2>1. Layered(F, m, l, G)
      BY PartsFacts
    <2> QED BY <2>1 DEF Layered
  <1>2. /\ a.need = t /\ a.cost = FracSum(F) /\ a.left \in Seq(FullLayers) /\ Flat(a.left) = <<>>
        /\ n \in Nat /\ n > L
    BY AllTaken
  <1>3. F \in Seq(Fractions) /\ b = TakeLayer(a, l) /\ l \in FullLayers
    BY DEF Parts
  <1>4. FromLayer(a, l) = t
    BY <1>2 DEF FromLayer
  <1>5. t \in Nat \ {0} /\ t < q /\ q - t \in Nat \ {0} /\ ~(l.qty = t)
    BY <1>1, <1>2
  <1>6. b.need = a.need - t /\ b.cost = a.cost ++ (Whole(t) ** x) /\ b.left = Append(a.left, k)
    <2> HIDE DEF t
    <2> QED BY <1>3, <1>4, <1>5, TakeFields
  <1>7. k \in FullLayers /\ k.qty = q - t /\ k.rate = x
    BY <1>3, <1>5 DEF Remainder, FullLayers, Layers
  <1>8. Flat(b.left) = Flat(a.left) \o S
    <2> HIDE DEF k
    <2> QED BY <1>2, <1>6, <1>7, FlatAppend
  <1>9. S \in Seq(Fractions) /\ Len(S) = q - t /\ \A j \in 1..(q - t) : S[j] = x
    BY <1>1, <1>5, RunType
  <1>10. R \in Seq(Fractions) /\ Len(R) = t /\ FracSum(R) = Whole(t) ** x /\ \A j \in 1..t : R[j] = x
    BY <1>1, <1>5, RunType, RunSum
  <1>11. Flat(b.left) = S
    <2> HIDE DEF S
    <2> QED BY <1>2, <1>8, <1>9
  <1>12. b.cost = FracSum(F \o R)
    <2> HIDE DEF R, t
    <2> QED BY <1>2, <1>3, <1>6, <1>10, FracSumConcat
  <1>13. F \o R = FirstOf(G, n)
    <2> DEFINE y == F \o R
               z == FirstOf(G, n)
    <2>1. n \in 0..Len(G)
      BY <1>1, <1>2, <1>5
    <2>2. z \in Seq(Fractions) /\ Len(z) = n /\ \A j \in 1..n : z[j] = G[j]
      BY <1>1, <2>1, FirstOfType
    <2>3. Len(F) + Len(R) = n
      <3>1. Len(R) = n - L /\ L \in Nat /\ n \in Nat
        BY <1>1, <1>2, <1>10
      <3> HIDE DEF R
      <3> QED BY <3>1
    <2>4. y \in Seq(Fractions) /\ Len(y) = n /\ \A j \in 1..n : y[j] = IF j <= L THEN F[j] ELSE R[j - L]
      <3> HIDE DEF R
      <3>1. /\ y \in Seq(Fractions) /\ Len(y) = Len(F) + Len(R)
            /\ \A j \in 1..(Len(F) + Len(R)) : y[j] = IF j <= L THEN F[j] ELSE R[j - L]
        BY <1>3, <1>10, ConcatIs
      <3> QED BY <2>3, <3>1
    <2>5. ASSUME NEW j \in 1..n PROVE y[j] = z[j]
      <3>1. CASE j <= L
        <4>1. j \in 1..L
          BY <1>1, <3>1
        <4> QED BY <1>1, <2>2, <2>4, <3>1, <4>1
      <3>2. CASE ~(j <= L)
        <4>1. j - L \in 1..t /\ j - L \in 1..q /\ L + (j - L) = j
          BY <1>1, <1>2, <1>5, <3>2
        <4> QED BY <1>1, <1>10, <2>2, <2>4, <3>2, <4>1
      <3> QED BY <3>1, <3>2
    <2> HIDE DEF y, z
    <2>6. y = z
      BY <2>2, <2>4, <2>5
    <2> QED BY <2>6 DEF y, z
  <1>14. b.left \in Seq(FullLayers)
    BY <1>2, <1>6, <1>7
  <1>15. Len(G) - n = q - t /\ n <= Len(G) /\ b.need = n - n
    BY <1>1, <1>2, <1>5, <1>6
  <1>16. ASSUME NEW j \in 1..(Len(G) - n) PROVE S[j] = G[n + j]
    <2>1. j \in 1..(q - t) /\ t + j \in 1..q /\ L + (t + j) = n + j
      <3>1. j \in 1..(q - t) /\ q \in Nat /\ t \in Nat /\ L \in Nat /\ n = L + t
        BY <1>1, <1>2, <1>5, <1>15
      <3> HIDE DEF q, t, L
      <3> QED BY <3>1
    <2> DEFINE h == t + j
    <2>2. h \in 1..q /\ L + h = n + j /\ S[j] = x
      BY <1>9, <2>1
    <2> HIDE DEF h, S, t
    <2>3. G[L + h] = x
      BY <1>1, <2>2
    <2> QED BY <2>2, <2>3
  <1> QED BY <1>9, <1>11, <1>12, <1>13, <1>14, <1>15, <1>16 DEF Took

\* Taking from the next layer takes the oldest units of all.
LEMMA TakeStep ==
    ASSUME NEW a, NEW F, NEW n, NEW m, NEW l, NEW G, NEW b, Parts(a, F, n, m, l, G, b)
    PROVE  \E k : Took(b, G, n, k)
  BY TakeNothing, TakeAll, TakePart

\* Taking n units takes the first n, or all there are.
LEMMA TakeOldestIs ==
    ASSUME NEW ls \in Seq(FullLayers), NEW n \in Nat
    PROVE  \E m : Took(TakeOldest(ls, n), Flat(ls), n, m)
  <1> DEFINE k == Len(ls)
             F(i) == Flat(SubSeq(ls, 1, i))
  <1>1. ls \in Seq(Layers) /\ k \in Nat
    <2>1. FullLayers \subseteq Layers
      BY DEF FullLayers
    <2> QED BY <2>1
  <1>2. PICK f \in [0..k -> Taken] : /\ TakeOldest(ls, n) = f[k] /\ f[0] = NothingTaken(n)
                                     /\ \A i \in 1..k : f[i] = TakeLayer(f[i - 1], ls[i])
    <2>1. n \in Int
      OBVIOUS
    <2>2. \E f \in [0..Len(ls) -> Taken] :
             /\ TakeOldest(ls, n) = f[Len(ls)] /\ f[0] = NothingTaken(n)
             /\ \A i \in 1..Len(ls) : f[i] = TakeLayer(f[i - 1], ls[i])
      BY <1>1, <2>1, TakeOldestFcn
    <2> QED BY <2>2
  <1> DEFINE P == {i \in 0..k : \E m : Took(f[i], F(i), n, m)}
  <1>3. 0 \in P
    <2>1. SubSeq(ls, 1, 0) = <<>> /\ FirstOf(<<>>, 0) = <<>> /\ Len(<<>>) = 0 /\ <<>> \in Seq(FullLayers)
      BY DEF FirstOf
    <2>2. F(0) = <<>>
      BY <2>1, FlatEmpty
    <2>3. f[0].need = n /\ f[0].cost = Zero /\ f[0].left = <<>>
      BY <1>2 DEF NothingTaken
    <2>4. Took(f[0], <<>>, n, 0)
      BY <2>1, <2>3, FlatEmpty, FracSumEmpty DEF Took
    <2> QED BY <1>1, <2>2, <2>4
  <1>4. ASSUME NEW i \in 1..k, i - 1 \in P PROVE i \in P
    <2> DEFINE u == SubSeq(ls, 1, i - 1)
               l == ls[i]
               a == f[i - 1]
               b == f[i]
    <2>1. /\ u \in Seq(FullLayers) /\ l \in FullLayers /\ SubSeq(ls, 1, i) = Append(u, l)
      OBVIOUS
    <2>2. i - 1 \in 0..k /\ i \in 0..k
      BY <1>1
    <2>3. a \in Taken /\ b = TakeLayer(a, l)
      BY <1>2, <2>2
    <2>4. PICK m : Took(a, Flat(u), n, m)
      BY <1>4
    <2> HIDE DEF u, l, a, b
    <2>5. Flat(u) \in Seq(Fractions) /\ Flat(Append(u, l)) = Flat(u) \o Run(l.qty, l.rate)
      BY <2>1, FlatAppend
    <2>6. a.need \in Int /\ a.cost \in Fractions
      BY <2>3 DEF Taken
    <2>7. Parts(a, Flat(u), n, m, l, Flat(Append(u, l)), b)
      BY <2>1, <2>3, <2>4, <2>5, <2>6 DEF Parts
    <2>8. \E h : Took(b, Flat(Append(u, l)), n, h)
      BY <2>7, TakeStep
    <2> QED BY <2>1, <2>2, <2>8 DEF b
  <1> HIDE DEF P, k
  <1>5. 0..k \subseteq P
    BY <1>1, <1>3, <1>4, UpTo
  <1>6. k \in P
    BY <1>1, <1>5
  <1>7. SubSeq(ls, 1, k) = ls
    BY DEF k
  <1> QED BY <1>2, <1>6, <1>7 DEF P

\* The rates of the units that some rows received.
Inward == {r \in StockRows : r.qty > 0}
InwardRun == [r \in Inward |-> Run(r.qty, r.rate)]
Received(rows) == Concat(MapF(Keep(rows, Inward), InwardRun))

\* Nothing received.
LEMMA ReceivedEmpty == Received(<<>>) = <<>>
  <1>1. MapF(<<>>, InwardRun) = <<>>
    BY DEF MapF
  <1> QED BY <1>1, KeepEmpty, ConcatEmpty DEF Received

\* One more row is received at its rate, or is no receipt.
LEMMA ReceivedAppend ==
    ASSUME NEW rows \in Seq(StockRows), NEW r \in StockRows
    PROVE  /\ Received(rows) \in Seq(Fractions)
           /\ Received(Append(rows, r)) = IF r.qty > 0 THEN Received(rows) \o Run(r.qty, r.rate)
                                          ELSE Received(rows)
  <1> DEFINE k == Keep(rows, Inward)
             a == MapF(k, InwardRun)
             y == InwardRun[r]
  <1>1. InwardRun \in [Inward -> Seq(Fractions)]
    <2>1. ASSUME NEW x \in Inward PROVE Run(x.qty, x.rate) \in Seq(Fractions)
      <3>1. x.qty \in Nat /\ x.rate \in Fractions
        BY StockRowType DEF Inward
      <3> QED BY <3>1, RunType
    <2> QED BY <2>1 DEF InwardRun
  <1>2. k \in Seq(Inward)
    <2>1. k \in Seq(StockRows) /\ \A i \in 1..Len(k) : k[i] \in Inward
      BY KeepIn
    <2> HIDE DEF k
    <2> QED BY <2>1
  <1>3. Keep(Append(rows, r), Inward) = IF r \in Inward THEN Append(k, r) ELSE k
    BY KeepAppend
  <1> HIDE DEF k
  <1>4. a \in Seq(Seq(Fractions))
    BY <1>1, <1>2, MapType
  <1>5. Concat(a) \in Seq(Fractions) /\ Received(rows) = Concat(a)
    BY <1>4, ConcatType DEF Received, k
  <1>6. CASE r.qty > 0
    <2>1. r \in Inward /\ y = Run(r.qty, r.rate)
      BY <1>6 DEF Inward, InwardRun
    <2>2. MapF(Append(k, r), InwardRun) = Append(a, y)
      BY <1>2, <2>1 DEF MapF
    <2>3. y \in Seq(Fractions)
      BY <1>1, <2>1
    <2> HIDE DEF a, y
    <2>4. Concat(Append(a, y)) = Concat(a) \o y
      BY <1>4, <2>3, ConcatAppend
    <2> QED BY <1>3, <1>5, <1>6, <2>1, <2>2, <2>4 DEF Received
  <1>7. CASE ~(r.qty > 0)
    <2>1. Keep(Append(rows, r), Inward) = k
      BY <1>3, <1>7 DEF Inward
    <2> QED BY <1>5, <1>7, <2>1 DEF Received
  <1> QED BY <1>6, <1>7

\* F is the last q of the units U.
Suffix(F, U, q) == Len(F) = q /\ q <= Len(U) /\ \A j \in 1..q : F[j] = U[(Len(U) - q) + j]

\* A receipt adds its units.
LEMMA ReplayIn ==
    ASSUME NEW ls \in Seq(FullLayers), NEW U \in Seq(Fractions), NEW q \in Nat, Suffix(Flat(ls), U, q),
           NEW r \in StockRows, r.qty > 0
    PROVE  /\ ReplayRow(ls, r) \in Seq(FullLayers)
           /\ Suffix(Flat(ReplayRow(ls, r)), U \o Run(r.qty, r.rate), q + r.qty)
  <1> DEFINE l == [qty |-> r.qty, rate |-> r.rate]
             F == Flat(ls)
             R == Run(r.qty, r.rate)
             G == F \o R
             V == U \o R
             c == r.qty
             L == Len(U)
  <1>1. c \in Nat \ {0} /\ r.rate \in Fractions
    BY StockRowType
  <1>2. l \in FullLayers /\ l.qty = r.qty /\ l.rate = r.rate
    BY <1>1 DEF FullLayers, Layers
  <1>3. ReplayRow(ls, r) = Append(ls, l)
    BY DEF ReplayRow
  <1>4. F \in Seq(Fractions) /\ Flat(Append(ls, l)) = G
    <2> HIDE DEF l
    <2> QED BY <1>2, FlatAppend
  <1>5. R \in Seq(Fractions) /\ Len(R) = c
    BY <1>1, RunType
  <1>6. Len(F) = q /\ q <= L /\ L \in Nat /\ \A j \in 1..q : F[j] = U[(L - q) + j]
    BY DEF Suffix
  <1> HIDE DEF F, R, c
  <1>7. /\ Len(G) = q + c
        /\ \A j \in 1..(q + c) : G[j] = IF j <= q THEN F[j] ELSE R[j - q]
    <2>1. /\ Len(G) = Len(F) + Len(R)
          /\ \A j \in 1..(Len(F) + Len(R)) : G[j] = IF j <= Len(F) THEN F[j] ELSE R[j - Len(F)]
      BY <1>4, <1>5, ConcatIs
    <2> QED BY <1>5, <1>6, <2>1
  <1>8. /\ Len(V) = L + c
        /\ \A j \in 1..(L + c) : V[j] = IF j <= L THEN U[j] ELSE R[j - L]
    <2>1. /\ Len(V) = Len(U) + Len(R)
          /\ \A j \in 1..(Len(U) + Len(R)) : V[j] = IF j <= Len(U) THEN U[j] ELSE R[j - Len(U)]
      BY <1>5, ConcatIs
    <2> QED BY <1>5, <2>1
  <1> HIDE DEF G, V, L
  <1>9. ASSUME NEW j \in 1..(q + c) PROVE G[j] = V[(Len(V) - (q + c)) + j]
    <2> DEFINE h == (L - q) + j
    <2>1. (Len(V) - (q + c)) + j = h /\ h \in 1..(L + c)
      BY <1>1, <1>6, <1>8 DEF c
    <2>2. CASE j <= q
      <3>1. j \in 1..q /\ h <= L
        BY <1>6, <2>2
      <3> QED BY <1>6, <1>7, <1>8, <2>1, <2>2, <3>1
    <2>3. CASE ~(j <= q)
      <3>1. ~(h <= L) /\ h - L = j - q
        BY <1>1, <1>6, <2>3 DEF c
      <3> HIDE DEF h
      <3> QED BY <1>7, <1>8, <2>1, <2>3, <3>1
    <2> QED BY <2>2, <2>3
  <1>10. q + c <= Len(V)
    BY <1>1, <1>6, <1>8 DEF c
  <1>11. Suffix(G, V, q + c)
    BY <1>7, <1>9, <1>10 DEF Suffix
  <1>12. Append(ls, l) \in Seq(FullLayers)
    <2> HIDE DEF l
    <2> QED BY <1>2
  <1> QED BY <1>3, <1>4, <1>11, <1>12 DEF G, V, R, c

\* An issue takes the first of them.
LEMMA ReplayOut ==
    ASSUME NEW ls \in Seq(FullLayers), NEW U \in Seq(Fractions), NEW q \in Nat, Suffix(Flat(ls), U, q),
           NEW r \in StockRows, ~(r.qty > 0), q + r.qty >= 0
    PROVE  /\ ReplayRow(ls, r) \in Seq(FullLayers)
           /\ Suffix(Flat(ReplayRow(ls, r)), U, q + r.qty)
  <1> DEFINE F == Flat(ls)
             n == -r.qty
             a == TakeOldest(ls, n)
             L == Len(U)
             H == Flat(a.left)
             e == q - n
  <1>1. r.qty \in Int
    BY StockRowType
  <1>2. n \in Nat /\ n <= q /\ e \in Nat /\ e = q + r.qty
    BY <1>1
  <1>3. ReplayRow(ls, r) = a.left
    BY DEF ReplayRow
  <1>4. PICK m : Took(a, F, n, m)
    BY <1>2, TakeOldestIs
  <1>5. Len(F) = q /\ q <= L /\ L \in Nat /\ \A j \in 1..q : F[j] = U[(L - q) + j]
    BY DEF Suffix
  <1> HIDE DEF F, n, a
  <1>6. m = n /\ a.left \in Seq(FullLayers) /\ Len(H) = e /\ \A j \in 1..e : H[j] = F[n + j]
    BY <1>2, <1>4, <1>5 DEF Took
  <1> HIDE DEF H, L, e
  <1>7. ASSUME NEW j \in 1..e PROVE H[j] = U[(L - e) + j]
    <2> DEFINE h == n + j
    <2>1. h \in 1..q /\ (L - q) + h = (L - e) + j
      BY <1>2, <1>5 DEF e
    <2>2. H[j] = F[h]
      BY <1>6
    <2> HIDE DEF h
    <2>3. F[h] = U[(L - q) + h]
      BY <1>5, <2>1
    <2> QED BY <2>1, <2>2, <2>3
  <1>8. e <= L
    BY <1>2, <1>5 DEF e
  <1>9. Suffix(H, U, e)
    BY <1>6, <1>7, <1>8 DEF Suffix, L
  <1> QED BY <1>2, <1>3, <1>6, <1>9 DEF H

\* What remains of rows that never issued more than there was.
LEMMA RemainingIs ==
    ASSUME NEW s \in Seq(StockRows), \A i \in 1..Len(s) : Quantity(SubSeq(s, 1, i)) >= 0
    PROVE  /\ remaining_layers(s) \in Seq(FullLayers) /\ Quantity(s) \in Nat
           /\ Received(s) \in Seq(Fractions)
           /\ Suffix(Flat(remaining_layers(s)), Received(s), Quantity(s))
  <1> DEFINE n == Len(s)
             U(i) == Received(SubSeq(s, 1, i))
             Q(i) == Quantity(SubSeq(s, 1, i))
  <1>1. n \in Nat
    OBVIOUS
  <1>2. PICK f \in [0..n -> Seq(Layers)] : /\ remaining_layers(s) = f[n] /\ f[0] = <<>>
                                           /\ \A i \in 1..n : f[i] = ReplayRow(f[i - 1], s[i])
    BY RemainingFcn
  <1> DEFINE Fits(i) == f[i] \in Seq(FullLayers) /\ Q(i) \in Nat /\ U(i) \in Seq(Fractions)
                        /\ Suffix(Flat(f[i]), U(i), Q(i))
             P == {i \in 0..n : Fits(i)}
  <1>3. 0 \in P
    <2>1. SubSeq(s, 1, 0) = <<>> /\ <<>> \in Seq(FullLayers) /\ <<>> \in Seq(Fractions) /\ Len(<<>>) = 0
      OBVIOUS
    <2>2. Quantity(<<>>) = 0
      <3>1. <<>> \in Seq(StockRows) /\ [i \in DOMAIN <<>> |-> <<>>[i].qty] = <<>>
        OBVIOUS
      <3> QED BY <3>1, IntSumEmpty DEF Quantity, Total, Map
    <2>3. Suffix(<<>>, <<>>, 0)
      BY <2>1 DEF Suffix
    <2>4. f[0] \in Seq(FullLayers) /\ Flat(f[0]) = <<>>
      BY <1>2, <2>1, FlatEmpty
    <2>5. Q(0) = 0 /\ U(0) = <<>>
      BY <2>1, <2>2, ReceivedEmpty
    <2> HIDE DEF Q, U
    <2>6. Fits(0)
      BY <2>1, <2>3, <2>4, <2>5
    <2> QED BY <1>1, <2>6
  <1>4. ASSUME NEW i \in 1..n, i - 1 \in P PROVE i \in P
    <2> DEFINE u == SubSeq(s, 1, i - 1)
               w == SubSeq(s, 1, i)
               r == s[i]
               ls == f[i - 1]
    <2>1. u \in Seq(StockRows) /\ r \in StockRows /\ w = Append(u, r)
      OBVIOUS
    <2>2. i \in 0..n /\ f[i] = ReplayRow(ls, r) /\ Quantity(w) >= 0
      BY <1>1, <1>2
    <2>3. /\ ls \in Seq(FullLayers) /\ Quantity(u) \in Nat /\ Received(u) \in Seq(Fractions)
          /\ Suffix(Flat(ls), Received(u), Quantity(u))
      BY <1>4
    <2> DEFINE q == Quantity(u)
               V == Received(u)
    <2> HIDE DEF u, w, r, ls
    <2>4. Quantity(w) = q + r.qty /\ r.qty \in Int
      BY <2>1, OneMoreRow, StockRowType
    <2>5. Received(w) = IF r.qty > 0 THEN V \o Run(r.qty, r.rate) ELSE V
      BY <2>1, ReceivedAppend
    <2>6. Quantity(w) \in Nat
      BY <2>2, <2>3, <2>4
    <2>7. ReplayRow(ls, r) \in Seq(FullLayers) /\ Suffix(Flat(ReplayRow(ls, r)), Received(w), Quantity(w))
      <3> HIDE DEF q, V
      <3>1. q \in Nat /\ V \in Seq(Fractions) /\ Suffix(Flat(ls), V, q) /\ q + r.qty >= 0
        BY <2>2, <2>3, <2>4 DEF q, V
      <3>2. CASE r.qty > 0
        BY <2>1, <2>3, <2>4, <2>5, <3>1, <3>2, ReplayIn
      <3>3. CASE ~(r.qty > 0)
        BY <2>1, <2>3, <2>4, <2>5, <3>1, <3>3, ReplayOut
      <3> QED BY <3>2, <3>3
    <2>8. Received(w) \in Seq(Fractions)
      <3>1. w \in Seq(StockRows)
        BY <2>1
      <3> QED BY <2>1, <3>1, ReceivedAppend
    <2>9. Fits(i)
      BY <2>2, <2>6, <2>7, <2>8 DEF w
    <2> QED BY <2>2, <2>9
  <1> HIDE DEF P, Fits
  <1>5. 0..n \subseteq P
    <2> HIDE DEF n
    <2> QED BY <1>1, <1>3, <1>4, UpTo
  <1>6. n \in P
    BY <1>1, <1>5
  <1>7. SubSeq(s, 1, n) = s
    OBVIOUS
  <1>8. Fits(n)
    BY <1>6 DEF P
  <1> QED BY <1>2, <1>7, <1>8 DEF Fits

\* z is the n units that follow the first h.
Following(u, h, n, z) ==
    h \in Nat /\ n \in Nat \ {0} /\ h + n <= Len(u) /\ z = SubSeq(u, h + 1, h + n)

\* The units that follow, one by one.
LEMMA FollowingUnits ==
    ASSUME NEW S, NEW u \in Seq(S), NEW h, NEW n, NEW z, Following(u, h, n, z)
    PROVE  z \in Seq(S) /\ Len(z) = n /\ \A j \in 1..n : z[j] = u[h + j]
  <1> DEFINE b == h + 1
             c == h + n
  <1>1. b \in 1..(Len(u) + 1) /\ c \in (b - 1)..Len(u) /\ c - b + 1 = n /\ z = SubSeq(u, b, c)
    BY DEF Following
  <1>2. \A j \in 1..n : b + j - 1 = h + j
    BY DEF Following
  <1> HIDE DEF b, c
  <1>3. z \in Seq(S) /\ Len(z) = n /\ \A j \in 1..n : z[j] = u[b + j - 1]
    BY <1>1
  <1> QED BY <1>2, <1>3

\* What n units cost that are there.
LEMMA FifoCost ==
    ASSUME NEW s \in Seq(StockRows), \A i \in 1..Len(s) : Quantity(SubSeq(s, 1, i)) >= 0,
           NEW n \in Nat \ {0}, n <= Quantity(s), NEW U, U = Received(s),
           NEW h, h = Len(U) - Quantity(s)
    PROVE  /\ SubSeq(U, h + 1, h + n) \in Seq(Fractions)
           /\ Whole(n) ** fifo_rate(s, n) = FracSum(SubSeq(U, h + 1, h + n))
  <1> DEFINE ls == remaining_layers(s)
             F == Flat(ls)
             q == Quantity(s)
             a == TakeOldest(ls, n)
             avg == compute_balance(s).rate
             z == SubSeq(U, h + 1, h + n)
  <1>1. ls \in Seq(FullLayers) /\ q \in Nat /\ U \in Seq(Fractions) /\ Suffix(F, U, q)
    BY RemainingIs
  <1>2. F \in Seq(Fractions)
    BY <1>1, FlatType
  <1>3. PICK m : Took(a, F, n, m)
    BY <1>1, TakeOldestIs
  <1> HIDE DEF ls, F, a
  <1>4. Len(F) = q /\ q <= Len(U) /\ Len(U) \in Nat /\ h \in Nat /\ \A j \in 1..q : F[j] = U[h + j]
    BY <1>1 DEF Suffix
  <1>5. m = n /\ a.need = 0 /\ a.cost = FracSum(FirstOf(F, n))
    BY <1>1, <1>3, <1>4 DEF Took
  <1>6. FirstOf(F, n) = z /\ z \in Seq(Fractions)
    <2> DEFINE y == FirstOf(F, n)
    <2>1. n \in 0..Len(F)
      BY <1>1, <1>4
    <2>2. y \in Seq(Fractions) /\ Len(y) = n /\ \A j \in 1..n : y[j] = F[j]
      BY <1>2, <2>1, FirstOfType
    <2>3. h + n <= Len(U)
      BY <1>1, <1>4
    <2>4. z \in Seq(Fractions) /\ Len(z) = n /\ \A j \in 1..n : z[j] = U[h + j]
      <3>1. Following(U, h, n, z)
        BY <1>4, <2>3 DEF Following
      <3> HIDE DEF z
      <3> QED BY <1>1, <3>1, FollowingUnits
    <2>5. \A j \in 1..n : j \in 1..q
      BY <1>1, <1>4
    <2>6. \A j \in 1..n : y[j] = z[j]
      BY <1>4, <2>2, <2>4, <2>5
    <2> HIDE DEF y, z
    <2>7. y = z
      BY <2>2, <2>4, <2>6
    <2> QED BY <2>4, <2>7 DEF y
  <1>7. avg \in Fractions
    BY BalanceType
  <1>8. fifo_rate(s, n) = (a.cost ++ (Whole(a.need) ** avg)) // Whole(n)
    BY DEF fifo_rate, a, ls
  <1> HIDE DEF avg, z
  <1>9. FracSum(z) \in Fractions /\ Whole(0) ** avg = Zero
    BY <1>6, <1>7, FracSumType, TimesZero DEF Zero
  <1>10. fifo_rate(s, n) = FracSum(z) // Whole(n)
    BY <1>5, <1>6, <1>8, <1>9, PlusZero
  <1>11. Whole(n) ** fifo_rate(s, n) = FracSum(z)
    BY <1>9, <1>10, WholeDivided
  <1> QED BY <1>6, <1>11 DEF z

\* The units received, as FifoIsOldestFirst numbers them.
LEMMA ReceivedIs ==
    ASSUME NEW s \in Seq(StockRows)
    PROVE  FlatMap(Filter(s, LAMBDA r : r.qty > 0), LAMBDA r : [u \in 1..r.qty |-> r.rate]) = Received(s)
  <1> DEFINE k == Keep(s, Inward)
  <1>1. Filter(s, LAMBDA r : r.qty > 0) = k
    <2>1. \A i \in DOMAIN s : s[i] \in Inward <=> s[i].qty > 0
      BY DEF Inward
    <2>2. [i \in DOMAIN s |-> IF s[i].qty > 0 THEN <<s[i]>> ELSE <<>>]
          = [i \in DOMAIN s |-> IF s[i] \in Inward THEN <<s[i]>> ELSE <<>>]
      BY <2>1
    <2> QED BY <2>2 DEF Filter, FlatMap, Map, Keep
  <1>2. k \in Seq(StockRows) /\ \A i \in 1..Len(k) : k[i] \in Inward
    BY KeepIn
  <1> HIDE DEF k
  <1>3. \A i \in DOMAIN k : InwardRun[k[i]] = [u \in 1..k[i].qty |-> k[i].rate]
    BY <1>2 DEF InwardRun, Run
  <1>4. [i \in DOMAIN k |-> [u \in 1..k[i].qty |-> k[i].rate]] = MapF(k, InwardRun)
    BY <1>3 DEF MapF
  <1>5. FlatMap(k, LAMBDA r : [u \in 1..r.qty |-> r.rate]) = Concat(MapF(k, InwardRun))
    BY <1>4 DEF FlatMap, Map
  <1> QED BY <1>1, <1>5 DEF Received, k

\* CostInv makes FIFO oldest first.
LEMMA FifoImplies == LedgerTypeOK /\ CostInv => FifoIsOldestFirst
  <1> SUFFICES ASSUME LedgerTypeOK, CostInv, NEW k \in Issues(TRUE), Regular(Before(k)),
                      -sles[k].qty <= Quantity(Before(k))
               PROVE  LET rows   == Before(k)
                          units  == FlatMap(Filter(rows, LAMBDA r : r.qty > 0),
                                            LAMBDA r : [u \in 1..r.qty |-> r.rate])
                          issued == Len(units) - Quantity(rows)
                          n      == -sles[k].qty
                      IN  Value(sles[k]) = Negated(SumOver(SubSeq(units, issued + 1, issued + n),
                                                           LAMBDA rate : rate))
    BY DEF FifoIsOldestFirst
  <1> DEFINE s == Before(k)
             r == sles[k]
             n == -r.qty
             U == Received(s)
             h == Len(U) - Quantity(s)
             z == SubSeq(U, h + 1, h + n)
  <1>1. /\ r \in Sles /\ r.qty \in Int /\ r.qty < 0 /\ s = Prior(sles, k) /\ s \in Seq(Sles)
        /\ r.rate = CostOfIssue(sles, k)
    BY IssuesCost DEF LedgerTypeOK
  <1>2. s \in Seq(StockRows) /\ r \in StockRows
    BY <1>1, SubRows DEF StockRows
  <1>3. load_items(r.item).valuation_method = FIFO
    BY DEF Issues
  <1>4. n \in Nat \ {0} /\ r.qty = -n /\ n <= Quantity(s)
    BY <1>1
  <1>5. r.rate = fifo_rate(s, n)
    BY <1>1, <1>3 DEF CostOfIssue, issue_rate
  <1>6. \A i \in 1..Len(s) : Quantity(SubSeq(s, 1, i)) >= 0
    BY <1>2 DEF Regular
  <1>7. FlatMap(Filter(s, LAMBDA x : x.qty > 0), LAMBDA x : [u \in 1..x.qty |-> x.rate]) = U
    <2> HIDE DEF s
    <2> QED BY <1>2, ReceivedIs
  <1> HIDE DEF s, r, n
  <1>8. z \in Seq(Fractions) /\ Whole(n) ** r.rate = FracSum(z)
    <2> HIDE DEF U, h
    <2> QED BY <1>2, <1>4, <1>5, <1>6, FifoCost DEF U, h
  <1>9. r.rate \in Fractions
    BY <1>2, StockRowType
  <1>10. Value(r) = Negated(Whole(n) ** r.rate)
    <2>1. Whole(r.qty) = Negated(Whole(n)) /\ Whole(n) \in Fractions
      BY <1>4, WholeType DEF Whole, Negated
    <2>2. Negated(Whole(n)) ** r.rate = Negated(Whole(n) ** r.rate)
      BY <1>9, <2>1, NegatedTimes
    <2> QED BY <2>1, <2>2 DEF Value
  <1> HIDE DEF z
  <1>11. SumOver(z, LAMBDA rate : rate) = FracSum(z)
    <2>1. [i \in DOMAIN z |-> z[i]] = z
      BY <1>8
    <2> QED BY <2>1 DEF SumOver, Map
  <1> QED BY <1>7, <1>8, <1>10, <1>11 DEF s, r, n, z, h

-----------------------------------------------------------------------------
(* Sales, their cost of goods sold, and their returns.                     *)

Sales == {"SalesInvoice", "POSInvoice", "DeliveryNote"}

\* What a row of a sale puts on the account "cogs".
CogsAccount(r) == Default(load_items(r.item).cogs_account, "cogs")
CogsOf == [r \in StockRows |-> IF CogsAccount(r) = "cogs" THEN Negated(Value(r)) ELSE Zero]

\* What a row puts in cost of goods sold is a fraction.
LEMMA CogsType == CogsOf \in [StockRows -> Fractions]
  <1>1. \A r \in StockRows : Negated(Value(r)) \in Fractions /\ Zero \in Fractions
    BY ValueType, NegatedType, ZeroType
  <1> QED BY <1>1 DEF CogsOf

\* A row of a sale puts its value in cost of goods sold.
LEMMA CogsLeg ==
    ASSUME NEW v, SeparateAccounts(v), NEW w, w.doctype \in Sales, NEW r \in StockRows,
           r.trans_type \notin Silent
    PROVE  LegSum(w, r, {"cogs"}) = CogsOf[r]
  <1>1. Value(r) \in Fractions /\ Negated(Value(r)) \in Fractions
    BY ValueType, NegatedType
  <1>2. InventoryAccount(r) \notin {"cogs"}
    <2>1. InventoryAccount(r) \in Compared
      BY InventoryAccountIn DEF Compared
    <2> QED BY <2>1 DEF SeparateAccounts, DefaultAccounts
  <1>3. Counter(w, r) = CogsAccount(r)
    BY DEF Counter, CounterAccount, CogsAccount, Sales
  <1>4. CASE Value(r) = Zero
    BY <1>4, NegatedZero DEF LegSum, PostsNone, CogsOf
  <1>5. CASE Value(r) # Zero
    <2>1. ~PostsNone(r)
      BY <1>5 DEF PostsNone, Silent
    <2>2. LegSum(w, r, {"cogs"}) = Zero ++ (IF CogsAccount(r) = "cogs" THEN Negated(Value(r)) ELSE Zero)
      BY <1>2, <1>3, <2>1 DEF LegSum
    <2> QED BY <1>1, <2>2, PlusZero, ZeroType DEF CogsOf
  <1> QED BY <1>4, <1>5

\* The rows of a sale put their value in cost of goods sold.
LEMMA CogsRows ==
    ASSUME NEW v, SeparateAccounts(v), NEW w, w.doctype \in Sales, NEW s \in Seq(StockRows),
           NEW T, HasTypes(s, T), T \cap Silent = {}
    PROVE  StockSum(w, s, {"cogs"}) = FracSum(MapF(s, CogsOf))
  <1>1. \A i \in DOMAIN s : s[i] \in StockRows /\ s[i].trans_type \notin Silent
    BY DEF HasTypes
  <1>2. \A i \in DOMAIN s : LegSum(w, s[i], {"cogs"}) = CogsOf[s[i]]
    BY <1>1, CogsLeg
  <1>3. [i \in DOMAIN s |-> LegSum(w, s[i], {"cogs"})] = [i \in DOMAIN s |-> CogsOf[s[i]]]
    BY <1>2
  <1> QED BY <1>3 DEF StockSum, MapF

\* The money of a sale is on other accounts.
LEMMA SaleMoney ==
    ASSUME NEW v \in Payloads, NEW w, w = Settled(v), IsSettled(w), SameFields(w, v),
           SeparateAccounts(v), "cogs" \notin OtherAccounts(v), w.doctype \in Sales
    PROVE  MonetarySum(w, {"cogs"}) = Zero
  <1> DEFINE u == resolve_account_fallbacks(v)
  <1>1. Apart(w) /\ VatOnly(w) /\ SameAccounts(w, u) /\ w.doctype = v.doctype
    BY ApartFields, VatFields, SettledFields DEF SameFields
  <1>2. \A x \in SettledNames : Fallback(u, v, x)
    BY ResolvedFields
  <1> HIDE DEF u
  <1>3. v.income_account # "cogs" /\ v.cash_account # "cogs"
    BY DEF OtherAccounts
  <1>4. FracSum(MapF(tax_legs(w, -1), OnAmount({"cogs"}))) = Zero
    <2>1. -1 \in Int /\ "vat" \notin {"cogs"}
      OBVIOUS
    <2> QED BY <1>1, <2>1, TaxLegsOn
  <1>5. (Zero ++ Zero) ++ Zero = Zero
    BY ZeroSums
  <1>6. CASE w.doctype = "SalesInvoice"
    <2>1. Fallbacks(v) = [debit_to |-> "receivable", income_account |-> "income"]
      BY <1>1, <1>6 DEF Fallbacks
    <2>2. w.income_account \notin {"cogs"}
      BY <1>1, <1>2, <1>3, <2>1 DEF Fallback, SettledNames, SameAccounts
    <2>3. w.debit_to \notin {"cogs"}
      BY <1>1, <1>6 DEF Apart
    <2> QED BY <1>4, <1>5, <1>6, <2>2, <2>3, InvoiceSums
  <1>7. CASE w.doctype = "POSInvoice"
    <2>1. Fallbacks(v) = [cash_account |-> "cash", income_account |-> "income"]
      BY <1>1, <1>7 DEF Fallbacks
    <2>2. w.income_account \notin {"cogs"} /\ w.cash_account \notin {"cogs"}
      BY <1>1, <1>2, <1>3, <2>1 DEF Fallback, SettledNames, SameAccounts
    <2> QED BY <1>4, <1>5, <1>7, <2>2, InvoiceSums
  <1>8. CASE w.doctype = "DeliveryNote"
    BY <1>8, OtherSums
  <1> QED BY <1>6, <1>7, <1>8 DEF Sales

\* A sale posts its costed rows to cost of goods sold, and nothing else.
LEMMA CogsPosting ==
    ASSUME sles \in Seq(Sles), NEW v \in Payloads, NEW w, w = Settled(v), IsSettled(w),
           SameFields(w, v), w.is_return \in BOOLEAN,
           SeparateAccounts(v), "cogs" \notin OtherAccounts(v), w.doctype \in Sales
    PROVE  FracSum(MapF(Posting(w), OnAmount({"cogs"}))) = FracSum(MapF(Moved(w), CogsOf))
  <1> DEFINE S == StockSum(w, Moved(w), {"cogs"})
             T == {"Issue", "Receipt"}
  <1>1. MonetarySum(w, {"cogs"}) = Zero
    BY SaleMoney
  <1>2. ShiftOf(w, {"cogs"}) = Zero
    BY DEF ShiftOf, Sales
  <1>3. /\ FracSum(MapF(Posting(w), OnAmount({"cogs"}))) =
             MonetarySum(w, {"cogs"}) ++ (S ++ ShiftOf(w, {"cogs"}))
        /\ S \in Fractions
    BY PostingSums
  <1>4. T = (IF w.doctype = "StockEntry" THEN {stock_entry_trans_type(w.stock_entry_type)}
             ELSE {"Issue", "Receipt"})
    BY DEF Sales
  <1>5. T \cap Silent = {}
    BY DEF Silent
  <1> HIDE DEF T
  <1>6. HasTypes(derive_stock_rows(w), T)
    BY <1>4, DerivedTyped
  <1>7. HasTypes(Moved(w), T) /\ Moved(w) \in Seq(StockRows)
    BY <1>6, MovedTyped, MovedType, SubRows
  <1>8. S = FracSum(MapF(Moved(w), CogsOf))
    BY <1>5, <1>7, CogsRows
  <1> HIDE DEF S
  <1>9. S ++ Zero = S /\ Zero ++ S = S
    BY <1>3, PlusZero
  <1> QED BY <1>1, <1>2, <1>3, <1>8, <1>9

\* The rows of one document, after those of another, and its own first ones.
LEMMA VoucherAppended ==
    ASSUME sles \in Seq(Sles), NEW d \in Docs, NEW t \in Seq(Sles), \A i \in 1..Len(t) : t[i].voucher = d
    PROVE  /\ \A e \in Docs : e # d => Keep(sles \o t, OfVoucher(e)) = Keep(sles, OfVoucher(e))
           /\ (\A i \in 1..Len(sles) : sles[i].voucher # d) => Keep(sles \o t, OfVoucher(d)) = t
  <1>1. \A e : Keep(sles \o t, OfVoucher(e)) = Keep(sles, OfVoucher(e)) \o Keep(t, OfVoucher(e))
    BY KeepConcat
  <1>2. \A e : Keep(sles, OfVoucher(e)) \in Seq(Sles)
    BY KeepIn
  <1>3. ASSUME NEW e \in Docs, e # d PROVE Keep(sles \o t, OfVoucher(e)) = Keep(sles, OfVoucher(e))
    <2>1. \A i \in 1..Len(t) : t[i] \notin OfVoucher(e)
      BY <1>3 DEF OfVoucher
    <2>2. Keep(t, OfVoucher(e)) = <<>>
      BY <2>1, KeepNone
    <2> QED BY <1>1, <1>2, <2>2
  <1>4. ASSUME \A i \in 1..Len(sles) : sles[i].voucher # d PROVE Keep(sles \o t, OfVoucher(d)) = t
    <2>1. \A i \in 1..Len(sles) : sles[i] \notin OfVoucher(d)
      BY <1>4 DEF OfVoucher
    <2>2. Keep(sles, OfVoucher(d)) = <<>>
      BY <2>1, KeepNone
    <2>3. \A i \in 1..Len(t) : t[i] \in OfVoucher(d)
      BY DEF OfVoucher
    <2>4. Keep(t, OfVoucher(d)) = t
      BY <2>3, KeepAll
    <2>5. <<>> \o t = t
      OBVIOUS
    <2> QED BY <1>1, <2>2, <2>4, <2>5
  <1> QED BY <1>3, <1>4

\* A posted sale has in cost of goods sold what its rows are worth.
SaleOf(v) == v.doctype \in Sales /\ SeparateAccounts(v) /\ "cogs" \notin OtherAccounts(v)
CogsInv ==
    \A d \in Docs : status[d] = "posted" /\ SaleOf(Vouchers[d]) =>
        FracSum(MapF(gl[d], OnAmount({"cogs"}))) = FracSum(MapF(Keep(sles, OfVoucher(d)), CogsOf))

\* A posted document has the rows that were derived from it.
Shaped(a, s) ==
    /\ Len(a) = Len(s)
    /\ \A i \in 1..Len(s) : /\ a[i].item = s[i].item /\ a[i].warehouse = s[i].warehouse
                            /\ a[i].qty = Units(s[i])
ShapeInv ==
    \A d \in Docs : status[d] = "posted" =>
        Shaped(Keep(sles, OfVoucher(d)), derive_stock_rows(Settled(Vouchers[d])))

\* The stored rows have the shape of the derived ones.
LEMMA ShapedRows ==
    ASSUME sles \in Seq(Sles), NEW d \in Docs, NEW w, IsSettled(w), w.is_return \in BOOLEAN,
           NEW t, t = MapF(Moved(w), StoreAs(d, "posted"))
    PROVE  Shaped(t, derive_stock_rows(w)) /\ t \in Seq(Sles) /\ \A i \in 1..Len(t) : t[i].voucher = d
  <1> DEFINE s == derive_stock_rows(w)
             c == Costed(w)
             m == Moved(w)
  <1>1. /\ s \in Seq(Moves) /\ c \in Seq(Moves) /\ Len(c) = Len(s) /\ Len(m) = Len(s)
        /\ c = CostRows(w, s) /\ m = SpreadProduction(w, c) /\ m \in Seq(Moves)
    BY MovedType DEF Costed, Moved
  <1>2. \A i \in 1..Len(s) : c[i] = CostOf(w, SubSeq(c, 1, i - 1), s[i])
    BY <1>1, CostRowsAre
  <1> HIDE DEF s, c, m
  <1>3. t \in Seq(Sles) /\ Len(t) = Len(c) /\ \A i \in 1..Len(t) : t[i].voucher = d
    BY <1>1, StoredSameAs DEF m
  <1>4. ASSUME NEW i \in 1..Len(s)
        PROVE  t[i].item = s[i].item /\ t[i].warehouse = s[i].warehouse /\ t[i].qty = Units(s[i])
    <2>1. s[i] \in Moves
      BY <1>1
    <2>2. c[i].qty = Units(s[i]) /\ c[i].item = s[i].item /\ c[i].warehouse = s[i].warehouse
      BY <1>2, <2>1, CostOfFields
    <2>3. m[i].item = c[i].item /\ m[i].warehouse = c[i].warehouse /\ m[i].qty = c[i].qty
      BY <1>1, SpreadKeeps
    <2>4. m[i] \in StockRows /\ t[i] = StoreAs(d, "posted")[m[i]]
      <3>1. DOMAIN m = 1..Len(s)
        BY <1>1
      <3> QED BY <1>1, <3>1 DEF MapF, m, StockRows
    <2>5. t[i].item = m[i].item /\ t[i].warehouse = m[i].warehouse /\ t[i].qty = m[i].qty
      BY <2>4, StoredPair, StoredFields
    <2> QED BY <2>2, <2>3, <2>5
  <1> QED BY <1>1, <1>3, <1>4 DEF Shaped, s

\* A submit stores the rows it derives.
LEMMA ShapeSubmit ==
    ASSUME LedgerTypeOK, FreshInv, ShapeInv, NEW d \in Docs, NEW w, Submits(d, w), IsSettled(w),
           SameFields(w, Vouchers[d]), w.is_return \in BOOLEAN
    PROVE  ShapeInv'
  <1> DEFINE t == MapF(Moved(w), StoreAs(d, "posted"))
  <1>1. sles \in Seq(Sles) /\ w = Settled(Vouchers[d]) /\ sles' = sles \o t
    BY DEF LedgerTypeOK, Submits
  <1>2. Shaped(t, derive_stock_rows(w)) /\ t \in Seq(Sles) /\ \A i \in 1..Len(t) : t[i].voucher = d
    BY <1>1, ShapedRows
  <1>3. \A i \in 1..Len(sles) : sles[i].voucher # d
    BY DEF FreshInv, Submits
  <1>4. \A e \in Docs : e # d => status'[e] = status[e]
    BY DEF Submits, LedgerTypeOK
  <1> HIDE DEF t
  <1>5. /\ \A e \in Docs : e # d => Keep(sles', OfVoucher(e)) = Keep(sles, OfVoucher(e))
        /\ Keep(sles', OfVoucher(d)) = t
    BY <1>1, <1>2, <1>3, VoucherAppended
  <1>6. ASSUME NEW e \in Docs, status'[e] = "posted"
        PROVE  Shaped(Keep(sles', OfVoucher(e)), derive_stock_rows(Settled(Vouchers[e])))
    <2>1. CASE e = d
      BY <1>1, <1>2, <1>5, <2>1
    <2>2. CASE e # d
      BY <1>4, <1>5, <1>6, <2>2 DEF ShapeInv
    <2> QED BY <2>1, <2>2
  <1> QED BY <1>6 DEF ShapeInv

\* A submit of a sale costs what its rows are worth.
LEMMA CogsSubmit ==
    ASSUME LedgerTypeOK, FreshInv, CogsInv, NEW d \in Docs, NEW w, Submits(d, w), IsSettled(w),
           SameFields(w, Vouchers[d]), w.is_return \in BOOLEAN
    PROVE  CogsInv'
  <1> DEFINE t == MapF(Moved(w), StoreAs(d, "posted"))
  <1>1. sles \in Seq(Sles) /\ w = Settled(Vouchers[d]) /\ sles' = sles \o t /\ Vouchers[d] \in Payloads
    BY PayloadsAssumption DEF LedgerTypeOK, Submits
  <1>2. t \in Seq(Sles) /\ \A i \in 1..Len(t) : t[i].voucher = d
    BY <1>1, ShapedRows
  <1>3. \A i \in 1..Len(sles) : sles[i].voucher # d
    BY DEF FreshInv, Submits
  <1>4. \A e \in Docs : e # d => status'[e] = status[e] /\ gl'[e] = gl[e]
    BY DEF Submits, LedgerTypeOK
  <1>5. FracSum(MapF(t, CogsOf)) = FracSum(MapF(Moved(w), CogsOf))
    <2>1. Moved(w) \in Seq(StockRows)
      BY <1>1, MovedType, SubRows
    <2>2. \A r \in StockRows : /\ StoreAs(d, "posted")[r] \in StockRows
                               /\ CogsOf[StoreAs(d, "posted")[r]] = CogsOf[r]
      BY StoredFields, StoredPair DEF CogsOf, CogsAccount
    <2>3. \A i \in DOMAIN Moved(w) : Moved(w)[i] \in StockRows
      BY <2>1
    <2>4. MapF(t, CogsOf) = MapF(Moved(w), CogsOf)
      BY <2>2, <2>3 DEF MapF
    <2> QED BY <2>4
  <1> HIDE DEF t
  <1>6. /\ \A e \in Docs : e # d => Keep(sles', OfVoucher(e)) = Keep(sles, OfVoucher(e))
        /\ Keep(sles', OfVoucher(d)) = t
    BY <1>1, <1>2, <1>3, VoucherAppended
  <1>7. gl'[d] = Posting(w)
    BY SubmittedRows
  <1>8. ASSUME NEW e \in Docs, status'[e] = "posted", SaleOf(Vouchers[e])
        PROVE  FracSum(MapF(gl'[e], OnAmount({"cogs"}))) = FracSum(MapF(Keep(sles', OfVoucher(e)), CogsOf))
    <2>1. CASE e = d
      <3>1. /\ SeparateAccounts(Vouchers[d]) /\ "cogs" \notin OtherAccounts(Vouchers[d])
            /\ w.doctype \in Sales
        BY <1>8, <2>1 DEF SaleOf, SameFields
      <3>2. FracSum(MapF(Posting(w), OnAmount({"cogs"}))) = FracSum(MapF(Moved(w), CogsOf))
        BY <1>1, <3>1, CogsPosting
      <3> QED BY <1>5, <1>6, <1>7, <2>1, <3>2
    <2>2. CASE e # d
      BY <1>4, <1>6, <1>8, <2>2 DEF CogsInv
    <2> QED BY <2>1, <2>2
  <1> QED BY <1>8 DEF CogsInv

\* A cancel keeps the two.
LEMMA CogsCancel ==
    ASSUME LedgerTypeOK, CogsInv, ShapeInv, NEW d \in Docs, Cancels(d)
    PROVE  CogsInv' /\ ShapeInv'
  <1> DEFINE t == MapF(Keep(sles, OfVoucher(d)), ReverseSle(d))
  <1>1. sles \in Seq(Sles) /\ sles' = sles \o t
    BY DEF LedgerTypeOK, Cancels
  <1>2. t \in Seq(Sles) /\ \A i \in 1..Len(t) : t[i].voucher = d
    <2>1. Keep(sles, OfVoucher(d)) \in Seq(Sles)
      BY <1>1, KeepIn
    <2> QED BY <2>1, BackVouchers
  <1>3. status'[d] # "posted" /\ \A e \in Docs : e # d => status'[e] = status[e] /\ gl'[e] = gl[e]
    BY DEF Cancels, LedgerTypeOK
  <1> HIDE DEF t
  <1>4. \A e \in Docs : e # d => Keep(sles', OfVoucher(e)) = Keep(sles, OfVoucher(e))
    BY <1>1, <1>2, VoucherAppended
  <1>5. CogsInv'
    BY <1>3, <1>4 DEF CogsInv
  <1>6. ShapeInv'
    BY <1>3, <1>4 DEF ShapeInv
  <1> QED BY <1>5, <1>6

\* CogsInv and ShapeInv are inductive.
LEMMA CogsStep ==
    LedgerTypeOK /\ FreshInv /\ CogsInv /\ ShapeInv /\ [Next]_vars => CogsInv' /\ ShapeInv'
  <1> SUFFICES ASSUME LedgerTypeOK, FreshInv, CogsInv, ShapeInv, [Next]_vars PROVE CogsInv' /\ ShapeInv'
    OBVIOUS
  <1>1. CASE UNCHANGED <<company, status, gl, party_transactions, tax_transactions, sles, bins>>
    BY <1>1 DEF CogsInv, ShapeInv
  <1> QED BY <1>1, Steps, CogsSubmit, ShapeSubmit, CogsCancel

\* They hold at the start.
LEMMA CogsInit == Init => CogsInv /\ ShapeInv
  BY DEF Init, CogsInv, ShapeInv

\* One more row mapped.
LEMMA MapAppend ==
    ASSUME NEW S, NEW T, NEW h \in [S -> T], NEW s \in Seq(S), NEW x \in S
    PROVE  MapF(Append(s, x), h) = Append(MapF(s, h), h[x])
  <1> DEFINE a == MapF(Append(s, x), h)
             b == Append(MapF(s, h), h[x])
  <1>1. /\ Len(s) \in Nat /\ DOMAIN Append(s, x) = 1..(Len(s) + 1) /\ DOMAIN s = 1..Len(s)
        /\ \A i \in 1..Len(s) : Append(s, x)[i] = s[i]
        /\ Append(s, x)[Len(s) + 1] = x
    OBVIOUS
  <1>2. MapF(s, h) \in Seq(T) /\ Len(MapF(s, h)) = Len(s) /\ h[x] \in T
    <2>1. h[x] \in T
      OBVIOUS
    <2>2. MapF(s, h) \in Seq(T) /\ Len(MapF(s, h)) = Len(s)
      BY DEF MapF
    <2> QED BY <2>1, <2>2
  <1>3. b \in Seq(T) /\ DOMAIN b = 1..(Len(s) + 1) /\ b[Len(s) + 1] = h[x]
        /\ \A i \in 1..Len(s) : b[i] = MapF(s, h)[i]
    <2> DEFINE m == MapF(s, h)
    <2> HIDE DEF m
    <2>1. m \in Seq(T) /\ Len(m) = Len(s)
      BY <1>2 DEF m
    <2> QED BY <1>1, <1>2, <2>1 DEF m
  <1>4. DOMAIN a = 1..(Len(s) + 1) /\ \A i \in 1..(Len(s) + 1) : a[i] = h[Append(s, x)[i]]
    BY <1>1 DEF MapF
  <1>5. \A i \in 1..Len(s) : MapF(s, h)[i] = h[s[i]]
    BY <1>1 DEF MapF
  <1>6. a = [i \in 1..(Len(s) + 1) |-> a[i]] /\ b = [i \in 1..(Len(s) + 1) |-> b[i]]
    BY <1>1, <1>3, <1>4 DEF MapF
  <1> HIDE DEF a, b
  <1>7. \A i \in 1..(Len(s) + 1) : i \in 1..Len(s) \/ i = Len(s) + 1
    BY <1>1
  <1>8. \A i \in 1..(Len(s) + 1) : a[i] = b[i]
    BY <1>1, <1>3, <1>4, <1>5, <1>7
  <1> QED BY <1>6, <1>8 DEF a, b

\* What is kept of an image is the image of what is kept.
LEMMA KeepMapped ==
    ASSUME NEW S, NEW h \in [S -> S], NEW K, \A x \in S : h[x] \in K <=> x \in K, NEW s \in Seq(S)
    PROVE  Keep(MapF(s, h), K) = MapF(Keep(s, K), h)
  <1> DEFINE P == {u \in Seq(S) : Keep(MapF(u, h), K) = MapF(Keep(u, K), h)}
  <1>1. <<>> \in P
    <2>1. <<>> \in Seq(S) /\ Keep(<<>>, K) = <<>>
      BY KeepEmpty
    <2>2. MapF(<<>>, h) = <<>>
      BY DEF MapF
    <2> QED BY <2>1, <2>2
  <1>2. ASSUME NEW u \in Seq(S), NEW x \in S, u \in P PROVE Append(u, x) \in P
    <2>1. MapF(Append(u, x), h) = Append(MapF(u, h), h[x]) /\ MapF(u, h) \in Seq(S) /\ h[x] \in S
      BY MapAppend, MapType
    <2>2. Keep(Append(MapF(u, h), h[x]), K) =
            IF h[x] \in K THEN Append(Keep(MapF(u, h), K), h[x]) ELSE Keep(MapF(u, h), K)
      BY <2>1, KeepAppend
    <2>3. Keep(Append(u, x), K) = IF x \in K THEN Append(Keep(u, K), x) ELSE Keep(u, K)
      BY KeepAppend
    <2>4. Keep(u, K) \in Seq(S)
      BY KeepIn
    <2>5. MapF(Append(Keep(u, K), x), h) = Append(MapF(Keep(u, K), h), h[x])
      BY <2>4, MapAppend
    <2>6. Append(u, x) \in Seq(S) /\ Keep(MapF(u, h), K) = MapF(Keep(u, K), h)
      BY <1>2
    <2>7. Keep(MapF(Append(u, x), h), K) = MapF(Keep(Append(u, x), K), h)
      BY <2>1, <2>2, <2>3, <2>5, <2>6
    <2> QED BY <2>6, <2>7
  <1> HIDE DEF P
  <1>3. Seq(S) \subseteq P
    BY <1>1, <1>2, SeqInduct
  <1> QED BY <1>3 DEF P

\* The lines of a sale that move stock, and the rows they become.
Listed(w) ==
    {l \in Lines : /\ l.item # None /\ Default(l.warehouse, w.set_warehouse) # None
                   /\ is_stock_item_type(l.item)}
SaleRow(w) ==
    [l \in Lines |-> Sle("Issue", l, Default(l.warehouse, w.set_warehouse), (-1) * l.qty,
                         Default(l.valuation_rate, l.rate))]

\* The stock row of a line of a sale.
LEMMA SaleRowIs ==
    ASSUME NEW w, IsSettled(w), NEW l \in Lines
    PROVE  /\ SaleRow(w)[l] \in Moves /\ DocRow(w, -1, "Issue", l) \in Seq(Moves)
           /\ SaleRow(w)[l].item = l.item /\ SaleRow(w)[l].qty = -l.qty /\ SaleRow(w)[l].uom = l.uom
           /\ SaleRow(w)[l].warehouse = Default(l.warehouse, w.set_warehouse)
           /\ Keep(DocRow(w, -1, "Issue", l), Stocked) =
                IF l \in Listed(w) THEN <<SaleRow(w)[l]>> ELSE <<>>
  <1> DEFINE r == SaleRow(w)[l]
             h == Default(l.warehouse, w.set_warehouse)
  <1>1. /\ l.item \in Names /\ l.warehouse \in Names /\ l.qty \in Int /\ l.rate \in Fractions
        /\ l.valuation_rate \in Fractions \cup {None} /\ w.set_warehouse \in Names
    BY LineType DEF IsSettled
  <1>2. h \in Names /\ (-1) * l.qty = -l.qty /\ -l.qty \in Int
        /\ Default(l.valuation_rate, l.rate) \in Fractions
    BY <1>1 DEF Default
  <1>3. r = Sle("Issue", l, h, (-1) * l.qty, Default(l.valuation_rate, l.rate))
    BY DEF SaleRow
  <1> HIDE DEF r, h
  <1>4. r \in Moves
    <2>1. "Issue" \in TransTypes
      BY DEF TransTypes
    <2> QED BY <1>2, <1>3, <2>1, SleType
  <1>5. r.item = l.item /\ r.qty = -l.qty /\ r.uom = l.uom /\ r.warehouse = h
    BY <1>2, <1>3 DEF Sle
  <1>6. DocRow(w, -1, "Issue", l) = IF None \in {l.item, h} THEN <<>> ELSE <<r>>
    BY <1>3 DEF DocRow, h
  <1>7. <<>> \in Seq(Moves) /\ <<r>> \in Seq(Moves) /\ <<r>> = Append(<<>>, r)
    BY <1>4
  <1>8. Keep(<<>>, Stocked) = <<>>
    BY KeepEmpty
  <1>9. Keep(<<r>>, Stocked) = IF r \in Stocked THEN <<r>> ELSE <<>>
    <2>1. Keep(Append(<<>>, r), Stocked) =
            IF r \in Stocked THEN Append(Keep(<<>>, Stocked), r) ELSE Keep(<<>>, Stocked)
      BY <1>4, <1>7, KeepAppend
    <2> QED BY <1>7, <1>8, <2>1
  <1>10. r \in Stocked <=> is_stock_item_type(l.item)
    BY <1>4, <1>5 DEF Stocked
  <1>11. l \in Listed(w) <=> l.item # None /\ h # None /\ is_stock_item_type(l.item)
    BY DEF Listed, h
  <1>12. Keep(DocRow(w, -1, "Issue", l), Stocked) = IF l \in Listed(w) THEN <<r>> ELSE <<>>
    BY <1>6, <1>8, <1>9, <1>10, <1>11
  <1>13. DocRow(w, -1, "Issue", l) \in Seq(Moves)
    BY <1>6, <1>7
  <1> QED BY <1>4, <1>5, <1>12, <1>13 DEF r, h

\* The stock rows of a sale are those of its stocked lines.
LEMMA ListedRows ==
    ASSUME NEW w, IsSettled(w)
    PROVE  Keep(stock_document_rows(w, -1, "Issue"), Stocked) = MapF(Keep(w.items, Listed(w)), SaleRow(w))
  <1> DEFINE PerLine(u) == [i \in DOMAIN u |-> DocRow(w, -1, "Issue", u[i])]
             P == {u \in Seq(Lines) : Keep(Concat(PerLine(u)), Stocked) = MapF(Keep(u, Listed(w)), SaleRow(w))}
  <1>1. <<>> \in P
    <2>1. <<>> \in Seq(Lines)
      OBVIOUS
    <2>2. PerLine(<<>>) = <<>>
      OBVIOUS
    <2>3. MapF(<<>>, SaleRow(w)) = <<>>
      BY DEF MapF
    <2>4. Keep(Concat(PerLine(<<>>)), Stocked) = <<>>
      BY <2>2, ConcatEmpty, KeepEmpty
    <2>5. Keep(<<>>, Listed(w)) = <<>>
      BY KeepEmpty
    <2> QED BY <2>1, <2>3, <2>4, <2>5
  <1>2. ASSUME NEW u \in Seq(Lines), NEW l \in Lines, u \in P PROVE Append(u, l) \in P
    <2> DEFINE D(x) == DocRow(w, -1, "Issue", x)
               a == Append(u, l)
    <2>1. /\ a \in Seq(Lines) /\ Len(u) \in Nat /\ DOMAIN a = 1..(Len(u) + 1) /\ DOMAIN u = 1..Len(u)
          /\ a[Len(u) + 1] = l /\ \A i \in 1..Len(u) : a[i] = u[i]
      OBVIOUS
    <2>2. \A x \in Lines : D(x) \in Seq(Moves)
      BY SaleRowIs
    <2> HIDE DEF D
    <2>3. PerLine(u) \in Seq(Seq(Moves)) /\ D(l) \in Seq(Moves)
      <3>1. \A i \in 1..Len(u) : u[i] \in Lines
        OBVIOUS
      <3>2. \A i \in 1..Len(u) : D(u[i]) \in Seq(Moves)
        BY <2>2, <3>1
      <3>3. [i \in 1..Len(u) |-> D(u[i])] \in Seq(Seq(Moves))
        BY <2>1, <3>2
      <3>4. PerLine(u) = [i \in 1..Len(u) |-> D(u[i])]
        BY <2>1 DEF D
      <3> QED BY <2>2, <3>3, <3>4
    <2>4. PerLine(a) = Append(PerLine(u), D(l))
      <3> DEFINE p == PerLine(a)
                 q == Append(PerLine(u), D(l))
      <3>1. DOMAIN p = 1..(Len(u) + 1) /\ \A i \in 1..(Len(u) + 1) : p[i] = D(a[i])
        BY <2>1 DEF D
      <3>2. /\ DOMAIN PerLine(u) = 1..Len(u) /\ Len(PerLine(u)) = Len(u)
            /\ \A i \in 1..Len(u) : PerLine(u)[i] = D(u[i])
        BY <2>1 DEF D
      <3>3. /\ q \in Seq(Seq(Moves)) /\ DOMAIN q = 1..(Len(u) + 1) /\ q[Len(u) + 1] = D(l)
            /\ \A i \in 1..Len(u) : q[i] = PerLine(u)[i]
        <4> DEFINE z == PerLine(u)
        <4>1. z \in Seq(Seq(Moves)) /\ Len(z) = Len(u)
          BY <2>3, <3>2
        <4> HIDE DEF z
        <4> QED BY <2>1, <2>3, <4>1 DEF z
      <3>4. p = [i \in 1..(Len(u) + 1) |-> p[i]] /\ q = [i \in 1..(Len(u) + 1) |-> q[i]]
        BY <2>1, <3>1, <3>3
      <3> HIDE DEF p, q
      <3>5. \A i \in 1..(Len(u) + 1) : i \in 1..Len(u) \/ i = Len(u) + 1
        BY <2>1
      <3>6. \A i \in 1..(Len(u) + 1) : p[i] = q[i]
        BY <2>1, <3>1, <3>2, <3>3, <3>5
      <3> QED BY <3>4, <3>6 DEF p, q
    <2>5. Concat(PerLine(a)) = Concat(PerLine(u)) \o D(l) /\ Concat(PerLine(u)) \in Seq(Moves)
      <3> DEFINE z == PerLine(u)
      <3>1. z \in Seq(Seq(Moves))
        BY <2>3
      <3>2. PerLine(a) = Append(z, D(l))
        BY <2>4
      <3> HIDE DEF z
      <3>3. Concat(Append(z, D(l))) = Concat(z) \o D(l) /\ Concat(z) \in Seq(Moves)
        BY <2>3, <3>1, ConcatAppend, ConcatType
      <3> QED BY <3>2, <3>3 DEF z
    <2>6. Keep(Concat(PerLine(u)) \o D(l), Stocked) = Keep(Concat(PerLine(u)), Stocked) \o Keep(D(l), Stocked)
      <3> DEFINE z == Concat(PerLine(u))
      <3>1. z \in Seq(Moves)
        BY <2>5
      <3> HIDE DEF z
      <3>2. Keep(z \o D(l), Stocked) = Keep(z, Stocked) \o Keep(D(l), Stocked)
        BY <2>3, <3>1, KeepConcat
      <3> QED BY <3>2 DEF z
    <2>7. Keep(D(l), Stocked) = IF l \in Listed(w) THEN <<SaleRow(w)[l]>> ELSE <<>>
      BY SaleRowIs DEF D
    <2>8. Keep(a, Listed(w)) = IF l \in Listed(w) THEN Append(Keep(u, Listed(w)), l) ELSE Keep(u, Listed(w))
      BY KeepAppend
    <2>9. Keep(u, Listed(w)) \in Seq(Lines) /\ SaleRow(w) \in [Lines -> Moves]
      <3>1. \A x \in Lines : SaleRow(w)[x] \in Moves
        BY SaleRowIs
      <3>2. SaleRow(w) \in [Lines -> Moves]
        BY <3>1 DEF SaleRow
      <3> QED BY <3>2, KeepIn
    <2>10. /\ MapF(Append(Keep(u, Listed(w)), l), SaleRow(w)) =
                Append(MapF(Keep(u, Listed(w)), SaleRow(w)), SaleRow(w)[l])
           /\ MapF(Keep(u, Listed(w)), SaleRow(w)) \in Seq(Moves)
      BY <2>9, MapAppend, MapType
    <2>11. Keep(Concat(PerLine(u)), Stocked) = MapF(Keep(u, Listed(w)), SaleRow(w))
      BY <1>2
    <2>12. Keep(Concat(PerLine(a)), Stocked) = MapF(Keep(a, Listed(w)), SaleRow(w))
      <3> DEFINE k == MapF(Keep(u, Listed(w)), SaleRow(w))
                 x == SaleRow(w)[l]
      <3>1. x \in Moves /\ k \in Seq(Moves)
        BY <2>9, <2>10
      <3> HIDE DEF k, x
      <3>2. k \o <<x>> = Append(k, x) /\ k \o <<>> = k
        BY <3>1
      <3>3. Keep(Concat(PerLine(a)), Stocked) = k \o Keep(D(l), Stocked)
        BY <2>5, <2>6, <2>11 DEF k
      <3> HIDE DEF PerLine, a
      <3>4. CASE l \in Listed(w)
        BY <2>7, <2>8, <2>10, <3>2, <3>3, <3>4 DEF k, x
      <3>5. CASE l \notin Listed(w)
        BY <2>7, <2>8, <3>2, <3>3, <3>5 DEF k
      <3> QED BY <3>4, <3>5
    <2> QED BY <2>1, <2>12
  <1>3. stock_document_rows(w, -1, "Issue") = Concat(PerLine(w.items))
    <2>1. -1 \in Int /\ "Issue" \in TransTypes
      BY DEF TransTypes
    <2> QED BY <2>1, DocRowsAre
  <1>4. w.items \in Seq(Lines)
    BY DEF IsSettled
  <1> HIDE DEF P
  <1>5. Seq(Lines) \subseteq P
    BY <1>1, <1>2, SeqInduct
  <1>6. w.items \in P
    BY <1>4, <1>5
  <1> QED BY <1>3, <1>6 DEF P

\* A sale that moves stock.
MovesStock(w) == w.doctype = "SalesInvoice" => w.update_stock

\* The same, for a sale that moves stock and one that does not.
LEMMA SaleRowsAre ==
    ASSUME NEW w, IsSettled(w), w.doctype \in Sales, w.update_stock \in BOOLEAN
    PROVE  derive_stock_rows(w) = IF MovesStock(w) THEN MapF(Keep(w.items, Listed(w)), SaleRow(w)) ELSE <<>>
  <1>1. derive_stock_rows(w) = Keep(RawRows(w), Stocked)
    BY StockRowsAre
  <1>2. CASE MovesStock(w)
    <2>1. RawRows(w) = stock_document_rows(w, -1, "Issue")
      BY <1>2 DEF RawRows, Sales, MovesStock
    <2> QED BY <1>1, <1>2, <2>1, ListedRows
  <1>3. CASE ~MovesStock(w)
    <2>1. w.doctype = "SalesInvoice" /\ ~w.update_stock
      BY <1>3 DEF MovesStock
    <2>2. RawRows(w) = <<>>
      BY <2>1 DEF RawRows
    <2> QED BY <1>1, <1>3, <2>2, KeepEmpty
  <1> QED BY <1>2, <1>3

\* A line of a return.
BackLine == [l \in Lines |-> [l EXCEPT !.qty = -@]]

\* A line of a return is the line with the opposite quantity.
LEMMA BackLineIs ==
    /\ BackLine \in [Lines -> Lines]
    /\ \A l \in Lines : /\ BackLine[l].qty = -l.qty /\ BackLine[l].item = l.item
                        /\ BackLine[l].warehouse = l.warehouse /\ BackLine[l].uom = l.uom
  <1>1. ASSUME NEW l \in Lines
        PROVE  /\ BackLine[l] \in Lines /\ BackLine[l].qty = -l.qty /\ BackLine[l].item = l.item
               /\ BackLine[l].warehouse = l.warehouse /\ BackLine[l].uom = l.uom
    <2>1. BackLine[l] = [l EXCEPT !.qty = -l.qty] /\ -l.qty \in Int
      BY LineType DEF BackLine
    <2> QED BY <2>1 DEF Lines
  <1>2. BackLine \in [Lines -> Lines]
    BY <1>1 DEF BackLine
  <1> QED BY <1>1, <1>2

\* The rows a of a sale, each of another item, and the rows b of its return.
Opposite(a, b) ==
    /\ Len(a) = Len(b)
    /\ \A i \in 1..Len(a) : /\ a[i].qty < 0 /\ b[i].qty = -a[i].qty /\ b[i].item = a[i].item
                            /\ b[i].warehouse = a[i].warehouse /\ b[i].uom = a[i].uom
OneEach(a) == \A i, j \in 1..Len(a) : a[i].item = a[j].item => i = j

\* z returns what w sold.
SoldBy(w) ==
    /\ w.doctype \in Sales /\ w.items \in Seq({l \in Lines : l.qty > 0})
    /\ \A i, j \in 1..Len(w.items) : w.items[i].item = w.items[j].item => i = j
BroughtBack(z, w) ==
    /\ z.doctype = w.doctype /\ z.update_stock = w.update_stock /\ z.set_warehouse = w.set_warehouse
    /\ z.items = MapF(w.items, BackLine)

\* A whole return derives the opposite rows, each item once.
LEMMA ReturnedRows ==
    ASSUME NEW w, NEW z, IsSettled(w), IsSettled(z), w.update_stock \in BOOLEAN,
           SoldBy(w), BroughtBack(z, w)
    PROVE  Opposite(derive_stock_rows(w), derive_stock_rows(z)) /\ OneEach(derive_stock_rows(w))
  <1> DEFINE S == {l \in Lines : l.qty > 0}
             k == Keep(w.items, Listed(w))
             a == derive_stock_rows(w)
             b == derive_stock_rows(z)
  <1>1. w.items \in Seq(Lines) /\ w.doctype \in Sales /\ z.doctype \in Sales /\ z.update_stock \in BOOLEAN
    BY DEF IsSettled, SoldBy, BroughtBack
  <1>2. Listed(z) = Listed(w) /\ (MovesStock(z) <=> MovesStock(w))
    BY DEF Listed, BroughtBack, MovesStock
  <1>3. /\ a = IF MovesStock(w) THEN MapF(k, SaleRow(w)) ELSE <<>>
        /\ b = IF MovesStock(w) THEN MapF(Keep(z.items, Listed(w)), SaleRow(z)) ELSE <<>>
    BY <1>1, <1>2, SaleRowsAre
  <1>4. Keep(z.items, Listed(w)) = MapF(k, BackLine)
    <2>1. \A l \in Lines : BackLine[l] \in Listed(w) <=> l \in Listed(w)
      BY BackLineIs DEF Listed
    <2> QED BY <1>1, <2>1, BackLineIs, KeepMapped DEF BroughtBack
  <1>5. k \in Seq(S) /\ k \in Seq(Lines) /\ \E m : Embeds(m, k, w.items)
    <2>1. w.items \in Seq(S)
      BY DEF SoldBy
    <2> HIDE DEF S
    <2> QED BY <1>1, <2>1, KeepIn, KeepEmbeds
  <1>6. PICK m : Embeds(m, k, w.items)
    BY <1>5
  <1>7. \A i \in 1..Len(k) : k[i] \in Lines /\ k[i].qty > 0
    BY <1>5
  <1> HIDE DEF k, a, b, S
  <1>8. CASE ~MovesStock(w)
    <2>1. a = <<>> /\ b = <<>> /\ Len(<<>>) = 0
      BY <1>3, <1>8
    <2> QED BY <2>1 DEF Opposite, OneEach, a, b
  <1>9. CASE MovesStock(w)
    <2>1. DOMAIN k = 1..Len(k) /\ Len(k) \in Nat
      BY <1>5
    <2>2. /\ DOMAIN a = 1..Len(k) /\ DOMAIN b = 1..Len(k)
          /\ \A i \in 1..Len(k) : a[i] = SaleRow(w)[k[i]] /\ b[i] = SaleRow(z)[BackLine[k[i]]]
      BY <1>3, <1>4, <1>9, <2>1 DEF MapF
    <2>3. Len(a) = Len(k) /\ Len(b) = Len(k)
      BY <2>1, <2>2
    <2>4. ASSUME NEW i \in 1..Len(k)
          PROVE  /\ a[i].qty < 0 /\ b[i].qty = -a[i].qty /\ b[i].item = a[i].item
                 /\ b[i].warehouse = a[i].warehouse /\ b[i].uom = a[i].uom /\ a[i].item = k[i].item
      <3> DEFINE l == k[i]
                 n == BackLine[k[i]]
      <3>1. l \in Lines /\ l.qty > 0 /\ n \in Lines /\ n.qty = -l.qty /\ n.item = l.item
            /\ n.warehouse = l.warehouse /\ n.uom = l.uom /\ l.qty \in Int
        BY <1>7, BackLineIs, LineType
      <3>2. a[i] = SaleRow(w)[l] /\ b[i] = SaleRow(z)[n]
        BY <2>2
      <3>3. l.item = k[i].item
        OBVIOUS
      <3> HIDE DEF l, n
      <3>4. /\ a[i].item = l.item /\ a[i].qty = -l.qty /\ a[i].uom = l.uom
            /\ a[i].warehouse = Default(l.warehouse, w.set_warehouse)
        BY <3>1, <3>2, SaleRowIs
      <3>5. /\ b[i].item = n.item /\ b[i].qty = -n.qty /\ b[i].uom = n.uom
            /\ b[i].warehouse = Default(n.warehouse, z.set_warehouse)
        BY <3>1, <3>2, SaleRowIs
      <3>6. z.set_warehouse = w.set_warehouse
        BY DEF BroughtBack
      <3>7. a[i].qty < 0 /\ b[i].qty = -a[i].qty
        BY <3>1, <3>4, <3>5
      <3> QED BY <3>1, <3>3, <3>4, <3>5, <3>6, <3>7
    <2>5. ASSUME NEW i \in 1..Len(k), NEW j \in 1..Len(k), a[i].item = a[j].item PROVE i = j
      <3>1. k[i].item = k[j].item
        BY <2>4, <2>5
      <3>2. /\ m[i] \in 1..Len(w.items) /\ m[j] \in 1..Len(w.items)
            /\ w.items[m[i]] = k[i] /\ w.items[m[j]] = k[j]
        BY <1>6 DEF Embeds
      <3>3. m[i] = m[j]
        BY <3>1, <3>2 DEF SoldBy
      <3> QED BY <1>6, <3>3 DEF Embeds, Injective
    <2> QED BY <2>3, <2>4, <2>5 DEF Opposite, OneEach, a, b
  <1> QED BY <1>8, <1>9

\* What the payloads say of the settled ones.
IsReturn(z, w, o) ==
    /\ IsSettled(w) /\ IsSettled(z) /\ SoldBy(w) /\ BroughtBack(z, w)
    /\ w.update_stock \in BOOLEAN /\ z.is_return = TRUE /\ z.return_against = o
    /\ z.doctype \in Sales

\* A return of everything, settled, is one still.
LEMMA SoldAndReturned ==
    ASSUME NEW d \in Docs, NEW o \in Docs, SellsGoods(Vouchers[o]), ReturnsAll(d, o)
    PROVE  IsReturn(Settled(Vouchers[d]), Settled(Vouchers[o]), o)
  <1> DEFINE x == Vouchers[o]
             y == Vouchers[d]
             w == Settled(x)
             z == Settled(y)
             S == {l \in Lines : l.qty > 0}
  <1>1. x \in Payloads /\ y \in Payloads
    BY PayloadsAssumption
  <1>2. /\ x.items \in Seq(Lines) /\ x.update_stock \in BOOLEAN /\ y.is_return \in BOOLEAN
        /\ SameFields(w, x) /\ IsSettled(w) /\ SameFields(z, y) /\ IsSettled(z)
    BY <1>1, PayloadFields, SettledFields
  <1>3. /\ x.doctype \in Sales /\ \A l \in ToSet(x.items) : l.qty > 0
        /\ \A i, j \in DOMAIN x.items : x.items[i].item = x.items[j].item => i = j
    BY DEF SellsGoods, Sales
  <1>4. /\ y.is_return /\ y.return_against = o /\ y.doctype = x.doctype
        /\ y.update_stock = x.update_stock /\ y.set_warehouse = x.set_warehouse
        /\ y.items = [i \in DOMAIN x.items |-> [x.items[i] EXCEPT !.qty = -@]]
    BY DEF ReturnsAll, Map
  <1> HIDE DEF x, y, w, z
  <1>5. \A i \in DOMAIN x.items : BackLine[x.items[i]] = [x.items[i] EXCEPT !.qty = -@]
    BY <1>2 DEF BackLine
  <1>6. y.items = MapF(x.items, BackLine)
    BY <1>4, <1>5 DEF MapF
  <1>7. x.items \in Seq(S) /\ DOMAIN x.items = 1..Len(x.items)
    <2>1. \A i \in 1..Len(x.items) : x.items[i] \in ToSet(x.items) /\ x.items[i] \in Lines
      BY <1>2 DEF ToSet
    <2>2. \A i \in 1..Len(x.items) : x.items[i] \in S
      BY <1>3, <2>1
    <2> QED BY <1>2, <2>2
  <1>8. SoldBy(w)
    BY <1>2, <1>3, <1>7 DEF SoldBy, SameFields
  <1>9. BroughtBack(z, w)
    BY <1>2, <1>4, <1>6 DEF BroughtBack, SameFields
  <1>10. /\ w.update_stock \in BOOLEAN /\ z.is_return = TRUE /\ z.return_against = o
         /\ z.doctype \in Sales
    <2>1. z.is_return = y.is_return /\ z.return_against = y.return_against /\ z.doctype = y.doctype
          /\ w.update_stock = x.update_stock
      BY <1>2 DEF SameFields
    <2> QED BY <1>2, <1>3, <1>4, <2>1
  <1> QED BY <1>2, <1>8, <1>9, <1>10 DEF IsReturn, w, z, x, y

\* The first row of its item is the only one, so the goods come back at the
\* rate they were sold at.
SoldRows(a, s, o) == a = Keep(sles, OfVoucher(o)) /\ s \in Seq(Moves) /\ Shaped(a, s) /\ OneEach(s)

CostsWere(z, a, s) == \A i \in 1..Len(s) : \A prior : return_cost(z, Pair(s[i]), prior) = a[i].rate

\* A return is costed at the rates of the sale (return_cost).
LEMMA ReturnRate ==
    ASSUME sles \in Seq(Sles), NEW a, NEW s, NEW z, SoldRows(a, s, z.return_against)
    PROVE  CostsWere(z, a, s)
  <1> USE DEF SoldRows
  <1> SUFFICES ASSUME NEW i \in 1..Len(s), NEW prior PROVE return_cost(z, Pair(s[i]), prior) = a[i].rate
    BY DEF CostsWere
  <1> DEFINE p == Pair(s[i])
             I == {r \in Sles : r.item = p[1]}
             A == {r \in Sles : Pair(r) = p}
             q == Keep(a, I)
             t == Keep(q, A)
  <1>1. sles_for_voucher(z.return_against) = a /\ a \in Seq(Sles)
    BY VoucherRowsAre
  <1>2. Filter(a, LAMBDA r : r.item = p[1]) = q
    <2>1. \A j \in DOMAIN a : a[j].item = p[1] <=> a[j] \in I
      BY <1>1
    <2> QED BY <2>1 DEF Filter, FlatMap, Map, Keep
  <1>3. I \subseteq Sles /\ A \subseteq Sles /\ \A r \in A : r.item = p[1]
    BY DEF Pair
  <1>4. q \in Seq(Sles)
    BY <1>1, KeepIn
  <1>5. \A j \in 1..Len(s) : /\ a[j] \in Sles /\ a[j].item = s[j].item /\ a[j].warehouse = s[j].warehouse
                             /\ j \in 1..Len(a)
    BY <1>1 DEF Shaped
  <1>6. a[i] \in I /\ a[i] \in A
    BY <1>5 DEF Pair
  <1> HIDE DEF q
  <1>7. Filter(q, LAMBDA r : Pair(r) = p) = t
    <2>1. \A j \in DOMAIN q : Pair(q[j]) = p <=> q[j] \in A
      BY <1>4
    <2> QED BY <2>1 DEF Filter, FlatMap, Map, Keep
  <1>8. t \in Seq(Sles) /\ \A j \in 1..Len(t) : t[j] \in A
    <2> HIDE DEF A
    <2>1. t \in Seq(Sles) /\ \A j \in 1..Len(t) : t[j] \in Sles \cap A
      BY <1>4, KeepIn
    <2> QED BY <2>1
  <1> HIDE DEF I, A
  <1>9. PICK j \in DOMAIN q : q[j] = a[i]
    BY <1>1, <1>5, <1>6, KeepReaches DEF q
  <1>10. \E h \in DOMAIN t : t[h] = q[j]
    <2>1. j \in 1..Len(q) /\ q[j] \in A
      BY <1>4, <1>6, <1>9
    <2> QED BY <1>4, <2>1, KeepReaches
  <1> HIDE DEF t
  <1>11. t # <<>> /\ 1 \in 1..Len(t)
    BY <1>8, <1>10
  <1>12. return_cost(z, p, prior) = t[1].rate
    BY <1>1, <1>2, <1>7, <1>11 DEF return_cost
  <1>13. PICK m : Embeds(m, t, q)
    BY <1>4, KeepEmbeds DEF t
  <1>14. PICK n : Embeds(n, q, a)
    BY <1>1, KeepEmbeds DEF q
  <1>15. m[1] \in 1..Len(q) /\ q[m[1]] = t[1]
    BY <1>11, <1>13 DEF Embeds
  <1>16. n[m[1]] \in 1..Len(a) /\ a[n[m[1]]] = t[1]
    BY <1>14, <1>15 DEF Embeds
  <1>17. t[1].item = p[1] /\ p[1] = s[i].item
    BY <1>3, <1>8, <1>11 DEF Pair
  <1>18. n[m[1]] \in 1..Len(s)
    BY <1>16 DEF Shaped
  <1>19. s[n[m[1]]].item = s[i].item
    BY <1>5, <1>16, <1>17, <1>18
  <1>20. n[m[1]] = i
    BY <1>18, <1>19 DEF OneEach
  <1> QED BY <1>12, <1>16, <1>20

\* Rows of opposite value.
Mirror(a, b) ==
    /\ Len(a) = Len(b)
    /\ \A i \in 1..Len(a) : b[i].item = a[i].item /\ Value(b[i]) = Negated(Value(a[i]))

\* A return takes from the ledger what the sale put there.
LEMMA ReturnCosts ==
    ASSUME sles \in Seq(Sles), NEW d \in Docs, NEW o \in Docs, SellsGoods(Vouchers[o]), ReturnsAll(d, o),
           NEW z, z = Settled(Vouchers[d]), NEW a, a = Keep(sles, OfVoucher(o)),
           Shaped(a, derive_stock_rows(Settled(Vouchers[o]))),
           NEW t, t = MapF(Moved(z), StoreAs(d, "posted"))
    PROVE  Mirror(a, t)
  <1> DEFINE w == Settled(Vouchers[o])
             s == derive_stock_rows(w)
             b == derive_stock_rows(z)
             c == Costed(z)
  <1>1. /\ IsSettled(w) /\ IsSettled(z) /\ SoldBy(w) /\ BroughtBack(z, w) /\ w.update_stock \in BOOLEAN
        /\ z.is_return = TRUE /\ z.is_return \in BOOLEAN /\ z.return_against = o
    <2>1. IsReturn(z, w, o)
      BY SoldAndReturned
    <2> QED BY <2>1 DEF IsReturn
  <1>2. Opposite(s, b) /\ OneEach(s)
    BY <1>1, ReturnedRows
  <1>3. /\ s \in Seq(Moves) /\ b \in Seq(Moves) /\ c \in Seq(Moves) /\ Len(c) = Len(b)
        /\ c = CostRows(z, b) /\ Moved(z) = SpreadProduction(z, c)
    BY <1>1, StockRowsAre, MovedType DEF Costed, Moved
  <1>4. Shaped(a, s) /\ a \in Seq(Sles)
    BY VoucherRowsAre
  <1>5. Shaped(t, b) /\ t \in Seq(Sles)
    BY <1>1, ShapedRows
  <1> HIDE DEF w, s, b, c
  <1>6. Len(a) = Len(s) /\ Len(t) = Len(s) /\ Len(b) = Len(s)
    BY <1>2, <1>4, <1>5 DEF Shaped, Opposite
  <1>7. ASSUME NEW i \in 1..Len(s)
        PROVE  t[i].item = a[i].item /\ Value(t[i]) = Negated(Value(a[i]))
    <2>1. /\ s[i].qty < 0 /\ b[i].qty = -s[i].qty /\ b[i].item = s[i].item
          /\ b[i].warehouse = s[i].warehouse /\ b[i].uom = s[i].uom
      BY <1>2 DEF Opposite
    <2>2. s[i] \in Moves /\ b[i] \in Moves /\ i \in 1..Len(b)
      BY <1>3, <1>6
    <2>3. /\ a[i].item = s[i].item /\ a[i].qty = Units(s[i])
          /\ t[i].item = b[i].item /\ t[i].qty = Units(b[i])
      BY <1>4, <1>5, <1>6 DEF Shaped
    <2>4. Units(b[i]) = -Units(s[i]) /\ Units(s[i]) \in Int /\ Units(b[i]) > 0
      <3> DEFINE f == uom_factor(s[i].item, s[i].uom)
      <3>1. f \in Nat \ {0}
        BY FactorType
      <3>2. Units(s[i]) = s[i].qty * f /\ Units(b[i]) = (-s[i].qty) * f
        BY <2>1 DEF Units
      <3>3. s[i].qty \in Int
        BY <2>2, MoveType
      <3> HIDE DEF f
      <3>4. (-s[i].qty) * f = -(s[i].qty * f) /\ s[i].qty * f \in Int
        BY <3>1, <3>3
      <3>5. b[i].qty > 0
        BY <2>1, <3>3
      <3> QED BY <2>2, <3>2, <3>4, <3>5, UnitsSign
    <2>5. c[i].rate = a[i].rate
      <3> DEFINE u == SubSeq(c, 1, i - 1)
                 p == Pair(s[i])
      <3>1. c[i] = CostOf(z, u, b[i])
        BY <1>1, <1>3, <2>2, CostRowsAre
      <3>2. c[i].rate = CostRate(z, u, b[i])
        BY <2>2, <3>1, CostOfFields
      <3> HIDE DEF u
      <3>3. Pair(b[i]) = p
        BY <2>1 DEF Pair
      <3>4. b[i].qty * uom_factor(b[i].item, b[i].uom) > 0 /\ b[i].qty * uom_factor(b[i].item, b[i].uom) \in Int
        BY <2>4 DEF Units
      <3>5. CostRate(z, u, b[i]) = return_cost(z, Pair(b[i]), prior_for(Pair(b[i]), u))
        BY <1>1, <3>4 DEF CostRate
      <3> HIDE DEF p
      <3>6. return_cost(z, p, prior_for(p, u)) = a[i].rate
        <4> DEFINE y == prior_for(p, u)
        <4>1. SoldRows(a, s, z.return_against)
          BY <1>1, <1>2, <1>3, <1>4 DEF SoldRows
        <4> HIDE DEF y
        <4>2. CostsWere(z, a, s)
          BY <4>1, ReturnRate
        <4>3. return_cost(z, Pair(s[i]), y) = a[i].rate
          BY <4>2 DEF CostsWere
        <4> QED BY <4>3 DEF y, p
      <3> QED BY <3>2, <3>3, <3>5, <3>6
    <2>6. t[i].rate = c[i].rate
      <3>1. AsStored(c, t, d, z, i)
        BY <1>3, <1>6, StoredAs
      <3>2. ~IsOutput(z, c[i])
        BY <1>1 DEF IsOutput
      <3> QED BY <3>1, <3>2 DEF AsStored
    <2>7. a[i].qty \in Int /\ a[i].rate \in Fractions /\ Whole(a[i].qty) \in Fractions
      <3>1. a[i] \in Sles
        BY <1>4, <1>6
      <3> QED BY <3>1, WholeType DEF Sles
    <2>8. Whole(-a[i].qty) = Negated(Whole(a[i].qty))
      BY <2>7, ZeroSums
    <2>9. Value(t[i]) = Negated(Whole(a[i].qty)) ** a[i].rate
      BY <2>3, <2>4, <2>5, <2>6, <2>8 DEF Value
    <2>10. Value(t[i]) = Negated(Value(a[i]))
      BY <2>7, <2>9, NegatedTimes DEF Value
    <2> QED BY <2>1, <2>3, <2>10
  <1> QED BY <1>6, <1>7 DEF Mirror

\* A row of d follows a row of o.
After(s, o, d) == \E k, m \in 1..Len(s) : k < m /\ s[k].voucher = o /\ s[m].voucher = d

ReturnInv ==
    \A d, o \in Docs :
        /\ status[d] = "posted" /\ status[o] = "posted"
        /\ SellsGoods(Vouchers[o]) /\ ReturnsAll(d, o) /\ After(sles, o, d)
        => Mirror(Keep(sles, OfVoucher(o)), Keep(sles, OfVoucher(d)))

\* Rows of document e are appended.
LEMMA AfterAppended ==
    ASSUME sles \in Seq(Sles), NEW e \in Docs, NEW t \in Seq(Sles), \A i \in 1..Len(t) : t[i].voucher = e,
           NEW o \in Docs, NEW d \in Docs, d # e, After(sles \o t, o, d)
    PROVE  /\ o # e => After(sles, o, d)
           /\ \E k \in 1..Len(sles) : sles[k].voucher = o
  <1> DEFINE z == sles \o t
  <1>1. PICK k \in 1..Len(z), m \in 1..Len(z) : k < m /\ z[k].voucher = o /\ z[m].voucher = d
    BY DEF After
  <1>2. Len(z) = Len(sles) + Len(t) /\ Len(sles) \in Nat /\ Len(t) \in Nat
        /\ \A j \in 1..(Len(sles) + Len(t)) : z[j] = IF j <= Len(sles) THEN sles[j] ELSE t[j - Len(sles)]
    BY ConcatIs
  <1> HIDE DEF z
  <1>3. m <= Len(sles)
    <2> SUFFICES ASSUME ~(m <= Len(sles)) PROVE FALSE
      OBVIOUS
    <2>1. m - Len(sles) \in 1..Len(t) /\ z[m] = t[m - Len(sles)]
      BY <1>2
    <2> QED BY <1>1, <2>1
  <1>4. k \in 1..Len(sles) /\ m \in 1..Len(sles)
    BY <1>1, <1>2, <1>3
  <1>5. z[k] = sles[k] /\ z[m] = sles[m]
    BY <1>2, <1>4
  <1> QED BY <1>1, <1>4, <1>5 DEF After

\* A submit of a return mirrors the rows of the sale.
LEMMA ReturnSubmit ==
    ASSUME LedgerTypeOK, FreshInv, ShapeInv, ReturnInv, NEW e \in Docs, NEW w, Submits(e, w), IsSettled(w),
           SameFields(w, Vouchers[e]), w.is_return \in BOOLEAN
    PROVE  ReturnInv'
  <1> DEFINE t == MapF(Moved(w), StoreAs(e, "posted"))
  <1>1. sles \in Seq(Sles) /\ w = Settled(Vouchers[e]) /\ sles' = sles \o t
    BY DEF LedgerTypeOK, Submits
  <1>2. Shaped(t, derive_stock_rows(w)) /\ t \in Seq(Sles) /\ \A i \in 1..Len(t) : t[i].voucher = e
    BY <1>1, ShapedRows
  <1>3. \A i \in 1..Len(sles) : sles[i].voucher # e
    BY DEF FreshInv, Submits
  <1>4. \A d \in Docs : d # e => status'[d] = status[d]
    BY DEF Submits, LedgerTypeOK
  <1>5. t = MapF(Moved(w), StoreAs(e, "posted"))
    OBVIOUS
  <1> HIDE DEF t
  <1>6. /\ \A d \in Docs : d # e => Keep(sles', OfVoucher(d)) = Keep(sles, OfVoucher(d))
        /\ Keep(sles', OfVoucher(e)) = t
    BY <1>1, <1>2, <1>3, VoucherAppended
  <1>7. ASSUME NEW d \in Docs, NEW o \in Docs, status'[d] = "posted", status'[o] = "posted",
               SellsGoods(Vouchers[o]), ReturnsAll(d, o), After(sles \o t, o, d)
        PROVE  Mirror(Keep(sles', OfVoucher(o)), Keep(sles', OfVoucher(d)))
    <2>1. CASE d # e
      <3>1. o # e
        BY <1>1, <1>2, <1>3, <1>7, <2>1, AfterAppended
      <3>2. After(sles, o, d)
        BY <1>1, <1>2, <1>7, <2>1, <3>1, AfterAppended
      <3>3. Mirror(Keep(sles, OfVoucher(o)), Keep(sles, OfVoucher(d)))
        BY <1>4, <1>7, <2>1, <3>1, <3>2 DEF ReturnInv
      <3> QED BY <1>6, <2>1, <3>1, <3>3
    <2>2. CASE d = e /\ o # e
      <3>1. Shaped(Keep(sles, OfVoucher(o)), derive_stock_rows(Settled(Vouchers[o])))
        BY <1>4, <1>7, <2>2 DEF ShapeInv
      <3>2. Mirror(Keep(sles, OfVoucher(o)), t)
        BY <1>1, <1>5, <1>7, <2>2, <3>1, ReturnCosts
      <3> QED BY <1>6, <2>2, <3>2
    <2>3. CASE d = e /\ o = e
      <3> DEFINE s == derive_stock_rows(w)
      <3>1. IsReturn(w, w, e)
        BY <1>1, <1>7, <2>3, SoldAndReturned
      <3>2. Opposite(s, s) /\ s \in Seq(Moves)
        BY <3>1, ReturnedRows, StockRowsAre DEF IsReturn
      <3>3. Len(t) = Len(s)
        BY <1>2 DEF Shaped
      <3> HIDE DEF s
      <3>4. \A i \in 1..Len(s) : s[i].qty < 0 /\ s[i].qty = -s[i].qty /\ s[i].qty \in Int
        BY <3>2, MoveType DEF Opposite
      <3>5. \A i \in 1..Len(s) : FALSE
        BY <3>4
      <3>6. \A i \in 1..Len(t) : FALSE
        BY <3>3, <3>5
      <3>7. Mirror(t, t)
        BY <3>6 DEF Mirror
      <3> QED BY <1>6, <2>3, <3>7
    <2> QED BY <2>1, <2>2, <2>3
  <1> QED BY <1>1, <1>7 DEF ReturnInv

\* A cancel keeps it.
LEMMA ReturnCancel ==
    ASSUME LedgerTypeOK, ReturnInv, NEW e \in Docs, Cancels(e)
    PROVE  ReturnInv'
  <1> DEFINE t == MapF(Keep(sles, OfVoucher(e)), ReverseSle(e))
  <1>1. sles \in Seq(Sles) /\ sles' = sles \o t
    BY DEF LedgerTypeOK, Cancels
  <1>2. t \in Seq(Sles) /\ \A i \in 1..Len(t) : t[i].voucher = e
    <2>1. Keep(sles, OfVoucher(e)) \in Seq(Sles)
      BY <1>1, KeepIn
    <2> QED BY <2>1, BackVouchers
  <1>3. status'[e] # "posted" /\ \A d \in Docs : d # e => status'[d] = status[d]
    BY DEF Cancels, LedgerTypeOK
  <1> HIDE DEF t
  <1>4. \A d \in Docs : d # e => Keep(sles', OfVoucher(d)) = Keep(sles, OfVoucher(d))
    BY <1>1, <1>2, VoucherAppended
  <1>5. ASSUME NEW d \in Docs, NEW o \in Docs, status'[d] = "posted", status'[o] = "posted",
               SellsGoods(Vouchers[o]), ReturnsAll(d, o), After(sles \o t, o, d)
        PROVE  Mirror(Keep(sles', OfVoucher(o)), Keep(sles', OfVoucher(d)))
    <2>1. d # e /\ o # e
      BY <1>3, <1>5
    <2>2. After(sles, o, d)
      BY <1>1, <1>2, <1>5, <2>1, AfterAppended
    <2>3. Mirror(Keep(sles, OfVoucher(o)), Keep(sles, OfVoucher(d)))
      BY <1>3, <1>5, <2>1, <2>2 DEF ReturnInv
    <2> QED BY <1>4, <2>1, <2>3
  <1> QED BY <1>1, <1>5 DEF ReturnInv

\* ReturnInv is inductive.
LEMMA ReturnStep ==
    LedgerTypeOK /\ FreshInv /\ ShapeInv /\ ReturnInv /\ [Next]_vars => ReturnInv'
  <1> SUFFICES ASSUME LedgerTypeOK, FreshInv, ShapeInv, ReturnInv, [Next]_vars PROVE ReturnInv'
    OBVIOUS
  <1>1. CASE UNCHANGED <<company, status, gl, party_transactions, tax_transactions, sles, bins>>
    BY <1>1 DEF ReturnInv
  <1> QED BY <1>1, Steps, ReturnSubmit, ReturnCancel

\* ReturnInv holds at the start.
LEMMA ReturnInit == Init => ReturnInv
  BY DEF Init, ReturnInv

\* Opposite rows add up to nothing.
LEMMA OppositeSums ==
    ASSUME NEW S, NEW f \in [S -> Fractions], NEW a \in Seq(S), NEW b \in Seq(S), Len(a) = Len(b),
           \A i \in 1..Len(a) : f[b[i]] = Negated(f[a[i]])
    PROVE  FracSum(MapF(a, f)) ++ FracSum(MapF(b, f)) = Zero
  <1> DEFINE x == MapF(a, f)
             y == MapF(b, f)
  <1>1. x \in Seq(Fractions) /\ Len(x) = Len(a)
    BY MeasuredSeq
  <1>2. DOMAIN a = 1..Len(a) /\ DOMAIN b = 1..Len(a) /\ DOMAIN x = 1..Len(a)
    BY <1>1
  <1>3. \A i \in 1..Len(a) : x[i] = f[a[i]] /\ y[i] = f[b[i]]
    BY <1>2 DEF MapF
  <1>4. y = [i \in DOMAIN x |-> Negated(x[i])]
    <2>1. y = [i \in 1..Len(a) |-> y[i]]
      BY <1>2 DEF MapF
    <2> HIDE DEF x, y
    <2>2. \A i \in 1..Len(a) : y[i] = Negated(x[i])
      BY <1>3
    <2> QED BY <1>2, <2>1, <2>2
  <1> HIDE DEF x, y
  <1>5. FracSum(y) = Negated(FracSum(x)) /\ FracSum(x) \in Fractions
    BY <1>1, <1>4, FracSumNegated, FracSumType
  <1>6. FracSum(x) ++ FracSum(y) = Zero
    BY <1>5, PlusNegated
  <1> QED BY <1>6 DEF x, y

\* A sale and its whole return are worth nothing together.
LEMMA MirrorSums ==
    ASSUME NEW a \in Seq(StockRows), NEW b \in Seq(StockRows), Mirror(a, b)
    PROVE  /\ FracSum(MapF(a, ValueOf)) ++ FracSum(MapF(b, ValueOf)) = Zero
           /\ FracSum(MapF(a, CogsOf)) ++ FracSum(MapF(b, CogsOf)) = Zero
  <1>1. /\ Len(a) = Len(b)
        /\ \A i \in 1..Len(a) : /\ a[i] \in StockRows /\ b[i] \in StockRows /\ b[i].item = a[i].item
                                /\ Value(b[i]) = Negated(Value(a[i]))
    BY DEF Mirror
  <1>2. \A i \in 1..Len(a) : ValueOf[b[i]] = Negated(ValueOf[a[i]])
    BY <1>1 DEF ValueOf
  <1>3. \A i \in 1..Len(a) : CogsOf[b[i]] = Negated(CogsOf[a[i]])
    <2> TAKE i \in 1..Len(a)
    <2>1. CogsAccount(b[i]) = CogsAccount(a[i])
      BY <1>1 DEF CogsAccount
    <2>2. /\ CogsOf[a[i]] = IF CogsAccount(a[i]) = "cogs" THEN Negated(Value(a[i])) ELSE Zero
          /\ CogsOf[b[i]] = IF CogsAccount(a[i]) = "cogs" THEN Negated(Value(b[i])) ELSE Zero
      BY <1>1, <2>1 DEF CogsOf
    <2> QED BY <1>1, <2>2, NegatedZero
  <1>4. ValueOf \in [StockRows -> Fractions] /\ CogsOf \in [StockRows -> Fractions]
    BY MeasureTypes, CogsType
  <1>5. FracSum(MapF(a, ValueOf)) ++ FracSum(MapF(b, ValueOf)) = Zero
    BY <1>1, <1>2, <1>4, OppositeSums
  <1>6. FracSum(MapF(a, CogsOf)) ++ FracSum(MapF(b, CogsOf)) = Zero
    BY <1>1, <1>3, <1>4, OppositeSums
  <1> QED BY <1>5, <1>6

\* The invariants give the property on returns.
LEMMA ReturnImplies == LedgerTypeOK /\ InvInv /\ CogsInv /\ ReturnInv => ReturnsAtOriginalCost
  <1> SUFFICES ASSUME LedgerTypeOK, InvInv, CogsInv, ReturnInv, NEW d \in Docs, NEW o \in Docs,
                      status[d] = "posted", status[o] = "posted",
                      SellsGoods(Vouchers[o]), ReturnsAll(d, o),
                      \A v \in {Vouchers[d], Vouchers[o]} :
                         SeparateAccounts(v) /\ "cogs" \notin OtherAccounts(v),
                      \E k, m \in DOMAIN sles : k < m /\ sles[k].voucher = o /\ sles[m].voucher = d,
                      NEW A \in {InventoryAccounts, {"cogs"}}
               PROVE  OnAccounts(gl[o] \o gl[d], A, Amount) = Zero
    BY DEF ReturnsAtOriginalCost, Written
  <1> DEFINE a == Keep(sles, OfVoucher(o))
             b == Keep(sles, OfVoucher(d))
  <1>1. sles \in Seq(Sles) /\ gl[o] \in Seq(GlRows) /\ gl[d] \in Seq(GlRows)
    BY DEF LedgerTypeOK
  <1>2. After(sles, o, d)
    <2>1. DOMAIN sles = 1..Len(sles)
      BY <1>1
    <2> QED BY <2>1 DEF After
  <1>3. Mirror(a, b)
    BY <1>2 DEF ReturnInv
  <1>4. a \in Seq(StockRows) /\ b \in Seq(StockRows)
    BY <1>1, KeepIn, SubRows
  <1>5. Vouchers[o].doctype \in Sales /\ Vouchers[d].doctype \in Sales
    BY DEF SellsGoods, ReturnsAll, Sales
  <1>6. OnAccounts(gl[o] \o gl[d], A, Amount) =
          FracSum(MapF(gl[o], OnAmount(A))) ++ FracSum(MapF(gl[d], OnAmount(A)))
    <2> DEFINE x == gl[o]
               y == gl[d]
    <2>1. x \in Seq(GlRows) /\ y \in Seq(GlRows) /\ OnAmount(A) \in [GlRows -> Fractions]
      BY <1>1, MeasureTypes
    <2> HIDE DEF x, y
    <2>2. x \o y \in Seq(GlRows)
      BY <2>1
    <2>3. OnAccounts(x \o y, A, Amount) = FracSum(MapF(x \o y, OnAmount(A)))
      BY <2>2, OnAccountsIs
    <2>4. FracSum(MapF(x \o y, OnAmount(A))) = FracSum(MapF(x, OnAmount(A))) ++ FracSum(MapF(y, OnAmount(A)))
      BY <2>1, SumConcat
    <2> QED BY <2>3, <2>4 DEF x, y
  <1>7. CASE A = InventoryAccounts
    <2>1. \A e \in {d, o} : Neutral(Vouchers[e], Keep(sles, First(e)))
      BY <1>5 DEF Neutral, Sales
    <2>2. Reconciled(o) /\ Reconciled(d)
      BY <2>1 DEF InvInv
    <2>3. /\ FracSum(MapF(gl[o], OnAmount(A))) = FracSum(MapF(a, ValueOf))
          /\ FracSum(MapF(gl[d], OnAmount(A))) = FracSum(MapF(b, ValueOf))
      BY <1>7, <2>2 DEF Reconciled, SumIf
    <2>4. FracSum(MapF(a, ValueOf)) ++ FracSum(MapF(b, ValueOf)) = Zero
      <3> HIDE DEF a, b
      <3> QED BY <1>3, <1>4, MirrorSums
    <2> QED BY <1>6, <2>3, <2>4
  <1>8. CASE A = {"cogs"}
    <2>1. SaleOf(Vouchers[o]) /\ SaleOf(Vouchers[d])
      BY <1>5 DEF SaleOf
    <2>2. /\ FracSum(MapF(gl[o], OnAmount(A))) = FracSum(MapF(a, CogsOf))
          /\ FracSum(MapF(gl[d], OnAmount(A))) = FracSum(MapF(b, CogsOf))
      BY <1>8, <2>1 DEF CogsInv
    <2>3. FracSum(MapF(a, CogsOf)) ++ FracSum(MapF(b, CogsOf)) = Zero
      <3> HIDE DEF a, b
      <3> QED BY <1>3, <1>4, MirrorSums
    <2> QED BY <1>6, <2>2, <2>3
  <1> QED BY <1>7, <1>8

\* The inductive invariant behind CostsExact.
CostsInv == LedgerTypeOK /\ FreshInv /\ CostInv /\ InvInv /\ CogsInv /\ ShapeInv /\ ReturnInv

\* Goods go out at what they cost when they came in: the oldest first under
\* FIFO, within the rounding of a cent under the moving average, and the whole
\* return of a sale undoes the cost of the sale, whatever is submitted and
\* cancelled in between (issue_rate, fifo_rate, return_cost, stock_gl_legs).
THEOREM CostsAlwaysExact == Spec => []CostsExact
  <1>1. Init => CostsInv
    BY TypeInit, FreshInit, CostInit, InvInit, CogsInit, ReturnInit DEF CostsInv
  <1>2. CostsInv /\ [Next]_vars => CostsInv'
    BY TypeStep, FreshStep, CostStep, InvStep, CogsStep, ReturnStep DEF CostsInv
  <1>3. CostsInv => CostsExact
    BY FifoImplies, DrainImplies, ReturnImplies DEF CostsInv, CostsExact
  <1> QED BY <1>1, <1>2, <1>3, PTL DEF Spec
=============================================================================
