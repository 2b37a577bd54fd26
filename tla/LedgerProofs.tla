---------------------------- MODULE LedgerProofs ----------------------------
(***************************************************************************)
(* Proofs about the rows the engine writes, for every set of documents,    *)
(* items, accounts, rates and units, and every order of submitting and     *)
(* cancelling them: what is cancelled nets out, the base currency          *)
(* balances, and the control and VAT accounts agree with their             *)
(* subledgers.  StockProofs goes on with stock and costs.                  *)
(*                                                                         *)
(* Money is exact, so the first part builds the field of fractions and the *)
(* algebra of sums over rows.  The second says, doctype by doctype, which  *)
(* rows a document writes and of what type.  The rest is one inductive     *)
(* invariant per property:                                                 *)
(*                                                                         *)
(*    VoucherNetsOut        NetInv                                         *)
(*    BaseLedgerBalances    itself, on FreshInv                            *)
(*    SubledgersAgree       PartyInv and TaxInv, on FreshInv               *)
(***************************************************************************)
EXTENDS Ledger, SequenceTheorems, SumTheorems

-----------------------------------------------------------------------------
(* Fractions: the field, and induction over 0..n and over sequences.       *)

\* A multiple of d is divided by d without a remainder.
LEMMA ModZero ==
    ASSUME NEW a \in Int, NEW d \in Nat \ {0}
    PROVE  /\ a % d = 0 => (a \div d) * d = a
           /\ \A k \in Int : a = k * d => a % d = 0 /\ a \div d = k
  <1>1. a = d * (a \div d) + (a % d) /\ a \div d \in Int /\ a % d \in 0..(d-1)
    OBVIOUS
  <1>2. ASSUME a % d = 0 PROVE (a \div d) * d = a
    BY <1>1, <1>2
  <1>3. ASSUME NEW k \in Int, a = k * d PROVE a % d = 0 /\ a \div d = k
    <2> DEFINE q == a \div d
               r == a % d
    <2> HIDE DEF q, r
    <2>1. k * d = d * q + r /\ q \in Int /\ r \in Int /\ 0 <= r /\ r < d
      BY <1>1, <1>3 DEF q, r
    <2>2. k = q
      <3>1. d * (k - q) = r
        BY <2>1
      <3>2. k - q >= 1 => d * (k - q) >= d
        BY <2>1
      <3>3. k - q <= -1 => d * (k - q) <= -d
        BY <2>1
      <3> QED BY <2>1, <3>1, <3>2, <3>3
    <2>3. r = 0
      BY <2>1, <2>2
    <2> QED BY <2>2, <2>3 DEF q, r
  <1> QED BY <1>2, <1>3

\* Denominator is the least factor that makes n / d whole.
LEMMA DenominatorIs ==
    ASSUME NEW n \in Int, NEW d \in Nat \ {0}
    PROVE  /\ Denominator(n, d) \in 1..d
           /\ (n * Denominator(n, d)) % d = 0
           /\ \A f \in 1..(Denominator(n, d) - 1) : (n * f) % d # 0
  <1> DEFINE T == {e \in 1..d : (n * e) % d = 0}
  <1>1. (n * d) % d = 0
    BY ModZero
  <1>2. d \in T /\ T \in SUBSET Nat
    BY <1>1
  <1>3. PICK e \in T : \A m \in T : e <= m
    <2>1. T # {}
      BY <1>2
    <2> QED BY <1>2, <2>1, LeastNat
  <1>4. \A f \in 1..(e-1) : (n * f) % d # 0
    BY <1>3
  <1> QED BY <1>3, <1>4 DEF Denominator

\* A factor other than 0 cancels.
LEMMA Cancel ==
    ASSUME NEW a \in Int, NEW b \in Int, NEW c \in Int \ {0}, a * c = b * c
    PROVE  a = b
  <1>1. (a - b) * c = 0
    OBVIOUS
  <1>2. a - b = 0
    BY <1>1
  <1> QED BY <1>2

\* Frac(n, d) is the quotient of n and d, in lowest terms.
LEMMA FracIs ==
    ASSUME NEW n \in Int, NEW d \in Int \ {0}
    PROVE  /\ Frac(n, d) \in Fractions
           /\ Frac(n, d)[1] * d = n * Frac(n, d)[2]
  <1> DEFINE s == IF d < 0 THEN -1 ELSE 1
             p == s * n
             q == s * d
             e == Denominator(p, q)
             r == (p * e) \div q
  <1>1. p \in Int /\ q \in Nat \ {0} /\ (s = 1 \/ s = -1)
    OBVIOUS
  <1>2. Frac(n, d) = <<r, e>>
    BY DEF Frac
  <1> HIDE DEF s, p, q
  <1>3. e \in 1..q /\ (p * e) % q = 0 /\ \A f \in 1..(e - 1) : (p * f) % q # 0
    BY <1>1, DenominatorIs
  <1> HIDE DEF e
  <1>4. r * q = p * e /\ r \in Int /\ e \in Nat \ {0}
    BY <1>1, <1>3, ModZero
  <1> HIDE DEF r
  <1>5. Denominator(r, e) = e
    <2> DEFINE f == Denominator(r, e)
    <2>1. f \in 1..e /\ (r * f) % e = 0
      BY <1>4, DenominatorIs
    <2> HIDE DEF f
    <2>2. ASSUME f # e PROVE FALSE
      <3>1. PICK k \in Int : r * f = k * e
        <4>1. r * f \in Int
          BY <1>4, <2>1
        <4>2. ((r * f) \div e) * e = r * f /\ (r * f) \div e \in Int
          BY <1>4, <2>1, <4>1, ModZero
        <4> QED BY <4>2
      <3>2. (p * f) * e = (k * q) * e
        <4>1. (p * f) * e = (p * e) * f
          BY <1>1, <1>4, <2>1
        <4>2. (p * e) * f = (r * f) * q
          BY <1>1, <1>4, <2>1
        <4>3. (k * e) * q = (k * q) * e
          BY <1>1, <1>4, <3>1
        <4> QED BY <3>1, <4>1, <4>2, <4>3
      <3>3. p * f = k * q
        BY <1>1, <1>4, <2>1, <3>2, Cancel
      <3>4. (p * f) % q = 0
        BY <1>1, <2>1, <3>3, ModZero
      <3> QED BY <1>3, <1>4, <2>1, <2>2, <3>4
    <2> QED BY <2>2 DEF f
  <1>6. r * d = n * e
    BY <1>1, <1>4 DEF p, q
  <1> QED BY <1>2, <1>4, <1>5, <1>6 DEF Fractions

\* A fraction is a pair of a numerator and a positive denominator.
LEMMA FractionType ==
    ASSUME NEW x \in Fractions
    PROVE  x = <<x[1], x[2]>> /\ x[1] \in Int /\ x[2] \in Nat \ {0}
  BY DEF Fractions

\* Equal in value, equal.
LEMMA FractionsUnique ==
    ASSUME NEW x \in Fractions, NEW y \in Fractions, x[1] * y[2] = y[1] * x[2]
    PROVE  x = y
  <1> DEFINE a == x[1]
             b == x[2]
             c == y[1]
             d == y[2]
  <1>1. /\ a \in Int /\ c \in Int /\ b \in Nat \ {0} /\ d \in Nat \ {0}
        /\ x = <<a, b>> /\ y = <<c, d>>
    BY FractionType
  <1>2. Denominator(a, b) = b /\ Denominator(c, d) = d
    BY DEF Fractions
  <1>3. a * d = c * b
    OBVIOUS
  <1> HIDE DEF a, b, c, d
  <1>4. (a * d) % b = 0 /\ (c * b) % d = 0
    <2> DEFINE p == a * d
    <2>1. p \in Int /\ p = c * b /\ p = a * d
      BY <1>1, <1>3
    <2> HIDE DEF p
    <2>2. p % b = 0
      BY <1>1, <2>1, ModZero
    <2>3. p % d = 0
      BY <1>1, <2>1, ModZero
    <2> QED BY <2>1, <2>2, <2>3
  <1>5. ~(d < b) /\ ~(b < d)
    <2>1. /\ \A f \in 1..(b - 1) : (a * f) % b # 0
          /\ \A f \in 1..(d - 1) : (c * f) % d # 0
      <3>1. \A f \in 1..(Denominator(a, b) - 1) : (a * f) % b # 0
        BY <1>1, DenominatorIs
      <3>2. \A f \in 1..(Denominator(c, d) - 1) : (c * f) % d # 0
        BY <1>1, DenominatorIs
      <3> QED BY <1>2, <3>1, <3>2
    <2>2. d < b => d \in 1..(b - 1)
      BY <1>1
    <2>3. b < d => b \in 1..(d - 1)
      BY <1>1
    <2> QED BY <1>4, <2>1, <2>2, <2>3, Zenon
  <1>6. b = d
    BY <1>1, <1>5
  <1>7. a = c
    BY <1>1, <1>3, <1>6, Cancel
  <1> QED BY <1>1, <1>6, <1>7

\* A whole number is a fraction.
LEMMA WholeType == \A n \in Int : Whole(n) \in Fractions
  <1> SUFFICES ASSUME NEW n \in Int PROVE Whole(n) \in Fractions
    OBVIOUS
  <1>1. Denominator(n, 1) = 1
    BY DenominatorIs
  <1> QED BY <1>1 DEF Whole, Fractions

\* Zero is a fraction.
LEMMA ZeroType == Zero \in Fractions
  BY WholeType DEF Zero

\* Only Zero has the numerator 0.
LEMMA ZeroIs ==
    ASSUME NEW x \in Fractions PROVE x = Zero <=> x[1] = 0
  <1>1. Zero \in Fractions /\ Zero[1] = 0 /\ Zero[2] = 1
    BY ZeroType DEF Zero, Whole
  <1>2. ASSUME x[1] = 0 PROVE x = Zero
    BY <1>1, <1>2, FractionsUnique, FractionType
  <1> QED BY <1>1, <1>2

\* The opposite has the opposite numerator.
LEMMA NegatedType ==
    ASSUME NEW x \in Fractions
    PROVE  Negated(x) \in Fractions /\ Negated(x)[1] = -x[1] /\ Negated(x)[2] = x[2]
  <1> DEFINE a == x[1]
             b == x[2]
             e == Denominator(-a, b)
  <1>1. a \in Int /\ b \in Nat \ {0} /\ -a \in Int
    BY FractionType
  <1>2. Denominator(a, b) = b
    BY DEF Fractions
  <1>3. e \in 1..b /\ ((-a) * e) % b = 0
    BY <1>1, DenominatorIs
  <1> HIDE DEF a, b, e
  <1>4. (a * e) % b = 0
    <2> DEFINE k == ((-a) * e) \div b
    <2>1. k * b = (-a) * e /\ k \in Int
      BY <1>1, <1>3, ModZero
    <2> HIDE DEF k
    <2>2. a * e = (-k) * b /\ -k \in Int /\ a * e \in Int
      BY <1>1, <1>3, <2>1
    <2> QED BY <1>1, <2>2, ModZero
  <1>5. \A f \in 1..(b - 1) : (a * f) % b # 0
    BY <1>1, <1>2, DenominatorIs
  <1>6. e = b
    BY <1>1, <1>3, <1>4, <1>5
  <1> QED BY <1>1, <1>6 DEF a, b, e, Negated, Fractions

\* What a sum of fractions is, in integers.
LEMMA PlusIs ==
    ASSUME NEW x \in Fractions, NEW y \in Fractions
    PROVE  /\ x ++ y \in Fractions
           /\ (x ++ y)[1] * (x[2] * y[2]) = (x[1] * y[2] + y[1] * x[2]) * (x ++ y)[2]
  <1>1. x[1] * y[2] + y[1] * x[2] \in Int /\ x[2] * y[2] \in Int \ {0}
    BY FractionType
  <1> QED BY <1>1, FracIs DEF ++

\* A difference is the sum with the opposite.
LEMMA MinusIs ==
    ASSUME NEW x \in Fractions, NEW y \in Fractions
    PROVE  x -- y \in Fractions /\ x -- y = x ++ Negated(y)
  <1>1. x[1] * y[2] - y[1] * x[2] \in Int /\ x[2] * y[2] \in Int \ {0}
    BY FractionType
  <1>2. x[1] * y[2] - y[1] * x[2] = x[1] * y[2] + (-y[1]) * x[2]
    BY FractionType
  <1> QED BY <1>1, <1>2, FracIs, NegatedType DEF ++, --

\* What a product of fractions is, in integers.
LEMMA TimesIs ==
    ASSUME NEW x \in Fractions, NEW y \in Fractions
    PROVE  /\ x ** y \in Fractions
           /\ (x ** y)[1] * (x[2] * y[2]) = (x[1] * y[1]) * (x ** y)[2]
  <1>1. x[1] * y[1] \in Int /\ x[2] * y[2] \in Int \ {0}
    BY FractionType
  <1> QED BY <1>1, FracIs DEF **

\* What a quotient of fractions is, in integers.
LEMMA DivideIs ==
    ASSUME NEW x \in Fractions, NEW y \in Fractions, y # Zero
    PROVE  /\ x // y \in Fractions
           /\ (x // y)[1] * (x[2] * y[1]) = (x[1] * y[2]) * (x // y)[2]
  <1>1. x[1] * y[2] \in Int /\ x[2] * y[1] \in Int \ {0}
    BY FractionType, ZeroIs
  <1> QED BY <1>1, FracIs DEF //

\* Fractions of the same value are equal.
LEMMA FracCong ==
    ASSUME NEW n \in Int, NEW d \in Int \ {0}, NEW m \in Int, NEW e \in Int \ {0},
           n * e = m * d
    PROVE  Frac(n, d) = Frac(m, e)
  <1> DEFINE x == Frac(n, d)
             y == Frac(m, e)
  <1>1. /\ x \in Fractions /\ x[1] * d = n * x[2]
        /\ y \in Fractions /\ y[1] * e = m * y[2]
    BY FracIs
  <1> HIDE DEF x, y
  <1> DEFINE a == x[1]
             b == x[2]
             p == y[1]
             q == y[2]
  <1>2. a \in Int /\ b \in Int /\ p \in Int /\ q \in Int
    BY <1>1, FractionType
  <1>3. a * d = n * b /\ p * e = m * q
    BY <1>1
  <1> HIDE DEF a, b, p, q
  <1>4. (a * q) * (d * e) = (p * b) * (d * e)
    <2>1. (a * q) * (d * e) = (a * d) * (q * e)
      BY <1>2
    <2>2. (n * b) * (q * e) = (n * e) * (b * q)
      BY <1>2
    <2>3. (m * d) * (b * q) = (m * q) * (d * b)
      BY <1>2
    <2>4. (p * e) * (d * b) = (p * b) * (d * e)
      BY <1>2
    <2> QED BY <1>3, <2>1, <2>2, <2>3, <2>4
  <1>5. d * e \in Int \ {0}
    OBVIOUS
  <1>6. a * q = p * b
    BY <1>2, <1>4, <1>5, Cancel
  <1>7. x = y
    BY <1>1, <1>6, FractionsUnique DEF a, b, p, q
  <1> QED BY <1>7 DEF x, y

\* A fraction is in lowest terms already.
LEMMA FracSelf == ASSUME NEW x \in Fractions PROVE x = Frac(x[1], x[2])
  <1>1. x[1] \in Int /\ x[2] \in Int \ {0}
    BY FractionType
  <1>2. Frac(x[1], x[2]) \in Fractions /\ Frac(x[1], x[2])[1] * x[2] = x[1] * Frac(x[1], x[2])[2]
    BY <1>1, FracIs
  <1> QED BY <1>2, FractionsUnique

\* Quotients are added whether or not they are in lowest terms.
LEMMA FracPlus ==
    ASSUME NEW n \in Int, NEW d \in Int \ {0}, NEW m \in Int, NEW e \in Int \ {0}
    PROVE  Frac(n, d) ++ Frac(m, e) = Frac(n * e + m * d, d * e)
  <1> DEFINE x == Frac(n, d)
             y == Frac(m, e)
  <1>1. /\ x \in Fractions /\ x[1] * d = n * x[2]
        /\ y \in Fractions /\ y[1] * e = m * y[2]
    BY FracIs
  <1> HIDE DEF x, y
  <1> DEFINE a == x[1]
             b == x[2]
             p == y[1]
             q == y[2]
  <1>2. a \in Int /\ b \in Int \ {0} /\ p \in Int /\ q \in Int \ {0}
    BY <1>1, FractionType
  <1>3. a * d = n * b /\ p * e = m * q
    BY <1>1
  <1>4. x ++ y = Frac(a * q + p * b, b * q)
    BY DEF ++
  <1> HIDE DEF a, b, p, q
  <1>5. (a * q + p * b) * (d * e) = (n * e + m * d) * (b * q)
    <2>1. (a * q + p * b) * (d * e) = (a * d) * (q * e) + (p * e) * (b * d)
      BY <1>2
    <2>2. (n * e + m * d) * (b * q) = (n * b) * (q * e) + (m * q) * (b * d)
      BY <1>2
    <2> QED BY <1>3, <2>1, <2>2
  <1>6. /\ a * q + p * b \in Int /\ b * q \in Int \ {0}
        /\ n * e + m * d \in Int /\ d * e \in Int \ {0}
    BY <1>2
  <1>7. Frac(a * q + p * b, b * q) = Frac(n * e + m * d, d * e)
    BY <1>5, <1>6, FracCong
  <1> QED BY <1>4, <1>7 DEF x, y

\* Quotients are multiplied whether or not they are in lowest terms.
LEMMA FracTimes ==
    ASSUME NEW n \in Int, NEW d \in Int \ {0}, NEW m \in Int, NEW e \in Int \ {0}
    PROVE  Frac(n, d) ** Frac(m, e) = Frac(n * m, d * e)
  <1> DEFINE x == Frac(n, d)
             y == Frac(m, e)
  <1>1. /\ x \in Fractions /\ x[1] * d = n * x[2]
        /\ y \in Fractions /\ y[1] * e = m * y[2]
    BY FracIs
  <1> HIDE DEF x, y
  <1> DEFINE a == x[1]
             b == x[2]
             p == y[1]
             q == y[2]
  <1>2. a \in Int /\ b \in Int \ {0} /\ p \in Int /\ q \in Int \ {0}
    BY <1>1, FractionType
  <1>3. a * d = n * b /\ p * e = m * q
    BY <1>1
  <1>4. x ** y = Frac(a * p, b * q)
    BY DEF **
  <1> HIDE DEF a, b, p, q
  <1>5. (a * p) * (d * e) = (n * m) * (b * q)
    <2>1. (a * p) * (d * e) = (a * d) * (p * e)
      BY <1>2
    <2>2. (n * m) * (b * q) = (n * b) * (m * q)
      BY <1>2
    <2> QED BY <1>3, <2>1, <2>2
  <1>6. a * p \in Int /\ b * q \in Int \ {0} /\ n * m \in Int /\ d * e \in Int \ {0}
    BY <1>2
  <1>7. Frac(a * p, b * q) = Frac(n * m, d * e)
    BY <1>5, <1>6, FracCong
  <1> QED BY <1>4, <1>7 DEF x, y

\* A sum of fractions is one.
LEMMA PlusType == ASSUME NEW x \in Fractions, NEW y \in Fractions PROVE x ++ y \in Fractions
  BY PlusIs

\* A product of fractions is one.
LEMMA TimesType == ASSUME NEW x \in Fractions, NEW y \in Fractions PROVE x ** y \in Fractions
  BY TimesIs

\* Addition commutes.
LEMMA PlusComm == ASSUME NEW x \in Fractions, NEW y \in Fractions PROVE x ++ y = y ++ x
  <1>1. x[1] * y[2] + y[1] * x[2] = y[1] * x[2] + x[1] * y[2] /\ x[2] * y[2] = y[2] * x[2]
    BY FractionType
  <1> QED BY <1>1 DEF ++

\* Zero is neutral.
LEMMA PlusZero == ASSUME NEW x \in Fractions PROVE x ++ Zero = x /\ Zero ++ x = x
  <1>1. Zero \in Fractions /\ Zero[1] = 0 /\ Zero[2] = 1
    BY ZeroType DEF Zero, Whole
  <1>2. x[1] * Zero[2] + Zero[1] * x[2] = x[1] /\ x[2] * Zero[2] = x[2]
    BY <1>1, FractionType
  <1>3. x ++ Zero = x
    BY <1>2, FracSelf DEF ++
  <1> QED BY <1>1, <1>3, PlusComm

\* Addition is associative.
LEMMA PlusAssoc ==
    ASSUME NEW x \in Fractions, NEW y \in Fractions, NEW z \in Fractions
    PROVE  (x ++ y) ++ z = x ++ (y ++ z)
  <1> DEFINE a == x[1]
             b == x[2]
             c == y[1]
             d == y[2]
             e == z[1]
             f == z[2]
  <1>1. /\ a \in Int /\ c \in Int /\ e \in Int
        /\ b \in Int \ {0} /\ d \in Int \ {0} /\ f \in Int \ {0}
    BY FractionType
  <1>2. x = Frac(a, b) /\ y = Frac(c, d) /\ z = Frac(e, f)
    BY FracSelf
  <1> HIDE DEF a, b, c, d, e, f
  <1>3. /\ a * d + c * b \in Int /\ b * d \in Int \ {0}
        /\ c * f + e * d \in Int /\ d * f \in Int \ {0}
    BY <1>1
  <1>4. x ++ y = Frac(a * d + c * b, b * d) /\ y ++ z = Frac(c * f + e * d, d * f)
    <2>1. x ++ y = Frac(a * d + c * b, b * d)
      BY <1>1, <1>2, FracPlus
    <2>2. y ++ z = Frac(c * f + e * d, d * f)
      BY <1>1, <1>2, FracPlus
    <2> QED BY <2>1, <2>2
  <1>5. (x ++ y) ++ z = Frac((a * d + c * b) * f + e * (b * d), (b * d) * f)
    BY <1>1, <1>2, <1>3, <1>4, FracPlus
  <1>6. x ++ (y ++ z) = Frac(a * (d * f) + (c * f + e * d) * b, b * (d * f))
    BY <1>1, <1>2, <1>3, <1>4, FracPlus
  <1>7. /\ (a * d + c * b) * f + e * (b * d) = a * (d * f) + (c * f + e * d) * b
        /\ (b * d) * f = b * (d * f)
    BY <1>1
  <1> QED BY <1>5, <1>6, <1>7

\* A fraction and its opposite cancel.
LEMMA PlusNegated ==
    ASSUME NEW x \in Fractions PROVE x ++ Negated(x) = Zero
  <1> DEFINE n == Negated(x)
             z == x ++ n
  <1>1. n \in Fractions /\ n[1] = -x[1] /\ n[2] = x[2]
    BY NegatedType
  <1> HIDE DEF n
  <1>2. z \in Fractions /\ z[1] * (x[2] * n[2]) = (x[1] * n[2] + n[1] * x[2]) * z[2]
    BY <1>1, PlusIs
  <1> HIDE DEF z
  <1>3. x[1] * n[2] + n[1] * x[2] = 0 /\ x[2] * n[2] \in Int \ {0}
    BY <1>1, FractionType
  <1>4. z[1] \in Int /\ z[2] \in Int
    BY <1>2, FractionType
  <1>5. z[1] = 0
    BY <1>2, <1>3, <1>4, Cancel
  <1>6. z = Zero
    BY <1>2, <1>5, ZeroIs
  <1> QED BY <1>6 DEF z, n

\* The opposite of a sum is the sum of the opposites.
LEMMA NegatedPlus ==
    ASSUME NEW x \in Fractions, NEW y \in Fractions
    PROVE  Negated(x ++ y) = Negated(x) ++ Negated(y)
  <1> DEFINE s == x ++ y
             n == Negated(x)
             m == Negated(y)
  <1>1. /\ s \in Fractions /\ n \in Fractions /\ m \in Fractions
        /\ Negated(s) \in Fractions /\ n ++ m \in Fractions /\ x ++ n = Zero /\ y ++ m = Zero
        /\ s ++ Negated(s) = Zero /\ Zero \in Fractions
    BY PlusType, NegatedType, PlusNegated, ZeroType
  <1>2. s ++ (n ++ m) = Zero
    <2>1. s ++ (n ++ m) = x ++ (y ++ (n ++ m))
      BY <1>1, PlusAssoc
    <2>2. y ++ (n ++ m) = (n ++ m) ++ y
      BY <1>1, PlusComm
    <2>3. (n ++ m) ++ y = n ++ (m ++ y)
      BY <1>1, PlusAssoc
    <2>4. m ++ y = Zero
      BY <1>1, PlusComm
    <2>5. y ++ (n ++ m) = n
      BY <1>1, <2>2, <2>3, <2>4, PlusZero
    <2> QED BY <1>1, <2>1, <2>5
  <1> HIDE DEF s, n, m
  <1>3. n ++ m = Negated(s) ++ (s ++ (n ++ m))
    <2>1. Negated(s) ++ (s ++ (n ++ m)) = (Negated(s) ++ s) ++ (n ++ m)
      BY <1>1, PlusAssoc
    <2>2. Negated(s) ++ s = Zero
      BY <1>1, PlusComm
    <2> QED BY <1>1, <2>1, <2>2, PlusZero
  <1>4. n ++ m = Negated(s)
    BY <1>1, <1>2, <1>3, PlusZero
  <1> QED BY <1>4 DEF s, n, m

\* Multiplication distributes over addition.
LEMMA TimesPlus ==
    ASSUME NEW x \in Fractions, NEW y \in Fractions, NEW z \in Fractions
    PROVE  (x ++ y) ** z = (x ** z) ++ (y ** z)
  <1> DEFINE a == x[1]
             b == x[2]
             c == y[1]
             d == y[2]
             e == z[1]
             f == z[2]
  <1>1. /\ a \in Int /\ c \in Int /\ e \in Int
        /\ b \in Int \ {0} /\ d \in Int \ {0} /\ f \in Int \ {0}
    BY FractionType
  <1>2. x = Frac(a, b) /\ y = Frac(c, d) /\ z = Frac(e, f)
    BY FracSelf
  <1> HIDE DEF a, b, c, d, e, f
  <1>3. /\ a * d + c * b \in Int /\ b * d \in Int \ {0}
        /\ a * e \in Int /\ b * f \in Int \ {0} /\ c * e \in Int /\ d * f \in Int \ {0}
    BY <1>1
  <1>4. /\ x ++ y = Frac(a * d + c * b, b * d)
        /\ x ** z = Frac(a * e, b * f) /\ y ** z = Frac(c * e, d * f)
    <2>1. x ++ y = Frac(a * d + c * b, b * d)
      BY <1>1, <1>2, FracPlus
    <2>2. x ** z = Frac(a * e, b * f)
      BY <1>1, <1>2, FracTimes
    <2>3. y ** z = Frac(c * e, d * f)
      BY <1>1, <1>2, FracTimes
    <2> QED BY <2>1, <2>2, <2>3
  <1>5. (x ++ y) ** z = Frac((a * d + c * b) * e, (b * d) * f)
    BY <1>1, <1>2, <1>3, <1>4, FracTimes
  <1>6. (x ** z) ++ (y ** z) = Frac((a * e) * (d * f) + (c * e) * (b * f), (b * f) * (d * f))
    BY <1>1, <1>2, <1>3, <1>4, FracPlus
  <1>7. ((a * d + c * b) * e) * ((b * f) * (d * f)) =
          ((a * e) * (d * f) + (c * e) * (b * f)) * ((b * d) * f)
    BY <1>1
  <1>8. /\ (a * d + c * b) * e \in Int /\ (b * d) * f \in Int \ {0}
        /\ (a * e) * (d * f) + (c * e) * (b * f) \in Int /\ (b * f) * (d * f) \in Int \ {0}
    BY <1>1, <1>3
  <1> QED BY <1>5, <1>6, <1>7, <1>8, FracCong

\* Zero times anything is Zero.
LEMMA TimesZero == ASSUME NEW x \in Fractions PROVE Zero ** x = Zero /\ x ** Zero = Zero
  <1>1. Zero \in Fractions /\ Zero[1] = 0 /\ Zero[2] = 1
    BY ZeroType DEF Zero, Whole
  <1>3. Zero[1] * x[1] = 0 /\ x[1] * Zero[1] = 0 /\ Zero[2] * x[2] = x[2] /\ x[2] * Zero[2] = x[2]
    BY <1>1, FractionType
  <1>4. Frac(0, x[2]) = Zero
    <2>1. x[2] \in Int \ {0} /\ 0 * 1 = 0 * x[2]
      BY FractionType
    <2>2. Frac(0, x[2]) = Frac(0, 1)
      BY <2>1, FracCong
    <2> QED BY <1>1, <2>2, FracSelf
  <1> QED BY <1>3, <1>4 DEF **

\* Induction on naturals up to n.
LEMMA UpTo ==
    ASSUME NEW n \in Nat, NEW P, 0 \in P, \A i \in 1..n : i - 1 \in P => i \in P
    PROVE  0..n \subseteq P
  <1> DEFINE T == (0..n) \ P
  <1> SUFFICES ASSUME T # {} PROVE FALSE
    OBVIOUS
  <1>1. PICK i \in T : \A m \in T : i <= m
    <2>1. T \in SUBSET Nat
      OBVIOUS
    <2> HIDE DEF T
    <2> QED BY <2>1, LeastNat
  <1>2. i \in 1..n /\ i - 1 \in 0..n /\ i - 1 \notin T
    BY <1>1
  <1> QED BY <1>1, <1>2

\* Induction on sequences.
LEMMA SeqInduct ==
    ASSUME NEW S, NEW P, <<>> \in P, \A s \in Seq(S), x \in S : s \in P => Append(s, x) \in P
    PROVE  Seq(S) \subseteq P
  <1> SUFFICES ASSUME NEW s \in Seq(S) PROVE s \in P
    OBVIOUS
  <1> DEFINE Q == {i \in Nat : i <= Len(s) => SubSeq(s, 1, i) \in P}
  <1>1. 0 \in Q
    <2>1. SubSeq(s, 1, 0) = <<>>
      OBVIOUS
    <2> QED BY <2>1
  <1>2. ASSUME NEW i \in 1..Len(s), i - 1 \in Q PROVE i \in Q
    <2>1. SubSeq(s, 1, i - 1) \in P /\ SubSeq(s, 1, i - 1) \in Seq(S) /\ s[i] \in S
      BY <1>2, SubSeqProperties
    <2>2. SubSeq(s, 1, i) = Append(SubSeq(s, 1, i - 1), s[i])
      BY <1>2
    <2>3. Append(SubSeq(s, 1, i - 1), s[i]) \in P
      BY <2>1
    <2>4. i \in Nat
      OBVIOUS
    <2>5. SubSeq(s, 1, i) \in P
      BY <2>2, <2>3
    <2> QED BY <2>4, <2>5
  <1> HIDE DEF Q
  <1>3. 0..Len(s) \subseteq Q
    <2>1. Len(s) \in Nat /\ \A i \in 1..Len(s) : i - 1 \in Q => i \in Q
      BY <1>2
    <2> QED BY <1>1, <2>1, UpTo
  <1>4. Len(s) \in Q
    BY <1>3
  <1>5. SubSeq(s, 1, Len(s)) \in P
    BY <1>4 DEF Q
  <1>6. SubSeq(s, 1, Len(s)) = s
    OBVIOUS
  <1> QED BY <1>5, <1>6

\* f iterates the step function G from a, n times.
IsStep(G, A, n) == G \in [A -> [1..n -> A]]

IsIterate(f, A, n, a, G) ==
    /\ f \in [0..n -> A] /\ f[0] = a
    /\ \A i \in 1..n : f[i] = G[f[i - 1]][i]

Follows(f, A, n, a, G) ==
    f[0] = a /\ \A i \in 1..n : f[i - 1] \in A => f[i] = G[f[i - 1]][i]

\* A step taken n times from a has its sequence of results.
LEMMA Iterates ==
    ASSUME NEW A, NEW n \in Nat, NEW a \in A, NEW G, IsStep(G, A, n)
    PROVE  \E f : IsIterate(f, A, n, a, G)
  <1> DEFINE P == {k \in 0..n : \E f : IsIterate(f, A, k, a, G)}
  <1>1. 0 \in P
    <2> DEFINE f == [i \in 0..0 |-> a]
    <2>1. IsIterate(f, A, 0, a, G)
      BY DEF IsIterate
    <2>2. 0 \in 0..n
      OBVIOUS
    <2> QED BY <2>1, <2>2
  <1>2. ASSUME NEW k \in 1..n, k - 1 \in P PROVE k \in P
    <2>1. PICK f : IsIterate(f, A, k - 1, a, G)
      BY <1>2
    <2> DEFINE x == G[f[k - 1]][k]
               g == [i \in 0..k |-> IF i = k THEN x ELSE f[i]]
    <2>2. f \in [0..(k - 1) -> A] /\ f[0] = a
      BY <2>1 DEF IsIterate
    <2>3. \A i \in 1..(k - 1) : f[i] = G[f[i - 1]][i]
      BY <2>1 DEF IsIterate
    <2>4. f[k - 1] \in A
      BY <2>2
    <2>5. x \in A
      BY <2>4 DEF IsStep
    <2> HIDE DEF x
    <2>6. g \in [0..k -> A] /\ g[0] = a
      BY <2>2, <2>5
    <2>7. ASSUME NEW i \in 1..k PROVE g[i] = G[g[i - 1]][i]
      <3>1. CASE i = k
        BY <3>1 DEF x
      <3>2. CASE i # k
        <4>1. i \in 1..(k - 1) /\ i \in 0..k /\ i - 1 \in 0..k /\ i - 1 # k
          BY <3>2
        <4>2. g[i] = f[i] /\ g[i - 1] = f[i - 1]
          BY <3>2, <4>1
        <4> QED BY <2>3, <4>1, <4>2
      <3> QED BY <3>1, <3>2
    <2>8. IsIterate(g, A, k, a, G)
      <3> HIDE DEF g
      <3> QED BY <2>6, <2>7 DEF IsIterate
    <2>9. k \in 0..n
      OBVIOUS
    <2> QED BY <2>8, <2>9
  <1> HIDE DEF P
  <1>3. n \in P
    <2>1. \A k \in 1..n : k - 1 \in P => k \in P
      BY <1>2
    <2> QED BY <1>1, <2>1, UpTo
  <1> QED BY <1>3 DEF P

\* A function that satisfies the same recursion is an iterate.
LEMMA IteratesAgree ==
    ASSUME NEW A, NEW n \in Nat, NEW a \in A, NEW G, IsStep(G, A, n),
           NEW f, Follows(f, A, n, a, G)
    PROVE  \A i \in 0..n : f[i] \in A
  <1> DEFINE P == {i \in 0..n : f[i] \in A}
  <1>1. 0 \in P
    BY DEF Follows
  <1>2. ASSUME NEW i \in 1..n, i - 1 \in P PROVE i \in P
    <2>1. G[f[i - 1]][i] \in A
      BY <1>2 DEF IsStep
    <2> QED BY <1>2, <2>1 DEF Follows
  <1> HIDE DEF P
  <1>3. 0..n \subseteq P
    BY <1>1, <1>2, UpTo
  <1> QED BY <1>3 DEF P

\* The sum is what its recursion defines.
LEMMA FracSumFcn ==
    ASSUME NEW s \in Seq(Fractions)
    PROVE  \E f \in [0..Len(s) -> Fractions] :
              /\ FracSum(s) = f[Len(s)]
              /\ f[0] = Zero
              /\ \A i \in 1..Len(s) : f[i] = f[i - 1] ++ s[i]
  <1> DEFINE n == Len(s)
             G == [x \in Fractions |-> [i \in 1..n |-> x ++ s[i]]]
             F == CHOOSE f : f = [i \in 0..n |-> IF i = 0 THEN Zero ELSE f[i - 1] ++ s[i]]
  <1>1. n \in Nat /\ \A i \in 1..n : s[i] \in Fractions
    OBVIOUS
  <1>2. FracSum(s) = F[n]
    BY DEF FracSum, Fold
  <1>3. IsStep(G, Fractions, n)
    <2>1. \A x \in Fractions, i \in 1..n : x ++ s[i] \in Fractions
      BY <1>1, PlusType
    <2> QED BY <2>1 DEF IsStep
  <1> HIDE DEF n
  <1>4. PICK g : IsIterate(g, Fractions, n, Zero, G)
    <2> HIDE DEF G
    <2> QED BY <1>1, <1>3, ZeroType, Iterates
  <1>5. /\ g \in [0..n -> Fractions] /\ g[0] = Zero
        /\ \A i \in 1..n : g[i] = g[i - 1] ++ s[i]
    <2>1. \A x \in Fractions, i \in 1..n : G[x][i] = x ++ s[i]
      OBVIOUS
    <2> HIDE DEF G
    <2>2. g \in [0..n -> Fractions] /\ g[0] = Zero
      BY <1>4 DEF IsIterate
    <2>3. \A i \in 1..n : g[i - 1] \in Fractions
      BY <1>1, <2>2
    <2>4. \A i \in 1..n : g[i] = G[g[i - 1]][i]
      BY <1>4 DEF IsIterate
    <2> QED BY <2>1, <2>2, <2>3, <2>4
  <1>6. g = [i \in 0..n |-> IF i = 0 THEN Zero ELSE g[i - 1] ++ s[i]]
    BY <1>1, <1>5
  <1>7. F = [i \in 0..n |-> IF i = 0 THEN Zero ELSE F[i - 1] ++ s[i]]
    BY <1>6
  <1> HIDE DEF F
  <1>8. F[0] = Zero /\ \A i \in 1..n : F[i] = F[i - 1] ++ s[i]
    BY <1>1, <1>7
  <1>9. \A i \in 0..n : F[i] \in Fractions
    <2>1. Follows(F, Fractions, n, Zero, G)
      BY <1>8 DEF Follows
    <2> HIDE DEF G
    <2> QED BY <1>1, <1>3, <2>1, ZeroType, IteratesAgree
  <1>10. F \in [0..n -> Fractions]
    BY <1>7, <1>9
  <1> QED BY <1>2, <1>8, <1>10 DEF n

-----------------------------------------------------------------------------
(* Sums of fractions.                                                      *)

MapF(s, f) == [i \in DOMAIN s |-> f[s[i]]]

\* The empty sum.
LEMMA FracSumEmpty == FracSum(<<>>) = Zero
  <1>1. <<>> \in Seq(Fractions) /\ Len(<<>>) = 0
    OBVIOUS
  <1> QED BY <1>1, FracSumFcn

\* A sum of fractions is one.
LEMMA FracSumType == ASSUME NEW s \in Seq(Fractions) PROVE FracSum(s) \in Fractions
  <1>1. PICK f \in [0..Len(s) -> Fractions] : FracSum(s) = f[Len(s)]
    BY FracSumFcn
  <1>2. Len(s) \in 0..Len(s)
    OBVIOUS
  <1> QED BY <1>1, <1>2

\* The sum with one more term.
LEMMA FracSumAppend ==
    ASSUME NEW s \in Seq(Fractions), NEW x \in Fractions
    PROVE  FracSum(Append(s, x)) = FracSum(s) ++ x
  <1> DEFINE t == Append(s, x)
             n == Len(s)
  <1>1. /\ t \in Seq(Fractions) /\ Len(t) = n + 1 /\ t[n + 1] = x /\ n \in Nat
        /\ \A i \in 1..n : t[i] = s[i]
    OBVIOUS
  <1> HIDE DEF t
  <1>2. PICK f \in [0..n -> Fractions] :
           FracSum(s) = f[n] /\ f[0] = Zero /\ \A i \in 1..n : f[i] = f[i - 1] ++ s[i]
    BY FracSumFcn
  <1>3. PICK g \in [0..Len(t) -> Fractions] :
           FracSum(t) = g[Len(t)] /\ g[0] = Zero /\ \A i \in 1..Len(t) : g[i] = g[i - 1] ++ t[i]
    BY <1>1, FracSumFcn
  <1> HIDE DEF n
  <1> DEFINE P == {i \in Nat : i <= n => f[i] = g[i]}
  <1>4. 0 \in P
    BY <1>2, <1>3
  <1>5. ASSUME NEW i \in 1..n, i - 1 \in P PROVE i \in P
    <2>1. f[i - 1] = g[i - 1] /\ i \in Nat /\ i \in 1..Len(t)
      BY <1>1, <1>5
    <2>2. f[i] = f[i - 1] ++ s[i] /\ g[i] = g[i - 1] ++ t[i] /\ t[i] = s[i]
      BY <1>1, <1>2, <1>3, <2>1
    <2> QED BY <2>1, <2>2
  <1>6. 0..n \subseteq P
    <2> HIDE DEF P
    <2> QED BY <1>1, <1>4, <1>5, UpTo
  <1>7. n \in P
    BY <1>1, <1>6
  <1>8. g[n] = f[n] /\ g[n + 1] = g[n] ++ x
    <2>1. n + 1 \in 1..Len(t) /\ (n + 1) - 1 = n
      BY <1>1
    <2> QED BY <1>1, <1>3, <1>7, <2>1
  <1> QED BY <1>1, <1>2, <1>3, <1>8 DEF t

\* The sum of two sequences after each other.
LEMMA FracSumConcat ==
    ASSUME NEW s \in Seq(Fractions), NEW t \in Seq(Fractions)
    PROVE  FracSum(s \o t) = FracSum(s) ++ FracSum(t)
  <1> DEFINE P == {u \in Seq(Fractions) : FracSum(s \o u) = FracSum(s) ++ FracSum(u)}
  <1>1. <<>> \in P
    <2>1. s \o <<>> = s /\ <<>> \in Seq(Fractions)
      OBVIOUS
    <2> QED BY <2>1, FracSumEmpty, FracSumType, PlusZero
  <1>2. ASSUME NEW u \in Seq(Fractions), NEW x \in Fractions, u \in P PROVE Append(u, x) \in P
    <2>1. s \o Append(u, x) = Append(s \o u, x) /\ s \o u \in Seq(Fractions)
          /\ Append(u, x) \in Seq(Fractions)
      OBVIOUS
    <2>2. FracSum(Append(s \o u, x)) = FracSum(s \o u) ++ x
      BY <2>1, FracSumAppend
    <2>3. FracSum(Append(u, x)) = FracSum(u) ++ x
      BY FracSumAppend
    <2>4. (FracSum(s) ++ FracSum(u)) ++ x = FracSum(s) ++ (FracSum(u) ++ x)
      BY FracSumType, PlusAssoc
    <2>5. FracSum(s \o u) = FracSum(s) ++ FracSum(u)
      BY <1>2
    <2> QED BY <2>1, <2>2, <2>3, <2>4, <2>5
  <1> HIDE DEF P
  <1>3. t \in P
    BY <1>1, <1>2, SeqInduct
  <1> QED BY <1>3 DEF P

\* Zero is its own opposite.
LEMMA NegatedZero == Negated(Zero) = Zero
  <1>1. Negated(Zero) \in Fractions /\ Negated(Zero)[1] = -Zero[1] /\ Zero[1] = 0
    BY ZeroType, NegatedType, ZeroIs
  <1> QED BY <1>1, ZeroIs

\* The sum of the opposites.
LEMMA FracSumNegated ==
    ASSUME NEW s \in Seq(Fractions)
    PROVE  FracSum([i \in DOMAIN s |-> Negated(s[i])]) = Negated(FracSum(s))
  <1> DEFINE N(u) == [i \in DOMAIN u |-> Negated(u[i])]
             P == {u \in Seq(Fractions) : FracSum(N(u)) = Negated(FracSum(u))}
  <1>1. <<>> \in P
    <2>1. N(<<>>) = <<>>
      OBVIOUS
    <2>2. Negated(Zero) = Zero
      BY NegatedZero
    <2>3. FracSum(N(<<>>)) = Negated(FracSum(<<>>))
      BY <2>1, <2>2, FracSumEmpty
    <2> HIDE DEF N
    <2> QED BY <2>3
  <1>2. ASSUME NEW u \in Seq(Fractions), NEW x \in Fractions, u \in P PROVE Append(u, x) \in P
    <2>1. \A i \in DOMAIN u : u[i] \in Fractions
      OBVIOUS
    <2>2. N(u) \in Seq(Fractions) /\ Negated(x) \in Fractions
      BY <2>1, NegatedType
    <2>3. N(Append(u, x)) = Append(N(u), Negated(x))
      OBVIOUS
    <2>4. FracSum(N(Append(u, x))) = FracSum(N(u)) ++ Negated(x)
      BY <2>2, <2>3, FracSumAppend
    <2>5. FracSum(Append(u, x)) = FracSum(u) ++ x /\ FracSum(u) \in Fractions
      BY FracSumAppend, FracSumType
    <2>6. Negated(FracSum(u) ++ x) = Negated(FracSum(u)) ++ Negated(x)
      BY <2>5, NegatedPlus
    <2>7. FracSum(N(u)) = Negated(FracSum(u)) /\ Append(u, x) \in Seq(Fractions)
      BY <1>2
    <2> HIDE DEF N
    <2> QED BY <2>4, <2>5, <2>6, <2>7
  <1> HIDE DEF P
  <1>3. s \in P
    BY <1>1, <1>2, SeqInduct
  <1> QED BY <1>3 DEF P

\* A common factor of a sum.
LEMMA FracSumTimes ==
    ASSUME NEW s \in Seq(Fractions), NEW c \in Fractions
    PROVE  FracSum([i \in DOMAIN s |-> s[i] ** c]) = FracSum(s) ** c
  <1> DEFINE N(u) == [i \in DOMAIN u |-> u[i] ** c]
             P == {u \in Seq(Fractions) : FracSum(N(u)) = FracSum(u) ** c}
  <1>1. <<>> \in P
    <2>1. N(<<>>) = <<>>
      OBVIOUS
    <2> QED BY <2>1, FracSumEmpty, TimesZero
  <1>2. ASSUME NEW u \in Seq(Fractions), NEW x \in Fractions, u \in P PROVE Append(u, x) \in P
    <2>1. \A i \in DOMAIN u : u[i] \in Fractions
      OBVIOUS
    <2>2. N(u) \in Seq(Fractions) /\ x ** c \in Fractions
      BY <2>1, TimesType
    <2>3. N(Append(u, x)) = Append(N(u), x ** c)
      OBVIOUS
    <2>4. FracSum(N(Append(u, x))) = FracSum(N(u)) ++ (x ** c)
      BY <2>2, <2>3, FracSumAppend
    <2>5. FracSum(Append(u, x)) = FracSum(u) ++ x /\ FracSum(u) \in Fractions
      BY FracSumAppend, FracSumType
    <2>6. (FracSum(u) ++ x) ** c = (FracSum(u) ** c) ++ (x ** c)
      BY <2>5, TimesPlus
    <2>7. FracSum(N(u)) = FracSum(u) ** c /\ Append(u, x) \in Seq(Fractions)
      BY <1>2
    <2> HIDE DEF N
    <2> QED BY <2>4, <2>5, <2>6, <2>7
  <1> HIDE DEF P
  <1>3. s \in P
    BY <1>1, <1>2, SeqInduct
  <1> QED BY <1>3 DEF P

\* a + b + (c + d) = a + c + (b + d)
LEMMA PlusExchange ==
    ASSUME NEW a \in Fractions, NEW b \in Fractions, NEW c \in Fractions, NEW d \in Fractions
    PROVE  (a ++ b) ++ (c ++ d) = (a ++ c) ++ (b ++ d)
  <1>1. /\ a ++ b \in Fractions /\ c ++ d \in Fractions /\ b ++ d \in Fractions
        /\ a ++ c \in Fractions /\ b ++ c \in Fractions
    BY PlusType
  <1>2. (a ++ b) ++ (c ++ d) = a ++ (b ++ (c ++ d))
    BY <1>1, PlusAssoc
  <1>3. b ++ (c ++ d) = (b ++ c) ++ d
    BY PlusAssoc
  <1>4. b ++ c = c ++ b
    BY PlusComm
  <1>5. (c ++ b) ++ d = c ++ (b ++ d)
    BY PlusAssoc
  <1>6. (a ++ c) ++ (b ++ d) = a ++ (c ++ (b ++ d))
    BY <1>1, PlusAssoc
  <1> QED BY <1>2, <1>3, <1>4, <1>5, <1>6

\* The sum of two sequences added term by term.
LEMMA FracSumPlus ==
    ASSUME NEW s \in Seq(Fractions), NEW t \in Seq(Fractions), Len(s) = Len(t)
    PROVE  FracSum([i \in DOMAIN s |-> s[i] ++ t[i]]) = FracSum(s) ++ FracSum(t)
  <1> DEFINE N(u, w) == [i \in DOMAIN u |-> u[i] ++ w[i]]
             Q(u) == \A w \in Seq(Fractions) :
                        Len(w) = Len(u) => FracSum(N(u, w)) = FracSum(u) ++ FracSum(w)
             P == {u \in Seq(Fractions) : Q(u)}
  <1>1. <<>> \in P
    <2>1. ASSUME NEW w \in Seq(Fractions), Len(w) = 0
          PROVE  FracSum(N(<<>>, w)) = FracSum(<<>>) ++ FracSum(w)
      <3>1. w = <<>> /\ N(<<>>, w) = <<>>
        BY <2>1
      <3> QED BY <3>1, FracSumEmpty, PlusZero, ZeroType
    <2> HIDE DEF N
    <2>2. Q(<<>>)
      <3>1. Len(<<>>) = 0
        OBVIOUS
      <3> QED BY <2>1, <3>1
    <2>3. <<>> \in Seq(Fractions)
      OBVIOUS
    <2> HIDE DEF Q
    <2> QED BY <2>2, <2>3
  <1>2. ASSUME NEW u \in Seq(Fractions), NEW x \in Fractions, u \in P PROVE Append(u, x) \in P
    <2>1. ASSUME NEW w \in Seq(Fractions), Len(w) = Len(u) + 1
          PROVE  FracSum(N(Append(u, x), w)) = FracSum(Append(u, x)) ++ FracSum(w)
      <3> DEFINE n == Len(u)
                 v == SubSeq(w, 1, n)
                 y == w[n + 1]
      <3>1. /\ v \in Seq(Fractions) /\ Len(v) = n /\ y \in Fractions /\ w = Append(v, y)
            /\ n \in Nat
        BY <2>1
      <3> HIDE DEF v, y
      <3>2. \A i \in DOMAIN u : u[i] \in Fractions /\ v[i] \in Fractions
        BY <3>1
      <3>3. N(u, v) \in Seq(Fractions) /\ x ++ y \in Fractions
        BY <3>1, <3>2, PlusType
      <3>4. N(Append(u, x), w) = Append(N(u, v), x ++ y)
        BY <3>1
      <3>5. FracSum(N(Append(u, x), w)) = FracSum(N(u, v)) ++ (x ++ y)
        BY <3>3, <3>4, FracSumAppend
      <3>6. FracSum(N(u, v)) = FracSum(u) ++ FracSum(v)
        BY <1>2, <3>1
      <3>7. /\ FracSum(Append(u, x)) = FracSum(u) ++ x /\ FracSum(w) = FracSum(v) ++ y
            /\ FracSum(u) \in Fractions /\ FracSum(v) \in Fractions
        BY <3>1, FracSumAppend, FracSumType
      <3> HIDE DEF N
      <3>8. (FracSum(u) ++ FracSum(v)) ++ (x ++ y) = (FracSum(u) ++ x) ++ (FracSum(v) ++ y)
        BY <3>1, <3>7, PlusExchange
      <3> QED BY <3>5, <3>6, <3>7, <3>8
    <2>2. Append(u, x) \in Seq(Fractions) /\ Len(Append(u, x)) = Len(u) + 1
      OBVIOUS
    <2>3. Q(Append(u, x))
      <3> HIDE DEF N
      <3> QED BY <2>1, <2>2
    <2> QED BY <2>2, <2>3
  <1> HIDE DEF P
  <1>3. s \in P
    BY <1>1, <1>2, SeqInduct
  <1> QED BY <1>3 DEF P

\* A sum of zeros.
LEMMA FracSumZero ==
    ASSUME NEW s \in Seq({Zero}) PROVE FracSum(s) = Zero
  <1> DEFINE P == {u \in Seq({Zero}) : FracSum(u) = Zero}
  <1>1. <<>> \in P
    BY FracSumEmpty
  <1>2. ASSUME NEW u \in Seq({Zero}), NEW x \in {Zero}, u \in P PROVE Append(u, x) \in P
    <2>1. u \in Seq(Fractions) /\ x \in Fractions /\ x = Zero
      BY ZeroType
    <2>2. FracSum(Append(u, x)) = Zero ++ Zero
      BY <1>2, <2>1, FracSumAppend
    <2> QED BY <1>2, <2>2, PlusZero, ZeroType
  <1> HIDE DEF P
  <1>3. s \in P
    BY <1>1, <1>2, SeqInduct
  <1> QED BY <1>3 DEF P

\* A sum with one term that may not be zero.
LEMMA FracSumSingle ==
    ASSUME NEW s \in Seq(Fractions), NEW k \in DOMAIN s, \A i \in DOMAIN s \ {k} : s[i] = Zero
    PROVE  FracSum(s) = s[k]
  <1> DEFINE a == SubSeq(s, 1, k - 1)
             b == SubSeq(s, k + 1, Len(s))
  <1>1. k \in 1..Len(s) /\ Len(s) \in Nat
    OBVIOUS
  <1>2. a \in Seq({Zero}) /\ a \in Seq(Fractions)
    <2>1. Len(a) = k - 1 /\ \A i \in 1..(k - 1) : a[i] = s[i] /\ a[i] = Zero
      BY <1>1, SubSeqProperties
    <2>2. a \in Seq(Fractions)
      BY <1>1, SubSeqProperties
    <2> HIDE DEF a
    <2>3. \A i \in 1..Len(a) : a[i] \in {Zero}
      BY <2>1
    <2> QED BY <2>2, <2>3
  <1>3. b \in Seq({Zero}) /\ b \in Seq(Fractions)
    <2>1. Len(b) = Len(s) - k /\ \A i \in 1..(Len(s) - k) : b[i] = s[k + i] /\ b[i] = Zero
      BY <1>1, SubSeqProperties
    <2>2. b \in Seq(Fractions)
      BY <1>1, SubSeqProperties
    <2> HIDE DEF b
    <2>3. \A i \in 1..Len(b) : b[i] \in {Zero}
      BY <2>1
    <2> QED BY <2>2, <2>3
  <1>4. s = Append(a, s[k]) \o b
    <2>1. Len(a) = k - 1 /\ \A i \in 1..(k - 1) : a[i] = s[i]
      BY <1>1, SubSeqProperties
    <2>2. Len(b) = Len(s) - k /\ \A i \in 1..(Len(s) - k) : b[i] = s[k + i]
      BY <1>1, SubSeqProperties
    <2> HIDE DEF a, b
    <2> DEFINE c == Append(a, s[k])
    <2>3. /\ c \in Seq(Fractions) /\ Len(c) = k /\ c[k] = s[k]
          /\ \A i \in 1..(k - 1) : c[i] = s[i]
      BY <1>1, <1>2, <2>1
    <2> HIDE DEF c
    <2>4. c \o b \in Seq(Fractions) /\ Len(c \o b) = Len(s)
      BY <1>1, <1>3, <2>2, <2>3
    <2>5. ASSUME NEW i \in 1..Len(s) PROVE (c \o b)[i] = s[i]
      <3>1. CASE i <= k
        BY <1>3, <2>3, <3>1
      <3>2. CASE ~(i <= k)
        <4>1. i - k \in 1..(Len(s) - k) /\ k + (i - k) = i
          BY <1>1, <3>2
        <4>2. (c \o b)[i] = b[i - k]
          BY <1>1, <1>3, <2>2, <2>3, <3>2
        <4> QED BY <2>2, <4>1, <4>2
      <3> QED BY <1>1, <3>1, <3>2
    <2>6. s = c \o b
      BY <2>4, <2>5, SeqEqual
    <2> QED BY <2>6 DEF c
  <1>5. FracSum(a) = Zero /\ FracSum(b) = Zero
    BY <1>2, <1>3, FracSumZero
  <1> HIDE DEF a, b
  <1>6. s[k] \in Fractions /\ Append(a, s[k]) \in Seq(Fractions)
    BY <1>1, <1>2
  <1>7. FracSum(Append(a, s[k])) = s[k]
    BY <1>2, <1>5, <1>6, FracSumAppend, PlusZero
  <1> QED BY <1>3, <1>4, <1>5, <1>6, <1>7, FracSumConcat, PlusZero

-----------------------------------------------------------------------------
(* Integer sums, concatenations and what is kept of a sequence.            *)

\* The empty sum of integers.
LEMMA IntSumEmpty == SumFunction(<<>>) = 0
  <1>1. DOMAIN <<>> = {}
    OBVIOUS
  <1> QED BY <1>1, SumEmpty DEF SumFunction

\* A sum of integers is one.
LEMMA IntSumType == ASSUME NEW s \in Seq(Int) PROVE SumFunction(s) \in Int
  <1>1. DOMAIN s = 1..Len(s) /\ Len(s) \in Nat /\ \A i \in DOMAIN s : s[i] \in Int
    OBVIOUS
  <1>2. IsFiniteSet(1..Len(s))
    BY <1>1, FS_Interval
  <1> QED BY <1>1, <1>2, SumType DEF SumFunction

\* The sum of integers with one more term.
LEMMA IntSumAppend ==
    ASSUME NEW s \in Seq(Int), NEW x \in Int
    PROVE  SumFunction(Append(s, x)) = SumFunction(s) + x
  <1> DEFINE n == Len(s)
             t == Append(s, x)
  <1>1. /\ n \in Nat /\ DOMAIN s = 1..n /\ DOMAIN t = 1..(n + 1) /\ t[n + 1] = x
        /\ \A i \in 1..n : t[i] = s[i]
    OBVIOUS
  <1>2. \A i \in 1..n : s[i] \in Int
    OBVIOUS
  <1> HIDE DEF n, t
  <1>3. IsFiniteSet(1..n) /\ IsFiniteSet(1..(n + 1))
    BY <1>1, FS_Interval
  <1>4. \A i \in 1..(n + 1) : t[i] \in Int
    BY <1>1, <1>2
  <1>5. n + 1 \in 1..(n + 1) /\ (1..(n + 1)) \ {n + 1} = 1..n
    BY <1>1
  <1>6. SumFunctionOnSet(t, 1..(n + 1)) = t[n + 1] + SumFunctionOnSet(t, (1..(n + 1)) \ {n + 1})
    BY <1>3, <1>4, <1>5, SumTake
  <1>7. SumFunctionOnSet(t, 1..n) = SumFunctionOnSet(s, 1..n)
    BY <1>1, <1>3, SumSame
  <1>8. SumFunctionOnSet(s, 1..n) \in Int
    BY <1>2, <1>3, SumType
  <1>9. SumFunction(t) = x + SumFunctionOnSet(s, 1..n)
    BY <1>1, <1>5, <1>6, <1>7 DEF SumFunction
  <1>10. SumFunction(s) = SumFunctionOnSet(s, 1..n)
    BY <1>1 DEF SumFunction
  <1> QED BY <1>8, <1>9, <1>10 DEF t

\* Whole numbers are added like integers.
LEMMA WholePlus ==
    ASSUME NEW a \in Int, NEW b \in Int PROVE Whole(a) ++ Whole(b) = Whole(a + b)
  <1> DEFINE x == Whole(a) ++ Whole(b)
  <1>1. /\ Whole(a) \in Fractions /\ Whole(b) \in Fractions /\ Whole(a + b) \in Fractions
    BY WholeType
  <1>2. x \in Fractions /\ x[1] * (1 * 1) = (a * 1 + b * 1) * x[2]
    BY <1>1, PlusIs DEF Whole
  <1> HIDE DEF x
  <1>3. x[1] \in Int /\ x[2] \in Nat
    BY <1>2, FractionType
  <1>4. x[1] * 1 = (a + b) * x[2]
    BY <1>2, <1>3
  <1>5. x = Whole(a + b)
    BY <1>1, <1>2, <1>4, FractionsUnique DEF Whole
  <1> QED BY <1>5 DEF x

\* Different integers are different fractions.
LEMMA WholeUnique == \A a, b \in Int : Whole(a) = Whole(b) => a = b
  BY DEF Whole

\* Integer sums are sums of fractions.
LEMMA WholeSum ==
    ASSUME NEW s \in Seq(Int)
    PROVE  Whole(SumFunction(s)) = FracSum([i \in DOMAIN s |-> Whole(s[i])])
  <1> DEFINE N(u) == [i \in DOMAIN u |-> Whole(u[i])]
             P == {u \in Seq(Int) : Whole(SumFunction(u)) = FracSum(N(u))}
  <1>1. <<>> \in P
    <2>1. N(<<>>) = <<>> /\ <<>> \in Seq(Int)
      OBVIOUS
    <2>2. Whole(SumFunction(<<>>)) = FracSum(N(<<>>))
      BY <2>1, IntSumEmpty, FracSumEmpty DEF Zero
    <2> HIDE DEF N
    <2> QED BY <2>1, <2>2
  <1>2. ASSUME NEW u \in Seq(Int), NEW x \in Int, u \in P PROVE Append(u, x) \in P
    <2>1. \A i \in DOMAIN u : u[i] \in Int
      OBVIOUS
    <2>2. N(u) \in Seq(Fractions) /\ Whole(x) \in Fractions
      BY <2>1, WholeType
    <2>3. N(Append(u, x)) = Append(N(u), Whole(x))
      OBVIOUS
    <2>4. FracSum(N(Append(u, x))) = FracSum(N(u)) ++ Whole(x)
      BY <2>2, <2>3, FracSumAppend
    <2>5. SumFunction(Append(u, x)) = SumFunction(u) + x /\ SumFunction(u) \in Int
      BY IntSumAppend, IntSumType
    <2>6. Whole(SumFunction(u)) = FracSum(N(u)) /\ Append(u, x) \in Seq(Int)
      BY <1>2
    <2> HIDE DEF N
    <2>7. Whole(SumFunction(u)) ++ Whole(x) = Whole(SumFunction(u) + x)
      BY <2>5, WholePlus
    <2> QED BY <2>4, <2>5, <2>6, <2>7
  <1> HIDE DEF P
  <1>3. s \in P
    BY <1>1, <1>2, SeqInduct
  <1> QED BY <1>3 DEF P

\* Concat puts one sequence after the other, from the first to the last.
LEMMA ConcatFcn ==
    ASSUME NEW S, NEW ss \in Seq(Seq(S))
    PROVE  \E f \in [0..Len(ss) -> Seq(S)] :
              /\ Concat(ss) = f[Len(ss)]
              /\ f[0] = <<>>
              /\ \A i \in 1..Len(ss) : f[i] = f[i - 1] \o ss[i]
  <1> DEFINE n == Len(ss)
             A == Seq(S)
             G == [x \in A |-> [i \in 1..n |-> x \o ss[i]]]
             F == CHOOSE f : f = [i \in 0..n |-> IF i = 0 THEN <<>> ELSE f[i - 1] \o ss[i]]
  <1>1. n \in Nat /\ (\A i \in 1..n : ss[i] \in A) /\ <<>> \in A
    OBVIOUS
  <1>2. Concat(ss) = F[n]
    BY DEF Concat, Fold
  <1>3. IsStep(G, A, n)
    <2>1. \A x \in A, i \in 1..n : x \o ss[i] \in A
      BY <1>1
    <2> QED BY <2>1 DEF IsStep
  <1> HIDE DEF n, A
  <1>4. PICK g : IsIterate(g, A, n, <<>>, G)
    <2> HIDE DEF G
    <2> QED BY <1>1, <1>3, Iterates
  <1>5. /\ g \in [0..n -> A] /\ g[0] = <<>>
        /\ \A i \in 1..n : g[i] = g[i - 1] \o ss[i]
    <2>1. \A x \in A, i \in 1..n : G[x][i] = x \o ss[i]
      OBVIOUS
    <2> HIDE DEF G
    <2>2. g \in [0..n -> A] /\ g[0] = <<>>
      BY <1>4 DEF IsIterate
    <2>3. \A i \in 1..n : g[i - 1] \in A
      BY <1>1, <2>2
    <2>4. \A i \in 1..n : g[i] = G[g[i - 1]][i]
      BY <1>4 DEF IsIterate
    <2> QED BY <2>1, <2>2, <2>3, <2>4
  <1>6. g = [i \in 0..n |-> IF i = 0 THEN <<>> ELSE g[i - 1] \o ss[i]]
    BY <1>1, <1>5
  <1>7. F = [i \in 0..n |-> IF i = 0 THEN <<>> ELSE F[i - 1] \o ss[i]]
    BY <1>6
  <1> HIDE DEF F
  <1>8. F[0] = <<>> /\ \A i \in 1..n : F[i] = F[i - 1] \o ss[i]
    BY <1>1, <1>7
  <1>9. \A i \in 0..n : F[i] \in A
    <2>1. Follows(F, A, n, <<>>, G)
      BY <1>8 DEF Follows
    <2> HIDE DEF G
    <2> QED BY <1>1, <1>3, <2>1, IteratesAgree
  <1>10. F \in [0..n -> A]
    BY <1>7, <1>9
  <1> QED BY <1>2, <1>8, <1>10 DEF n, A

\* Nothing concatenated.
LEMMA ConcatEmpty == Concat(<<>>) = <<>>
  <1>1. <<>> \in Seq(Seq({})) /\ Len(<<>>) = 0
    OBVIOUS
  <1> QED BY <1>1, ConcatFcn

\* What is concatenated has the type of its parts.
LEMMA ConcatType == ASSUME NEW S, NEW ss \in Seq(Seq(S)) PROVE Concat(ss) \in Seq(S)
  <1>1. PICK f \in [0..Len(ss) -> Seq(S)] : Concat(ss) = f[Len(ss)]
    BY ConcatFcn
  <1>2. Len(ss) \in 0..Len(ss)
    OBVIOUS
  <1> QED BY <1>1, <1>2

\* One more part comes last.
LEMMA ConcatAppend ==
    ASSUME NEW S, NEW ss \in Seq(Seq(S)), NEW x \in Seq(S)
    PROVE  Concat(Append(ss, x)) = Concat(ss) \o x
  <1> DEFINE t == Append(ss, x)
             n == Len(ss)
             A == Seq(S)
  <1>1. /\ t \in Seq(A) /\ Len(t) = n + 1 /\ t[n + 1] = x /\ n \in Nat
        /\ \A i \in 1..n : t[i] = ss[i]
    OBVIOUS
  <1> HIDE DEF t
  <1>2. PICK f \in [0..n -> A] :
           Concat(ss) = f[n] /\ f[0] = <<>> /\ \A i \in 1..n : f[i] = f[i - 1] \o ss[i]
    BY ConcatFcn
  <1>3. PICK g \in [0..Len(t) -> A] :
           Concat(t) = g[Len(t)] /\ g[0] = <<>> /\ \A i \in 1..Len(t) : g[i] = g[i - 1] \o t[i]
    BY <1>1, ConcatFcn
  <1> HIDE DEF n, A
  <1> DEFINE P == {i \in Nat : i <= n => f[i] = g[i]}
  <1>4. 0 \in P
    BY <1>2, <1>3
  <1>5. ASSUME NEW i \in 1..n, i - 1 \in P PROVE i \in P
    <2>1. f[i - 1] = g[i - 1] /\ i \in Nat /\ i \in 1..Len(t)
      BY <1>1, <1>5
    <2>2. f[i] = f[i - 1] \o ss[i] /\ g[i] = g[i - 1] \o t[i] /\ t[i] = ss[i]
      BY <1>1, <1>2, <1>3, <2>1
    <2> QED BY <2>1, <2>2
  <1>6. 0..n \subseteq P
    <2> HIDE DEF P
    <2> QED BY <1>1, <1>4, <1>5, UpTo
  <1>7. n \in P
    BY <1>1, <1>6
  <1>8. g[n] = f[n] /\ g[n + 1] = g[n] \o x
    <2>1. n + 1 \in 1..Len(t) /\ (n + 1) - 1 = n
      BY <1>1
    <2>2. g[n + 1] = g[n] \o t[n + 1]
      BY <1>3, <2>1
    <2>3. f[n] = g[n]
      BY <1>1, <1>7
    <2> QED BY <1>1, <2>2, <2>3
  <1>9. Concat(t) = Concat(ss) \o x
    BY <1>1, <1>2, <1>3, <1>8
  <1> QED BY <1>9 DEF t

\* The type and the length of what is mapped.
LEMMA MapType ==
    ASSUME NEW S, NEW T, NEW f \in [S -> T], NEW s \in Seq(S)
    PROVE  MapF(s, f) \in Seq(T) /\ Len(MapF(s, f)) = Len(s)
  <1>1. \A i \in 1..Len(s) : f[s[i]] \in T
    OBVIOUS
  <1> QED BY <1>1 DEF MapF

\* Mapping goes through concatenation.
LEMMA MapConcat ==
    ASSUME NEW S, NEW f, NEW s \in Seq(S), NEW t \in Seq(S)
    PROVE  MapF(s \o t, f) = MapF(s, f) \o MapF(t, f)
  <1> DEFINE T == {f[x] : x \in S}
             u == MapF(s, f)
             w == MapF(t, f)
             z == MapF(s \o t, f)
  <1>1. u \in Seq(T) /\ Len(u) = Len(s) /\ \A i \in 1..Len(s) : u[i] = f[s[i]]
    BY DEF MapF
  <1>2. w \in Seq(T) /\ Len(w) = Len(t) /\ \A i \in 1..Len(t) : w[i] = f[t[i]]
    BY DEF MapF
  <1>3. s \o t \in Seq(S) /\ Len(s \o t) = Len(s) + Len(t)
    OBVIOUS
  <1>4. z \in Seq(T) /\ Len(z) = Len(s) + Len(t) /\ \A i \in 1..Len(z) : z[i] = f[(s \o t)[i]]
    BY <1>3 DEF MapF
  <1> HIDE DEF u, w, z, T
  <1>5. u \o w \in Seq(T) /\ Len(u \o w) = Len(z)
    BY <1>1, <1>2, <1>4, ConcatProperties
  <1>6. ASSUME NEW i \in 1..Len(z) PROVE z[i] = (u \o w)[i]
    <2>1. CASE i <= Len(s)
      <3>1. i \in 1..Len(s) /\ (s \o t)[i] = s[i] /\ (u \o w)[i] = u[i]
        BY <1>1, <1>2, <1>4, <2>1
      <3> QED BY <1>1, <1>4, <3>1
    <2>2. CASE ~(i <= Len(s))
      <3>1. /\ i - Len(s) \in 1..Len(t) /\ (s \o t)[i] = t[i - Len(s)]
            /\ (u \o w)[i] = w[i - Len(s)]
        BY <1>1, <1>2, <1>4, <2>2
      <3> QED BY <1>2, <1>4, <3>1
    <2> QED BY <2>1, <2>2
  <1>7. z = u \o w
    BY <1>4, <1>5, <1>6, SeqEqual
  <1> QED BY <1>7 DEF z, u, w

\* The sum over a concatenation is the sum of the sums over its parts.
LEMMA SumFlat ==
    ASSUME NEW S, NEW f \in [S -> Fractions], NEW ss \in Seq(Seq(S))
    PROVE  FracSum(MapF(Concat(ss), f)) =
             FracSum([i \in DOMAIN ss |-> FracSum(MapF(ss[i], f))])
  <1> DEFINE M(s) == MapF(s, f)
             N(u) == [i \in DOMAIN u |-> FracSum(M(u[i]))]
             A == Seq(S)
             P == {u \in Seq(A) : FracSum(M(Concat(u))) = FracSum(N(u))}
  <1>0. \A s \in A : M(s) \in Seq(Fractions) /\ FracSum(M(s)) \in Fractions
    <2>1. \A s \in A : M(s) \in Seq(Fractions)
      BY MapType
    <2> QED BY <2>1, FracSumType
  <1>1. <<>> \in P
    <2>1. N(<<>>) = <<>> /\ <<>> \in Seq(A)
      OBVIOUS
    <2>2. M(<<>>) = <<>>
      BY DEF MapF
    <2>3. FracSum(M(Concat(<<>>))) = FracSum(N(<<>>))
      BY <2>1, <2>2, ConcatEmpty
    <2> HIDE DEF N, M
    <2> QED BY <2>1, <2>3
  <1>2. ASSUME NEW u \in Seq(A), NEW x \in A, u \in P PROVE Append(u, x) \in P
    <2>0. N(Append(u, x)) = Append(N(u), FracSum(M(x)))
      <3> HIDE DEF M
      <3> QED OBVIOUS
    <2>1. Concat(Append(u, x)) = Concat(u) \o x /\ Concat(u) \in A
      BY ConcatAppend, ConcatType
    <2>2. M(Concat(u) \o x) = M(Concat(u)) \o M(x)
      BY <2>1, MapConcat
    <2>3. FracSum(M(Concat(Append(u, x)))) = FracSum(M(Concat(u))) ++ FracSum(M(x))
      BY <1>0, <2>1, <2>2, FracSumConcat
    <2>4. N(u) \in Seq(Fractions)
      <3>1. \A i \in 1..Len(u) : u[i] \in A
        OBVIOUS
      <3> HIDE DEF M, A
      <3>2. \A i \in 1..Len(u) : FracSum(M(u[i])) \in Fractions
        BY <1>0, <3>1
      <3>3. DOMAIN u = 1..Len(u) /\ Len(u) \in Nat
        OBVIOUS
      <3> QED BY <3>2, <3>3
    <2>5. FracSum(N(Append(u, x))) = FracSum(N(u)) ++ FracSum(M(x))
      BY <1>0, <2>0, <2>4, FracSumAppend
    <2>6. FracSum(M(Concat(u))) = FracSum(N(u)) /\ Append(u, x) \in Seq(A)
      BY <1>2
    <2> HIDE DEF N, M
    <2> QED BY <2>3, <2>5, <2>6
  <1> HIDE DEF P
  <1>3. ss \in P
    BY <1>1, <1>2, SeqInduct
  <1> QED BY <1>3 DEF P

\* What a sequence keeps of the elements of K.
Keep(s, K) == Concat([i \in DOMAIN s |-> IF s[i] \in K THEN <<s[i]>> ELSE <<>>])

\* Nothing is kept of nothing.
LEMMA KeepEmpty == \A K : Keep(<<>>, K) = <<>>
  <1> SUFFICES ASSUME NEW K PROVE Keep(<<>>, K) = <<>>
    OBVIOUS
  <1>1. [i \in DOMAIN <<>> |-> IF <<>>[i] \in K THEN <<(<<>>)[i]>> ELSE <<>>] = <<>>
    OBVIOUS
  <1> QED BY <1>1, ConcatEmpty DEF Keep

\* One more row is kept or not.
LEMMA KeepAppend ==
    ASSUME NEW S, NEW s \in Seq(S), NEW x \in S, NEW K
    PROVE  Keep(Append(s, x), K) = IF x \in K THEN Append(Keep(s, K), x) ELSE Keep(s, K)
  <1> DEFINE P(u) == [i \in DOMAIN u |-> IF u[i] \in K THEN <<u[i]>> ELSE <<>>]
             y == IF x \in K THEN <<x>> ELSE <<>>
  <1>1. P(s) \in Seq(Seq(S)) /\ y \in Seq(S)
    <2>1. \A z \in S : (IF z \in K THEN <<z>> ELSE <<>>) \in Seq(S)
      OBVIOUS
    <2>2. \A i \in 1..Len(s) : s[i] \in S
      OBVIOUS
    <2>3. DOMAIN s = 1..Len(s) /\ Len(s) \in Nat
      OBVIOUS
    <2>4. \A i \in 1..Len(s) : (IF s[i] \in K THEN <<s[i]>> ELSE <<>>) \in Seq(S)
      BY <2>1, <2>2
    <2> QED BY <2>1, <2>3, <2>4
  <1>2. P(Append(s, x)) = Append(P(s), y)
    <2> DEFINE Q(z) == IF z \in K THEN <<z>> ELSE <<>>
    <2>1. [i \in DOMAIN Append(s, x) |-> Q(Append(s, x)[i])] =
             Append([i \in DOMAIN s |-> Q(s[i])], Q(x))
      <3> HIDE DEF Q
      <3> QED OBVIOUS
    <2> QED BY <2>1
  <1>3. Keep(Append(s, x), K) = Concat(P(Append(s, x))) /\ Keep(s, K) = Concat(P(s))
    BY DEF Keep
  <1> HIDE DEF P
  <1>4. Concat(P(Append(s, x))) = Concat(P(s)) \o y /\ Concat(P(s)) \in Seq(S)
    BY <1>1, <1>2, ConcatAppend, ConcatType
  <1> QED BY <1>3, <1>4

\* What is kept is of the set.
LEMMA KeepType ==
    ASSUME NEW S, NEW s \in Seq(S), NEW K PROVE Keep(s, K) \in Seq(S \cap K)
  <1> DEFINE P == {u \in Seq(S) : Keep(u, K) \in Seq(S \cap K)}
  <1>1. <<>> \in P
    <2>1. <<>> \in Seq(S) /\ <<>> \in Seq(S \cap K)
      OBVIOUS
    <2>2. Keep(<<>>, K) = <<>>
      BY KeepEmpty
    <2> QED BY <2>1, <2>2
  <1>2. ASSUME NEW u \in Seq(S), NEW x \in S, u \in P PROVE Append(u, x) \in P
    <2>1. Keep(Append(u, x), K) = IF x \in K THEN Append(Keep(u, K), x) ELSE Keep(u, K)
      BY KeepAppend
    <2>2. Keep(u, K) \in Seq(S \cap K)
      BY <1>2
    <2>3. Keep(Append(u, x), K) \in Seq(S \cap K)
      BY <2>1, <2>2
    <2> QED BY <2>3
  <1> HIDE DEF P
  <1>3. s \in P
    BY <1>1, <1>2, SeqInduct
  <1> QED BY <1>3 DEF P

\* Every row kept is one of the sequence, in the set.
LEMMA KeepIn ==
    ASSUME NEW S, NEW s \in Seq(S), NEW K
    PROVE  Keep(s, K) \in Seq(S) /\ \A i \in 1..Len(Keep(s, K)) : Keep(s, K)[i] \in S \cap K
  <1>1. Keep(s, K) \in Seq(S \cap K)
    BY KeepType
  <1>2. S \cap K \subseteq S
    OBVIOUS
  <1>3. Keep(s, K) \in Seq(S)
    BY <1>1, <1>2, SeqMonotonic
  <1>4. \A i \in 1..Len(Keep(s, K)) : Keep(s, K)[i] \in S \cap K
    BY <1>1, ElementOfSeq
  <1> QED BY <1>3, <1>4

\* Keeping goes through concatenation.
LEMMA KeepConcat ==
    ASSUME NEW S, NEW s \in Seq(S), NEW t \in Seq(S), NEW K
    PROVE  Keep(s \o t, K) = Keep(s, K) \o Keep(t, K)
  <1> DEFINE P == {u \in Seq(S) : Keep(s \o u, K) = Keep(s, K) \o Keep(u, K)}
  <1>0. \A u \in Seq(S) : Keep(u, K) \in Seq(S)
    <2>1. \A u \in Seq(S) : Keep(u, K) \in Seq(S \cap K)
      BY KeepType
    <2> QED BY <2>1
  <1>1. <<>> \in P
    <2>1. s \o <<>> = s /\ <<>> \in Seq(S)
      OBVIOUS
    <2>2. Keep(s, K) \o <<>> = Keep(s, K)
      BY <1>0
    <2> QED BY <2>1, <2>2, KeepEmpty
  <1>2. ASSUME NEW u \in Seq(S), NEW x \in S, u \in P PROVE Append(u, x) \in P
    <2>1. s \o Append(u, x) = Append(s \o u, x) /\ s \o u \in Seq(S) /\ Append(u, x) \in Seq(S)
      OBVIOUS
    <2>2. Keep(Append(s \o u, x), K) =
             IF x \in K THEN Append(Keep(s \o u, K), x) ELSE Keep(s \o u, K)
      BY <2>1, KeepAppend
    <2>3. Keep(Append(u, x), K) = IF x \in K THEN Append(Keep(u, K), x) ELSE Keep(u, K)
      BY KeepAppend
    <2>4. Keep(s \o u, K) = Keep(s, K) \o Keep(u, K)
      BY <1>2
    <2>5. Append(Keep(s, K) \o Keep(u, K), x) = Keep(s, K) \o Append(Keep(u, K), x)
      <3>1. Keep(s, K) \in Seq(S) /\ Keep(u, K) \in Seq(S)
        BY <1>0
      <3>2. \A p, q \in Seq(S) : Append(p \o q, x) = p \o Append(q, x)
        <4> TAKE p, q \in Seq(S)
        <4>1. p \o q \in Seq(S) /\ <<x>> \in Seq(S)
          BY ConcatProperties
        <4>2. Append(p \o q, x) = (p \o q) \o <<x>> /\ Append(q, x) = q \o <<x>>
          BY <4>1, AppendIsConcat
        <4> QED BY <4>1, <4>2, ConcatAssociative
      <3> QED BY <3>1, <3>2
    <2>6. Keep(s \o Append(u, x), K) = Keep(s, K) \o Keep(Append(u, x), K)
      BY <2>1, <2>2, <2>3, <2>4, <2>5
    <2> QED BY <2>1, <2>6
  <1> HIDE DEF P
  <1>3. t \in P
    BY <1>1, <1>2, SeqInduct
  <1> QED BY <1>3 DEF P

\* The sum over what is kept.
LEMMA SumKeep ==
    ASSUME NEW S, NEW f \in [S -> Fractions], NEW s \in Seq(S), NEW K
    PROVE  FracSum(MapF(Keep(s, K), f)) =
             FracSum([i \in DOMAIN s |-> IF s[i] \in K THEN f[s[i]] ELSE Zero])
  <1> DEFINE p == [i \in DOMAIN s |-> IF s[i] \in K THEN <<s[i]>> ELSE <<>>]
             q == [i \in DOMAIN p |-> FracSum(MapF(p[i], f))]
             r == [i \in DOMAIN s |-> IF s[i] \in K THEN f[s[i]] ELSE Zero]
  <1>1. p \in Seq(Seq(S)) /\ DOMAIN p = DOMAIN s
    <2>1. \A x \in S : (IF x \in K THEN <<x>> ELSE <<>>) \in Seq(S)
      OBVIOUS
    <2>2. \A i \in 1..Len(s) : s[i] \in S
      OBVIOUS
    <2>3. DOMAIN s = 1..Len(s) /\ Len(s) \in Nat
      OBVIOUS
    <2>4. \A i \in 1..Len(s) : (IF s[i] \in K THEN <<s[i]>> ELSE <<>>) \in Seq(S)
      BY <2>1, <2>2
    <2> QED BY <2>3, <2>4
  <1>2. FracSum(MapF(Keep(s, K), f)) = FracSum(q)
    BY <1>1, SumFlat DEF Keep
  <1>3. ASSUME NEW i \in DOMAIN s PROVE q[i] = r[i]
    <2>1. s[i] \in S /\ f[s[i]] \in Fractions
      OBVIOUS
    <2>2. CASE s[i] \in K
      <3>1. MapF(<<s[i]>>, f) = Append(<<>>, f[s[i]])
        BY DEF MapF
      <3>2. FracSum(Append(<<>>, f[s[i]])) = f[s[i]]
        <4>1. <<>> \in Seq(Fractions)
          OBVIOUS
        <4> QED BY <2>1, <4>1, FracSumAppend, FracSumEmpty, PlusZero
      <3> QED BY <1>1, <2>2, <3>1, <3>2
    <2>3. CASE s[i] \notin K
      <3>1. MapF(<<>>, f) = <<>>
        BY DEF MapF
      <3> QED BY <1>1, <2>3, <3>1, FracSumEmpty
    <2> QED BY <2>2, <2>3
  <1>4. q = r
    <2>1. DOMAIN q = DOMAIN s /\ DOMAIN r = DOMAIN s
      BY <1>1
    <2>2. q = [i \in DOMAIN s |-> q[i]] /\ r = [i \in DOMAIN s |-> r[i]]
      BY <1>1
    <2> HIDE DEF q, r
    <2> QED BY <1>3, <2>2
  <1> QED BY <1>2, <1>4

-----------------------------------------------------------------------------
(* What the records are.                                                   *)

Accounts ==
    Names \cup {"receivable", "payable", "income", "expense", "cash", "deposit", "vat",
                "inventory", "cogs", "adjustment", "grni"}
Ids == {"debit", "credit", "cash", "income", "from", "to", "tax", "liability", "journal",
        "stock", "grni"}
Kinds == {"Customer", "Supplier"}
TransTypes == {"Issue", "Receipt", "Transfer", "Adjustment", "Production"}

GlRows == [id : Ids, account : Accounts, amount : Fractions, base : Fractions \cup {None}]
PartyRows == [kind : Kinds, amount : Fractions, base : Fractions \cup {None}]
TaxRows == [party_type : Kinds, base_amount : Int, tax_amount : Int]
Moves == [trans_type : TransTypes, item : Names, warehouse : Names, qty : Int,
          rate : Fractions, uom : Names]
Sles == [item : Names, warehouse : Names, qty : Int, rate : Fractions, voucher : Docs,
         is_reversal : BOOLEAN]
StockRows == Moves \cup Sles
Layers == [qty : Int, rate : Fractions]

\* The fields of a stock row.
LEMMA StockRowType ==
    ASSUME NEW r \in StockRows
    PROVE  r.qty \in Int /\ r.rate \in Fractions /\ r.item \in Names /\ r.warehouse \in Names
  BY DEF StockRows, Moves, Sles

-----------------------------------------------------------------------------
(* Costs are fractions.                                                    *)

\* Quantities are whole.
LEMMA QuantityType == ASSUME NEW s \in Seq(StockRows) PROVE Quantity(s) \in Int
  <1> DEFINE q == [i \in DOMAIN s |-> s[i].qty]
  <1>1. \A i \in 1..Len(s) : s[i].qty \in Int
    BY StockRowType
  <1>2. q \in Seq(Int)
    BY <1>1
  <1>3. SumFunction(q) \in Int
    BY <1>2, IntSumType
  <1> QED BY <1>3 DEF Quantity, Total, Map

\* A row is worth a fraction.
LEMMA ValueType == ASSUME NEW r \in StockRows PROVE Value(r) \in Fractions
  BY StockRowType, WholeType, TimesType DEF Value

\* The value of rows is a sum of fractions.
LEMMA ValuesType ==
    ASSUME NEW s \in Seq(StockRows)
    PROVE  /\ [i \in DOMAIN s |-> Value(s[i])] \in Seq(Fractions)
           /\ SumOver(s, Value) = FracSum([i \in DOMAIN s |-> Value(s[i])])
           /\ SumOver(s, Value) \in Fractions
  <1> DEFINE q == [i \in DOMAIN s |-> Value(s[i])]
  <1>1. \A i \in 1..Len(s) : Value(s[i]) \in Fractions
    BY ValueType
  <1>2. q \in Seq(Fractions)
    BY <1>1
  <1>3. FracSum(q) \in Fractions
    BY <1>2, FracSumType
  <1>4. SumOver(s, Value) = FracSum(q)
    BY DEF SumOver, Map
  <1> QED BY <1>2, <1>3, <1>4

\* What is rounded to a cent is a fraction.
LEMMA RoundType == ASSUME NEW x \in Fractions PROVE round2(x) \in Fractions
  <1> DEFINE r == (2 * Abs(x[1]) + x[2]) \div (2 * x[2])
  <1>1. x[1] \in Int /\ x[2] \in Nat \ {0}
    BY FractionType
  <1>2. Abs(x[1]) \in Int
    BY <1>1 DEF Abs
  <1>3. 2 * Abs(x[1]) + x[2] \in Int /\ 2 * x[2] \in Nat \ {0}
    BY <1>1, <1>2
  <1>4. r \in Int
    BY <1>3
  <1> HIDE DEF r
  <1>5. (IF x[1] < 0 THEN -r ELSE r) \in Int
    BY <1>4
  <1>6. round2(x) = Whole(IF x[1] < 0 THEN -r ELSE r)
    BY DEF round2, r
  <1> QED BY <1>5, <1>6, WholeType

\* Rounding is off by half a cent at most.
LEMMA RoundIs ==
    ASSUME NEW x \in Fractions
    PROVE  \E r \in Int : /\ round2(x) = Whole(r)
                          /\ 2 * (x[1] - r * x[2]) <= x[2] /\ -x[2] <= 2 * (x[1] - r * x[2])
  <1> DEFINE a == x[1]
             b == x[2]
             A == Abs(a)
             q == (2 * A + b) \div (2 * b)
             r == IF a < 0 THEN -q ELSE q
  <1>1. a \in Int /\ b \in Nat \ {0}
    BY FractionType
  <1>2. A \in Nat /\ (a < 0 => A = -a) /\ (a >= 0 => A = a)
    BY <1>1 DEF Abs
  <1>3. round2(x) = Whole(r)
    BY DEF round2
  <1> HIDE DEF a, b, A
  <1>4. q \in Int /\ (2 * b) * q <= 2 * A + b /\ 2 * A + b < (2 * b) * q + 2 * b
    <2> DEFINE m == 2 * A + b
               e == 2 * b
    <2>1. m \in Int /\ e \in Nat \ {0}
      BY <1>1, <1>2
    <2> HIDE DEF m, e
    <2>2. m \div e \in Int /\ e * (m \div e) <= m /\ m < e * (m \div e) + e
      BY <2>1
    <2> QED BY <2>2 DEF m, e
  <1> HIDE DEF q
  <1> DEFINE z == q * b
  <1>5. z \in Int /\ (2 * b) * q = 2 * z
    BY <1>1, <1>4
  <1>6. r \in Int /\ r * b = IF a < 0 THEN -z ELSE z
    BY <1>1, <1>4
  <1> HIDE DEF z, r
  <1>7. 2 * z <= 2 * A + b /\ 2 * A + b < 2 * z + 2 * b
    BY <1>4, <1>5
  <1>8. 2 * (a - r * b) <= b /\ -b <= 2 * (a - r * b)
    BY <1>1, <1>2, <1>5, <1>6, <1>7
  <1> QED BY <1>3, <1>6, <1>8 DEF a, b

\* A quantity other than 0 can be divided by.
LEMMA WholeNotZero == \A n \in Int : n # 0 => Whole(n) # Zero
  BY DEF Whole, Zero

\* The price of one unit is a fraction.
LEMMA DivideType ==
    ASSUME NEW x \in Fractions, NEW n \in Int, n # 0 PROVE x // Whole(n) \in Fractions
  BY WholeType, WholeNotZero, DivideIs

\* The moving average is a fraction (compute_balance).
LEMMA BalanceType ==
    ASSUME NEW s \in Seq(StockRows) PROVE compute_balance(s).rate \in Fractions
  <1> DEFINE q == Quantity(s)
             x == round2(SumOver(s, Value))
             y == IF q = 0 THEN Zero ELSE round2(x // Whole(q))
  <1>1. q \in Int /\ x \in Fractions
    BY QuantityType, ValuesType, RoundType
  <1>2. compute_balance(s).rate = y
    BY DEF compute_balance
  <1> HIDE DEF q, x
  <1>3. y \in Fractions
    BY <1>1, DivideType, RoundType, ZeroType
  <1> QED BY <1>2, <1>3

Taken == [need : Int, cost : Fractions, left : Seq(Layers)]

\* Taking from a layer keeps the types (fifo_rate).
LEMMA TakeLayerType ==
    ASSUME NEW a \in Taken, NEW l \in Layers PROVE TakeLayer(a, l) \in Taken
  <1> DEFINE t == IF l.qty <= a.need THEN l.qty ELSE a.need
             m == [l EXCEPT !.qty = @ - t]
             c == a.cost ++ (Whole(t) ** l.rate)
             e == IF l.qty = t THEN a.left ELSE Append(a.left, m)
  <1>1. /\ l.qty \in Int /\ l.rate \in Fractions /\ a.need \in Int /\ a.cost \in Fractions
        /\ a.left \in Seq(Layers)
    BY DEF Taken, Layers
  <1>2. t \in Int
    BY <1>1
  <1> HIDE DEF t
  <1>3. c \in Fractions
    BY <1>1, <1>2, WholeType, TimesType, PlusType
  <1>4. m \in Layers
    BY <1>1, <1>2 DEF Layers
  <1> HIDE DEF m
  <1>5. e \in Seq(Layers)
    BY <1>1, <1>4
  <1>6. a.need - t \in Int
    BY <1>1, <1>2
  <1>7. TakeLayer(a, l) = [need |-> a.need - t, cost |-> c, left |-> e]
    BY DEF TakeLayer, t, m
  <1> HIDE DEF c, e
  <1> QED BY <1>3, <1>5, <1>6, <1>7 DEF Taken

\* What taking and replaying compute is what their recursions define.
LEMMA TakeOldestFcn ==
    ASSUME NEW s \in Seq(Layers), NEW k \in Int
    PROVE  \E f \in [0..Len(s) -> Taken] :
              /\ TakeOldest(s, k) = f[Len(s)]
              /\ f[0] = NothingTaken(k)
              /\ \A i \in 1..Len(s) : f[i] = TakeLayer(f[i - 1], s[i])
  <1> DEFINE n == Len(s)
             a == NothingTaken(k)
             G == [x \in Taken |-> [i \in 1..n |-> TakeLayer(x, s[i])]]
             F == CHOOSE f : f = [i \in 0..n |-> IF i = 0 THEN a ELSE TakeLayer(f[i - 1], s[i])]
  <1>1. n \in Nat /\ (\A i \in 1..n : s[i] \in Layers)
    OBVIOUS
  <1>2. a \in Taken
    <2>1. <<>> \in Seq(Layers)
      OBVIOUS
    <2> QED BY <2>1, ZeroType DEF NothingTaken, Taken
  <1>3. TakeOldest(s, k) = F[n]
    BY DEF TakeOldest, Fold
  <1>4. IsStep(G, Taken, n)
    <2>1. \A x \in Taken, i \in 1..n : TakeLayer(x, s[i]) \in Taken
      BY <1>1, TakeLayerType
    <2> QED BY <2>1 DEF IsStep
  <1> HIDE DEF n, a
  <1>5. PICK g : IsIterate(g, Taken, n, a, G)
    <2> HIDE DEF G
    <2> QED BY <1>1, <1>2, <1>4, Iterates
  <1>6. \A x \in Taken, i \in 1..n : G[x][i] = TakeLayer(x, s[i])
    OBVIOUS
  <1> HIDE DEF G
  <1>7. g = [i \in 0..n |-> IF i = 0 THEN a ELSE TakeLayer(g[i - 1], s[i])]
    <2>1. g \in [0..n -> Taken] /\ g[0] = a
      BY <1>5 DEF IsIterate
    <2>2. \A i \in 1..n : g[i - 1] \in Taken
      BY <1>1, <2>1
    <2>3. \A i \in 1..n : g[i] = G[g[i - 1]][i]
      BY <1>5 DEF IsIterate
    <2>4. \A i \in 1..n : g[i] = TakeLayer(g[i - 1], s[i])
      BY <1>6, <2>2, <2>3
    <2>5. \A i \in 0..n : g[i] = IF i = 0 THEN a ELSE TakeLayer(g[i - 1], s[i])
      <3> TAKE i \in 0..n
      <3>1. CASE i = 0
        BY <2>1, <3>1
      <3>2. CASE i # 0
        <4>1. i \in 1..n
          BY <1>1, <3>2
        <4> QED BY <2>4, <3>2, <4>1
      <3> QED BY <3>1, <3>2
    <2>6. DOMAIN g = 0..n /\ g = [i \in DOMAIN g |-> g[i]]
      BY <2>1
    <2> QED BY <2>5, <2>6
  <1>8. F = [i \in 0..n |-> IF i = 0 THEN a ELSE TakeLayer(F[i - 1], s[i])]
    BY <1>7
  <1> HIDE DEF F
  <1>9. Follows(F, Taken, n, a, G)
    BY <1>1, <1>6, <1>8 DEF Follows
  <1>10. \A i \in 0..n : F[i] \in Taken
    BY <1>1, <1>2, <1>4, <1>9, IteratesAgree
  <1>11. F \in [0..n -> Taken] /\ F[0] = a /\ \A i \in 1..n : F[i] = TakeLayer(F[i - 1], s[i])
    <2>1. DOMAIN F = 0..n
      BY <1>8
    <2>2. F[0] = a
      BY <1>1, <1>8
    <2>3. \A i \in 1..n : F[i] = TakeLayer(F[i - 1], s[i])
      BY <1>1, <1>8
    <2> QED BY <1>8, <1>10, <2>1, <2>2, <2>3
  <1> QED BY <1>3, <1>11 DEF n, a

\* Taking from the layers, oldest first, keeps the types.
LEMMA TakeOldestType ==
    ASSUME NEW s \in Seq(Layers), NEW k \in Int PROVE TakeOldest(s, k) \in Taken
  <1>1. Len(s) \in 0..Len(s)
    OBVIOUS
  <1> QED BY <1>1, TakeOldestFcn

\* Replaying a row leaves layers (remaining_layers).
LEMMA ReplayRowType ==
    ASSUME NEW s \in Seq(Layers), NEW r \in StockRows PROVE ReplayRow(s, r) \in Seq(Layers)
  <1>1. r.qty \in Int /\ r.rate \in Fractions
    BY StockRowType
  <1>2. TakeOldest(s, -r.qty) \in Taken
    BY <1>1, TakeOldestType
  <1>3. TakeOldest(s, -r.qty).left \in Seq(Layers)
    BY <1>2 DEF Taken
  <1>4. Append(s, [qty |-> r.qty, rate |-> r.rate]) \in Seq(Layers)
    BY <1>1 DEF Layers
  <1> QED BY <1>3, <1>4 DEF ReplayRow

\* The layers are what the rows leave, replayed one after the other.
LEMMA RemainingFcn ==
    ASSUME NEW s \in Seq(StockRows)
    PROVE  \E f \in [0..Len(s) -> Seq(Layers)] :
              /\ remaining_layers(s) = f[Len(s)]
              /\ f[0] = <<>>
              /\ \A i \in 1..Len(s) : f[i] = ReplayRow(f[i - 1], s[i])
  <1> DEFINE n == Len(s)
             A == Seq(Layers)
             G == [x \in A |-> [i \in 1..n |-> ReplayRow(x, s[i])]]
             F == CHOOSE f : f = [i \in 0..n |-> IF i = 0 THEN <<>> ELSE ReplayRow(f[i - 1], s[i])]
  <1>1. n \in Nat /\ (\A i \in 1..n : s[i] \in StockRows) /\ <<>> \in A
    OBVIOUS
  <1>3. remaining_layers(s) = F[n]
    BY DEF remaining_layers, Fold
  <1>4. IsStep(G, A, n)
    <2>1. \A x \in A, i \in 1..n : ReplayRow(x, s[i]) \in A
      BY <1>1, ReplayRowType
    <2> HIDE DEF A
    <2> QED BY <2>1 DEF IsStep
  <1> HIDE DEF n, A
  <1>5. PICK g : IsIterate(g, A, n, <<>>, G)
    <2> HIDE DEF G
    <2> QED BY <1>1, <1>4, Iterates
  <1>6. \A x \in A, i \in 1..n : G[x][i] = ReplayRow(x, s[i])
    OBVIOUS
  <1> HIDE DEF G
  <1>7. g = [i \in 0..n |-> IF i = 0 THEN <<>> ELSE ReplayRow(g[i - 1], s[i])]
    <2>1. g \in [0..n -> A] /\ g[0] = <<>>
      BY <1>5 DEF IsIterate
    <2>2. \A i \in 1..n : g[i - 1] \in A
      BY <1>1, <2>1
    <2>3. \A i \in 1..n : g[i] = G[g[i - 1]][i]
      BY <1>5 DEF IsIterate
    <2>4. \A i \in 1..n : g[i] = ReplayRow(g[i - 1], s[i])
      BY <1>6, <2>2, <2>3
    <2>5. \A i \in 0..n : g[i] = IF i = 0 THEN <<>> ELSE ReplayRow(g[i - 1], s[i])
      <3> TAKE i \in 0..n
      <3>1. CASE i = 0
        BY <2>1, <3>1
      <3>2. CASE i # 0
        <4>1. i \in 1..n
          BY <1>1, <3>2
        <4> QED BY <2>4, <3>2, <4>1
      <3> QED BY <3>1, <3>2
    <2>6. DOMAIN g = 0..n /\ g = [i \in DOMAIN g |-> g[i]]
      BY <2>1
    <2> QED BY <2>5, <2>6
  <1>8. F = [i \in 0..n |-> IF i = 0 THEN <<>> ELSE ReplayRow(F[i - 1], s[i])]
    BY <1>7
  <1> HIDE DEF F
  <1>9. Follows(F, A, n, <<>>, G)
    BY <1>1, <1>6, <1>8 DEF Follows
  <1>10. \A i \in 0..n : F[i] \in A
    BY <1>1, <1>4, <1>9, IteratesAgree
  <1>11. F \in [0..n -> A] /\ F[0] = <<>> /\ \A i \in 1..n : F[i] = ReplayRow(F[i - 1], s[i])
    <2>1. DOMAIN F = 0..n
      BY <1>8
    <2>2. F[0] = <<>>
      BY <1>1, <1>8
    <2>3. \A i \in 1..n : F[i] = ReplayRow(F[i - 1], s[i])
      BY <1>1, <1>8
    <2> QED BY <1>8, <1>10, <2>1, <2>2, <2>3
  <1> QED BY <1>3, <1>11 DEF n, A

\* What remains is layers.
LEMMA RemainingType ==
    ASSUME NEW s \in Seq(StockRows) PROVE remaining_layers(s) \in Seq(Layers)
  <1>1. Len(s) \in 0..Len(s)
    OBVIOUS
  <1> QED BY <1>1, RemainingFcn

\* The rate of an issue is a fraction under either method (issue_rate).
LEMMA IssueRateType ==
    ASSUME NEW s \in Seq(StockRows), NEW n \in Int, NEW m PROVE issue_rate(s, n, m) \in Fractions
  <1>1. compute_balance(s).rate \in Fractions
    BY BalanceType
  <1>2. ASSUME n > 0 PROVE fifo_rate(s, n) \in Fractions
    <2> DEFINE t == TakeOldest(remaining_layers(s), n)
    <2>1. t \in Taken
      BY RemainingType, TakeOldestType
    <2> HIDE DEF t
    <2>2. t.cost \in Fractions /\ t.need \in Int
      BY <2>1 DEF Taken
    <2>3. Whole(t.need) ** compute_balance(s).rate \in Fractions
      BY <1>1, <2>2, WholeType, TimesType
    <2>4. t.cost ++ (Whole(t.need) ** compute_balance(s).rate) \in Fractions
      BY <2>2, <2>3, PlusType
    <2> QED BY <1>2, <2>4, DivideType DEF fifo_rate, t
  <1> QED BY <1>1, <1>2, ZeroType DEF issue_rate

-----------------------------------------------------------------------------
(* What the validations make of a payload.                                 *)

\* The fields that no step of a posting changes.
SameFields(w, v) ==
    /\ w.doctype = v.doctype /\ w.items = v.items /\ w.taxes = v.taxes
    /\ w.accounts = v.accounts /\ w.customer = v.customer /\ w.supplier = v.supplier
    /\ w.party = v.party /\ w.payment_type = v.payment_type
    /\ w.stock_entry_type = v.stock_entry_type /\ w.set_warehouse = v.set_warehouse
    /\ w.return_against = v.return_against /\ w.conversion_rate = v.conversion_rate
    /\ w.paid_amount = v.paid_amount /\ w.net_amount = v.net_amount
    /\ w.tax_amount = v.tax_amount /\ w.amount = v.amount
    /\ w.prices_include_tax = v.prices_include_tax /\ w.update_stock = v.update_stock
    /\ w.is_return = v.is_return /\ w.offline_fiscal = v.offline_fiscal

SettledNames ==
    {"debit_to", "credit_to", "income_account", "expense_account", "cash_account",
     "deposit_account", "paid_from", "paid_to"}

\* The fields of a payload.
LEMMA PayloadFields ==
    ASSUME NEW v \in Payloads
    PROVE  /\ v.items \in Seq(Lines) /\ v.taxes \in Seq(TaxLines) /\ v.accounts \in Seq(Entries)
           /\ v.set_warehouse \in Names /\ v.tax_account \in Names
           /\ v.debit_to \in Names /\ v.credit_to \in Names /\ v.income_account \in Names
           /\ v.expense_account \in Names /\ v.cash_account \in Names
           /\ v.deposit_account \in Names /\ v.paid_from \in Names /\ v.paid_to \in Names
           /\ v.total \in Int \cup {None} /\ v.tax_total \in Int \cup {None}
           /\ v.grand_total \in Int \cup {None} /\ v.conversion_rate \in Fractions \cup {None}
           /\ v.paid_amount \in Int /\ v.net_amount \in Int /\ v.tax_amount \in Int
           /\ v.gross_amount \in Int \cup {None} /\ v.amount \in Int
           /\ v.is_return \in BOOLEAN /\ v.update_stock \in BOOLEAN
  BY DEF Payloads

\* The names of the fields of a payload.
LEMMA PayloadDomain ==
    ASSUME NEW v \in Payloads
    PROVE  DOMAIN v = {"doctype", "items", "taxes", "accounts", "customer", "supplier", "party",
              "payment_type", "stock_entry_type", "set_warehouse", "return_against", "debit_to",
              "credit_to", "income_account", "expense_account", "cash_account",
              "deposit_account", "paid_from", "paid_to", "tax_account", "total", "tax_total",
              "grand_total", "conversion_rate", "paid_amount", "net_amount", "tax_amount",
              "gross_amount", "amount", "is_paid", "prices_include_tax", "update_stock",
              "is_return", "offline_fiscal"}
  BY DEF Payloads

\* The fallbacks are for account fields only.
LEMMA FallbackDomain == ASSUME NEW v PROVE DOMAIN Fallbacks(v) \subseteq SettledNames
  BY DEF Fallbacks, SettledNames

\* A blank account gets the default of the doctype.
Fallback(w, v, x) ==
    w[x] = IF x \in DOMAIN Fallbacks(v) /\ v[x] = None THEN Fallbacks(v)[x] ELSE v[x]

\* The fallbacks change nothing but the account fields (resolve_account_fallbacks).
LEMMA ResolvedFields ==
    ASSUME NEW v \in Payloads, NEW w, w = resolve_account_fallbacks(v)
    PROVE  /\ SameFields(w, v) /\ DOMAIN w = DOMAIN v
           /\ w.tax_account = v.tax_account /\ w.is_paid = v.is_paid
           /\ w.gross_amount = v.gross_amount /\ w.grand_total = v.grand_total
           /\ w.total = v.total /\ w.tax_total = v.tax_total
           /\ \A x \in SettledNames : Fallback(w, v, x)
  <1>1. DOMAIN w = DOMAIN v
    BY DEF resolve_account_fallbacks
  <1>2. \A x \in DOMAIN v : x \notin SettledNames => w[x] = v[x]
    BY FallbackDomain DEF resolve_account_fallbacks
  <1>3. SettledNames \subseteq DOMAIN v
    BY PayloadDomain DEF SettledNames
  <1>4. \A x \in SettledNames : Fallback(w, v, x)
    BY <1>3 DEF resolve_account_fallbacks, Fallback
  <1>5. SameFields(w, v)
    BY <1>2, PayloadDomain DEF SettledNames, SameFields
  <1>6. /\ w.tax_account = v.tax_account /\ w.is_paid = v.is_paid
        /\ w.gross_amount = v.gross_amount /\ w.grand_total = v.grand_total
        /\ w.total = v.total /\ w.tax_total = v.tax_total
    BY <1>2, PayloadDomain DEF SettledNames
  <1> QED BY <1>1, <1>4, <1>5, <1>6

\* Every account field names an account once the fallbacks are in.
LEMMA FallbackType ==
    ASSUME NEW v \in Payloads, NEW w, w = resolve_account_fallbacks(v)
    PROVE  /\ w.debit_to \in Accounts /\ w.credit_to \in Accounts /\ w.income_account \in Accounts
           /\ w.expense_account \in Accounts /\ w.cash_account \in Accounts
           /\ w.deposit_account \in Accounts /\ w.paid_from \in Accounts /\ w.paid_to \in Accounts
  <1>1. \A x \in SettledNames : Fallback(w, v, x)
    BY ResolvedFields
  <1>2. /\ v.debit_to \in Accounts /\ v.credit_to \in Accounts /\ v.income_account \in Accounts
        /\ v.expense_account \in Accounts /\ v.cash_account \in Accounts
        /\ v.deposit_account \in Accounts /\ v.paid_from \in Accounts /\ v.paid_to \in Accounts
    BY PayloadFields DEF Accounts
  <1>3. /\ "debit_to" \in DOMAIN Fallbacks(v) => Fallbacks(v).debit_to \in Accounts
        /\ "credit_to" \in DOMAIN Fallbacks(v) => Fallbacks(v).credit_to \in Accounts
        /\ "income_account" \in DOMAIN Fallbacks(v) => Fallbacks(v).income_account \in Accounts
        /\ "expense_account" \in DOMAIN Fallbacks(v) => Fallbacks(v).expense_account \in Accounts
    BY DEF Fallbacks, Accounts
  <1>4. /\ "cash_account" \in DOMAIN Fallbacks(v) => Fallbacks(v).cash_account \in Accounts
        /\ "deposit_account" \in DOMAIN Fallbacks(v) => Fallbacks(v).deposit_account \in Accounts
        /\ "paid_from" \in DOMAIN Fallbacks(v) => Fallbacks(v).paid_from \in Accounts
        /\ "paid_to" \in DOMAIN Fallbacks(v) => Fallbacks(v).paid_to \in Accounts
    BY DEF Fallbacks, Accounts
  <1>5. w.debit_to \in Accounts /\ w.credit_to \in Accounts /\ w.income_account \in Accounts
        /\ w.expense_account \in Accounts
    BY <1>1, <1>2, <1>3 DEF SettledNames, Fallback
  <1>6. /\ w.cash_account \in Accounts
        /\ w.deposit_account \in Accounts /\ w.paid_from \in Accounts /\ w.paid_to \in Accounts
    BY <1>1, <1>2, <1>4 DEF SettledNames, Fallback
  <1> QED BY <1>5, <1>6

\* The fields of an item line.
LEMMA LineType ==
    ASSUME NEW l \in Lines
    PROVE  /\ l.qty \in Int /\ l.rate \in Fractions /\ line_amount(l) \in Int
           /\ l.item \in Names /\ l.warehouse \in Names /\ l.uom \in Names
           /\ l.source_warehouse \in Names /\ l.target_warehouse \in Names
           /\ l.valuation_rate \in Fractions \cup {None}
           /\ Worth(l) \in Fractions /\ round2(Worth(l))[1] \in Int
  <1>1. /\ l.qty \in Int /\ l.rate \in Fractions /\ l.amount \in Int \cup {None}
        /\ l.item \in Names /\ l.warehouse \in Names /\ l.uom \in Names
        /\ l.source_warehouse \in Names /\ l.target_warehouse \in Names
        /\ l.valuation_rate \in Fractions \cup {None}
    BY DEF Lines
  <1>2. Worth(l) \in Fractions
    BY <1>1, WholeType, TimesType DEF Worth
  <1>3. round2(Worth(l))[1] \in Int
    BY <1>2, RoundIs DEF Whole
  <1> QED BY <1>1, <1>2, <1>3 DEF line_amount, Default

\* The fields of a tax line.
LEMMA TaxLineType ==
    ASSUME NEW r \in TaxLines
    PROVE  r.tax_amount \in Int /\ r.taxable_amount \in Int /\ r.tax_account \in Names
  BY DEF TaxLines

\* The fields of a journal line.
LEMMA EntryType ==
    ASSUME NEW r \in Entries PROVE r.debit \in Int /\ r.credit \in Int /\ r.account \in Names
  BY DEF Entries

\* The tax of a document is an integer (total_tax).
LEMMA TotalTaxType ==
    ASSUME NEW v, v.taxes \in Seq(TaxLines)
    PROVE  /\ [i \in DOMAIN v.taxes |-> v.taxes[i].tax_amount] \in Seq(Int)
           /\ total_tax(v) \in Int
  <1> DEFINE q == [i \in DOMAIN v.taxes |-> v.taxes[i].tax_amount]
  <1>1. \A i \in 1..Len(v.taxes) : v.taxes[i].tax_amount \in Int
    BY TaxLineType
  <1>2. q \in Seq(Int)
    BY <1>1
  <1>3. SumFunction(q) \in Int
    BY <1>2, IntSumType
  <1> QED BY <1>2, <1>3 DEF total_tax, Total, Map

\* The computed total is an integer.
LEMMA ComputedType ==
    ASSUME NEW v, v.taxes \in Seq(TaxLines), v.items \in Seq(Lines)
    PROVE  Computed(v).grand_total \in Int
  <1> DEFINE q == [i \in DOMAIN v.items |-> line_amount(v.items[i])]
             K == {r \in TaxLines : r.tax_type # "Withholding"}
             p == Keep(v.taxes, K)
             t == [i \in DOMAIN p |-> p[i].tax_amount]
             e == IF v.prices_include_tax THEN SumFunction(t) ELSE 0
  <1>1. \A i \in 1..Len(v.items) : line_amount(v.items[i]) \in Int
    BY LineType
  <1>2. q \in Seq(Int)
    BY <1>1
  <1>3. SumFunction(q) \in Int
    BY <1>2, IntSumType
  <1>4. Filter(v.taxes, LAMBDA r : r.tax_type # "Withholding") = p
    BY DEF Filter, FlatMap, Map, Keep
  <1>5. p \in Seq(TaxLines)
    BY KeepIn
  <1> HIDE DEF p
  <1>6. \A i \in 1..Len(p) : p[i].tax_amount \in Int
    BY <1>5, TaxLineType
  <1>7. t \in Seq(Int)
    BY <1>5, <1>6
  <1>8. e \in Int
    BY <1>7, IntSumType
  <1>9. Computed(v).grand_total = (SumFunction(q) - e) + total_tax(v)
    BY <1>4 DEF Computed, Total, Map
  <1>10. total_tax(v) \in Int
    BY TotalTaxType
  <1> HIDE DEF e, q
  <1> QED BY <1>3, <1>8, <1>9, <1>10

\* What a posting derives its rows from.
Settled(v) == Derived(resolve_account_fallbacks(v))

\* The fields rows are derived from.
IsSettled(w) ==
    /\ w.items \in Seq(Lines) /\ w.taxes \in Seq(TaxLines) /\ w.accounts \in Seq(Entries)
    /\ w.set_warehouse \in Names /\ w.tax_account \in Accounts
    /\ w.debit_to \in Accounts /\ w.credit_to \in Accounts /\ w.income_account \in Accounts
    /\ w.expense_account \in Accounts /\ w.cash_account \in Accounts
    /\ w.deposit_account \in Accounts /\ w.paid_from \in Accounts /\ w.paid_to \in Accounts
    /\ w.conversion_rate \in Fractions \cup {None}
    /\ w.paid_amount \in Int /\ w.net_amount \in Int /\ w.tax_amount \in Int /\ w.amount \in Int
    /\ w.doctype \in Invoices => w.grand_total \in Int
    /\ w.doctype = "Expense" => w.gross_amount = w.net_amount + w.tax_amount

SameAccounts(w, u) ==
    /\ w.debit_to = u.debit_to /\ w.credit_to = u.credit_to
    /\ w.income_account = u.income_account /\ w.expense_account = u.expense_account
    /\ w.cash_account = u.cash_account /\ w.deposit_account = u.deposit_account
    /\ w.paid_from = u.paid_from /\ w.paid_to = u.paid_to

\* What the settled document has of the payload, and its types.
LEMMA SettledFields ==
    ASSUME NEW v \in Payloads, NEW w, w = Settled(v)
    PROVE  /\ SameFields(w, v) /\ IsSettled(w)
           /\ SameAccounts(w, resolve_account_fallbacks(v))
           /\ w.tax_account = v.tax_account \/ (v.tax_account = None /\ w.tax_account = "vat")
           /\ w.doctype = "Expense" =>
                /\ w.is_paid = Default(v.is_paid, TRUE)
                /\ w.tax_amount # 0 => w.tax_account = Default(v.tax_account, "vat")
  <1> DEFINE u == resolve_account_fallbacks(v)
             g == Totals(u).grand_total
  <1>1. /\ SameFields(u, v) /\ DOMAIN u = DOMAIN v
        /\ u.tax_account = v.tax_account /\ u.is_paid = v.is_paid
        /\ u.gross_amount = v.gross_amount /\ u.grand_total = v.grand_total
    BY ResolvedFields
  <1>2. /\ u.debit_to \in Accounts /\ u.credit_to \in Accounts /\ u.income_account \in Accounts
        /\ u.expense_account \in Accounts /\ u.cash_account \in Accounts
        /\ u.deposit_account \in Accounts /\ u.paid_from \in Accounts /\ u.paid_to \in Accounts
    BY FallbackType
  <1>3. /\ u.items \in Seq(Lines) /\ u.taxes \in Seq(TaxLines)
    BY <1>1, PayloadFields DEF SameFields
  <1>4. g \in Int
    <2>1. Computed(u).grand_total \in Int
      BY <1>3, ComputedType
    <2>2. Totals(u).grand_total = Default(u.grand_total, Computed(u).grand_total)
      BY DEF Totals
    <2> QED BY <1>1, <2>1, <2>2, PayloadFields DEF Default
  <1>5. w = Derived(u)
    BY DEF Settled
  <1> HIDE DEF u
  <1>6. CASE u.doctype = "Expense"
    <2>1. w = [u EXCEPT !.is_paid = Default(@, TRUE),
                        !.gross_amount = u.net_amount + u.tax_amount,
                        !.tax_account = IF u.tax_amount # 0 THEN Default(@, "vat") ELSE @]
      BY <1>5, <1>6 DEF Derived
    <2>2. SameFields(w, u) /\ SameAccounts(w, u)
      BY <2>1 DEF SameFields, SameAccounts
    <2>3. /\ w.is_paid = Default(u.is_paid, TRUE)
          /\ w.gross_amount = u.net_amount + u.tax_amount
          /\ w.tax_account = IF u.tax_amount # 0 THEN Default(u.tax_account, "vat")
                             ELSE u.tax_account
      BY <1>1, <2>1, PayloadDomain
    <2>4. SameFields(w, v)
      BY <1>1, <2>2 DEF SameFields
    <2>5. w.tax_account = v.tax_account \/ (v.tax_account = None /\ w.tax_account = "vat")
      BY <1>1, <2>3 DEF Default
    <2>6. IsSettled(w)
      BY <1>1, <1>2, <1>6, <2>2, <2>3, <2>4, <2>5, PayloadFields
         DEF IsSettled, SameFields, SameAccounts, Accounts, Invoices
    <2>7. w.tax_amount # 0 => w.tax_account = Default(v.tax_account, "vat")
      BY <1>1, <2>3, <2>4 DEF SameFields
    <2> QED BY <1>1, <2>2, <2>3, <2>4, <2>5, <2>6, <2>7 DEF u
  <1>7. CASE u.doctype \in Invoices
    <2>1. w = [u EXCEPT !.grand_total = g]
      BY <1>5, <1>7 DEF Derived, Invoices
    <2> HIDE DEF g
    <2>2. SameFields(w, u) /\ SameAccounts(w, u)
      BY <2>1 DEF SameFields, SameAccounts
    <2>3. w.grand_total = g /\ w.tax_account = u.tax_account
      BY <1>1, <2>1, PayloadDomain
    <2>4. SameFields(w, v)
      BY <1>1, <2>2 DEF SameFields
    <2>5. IsSettled(w)
      BY <1>1, <1>2, <1>4, <1>7, <2>2, <2>3, <2>4, PayloadFields
         DEF IsSettled, SameFields, SameAccounts, Accounts, Invoices
    <2> QED BY <1>1, <1>7, <2>2, <2>3, <2>4, <2>5 DEF u, Invoices, SameFields
  <1>8. CASE u.doctype # "Expense" /\ u.doctype \notin Invoices
    <2>1. w = u
      BY <1>5, <1>8 DEF Derived
    <2>2. IsSettled(w)
      BY <1>1, <1>2, <1>8, <2>1, PayloadFields
         DEF IsSettled, SameFields, SameAccounts, Accounts, Invoices
    <2> QED BY <1>1, <1>8, <2>1, <2>2 DEF u, Invoices, SameAccounts
  <1> QED BY <1>6, <1>7, <1>8

-----------------------------------------------------------------------------
(* The monetary legs.                                                      *)

\* A leg whose base column is null.
Unstamped == [id : Ids, account : Accounts, amount : Fractions, base : {None}]

\* A leg without a base amount is a row of the general ledger.
LEMMA UnstampedType ==
    ASSUME NEW r \in Unstamped PROVE r \in GlRows /\ r.base = None
  BY DEF Unstamped, GlRows

\* The legs that Gl builds.
LEMMA GlType ==
    ASSUME NEW id \in Ids, NEW a \in Accounts, NEW n \in Int PROVE Gl(id, a, n) \in Unstamped
  BY WholeType DEF Gl, Unstamped

\* Any name may be an account.
LEMMA NamesAreAccounts == Names \subseteq Accounts
  BY DEF Accounts

Posts(r) == r.tax_account # None /\ r.tax_amount # 0
TaxLeg(sign) == [r \in TaxLines |-> Gl("tax", r.tax_account, sign * r.tax_amount)]

\* The tax legs are those of the tax lines that post (tax_legs).
LEMMA TaxLegsAre ==
    ASSUME NEW v, v.taxes \in Seq(TaxLines), NEW sign \in Int
    PROVE  /\ TaxLeg(sign) \in [TaxLines -> Unstamped]
           /\ tax_legs(v, sign) = MapF(Keep(v.taxes, {r \in TaxLines : Posts(r)}), TaxLeg(sign))
           /\ tax_legs(v, sign) \in Seq(Unstamped)
  <1> DEFINE K == {r \in TaxLines : Posts(r)}
             p == Keep(v.taxes, K)
             f == TaxLeg(sign)
  <1>1. f \in [TaxLines -> Unstamped]
    <2>1. ASSUME NEW r \in TaxLines PROVE Gl("tax", r.tax_account, sign * r.tax_amount) \in Unstamped
      <3>1. r.tax_account \in Accounts /\ sign * r.tax_amount \in Int
        BY TaxLineType, NamesAreAccounts
      <3>2. "tax" \in Ids
        BY DEF Ids
      <3> QED BY <3>1, <3>2, GlType
    <2> QED BY <2>1 DEF TaxLeg
  <1>2. Filter(v.taxes, LAMBDA r : r.tax_account # None /\ r.tax_amount # 0) = p
    BY DEF Filter, FlatMap, Map, Keep, Posts
  <1>3. p \in Seq(TaxLines)
    BY KeepIn
  <1> HIDE DEF p
  <1>4. tax_legs(v, sign) = [i \in DOMAIN p |-> Gl("tax", p[i].tax_account, sign * p[i].tax_amount)]
    BY <1>2 DEF tax_legs, Map
  <1>5. tax_legs(v, sign) = MapF(p, f)
    <2>1. \A i \in DOMAIN p : p[i] \in TaxLines
      BY <1>3
    <2> QED BY <1>4, <2>1 DEF MapF, TaxLeg
  <1>6. MapF(p, f) \in Seq(Unstamped)
    BY <1>1, <1>3, MapType
  <1> QED BY <1>1, <1>5, <1>6 DEF p

Named == {r \in Entries : r.account # None}
JournalLeg == [r \in Entries |-> Gl("journal", r.account, r.debit - r.credit)]

\* The journal lines that name an account (journal_rows).
LEMMA JournalRowsAre ==
    ASSUME NEW v, v.accounts \in Seq(Entries)
    PROVE  journal_rows(v) = Keep(v.accounts, Named) /\ journal_rows(v) \in Seq(Entries)
  <1>1. journal_rows(v) = Keep(v.accounts, Named)
    BY DEF journal_rows, Filter, FlatMap, Map, Keep, Named
  <1> QED BY <1>1, KeepIn

\* The leg of a journal line.
LEMMA JournalLegType == JournalLeg \in [Entries -> Unstamped]
  <1>1. ASSUME NEW r \in Entries PROVE Gl("journal", r.account, r.debit - r.credit) \in Unstamped
    <2>1. r.account \in Accounts /\ r.debit - r.credit \in Int
      BY EntryType, NamesAreAccounts
    <2>2. "journal" \in Ids
      BY DEF Ids
    <2> QED BY <2>1, <2>2, GlType
  <1> QED BY <1>1 DEF JournalLeg

\* The monetary legs, by doctype.
LEMMA MonetaryIs ==
    ASSUME NEW w, IsSettled(w)
    PROVE  /\ w.doctype = "SalesInvoice" => derive_monetary_gl(w) =
                <<Gl("debit", w.debit_to, w.grand_total),
                  Gl("credit", w.income_account, -(w.grand_total - total_tax(w)))>>
                \o tax_legs(w, -1)
           /\ w.doctype = "PurchaseInvoice" => derive_monetary_gl(w) =
                <<Gl("credit", w.credit_to, -w.grand_total),
                  Gl("debit", w.expense_account, w.grand_total - total_tax(w))>>
                \o tax_legs(w, 1)
           /\ w.doctype = "POSInvoice" => derive_monetary_gl(w) =
                <<Gl("cash", w.cash_account, w.grand_total),
                  Gl("income", w.income_account, -(w.grand_total - total_tax(w)))>>
                \o tax_legs(w, -1)
           /\ w.doctype = "PaymentEntry" => derive_monetary_gl(w) =
                <<Gl("from", w.paid_from, -w.paid_amount), Gl("to", w.paid_to, w.paid_amount)>>
           /\ w.doctype = "Expense" => derive_monetary_gl(w) =
                <<Gl("debit", w.expense_account, w.net_amount)>>
                \o (IF w.tax_amount # 0 THEN <<Gl("tax", w.tax_account, w.tax_amount)>> ELSE <<>>)
                \o <<Gl("credit", IF w.is_paid THEN w.paid_from ELSE w.credit_to,
                        -w.gross_amount)>>
           /\ w.doctype = "CustomerDeposit" => derive_monetary_gl(w) =
                <<Gl("cash", w.cash_account, w.amount),
                  Gl("liability", w.deposit_account, -w.amount)>>
           /\ w.doctype = "JournalEntry" =>
                derive_monetary_gl(w) = MapF(journal_rows(w), JournalLeg)
           /\ w.doctype \notin {"SalesInvoice", "PurchaseInvoice", "POSInvoice", "PaymentEntry",
                                "Expense", "CustomerDeposit", "JournalEntry"} =>
                derive_monetary_gl(w) = <<>>
  <1>1. w.doctype = "JournalEntry" => derive_monetary_gl(w) = MapF(journal_rows(w), JournalLeg)
    <2>1. \A i \in DOMAIN journal_rows(w) : journal_rows(w)[i] \in Entries
      BY JournalRowsAre DEF IsSettled
    <2> QED BY <2>1 DEF derive_monetary_gl, Map, MapF, JournalLeg
  <1>2. w.doctype = "SalesInvoice" => derive_monetary_gl(w) =
                <<Gl("debit", w.debit_to, w.grand_total),
                  Gl("credit", w.income_account, -(w.grand_total - total_tax(w)))>>
                \o tax_legs(w, -1)
    BY DEF derive_monetary_gl
  <1>3. w.doctype = "PurchaseInvoice" => derive_monetary_gl(w) =
                <<Gl("credit", w.credit_to, -w.grand_total),
                  Gl("debit", w.expense_account, w.grand_total - total_tax(w))>>
                \o tax_legs(w, 1)
    BY DEF derive_monetary_gl
  <1>4. w.doctype = "POSInvoice" => derive_monetary_gl(w) =
                <<Gl("cash", w.cash_account, w.grand_total),
                  Gl("income", w.income_account, -(w.grand_total - total_tax(w)))>>
                \o tax_legs(w, -1)
    BY DEF derive_monetary_gl
  <1>5. w.doctype = "PaymentEntry" => derive_monetary_gl(w) =
                <<Gl("from", w.paid_from, -w.paid_amount), Gl("to", w.paid_to, w.paid_amount)>>
    BY DEF derive_monetary_gl
  <1>6. w.doctype = "Expense" => derive_monetary_gl(w) =
                <<Gl("debit", w.expense_account, w.net_amount)>>
                \o (IF w.tax_amount # 0 THEN <<Gl("tax", w.tax_account, w.tax_amount)>> ELSE <<>>)
                \o <<Gl("credit", IF w.is_paid THEN w.paid_from ELSE w.credit_to,
                        -w.gross_amount)>>
    BY DEF derive_monetary_gl
  <1>7. w.doctype = "CustomerDeposit" => derive_monetary_gl(w) =
                <<Gl("cash", w.cash_account, w.amount),
                  Gl("liability", w.deposit_account, -w.amount)>>
    BY DEF derive_monetary_gl
  <1>8. w.doctype \notin {"SalesInvoice", "PurchaseInvoice", "POSInvoice", "PaymentEntry",
                          "Expense", "CustomerDeposit", "JournalEntry"} =>
                derive_monetary_gl(w) = <<>>
    BY DEF derive_monetary_gl
  <1> QED BY <1>1, <1>2, <1>3, <1>4, <1>5, <1>6, <1>7, <1>8

\* The monetary legs, for every doctype (derive_monetary_gl).
LEMMA MonetaryType ==
    ASSUME NEW w, IsSettled(w) PROVE derive_monetary_gl(w) \in Seq(Unstamped)
  <1>1. total_tax(w) \in Int /\ tax_legs(w, 1) \in Seq(Unstamped) /\ tax_legs(w, -1) \in Seq(Unstamped)
    <2>1. w.taxes \in Seq(TaxLines) /\ 1 \in Int /\ -1 \in Int
      BY DEF IsSettled
    <2>2. total_tax(w) \in Int
      BY <2>1, TotalTaxType
    <2>3. \A sign \in Int : tax_legs(w, sign) \in Seq(Unstamped)
      BY <2>1, TaxLegsAre
    <2> QED BY <2>1, <2>2, <2>3
  <1>2. Ids = Ids \cup {"debit", "credit", "cash", "income", "from", "to", "tax", "liability"}
    BY DEF Ids
  <1>3. \A x, y \in Unstamped : <<x, y>> \in Seq(Unstamped) /\ <<x>> \in Seq(Unstamped)
    OBVIOUS
  <1>4. \A s, t \in Seq(Unstamped) : s \o t \in Seq(Unstamped)
    OBVIOUS
  <1>5. CASE w.doctype \in {"SalesInvoice", "PurchaseInvoice", "POSInvoice"}
    <2>1. w.grand_total \in Int /\ -w.grand_total \in Int
          /\ w.grand_total - total_tax(w) \in Int /\ -(w.grand_total - total_tax(w)) \in Int
      BY <1>1, <1>5 DEF IsSettled, Invoices
    <2>2. /\ Gl("debit", w.debit_to, w.grand_total) \in Unstamped
          /\ Gl("credit", w.income_account, -(w.grand_total - total_tax(w))) \in Unstamped
          /\ Gl("credit", w.credit_to, -w.grand_total) \in Unstamped
          /\ Gl("debit", w.expense_account, w.grand_total - total_tax(w)) \in Unstamped
          /\ Gl("cash", w.cash_account, w.grand_total) \in Unstamped
          /\ Gl("income", w.income_account, -(w.grand_total - total_tax(w))) \in Unstamped
      BY <1>2, <2>1, GlType DEF IsSettled
    <2>3. CASE w.doctype = "SalesInvoice"
      <3> DEFINE a == Gl("debit", w.debit_to, w.grand_total)
                 b == Gl("credit", w.income_account, -(w.grand_total - total_tax(w)))
      <3>1. derive_monetary_gl(w) = <<a, b>> \o tax_legs(w, -1)
        BY <2>3, MonetaryIs
      <3>2. a \in Unstamped /\ b \in Unstamped
        BY <2>2
      <3> HIDE DEF a, b
      <3>3. <<a, b>> \in Seq(Unstamped)
        BY <3>2
      <3> QED BY <1>1, <1>4, <3>1, <3>3
    <2>4. CASE w.doctype = "PurchaseInvoice"
      <3> DEFINE a == Gl("credit", w.credit_to, -w.grand_total)
                 b == Gl("debit", w.expense_account, w.grand_total - total_tax(w))
      <3>1. derive_monetary_gl(w) = <<a, b>> \o tax_legs(w, 1)
        BY <2>4, MonetaryIs
      <3>2. a \in Unstamped /\ b \in Unstamped
        BY <2>2
      <3> HIDE DEF a, b
      <3>3. <<a, b>> \in Seq(Unstamped)
        BY <3>2
      <3> QED BY <1>1, <1>4, <3>1, <3>3
    <2>5. CASE w.doctype = "POSInvoice"
      <3> DEFINE a == Gl("cash", w.cash_account, w.grand_total)
                 b == Gl("income", w.income_account, -(w.grand_total - total_tax(w)))
      <3>1. derive_monetary_gl(w) = <<a, b>> \o tax_legs(w, -1)
        BY <2>5, MonetaryIs
      <3>2. a \in Unstamped /\ b \in Unstamped
        BY <2>2
      <3> HIDE DEF a, b
      <3>3. <<a, b>> \in Seq(Unstamped)
        BY <3>2
      <3> QED BY <1>1, <1>4, <3>1, <3>3
    <2> QED BY <1>5, <2>3, <2>4, <2>5
  <1>6. CASE w.doctype = "PaymentEntry"
    <2>1. w.paid_amount \in Int /\ -w.paid_amount \in Int
      BY DEF IsSettled
    <2>2. Gl("from", w.paid_from, -w.paid_amount) \in Unstamped
          /\ Gl("to", w.paid_to, w.paid_amount) \in Unstamped
      BY <1>2, <2>1, GlType DEF IsSettled
    <2> QED BY <1>3, <1>6, <2>2, MonetaryIs
  <1>7. CASE w.doctype = "Expense"
    <2> DEFINE a == IF w.is_paid THEN w.paid_from ELSE w.credit_to
               t == IF w.tax_amount # 0 THEN <<Gl("tax", w.tax_account, w.tax_amount)>> ELSE <<>>
    <2>1. /\ -w.gross_amount \in Int /\ w.net_amount \in Int /\ w.tax_amount \in Int
          /\ a \in Accounts
      BY <1>7 DEF IsSettled
    <2>2. Gl("debit", w.expense_account, w.net_amount) \in Unstamped
          /\ Gl("tax", w.tax_account, w.tax_amount) \in Unstamped
          /\ Gl("credit", a, -w.gross_amount) \in Unstamped
      BY <1>2, <2>1, GlType DEF IsSettled
    <2>3. t \in Seq(Unstamped)
      BY <1>3, <2>2
    <2> HIDE DEF t, a
    <2>4. derive_monetary_gl(w) = <<Gl("debit", w.expense_account, w.net_amount)>> \o t
                                  \o <<Gl("credit", a, -w.gross_amount)>>
      BY <1>7, MonetaryIs DEF t, a
    <2> QED BY <1>3, <1>4, <2>2, <2>3, <2>4
  <1>8. CASE w.doctype = "CustomerDeposit"
    <2>1. w.amount \in Int /\ -w.amount \in Int
      BY DEF IsSettled
    <2>2. Gl("cash", w.cash_account, w.amount) \in Unstamped
          /\ Gl("liability", w.deposit_account, -w.amount) \in Unstamped
      BY <1>2, <2>1, GlType DEF IsSettled
    <2> QED BY <1>3, <1>8, <2>2, MonetaryIs
  <1>9. CASE w.doctype = "JournalEntry"
    <2>1. journal_rows(w) \in Seq(Entries)
      BY JournalRowsAre DEF IsSettled
    <2>2. MapF(journal_rows(w), JournalLeg) \in Seq(Unstamped)
      BY <2>1, JournalLegType, MapType
    <2> QED BY <1>9, <2>2, MonetaryIs
  <1>10. <<>> \in Seq(Unstamped)
    OBVIOUS
  <1> QED BY <1>5, <1>6, <1>7, <1>8, <1>9, <1>10, MonetaryIs

\* The conversion rate is a fraction (conversion_rate_of).
LEMMA RateType ==
    ASSUME NEW w, w.conversion_rate \in Fractions \cup {None}
    PROVE  conversion_rate_of(w) \in Fractions
  BY WholeType DEF conversion_rate_of

\* Rows are stamped at the document's rate, or left alone.
LEMMA StampType ==
    ASSUME NEW w, IsSettled(w), NEW S,
           \A r \in S : /\ r.amount \in Fractions
                        /\ \A x \in Fractions : [r EXCEPT !.base = x] \in S,
           NEW s \in Seq(S)
    PROVE  stamp_base_amounts(w, s) \in Seq(S)
  <1> DEFINE c == conversion_rate_of(w)
             e(r) == [r EXCEPT !.base = r.amount ** c]
             t == [i \in DOMAIN s |-> e(s[i])]
  <1>1. c \in Fractions
    BY RateType DEF IsSettled
  <1> HIDE DEF c
  <1>2. \A i \in 1..Len(s) : e(s[i]) \in S
    <2>1. \A r \in S : r.amount ** c \in Fractions
      BY <1>1, TimesType
    <2>2. \A i \in 1..Len(s) : s[i] \in S
      OBVIOUS
    <2> QED BY <2>1, <2>2
  <1>3. t \in Seq(S)
    <2> HIDE DEF e
    <2> QED BY <1>2
  <1>4. stamp_base_amounts(w, s) = IF is_base_stamped(w.doctype) THEN t ELSE s
    BY DEF stamp_base_amounts, Map, c
  <1> QED BY <1>3, <1>4

\* The fields of a row of the general ledger.
LEMMA GlRowType ==
    ASSUME NEW r \in GlRows
    PROVE  /\ r.amount \in Fractions /\ r.base \in Fractions \cup {None}
           /\ r.account \in Accounts /\ r.id \in Ids
           /\ Base(r) \in Fractions /\ Amount(r) \in Fractions
           /\ \A x \in Fractions : [r EXCEPT !.base = x] \in GlRows
  <1>1. /\ r.amount \in Fractions /\ r.base \in Fractions \cup {None}
        /\ r.account \in Accounts /\ r.id \in Ids
    BY DEF GlRows
  <1>2. \A x \in Fractions : [r EXCEPT !.base = x] \in GlRows
    BY DEF GlRows
  <1> QED BY <1>1, <1>2 DEF Base, Amount, Default

\* The fields of a row of the party subledger.
LEMMA PartyRowType ==
    ASSUME NEW r \in PartyRows
    PROVE  /\ r.amount \in Fractions /\ r.base \in Fractions \cup {None} /\ r.kind \in Kinds
           /\ Base(r) \in Fractions /\ Amount(r) \in Fractions
           /\ \A x \in Fractions : [r EXCEPT !.base = x] \in PartyRows
  <1>1. r.amount \in Fractions /\ r.base \in Fractions \cup {None} /\ r.kind \in Kinds
    BY DEF PartyRows
  <1>2. \A x \in Fractions : [r EXCEPT !.base = x] \in PartyRows
    BY DEF PartyRows
  <1> QED BY <1>1, <1>2 DEF Base, Amount, Default

\* The monetary legs with their base amounts (stamp_base_amounts).
LEMMA MonetaryStamped ==
    ASSUME NEW w, IsSettled(w)
    PROVE  stamp_base_amounts(w, derive_monetary_gl(w)) \in Seq(GlRows)
  <1>1. Unstamped \subseteq GlRows
    BY UnstampedType
  <1>2. derive_monetary_gl(w) \in Seq(GlRows)
    BY <1>1, MonetaryType, SeqMonotonic
  <1> QED BY <1>2, StampType, GlRowType

-----------------------------------------------------------------------------
(* The party and tax rows.                                                 *)

\* Min is the least of a set of naturals.
LEMMA MinIs ==
    ASSUME NEW S \in SUBSET Nat, S # {} PROVE Min(S) \in S /\ \A x \in S : Min(S) <= x
  <1>1. PICK n \in S : \A m \in S : n <= m
    BY LeastNat
  <1> QED BY <1>1 DEF Min

\* Max is the greatest of a bounded set of naturals.
LEMMA MaxIs ==
    ASSUME NEW n \in Nat, NEW S \in SUBSET (1..n), S # {}
    PROVE  Max(S) \in S /\ \A x \in S : x <= Max(S)
  <1> DEFINE T == {n - x : x \in S}
  <1>0. \A x \in S : x \in 1..n /\ x \in Int /\ n - x \in Nat
    OBVIOUS
  <1>1. T \in SUBSET Nat /\ T # {}
    BY <1>0
  <1>2. PICK t \in T : \A m \in T : t <= m
    BY <1>1, LeastNat
  <1>3. PICK e \in S : t = n - e
    BY <1>2
  <1>4. \A x \in S : e >= x
    <2>1. \A x \in S : n - e <= n - x
      BY <1>2, <1>3
    <2>2. ASSUME NEW x \in S PROVE e >= x
      <3>1. x \in Int /\ e \in Int /\ n - e <= n - x
        BY <1>0, <2>1
      <3> QED BY <3>1
    <2> QED BY <2>2
  <1>5. Max(S) \in S /\ \A x \in S : Max(S) >= x
    BY <1>4 DEF Max
  <1>6. ASSUME NEW x \in S PROVE x <= Max(S)
    <2>1. x \in Int /\ Max(S) \in Int /\ Max(S) >= x
      BY <1>0, <1>5
    <2> QED BY <2>1
  <1> QED BY <1>5, <1>6

\* A party row before it is stamped.
PlainParty == {r \in PartyRows : r.base = r.amount}

\* The rows that PartyRow builds.
LEMMA PartyRowIs ==
    ASSUME NEW k \in Kinds, NEW n \in Int PROVE PartyRow(k, n) \in PlainParty
  BY WholeType DEF PartyRow, PartyRows, PlainParty

OfParty == {r \in Entries : r.party # None /\ r.party_type \in Kinds}
JournalParty ==
    [r \in OfParty |-> PartyRow(r.party_type, IF r.party_type = "Customer"
                                              THEN r.debit - r.credit ELSE r.credit - r.debit)]

\* The party row of a journal line.
LEMMA JournalPartyType == JournalParty \in [OfParty -> PlainParty]
  <1>1. ASSUME NEW r \in OfParty
        PROVE  PartyRow(r.party_type, IF r.party_type = "Customer"
                                      THEN r.debit - r.credit ELSE r.credit - r.debit) \in PlainParty
    <2>1. r.party_type \in Kinds /\ (IF r.party_type = "Customer"
                                      THEN r.debit - r.credit ELSE r.credit - r.debit) \in Int
      BY EntryType DEF OfParty
    <2> QED BY <2>1, PartyRowIs
  <1> QED BY <1>1 DEF JournalParty

\* The party rows of a journal are those of its lines with a party.
LEMMA JournalPartiesAre ==
    ASSUME NEW w, IsSettled(w), w.doctype = "JournalEntry"
    PROVE  /\ Keep(journal_rows(w), OfParty) \in Seq(OfParty)
           /\ derive_party_rows(w) = MapF(Keep(journal_rows(w), OfParty), JournalParty)
  <1> DEFINE j == journal_rows(w)
             p == Keep(j, OfParty)
  <1>1. j \in Seq(Entries)
    BY JournalRowsAre DEF IsSettled
  <1>2. Filter(j, LAMBDA r : r.party # None /\ r.party_type \in {"Customer", "Supplier"}) = p
    <2> HIDE DEF j
    <2> QED BY <1>1 DEF Filter, FlatMap, Map, Keep, OfParty, Kinds
  <1>3. p \in Seq(OfParty)
    <2>1. p \in Seq(Entries \cap OfParty)
      BY <1>1, KeepType
    <2>2. Entries \cap OfParty = OfParty
      BY DEF OfParty
    <2> QED BY <2>1, <2>2
  <1>4. derive_party_rows(w) =
           [i \in DOMAIN p |-> PartyRow(p[i].party_type, IF p[i].party_type = "Customer"
                                                         THEN p[i].debit - p[i].credit
                                                         ELSE p[i].credit - p[i].debit)]
    <2> HIDE DEF p
    <2> QED BY <1>2 DEF derive_party_rows, Map
  <1>5. derive_party_rows(w) = MapF(p, JournalParty)
    <2>1. \A i \in DOMAIN p : p[i] \in OfParty
      BY <1>3
    <2> HIDE DEF p
    <2> QED BY <1>4, <2>1 DEF MapF, JournalParty
  <1> QED BY <1>3, <1>5

\* The party rows, for every doctype (derive_subledger_rows).
LEMMA PartyType ==
    ASSUME NEW w, IsSettled(w) PROVE derive_party_rows(w) \in Seq(PlainParty)
  <1>1. "Customer" \in Kinds /\ "Supplier" \in Kinds
    BY DEF Kinds
  <1>2. (\A x \in PlainParty : <<x>> \in Seq(PlainParty)) /\ <<>> \in Seq(PlainParty)
    OBVIOUS
  <1>3. CASE w.doctype = "JournalEntry"
    BY <1>3, JournalPartiesAre, JournalPartyType, MapType
  <1>4. CASE w.doctype = "SalesInvoice"
    <2>1. PartyRow("Customer", w.grand_total) \in PlainParty
      BY <1>1, <1>4, PartyRowIs DEF IsSettled, Invoices
    <2>2. derive_party_rows(w) \in {<<PartyRow("Customer", w.grand_total)>>, <<>>}
      BY <1>4 DEF derive_party_rows
    <2> QED BY <1>2, <2>1, <2>2
  <1>5. CASE w.doctype = "PurchaseInvoice"
    <2>1. PartyRow("Supplier", w.grand_total) \in PlainParty
      BY <1>1, <1>5, PartyRowIs DEF IsSettled, Invoices
    <2>2. derive_party_rows(w) \in {<<PartyRow("Supplier", w.grand_total)>>, <<>>}
      BY <1>5 DEF derive_party_rows
    <2> QED BY <1>2, <2>1, <2>2
  <1>6. CASE w.doctype = "PaymentEntry"
    <2>0. -w.paid_amount \in Int
      BY DEF IsSettled
    <2>1. PartyRow("Supplier", -w.paid_amount) \in PlainParty
          /\ PartyRow("Customer", -w.paid_amount) \in PlainParty
      BY <1>1, <2>0, PartyRowIs
    <2>2. derive_party_rows(w) \in {<<PartyRow("Supplier", -w.paid_amount)>>,
                                    <<PartyRow("Customer", -w.paid_amount)>>, <<>>}
      BY <1>6 DEF derive_party_rows
    <2> QED BY <1>2, <2>1, <2>2
  <1>7. CASE w.doctype = "Expense"
    <2>0. w.gross_amount \in Int
      BY <1>7 DEF IsSettled
    <2>1. PartyRow("Supplier", w.gross_amount) \in PlainParty
      BY <1>1, <2>0, PartyRowIs
    <2>2. derive_party_rows(w) \in {<<PartyRow("Supplier", w.gross_amount)>>, <<>>}
      BY <1>7 DEF derive_party_rows
    <2> QED BY <1>2, <2>1, <2>2
  <1>8. CASE w.doctype \notin {"JournalEntry", "SalesInvoice", "PurchaseInvoice",
                               "PaymentEntry", "Expense"}
    <2>1. derive_party_rows(w) = <<>>
      BY <1>8 DEF derive_party_rows
    <2> QED BY <2>1
  <1> QED BY <1>3, <1>4, <1>5, <1>6, <1>7, <1>8

\* The party rows with their base amounts.
LEMMA PartyStamped ==
    ASSUME NEW w, IsSettled(w)
    PROVE  stamp_base_amounts(w, derive_party_rows(w)) \in Seq(PartyRows)
  <1>1. PlainParty \subseteq PartyRows
    BY DEF PlainParty
  <1>2. derive_party_rows(w) \in Seq(PartyRows)
    BY <1>1, PartyType, SeqMonotonic
  <1> QED BY <1>2, StampType, PartyRowType

InvoiceTax(k) == [r \in TaxLines |-> TaxRow(k, r.taxable_amount, r.tax_amount)]

\* The tax rows, by doctype (derive_subledger_rows).
LEMMA TaxRowsAre ==
    ASSUME NEW w, IsSettled(w)
    PROVE  /\ w.doctype \in Invoices =>
                derive_tax_rows(w) =
                   MapF(w.taxes, InvoiceTax(IF w.doctype = "PurchaseInvoice" THEN "Supplier"
                                            ELSE "Customer"))
           /\ w.doctype = "Expense" /\ w.tax_amount # 0 =>
                derive_tax_rows(w) = <<TaxRow("Supplier", w.net_amount, w.tax_amount)>>
           /\ w.doctype \notin Invoices /\ ~(w.doctype = "Expense" /\ w.tax_amount # 0) =>
                derive_tax_rows(w) = <<>>
           /\ derive_tax_rows(w) \in Seq(TaxRows)
  <1> DEFINE k == IF w.doctype = "PurchaseInvoice" THEN "Supplier" ELSE "Customer"
  <1>1. k \in Kinds /\ "Supplier" \in Kinds
    BY DEF Kinds
  <1>2. InvoiceTax(k) \in [TaxLines -> TaxRows]
    <2> HIDE DEF k
    <2> QED BY <1>1, TaxLineType DEF InvoiceTax, TaxRow, TaxRows
  <1>3. w.taxes \in Seq(TaxLines)
    BY DEF IsSettled
  <1>4. MapF(w.taxes, InvoiceTax(k)) \in Seq(TaxRows)
    BY <1>2, <1>3, MapType
  <1>5. w.doctype \in Invoices => derive_tax_rows(w) = MapF(w.taxes, InvoiceTax(k))
    <2>1. \A i \in DOMAIN w.taxes : w.taxes[i] \in TaxLines
      BY <1>3
    <2>2. w.doctype \in Invoices => derive_tax_rows(w) =
             [i \in DOMAIN w.taxes |-> TaxRow(k, w.taxes[i].taxable_amount, w.taxes[i].tax_amount)]
      BY DEF derive_tax_rows, Map, Invoices
    <2> HIDE DEF k
    <2> QED BY <2>1, <2>2 DEF MapF, InvoiceTax
  <1>6. w.doctype = "Expense" /\ w.tax_amount # 0 =>
           derive_tax_rows(w) = <<TaxRow("Supplier", w.net_amount, w.tax_amount)>>
    BY DEF derive_tax_rows, Invoices
  <1>7. w.doctype \notin Invoices /\ ~(w.doctype = "Expense" /\ w.tax_amount # 0) =>
           derive_tax_rows(w) = <<>>
    BY DEF derive_tax_rows, Invoices
  <1>8. TaxRow("Supplier", w.net_amount, w.tax_amount) \in TaxRows
    BY <1>1 DEF IsSettled, TaxRow, TaxRows
  <1>9. derive_tax_rows(w) \in Seq(TaxRows)
    <2>1. <<TaxRow("Supplier", w.net_amount, w.tax_amount)>> \in Seq(TaxRows) /\ <<>> \in Seq(TaxRows)
      BY <1>8
    <2> QED BY <1>4, <1>5, <1>6, <1>7, <2>1
  <1> QED BY <1>5, <1>6, <1>7, <1>9

-----------------------------------------------------------------------------
(* The stock rows.                                                         *)

\* The rows that Sle builds.
LEMMA SleType ==
    ASSUME NEW t \in TransTypes, NEW l \in Lines, NEW h \in Names, NEW q \in Int,
           NEW x \in Fractions
    PROVE  Sle(t, l, h, q, x) \in Moves
  BY LineType DEF Sle, Moves

DocRow(w, sign, t, l) ==
    IF None \in {l.item, Default(l.warehouse, w.set_warehouse)} THEN <<>>
    ELSE <<Sle(t, l, Default(l.warehouse, w.set_warehouse), sign * l.qty,
               Default(l.valuation_rate, l.rate))>>

\* The stock row of a line of an invoice, a receipt or a delivery.
LEMMA DocRowType ==
    ASSUME NEW w, IsSettled(w), NEW sign \in Int, NEW t \in TransTypes, NEW l \in Lines
    PROVE  DocRow(w, sign, t, l) \in Seq(Moves)
  <1> DEFINE h == Default(l.warehouse, w.set_warehouse)
             x == Default(l.valuation_rate, l.rate)
             q == sign * l.qty
  <1>1. h \in Names /\ x \in Fractions /\ q \in Int
    BY LineType DEF IsSettled, Default
  <1>2. Sle(t, l, h, q, x) \in Moves
    BY <1>1, SleType
  <1>3. DocRow(w, sign, t, l) = IF None \in {l.item, h} THEN <<>> ELSE <<Sle(t, l, h, q, x)>>
    BY DEF DocRow
  <1> HIDE DEF h, x, q
  <1> QED BY <1>2, <1>3

\* The stock rows of a document are those of its lines in order (stock_document_rows).
LEMMA DocRowsAre ==
    ASSUME NEW w, IsSettled(w), NEW sign \in Int, NEW t \in TransTypes
    PROVE  /\ [i \in DOMAIN w.items |-> DocRow(w, sign, t, w.items[i])] \in Seq(Seq(Moves))
           /\ stock_document_rows(w, sign, t) =
                Concat([i \in DOMAIN w.items |-> DocRow(w, sign, t, w.items[i])])
           /\ stock_document_rows(w, sign, t) \in Seq(Moves)
  <1> DEFINE p == [i \in DOMAIN w.items |-> DocRow(w, sign, t, w.items[i])]
  <1>1. w.items \in Seq(Lines)
    BY DEF IsSettled
  <1>2. \A i \in 1..Len(w.items) : DocRow(w, sign, t, w.items[i]) \in Seq(Moves)
    BY <1>1, DocRowType
  <1>3. p \in Seq(Seq(Moves))
    BY <1>1, <1>2
  <1>4. stock_document_rows(w, sign, t) = Concat(p)
    BY DEF stock_document_rows, FlatMap, Map, DocRow
  <1> QED BY <1>3, <1>4, ConcatType

EntryLeg(w, l, h, q) ==
    IF None \in {l.item, h} THEN <<>>
    ELSE <<Sle(stock_entry_trans_type(w.stock_entry_type), l, h, q, Default(l.valuation_rate, Zero))>>
EntryRow(w, l) == EntryLeg(w, l, l.source_warehouse, -l.qty) \o EntryLeg(w, l, l.target_warehouse, l.qty)

\* A stock entry has one of the transaction types (stock_entry_trans_type).
LEMMA TransTypeIs == \A x : stock_entry_trans_type(x) \in TransTypes
  BY DEF stock_entry_trans_type, TransTypes

\* The stock rows of a line of a stock entry.
LEMMA EntryRowType == ASSUME NEW w, NEW l \in Lines PROVE EntryRow(w, l) \in Seq(Moves)
  <1>1. Default(l.valuation_rate, Zero) \in Fractions /\ -l.qty \in Int
    BY LineType, ZeroType DEF Default
  <1>2. \A h \in Names, q \in Int : EntryLeg(w, l, h, q) \in Seq(Moves)
    <2> TAKE h \in Names, q \in Int
    <2> DEFINE m == Sle(stock_entry_trans_type(w.stock_entry_type), l, h, q,
                        Default(l.valuation_rate, Zero))
    <2>1. m \in Moves
      BY <1>1, TransTypeIs, SleType
    <2>2. EntryLeg(w, l, h, q) = IF None \in {l.item, h} THEN <<>> ELSE <<m>>
      BY DEF EntryLeg
    <2> HIDE DEF m
    <2> QED BY <2>1, <2>2
  <1>3. /\ EntryLeg(w, l, l.source_warehouse, -l.qty) \in Seq(Moves)
        /\ EntryLeg(w, l, l.target_warehouse, l.qty) \in Seq(Moves)
    BY <1>1, <1>2, LineType
  <1> QED BY <1>3, ConcatProperties DEF EntryRow

\* The stock rows of a stock entry are those of its lines in order (stock_entry_rows).
LEMMA EntryRowsAre ==
    ASSUME NEW w, IsSettled(w)
    PROVE  /\ [i \in DOMAIN w.items |-> EntryRow(w, w.items[i])] \in Seq(Seq(Moves))
           /\ stock_entry_rows(w) = Concat([i \in DOMAIN w.items |-> EntryRow(w, w.items[i])])
           /\ stock_entry_rows(w) \in Seq(Moves)
  <1> DEFINE p == [i \in DOMAIN w.items |-> EntryRow(w, w.items[i])]
  <1>1. w.items \in Seq(Lines)
    BY DEF IsSettled
  <1>2. \A i \in 1..Len(w.items) : EntryRow(w, w.items[i]) \in Seq(Moves)
    BY <1>1, EntryRowType
  <1>3. p \in Seq(Seq(Moves))
    BY <1>1, <1>2
  <1>4. stock_entry_rows(w) = Concat(p)
    BY DEF stock_entry_rows, FlatMap, Map, EntryRow, EntryLeg
  <1> QED BY <1>3, <1>4, ConcatType

Stocked == {r \in Moves : is_stock_item_type(r.item)}

\* The rows before services are left out.
RawRows(w) ==
    CASE w.doctype = "SalesInvoice" /\ w.update_stock -> stock_document_rows(w, -1, "Issue")
      [] w.doctype = "PurchaseInvoice" /\ w.update_stock -> stock_document_rows(w, 1, "Receipt")
      [] w.doctype = "PurchaseReceipt" -> stock_document_rows(w, 1, "Receipt")
      [] w.doctype \in {"POSInvoice", "DeliveryNote"} -> stock_document_rows(w, -1, "Issue")
      [] w.doctype = "StockEntry" -> stock_entry_rows(w)
      [] OTHER -> <<>>

\* The stock rows of a document are those of stocked items (derive_stock_rows).
LEMMA StockRowsAre ==
    ASSUME NEW w, IsSettled(w)
    PROVE  /\ RawRows(w) \in Seq(Moves)
           /\ derive_stock_rows(w) = Keep(RawRows(w), Stocked)
           /\ derive_stock_rows(w) \in Seq(Moves)
  <1>1. /\ stock_document_rows(w, -1, "Issue") \in Seq(Moves)
        /\ stock_document_rows(w, 1, "Receipt") \in Seq(Moves)
        /\ stock_entry_rows(w) \in Seq(Moves) /\ <<>> \in Seq(Moves)
    <2>1. "Issue" \in TransTypes /\ "Receipt" \in TransTypes /\ -1 \in Int /\ 1 \in Int
      BY DEF TransTypes
    <2>2. \A sign \in Int, t \in TransTypes : stock_document_rows(w, sign, t) \in Seq(Moves)
      BY DocRowsAre
    <2>3. stock_entry_rows(w) \in Seq(Moves)
      BY EntryRowsAre
    <2>4. <<>> \in Seq(Moves)
      OBVIOUS
    <2> QED BY <2>1, <2>2, <2>3, <2>4
  <1>2. RawRows(w) \in Seq(Moves)
    BY <1>1 DEF RawRows
  <1>3. derive_stock_rows(w) = Filter(RawRows(w), LAMBDA r : is_stock_item_type(r.item))
    BY DEF derive_stock_rows, RawRows
  <1>4. Filter(RawRows(w), LAMBDA r : is_stock_item_type(r.item)) = Keep(RawRows(w), Stocked)
    BY <1>2 DEF Filter, FlatMap, Map, Keep, Stocked
  <1> QED BY <1>2, <1>3, <1>4, KeepIn

UomRows == [uom : Names, conversion_factor : Int]

\* The units of measure of an item (load_items).
LEMMA ItemType == ASSUME NEW i PROVE load_items(i).uoms \in Seq(UomRows)
  <1>1. <<>> \in Seq(UomRows)
    OBVIOUS
  <1>2. ASSUME NEW x \in ItemRecords PROVE x.uoms \in Seq(UomRows)
    BY DEF ItemRecords, UomRows
  <1>3. UnknownItem.uoms = <<>>
    BY DEF UnknownItem
  <1> QED BY <1>1, <1>2, <1>3, PayloadsAssumption DEF load_items

\* A unit of measure holds at least one stock unit (uom_factor).
LEMMA FactorType == ASSUME NEW i, NEW u PROVE uom_factor(i, u) \in Nat \ {0}
  <1> DEFINE s == load_items(i).uoms
             rows == {k \in DOMAIN s : s[k].uom = u /\ s[k].conversion_factor > 0}
  <1>1. s \in Seq(UomRows)
    BY ItemType
  <1>2. ASSUME NEW k \in DOMAIN s PROVE s[k].conversion_factor \in Int /\ k \in Nat
    <2> HIDE DEF s
    <2>1. s[k] \in UomRows /\ k \in Nat
      BY <1>1
    <2> QED BY <2>1 DEF UomRows
  <1>3. uom_factor(i, u) = IF None \in {u, load_items(i).stock_uom} \/ u = load_items(i).stock_uom
                              \/ rows = {} THEN 1
                           ELSE s[Min(rows)].conversion_factor
    BY DEF uom_factor
  <1> HIDE DEF s
  <1>4. rows # {} => Min(rows) \in rows
    <2>1. rows \in SUBSET Nat
      BY <1>2
    <2> HIDE DEF rows
    <2> QED BY <2>1, MinIs
  <1>5. rows # {} => s[Min(rows)].conversion_factor \in Nat \ {0}
    BY <1>2, <1>4
  <1> HIDE DEF rows
  <1> QED BY <1>3, <1>5

-----------------------------------------------------------------------------
(* Costing the rows.                                                       *)

\* Stored rows and new rows are stock rows.
LEMMA SubRows == Seq(Sles) \subseteq Seq(StockRows) /\ Seq(Moves) \subseteq Seq(StockRows)
  <1>1. Sles \subseteq StockRows /\ Moves \subseteq StockRows
    BY DEF StockRows
  <1>2. \A s \in Seq(Sles) : s \in Seq(StockRows)
    BY <1>1, SeqMonotonic
  <1>3. \A s \in Seq(Moves) : s \in Seq(StockRows)
    BY <1>1, SeqMonotonic
  <1> QED BY <1>2, <1>3

AtPair(p) == {r \in StockRows : Pair(r) = p}

\* What a row is costed on: the stored rows of its pair, then the new ones (prior_for).
LEMMA PriorIs ==
    ASSUME sles \in Seq(Sles), NEW rows \in Seq(StockRows), NEW p
    PROVE  /\ sles_for_pair(p) = Keep(sles, AtPair(p))
           /\ Filter(rows, LAMBDA r : Pair(r) = p) = Keep(rows, AtPair(p))
           /\ prior_for(p, rows) = Keep(sles \o rows, AtPair(p))
           /\ prior_for(p, rows) \in Seq(StockRows)
  <1>1. sles \in Seq(StockRows)
    BY SubRows
  <1>2. sles_for_pair(p) = Keep(sles, AtPair(p))
    BY <1>1 DEF sles_for_pair, Filter, FlatMap, Map, Keep, AtPair
  <1>3. Filter(rows, LAMBDA r : Pair(r) = p) = Keep(rows, AtPair(p))
    BY DEF Filter, FlatMap, Map, Keep, AtPair
  <1>4. prior_for(p, rows) = Keep(sles, AtPair(p)) \o Keep(rows, AtPair(p))
    BY <1>2, <1>3 DEF prior_for
  <1>5. Keep(sles \o rows, AtPair(p)) = Keep(sles, AtPair(p)) \o Keep(rows, AtPair(p))
    BY <1>1, KeepConcat
  <1>6. sles \o rows \in Seq(StockRows)
    BY <1>1, ConcatProperties
  <1> QED BY <1>2, <1>3, <1>4, <1>5, <1>6, KeepIn

OfVoucher(d) == {r \in Sles : r.voucher = d}

\* The stored rows of a voucher (sles_for_voucher).
LEMMA VoucherRowsAre ==
    ASSUME sles \in Seq(Sles), NEW d
    PROVE  sles_for_voucher(d) = Keep(sles, OfVoucher(d)) /\ sles_for_voucher(d) \in Seq(Sles)
  <1>1. sles_for_voucher(d) = Keep(sles, OfVoucher(d))
    BY DEF sles_for_voucher, Filter, FlatMap, Map, Keep, OfVoucher
  <1> QED BY <1>1, KeepIn

\* The cost of a return is a fraction (return_cost).
LEMMA ReturnCostType ==
    ASSUME sles \in Seq(Sles), NEW v, NEW p, NEW prior \in Seq(StockRows)
    PROVE  return_cost(v, p, prior) \in Fractions
  <1> DEFINE o == Keep(sles_for_voucher(v.return_against), {r \in Sles : r.item = p[1]})
             t == Keep(o, {r \in Sles : Pair(r) = p})
  <1>1. sles_for_voucher(v.return_against) \in Seq(Sles)
    BY VoucherRowsAre
  <1>2. Filter(sles_for_voucher(v.return_against), LAMBDA r : r.item = p[1]) = o
    BY <1>1 DEF Filter, FlatMap, Map, Keep
  <1>3. o \in Seq(Sles)
    BY <1>1, KeepIn
  <1> HIDE DEF o
  <1>4. Filter(o, LAMBDA r : Pair(r) = p) = t
    <2>1. \A i \in DOMAIN o : o[i] \in Sles
      BY <1>3
    <2>2. \A i \in DOMAIN o : Pair(o[i]) = p <=> o[i] \in {r \in Sles : Pair(r) = p}
      BY <2>1
    <2> QED BY <2>2 DEF Filter, FlatMap, Map, Keep
  <1>5. t \in Seq(Sles)
    BY <1>3, KeepIn
  <1> HIDE DEF t
  <1>6. return_cost(v, p, prior) = IF t # <<>> THEN t[1].rate
                                   ELSE IF o # <<>> THEN o[1].rate
                                   ELSE compute_balance(prior).rate
    BY <1>2, <1>4 DEF return_cost
  <1>7. \A s \in Seq(Sles) : s # <<>> => s[1] \in Sles
    OBVIOUS
  <1>8. \A r \in Sles : r.rate \in Fractions
    BY DEF Sles
  <1> QED BY <1>3, <1>5, <1>6, <1>7, <1>8, BalanceType


\* The cost a transfer takes along is a fraction.
LEMMA OutCostType ==
    ASSUME NEW rows \in Seq(Moves), NEW r \in Moves PROVE OutCost(rows, r) \in Fractions
  <1> DEFINE out == {k \in DOMAIN rows : rows[k].item = r.item /\ rows[k].qty < 0}
  <1>1. out \in SUBSET (1..Len(rows)) /\ Len(rows) \in Nat
    OBVIOUS
  <1>2. OutCost(rows, r) = IF out = {} THEN r.rate ELSE rows[Max(out)].rate
    BY DEF OutCost
  <1>3. out # {} => Max(out) \in 1..Len(rows)
    <2> HIDE DEF out
    <2> QED BY <1>1, MaxIs
  <1> HIDE DEF out
  <1>4. \A k \in 1..Len(rows) : rows[k] \in Moves
    OBVIOUS
  <1>5. \A m \in Moves : m.rate \in Fractions
    BY DEF Moves
  <1> QED BY <1>2, <1>3, <1>4, <1>5

\* The rate of the next row of a voucher.
CostRate(v, rows, r) ==
    LET factor == uom_factor(r.item, r.uom)
        qty    == r.qty * factor
        prior  == prior_for(Pair(r), rows)
    IN  CASE qty < 0 -> issue_rate(prior, -qty, load_items(r.item).valuation_method)
          [] qty = 0 -> r.rate
          [] qty > 0 /\ v.is_return -> return_cost(v, Pair(r), prior)
          [] qty > 0 /\ ~v.is_return /\ r.trans_type = "Transfer" -> OutCost(rows, r)
          [] qty > 0 /\ ~v.is_return /\ r.trans_type = "Production" -> r.rate
          [] OTHER -> ReceiptRate(r, factor)

Units(r) == r.qty * uom_factor(r.item, r.uom)
CostOf(v, rows, r) == [r EXCEPT !.qty = Units(r), !.rate = CostRate(v, rows, r)]

\* The fields of a new stock row.
LEMMA MoveType ==
    ASSUME NEW r \in Moves
    PROVE  /\ r.qty \in Int /\ r.rate \in Fractions /\ r.item \in Names /\ r.warehouse \in Names
           /\ r.uom \in Names /\ r.trans_type \in TransTypes /\ Units(r) \in Int
  <1>1. /\ r.qty \in Int /\ r.rate \in Fractions /\ r.item \in Names /\ r.warehouse \in Names
        /\ r.uom \in Names /\ r.trans_type \in TransTypes
    BY DEF Moves
  <1>2. uom_factor(r.item, r.uom) \in Int
    BY FactorType
  <1> QED BY <1>1, <1>2 DEF Units

\* The rate a row is given is a fraction (cost_stock_movements).
LEMMA CostRateType ==
    ASSUME sles \in Seq(Sles), NEW v, v.is_return \in BOOLEAN, NEW rows \in Seq(Moves),
           NEW r \in Moves
    PROVE  CostRate(v, rows, r) \in Fractions
  <1> DEFINE f == uom_factor(r.item, r.uom)
             q == r.qty * f
             p == prior_for(Pair(r), rows)
             m == load_items(r.item).valuation_method
  <1>1. f \in Nat \ {0} /\ r.qty \in Int /\ r.rate \in Fractions
    BY FactorType, MoveType
  <1>2. p \in Seq(StockRows)
    BY SubRows, PriorIs
  <1>3. q \in Int /\ -q \in Int
    BY <1>1
  <1>4. /\ issue_rate(p, -q, m) \in Fractions
        /\ return_cost(v, Pair(r), p) \in Fractions
        /\ OutCost(rows, r) \in Fractions
        /\ ReceiptRate(r, f) \in Fractions
    <2>1. issue_rate(p, -q, m) \in Fractions
      BY <1>2, <1>3, IssueRateType
    <2>2. return_cost(v, Pair(r), p) \in Fractions
      BY <1>2, ReturnCostType
    <2>3. OutCost(rows, r) \in Fractions
      BY OutCostType
    <2>4. ReceiptRate(r, f) \in Fractions
      BY <1>1, DivideType DEF ReceiptRate
    <2> QED BY <2>1, <2>2, <2>3, <2>4
  <1>5. CostRate(v, rows, r) =
            CASE q < 0 -> issue_rate(p, -q, m)
              [] q = 0 -> r.rate
              [] q > 0 /\ v.is_return -> return_cost(v, Pair(r), p)
              [] q > 0 /\ ~v.is_return /\ r.trans_type = "Transfer" -> OutCost(rows, r)
              [] q > 0 /\ ~v.is_return /\ r.trans_type = "Production" -> r.rate
              [] OTHER -> ReceiptRate(r, f)
    BY DEF CostRate
  <1> HIDE DEF f, q, p, m
  <1> QED BY <1>1, <1>3, <1>4, <1>5

\* Costing a row appends it with its rate.
LEMMA CostRowIs ==
    ASSUME sles \in Seq(Sles), NEW v, v.is_return \in BOOLEAN, NEW rows \in Seq(Moves),
           NEW r \in Moves
    PROVE  /\ CostRow(v, rows, r) = Append(rows, CostOf(v, rows, r))
           /\ CostOf(v, rows, r) \in Moves
           /\ CostRow(v, rows, r) \in Seq(Moves)
  <1>1. CostRow(v, rows, r) = Append(rows, CostOf(v, rows, r))
    BY DEF CostRow, CostOf, CostRate, Units
  <1>2. CostRate(v, rows, r) \in Fractions /\ Units(r) \in Int
    BY CostRateType, MoveType
  <1>3. CostOf(v, rows, r) \in Moves
    BY <1>2 DEF CostOf, Moves
  <1> QED BY <1>1, <1>3

\* The costed rows: each of the rows in stock units, at a rate that depends
\* on the ones before it.
LEMMA CostRowsAre ==
    ASSUME sles \in Seq(Sles), NEW v, v.is_return \in BOOLEAN, NEW s \in Seq(Moves)
    PROVE  /\ CostRows(v, s) \in Seq(Moves) /\ Len(CostRows(v, s)) = Len(s)
           /\ \A i \in 1..Len(s) :
                 CostRows(v, s)[i] = CostOf(v, SubSeq(CostRows(v, s), 1, i - 1), s[i])
  <1> DEFINE n == Len(s)
             A == Seq(Moves)
             G == [x \in A |-> [i \in 1..n |-> CostRow(v, x, s[i])]]
             F == CHOOSE f : f = [i \in 0..n |-> IF i = 0 THEN <<>> ELSE CostRow(v, f[i - 1], s[i])]
  <1>1. n \in Nat /\ (\A i \in 1..n : s[i] \in Moves) /\ <<>> \in A
    OBVIOUS
  <1>3. CostRows(v, s) = F[n]
    BY DEF CostRows, Fold
  <1>4. IsStep(G, A, n)
    <2>1. \A x \in A, i \in 1..n : CostRow(v, x, s[i]) \in A
      BY <1>1, CostRowIs
    <2> HIDE DEF A
    <2> QED BY <2>1 DEF IsStep
  <1> HIDE DEF n
  <1>5. PICK g : IsIterate(g, A, n, <<>>, G)
    <2> HIDE DEF G, A
    <2> QED BY <1>1, <1>4, Iterates
  <1>6. \A x \in A, i \in 1..n : G[x][i] = CostRow(v, x, s[i])
    <2> HIDE DEF A
    <2> QED OBVIOUS
  <1> HIDE DEF G
  <1>7. g = [i \in 0..n |-> IF i = 0 THEN <<>> ELSE CostRow(v, g[i - 1], s[i])]
    <2> HIDE DEF A
    <2>1. g \in [0..n -> A] /\ g[0] = <<>>
      BY <1>5 DEF IsIterate
    <2>2. \A i \in 1..n : g[i - 1] \in A
      BY <1>1, <2>1
    <2>3. \A i \in 1..n : g[i] = G[g[i - 1]][i]
      BY <1>5 DEF IsIterate
    <2> QED BY <1>1, <1>6, <2>1, <2>2, <2>3
  <1>8. F = [i \in 0..n |-> IF i = 0 THEN <<>> ELSE CostRow(v, F[i - 1], s[i])]
    BY <1>7
  <1> HIDE DEF F
  <1>9. Follows(F, A, n, <<>>, G)
    <2> HIDE DEF A
    <2> QED BY <1>1, <1>6, <1>8 DEF Follows
  <1>10. \A i \in 0..n : F[i] \in A
    <2> HIDE DEF A
    <2> QED BY <1>1, <1>4, <1>9, IteratesAgree
  <1>11. F[0] = <<>> /\ \A i \in 1..n : F[i] = Append(F[i - 1], CostOf(v, F[i - 1], s[i]))
    <2>1. \A i \in 1..n : F[i] = CostRow(v, F[i - 1], s[i]) /\ i - 1 \in 0..n
      BY <1>1, <1>8
    <2>2. F[0] = <<>>
      BY <1>1, <1>8
    <2>3. ASSUME NEW i \in 1..n PROVE F[i] = Append(F[i - 1], CostOf(v, F[i - 1], s[i]))
      <3>1. F[i - 1] \in A /\ s[i] \in Moves
        BY <1>1, <1>10, <2>1
      <3> QED BY <2>1, <3>1, CostRowIs
    <2> QED BY <2>2, <2>3
  <1>12. \A i \in 1..n : CostOf(v, F[i - 1], s[i]) \in Moves
    <2>1. \A i \in 1..n : F[i - 1] \in A /\ s[i] \in Moves
      BY <1>1, <1>10
    <2> QED BY <2>1, CostRowIs
  <1> DEFINE Q(j) == /\ Len(F[j]) = j
                     /\ \A i \in 1..j : /\ F[j][i] = CostOf(v, F[i - 1], s[i])
                                        /\ F[i - 1] = SubSeq(F[j], 1, i - 1)
             P == {j \in 0..n : Q(j)}
  <1>13. 0 \in P
    <2>1. Q(0)
      BY <1>11
    <2> HIDE DEF Q
    <2> QED BY <1>1, <2>1
  <1>14. ASSUME NEW j \in 1..n, j - 1 \in P PROVE j \in P
    <2> DEFINE a == F[j - 1]
               c == CostOf(v, F[j - 1], s[j])
               b == F[j]
    <2>0. j - 1 \in 0..n /\ j \in 0..n
      BY <1>1
    <2>1. /\ a \in Seq(Moves) /\ Len(a) = j - 1 /\ c \in Moves /\ b = Append(a, c) /\ j \in Nat
          /\ \A i \in 1..(j - 1) : a[i] = CostOf(v, F[i - 1], s[i]) /\ F[i - 1] = SubSeq(a, 1, i - 1)
      <3>1. Q(j - 1)
        BY <1>14
      <3>2. a \in A
        BY <1>10, <2>0
      <3>3. c \in Moves /\ b = Append(a, c)
        BY <1>11, <1>12
      <3>4. \A i \in 1..(j - 1) : a[i] = CostOf(v, F[i - 1], s[i]) /\ F[i - 1] = SubSeq(a, 1, i - 1)
        BY <3>1
      <3>5. Len(a) = j - 1 /\ j \in Nat
        BY <3>1
      <3> HIDE DEF a, b, c
      <3> QED BY <3>2, <3>3, <3>4, <3>5
    <2> HIDE DEF a, b, c
    <2>2. Len(b) = j /\ b[j] = c /\ SubSeq(b, 1, j - 1) = a
      BY <2>1
    <2>3. \A i \in 1..(j - 1) : b[i] = a[i] /\ SubSeq(b, 1, i - 1) = SubSeq(a, 1, i - 1)
      BY <2>1
    <2>4. \A i \in 1..j : b[i] = CostOf(v, F[i - 1], s[i]) /\ F[i - 1] = SubSeq(b, 1, i - 1)
      <3> TAKE i \in 1..j
      <3>1. CASE i = j
        BY <2>2, <3>1 DEF a, c
      <3>2. CASE i # j
        <4>1. i \in 1..(j - 1)
          BY <3>2
        <4> QED BY <2>1, <2>3, <4>1
      <3> QED BY <3>1, <3>2
    <2>5. Q(j)
      BY <2>2, <2>4 DEF b
    <2> HIDE DEF Q
    <2> QED BY <2>0, <2>5
  <1>15. n \in P
    <2> HIDE DEF P
    <2>1. \A j \in 1..n : j - 1 \in P => j \in P
      BY <1>14
    <2>2. 0..n \subseteq P
      BY <1>1, <1>13, <2>1, UpTo
    <2> QED BY <1>1, <2>2
  <1>16. /\ Len(F[n]) = n
         /\ \A i \in 1..n : /\ F[n][i] = CostOf(v, F[i - 1], s[i])
                            /\ F[i - 1] = SubSeq(F[n], 1, i - 1)
    <2>1. Q(n)
      <3> HIDE DEF Q
      <3> QED BY <1>15
    <2> QED BY <2>1
  <1>17. F[n] \in A
    BY <1>1, <1>10
  <1> HIDE DEF P
  <1>18. \A i \in 1..n : F[n][i] = CostOf(v, SubSeq(F[n], 1, i - 1), s[i])
    BY <1>16
  <1> QED BY <1>3, <1>16, <1>17, <1>18 DEF n

-----------------------------------------------------------------------------
(* Production.                                                             *)

\* What a production consumes is a fraction.
LEMMA ConsumedType ==
    ASSUME NEW s \in Seq(StockRows)
    PROVE  /\ [i \in DOMAIN s |-> IF s[i].qty < 0 THEN Value(s[i]) ELSE Zero] \in Seq(Fractions)
           /\ Consumed(s) = Negated(FracSum([i \in DOMAIN s |-> IF s[i].qty < 0 THEN Value(s[i]) ELSE Zero]))
           /\ Consumed(s) \in Fractions
  <1> DEFINE q == [i \in DOMAIN s |-> IF s[i].qty < 0 THEN Value(s[i]) ELSE Zero]
  <1>1. \A i \in 1..Len(s) : (IF s[i].qty < 0 THEN Value(s[i]) ELSE Zero) \in Fractions
    BY ValueType, ZeroType
  <1>2. q \in Seq(Fractions)
    BY <1>1
  <1>3. Negated(FracSum(q)) \in Fractions
    BY <1>2, FracSumType, NegatedType
  <1>4. Consumed(s) = Negated(FracSum(q))
    BY DEF Consumed, SumOver, Map
  <1> QED BY <1>2, <1>3, <1>4

\* What a production makes is a whole quantity.
LEMMA ProducedType ==
    ASSUME NEW s \in Seq(StockRows), NEW v
    PROVE  /\ [i \in DOMAIN s |-> IF IsOutput(v, s[i]) THEN s[i].qty ELSE 0] \in Seq(Int)
           /\ Produced(v, s) = SumFunction([i \in DOMAIN s |-> IF IsOutput(v, s[i]) THEN s[i].qty ELSE 0])
           /\ Produced(v, s) \in Int
  <1> DEFINE q == [i \in DOMAIN s |-> IF IsOutput(v, s[i]) THEN s[i].qty ELSE 0]
  <1>1. \A i \in 1..Len(s) : (IF IsOutput(v, s[i]) THEN s[i].qty ELSE 0) \in Int
    BY StockRowType
  <1>2. q \in Seq(Int)
    BY <1>1
  <1>3. SumFunction(q) \in Int
    BY <1>2, IntSumType
  <1>4. Produced(v, s) = SumFunction(q)
    BY DEF Produced, Total, Map
  <1> QED BY <1>2, <1>3, <1>4

\* The rate of what is made is a fraction.
LEMMA SpreadRateType ==
    ASSUME NEW s \in Seq(StockRows), NEW v, Spreads(v, s) PROVE SpreadRate(v, s) \in Fractions
  <1>1. Produced(v, s) \in Int /\ Produced(v, s) # 0 /\ Consumed(s) \in Fractions
    <2>1. Produced(v, s) \in Int /\ Consumed(s) \in Fractions
      BY ProducedType, ConsumedType
    <2>2. Produced(v, s) > 0
      BY DEF Spreads
    <2> QED BY <2>1, <2>2
  <1> QED BY <1>1, DivideType DEF SpreadRate

Respread(v, rows, r) == IF IsOutput(v, r) THEN [r EXCEPT !.rate = SpreadRate(v, rows)] ELSE r

\* Spreading changes the rates of the outputs alone.
LEMMA SpreadIs ==
    ASSUME NEW v, NEW s \in Seq(Moves)
    PROVE  /\ SpreadProduction(v, s) \in Seq(Moves)
           /\ Len(SpreadProduction(v, s)) = Len(s)
           /\ \A i \in 1..Len(s) : SpreadProduction(v, s)[i] =
                 IF Spreads(v, s) THEN Respread(v, s, s[i]) ELSE s[i]
  <1> DEFINE e(r) == Respread(v, s, r)
             t == [i \in DOMAIN s |-> e(s[i])]
  <1>1. SpreadProduction(v, s) = IF Spreads(v, s) THEN t ELSE s
    BY DEF SpreadProduction, Map, Respread
  <1>2. ASSUME Spreads(v, s) PROVE \A r \in Moves : e(r) \in Moves
    <2>1. SpreadRate(v, s) \in Fractions
      BY <1>2, SubRows, SpreadRateType
    <2> QED BY <2>1 DEF Respread, Moves
  <1> HIDE DEF e
  <1>3. ASSUME Spreads(v, s)
        PROVE  t \in Seq(Moves) /\ Len(t) = Len(s) /\ \A i \in 1..Len(s) : t[i] = e(s[i])
    <2>1. \A i \in 1..Len(s) : e(s[i]) \in Moves
      BY <1>2, <1>3
    <2> QED BY <2>1
  <1>4. CASE Spreads(v, s)
    BY <1>1, <1>3, <1>4 DEF e
  <1>5. CASE ~Spreads(v, s)
    BY <1>1, <1>5
  <1> QED BY <1>4, <1>5

\* Respreading changes rates only.
LEMMA SpreadKeeps ==
    ASSUME NEW v, NEW s \in Seq(Moves), NEW i \in 1..Len(s)
    PROVE  /\ SpreadProduction(v, s)[i].item = s[i].item
           /\ SpreadProduction(v, s)[i].warehouse = s[i].warehouse
           /\ SpreadProduction(v, s)[i].qty = s[i].qty
           /\ SpreadProduction(v, s)[i].trans_type = s[i].trans_type
           /\ SpreadProduction(v, s)[i].uom = s[i].uom
  <1> DEFINE t == SpreadProduction(v, s)[i]
  <1>1. t = s[i] \/ t = [s[i] EXCEPT !.rate = SpreadRate(v, s)]
    BY SpreadIs DEF Respread
  <1> HIDE DEF t
  <1>2. t.item = s[i].item /\ t.warehouse = s[i].warehouse /\ t.qty = s[i].qty
        /\ t.trans_type = s[i].trans_type /\ t.uom = s[i].uom
    <2>1. s[i] \in Moves
      OBVIOUS
    <2> QED BY <1>1, <2>1 DEF Moves
  <1> QED BY <1>2 DEF t

-----------------------------------------------------------------------------
(* The GL legs of stock.                                                   *)

\* The accounts of an item are names.
LEMMA ItemAccounts ==
    ASSUME NEW i
    PROVE  /\ load_items(i).inventory_account \in Names /\ load_items(i).cogs_account \in Names
           /\ load_items(i).stock_adjustment_account \in Names
  <1>1. ASSUME NEW x \in ItemRecords
        PROVE  x.inventory_account \in Names /\ x.cogs_account \in Names
               /\ x.stock_adjustment_account \in Names
    BY DEF ItemRecords
  <1>2. /\ UnknownItem.inventory_account \in Names /\ UnknownItem.cogs_account \in Names
        /\ UnknownItem.stock_adjustment_account \in Names
    BY DEF UnknownItem, Names
  <1> QED BY <1>1, <1>2, PayloadsAssumption DEF load_items

InventoryAccount(r) == Default(load_items(r.item).inventory_account, "inventory")
Counter(v, r) == CounterAccount(v, load_items(r.item))

\* The two legs of a stock row, or none (stock_gl_legs).
LEMMA StockLegsAre ==
    ASSUME NEW v, NEW r \in StockRows
    PROVE  /\ InventoryAccount(r) \in Accounts /\ Counter(v, r) \in Accounts
           /\ StockLeg(InventoryAccount(r), Value(r)) \in GlRows
           /\ StockLeg(Counter(v, r), Negated(Value(r))) \in GlRows
           /\ StockLegs(v, r) = IF Value(r) = Zero \/ r.trans_type \in {"Transfer", "Production"}
                                THEN <<>>
                                ELSE <<StockLeg(InventoryAccount(r), Value(r)),
                                       StockLeg(Counter(v, r), Negated(Value(r)))>>
           /\ StockLegs(v, r) \in Seq(GlRows)
  <1> DEFINE i == load_items(r.item)
             x == Value(r)
             a == StockLeg(InventoryAccount(r), x)
             b == StockLeg(Counter(v, r), Negated(x))
  <1>1. InventoryAccount(r) \in Accounts
    BY ItemAccounts DEF InventoryAccount, Default, Accounts
  <1>2. Counter(v, r) \in Accounts
    BY ItemAccounts DEF Counter, CounterAccount, Default, Accounts
  <1>3. x \in Fractions /\ Negated(x) \in Fractions /\ "stock" \in Ids
    BY ValueType, NegatedType DEF Ids
  <1>4. StockLegs(v, r) = IF x = Zero \/ r.trans_type \in {"Transfer", "Production"} THEN <<>>
                          ELSE <<a, b>>
    BY DEF StockLegs, InventoryAccount, Counter
  <1> HIDE DEF x
  <1>5. a \in GlRows /\ b \in GlRows
    BY <1>1, <1>2, <1>3 DEF StockLeg, GlRows
  <1> HIDE DEF a, b
  <1>6. <<a, b>> \in Seq(GlRows) /\ <<>> \in Seq(GlRows)
    BY <1>5
  <1> QED BY <1>1, <1>2, <1>4, <1>5, <1>6 DEF a, b, x

\* The stock legs are those of the rows in order (stock_gl_legs).
LEMMA StockGlIs ==
    ASSUME NEW v, NEW s \in Seq(StockRows)
    PROVE  /\ [i \in DOMAIN s |-> StockLegs(v, s[i])] \in Seq(Seq(GlRows))
           /\ stock_gl_legs(v, s) = Concat([i \in DOMAIN s |-> StockLegs(v, s[i])])
           /\ stock_gl_legs(v, s) \in Seq(GlRows)
  <1> DEFINE p == [i \in DOMAIN s |-> StockLegs(v, s[i])]
  <1>1. \A i \in 1..Len(s) : StockLegs(v, s[i]) \in Seq(GlRows)
    BY StockLegsAre
  <1>2. p \in Seq(Seq(GlRows))
    BY <1>1
  <1>3. stock_gl_legs(v, s) = Concat(p)
    BY DEF stock_gl_legs, FlatMap, Map
  <1> QED BY <1>2, <1>3, ConcatType

\* The sum of f over the legs of each row, row by row.
LEMMA StockGlSum ==
    ASSUME NEW v, NEW s \in Seq(StockRows), NEW f \in [GlRows -> Fractions]
    PROVE  FracSum(MapF(stock_gl_legs(v, s), f)) =
             FracSum([i \in DOMAIN s |-> FracSum(MapF(StockLegs(v, s[i]), f))])
  <1> DEFINE p == [i \in DOMAIN s |-> StockLegs(v, s[i])]
             q == [i \in DOMAIN p |-> FracSum(MapF(p[i], f))]
             r == [i \in DOMAIN s |-> FracSum(MapF(StockLegs(v, s[i]), f))]
  <1>1. p \in Seq(Seq(GlRows)) /\ stock_gl_legs(v, s) = Concat(p)
    BY StockGlIs
  <1>2. q = r
    OBVIOUS
  <1>3. FracSum(MapF(Concat(p), f)) = FracSum(q)
    <2> HIDE DEF p
    <2> QED BY <1>1, SumFlat
  <1> QED BY <1>1, <1>2, <1>3

\* The sum over one and over two elements.
LEMMA SumOne ==
    ASSUME NEW S, NEW f \in [S -> Fractions], NEW x \in S
    PROVE  FracSum(MapF(<<x>>, f)) = f[x]
  <1>1. MapF(<<x>>, f) = Append(<<>>, f[x])
    BY DEF MapF
  <1>2. <<>> \in Seq(Fractions) /\ f[x] \in Fractions
    OBVIOUS
  <1> QED BY <1>1, <1>2, FracSumAppend, FracSumEmpty, PlusZero

\* The sum over two rows.
LEMMA SumTwo ==
    ASSUME NEW S, NEW f \in [S -> Fractions], NEW x \in S, NEW y \in S
    PROVE  FracSum(MapF(<<x, y>>, f)) = f[x] ++ f[y]
  <1>1. MapF(<<x, y>>, f) = Append(MapF(<<x>>, f), f[y])
    BY DEF MapF
  <1>2. MapF(<<x>>, f) \in Seq(Fractions) /\ f[y] \in Fractions
    BY DEF MapF
  <1> QED BY <1>1, <1>2, SumOne, FracSumAppend

\* The sum over no rows.
LEMMA SumNone == ASSUME NEW f PROVE FracSum(MapF(<<>>, f)) = Zero
  <1>1. MapF(<<>>, f) = <<>>
    BY DEF MapF
  <1> QED BY <1>1, FracSumEmpty

\* A sum over rows is a fraction.
LEMMA SumType2 ==
    ASSUME NEW S, NEW f \in [S -> Fractions], NEW s \in Seq(S)
    PROVE  FracSum(MapF(s, f)) \in Fractions
  BY MapType, FracSumType

\* The sum over rows after rows.
LEMMA SumConcat ==
    ASSUME NEW S, NEW f \in [S -> Fractions], NEW s \in Seq(S), NEW t \in Seq(S)
    PROVE  FracSum(MapF(s \o t, f)) = FracSum(MapF(s, f)) ++ FracSum(MapF(t, f))
  <1>1. MapF(s, f) \in Seq(Fractions) /\ MapF(t, f) \in Seq(Fractions)
    BY MapType
  <1>2. MapF(s \o t, f) = MapF(s, f) \o MapF(t, f)
    BY MapConcat
  <1> QED BY <1>1, <1>2, FracSumConcat

-----------------------------------------------------------------------------
(* Sums of mirrored rows.                                                  *)

\* Rows mapped to their opposites have the opposite sum.
LEMMA ReversedSum ==
    ASSUME NEW S, NEW f \in [S -> Fractions], NEW h \in [S -> S],
           \A r \in S : f[h[r]] = Negated(f[r]),
           NEW s \in Seq(S)
    PROVE  FracSum(MapF(MapF(s, h), f)) = Negated(FracSum(MapF(s, f)))
  <1> DEFINE m == MapF(s, f)
             n == [i \in DOMAIN m |-> Negated(m[i])]
  <1>1. m \in Seq(Fractions)
    BY MapType
  <1>2. MapF(MapF(s, h), f) = n
    <2>1. \A i \in DOMAIN s : s[i] \in S
      OBVIOUS
    <2> QED BY <2>1 DEF MapF
  <1> HIDE DEF m
  <1> QED BY <1>1, <1>2, FracSumNegated DEF m

\* The sum of f over the elements of s that are in K.
SumIf(s, K, f) == FracSum(MapF(Keep(s, K), f))

\* The sum over the rows of a set, of rows after rows.
LEMMA SumIfConcat ==
    ASSUME NEW S, NEW f \in [S -> Fractions], NEW s \in Seq(S), NEW t \in Seq(S), NEW K
    PROVE  SumIf(s \o t, K, f) = SumIf(s, K, f) ++ SumIf(t, K, f) /\ SumIf(s, K, f) \in Fractions
  <1>1. Keep(s, K) \in Seq(S) /\ Keep(t, K) \in Seq(S)
    BY KeepIn
  <1>2. Keep(s \o t, K) = Keep(s, K) \o Keep(t, K)
    BY KeepConcat
  <1> QED BY <1>1, <1>2, SumConcat, SumType2 DEF SumIf

\* The sum over the rows of a set, of rows outside it.
LEMMA SumIfNone ==
    ASSUME NEW S, NEW f \in [S -> Fractions], NEW s \in Seq(S), NEW K,
           \A i \in 1..Len(s) : s[i] \notin K
    PROVE  SumIf(s, K, f) = Zero
  <1> DEFINE z == [i \in DOMAIN s |-> IF s[i] \in K THEN f[s[i]] ELSE Zero]
  <1>1. SumIf(s, K, f) = FracSum(z)
    BY SumKeep DEF SumIf
  <1>2. z \in Seq({Zero})
    OBVIOUS
  <1> QED BY <1>1, <1>2, FracSumZero

\* The rows of V are appended again under h, which mirrors f and respects K.
Mirrors(S, V, K, f, h) ==
    /\ K \subseteq V
    /\ \A r \in S : r \in V => (h[r] \in K <=> r \in K) /\ f[h[r]] = Negated(f[r])

\* The mirror images of the rows of a voucher have the opposite sum.
LEMMA MirrorSum ==
    ASSUME NEW S, NEW V, NEW K, NEW f \in [S -> Fractions], NEW h \in [S -> S],
           Mirrors(S, V, K, f, h), NEW s \in Seq(S)
    PROVE  SumIf(MapF(Keep(s, V), h), K, f) = Negated(SumIf(s, K, f))
  <1> DEFINE q == Keep(s, V)
             g == [r \in S |-> IF r \in K THEN f[r] ELSE Zero]
             m == MapF(q, g)
             a == [i \in DOMAIN m |-> Negated(m[i])]
             b == [i \in DOMAIN MapF(q, h) |->
                     IF MapF(q, h)[i] \in K THEN f[MapF(q, h)[i]] ELSE Zero]
             x == [i \in DOMAIN s |-> IF s[i] \in V THEN g[s[i]] ELSE Zero]
             y == [i \in DOMAIN s |-> IF s[i] \in K THEN f[s[i]] ELSE Zero]
  <1>1. q \in Seq(S) /\ \A i \in 1..Len(q) : q[i] \in S /\ q[i] \in V
    BY KeepIn
  <1>2. g \in [S -> Fractions]
    BY ZeroType
  <1>3. m \in Seq(Fractions) /\ MapF(q, h) \in Seq(S)
    BY <1>1, <1>2, MapType
  <1>4. SumIf(MapF(q, h), K, f) = FracSum(b)
    <2> DEFINE u == MapF(q, h)
    <2>1. u \in Seq(S)
      BY <1>3
    <2> HIDE DEF u
    <2>2. FracSum(MapF(Keep(u, K), f)) =
             FracSum([i \in DOMAIN u |-> IF u[i] \in K THEN f[u[i]] ELSE Zero])
      BY <2>1, SumKeep
    <2> QED BY <2>2 DEF SumIf, u
  <1>5. FracSum(m) = FracSum(x)
    <2> HIDE DEF g
    <2> QED BY <1>2, SumKeep
  <1>6. SumIf(s, K, f) = FracSum(y)
    BY SumKeep DEF SumIf
  <1>7. x = y
    <2>1. \A i \in DOMAIN s : s[i] \in S /\ (s[i] \in K => s[i] \in V)
      BY DEF Mirrors
    <2> QED BY <2>1
  <1> HIDE DEF q
  <1>8. a = b
    <2>1. DOMAIN m = DOMAIN q /\ DOMAIN MapF(q, h) = DOMAIN q /\ DOMAIN q = 1..Len(q)
      BY <1>1 DEF MapF
    <2>2. ASSUME NEW i \in DOMAIN q
          PROVE  Negated(m[i]) = IF MapF(q, h)[i] \in K THEN f[MapF(q, h)[i]] ELSE Zero
      <3>1. q[i] \in S /\ q[i] \in V /\ MapF(q, h)[i] = h[q[i]] /\ m[i] = g[q[i]]
        BY <1>1, <2>1 DEF MapF
      <3>2. (h[q[i]] \in K <=> q[i] \in K) /\ f[h[q[i]]] = Negated(f[q[i]])
        BY <3>1 DEF Mirrors
      <3> QED BY <3>1, <3>2, NegatedZero
    <2> HIDE DEF m, g
    <2> QED BY <2>1, <2>2
  <1>9. FracSum(a) = Negated(FracSum(m))
    <2> HIDE DEF m
    <2> QED BY <1>3, FracSumNegated
  <1> HIDE DEF a, b, x, y, m
  <1> QED BY <1>4, <1>5, <1>6, <1>7, <1>8, <1>9 DEF q

-----------------------------------------------------------------------------
(* The split of a bill's expense leg.                                      *)

\* The net of the stocked lines is a fraction (split_grni_from_expense).
LEMMA StockNetType ==
    ASSUME NEW v, v.items \in Seq(Lines)
    PROVE  /\ [i \in DOMAIN v.items |-> IF IsStockLine(v.items[i]) THEN line_amount(v.items[i]) ELSE 0]
                 \in Seq(Int)
           /\ StockNet(v) \in Fractions
  <1> DEFINE q == [i \in DOMAIN v.items |->
                     IF IsStockLine(v.items[i]) THEN line_amount(v.items[i]) ELSE 0]
  <1>1. \A i \in 1..Len(v.items) :
           (IF IsStockLine(v.items[i]) THEN line_amount(v.items[i]) ELSE 0) \in Int
    BY LineType
  <1>2. q \in Seq(Int)
    BY <1>1
  <1>3. SumFunction(q) \in Int
    BY <1>2, IntSumType
  <1>4. StockNet(v) = Whole(SumFunction(q))
    BY DEF StockNet, Total, Map
  <1> QED BY <1>2, <1>3, <1>4, WholeType

GrniRow(v) == [id |-> "grni", account |-> "grni", amount |-> StockNet(v),
               base |-> StockNet(v) ** conversion_rate_of(v)]
Rest(v, r) == [r EXCEPT !.amount = @ -- StockNet(v),
                        !.base = (r.amount -- StockNet(v)) ** conversion_rate_of(v)]

\* The rows the GRNI split writes.
LEMMA SplitTypes ==
    ASSUME NEW v, IsSettled(v)
    PROVE  /\ StockNet(v) \in Fractions /\ conversion_rate_of(v) \in Fractions
           /\ GrniRow(v) \in GlRows
           /\ \A r \in GlRows : Rest(v, r) \in GlRows /\ LessStock(v, r) \in Seq(GlRows)
  <1> DEFINE n == StockNet(v)
             c == conversion_rate_of(v)
  <1>1. n \in Fractions /\ c \in Fractions
    BY StockNetType, RateType DEF IsSettled
  <1> HIDE DEF n, c
  <1>2. n ** c \in Fractions /\ \A x \in Fractions : x -- n \in Fractions /\ (x -- n) ** c \in Fractions
    BY <1>1, TimesType, MinusIs
  <1>3. GrniRow(v) \in GlRows
    <2>1. "grni" \in Ids /\ "grni" \in Accounts
      BY DEF Ids, Accounts
    <2> QED BY <1>1, <1>2, <2>1 DEF GrniRow, GlRows, n, c
  <1>4. ASSUME NEW r \in GlRows PROVE Rest(v, r) \in GlRows
    <2>1. r.amount \in Fractions
      BY GlRowType
    <2>2. r.amount -- n \in Fractions /\ (r.amount -- n) ** c \in Fractions
      BY <1>2, <2>1
    <2>3. Rest(v, r) = [r EXCEPT !.amount = r.amount -- n, !.base = (r.amount -- n) ** c]
      BY DEF Rest, n, c
    <2> QED BY <2>2, <2>3 DEF GlRows
  <1>5. ASSUME NEW r \in GlRows PROVE LessStock(v, r) \in Seq(GlRows)
    <2>1. LessStock(v, r) \in {<<r>>, <<>>, <<Rest(v, r)>>}
      BY DEF LessStock, Rest
    <2>2. Rest(v, r) \in GlRows
      BY <1>4
    <2>3. <<r>> \in Seq(GlRows) /\ <<>> \in Seq(GlRows) /\ <<Rest(v, r)>> \in Seq(GlRows)
      BY <2>2
    <2> QED BY <2>1, <2>3
  <1> QED BY <1>1, <1>3, <1>4, <1>5 DEF n, c

\* The GRNI split is the rows less the stocked net, then the GRNI row.
LEMMA SplitIs ==
    ASSUME NEW v, IsSettled(v), NEW s \in Seq(GlRows)
    PROVE  /\ [i \in DOMAIN s |-> LessStock(v, s[i])] \in Seq(Seq(GlRows))
           /\ split_grni_from_expense(v, s) =
                 IF StockNet(v) = Zero THEN s
                 ELSE Append(Concat([i \in DOMAIN s |-> LessStock(v, s[i])]), GrniRow(v))
           /\ split_grni_from_expense(v, s) \in Seq(GlRows)
  <1> DEFINE p == [i \in DOMAIN s |-> LessStock(v, s[i])]
  <1>1. \A i \in 1..Len(s) : LessStock(v, s[i]) \in Seq(GlRows)
    BY SplitTypes
  <1>2. p \in Seq(Seq(GlRows))
    BY <1>1
  <1>3. split_grni_from_expense(v, s) = IF StockNet(v) = Zero THEN s ELSE Append(Concat(p), GrniRow(v))
    BY DEF split_grni_from_expense, FlatMap, Map, GrniRow
  <1>4. Concat(p) \in Seq(GlRows)
    BY <1>2, ConcatType
  <1> HIDE DEF p
  <1>5. Append(Concat(p), GrniRow(v)) \in Seq(GlRows)
    BY <1>4, SplitTypes
  <1> QED BY <1>2, <1>3, <1>5 DEF p

\* Only row k is an expense leg.
OnlyDebit(s, k) == s[k].id = "debit" /\ \A i \in DOMAIN s : i # k => s[i].id # "debit"

\* When one row is split, the sum changes by the change in that row.
LEMMA SplitSum ==
    ASSUME NEW v, IsSettled(v), NEW s \in Seq(GlRows), NEW k \in DOMAIN s, OnlyDebit(s, k),
           NEW f \in [GlRows -> Fractions], NEW x \in Fractions,
           FracSum(MapF(LessStock(v, s[k]), f)) = f[s[k]] ++ x
    PROVE  FracSum(MapF(Concat([i \in DOMAIN s |-> LessStock(v, s[i])]), f)) =
             FracSum(MapF(s, f)) ++ x
  <1> DEFINE p == [i \in DOMAIN s |-> LessStock(v, s[i])]
             q == [i \in DOMAIN p |-> FracSum(MapF(p[i], f))]
             m == MapF(s, f)
             e == [i \in DOMAIN s |-> IF i = k THEN x ELSE Zero]
             t == [i \in DOMAIN m |-> m[i] ++ e[i]]
  <1>1. p \in Seq(Seq(GlRows))
    BY SplitIs
  <1>2. FracSum(MapF(Concat(p), f)) = FracSum(q)
    BY <1>1, SumFlat
  <1>3. m \in Seq(Fractions) /\ Len(m) = Len(s) /\ DOMAIN m = DOMAIN s
    BY MapType DEF MapF
  <1>4. e \in Seq(Fractions) /\ Len(e) = Len(s) /\ DOMAIN e = DOMAIN s
    BY ZeroType
  <1>5. q = t
    <2>1. ASSUME NEW i \in DOMAIN s PROVE FracSum(MapF(p[i], f)) = m[i] ++ e[i]
      <3>1. s[i] \in GlRows /\ f[s[i]] \in Fractions /\ m[i] = f[s[i]] /\ p[i] = LessStock(v, s[i])
        BY DEF MapF
      <3>2. CASE i = k
        BY <3>1, <3>2
      <3>3. CASE i # k
        <4>1. p[i] = <<s[i]>>
          BY <3>1, <3>3 DEF LessStock, OnlyDebit
        <4>2. FracSum(MapF(<<s[i]>>, f)) = f[s[i]]
          BY <3>1, SumOne
        <4>3. f[s[i]] ++ Zero = f[s[i]]
          BY <3>1, PlusZero
        <4> QED BY <3>1, <3>3, <4>1, <4>2, <4>3
      <3> QED BY <3>2, <3>3
    <2>2. DOMAIN p = DOMAIN s
      OBVIOUS
    <2> HIDE DEF p, m, e
    <2> QED BY <1>3, <2>1, <2>2
  <1>6. FracSum(e) = x
    <2>1. k \in DOMAIN e /\ e[k] = x /\ \A i \in DOMAIN e \ {k} : e[i] = Zero
      OBVIOUS
    <2> HIDE DEF e
    <2> QED BY <1>4, <2>1, FracSumSingle
  <1>7. FracSum(t) = FracSum(m) ++ FracSum(e)
    <2> HIDE DEF m, e
    <2> QED BY <1>3, <1>4, FracSumPlus
  <1> QED BY <1>2, <1>5, <1>6, <1>7

-----------------------------------------------------------------------------
(* What a submit writes.                                                   *)

Costed(w) == CostRows(w, derive_stock_rows(w))
Moved(w) == SpreadProduction(w, Costed(w))
Monetary(w) == stamp_base_amounts(w, derive_monetary_gl(w))
Legs(w) == Monetary(w) \o stock_gl_legs(w, Moved(w))
Posting(w) == IF w.doctype = "PurchaseInvoice" THEN split_grni_from_expense(w, Legs(w)) ELSE Legs(w)
Simulated(w) == [p \in Pairs(derive_stock_rows(w)) |-> SimulatedLedger(w, p, Costed(w))]

StoreAs(d, new) == [r \in StockRows |-> Stored(r, d, new)]

\* A new row as it is stored.
LEMMA StoreType ==
    ASSUME NEW d \in Docs, NEW new PROVE StoreAs(d, new) \in [StockRows -> Sles]
  <1>1. ASSUME NEW r \in StockRows PROVE Stored(r, d, new) \in Sles
    <2>1. (new = "cancelled") \in BOOLEAN
      OBVIOUS
    <2> QED BY <2>1, StockRowType DEF Stored, Sles
  <1> QED BY <1>1 DEF StoreAs

\* The state is well typed.
LedgerTypeOK ==
    /\ status \in [Docs -> {"draft", "posted", "cancelled"}]
    /\ gl \in [Docs -> Seq(GlRows)]
    /\ party_transactions \in [Docs -> Seq(PartyRows)]
    /\ tax_transactions \in [Docs -> Seq(TaxRows)]
    /\ sles \in Seq(Sles)

\* The costed rows are as many as the derived ones.
LEMMA MovedType ==
    ASSUME sles \in Seq(Sles), NEW w, IsSettled(w), w.is_return \in BOOLEAN
    PROVE  /\ derive_stock_rows(w) \in Seq(Moves)
           /\ Costed(w) \in Seq(Moves) /\ Len(Costed(w)) = Len(derive_stock_rows(w))
           /\ Moved(w) \in Seq(Moves) /\ Len(Moved(w)) = Len(derive_stock_rows(w))
  <1>1. derive_stock_rows(w) \in Seq(Moves)
    BY StockRowsAre
  <1>2. Costed(w) \in Seq(Moves) /\ Len(Costed(w)) = Len(derive_stock_rows(w))
    BY <1>1, CostRowsAre DEF Costed
  <1>3. Moved(w) \in Seq(Moves) /\ Len(Moved(w)) = Len(Costed(w))
    BY <1>2, SpreadIs DEF Moved
  <1> QED BY <1>1, <1>2, <1>3

\* The rows a submit posts.
LEMMA PostingType ==
    ASSUME sles \in Seq(Sles), NEW w, IsSettled(w), w.is_return \in BOOLEAN
    PROVE  /\ Monetary(w) \in Seq(GlRows) /\ stock_gl_legs(w, Moved(w)) \in Seq(GlRows)
           /\ Legs(w) \in Seq(GlRows) /\ Posting(w) \in Seq(GlRows)
  <1>1. Monetary(w) \in Seq(GlRows)
    BY MonetaryStamped DEF Monetary
  <1>2. Moved(w) \in Seq(StockRows)
    BY MovedType, SubRows
  <1>3. stock_gl_legs(w, Moved(w)) \in Seq(GlRows)
    BY <1>2, StockGlIs
  <1>4. Legs(w) \in Seq(GlRows)
    BY <1>1, <1>3, ConcatProperties DEF Legs
  <1> QED BY <1>1, <1>3, <1>4, SplitIs DEF Posting

\* A document that is submitted, and what the commit writes.
Submits(d, w) ==
    /\ w = Settled(Vouchers[d])
    /\ status[d] = "draft"
    /\ Valid(resolve_account_fallbacks(Vouchers[d]))
    /\ check_balanced(Posting(w)) /\ check_group_accounts(Posting(w))
    /\ status' = [status EXCEPT ![d] = "posted"]
    /\ gl' = [gl EXCEPT ![d] = @ \o Posting(w)]
    /\ party_transactions' =
          [party_transactions EXCEPT ![d] = @ \o stamp_base_amounts(w, derive_party_rows(w))]
    /\ tax_transactions' = [tax_transactions EXCEPT ![d] = @ \o derive_tax_rows(w)]
    /\ sles' = sles \o MapF(Moved(w), StoreAs(d, "posted"))
    /\ bins' = recompute_bins(Simulated(w))

\* build_submit posts a settled document.
LEMMA SubmitIs ==
    ASSUME sles \in Seq(Sles), NEW d \in Docs, build_submit(d)
    PROVE  \E w : /\ Submits(d, w) /\ IsSettled(w) /\ SameFields(w, Vouchers[d])
                  /\ w.is_return \in BOOLEAN
  <1> DEFINE w == Settled(Vouchers[d])
  <1>1. Vouchers[d] \in Payloads
    BY PayloadsAssumption
  <1>2. IsSettled(w) /\ SameFields(w, Vouchers[d])
    BY <1>1, SettledFields
  <1>3. w.is_return \in BOOLEAN
    BY <1>1, <1>2, PayloadFields DEF SameFields
  <1>4. Moved(w) \in Seq(Moves)
    BY <1>2, <1>3, MovedType
  <1>5. /\ status[d] = "draft"
        /\ Valid(resolve_account_fallbacks(Vouchers[d]))
        /\ check_balanced(Posting(w)) /\ check_group_accounts(Posting(w))
    BY DEF build_submit, PostCosted, PostRows, SplitLegs, DerivedLegs,
           Settled, Posting, Legs, Monetary, Moved, Costed, cost_stock_movements
  <1>6. /\ status' = [status EXCEPT ![d] = "posted"]
        /\ gl' = [gl EXCEPT ![d] = @ \o Posting(w)]
        /\ party_transactions' =
              [party_transactions EXCEPT ![d] = @ \o stamp_base_amounts(w, derive_party_rows(w))]
        /\ tax_transactions' = [tax_transactions EXCEPT ![d] = @ \o derive_tax_rows(w)]
    BY DEF build_submit, PostCosted, PostRows, SplitLegs, DerivedLegs,
           Write, Settled, Posting, Legs, Monetary, Moved, Costed, cost_stock_movements
  <1>7. sles' = sles \o [i \in DOMAIN Moved(w) |-> Stored(Moved(w)[i], d, "posted")]
    BY DEF build_submit, PostCosted, PostRows, SplitLegs, DerivedLegs,
           Write, Settled, Moved, Costed, cost_stock_movements, Map
  <1>8. bins' = recompute_bins(Simulated(w))
    BY DEF build_submit, PostCosted, PostRows, SplitLegs, DerivedLegs,
           Write, Settled, Simulated, Costed, cost_stock_movements
  <1>9. [i \in DOMAIN Moved(w) |-> Stored(Moved(w)[i], d, "posted")] =
           MapF(Moved(w), StoreAs(d, "posted"))
    <2>1. Moved(w) \in Seq(StockRows)
      BY <1>4, SubRows
    <2>2. \A i \in DOMAIN Moved(w) : Moved(w)[i] \in StockRows
      BY <2>1
    <2> QED BY <2>2 DEF MapF, StoreAs
  <1>10. Submits(d, w)
    <2> HIDE DEF w
    <2> QED BY <1>5, <1>6, <1>7, <1>8, <1>9 DEF Submits, w
  <1> QED BY <1>2, <1>3, <1>10

-----------------------------------------------------------------------------
(* What a cancellation writes.                                             *)

ReverseRows(S) == [r \in S |-> Reversed(r)]
ReverseTax == [r \in TaxRows |-> TaxRow(r.party_type, -r.base_amount, -r.tax_amount)]
Undo(r) == [r EXCEPT !.qty = -@]
Back(d) == [i \in DOMAIN sles_for_voucher(d) |-> Undo(sles_for_voucher(d)[i])]
ReverseSle(d) == [r \in Sles |-> Stored(Undo(r), d, "cancelled")]

\* The mirror images of the rows (build_cancel).
LEMMA ReverseTypes ==
    /\ ReverseRows(GlRows) \in [GlRows -> GlRows]
    /\ ReverseRows(PartyRows) \in [PartyRows -> PartyRows]
    /\ ReverseTax \in [TaxRows -> TaxRows]
    /\ \A d \in Docs : ReverseSle(d) \in [Sles -> Sles]
    /\ \A r \in Sles : Undo(r) \in Sles
  <1>1. ASSUME NEW r \in GlRows PROVE Reversed(r) \in GlRows
    <2>1. r.amount \in Fractions /\ r.base \in Fractions \cup {None}
      BY GlRowType
    <2>2. Negated(r.amount) \in Fractions
          /\ (IF r.base = None THEN None ELSE Negated(r.base)) \in Fractions \cup {None}
      BY <2>1, NegatedType
    <2> QED BY <2>2 DEF Reversed, GlRows
  <1>2. ASSUME NEW r \in PartyRows PROVE Reversed(r) \in PartyRows
    <2>1. r.amount \in Fractions /\ r.base \in Fractions \cup {None}
      BY PartyRowType
    <2>2. Negated(r.amount) \in Fractions
          /\ (IF r.base = None THEN None ELSE Negated(r.base)) \in Fractions \cup {None}
      BY <2>1, NegatedType
    <2> QED BY <2>2 DEF Reversed, PartyRows
  <1>3. ReverseTax \in [TaxRows -> TaxRows]
    BY DEF ReverseTax, TaxRow, TaxRows
  <1>4. \A r \in Sles : Undo(r) \in Sles
    BY DEF Undo, Sles
  <1>5. ASSUME NEW d \in Docs, NEW r \in Sles PROVE Stored(Undo(r), d, "cancelled") \in Sles
    BY <1>4, StoreType DEF StoreAs, StockRows
  <1>6. ReverseRows(GlRows) \in [GlRows -> GlRows]
    BY <1>1 DEF ReverseRows
  <1>7. ReverseRows(PartyRows) \in [PartyRows -> PartyRows]
    BY <1>2 DEF ReverseRows
  <1>8. \A d \in Docs : ReverseSle(d) \in [Sles -> Sles]
    BY <1>5 DEF ReverseSle
  <1> QED BY <1>3, <1>4, <1>6, <1>7, <1>8

Cancels(d) ==
    /\ status[d] = "posted"
    /\ status' = [status EXCEPT ![d] = "cancelled"]
    /\ gl' = [gl EXCEPT ![d] = @ \o MapF(gl[d], ReverseRows(GlRows))]
    /\ party_transactions' =
          [party_transactions EXCEPT ![d] = @ \o MapF(party_transactions[d], ReverseRows(PartyRows))]
    /\ tax_transactions' = [tax_transactions EXCEPT ![d] = @ \o MapF(tax_transactions[d], ReverseTax)]
    /\ sles' = sles \o MapF(Keep(sles, OfVoucher(d)), ReverseSle(d))
    /\ bins' = recompute_bins([p \in Pairs(Back(d)) |-> prior_for(p, Back(d))])

\* build_cancel appends the mirror images of the rows of the document.
LEMMA CancelIs ==
    ASSUME LedgerTypeOK, NEW d \in Docs, build_cancel(d) PROVE Cancels(d)
  <1> USE DEF LedgerTypeOK
  <1>1. gl[d] \in Seq(GlRows) /\ party_transactions[d] \in Seq(PartyRows)
        /\ tax_transactions[d] \in Seq(TaxRows)
    OBVIOUS
  <1>2. [i \in DOMAIN gl[d] |-> Reversed(gl[d][i])] = MapF(gl[d], ReverseRows(GlRows))
    <2>1. \A i \in DOMAIN gl[d] : gl[d][i] \in GlRows
      BY <1>1
    <2> QED BY <2>1 DEF MapF, ReverseRows
  <1>3. [i \in DOMAIN party_transactions[d] |-> Reversed(party_transactions[d][i])] =
           MapF(party_transactions[d], ReverseRows(PartyRows))
    <2>1. \A i \in DOMAIN party_transactions[d] : party_transactions[d][i] \in PartyRows
      BY <1>1
    <2> QED BY <2>1 DEF MapF, ReverseRows
  <1>4. [i \in DOMAIN tax_transactions[d] |->
           TaxRow(tax_transactions[d][i].party_type, -tax_transactions[d][i].base_amount,
                  -tax_transactions[d][i].tax_amount)] =
           MapF(tax_transactions[d], ReverseTax)
    <2>1. \A i \in DOMAIN tax_transactions[d] : tax_transactions[d][i] \in TaxRows
      BY <1>1
    <2> QED BY <2>1 DEF MapF, ReverseTax
  <1>5. sles_for_voucher(d) \in Seq(Sles) /\ sles_for_voucher(d) = Keep(sles, OfVoucher(d))
    BY VoucherRowsAre
  <1>6. [i \in DOMAIN Back(d) |-> Stored(Back(d)[i], d, "cancelled")] =
           MapF(Keep(sles, OfVoucher(d)), ReverseSle(d))
    <2>1. \A i \in DOMAIN sles_for_voucher(d) : sles_for_voucher(d)[i] \in Sles
      BY <1>5
    <2> QED BY <1>5, <2>1 DEF MapF, ReverseSle, Back
  <1>7. status[d] = "posted" /\ status' = [status EXCEPT ![d] = "cancelled"]
    BY DEF build_cancel, Write
  <1>8. gl' = [gl EXCEPT ![d] = @ \o [i \in DOMAIN gl[d] |-> Reversed(gl[d][i])]]
    BY DEF build_cancel, Write, Map
  <1>9. party_transactions' = [party_transactions EXCEPT ![d] =
           @ \o [i \in DOMAIN party_transactions[d] |-> Reversed(party_transactions[d][i])]]
    BY DEF build_cancel, Write, Map
  <1>10. tax_transactions' = [tax_transactions EXCEPT ![d] =
           @ \o [i \in DOMAIN tax_transactions[d] |->
                   TaxRow(tax_transactions[d][i].party_type, -tax_transactions[d][i].base_amount,
                          -tax_transactions[d][i].tax_amount)]]
    BY DEF build_cancel, Write, Map
  <1>11. sles' = sles \o [i \in DOMAIN Back(d) |-> Stored(Back(d)[i], d, "cancelled")]
    BY DEF build_cancel, Write, Map, Back, Undo
  <1>12. bins' = recompute_bins([p \in Pairs(Back(d)) |-> prior_for(p, Back(d))])
    BY DEF build_cancel, Write, Map, Back, Undo
  <1> QED BY <1>2, <1>3, <1>4, <1>6, <1>7, <1>8, <1>9, <1>10, <1>11, <1>12 DEF Cancels

-----------------------------------------------------------------------------
(* Types.                                                                  *)

\* One commit appends to the rows of one document.
LEMMA AppendType ==
    ASSUME NEW S, NEW T, NEW f \in [S -> Seq(T)], NEW d \in S, NEW t \in Seq(T)
    PROVE  /\ [f EXCEPT ![d] = @ \o t] \in [S -> Seq(T)]
           /\ [f EXCEPT ![d] = @ \o t][d] = f[d] \o t
           /\ \A e \in S : e # d => [f EXCEPT ![d] = @ \o t][e] = f[e]
  <1>1. f[d] \o t \in Seq(T)
    BY ConcatProperties
  <1> QED BY <1>1

\* The types of what a submit posts.
LEMMA SubmitTypes ==
    ASSUME LedgerTypeOK, NEW d \in Docs, NEW w, IsSettled(w), w.is_return \in BOOLEAN
    PROVE  /\ Posting(w) \in Seq(GlRows)
           /\ stamp_base_amounts(w, derive_party_rows(w)) \in Seq(PartyRows)
           /\ derive_tax_rows(w) \in Seq(TaxRows)
           /\ MapF(Moved(w), StoreAs(d, "posted")) \in Seq(Sles)
  <1>1. sles \in Seq(Sles)
    BY DEF LedgerTypeOK
  <1>2. Posting(w) \in Seq(GlRows)
    BY <1>1, PostingType
  <1>3. stamp_base_amounts(w, derive_party_rows(w)) \in Seq(PartyRows)
    BY PartyStamped
  <1>4. derive_tax_rows(w) \in Seq(TaxRows)
    BY TaxRowsAre
  <1>5. Moved(w) \in Seq(StockRows)
    BY <1>1, MovedType, SubRows
  <1>6. MapF(Moved(w), StoreAs(d, "posted")) \in Seq(Sles)
    BY <1>5, StoreType, MapType
  <1> QED BY <1>2, <1>3, <1>4, <1>6

\* The types of what a cancel posts.
LEMMA CancelTypes ==
    ASSUME LedgerTypeOK, NEW d \in Docs
    PROVE  /\ MapF(gl[d], ReverseRows(GlRows)) \in Seq(GlRows)
           /\ MapF(party_transactions[d], ReverseRows(PartyRows)) \in Seq(PartyRows)
           /\ MapF(tax_transactions[d], ReverseTax) \in Seq(TaxRows)
           /\ MapF(Keep(sles, OfVoucher(d)), ReverseSle(d)) \in Seq(Sles)
  <1>1. gl[d] \in Seq(GlRows) /\ party_transactions[d] \in Seq(PartyRows)
        /\ tax_transactions[d] \in Seq(TaxRows) /\ sles \in Seq(Sles)
    BY DEF LedgerTypeOK
  <1>2. Keep(sles, OfVoucher(d)) \in Seq(Sles)
    BY <1>1, KeepIn
  <1>3. /\ ReverseRows(GlRows) \in [GlRows -> GlRows] /\ ReverseRows(PartyRows) \in [PartyRows -> PartyRows]
        /\ ReverseTax \in [TaxRows -> TaxRows] /\ ReverseSle(d) \in [Sles -> Sles]
    BY ReverseTypes
  <1>4. MapF(gl[d], ReverseRows(GlRows)) \in Seq(GlRows)
    BY <1>1, <1>3, MapType
  <1>5. MapF(party_transactions[d], ReverseRows(PartyRows)) \in Seq(PartyRows)
    BY <1>1, <1>3, MapType
  <1>6. MapF(tax_transactions[d], ReverseTax) \in Seq(TaxRows)
    BY <1>1, <1>3, MapType
  <1>7. MapF(Keep(sles, OfVoucher(d)), ReverseSle(d)) \in Seq(Sles)
    BY <1>2, <1>3, MapType
  <1> QED BY <1>4, <1>5, <1>6, <1>7

\* The types hold at the start.
LEMMA TypeInit == Init => LedgerTypeOK
  <1> SUFFICES ASSUME Init PROVE LedgerTypeOK
    OBVIOUS
  <1> QED BY DEF Init, LedgerTypeOK

\* A submit keeps the types.
LEMMA TypeSubmit ==
    ASSUME LedgerTypeOK, NEW d \in Docs, NEW w, IsSettled(w), w.is_return \in BOOLEAN, Submits(d, w)
    PROVE  LedgerTypeOK'
  <1>1. status' \in [Docs -> {"draft", "posted", "cancelled"}]
    BY DEF Submits, LedgerTypeOK
  <1>2. gl' \in [Docs -> Seq(GlRows)]
    BY SubmitTypes, AppendType DEF Submits, LedgerTypeOK
  <1>3. party_transactions' \in [Docs -> Seq(PartyRows)]
    BY SubmitTypes, AppendType DEF Submits, LedgerTypeOK
  <1>4. tax_transactions' \in [Docs -> Seq(TaxRows)]
    BY SubmitTypes, AppendType DEF Submits, LedgerTypeOK
  <1>5. sles' \in Seq(Sles)
    BY SubmitTypes, ConcatProperties DEF Submits, LedgerTypeOK
  <1> QED BY <1>1, <1>2, <1>3, <1>4, <1>5 DEF LedgerTypeOK

\* A cancel keeps the types.
LEMMA TypeCancel ==
    ASSUME LedgerTypeOK, NEW d \in Docs, Cancels(d)
    PROVE  LedgerTypeOK'
  <1>1. status' \in [Docs -> {"draft", "posted", "cancelled"}]
    BY DEF Cancels, LedgerTypeOK
  <1>2. gl' \in [Docs -> Seq(GlRows)]
    BY CancelTypes, AppendType DEF Cancels, LedgerTypeOK
  <1>3. party_transactions' \in [Docs -> Seq(PartyRows)]
    BY CancelTypes, AppendType DEF Cancels, LedgerTypeOK
  <1>4. tax_transactions' \in [Docs -> Seq(TaxRows)]
    BY CancelTypes, AppendType DEF Cancels, LedgerTypeOK
  <1>5. sles' \in Seq(Sles)
    BY CancelTypes, ConcatProperties DEF Cancels, LedgerTypeOK
  <1> QED BY <1>1, <1>2, <1>3, <1>4, <1>5 DEF LedgerTypeOK

\* Every step is a submit, a cancellation or nothing.
LEMMA Steps ==
    ASSUME LedgerTypeOK, [Next]_vars
    PROVE  \/ \E d \in Docs : \E w : /\ Submits(d, w) /\ IsSettled(w) /\ SameFields(w, Vouchers[d])
                                     /\ w.is_return \in BOOLEAN
           \/ \E d \in Docs : Cancels(d)
           \/ UNCHANGED <<company, status, gl, party_transactions, tax_transactions, sles, bins>>
  <1>1. CASE UNCHANGED vars
    BY <1>1 DEF vars
  <1>2. ASSUME NEW d \in Docs, build_submit(d)
        PROVE  \E w : /\ Submits(d, w) /\ IsSettled(w) /\ SameFields(w, Vouchers[d])
                      /\ w.is_return \in BOOLEAN
    BY <1>2, SubmitIs DEF LedgerTypeOK
  <1>3. ASSUME NEW d \in Docs, build_cancel(d) PROVE Cancels(d)
    BY <1>3, CancelIs
  <1> QED BY <1>1, <1>2, <1>3 DEF Next

\* Every step keeps the types.
LEMMA TypeStep == LedgerTypeOK /\ [Next]_vars => LedgerTypeOK'
  <1> SUFFICES ASSUME LedgerTypeOK, [Next]_vars PROVE LedgerTypeOK'
    OBVIOUS
  <1>1. CASE \E d \in Docs : \E w : /\ Submits(d, w) /\ IsSettled(w) /\ SameFields(w, Vouchers[d])
                                    /\ w.is_return \in BOOLEAN
    BY <1>1, TypeSubmit
  <1>2. CASE \E d \in Docs : Cancels(d)
    BY <1>2, TypeCancel
  <1>3. CASE UNCHANGED <<company, status, gl, party_transactions, tax_transactions, sles, bins>>
    BY <1>3 DEF LedgerTypeOK
  <1> QED BY <1>1, <1>2, <1>3, Steps

\* Every row the engine writes has its shape, whatever documents are submitted
\* and cancelled: quantities and rates stay fractions, every voucher is one of
\* the documents (LedgerTypeOK).
THEOREM LedgerTyping == Spec => []LedgerTypeOK
  BY TypeInit, TypeStep, PTL DEF Spec

-----------------------------------------------------------------------------
(* What rows put on accounts, on parties, in the tax subledger, in stock.  *)

OnAmount(A) == [r \in GlRows |-> IF r.account \in A THEN Amount(r) ELSE Zero]
OnBase(A) == [r \in GlRows |-> IF r.account \in A THEN Base(r) ELSE Zero]
KindAmount(k) == [r \in PartyRows |-> IF r.kind = k THEN Amount(r) ELSE Zero]
KindBase(k) == [r \in PartyRows |-> IF r.kind = k THEN Base(r) ELSE Zero]
TaxOf == [r \in TaxRows |-> Whole(r.tax_amount)]
TaxableOf == [r \in TaxRows |-> Whole(r.base_amount)]
QtyOf == [r \in StockRows |-> Whole(r.qty)]
ValueOf == [r \in StockRows |-> Value(r)]

\* What is added up over rows is fractions.
LEMMA MeasureTypes ==
    /\ \A A : OnAmount(A) \in [GlRows -> Fractions] /\ OnBase(A) \in [GlRows -> Fractions]
    /\ \A k : KindAmount(k) \in [PartyRows -> Fractions] /\ KindBase(k) \in [PartyRows -> Fractions]
    /\ TaxOf \in [TaxRows -> Fractions] /\ TaxableOf \in [TaxRows -> Fractions]
    /\ QtyOf \in [StockRows -> Fractions] /\ ValueOf \in [StockRows -> Fractions]
  <1>1. \A r \in GlRows : Amount(r) \in Fractions /\ Base(r) \in Fractions
    BY GlRowType
  <1>2. \A r \in PartyRows : Amount(r) \in Fractions /\ Base(r) \in Fractions
    BY PartyRowType
  <1>3. \A r \in TaxRows : Whole(r.tax_amount) \in Fractions /\ Whole(r.base_amount) \in Fractions
    BY WholeType DEF TaxRows
  <1>4. \A r \in StockRows : Whole(r.qty) \in Fractions /\ Value(r) \in Fractions
    BY WholeType, StockRowType, ValueType
  <1>5. ASSUME NEW A PROVE OnAmount(A) \in [GlRows -> Fractions] /\ OnBase(A) \in [GlRows -> Fractions]
    BY <1>1, ZeroType DEF OnAmount, OnBase
  <1>6. ASSUME NEW k
        PROVE  KindAmount(k) \in [PartyRows -> Fractions] /\ KindBase(k) \in [PartyRows -> Fractions]
    BY <1>2, ZeroType DEF KindAmount, KindBase
  <1>7. TaxOf \in [TaxRows -> Fractions] /\ TaxableOf \in [TaxRows -> Fractions]
    BY <1>3 DEF TaxOf, TaxableOf
  <1>8. QtyOf \in [StockRows -> Fractions] /\ ValueOf \in [StockRows -> Fractions]
    BY <1>4 DEF QtyOf, ValueOf
  <1> QED BY <1>5, <1>6, <1>7, <1>8

\* OnAccounts as a sum over rows.
LEMMA OnAccountsIs ==
    ASSUME NEW A, NEW s \in Seq(GlRows)
    PROVE  /\ OnAccounts(s, A, Amount) = FracSum(MapF(s, OnAmount(A)))
           /\ OnAccounts(s, A, Base) = FracSum(MapF(s, OnBase(A)))
  <1>1. \A i \in DOMAIN s : s[i] \in GlRows
    OBVIOUS
  <1>2. [i \in DOMAIN s |-> IF s[i].account \in A THEN Amount(s[i]) ELSE Zero] = MapF(s, OnAmount(A))
    BY <1>1 DEF MapF, OnAmount
  <1>3. [i \in DOMAIN s |-> IF s[i].account \in A THEN Base(s[i]) ELSE Zero] = MapF(s, OnBase(A))
    BY <1>1 DEF MapF, OnBase
  <1>4. OnAccounts(s, A, Amount) = FracSum(MapF(s, OnAmount(A)))
    BY <1>2 DEF OnAccounts, SumOver, Map
  <1>5. OnAccounts(s, A, Base) = FracSum(MapF(s, OnBase(A)))
    BY <1>3 DEF OnAccounts, SumOver, Map
  <1> QED BY <1>4, <1>5

\* OfKind as a sum over rows.
LEMMA OfKindIs ==
    ASSUME NEW k, NEW s \in Seq(PartyRows)
    PROVE  /\ OfKind(s, k, Amount) = FracSum(MapF(s, KindAmount(k)))
           /\ OfKind(s, k, Base) = FracSum(MapF(s, KindBase(k)))
  <1>1. \A i \in DOMAIN s : s[i] \in PartyRows
    OBVIOUS
  <1>2. [i \in DOMAIN s |-> IF s[i].kind = k THEN Amount(s[i]) ELSE Zero] = MapF(s, KindAmount(k))
    BY <1>1 DEF MapF, KindAmount
  <1>3. [i \in DOMAIN s |-> IF s[i].kind = k THEN Base(s[i]) ELSE Zero] = MapF(s, KindBase(k))
    BY <1>1 DEF MapF, KindBase
  <1>4. OfKind(s, k, Amount) = FracSum(MapF(s, KindAmount(k)))
    BY <1>2 DEF OfKind, SumOver, Map
  <1>5. OfKind(s, k, Base) = FracSum(MapF(s, KindBase(k)))
    BY <1>3 DEF OfKind, SumOver, Map
  <1> QED BY <1>4, <1>5

\* The totals of tax rows as sums of fractions.
LEMMA TaxTotalIs ==
    ASSUME NEW s \in Seq(TaxRows)
    PROVE  /\ Total(s, LAMBDA r : r.tax_amount) \in Int /\ Total(s, LAMBDA r : r.base_amount) \in Int
           /\ Whole(Total(s, LAMBDA r : r.tax_amount)) = FracSum(MapF(s, TaxOf))
           /\ Whole(Total(s, LAMBDA r : r.base_amount)) = FracSum(MapF(s, TaxableOf))
  <1> DEFINE a == [i \in DOMAIN s |-> s[i].tax_amount]
             b == [i \in DOMAIN s |-> s[i].base_amount]
  <1>1. \A i \in DOMAIN s : s[i] \in TaxRows /\ s[i].tax_amount \in Int /\ s[i].base_amount \in Int
    <2>1. \A i \in DOMAIN s : s[i] \in TaxRows
      OBVIOUS
    <2>2. \A r \in TaxRows : r.tax_amount \in Int /\ r.base_amount \in Int
      BY DEF TaxRows
    <2> QED BY <2>1, <2>2
  <1>2. a \in Seq(Int) /\ b \in Seq(Int)
    BY <1>1
  <1>3. [i \in DOMAIN a |-> Whole(a[i])] = MapF(s, TaxOf)
    BY <1>1 DEF MapF, TaxOf
  <1>4. [i \in DOMAIN b |-> Whole(b[i])] = MapF(s, TaxableOf)
    BY <1>1 DEF MapF, TaxableOf
  <1>5. Total(s, LAMBDA r : r.tax_amount) = SumFunction(a)
    BY DEF Total, Map
  <1>6. Total(s, LAMBDA r : r.base_amount) = SumFunction(b)
    BY DEF Total, Map
  <1> HIDE DEF a, b
  <1>7. SumFunction(a) \in Int /\ SumFunction(b) \in Int
    BY <1>2, IntSumType
  <1>8. Whole(SumFunction(a)) = FracSum(MapF(s, TaxOf))
    BY <1>2, <1>3, WholeSum
  <1>9. Whole(SumFunction(b)) = FracSum(MapF(s, TaxableOf))
    BY <1>2, <1>4, WholeSum
  <1> QED BY <1>5, <1>6, <1>7, <1>8, <1>9

\* Quantity and value as sums over rows.
LEMMA QuantityIs ==
    ASSUME NEW s \in Seq(StockRows)
    PROVE  /\ Quantity(s) \in Int /\ Whole(Quantity(s)) = FracSum(MapF(s, QtyOf))
           /\ SumOver(s, Value) = FracSum(MapF(s, ValueOf))
  <1> DEFINE a == [i \in DOMAIN s |-> s[i].qty]
  <1>1. \A i \in DOMAIN s : s[i] \in StockRows /\ s[i].qty \in Int
    BY StockRowType
  <1>2. a \in Seq(Int)
    BY <1>1
  <1>3. [i \in DOMAIN a |-> Whole(a[i])] = MapF(s, QtyOf)
    BY <1>1 DEF MapF, QtyOf
  <1>4. Quantity(s) = SumFunction(a)
    BY DEF Quantity, Total, Map
  <1>5. [i \in DOMAIN s |-> Value(s[i])] = MapF(s, ValueOf)
    BY <1>1 DEF MapF, ValueOf
  <1>6. SumOver(s, Value) = FracSum(MapF(s, ValueOf))
    BY <1>5, ValuesType
  <1> HIDE DEF a
  <1>7. Whole(SumFunction(a)) = FracSum(MapF(s, QtyOf))
    BY <1>2, <1>3, WholeSum
  <1> QED BY <1>4, <1>6, <1>7, QuantityType

\* Reversal mirrors each of them.
LEMMA ReversalMirrors ==
    /\ \A A : \A r \in GlRows : /\ OnAmount(A)[ReverseRows(GlRows)[r]] = Negated(OnAmount(A)[r])
                                /\ OnBase(A)[ReverseRows(GlRows)[r]] = Negated(OnBase(A)[r])
    /\ \A k : \A r \in PartyRows :
          /\ KindAmount(k)[ReverseRows(PartyRows)[r]] = Negated(KindAmount(k)[r])
          /\ KindBase(k)[ReverseRows(PartyRows)[r]] = Negated(KindBase(k)[r])
    /\ \A r \in TaxRows : /\ TaxOf[ReverseTax[r]] = Negated(TaxOf[r])
                          /\ TaxableOf[ReverseTax[r]] = Negated(TaxableOf[r])
  <1>1. ASSUME NEW A, NEW r \in GlRows
        PROVE  /\ OnAmount(A)[ReverseRows(GlRows)[r]] = Negated(OnAmount(A)[r])
               /\ OnBase(A)[ReverseRows(GlRows)[r]] = Negated(OnBase(A)[r])
    <2>1. ReverseRows(GlRows)[r] = Reversed(r) /\ Reversed(r) \in GlRows
      BY ReverseTypes DEF ReverseRows
    <2>2. r.amount \in Fractions /\ r.base \in Fractions \cup {None} /\ None \notin Fractions
      BY GlRowType, PayloadsAssumption
    <2>3. Reversed(r).account = r.account /\ Reversed(r).amount = Negated(r.amount)
          /\ Reversed(r).base = IF r.base = None THEN None ELSE Negated(r.base)
      BY DEF Reversed, GlRows
    <2>4. Amount(Reversed(r)) = Negated(Amount(r)) /\ Base(Reversed(r)) = Negated(Base(r))
      BY <2>2, <2>3, NegatedType DEF Amount, Base, Default
    <2> QED BY <2>1, <2>3, <2>4, NegatedZero DEF OnAmount, OnBase
  <1>2. ASSUME NEW k, NEW r \in PartyRows
        PROVE  /\ KindAmount(k)[ReverseRows(PartyRows)[r]] = Negated(KindAmount(k)[r])
               /\ KindBase(k)[ReverseRows(PartyRows)[r]] = Negated(KindBase(k)[r])
    <2>1. ReverseRows(PartyRows)[r] = Reversed(r) /\ Reversed(r) \in PartyRows
      BY ReverseTypes DEF ReverseRows
    <2>2. r.amount \in Fractions /\ r.base \in Fractions \cup {None} /\ None \notin Fractions
      BY PartyRowType, PayloadsAssumption
    <2>3. Reversed(r).kind = r.kind /\ Reversed(r).amount = Negated(r.amount)
          /\ Reversed(r).base = IF r.base = None THEN None ELSE Negated(r.base)
      BY DEF Reversed, PartyRows
    <2>4. Amount(Reversed(r)) = Negated(Amount(r)) /\ Base(Reversed(r)) = Negated(Base(r))
      BY <2>2, <2>3, NegatedType DEF Amount, Base, Default
    <2> QED BY <2>1, <2>3, <2>4, NegatedZero DEF KindAmount, KindBase
  <1>3. ASSUME NEW r \in TaxRows
        PROVE  /\ TaxOf[ReverseTax[r]] = Negated(TaxOf[r])
               /\ TaxableOf[ReverseTax[r]] = Negated(TaxableOf[r])
    <2>1. ReverseTax[r] \in TaxRows /\ ReverseTax[r].tax_amount = -r.tax_amount
          /\ ReverseTax[r].base_amount = -r.base_amount
      BY DEF ReverseTax, TaxRow, TaxRows
    <2> QED BY <2>1 DEF TaxOf, TaxableOf, Negated, Whole
  <1> QED BY <1>1, <1>2, <1>3

\* Rows and their reversal sum up to nothing.
LEMMA UndoneSum ==
    ASSUME NEW S, NEW f \in [S -> Fractions], NEW h \in [S -> S],
           \A r \in S : f[h[r]] = Negated(f[r]),
           NEW s \in Seq(S)
    PROVE  FracSum(MapF(s \o MapF(s, h), f)) = Zero
  <1>1. MapF(s, h) \in Seq(S)
    BY MapType
  <1>2. FracSum(MapF(s \o MapF(s, h), f)) = FracSum(MapF(s, f)) ++ FracSum(MapF(MapF(s, h), f))
    BY <1>1, SumConcat
  <1>3. FracSum(MapF(MapF(s, h), f)) = Negated(FracSum(MapF(s, f)))
    BY ReversedSum
  <1> QED BY <1>2, <1>3, SumType2, PlusNegated

\* What cancels a fraction is its opposite.
LEMMA NegatedUnique ==
    ASSUME NEW a \in Fractions, NEW b \in Fractions, a ++ b = Zero PROVE b = Negated(a)
  <1>1. Negated(a) \in Fractions
    BY NegatedType
  <1>2. (Negated(a) ++ a) ++ b = Negated(a) ++ (a ++ b)
    BY <1>1, PlusAssoc
  <1>3. Negated(a) ++ a = Zero
    BY <1>1, PlusNegated, PlusComm
  <1>4. Zero ++ b = b /\ Negated(a) ++ Zero = Negated(a)
    BY <1>1, ZeroType, PlusZero, PlusComm
  <1> QED BY <1>2, <1>3, <1>4

\* The opposite of a product.
LEMMA NegatedTimes ==
    ASSUME NEW x \in Fractions, NEW z \in Fractions PROVE Negated(x) ** z = Negated(x ** z)
  <1>1. Negated(x) \in Fractions
    BY NegatedType
  <1>2. x ** z \in Fractions /\ Negated(x) ** z \in Fractions
    BY <1>1, TimesType
  <1>3. (x ++ Negated(x)) ** z = (x ** z) ++ (Negated(x) ** z)
    BY <1>1, TimesPlus
  <1>4. (x ++ Negated(x)) ** z = Zero
    BY PlusNegated, TimesZero
  <1> QED BY <1>2, <1>3, <1>4, NegatedUnique

-----------------------------------------------------------------------------
(* A cancelled document nets out.                                          *)

\* The rows of document d in the stock of pair p.
Own(d, p) == {r \in Sles : r.voucher = d /\ Pair(r) = p}

NetsOut(d) ==
    /\ \A A \in SUBSET Accounts : /\ FracSum(MapF(gl[d], OnAmount(A))) = Zero
                                  /\ FracSum(MapF(gl[d], OnBase(A))) = Zero
    /\ \A k \in Kinds : FracSum(MapF(party_transactions[d], KindBase(k))) = Zero
    /\ FracSum(MapF(tax_transactions[d], TaxOf)) = Zero
    /\ FracSum(MapF(tax_transactions[d], TaxableOf)) = Zero
    /\ \A p : SumIf(sles, Own(d, p), QtyOf) = Zero /\ SumIf(sles, Own(d, p), ValueOf) = Zero

NetInv == \A d \in Docs : status[d] = "cancelled" => NetsOut(d)

\* The rows of another document do not disturb it.
LEMMA OwnUndisturbed ==
    ASSUME sles \in Seq(Sles), NEW d \in Docs, NEW p, NEW t \in Seq(Sles),
           \A i \in 1..Len(t) : t[i].voucher # d
    PROVE  /\ SumIf(sles \o t, Own(d, p), QtyOf) = SumIf(sles, Own(d, p), QtyOf)
           /\ SumIf(sles \o t, Own(d, p), ValueOf) = SumIf(sles, Own(d, p), ValueOf)
  <1>1. sles \in Seq(StockRows) /\ t \in Seq(StockRows)
    BY SubRows
  <1>2. \A i \in 1..Len(t) : t[i] \notin Own(d, p)
    BY DEF Own
  <1>3. SumIf(t, Own(d, p), QtyOf) = Zero
    BY <1>1, <1>2, SumIfNone, MeasureTypes
  <1>4. SumIf(t, Own(d, p), ValueOf) = Zero
    BY <1>1, <1>2, SumIfNone, MeasureTypes
  <1>5. /\ SumIf(sles \o t, Own(d, p), QtyOf) =
              SumIf(sles, Own(d, p), QtyOf) ++ SumIf(t, Own(d, p), QtyOf)
        /\ SumIf(sles, Own(d, p), QtyOf) \in Fractions
    BY <1>1, SumIfConcat, MeasureTypes
  <1>6. /\ SumIf(sles \o t, Own(d, p), ValueOf) =
              SumIf(sles, Own(d, p), ValueOf) ++ SumIf(t, Own(d, p), ValueOf)
        /\ SumIf(sles, Own(d, p), ValueOf) \in Fractions
    BY <1>1, SumIfConcat, MeasureTypes
  <1> QED BY <1>3, <1>4, <1>5, <1>6, PlusZero

\* The reversal of a row keeps its voucher and its pair.
LEMMA StoredBack ==
    ASSUME NEW d \in Docs, NEW r \in Sles
    PROVE  /\ ReverseSle(d)[r] \in Sles /\ ReverseSle(d)[r].voucher = d
           /\ Pair(ReverseSle(d)[r]) = Pair(r)
           /\ ReverseSle(d)[r].qty = -r.qty /\ ReverseSle(d)[r].rate = r.rate
           /\ QtyOf[ReverseSle(d)[r]] = Negated(QtyOf[r])
           /\ ValueOf[ReverseSle(d)[r]] = Negated(ValueOf[r])
  <1>1. /\ ReverseSle(d)[r] \in Sles /\ ReverseSle(d)[r].voucher = d
        /\ ReverseSle(d)[r].item = r.item /\ ReverseSle(d)[r].warehouse = r.warehouse
        /\ ReverseSle(d)[r].qty = -r.qty /\ ReverseSle(d)[r].rate = r.rate
    BY ReverseTypes DEF ReverseSle, Stored, Undo, Sles
  <1>2. Pair(ReverseSle(d)[r]) = Pair(r)
    BY <1>1 DEF Pair
  <1>3. r \in StockRows /\ ReverseSle(d)[r] \in StockRows
    BY <1>1 DEF StockRows
  <1>4. Whole(-r.qty) = Negated(Whole(r.qty))
    BY DEF Whole, Negated
  <1>5. QtyOf[ReverseSle(d)[r]] = Negated(QtyOf[r])
    BY <1>1, <1>3, <1>4 DEF QtyOf
  <1>6. Value(ReverseSle(d)[r]) = Negated(Value(r))
    <2>1. r.qty \in Int /\ r.rate \in Fractions
      BY <1>3, StockRowType
    <2>2. Negated(Whole(r.qty)) ** r.rate = Negated(Whole(r.qty) ** r.rate)
      BY <2>1, WholeType, NegatedTimes
    <2> QED BY <1>1, <1>4, <2>2 DEF Value
  <1>7. ValueOf[ReverseSle(d)[r]] = Negated(ValueOf[r])
    BY <1>3, <1>6 DEF ValueOf
  <1> QED BY <1>1, <1>2, <1>5, <1>7

\* A cancelled voucher has neither quantity nor value left at any pair.
LEMMA OwnUndone ==
    ASSUME sles \in Seq(Sles), NEW d \in Docs, NEW p, NEW t,
           t = MapF(Keep(sles, OfVoucher(d)), ReverseSle(d))
    PROVE  /\ SumIf(sles \o t, Own(d, p), QtyOf) = Zero
           /\ SumIf(sles \o t, Own(d, p), ValueOf) = Zero
  <1> DEFINE q == [r \in Sles |-> QtyOf[r]]
             x == [r \in Sles |-> ValueOf[r]]
             h == ReverseSle(d)
             K == Own(d, p)
             V == OfVoucher(d)
  <1>1. h \in [Sles -> Sles]
    BY ReverseTypes
  <1>2. Keep(sles, V) \in Seq(Sles)
    BY KeepIn
  <1>3. t \in Seq(Sles)
    BY <1>1, <1>2, MapType
  <1>4. q \in [Sles -> Fractions] /\ x \in [Sles -> Fractions]
    BY MeasureTypes DEF StockRows
  <1>5. K \subseteq V
    BY DEF Own, OfVoucher
  <1>6. ASSUME NEW r \in Sles, r \in V
        PROVE  (h[r] \in K <=> r \in K) /\ q[h[r]] = Negated(q[r]) /\ x[h[r]] = Negated(x[r])
    BY <1>6, StoredBack DEF Own, OfVoucher
  <1>7. Mirrors(Sles, V, K, q, h) /\ Mirrors(Sles, V, K, x, h)
    <2> HIDE DEF h, q, x, K, V
    <2> QED BY <1>5, <1>6 DEF Mirrors
  <1> HIDE DEF h, q, x, K, V
  <1>8. SumIf(t, K, q) = Negated(SumIf(sles, K, q)) /\ SumIf(t, K, x) = Negated(SumIf(sles, K, x))
    BY <1>1, <1>4, <1>7, MirrorSum DEF h, V
  <1>9. SumIf(sles \o t, K, q) = SumIf(sles, K, q) ++ SumIf(t, K, q) /\ SumIf(sles, K, q) \in Fractions
    BY <1>3, <1>4, SumIfConcat
  <1>10. SumIf(sles \o t, K, x) = SumIf(sles, K, x) ++ SumIf(t, K, x) /\ SumIf(sles, K, x) \in Fractions
    BY <1>3, <1>4, SumIfConcat
  <1>11. SumIf(sles \o t, K, q) = Zero /\ SumIf(sles \o t, K, x) = Zero
    BY <1>8, <1>9, <1>10, PlusNegated
  <1>12. /\ MapF(Keep(sles \o t, K), q) = MapF(Keep(sles \o t, K), QtyOf)
         /\ MapF(Keep(sles \o t, K), x) = MapF(Keep(sles \o t, K), ValueOf)
    <2>1. sles \o t \in Seq(Sles)
      BY <1>3, ConcatProperties
    <2>2. Keep(sles \o t, K) \in Seq(Sles)
      BY <2>1, KeepIn
    <2>3. \A i \in DOMAIN Keep(sles \o t, K) : Keep(sles \o t, K)[i] \in Sles
      BY <2>2
    <2> QED BY <2>3 DEF MapF, q, x
  <1> QED BY <1>11, <1>12 DEF SumIf, K

\* A submit leaves the cancelled vouchers alone.
LEMMA NetSubmit ==
    ASSUME LedgerTypeOK, NetInv, NEW d \in Docs, NEW w, IsSettled(w), w.is_return \in BOOLEAN,
           Submits(d, w)
    PROVE  NetInv'
  <1> DEFINE t == MapF(Moved(w), StoreAs(d, "posted"))
  <1>1. sles \in Seq(Sles) /\ Moved(w) \in Seq(StockRows)
    BY MovedType, SubRows DEF LedgerTypeOK
  <1>2. t \in Seq(Sles) /\ Len(t) = Len(Moved(w))
    BY <1>1, StoreType, MapType
  <1>3. \A i \in 1..Len(t) : t[i].voucher = d
    <2>1. \A i \in 1..Len(Moved(w)) : Moved(w)[i] \in StockRows
      BY <1>1
    <2> QED BY <1>1, <1>2, <2>1 DEF MapF, StoreAs, Stored
  <1>4. sles' = sles \o t
    BY DEF Submits
  <1> HIDE DEF t
  <1>5. ASSUME NEW e \in Docs, status'[e] = "cancelled" PROVE NetsOut(e)'
    <2>1. e # d /\ status[e] = "cancelled"
      BY <1>5 DEF Submits, LedgerTypeOK
    <2>2. /\ gl'[e] = gl[e] /\ party_transactions'[e] = party_transactions[e]
          /\ tax_transactions'[e] = tax_transactions[e]
      BY <2>1 DEF Submits, LedgerTypeOK
    <2>3. \A i \in 1..Len(t) : t[i].voucher # e
      BY <1>3, <2>1
    <2>4. ASSUME NEW p
          PROVE  SumIf(sles', Own(e, p), QtyOf) = Zero /\ SumIf(sles', Own(e, p), ValueOf) = Zero
      <3>1. SumIf(sles, Own(e, p), QtyOf) = Zero /\ SumIf(sles, Own(e, p), ValueOf) = Zero
        BY <2>1 DEF NetInv, NetsOut
      <3> QED BY <1>1, <1>2, <1>4, <2>3, <3>1, OwnUndisturbed
    <2>5. NetsOut(e)
      BY <2>1 DEF NetInv
    <2> QED BY <2>2, <2>4, <2>5 DEF NetsOut
  <1> QED BY <1>5 DEF NetInv

\* Rows and their mirror images add up to nothing.
LEMMA UndoneRows ==
    ASSUME LedgerTypeOK, NEW d \in Docs
    PROVE  /\ \A A : /\ FracSum(MapF(gl[d] \o MapF(gl[d], ReverseRows(GlRows)), OnAmount(A))) = Zero
                     /\ FracSum(MapF(gl[d] \o MapF(gl[d], ReverseRows(GlRows)), OnBase(A))) = Zero
           /\ \A k : FracSum(MapF(party_transactions[d]
                                 \o MapF(party_transactions[d], ReverseRows(PartyRows)), KindBase(k))) = Zero
           /\ FracSum(MapF(tax_transactions[d] \o MapF(tax_transactions[d], ReverseTax), TaxOf)) = Zero
           /\ FracSum(MapF(tax_transactions[d] \o MapF(tax_transactions[d], ReverseTax), TaxableOf)) = Zero
  <1>1. gl[d] \in Seq(GlRows) /\ party_transactions[d] \in Seq(PartyRows)
        /\ tax_transactions[d] \in Seq(TaxRows)
    BY DEF LedgerTypeOK
  <1>2. /\ ReverseRows(GlRows) \in [GlRows -> GlRows] /\ ReverseRows(PartyRows) \in [PartyRows -> PartyRows]
        /\ ReverseTax \in [TaxRows -> TaxRows]
    BY ReverseTypes
  <1>3. ASSUME NEW A
        PROVE  FracSum(MapF(gl[d] \o MapF(gl[d], ReverseRows(GlRows)), OnAmount(A))) = Zero
    <2>1. OnAmount(A) \in [GlRows -> Fractions]
      BY MeasureTypes
    <2>2. \A r \in GlRows : OnAmount(A)[ReverseRows(GlRows)[r]] = Negated(OnAmount(A)[r])
      BY ReversalMirrors
    <2> QED BY <1>1, <1>2, <2>1, <2>2, UndoneSum
  <1>4. ASSUME NEW A
        PROVE  FracSum(MapF(gl[d] \o MapF(gl[d], ReverseRows(GlRows)), OnBase(A))) = Zero
    <2>1. OnBase(A) \in [GlRows -> Fractions]
      BY MeasureTypes
    <2>2. \A r \in GlRows : OnBase(A)[ReverseRows(GlRows)[r]] = Negated(OnBase(A)[r])
      BY ReversalMirrors
    <2> QED BY <1>1, <1>2, <2>1, <2>2, UndoneSum
  <1>5. ASSUME NEW k
        PROVE  FracSum(MapF(party_transactions[d]
                            \o MapF(party_transactions[d], ReverseRows(PartyRows)), KindBase(k))) = Zero
    <2>1. KindBase(k) \in [PartyRows -> Fractions]
      BY MeasureTypes
    <2>2. \A r \in PartyRows : KindBase(k)[ReverseRows(PartyRows)[r]] = Negated(KindBase(k)[r])
      BY ReversalMirrors
    <2> QED BY <1>1, <1>2, <2>1, <2>2, UndoneSum
  <1>6. FracSum(MapF(tax_transactions[d] \o MapF(tax_transactions[d], ReverseTax), TaxOf)) = Zero
    <2>1. TaxOf \in [TaxRows -> Fractions] /\ \A r \in TaxRows : TaxOf[ReverseTax[r]] = Negated(TaxOf[r])
      BY MeasureTypes, ReversalMirrors
    <2> QED BY <1>1, <1>2, <2>1, UndoneSum
  <1>7. FracSum(MapF(tax_transactions[d] \o MapF(tax_transactions[d], ReverseTax), TaxableOf)) = Zero
    <2>1. /\ TaxableOf \in [TaxRows -> Fractions]
          /\ \A r \in TaxRows : TaxableOf[ReverseTax[r]] = Negated(TaxableOf[r])
      BY MeasureTypes, ReversalMirrors
    <2> QED BY <1>1, <1>2, <2>1, UndoneSum
  <1> QED BY <1>3, <1>4, <1>5, <1>6, <1>7

\* A cancel leaves nothing of its voucher.
LEMMA NetCancel ==
    ASSUME LedgerTypeOK, NetInv, NEW d \in Docs, Cancels(d)
    PROVE  NetInv'
  <1> DEFINE t == MapF(Keep(sles, OfVoucher(d)), ReverseSle(d))
  <1>1. sles \in Seq(Sles) /\ Keep(sles, OfVoucher(d)) \in Seq(Sles)
    BY KeepIn DEF LedgerTypeOK
  <1>2. t \in Seq(Sles) /\ Len(t) = Len(Keep(sles, OfVoucher(d)))
    BY <1>1, ReverseTypes, MapType
  <1>3. \A i \in 1..Len(t) : t[i].voucher = d
    <2>1. \A i \in 1..Len(Keep(sles, OfVoucher(d))) : Keep(sles, OfVoucher(d))[i] \in Sles
      BY <1>1
    <2> QED BY <1>1, <1>2, <2>1 DEF MapF, ReverseSle, Stored
  <1>4. sles' = sles \o t
    BY DEF Cancels
  <1> HIDE DEF t
  <1>5. ASSUME NEW e \in Docs, e # d, status'[e] = "cancelled" PROVE NetsOut(e)'
    <2>1. status[e] = "cancelled"
      BY <1>5 DEF Cancels, LedgerTypeOK
    <2>2. /\ gl'[e] = gl[e] /\ party_transactions'[e] = party_transactions[e]
          /\ tax_transactions'[e] = tax_transactions[e]
      BY <1>5 DEF Cancels, LedgerTypeOK
    <2>3. \A i \in 1..Len(t) : t[i].voucher # e
      BY <1>3, <1>5
    <2>4. ASSUME NEW p
          PROVE  SumIf(sles', Own(e, p), QtyOf) = Zero /\ SumIf(sles', Own(e, p), ValueOf) = Zero
      <3>1. SumIf(sles, Own(e, p), QtyOf) = Zero /\ SumIf(sles, Own(e, p), ValueOf) = Zero
        BY <2>1 DEF NetInv, NetsOut
      <3> QED BY <1>1, <1>2, <1>4, <2>3, <3>1, OwnUndisturbed
    <2>5. NetsOut(e)
      BY <2>1 DEF NetInv
    <2> QED BY <2>2, <2>4, <2>5 DEF NetsOut
  <1>6. NetsOut(d)'
    <2>1. gl[d] \in Seq(GlRows) /\ party_transactions[d] \in Seq(PartyRows)
          /\ tax_transactions[d] \in Seq(TaxRows)
      BY DEF LedgerTypeOK
    <2>2. /\ gl'[d] = gl[d] \o MapF(gl[d], ReverseRows(GlRows))
          /\ party_transactions'[d] =
                party_transactions[d] \o MapF(party_transactions[d], ReverseRows(PartyRows))
          /\ tax_transactions'[d] = tax_transactions[d] \o MapF(tax_transactions[d], ReverseTax)
      BY DEF Cancels, LedgerTypeOK
    <2>3. ASSUME NEW A PROVE /\ FracSum(MapF(gl'[d], OnAmount(A))) = Zero
                             /\ FracSum(MapF(gl'[d], OnBase(A))) = Zero
      BY <2>1, <2>2, UndoneRows
    <2>4. ASSUME NEW k PROVE FracSum(MapF(party_transactions'[d], KindBase(k))) = Zero
      BY <2>1, <2>2, UndoneRows
    <2>5. FracSum(MapF(tax_transactions'[d], TaxOf)) = Zero
      BY <2>1, <2>2, UndoneRows
    <2>6. FracSum(MapF(tax_transactions'[d], TaxableOf)) = Zero
      BY <2>1, <2>2, UndoneRows
    <2>7. ASSUME NEW p
          PROVE  SumIf(sles', Own(d, p), QtyOf) = Zero /\ SumIf(sles', Own(d, p), ValueOf) = Zero
      BY <1>1, <1>4, OwnUndone DEF t
    <2> QED BY <2>3, <2>4, <2>5, <2>6, <2>7 DEF NetsOut
  <1> QED BY <1>5, <1>6 DEF NetInv

\* NetInv is inductive.
LEMMA NetStep == LedgerTypeOK /\ NetInv /\ [Next]_vars => NetInv'
  <1> SUFFICES ASSUME LedgerTypeOK, NetInv, [Next]_vars PROVE NetInv'
    OBVIOUS
  <1>1. CASE \E d \in Docs : \E w : /\ Submits(d, w) /\ IsSettled(w) /\ SameFields(w, Vouchers[d])
                                    /\ w.is_return \in BOOLEAN
    BY <1>1, NetSubmit
  <1>2. CASE \E d \in Docs : Cancels(d)
    BY <1>2, NetCancel
  <1>3. CASE UNCHANGED <<company, status, gl, party_transactions, tax_transactions, sles, bins>>
    BY <1>3 DEF NetInv, NetsOut
  <1> QED BY <1>1, <1>2, <1>3, Steps

\* NetInv is the property.
LEMMA NetImplies == LedgerTypeOK /\ NetInv => VoucherNetsOut
  <1> SUFFICES ASSUME LedgerTypeOK, NetInv PROVE VoucherNetsOut
    OBVIOUS
  <1>1. ASSUME NEW d \in Docs, status[d] = "cancelled"
        PROVE  /\ \A a \in {r.account : r \in ToSet(gl[d])} :
                    OnAccounts(gl[d], {a}, Amount) = Zero /\ OnAccounts(gl[d], {a}, Base) = Zero
               /\ \A kind \in {"Customer", "Supplier"} :
                    OfKind(party_transactions[d], kind, Base) = Zero
               /\ Total(tax_transactions[d], LAMBDA r : r.tax_amount) = 0
               /\ Total(tax_transactions[d], LAMBDA r : r.base_amount) = 0
               /\ \A p : /\ Quantity(Keep(sles, Own(d, p))) = 0
                         /\ SumOver(Keep(sles, Own(d, p)), Value) = Zero
    <2>1. gl[d] \in Seq(GlRows) /\ party_transactions[d] \in Seq(PartyRows)
          /\ tax_transactions[d] \in Seq(TaxRows) /\ sles \in Seq(Sles)
      BY DEF LedgerTypeOK
    <2>2. NetsOut(d)
      BY <1>1 DEF NetInv
    <2>3. ASSUME NEW a \in {r.account : r \in ToSet(gl[d])}
          PROVE  OnAccounts(gl[d], {a}, Amount) = Zero /\ OnAccounts(gl[d], {a}, Base) = Zero
      <3>1. PICK i \in DOMAIN gl[d] : a = gl[d][i].account
        BY DEF ToSet
      <3>2. gl[d][i] \in GlRows
        BY <2>1
      <3>3. {a} \in SUBSET Accounts
        BY <3>1, <3>2, GlRowType
      <3> QED BY <2>1, <2>2, <3>3, OnAccountsIs DEF NetsOut
    <2>4. \A kind \in {"Customer", "Supplier"} : OfKind(party_transactions[d], kind, Base) = Zero
      BY <2>1, <2>2, OfKindIs DEF NetsOut, Kinds
    <2>5. /\ Total(tax_transactions[d], LAMBDA r : r.tax_amount) = 0
          /\ Total(tax_transactions[d], LAMBDA r : r.base_amount) = 0
      BY <2>1, <2>2, TaxTotalIs, WholeUnique DEF NetsOut, Zero
    <2>6. ASSUME NEW p
          PROVE  Quantity(Keep(sles, Own(d, p))) = 0 /\ SumOver(Keep(sles, Own(d, p)), Value) = Zero
      <3> DEFINE k == Keep(sles, Own(d, p))
      <3>2. k \in Seq(Sles)
        BY <2>1, KeepIn
      <3>3. FracSum(MapF(k, QtyOf)) = Zero /\ FracSum(MapF(k, ValueOf)) = Zero
        BY <2>2 DEF NetsOut, SumIf
      <3> HIDE DEF k
      <3>4. k \in Seq(StockRows)
        BY <3>2, SubRows
      <3> QED BY <3>3, <3>4, QuantityIs, WholeUnique DEF Zero, k
    <2> QED BY <2>3, <2>4, <2>5, <2>6
  <1> SUFFICES ASSUME NEW d \in Docs, status[d] = "cancelled",
                      NEW p \in {Pair(r) : r \in ToSet(sles)}
               PROVE  /\ Quantity(Filter(sles, LAMBDA r : r.voucher = d /\ Pair(r) = p)) = 0
                      /\ SumOver(Filter(sles, LAMBDA r : r.voucher = d /\ Pair(r) = p), Value) = Zero
    BY <1>1 DEF VoucherNetsOut
  <1>2. Filter(sles, LAMBDA r : r.voucher = d /\ Pair(r) = p) = Keep(sles, Own(d, p))
    <2>1. \A i \in DOMAIN sles : sles[i] \in Sles
      BY DEF LedgerTypeOK
    <2> QED BY <2>1 DEF Filter, FlatMap, Map, Keep, Own
  <1>3. Quantity(Keep(sles, Own(d, p))) = 0 /\ SumOver(Keep(sles, Own(d, p)), Value) = Zero
    BY <1>1
  <1> QED BY <1>2, <1>3

\* A cancelled voucher leaves nothing behind: its rows of the general ledger,
\* of the two subledgers and of the stock ledger add up to nothing, account by
\* account, party by party and item by item (build_cancel).
THEOREM CancelledVouchersNetOut == Spec => []VoucherNetsOut
  <1>1. Init => LedgerTypeOK /\ NetInv
    BY TypeInit DEF Init, NetInv
  <1>2. (LedgerTypeOK /\ NetInv) /\ [Next]_vars => (LedgerTypeOK /\ NetInv)'
    BY TypeStep, NetStep
  <1> QED BY <1>1, <1>2, NetImplies, PTL DEF Spec

-----------------------------------------------------------------------------
(* What a posting puts on a set of accounts.                               *)

\* One is neutral.
LEMMA TimesOne == ASSUME NEW x \in Fractions PROVE x ** Whole(1) = x
  <1>1. x[1] * 1 = x[1] /\ x[2] * 1 = x[2]
    BY FractionType
  <1>2. Whole(1)[1] = 1 /\ Whole(1)[2] = 1
    BY DEF Whole
  <1> QED BY <1>1, <1>2, FracSelf DEF **

\* The rate between the two columns of a document's monetary legs.
RateOf(w) == IF is_base_stamped(w.doctype) THEN conversion_rate_of(w) ELSE Whole(1)

\* The rate the legs are stamped at is a fraction.
LEMMA RateOfType == ASSUME NEW w, IsSettled(w) PROVE RateOf(w) \in Fractions
  BY RateType, WholeType DEF RateOf, IsSettled

\* Stamping multiplies by the rate, or does nothing (stamp_base_amounts).
LEMMA StampIs ==
    ASSUME NEW w, NEW s
    PROVE  stamp_base_amounts(w, s) =
             IF is_base_stamped(w.doctype)
             THEN [i \in DOMAIN s |-> [s[i] EXCEPT !.base = s[i].amount ** RateOf(w)]]
             ELSE s
  BY DEF stamp_base_amounts, Map, RateOf

\* A stamped leg has its base amount at the rate.
LEMMA StampedRow ==
    ASSUME NEW w, IsSettled(w), NEW A, NEW r \in Unstamped,
           NEW t, t = IF is_base_stamped(w.doctype)
                      THEN [r EXCEPT !.base = r.amount ** RateOf(w)] ELSE r
    PROVE  OnAmount(A)[t] = OnAmount(A)[r] /\ OnBase(A)[t] = OnAmount(A)[r] ** RateOf(w)
  <1> DEFINE c == RateOf(w)
  <1>1. c \in Fractions
    BY RateOfType
  <1>2. r \in GlRows /\ r.amount \in Fractions /\ r.base = None
    BY UnstampedType, GlRowType
  <1>3. r.amount ** c \in Fractions /\ None \notin Fractions
    BY <1>1, <1>2, TimesType, PayloadsAssumption
  <1>4. t \in GlRows
    BY <1>2, <1>3, GlRowType
  <1>5. t.account = r.account /\ t.amount = r.amount
    BY DEF Unstamped
  <1>6. Base(t) = r.amount ** c
    <2>1. CASE is_base_stamped(w.doctype)
      <3>1. t.base = r.amount ** c
        BY <2>1 DEF Unstamped
      <3> QED BY <1>3, <3>1 DEF Base, Default
    <2>2. CASE ~is_base_stamped(w.doctype)
      <3>1. c = Whole(1) /\ t = r
        BY <2>2 DEF RateOf
      <3> QED BY <1>2, <3>1, TimesOne DEF Base, Default
    <2> QED BY <2>1, <2>2
  <1> HIDE DEF c
  <1>7. Zero ** c = Zero
    BY <1>1, TimesZero
  <1>8. OnAmount(A)[t] = OnAmount(A)[r]
    BY <1>2, <1>4, <1>5 DEF OnAmount, Amount
  <1>9. OnBase(A)[t] = OnAmount(A)[r] ** c
    BY <1>2, <1>4, <1>5, <1>6, <1>7 DEF OnAmount, OnBase, Amount
  <1> QED BY <1>8, <1>9 DEF c

\* Stamped legs keep their sum and have it at the rate in base.
LEMMA StampedSums ==
    ASSUME NEW w, IsSettled(w), NEW A, NEW s \in Seq(Unstamped)
    PROVE  /\ FracSum(MapF(stamp_base_amounts(w, s), OnAmount(A))) = FracSum(MapF(s, OnAmount(A)))
           /\ FracSum(MapF(stamp_base_amounts(w, s), OnBase(A))) =
                FracSum(MapF(s, OnAmount(A))) ** RateOf(w)
           /\ FracSum(MapF(s, OnAmount(A))) \in Fractions
  <1> DEFINE c == RateOf(w)
             t == stamp_base_amounts(w, s)
             m == MapF(s, OnAmount(A))
             n == [i \in DOMAIN m |-> m[i] ** c]
  <1>1. DOMAIN t = DOMAIN s
    BY StampIs
  <1>2. ASSUME NEW i \in DOMAIN s
        PROVE  OnAmount(A)[t[i]] = OnAmount(A)[s[i]] /\ OnBase(A)[t[i]] = OnAmount(A)[s[i]] ** c
    <2>1. s[i] \in Unstamped
      OBVIOUS
    <2>2. t[i] = IF is_base_stamped(w.doctype)
                 THEN [s[i] EXCEPT !.base = s[i].amount ** RateOf(w)] ELSE s[i]
      BY StampIs
    <2> HIDE DEF t
    <2> QED BY <2>1, <2>2, StampedRow
  <1> HIDE DEF t, c
  <1>3. MapF(t, OnAmount(A)) = m
    BY <1>1, <1>2 DEF MapF
  <1>4. MapF(t, OnBase(A)) = n
    BY <1>1, <1>2 DEF MapF
  <1>5. m \in Seq(Fractions)
    <2>1. s \in Seq(GlRows)
      BY UnstampedType, SeqMonotonic
    <2> QED BY <2>1, MeasureTypes, MapType
  <1> HIDE DEF m
  <1>6. FracSum(n) = FracSum(m) ** c
    BY <1>5, RateOfType, FracSumTimes DEF c
  <1> QED BY <1>3, <1>4, <1>5, <1>6, FracSumType DEF t, c, m

\* What the legs of one stock row put on the accounts of A.
PostsNone(r) == Value(r) = Zero \/ r.trans_type \in {"Transfer", "Production"}
LegSum(v, r, A) ==
    IF PostsNone(r) THEN Zero
    ELSE (IF InventoryAccount(r) \in A THEN Value(r) ELSE Zero)
         ++ (IF Counter(v, r) \in A THEN Negated(Value(r)) ELSE Zero)

\* The legs of a stock row are the same in both currencies.
LEMMA LegSumIs ==
    ASSUME NEW v, NEW r \in StockRows, NEW A
    PROVE  /\ FracSum(MapF(StockLegs(v, r), OnAmount(A))) = LegSum(v, r, A)
           /\ FracSum(MapF(StockLegs(v, r), OnBase(A))) = LegSum(v, r, A)
           /\ LegSum(v, r, A) \in Fractions
  <1> DEFINE x == Value(r)
             a == StockLeg(InventoryAccount(r), x)
             b == StockLeg(Counter(v, r), Negated(x))
  <1>1. x \in Fractions /\ Negated(x) \in Fractions /\ None \notin Fractions
    BY ValueType, NegatedType, PayloadsAssumption
  <1>2. a \in GlRows /\ b \in GlRows
        /\ StockLegs(v, r) = IF PostsNone(r) THEN <<>> ELSE <<a, b>>
    BY StockLegsAre DEF PostsNone
  <1> HIDE DEF x
  <1>3. /\ a.account = InventoryAccount(r) /\ Amount(a) = x /\ Base(a) = x
        /\ b.account = Counter(v, r) /\ Amount(b) = Negated(x) /\ Base(b) = Negated(x)
    BY <1>1 DEF StockLeg, Amount, Base, Default
  <1> HIDE DEF a, b
  <1>4. /\ OnAmount(A)[a] = (IF InventoryAccount(r) \in A THEN x ELSE Zero)
        /\ OnBase(A)[a] = (IF InventoryAccount(r) \in A THEN x ELSE Zero)
        /\ OnAmount(A)[b] = (IF Counter(v, r) \in A THEN Negated(x) ELSE Zero)
        /\ OnBase(A)[b] = (IF Counter(v, r) \in A THEN Negated(x) ELSE Zero)
    BY <1>2, <1>3 DEF OnAmount, OnBase
  <1>5. CASE PostsNone(r)
    BY <1>2, <1>5, SumNone, ZeroType DEF LegSum
  <1>6. CASE ~PostsNone(r)
    <2>1. /\ FracSum(MapF(<<a, b>>, OnAmount(A))) = OnAmount(A)[a] ++ OnAmount(A)[b]
          /\ FracSum(MapF(<<a, b>>, OnBase(A))) = OnBase(A)[a] ++ OnBase(A)[b]
      BY <1>2, MeasureTypes, SumTwo
    <2>2. OnAmount(A)[a] \in Fractions /\ OnAmount(A)[b] \in Fractions
      BY <1>1, <1>4, ZeroType
    <2>3. LegSum(v, r, A) = OnAmount(A)[a] ++ OnAmount(A)[b]
      BY <1>4, <1>6 DEF LegSum, x
    <2> QED BY <1>2, <1>4, <1>6, <2>1, <2>2, <2>3, PlusType
  <1> QED BY <1>5, <1>6

StockSum(v, s, A) == FracSum([i \in DOMAIN s |-> LegSum(v, s[i], A)])

\* The stock legs are the same in both currencies.
LEMMA StockSums ==
    ASSUME NEW v, NEW s \in Seq(StockRows), NEW A
    PROVE  /\ FracSum(MapF(stock_gl_legs(v, s), OnAmount(A))) = StockSum(v, s, A)
           /\ FracSum(MapF(stock_gl_legs(v, s), OnBase(A))) = StockSum(v, s, A)
           /\ [i \in DOMAIN s |-> LegSum(v, s[i], A)] \in Seq(Fractions)
           /\ StockSum(v, s, A) \in Fractions
  <1> DEFINE q == [i \in DOMAIN s |-> LegSum(v, s[i], A)]
  <1>1. \A i \in DOMAIN s :
           /\ FracSum(MapF(StockLegs(v, s[i]), OnAmount(A))) = LegSum(v, s[i], A)
           /\ FracSum(MapF(StockLegs(v, s[i]), OnBase(A))) = LegSum(v, s[i], A)
           /\ LegSum(v, s[i], A) \in Fractions
    BY LegSumIs
  <1>2. q \in Seq(Fractions)
    BY <1>1
  <1>3. [i \in DOMAIN s |-> FracSum(MapF(StockLegs(v, s[i]), OnAmount(A)))] = q
    BY <1>1
  <1>4. [i \in DOMAIN s |-> FracSum(MapF(StockLegs(v, s[i]), OnBase(A)))] = q
    BY <1>1
  <1>5. FracSum(MapF(stock_gl_legs(v, s), OnAmount(A))) = FracSum(q)
    BY <1>3, StockGlSum, MeasureTypes
  <1>6. FracSum(MapF(stock_gl_legs(v, s), OnBase(A))) = FracSum(q)
    BY <1>4, StockGlSum, MeasureTypes
  <1> QED BY <1>2, <1>5, <1>6, FracSumType DEF StockSum

\* Rows without legs on the accounts put nothing on them.
LEMMA StockSumNone ==
    ASSUME NEW v, NEW s \in Seq(StockRows), NEW A, \A r \in StockRows : LegSum(v, r, A) = Zero
    PROVE  StockSum(v, s, A) = Zero
  <1>1. \A i \in 1..Len(s) : s[i] \in StockRows
    OBVIOUS
  <1>2. [i \in DOMAIN s |-> LegSum(v, s[i], A)] \in Seq({Zero})
    BY <1>1
  <1> QED BY <1>2, FracSumZero DEF StockSum

\* On all accounts together the legs of stock cancel out.
LEMMA StockBalances ==
    ASSUME NEW v, NEW s \in Seq(StockRows) PROVE StockSum(v, s, Accounts) = Zero
  <1>1. ASSUME NEW r \in StockRows PROVE LegSum(v, r, Accounts) = Zero
    BY StockLegsAre, ValueType, PlusNegated DEF LegSum
  <1> QED BY <1>1, StockSumNone

-----------------------------------------------------------------------------
(* The legs of a bill.                                                     *)

\* What the split moves.
Shift(w, A) ==
    (IF w.expense_account \in A THEN Negated(StockNet(w)) ELSE Zero)
    ++ (IF "grni" \in A THEN StockNet(w) ELSE Zero)

\* The legs of stock rows are marked as such.
LEMMA StockIds ==
    ASSUME NEW v, NEW s \in Seq(StockRows)
    PROVE  \A i \in DOMAIN stock_gl_legs(v, s) : stock_gl_legs(v, s)[i].id = "stock"
  <1> DEFINE S == {r \in GlRows : r.id = "stock"}
             p == [i \in DOMAIN s |-> StockLegs(v, s[i])]
  <1>1. ASSUME NEW r \in StockRows PROVE StockLegs(v, r) \in Seq(S)
    <2> DEFINE a == StockLeg(InventoryAccount(r), Value(r))
               b == StockLeg(Counter(v, r), Negated(Value(r)))
    <2>1. a \in S /\ b \in S
      BY StockLegsAre DEF StockLeg
    <2>2. StockLegs(v, r) \in {<<>>, <<a, b>>}
      BY StockLegsAre
    <2> HIDE DEF a, b, S
    <2>3. <<>> \in Seq(S) /\ <<a, b>> \in Seq(S)
      BY <2>1
    <2> QED BY <2>2, <2>3
  <1> HIDE DEF S
  <1>2. p \in Seq(Seq(S))
    <2>1. \A i \in 1..Len(s) : StockLegs(v, s[i]) \in Seq(S)
      BY <1>1
    <2> QED BY <2>1
  <1>3. stock_gl_legs(v, s) \in Seq(S)
    BY <1>2, ConcatType, StockGlIs
  <1>4. \A r \in S : r.id = "stock"
    BY DEF S
  <1> QED BY <1>3, <1>4

\* The legs of tax lines are marked as such.
LEMMA TaxIds ==
    ASSUME NEW v, v.taxes \in Seq(TaxLines), NEW sign \in Int
    PROVE  \A i \in DOMAIN tax_legs(v, sign) : tax_legs(v, sign)[i].id = "tax"
  <1> DEFINE p == Keep(v.taxes, {r \in TaxLines : Posts(r)})
  <1>1. tax_legs(v, sign) = MapF(p, TaxLeg(sign))
    BY TaxLegsAre
  <1>2. p \in Seq(TaxLines)
    BY KeepIn
  <1>3. \A r \in TaxLines : TaxLeg(sign)[r].id = "tax"
    BY DEF TaxLeg, Gl
  <1> HIDE DEF p
  <1> QED BY <1>1, <1>2, <1>3 DEF MapF

ExpenseLeg(w) == Gl("debit", w.expense_account, w.grand_total - total_tax(w))
StampRow(w, r) == [r EXCEPT !.base = r.amount ** RateOf(w)]

\* A bill has one expense leg, its second (derive_monetary_gl).
LEMMA BillLegs ==
    ASSUME sles \in Seq(Sles), NEW w, IsSettled(w), w.is_return \in BOOLEAN,
           w.doctype = "PurchaseInvoice"
    PROVE  /\ 2 \in DOMAIN Legs(w) /\ OnlyDebit(Legs(w), 2)
           /\ ExpenseLeg(w) \in Unstamped
           /\ Legs(w)[2] = StampRow(w, ExpenseLeg(w))
  <1> DEFINE a == Gl("credit", w.credit_to, -w.grand_total)
             b == ExpenseLeg(w)
             t == tax_legs(w, 1)
             g == derive_monetary_gl(w)
             m == Monetary(w)
             k == stock_gl_legs(w, Moved(w))
  <1>1. w.taxes \in Seq(TaxLines) /\ t \in Seq(Unstamped)
    <2>1. w.taxes \in Seq(TaxLines) /\ 1 \in Int
      BY DEF IsSettled
    <2> QED BY <2>1, TaxLegsAre
  <1>2. \A i \in DOMAIN t : t[i].id = "tax"
    BY <1>1, TaxIds
  <1>3. g = <<a, b>> \o t
    BY MonetaryIs DEF ExpenseLeg
  <1>4. /\ m = [i \in DOMAIN g |-> StampRow(w, g[i])]
        /\ \A r \in Unstamped : StampRow(w, r).id = r.id
    BY StampIs DEF Monetary, is_base_stamped, StampRow, Unstamped
  <1>5. g \in Seq(Unstamped)
    BY MonetaryType
  <1>6. k \in Seq(GlRows) /\ \A i \in DOMAIN k : k[i].id = "stock"
    <2>1. Moved(w) \in Seq(StockRows)
      BY MovedType, SubRows
    <2> QED BY <2>1, StockGlIs, StockIds
  <1>7. Legs(w) = m \o k
    BY DEF Legs
  <1>8. a.id = "credit" /\ b.id = "debit"
    BY DEF ExpenseLeg, Gl
  <1> HIDE DEF a, b, t, g, m, k
  <1>9. Len(g) = 2 + Len(t) /\ g[1] = a /\ g[2] = b /\ \A i \in DOMAIN g : i \notin {1, 2} => g[i].id = "tax"
    <2>1. Len(<<a, b>>) = 2 /\ <<a, b>>[1] = a /\ <<a, b>>[2] = b
      OBVIOUS
    <2>2. Len(t) \in Nat /\ DOMAIN t = 1..Len(t)
      BY <1>1
    <2>3. Len(g) = 2 + Len(t) /\ DOMAIN g = 1..Len(g)
      BY <1>1, <1>3, <1>5
    <2>4. \A i \in 1..Len(g) : i \notin {1, 2} => g[i] = t[i - 2] /\ i - 2 \in 1..Len(t)
      BY <1>1, <1>3, <2>2, <2>3
    <2>5. g[1] = a /\ g[2] = b
      BY <1>1, <1>3, <2>1, <2>2, <2>3
    <2> QED BY <1>2, <2>2, <2>3, <2>4, <2>5
  <1>10. m \in Seq(GlRows) /\ Len(m) = Len(g) /\ DOMAIN m = DOMAIN g
    <2>1. m \in Seq(GlRows)
      BY MonetaryStamped DEF Monetary, m
    <2> QED BY <1>4, <1>5, <2>1
  <1>11. /\ m[2] = StampRow(w, b) /\ m[1].id = "credit" /\ m[2].id = "debit"
         /\ \A i \in DOMAIN m : i \notin {1, 2} => m[i].id = "tax"
    <2>1. \A i \in DOMAIN g : g[i] \in Unstamped
      BY <1>5
    <2>2. 1 \in DOMAIN g /\ 2 \in DOMAIN g
      BY <1>1, <1>5, <1>9
    <2> QED BY <1>4, <1>8, <1>9, <1>10, <2>1, <2>2
  <1>12. /\ Len(m \o k) = Len(m) + Len(k)
         /\ \A i \in 1..Len(m) : (m \o k)[i] = m[i]
         /\ \A i \in (Len(m) + 1)..(Len(m) + Len(k)) : (m \o k)[i] = k[i - Len(m)] /\ i - Len(m) \in DOMAIN k
         /\ DOMAIN (m \o k) = 1..(Len(m) + Len(k)) /\ Len(m) \in Nat /\ Len(m) >= 2 /\ Len(k) \in Nat
    <2>1. Len(m) \in Nat /\ Len(m) >= 2 /\ Len(k) \in Nat /\ DOMAIN k = 1..Len(k)
      BY <1>1, <1>6, <1>9, <1>10
    <2>2. /\ Len(m \o k) = Len(m) + Len(k) /\ m \o k \in Seq(GlRows)
          /\ \A i \in 1..(Len(m) + Len(k)) : (m \o k)[i] = IF i <= Len(m) THEN m[i] ELSE k[i - Len(m)]
      <3>1. m \in Seq(GlRows) /\ k \in Seq(GlRows)
        BY <1>6, <1>10
      <3> QED BY <3>1, ConcatProperties, Zenon
    <2>3. DOMAIN (m \o k) = 1..(Len(m) + Len(k))
      BY <2>2
    <2> HIDE DEF m, k
    <2>4. \A i \in 1..Len(m) : (m \o k)[i] = m[i]
      BY <2>1, <2>2
    <2>5. \A i \in (Len(m) + 1)..(Len(m) + Len(k)) :
             (m \o k)[i] = k[i - Len(m)] /\ i - Len(m) \in 1..Len(k)
      BY <2>1, <2>2
    <2> QED BY <2>1, <2>2, <2>3, <2>4, <2>5
  <1>13. (m \o k)[2] = StampRow(w, b) /\ 2 \in DOMAIN (m \o k)
    BY <1>11, <1>12
  <1>14. ASSUME NEW i \in DOMAIN (m \o k), i # 2 PROVE (m \o k)[i].id # "debit"
    <2>1. CASE i \in 1..Len(m)
      <3>1. (m \o k)[i] = m[i] /\ m[i].id \in {"credit", "tax"}
        BY <1>10, <1>11, <1>12, <1>14, <2>1
      <3> QED BY <3>1
    <2>2. CASE i \notin 1..Len(m)
      <3>1. (m \o k)[i] = k[i - Len(m)] /\ i - Len(m) \in DOMAIN k
        BY <1>12, <2>2
      <3> QED BY <1>6, <3>1
    <2> QED BY <2>1, <2>2
  <1>15. b \in Unstamped
    <2>1. 2 \in DOMAIN g /\ g[2] = b
      BY <1>1, <1>5, <1>9
    <2> QED BY <1>5, <2>1
  <1>16. StampRow(w, b).id = "debit"
    BY <1>4, <1>8, <1>15
  <1> QED BY <1>7, <1>13, <1>14, <1>15, <1>16 DEF OnlyDebit, b

\* What becomes of the expense leg.
LEMMA ExpenseRest ==
    ASSUME NEW w, IsSettled(w), w.doctype = "PurchaseInvoice", ExpenseLeg(w) \in Unstamped, NEW A,
           NEW r, r = StampRow(w, ExpenseLeg(w)),
           NEW x, x = (IF w.expense_account \in A THEN Negated(StockNet(w)) ELSE Zero)
    PROVE  /\ x \in Fractions /\ x ** RateOf(w) \in Fractions /\ r \in GlRows
           /\ FracSum(MapF(LessStock(w, r), OnAmount(A))) = OnAmount(A)[r] ++ x
           /\ FracSum(MapF(LessStock(w, r), OnBase(A))) = OnBase(A)[r] ++ (x ** RateOf(w))
  <1> DEFINE c == RateOf(w)
             n == StockNet(w)
             e == ExpenseLeg(w)
             y == e.amount
             rest == Rest(w, r)
  <1>1. c \in Fractions /\ c = conversion_rate_of(w) /\ n \in Fractions /\ Negated(n) \in Fractions
    BY RateOfType, SplitTypes, NegatedType DEF RateOf, is_base_stamped
  <1>2. y \in Fractions /\ None \notin Fractions
    BY PayloadsAssumption DEF Unstamped
  <1>3. y ** c \in Fractions
    BY <1>1, <1>2, TimesType
  <1>4. r \in GlRows /\ r.id = "debit" /\ r.account = w.expense_account /\ r.amount = y /\ r.base = y ** c
    <2>1. e.id = "debit" /\ e.account = w.expense_account
      BY DEF ExpenseLeg, Gl
    <2> HIDE DEF e, c
    <2> QED BY <1>3, <2>1 DEF Unstamped, GlRows, StampRow, e, c
  <1> HIDE DEF c, n, e, y
  <1>5. x \in Fractions /\ x ** c \in Fractions
    <2>1. x \in Fractions
      BY <1>1, ZeroType DEF n
    <2> QED BY <1>1, <2>1, TimesType
  <1>6. OnAmount(A)[r] = (IF w.expense_account \in A THEN y ELSE Zero)
        /\ OnBase(A)[r] = (IF w.expense_account \in A THEN y ** c ELSE Zero)
    BY <1>2, <1>3, <1>4 DEF OnAmount, OnBase, Amount, Base, Default
  <1>7. y -- n = y ++ Negated(n) /\ y -- n \in Fractions
    BY <1>1, <1>2, MinusIs
  <1>8. (y -- n) ** c = (y ** c) ++ (Negated(n) ** c) /\ (y -- n) ** c \in Fractions
    BY <1>1, <1>2, <1>7, TimesPlus, TimesType
  <1>9. Zero ** c = Zero /\ Zero ++ Zero = Zero
    BY <1>1, TimesZero, ZeroType, PlusZero
  <1>10. CASE y = n
    <2>1. LessStock(w, r) = <<>>
      BY <1>4, <1>10 DEF LessStock, n
    <2>2. y ++ Negated(n) = Zero
      BY <1>1, <1>10, PlusNegated
    <2>3. (y ** c) ++ (Negated(n) ** c) = Zero
      BY <1>7, <1>8, <1>9, <2>2
    <2>4. OnAmount(A)[r] ++ x = Zero /\ OnBase(A)[r] ++ (x ** c) = Zero
      BY <1>6, <1>9, <2>2, <2>3 DEF n
    <2> QED BY <1>4, <1>5, <2>1, <2>4, SumNone DEF c
  <1>11. CASE y # n
    <2>1. LessStock(w, r) = <<rest>>
      BY <1>4, <1>11 DEF LessStock, n, Rest
    <2>2. rest \in GlRows
      BY <1>4, SplitTypes
    <2>3. rest.account = w.expense_account /\ rest.amount = y -- n /\ rest.base = (y -- n) ** c
      BY <1>1, <1>4 DEF Rest, GlRows, n
    <2> HIDE DEF rest
    <2>4. OnAmount(A)[rest] = (IF w.expense_account \in A THEN y -- n ELSE Zero)
          /\ OnBase(A)[rest] = (IF w.expense_account \in A THEN (y -- n) ** c ELSE Zero)
      BY <1>2, <1>8, <2>2, <2>3 DEF OnAmount, OnBase, Amount, Base, Default
    <2>5. OnAmount(A)[r] ++ x = OnAmount(A)[rest] /\ OnBase(A)[r] ++ (x ** c) = OnBase(A)[rest]
      BY <1>6, <1>7, <1>8, <1>9, <2>4 DEF n
    <2>6. /\ FracSum(MapF(<<rest>>, OnAmount(A))) = OnAmount(A)[rest]
          /\ FracSum(MapF(<<rest>>, OnBase(A))) = OnBase(A)[rest]
      BY <2>2, MeasureTypes, SumOne
    <2> QED BY <1>4, <1>5, <2>1, <2>5, <2>6 DEF c
  <1> QED BY <1>10, <1>11

\* One leg more.
LEMMA SumAppend ==
    ASSUME NEW S, NEW f \in [S -> Fractions], NEW s \in Seq(S), NEW x \in S
    PROVE  FracSum(MapF(Append(s, x), f)) = FracSum(MapF(s, f)) ++ f[x]
  <1>1. Append(s, x) = s \o <<x>> /\ <<x>> \in Seq(S)
    BY AppendIsConcat
  <1> QED BY <1>1, SumConcat, SumOne

MonetarySum(w, A) == FracSum(MapF(derive_monetary_gl(w), OnAmount(A)))
ShiftOf(w, A) == IF w.doctype = "PurchaseInvoice" THEN Shift(w, A) ELSE Zero

\* The legs of a document: the monetary ones at the rate, the stock ones at 1.
LEMMA LegsSums ==
    ASSUME sles \in Seq(Sles), NEW w, IsSettled(w), w.is_return \in BOOLEAN, NEW A
    PROVE  /\ MonetarySum(w, A) \in Fractions /\ MonetarySum(w, A) ** RateOf(w) \in Fractions
           /\ StockSum(w, Moved(w), A) \in Fractions
           /\ FracSum(MapF(Legs(w), OnAmount(A))) = MonetarySum(w, A) ++ StockSum(w, Moved(w), A)
           /\ FracSum(MapF(Legs(w), OnBase(A))) =
                (MonetarySum(w, A) ** RateOf(w)) ++ StockSum(w, Moved(w), A)
  <1>1. Moved(w) \in Seq(StockRows)
    BY MovedType, SubRows
  <1>2. Monetary(w) \in Seq(GlRows) /\ stock_gl_legs(w, Moved(w)) \in Seq(GlRows)
    BY PostingType
  <1>3. /\ FracSum(MapF(Monetary(w), OnAmount(A))) = MonetarySum(w, A)
        /\ FracSum(MapF(Monetary(w), OnBase(A))) = MonetarySum(w, A) ** RateOf(w)
        /\ MonetarySum(w, A) \in Fractions
    BY MonetaryType, StampedSums DEF Monetary, MonetarySum
  <1>4. /\ FracSum(MapF(stock_gl_legs(w, Moved(w)), OnAmount(A))) = StockSum(w, Moved(w), A)
        /\ FracSum(MapF(stock_gl_legs(w, Moved(w)), OnBase(A))) = StockSum(w, Moved(w), A)
        /\ StockSum(w, Moved(w), A) \in Fractions
    BY <1>1, StockSums
  <1>5. FracSum(MapF(Legs(w), OnAmount(A))) =
           FracSum(MapF(Monetary(w), OnAmount(A))) ++ FracSum(MapF(stock_gl_legs(w, Moved(w)), OnAmount(A)))
    BY <1>2, SumConcat, MeasureTypes DEF Legs
  <1>6. FracSum(MapF(Legs(w), OnBase(A))) =
           FracSum(MapF(Monetary(w), OnBase(A))) ++ FracSum(MapF(stock_gl_legs(w, Moved(w)), OnBase(A)))
    BY <1>2, SumConcat, MeasureTypes DEF Legs
  <1>7. MonetarySum(w, A) ** RateOf(w) \in Fractions
    BY <1>3, RateOfType, TimesType
  <1> QED BY <1>3, <1>4, <1>5, <1>6, <1>7

\* What the GRNI split moves is a fraction.
LEMMA ShiftType ==
    ASSUME NEW w, IsSettled(w), NEW A
    PROVE  ShiftOf(w, A) \in Fractions /\ ShiftOf(w, A) ** RateOf(w) \in Fractions
  <1>1. StockNet(w) \in Fractions /\ Negated(StockNet(w)) \in Fractions
    BY SplitTypes, NegatedType
  <1>2. Shift(w, A) \in Fractions
    BY <1>1, ZeroType, PlusType DEF Shift
  <1>3. ShiftOf(w, A) \in Fractions
    BY <1>2, ZeroType DEF ShiftOf
  <1> QED BY <1>3, RateOfType, TimesType

\* The legs of a bill after the split.
LEMMA LegsSplit ==
    ASSUME sles \in Seq(Sles), NEW w, IsSettled(w), w.is_return \in BOOLEAN,
           w.doctype = "PurchaseInvoice", NEW A
    PROVE  /\ FracSum(MapF(Posting(w), OnAmount(A))) =
                FracSum(MapF(Legs(w), OnAmount(A))) ++ Shift(w, A)
           /\ FracSum(MapF(Posting(w), OnBase(A))) =
                FracSum(MapF(Legs(w), OnBase(A))) ++ (Shift(w, A) ** RateOf(w))
  <1> DEFINE c == RateOf(w)
             n == StockNet(w)
             x == IF w.expense_account \in A THEN Negated(n) ELSE Zero
             g == IF "grni" \in A THEN n ELSE Zero
             L == Legs(w)
             p == Concat([i \in DOMAIN L |-> LessStock(w, L[i])])
             sa == FracSum(MapF(L, OnAmount(A)))
             sb == FracSum(MapF(L, OnBase(A)))
  <1>1. L \in Seq(GlRows)
    BY PostingType
  <1>2. c \in Fractions /\ n \in Fractions /\ c = conversion_rate_of(w) /\ None \notin Fractions
    BY RateOfType, SplitTypes, PayloadsAssumption DEF RateOf, is_base_stamped
  <1>3. sa \in Fractions /\ sb \in Fractions
    BY <1>1, MeasureTypes, SumType2
  <1>4. Posting(w) = IF n = Zero THEN L ELSE Append(p, GrniRow(w))
    BY <1>1, SplitIs DEF Posting
  <1>5. p \in Seq(GlRows)
    <2> HIDE DEF L
    <2>1. [i \in DOMAIN L |-> LessStock(w, L[i])] \in Seq(Seq(GlRows))
      BY <1>1, SplitIs
    <2> QED BY <2>1, ConcatType
  <1>6. Shift(w, A) = x ++ g
    BY DEF Shift
  <1> HIDE DEF c, n, L, p, sa, sb
  <1>7. CASE n = Zero
    <2>1. x = Zero /\ g = Zero
      BY <1>7, NegatedZero
    <2>2. Zero ++ Zero = Zero /\ Zero ** c = Zero
      BY <1>2, ZeroType, PlusZero, TimesZero
    <2>3. sa ++ Zero = sa /\ sb ++ Zero = sb
      BY <1>3, PlusZero
    <2> QED BY <1>4, <1>6, <1>7, <2>1, <2>2, <2>3 DEF sa, sb, L, c
  <1>8. CASE n # Zero
    <2>1. 2 \in DOMAIN L /\ OnlyDebit(L, 2) /\ ExpenseLeg(w) \in Unstamped
          /\ L[2] = StampRow(w, ExpenseLeg(w))
      BY BillLegs DEF L
    <2>2. /\ x \in Fractions /\ x ** c \in Fractions
          /\ FracSum(MapF(LessStock(w, L[2]), OnAmount(A))) = OnAmount(A)[L[2]] ++ x
          /\ FracSum(MapF(LessStock(w, L[2]), OnBase(A))) = OnBase(A)[L[2]] ++ (x ** c)
      BY <2>1, ExpenseRest DEF c, n
    <2> HIDE DEF x
    <2>3. FracSum(MapF(p, OnAmount(A))) = sa ++ x
      <3>1. OnAmount(A) \in [GlRows -> Fractions]
        BY MeasureTypes
      <3> QED BY <1>1, <2>1, <2>2, <3>1, SplitSum DEF p, sa
    <2>4. FracSum(MapF(p, OnBase(A))) = sb ++ (x ** c)
      <3>1. OnBase(A) \in [GlRows -> Fractions]
        BY MeasureTypes
      <3> QED BY <1>1, <2>1, <2>2, <3>1, SplitSum DEF p, sb
    <2>5. GrniRow(w) \in GlRows
      BY SplitTypes
    <2>6. n ** c \in Fractions
      BY <1>2, TimesType
    <2>7. OnAmount(A)[GrniRow(w)] = g
      BY <2>5 DEF OnAmount, GrniRow, Amount, n
    <2>8. OnBase(A)[GrniRow(w)] = g ** c
      <3>1. GrniRow(w).account = "grni" /\ GrniRow(w).base = n ** c
        BY <1>2 DEF GrniRow, n
      <3>2. Base(GrniRow(w)) = n ** c
        BY <1>2, <2>6, <3>1 DEF Base, Default
      <3>3. Zero ** c = Zero
        BY <1>2, TimesZero
      <3> QED BY <2>5, <3>1, <3>2, <3>3 DEF OnBase
    <2>9. g \in Fractions
      BY <1>2, ZeroType
    <2> HIDE DEF g
    <2>10. FracSum(MapF(Posting(w), OnAmount(A))) = (sa ++ x) ++ g
      BY <1>4, <1>5, <1>8, <2>3, <2>5, <2>7, SumAppend, MeasureTypes
    <2>11. FracSum(MapF(Posting(w), OnBase(A))) = (sb ++ (x ** c)) ++ (g ** c)
      BY <1>4, <1>5, <1>8, <2>4, <2>5, <2>8, SumAppend, MeasureTypes
    <2>12. (sa ++ x) ++ g = sa ++ (x ++ g)
      BY <1>3, <2>2, <2>9, PlusAssoc
    <2>13. g ** c \in Fractions
      BY <1>2, <2>9, TimesType
    <2>14. (sb ++ (x ** c)) ++ (g ** c) = sb ++ ((x ** c) ++ (g ** c))
      BY <1>3, <2>2, <2>13, PlusAssoc
    <2>15. (x ++ g) ** c = (x ** c) ++ (g ** c)
      BY <1>2, <2>2, <2>9, TimesPlus
    <2> QED BY <1>6, <2>10, <2>11, <2>12, <2>14, <2>15 DEF sa, sb, L, c
  <1> QED BY <1>7, <1>8

\* What a submit puts on the accounts of A, in both columns.
LEMMA PostingSums ==
    ASSUME sles \in Seq(Sles), NEW w, IsSettled(w), w.is_return \in BOOLEAN, NEW A
    PROVE  /\ FracSum(MapF(Posting(w), OnAmount(A))) =
                MonetarySum(w, A) ++ (StockSum(w, Moved(w), A) ++ ShiftOf(w, A))
           /\ FracSum(MapF(Posting(w), OnBase(A))) =
                (MonetarySum(w, A) ** RateOf(w))
                ++ (StockSum(w, Moved(w), A) ++ (ShiftOf(w, A) ** RateOf(w)))
           /\ MonetarySum(w, A) \in Fractions /\ StockSum(w, Moved(w), A) \in Fractions
           /\ ShiftOf(w, A) \in Fractions
  <1> DEFINE m == MonetarySum(w, A)
             c == RateOf(w)
             s == StockSum(w, Moved(w), A)
             h == ShiftOf(w, A)
  <1>1. /\ m \in Fractions /\ m ** c \in Fractions /\ s \in Fractions
        /\ FracSum(MapF(Legs(w), OnAmount(A))) = m ++ s
        /\ FracSum(MapF(Legs(w), OnBase(A))) = (m ** c) ++ s
    BY LegsSums
  <1>2. h \in Fractions /\ h ** c \in Fractions /\ c \in Fractions
    BY ShiftType, RateOfType
  <1>3. FracSum(MapF(Posting(w), OnAmount(A))) = (m ++ s) ++ h
        /\ FracSum(MapF(Posting(w), OnBase(A))) = ((m ** c) ++ s) ++ (h ** c)
    <2>1. CASE w.doctype = "PurchaseInvoice"
      BY <1>1, <2>1, LegsSplit DEF ShiftOf
    <2>2. CASE w.doctype # "PurchaseInvoice"
      <3>1. Posting(w) = Legs(w) /\ h = Zero
        BY <2>2 DEF Posting, ShiftOf
      <3>2. h ** c = Zero
        BY <1>2, <3>1, TimesZero
      <3>3. m ++ s \in Fractions /\ (m ** c) ++ s \in Fractions
        BY <1>1, PlusType
      <3>4. (m ++ s) ++ h = m ++ s /\ ((m ** c) ++ s) ++ (h ** c) = (m ** c) ++ s
        BY <3>1, <3>2, <3>3, PlusZero
      <3> QED BY <1>1, <3>1, <3>4
    <2> QED BY <2>1, <2>2
  <1> HIDE DEF m, c, s, h
  <1>4. (m ++ s) ++ h = m ++ (s ++ h)
    BY <1>1, <1>2, PlusAssoc
  <1>5. ((m ** c) ++ s) ++ (h ** c) = (m ** c) ++ (s ++ (h ** c))
    BY <1>1, <1>2, PlusAssoc
  <1> QED BY <1>1, <1>2, <1>3, <1>4, <1>5 DEF m, c, s, h

-----------------------------------------------------------------------------
(* Drafts have no rows.                                                    *)

FreshInv ==
    \A d \in Docs : status[d] = "draft" =>
        /\ gl[d] = <<>> /\ party_transactions[d] = <<>> /\ tax_transactions[d] = <<>>
        /\ \A i \in 1..Len(sles) : sles[i].voucher # d

\* Every row that is stored carries its voucher.
LEMMA StoredVouchers ==
    ASSUME NEW d \in Docs, NEW s \in Seq(StockRows), NEW new
    PROVE  /\ MapF(s, StoreAs(d, new)) \in Seq(Sles) /\ Len(MapF(s, StoreAs(d, new))) = Len(s)
           /\ \A i \in 1..Len(MapF(s, StoreAs(d, new))) : MapF(s, StoreAs(d, new))[i].voucher = d
  <1>1. MapF(s, StoreAs(d, new)) \in Seq(Sles) /\ Len(MapF(s, StoreAs(d, new))) = Len(s)
    BY StoreType, MapType
  <1>2. \A i \in 1..Len(s) : s[i] \in StockRows
    OBVIOUS
  <1>3. \A i \in 1..Len(s) : MapF(s, StoreAs(d, new))[i].voucher = d
    BY <1>2 DEF MapF, StoreAs, Stored
  <1> QED BY <1>1, <1>3

\* The mirror images belong to the same voucher.
LEMMA BackVouchers ==
    ASSUME NEW d \in Docs, NEW s \in Seq(Sles)
    PROVE  /\ MapF(s, ReverseSle(d)) \in Seq(Sles) /\ Len(MapF(s, ReverseSle(d))) = Len(s)
           /\ \A i \in 1..Len(MapF(s, ReverseSle(d))) : MapF(s, ReverseSle(d))[i].voucher = d
  <1>1. MapF(s, ReverseSle(d)) \in Seq(Sles) /\ Len(MapF(s, ReverseSle(d))) = Len(s)
    BY ReverseTypes, MapType
  <1>2. \A i \in 1..Len(s) : s[i] \in Sles
    OBVIOUS
  <1>3. \A i \in 1..Len(s) : MapF(s, ReverseSle(d))[i].voucher = d
    BY <1>2, StoredBack DEF MapF
  <1> QED BY <1>1, <1>3

\* The rows of one document are appended.
LEMMA OthersKept ==
    ASSUME sles \in Seq(Sles), NEW d \in Docs, NEW e \in Docs, e # d, NEW t \in Seq(Sles),
           \A i \in 1..Len(t) : t[i].voucher = d,
           \A i \in 1..Len(sles) : sles[i].voucher # e
    PROVE  \A i \in 1..Len(sles \o t) : (sles \o t)[i].voucher # e
  <1>1. /\ Len(sles \o t) = Len(sles) + Len(t) /\ Len(sles) \in Nat /\ Len(t) \in Nat
        /\ \A i \in 1..(Len(sles) + Len(t)) :
             (sles \o t)[i] = IF i <= Len(sles) THEN sles[i] ELSE t[i - Len(sles)]
    BY ConcatProperties
  <1> TAKE i \in 1..Len(sles \o t)
  <1>2. CASE i <= Len(sles)
    BY <1>1, <1>2
  <1>3. CASE i > Len(sles)
    <2>1. i - Len(sles) \in 1..Len(t) /\ (sles \o t)[i] = t[i - Len(sles)]
      BY <1>1, <1>3
    <2> QED BY <2>1
  <1> QED BY <1>1, <1>2, <1>3

\* A document that was not posted has no rows, after every step.
LEMMA FreshStep == LedgerTypeOK /\ FreshInv /\ [Next]_vars => FreshInv'
  <1> SUFFICES ASSUME LedgerTypeOK, FreshInv, [Next]_vars PROVE FreshInv'
    OBVIOUS
  <1>1. sles \in Seq(Sles)
    BY DEF LedgerTypeOK
  <1>2. ASSUME NEW d \in Docs, NEW w, Submits(d, w), IsSettled(w), w.is_return \in BOOLEAN
        PROVE  FreshInv'
    <2> DEFINE t == MapF(Moved(w), StoreAs(d, "posted"))
    <2>1. Moved(w) \in Seq(StockRows)
      BY <1>1, <1>2, MovedType, SubRows
    <2>2. t \in Seq(Sles) /\ \A i \in 1..Len(t) : t[i].voucher = d
      BY <2>1, StoredVouchers
    <2>3. sles' = sles \o t
      BY <1>2 DEF Submits
    <2> HIDE DEF t
    <2>4. ASSUME NEW e \in Docs, status'[e] = "draft"
          PROVE  /\ gl'[e] = <<>> /\ party_transactions'[e] = <<>> /\ tax_transactions'[e] = <<>>
                 /\ \A i \in 1..Len(sles') : sles'[i].voucher # e
      <3>1. e # d /\ status[e] = "draft"
        BY <1>2, <2>4 DEF Submits, LedgerTypeOK
      <3>2. /\ gl'[e] = gl[e] /\ party_transactions'[e] = party_transactions[e]
            /\ tax_transactions'[e] = tax_transactions[e]
        BY <1>2, <3>1 DEF Submits, LedgerTypeOK
      <3>3. /\ gl[e] = <<>> /\ party_transactions[e] = <<>> /\ tax_transactions[e] = <<>>
            /\ \A i \in 1..Len(sles) : sles[i].voucher # e
        BY <3>1 DEF FreshInv
      <3>4. \A i \in 1..Len(sles') : sles'[i].voucher # e
        BY <1>1, <2>2, <2>3, <3>1, <3>3, OthersKept
      <3> QED BY <3>2, <3>3, <3>4
    <2> QED BY <2>4 DEF FreshInv
  <1>3. ASSUME NEW d \in Docs, Cancels(d) PROVE FreshInv'
    <2> DEFINE t == MapF(Keep(sles, OfVoucher(d)), ReverseSle(d))
    <2>1. Keep(sles, OfVoucher(d)) \in Seq(Sles)
      BY <1>1, KeepIn
    <2>2. t \in Seq(Sles) /\ \A i \in 1..Len(t) : t[i].voucher = d
      BY <2>1, BackVouchers
    <2>3. sles' = sles \o t
      BY <1>3 DEF Cancels
    <2> HIDE DEF t
    <2>4. ASSUME NEW e \in Docs, status'[e] = "draft"
          PROVE  /\ gl'[e] = <<>> /\ party_transactions'[e] = <<>> /\ tax_transactions'[e] = <<>>
                 /\ \A i \in 1..Len(sles') : sles'[i].voucher # e
      <3>1. e # d /\ status[e] = "draft"
        BY <1>3, <2>4 DEF Cancels, LedgerTypeOK
      <3>2. /\ gl'[e] = gl[e] /\ party_transactions'[e] = party_transactions[e]
            /\ tax_transactions'[e] = tax_transactions[e]
        BY <1>3, <3>1 DEF Cancels, LedgerTypeOK
      <3>3. /\ gl[e] = <<>> /\ party_transactions[e] = <<>> /\ tax_transactions[e] = <<>>
            /\ \A i \in 1..Len(sles) : sles[i].voucher # e
        BY <3>1 DEF FreshInv
      <3>4. \A i \in 1..Len(sles') : sles'[i].voucher # e
        BY <1>1, <2>2, <2>3, <3>1, <3>3, OthersKept
      <3> QED BY <3>2, <3>3, <3>4
    <2> QED BY <2>4 DEF FreshInv
  <1>4. CASE UNCHANGED <<company, status, gl, party_transactions, tax_transactions, sles, bins>>
    BY <1>4 DEF FreshInv
  <1> QED BY <1>2, <1>3, <1>4, Steps

\* Nothing is posted at the start.
LEMMA FreshInit == Init => FreshInv
  <1> SUFFICES ASSUME Init PROVE FreshInv
    OBVIOUS
  <1>1. sles = <<>> /\ Len(sles) = 0
    BY DEF Init
  <1> QED BY <1>1 DEF Init, FreshInv

\* What a submit leaves in the books of its document.
LEMMA SubmittedRows ==
    ASSUME LedgerTypeOK, FreshInv, NEW d \in Docs, NEW w, IsSettled(w), w.is_return \in BOOLEAN,
           Submits(d, w)
    PROVE  /\ gl'[d] = Posting(w)
           /\ party_transactions'[d] = stamp_base_amounts(w, derive_party_rows(w))
           /\ tax_transactions'[d] = derive_tax_rows(w)
  <1>1. /\ Posting(w) \in Seq(GlRows)
        /\ stamp_base_amounts(w, derive_party_rows(w)) \in Seq(PartyRows)
        /\ derive_tax_rows(w) \in Seq(TaxRows)
    BY SubmitTypes
  <1>2. gl[d] = <<>> /\ party_transactions[d] = <<>> /\ tax_transactions[d] = <<>>
    BY DEF FreshInv, Submits
  <1>3. /\ <<>> \o Posting(w) = Posting(w)
        /\ <<>> \o stamp_base_amounts(w, derive_party_rows(w)) = stamp_base_amounts(w, derive_party_rows(w))
        /\ <<>> \o derive_tax_rows(w) = derive_tax_rows(w)
    BY <1>1, ConcatEmptySeq
  <1> QED BY <1>2, <1>3 DEF Submits, LedgerTypeOK

-----------------------------------------------------------------------------
(* The base columns balance.                                               *)

\* The sum of all the rows is that on all the accounts.
LEMMA AllAccounts ==
    ASSUME NEW s \in Seq(GlRows)
    PROVE  /\ SumOver(s, Amount) = FracSum(MapF(s, OnAmount(Accounts)))
           /\ SumOver(s, Base) = FracSum(MapF(s, OnBase(Accounts)))
  <1>1. \A i \in DOMAIN s : s[i] \in GlRows
    OBVIOUS
  <1>2. \A i \in DOMAIN s : s[i].account \in Accounts
    BY <1>1, GlRowType
  <1>3. [i \in DOMAIN s |-> Amount(s[i])] = MapF(s, OnAmount(Accounts))
    BY <1>1, <1>2 DEF MapF, OnAmount
  <1>4. [i \in DOMAIN s |-> Base(s[i])] = MapF(s, OnBase(Accounts))
    BY <1>1, <1>2 DEF MapF, OnBase
  <1>5. SumOver(s, Amount) = FracSum(MapF(s, OnAmount(Accounts)))
    BY <1>3 DEF SumOver, Map
  <1>6. SumOver(s, Base) = FracSum(MapF(s, OnBase(Accounts)))
    BY <1>4 DEF SumOver, Map
  <1> QED BY <1>5, <1>6

\* A balanced posting balances in the base columns and without its stock.
LEMMA PostingBalances ==
    ASSUME sles \in Seq(Sles), NEW w, IsSettled(w), w.is_return \in BOOLEAN,
           check_balanced(Posting(w))
    PROVE  MonetarySum(w, Accounts) = Zero /\ SumOver(Posting(w), Base) = Zero
  <1> DEFINE m == MonetarySum(w, Accounts)
             c == RateOf(w)
             s == StockSum(w, Moved(w), Accounts)
             h == ShiftOf(w, Accounts)
  <1>1. /\ FracSum(MapF(Posting(w), OnAmount(Accounts))) = m ++ (s ++ h)
        /\ FracSum(MapF(Posting(w), OnBase(Accounts))) = (m ** c) ++ (s ++ (h ** c))
        /\ m \in Fractions
    BY PostingSums
  <1>2. Posting(w) \in Seq(GlRows)
    BY PostingType
  <1>3. s = Zero
    <2>1. Moved(w) \in Seq(StockRows)
      BY MovedType, SubRows
    <2> QED BY <2>1, StockBalances
  <1>4. h = Zero
    <2>1. StockNet(w) \in Fractions /\ Negated(StockNet(w)) \in Fractions
      BY SplitTypes, NegatedType
    <2>2. w.expense_account \in Accounts /\ "grni" \in Accounts
      BY DEF IsSettled, Accounts
    <2>3. Negated(StockNet(w)) ++ StockNet(w) = Zero
      BY <2>1, PlusNegated, PlusComm
    <2> QED BY <2>2, <2>3 DEF ShiftOf, Shift
  <1>5. c \in Fractions /\ Zero ** c = Zero /\ Zero ++ Zero = Zero
    BY RateOfType, TimesZero, ZeroType, PlusZero
  <1> HIDE DEF m, c, s, h
  <1>6. m = Zero
    <2>1. FracSum(MapF(Posting(w), OnAmount(Accounts))) = Zero
      BY <1>2, AllAccounts DEF check_balanced
    <2> QED BY <1>1, <1>3, <1>4, <1>5, <2>1, PlusZero
  <1>7. FracSum(MapF(Posting(w), OnBase(Accounts))) = Zero
    BY <1>1, <1>3, <1>4, <1>5, <1>6
  <1> QED BY <1>2, <1>6, <1>7, AllAccounts DEF m

\* Every step keeps every voucher balanced in base.
LEMMA BalancesStep == LedgerTypeOK /\ FreshInv /\ BaseLedgerBalances /\ [Next]_vars => BaseLedgerBalances'
  <1> SUFFICES ASSUME LedgerTypeOK, FreshInv, BaseLedgerBalances, [Next]_vars PROVE BaseLedgerBalances'
    OBVIOUS
  <1>1. sles \in Seq(Sles)
    BY DEF LedgerTypeOK
  <1>2. ASSUME NEW d \in Docs, NEW w, Submits(d, w), IsSettled(w), w.is_return \in BOOLEAN
        PROVE  BaseLedgerBalances'
    <2>1. gl'[d] = Posting(w)
      BY <1>2, SubmittedRows
    <2>2. SumOver(Posting(w), Base) = Zero
      BY <1>1, <1>2, PostingBalances DEF Submits
    <2>3. \A e \in Docs : e # d => gl'[e] = gl[e]
      BY <1>2 DEF Submits, LedgerTypeOK
    <2> QED BY <2>1, <2>2, <2>3 DEF BaseLedgerBalances
  <1>3. ASSUME NEW d \in Docs, Cancels(d) PROVE BaseLedgerBalances'
    <2>1. gl'[d] = gl[d] \o MapF(gl[d], ReverseRows(GlRows)) /\ gl'[d] \in Seq(GlRows)
      BY <1>3, TypeCancel DEF Cancels, LedgerTypeOK
    <2>2. FracSum(MapF(gl'[d], OnBase(Accounts))) = Zero
      BY <2>1, UndoneRows
    <2>3. SumOver(gl'[d], Base) = Zero
      BY <2>1, <2>2, AllAccounts
    <2>4. \A e \in Docs : e # d => gl'[e] = gl[e]
      BY <1>3 DEF Cancels, LedgerTypeOK
    <2> QED BY <2>3, <2>4 DEF BaseLedgerBalances
  <1>4. CASE UNCHANGED <<company, status, gl, party_transactions, tax_transactions, sles, bins>>
    BY <1>4 DEF BaseLedgerBalances
  <1> QED BY <1>2, <1>3, <1>4, Steps

\* Every voucher is balanced at the start.
LEMMA BalancesInit == Init => BaseLedgerBalances
  <1> SUFFICES ASSUME Init PROVE BaseLedgerBalances
    OBVIOUS
  <1>1. SumOver(<<>>, Base) = Zero
    <2>1. <<>> \in Seq(GlRows)
      OBVIOUS
    <2> QED BY <2>1, AllAccounts, SumNone
  <1> QED BY <1>1 DEF Init, BaseLedgerBalances

\* The ledger balances in the company's currency, whatever the currencies and
\* the rates of the documents, however their legs are rounded and whatever is
\* cancelled (stamp_base_amounts, derive_monetary_gl, stock_gl_legs).
THEOREM BaseColumnsBalance == Spec => []BaseLedgerBalances
  <1>1. Init => LedgerTypeOK /\ FreshInv /\ BaseLedgerBalances
    BY TypeInit, FreshInit, BalancesInit
  <1>2. (LedgerTypeOK /\ FreshInv /\ BaseLedgerBalances) /\ [Next]_vars
           => (LedgerTypeOK /\ FreshInv /\ BaseLedgerBalances)'
    BY TypeStep, FreshStep, BalancesStep
  <1> QED BY <1>1, <1>2, PTL DEF Spec

-----------------------------------------------------------------------------
(* The accounts of a document whose compared accounts are separate.        *)

Free(a) == a \notin Compared

Apart(w) ==
    /\ w.doctype = "SalesInvoice" => w.debit_to = "receivable" /\ Free(w.income_account)
    /\ w.doctype = "PurchaseInvoice" => w.credit_to = "payable" /\ Free(w.expense_account)
    /\ w.doctype = "POSInvoice" => Free(w.cash_account) /\ Free(w.income_account)
    /\ w.doctype = "Expense" =>
          /\ Free(w.expense_account) /\ Free(w.paid_from) /\ w.credit_to = "payable"
          /\ w.tax_amount # 0 => w.tax_account = "vat"
          /\ w.is_paid \in BOOLEAN
    /\ w.doctype = "CustomerDeposit" => Free(w.cash_account) /\ Free(w.deposit_account)
    /\ w.doctype = "PaymentEntry" =>
          /\ IF w.payment_type = "Receive" THEN w.paid_from = "receivable" ELSE Free(w.paid_from)
          /\ IF w.payment_type = "Pay" THEN w.paid_to = "payable" ELSE Free(w.paid_to)

\* The accounts of the settled document are apart as well.
LEMMA ApartFields ==
    ASSUME NEW v \in Payloads, NEW w, w = Settled(v), SeparateAccounts(v)
    PROVE  Apart(w)
  <1> DEFINE u == resolve_account_fallbacks(v)
  <1>1. /\ SameFields(w, v) /\ SameAccounts(w, u)
        /\ w.doctype = "Expense" => /\ w.is_paid = Default(v.is_paid, TRUE)
                                    /\ w.tax_amount # 0 => w.tax_account = Default(v.tax_account, "vat")
    BY SettledFields
  <1>2. \A x \in SettledNames : Fallback(u, v, x)
    BY ResolvedFields
  <1> HIDE DEF u
  <1>3. Free("income") /\ Free("expense") /\ Free("cash") /\ Free("deposit")
    BY DEF SeparateAccounts, DefaultAccounts, Free
  <1>4. /\ Free(v.income_account) /\ Free(v.expense_account) /\ Free(v.cash_account)
        /\ Free(v.deposit_account) /\ (~Receives(v) => Free(v.paid_from)) /\ (~Pays(v) => Free(v.paid_to))
    BY DEF SeparateAccounts, OtherAccounts, Free
  <1>5. /\ v.debit_to \in {None, "receivable"} /\ v.credit_to \in {None, "payable"}
        /\ Receives(v) => v.paid_from \in {None, "receivable"}
        /\ Pays(v) => v.paid_to \in {None, "payable"}
        /\ v.tax_account \in {None, "vat"}
    BY DEF SeparateAccounts
  <1>6. w.doctype = v.doctype /\ w.payment_type = v.payment_type
    BY <1>1 DEF SameFields
  <1>7. v.doctype = "SalesInvoice" => w.debit_to = "receivable" /\ Free(w.income_account)
    <2> SUFFICES ASSUME v.doctype = "SalesInvoice"
                 PROVE  w.debit_to = "receivable" /\ Free(w.income_account)
      OBVIOUS
    <2>1. Fallbacks(v) = [debit_to |-> "receivable", income_account |-> "income"]
      BY DEF Fallbacks
    <2> QED BY <1>1, <1>2, <1>3, <1>4, <1>5, <2>1 DEF Fallback, SettledNames, SameAccounts
  <1>8. v.doctype = "PurchaseInvoice" => w.credit_to = "payable" /\ Free(w.expense_account)
    <2> SUFFICES ASSUME v.doctype = "PurchaseInvoice"
                 PROVE  w.credit_to = "payable" /\ Free(w.expense_account)
      OBVIOUS
    <2>1. Fallbacks(v) = [credit_to |-> "payable", expense_account |-> "expense"]
      BY DEF Fallbacks
    <2> QED BY <1>1, <1>2, <1>3, <1>4, <1>5, <2>1 DEF Fallback, SettledNames, SameAccounts
  <1>9. v.doctype = "POSInvoice" => Free(w.cash_account) /\ Free(w.income_account)
    <2> SUFFICES ASSUME v.doctype = "POSInvoice" PROVE Free(w.cash_account) /\ Free(w.income_account)
      OBVIOUS
    <2>1. Fallbacks(v) = [cash_account |-> "cash", income_account |-> "income"]
      BY DEF Fallbacks
    <2> QED BY <1>1, <1>2, <1>3, <1>4, <1>5, <2>1 DEF Fallback, SettledNames, SameAccounts
  <1>10. v.doctype = "Expense" =>
           Free(w.expense_account) /\ Free(w.paid_from) /\ w.credit_to = "payable"
    <2> SUFFICES ASSUME v.doctype = "Expense"
                 PROVE  Free(w.expense_account) /\ Free(w.paid_from) /\ w.credit_to = "payable"
      OBVIOUS
    <2>1. Fallbacks(v) = [paid_from |-> "cash", credit_to |-> "payable"]
      BY DEF Fallbacks
    <2>2. ~Receives(v)
      BY DEF Receives
    <2> QED BY <1>1, <1>2, <1>3, <1>4, <1>5, <2>1, <2>2 DEF Fallback, SettledNames, SameAccounts
  <1>11. v.doctype = "CustomerDeposit" => Free(w.cash_account) /\ Free(w.deposit_account)
    <2> SUFFICES ASSUME v.doctype = "CustomerDeposit"
                 PROVE  Free(w.cash_account) /\ Free(w.deposit_account)
      OBVIOUS
    <2>1. Fallbacks(v) = [cash_account |-> "cash", deposit_account |-> "deposit"]
      BY DEF Fallbacks
    <2> QED BY <1>1, <1>2, <1>3, <1>4, <1>5, <2>1 DEF Fallback, SettledNames, SameAccounts
  <1>12. v.doctype = "PaymentEntry" =>
          /\ IF v.payment_type = "Receive" THEN w.paid_from = "receivable" ELSE Free(w.paid_from)
          /\ IF v.payment_type = "Pay" THEN w.paid_to = "payable" ELSE Free(w.paid_to)
    <2> SUFFICES ASSUME v.doctype = "PaymentEntry"
                 PROVE  /\ IF v.payment_type = "Receive" THEN w.paid_from = "receivable"
                           ELSE Free(w.paid_from)
                        /\ IF v.payment_type = "Pay" THEN w.paid_to = "payable" ELSE Free(w.paid_to)
      OBVIOUS
    <2>1. CASE v.payment_type = "Receive"
      <3>1. Fallbacks(v) = [paid_from |-> "receivable", paid_to |-> "cash"]
        BY <2>1 DEF Fallbacks
      <3>2. Receives(v) /\ ~Pays(v)
        BY <2>1 DEF Receives, Pays
      <3> QED BY <1>1, <1>2, <1>3, <1>4, <1>5, <2>1, <3>1, <3>2 DEF Fallback, SettledNames, SameAccounts
    <2>2. CASE v.payment_type = "Pay"
      <3>1. Fallbacks(v) = [paid_from |-> "cash", paid_to |-> "payable"]
        BY <2>2 DEF Fallbacks
      <3>2. ~Receives(v) /\ Pays(v)
        BY <2>2 DEF Receives, Pays
      <3> QED BY <1>1, <1>2, <1>3, <1>4, <1>5, <2>2, <3>1, <3>2 DEF Fallback, SettledNames, SameAccounts
    <2>3. CASE v.payment_type \notin {"Receive", "Pay"}
      <3>1. Fallbacks(v) = <<>>
        BY <2>3 DEF Fallbacks
      <3>2. ~Receives(v) /\ ~Pays(v)
        BY <2>3 DEF Receives, Pays
      <3>3. DOMAIN Fallbacks(v) = {}
        BY <3>1
      <3>4. w.paid_from = v.paid_from /\ w.paid_to = v.paid_to
        BY <1>1, <1>2, <3>3 DEF Fallback, SettledNames, SameAccounts
      <3> QED BY <1>4, <2>3, <3>2, <3>4
    <2> QED BY <2>1, <2>2, <2>3
  <1>13. v.doctype = "Expense" => (w.tax_amount # 0 => w.tax_account = "vat") /\ w.is_paid \in BOOLEAN
    <2>1. v.is_paid \in BOOLEAN \cup {None}
      BY DEF Payloads
    <2> QED BY <1>1, <1>5, <1>6, <2>1 DEF Default
  <1> QED BY <1>6, <1>7, <1>8, <1>9, <1>10, <1>11, <1>12, <1>13 DEF Apart

\* A stock row is booked on an inventory account.
LEMMA InventoryAccountIn == ASSUME NEW r PROVE InventoryAccount(r) \in InventoryAccounts
  <1>1. CASE r.item \in DOMAIN Items
    BY <1>1 DEF InventoryAccount, InventoryAccounts, load_items
  <1>2. CASE r.item \notin DOMAIN Items
    <2>1. InventoryAccount(r) = "inventory"
      BY <1>2 DEF InventoryAccount, load_items, UnknownItem, Default
    <2> QED BY <2>1 DEF InventoryAccounts
  <1> QED BY <1>1, <1>2

\* The other leg of a stock row is on no compared account, but for GRNI.
LEMMA CounterIn ==
    ASSUME NEW v, NEW r, SeparateAccounts(v), NEW w, w.doctype = v.doctype
    PROVE  /\ Counter(w, r) \notin (Compared \ {"grni"})
           /\ w.doctype \notin {"PurchaseInvoice", "PurchaseReceipt"} => Counter(w, r) \notin Compared
           /\ w.doctype \in {"PurchaseInvoice", "PurchaseReceipt"} => Counter(w, r) = "grni"
  <1> DEFINE i == load_items(r.item)
  <1>1. Compared \cap (ItemCounterAccounts \cup DefaultAccounts) = {}
    BY DEF SeparateAccounts
  <1>2. Default(i.cogs_account, "cogs") \notin Compared
        /\ Default(i.stock_adjustment_account, "adjustment") \notin Compared
    <2>1. "cogs" \notin Compared /\ "adjustment" \notin Compared
      BY <1>1 DEF DefaultAccounts
    <2>2. CASE r.item \in DOMAIN Items
      <3>1. i.cogs_account \in ItemCounterAccounts /\ i.stock_adjustment_account \in ItemCounterAccounts
        BY <2>2 DEF ItemCounterAccounts, load_items
      <3> QED BY <1>1, <2>1, <3>1 DEF Default
    <2>3. CASE r.item \notin DOMAIN Items
      BY <2>1, <2>3 DEF load_items, UnknownItem, Default
    <2> QED BY <2>2, <2>3
  <1>3. Counter(w, r) = IF w.doctype \in {"SalesInvoice", "DeliveryNote", "POSInvoice"}
                        THEN Default(i.cogs_account, "cogs")
                        ELSE IF w.doctype \in {"PurchaseInvoice", "PurchaseReceipt"} THEN "grni"
                        ELSE Default(i.stock_adjustment_account, "adjustment")
    BY DEF Counter, CounterAccount
  <1> HIDE DEF i
  <1> QED BY <1>2, <1>3

\* The legs of stock and the split leave a control account but GRNI alone.
LEMMA StockElsewhere ==
    ASSUME sles \in Seq(Sles), NEW v, SeparateAccounts(v), NEW w, IsSettled(w), Apart(w),
           w.doctype = v.doctype, w.is_return \in BOOLEAN,
           NEW a \in {"receivable", "payable", "vat"}
    PROVE  /\ FracSum(MapF(Posting(w), OnAmount({a}))) = MonetarySum(w, {a})
           /\ FracSum(MapF(Posting(w), OnBase({a}))) = MonetarySum(w, {a}) ** RateOf(w)
           /\ MonetarySum(w, {a}) \in Fractions
  <1> DEFINE m == MonetarySum(w, {a})
             c == RateOf(w)
             s == StockSum(w, Moved(w), {a})
             h == ShiftOf(w, {a})
  <1>1. a \in Compared /\ a \in ControlAccounts /\ a # "grni" /\ a \notin InventoryAccounts
    BY DEF SeparateAccounts, Compared, ControlAccounts
  <1>2. Zero ++ Zero = Zero /\ Zero \in Fractions
    BY ZeroType, PlusZero
  <1>3. s = Zero
    <2>1. Moved(w) \in Seq(StockRows)
      BY MovedType, SubRows
    <2>2. ASSUME NEW r \in StockRows PROVE LegSum(w, r, {a}) = Zero
      <3>1. InventoryAccount(r) # a /\ Counter(w, r) # a
        BY <1>1, InventoryAccountIn, CounterIn
      <3> QED BY <1>2, <3>1 DEF LegSum
    <2> QED BY <2>1, <2>2, StockSumNone
  <1>4. h = Zero
    BY <1>1, <1>2 DEF ShiftOf, Shift, Apart, Free
  <1>5. /\ FracSum(MapF(Posting(w), OnAmount({a}))) = m ++ (s ++ h)
        /\ FracSum(MapF(Posting(w), OnBase({a}))) = (m ** c) ++ (s ++ (h ** c))
        /\ m \in Fractions
    BY PostingSums
  <1>6. c \in Fractions /\ Zero ** c = Zero
    BY RateOfType, TimesZero
  <1> HIDE DEF m, c, s, h
  <1>7. m ** c \in Fractions
    BY <1>5, <1>6, TimesType
  <1> QED BY <1>2, <1>3, <1>4, <1>5, <1>6, <1>7, PlusZero DEF m, c

-----------------------------------------------------------------------------
(* The monetary legs on one account.                                       *)

\* What a leg puts on accounts.
LEMMA GlOn ==
    ASSUME NEW id \in Ids, NEW b \in Accounts, NEW n \in Int, NEW A
    PROVE  /\ Gl(id, b, n) \in GlRows
           /\ OnAmount(A)[Gl(id, b, n)] = IF b \in A THEN Whole(n) ELSE Zero
  <1>1. Gl(id, b, n) \in GlRows
    BY GlType, UnstampedType
  <1>2. Gl(id, b, n).account = b /\ Gl(id, b, n).amount = Whole(n)
    BY DEF Gl
  <1> QED BY <1>1, <1>2 DEF OnAmount, Amount

\* The voucher's tax rows name the VAT account or none.
VatOnly(w) == w.taxes \in Seq({r \in TaxLines : r.tax_account \in {None, "vat"}})

\* The tax legs are on the VAT account alone.
LEMMA TaxLegsOn ==
    ASSUME NEW w, IsSettled(w), VatOnly(w), NEW sign \in Int
    PROVE  /\ tax_legs(w, sign) \in Seq(GlRows)
           /\ FracSum(MapF(tax_legs(w, sign), OnAmount({"vat"}))) =
                FracSum(MapF(tax_legs(w, sign), OnAmount(Accounts)))
           /\ \A A : "vat" \notin A => FracSum(MapF(tax_legs(w, sign), OnAmount(A))) = Zero
  <1> DEFINE T == {r \in TaxLines : r.tax_account \in {None, "vat"}}
             p == Keep(w.taxes, {r \in TaxLines : Posts(r)})
             t == tax_legs(w, sign)
  <1>1. t = MapF(p, TaxLeg(sign)) /\ t \in Seq(Unstamped)
    BY TaxLegsAre DEF IsSettled
  <1>2. p \in Seq(T) /\ \A i \in 1..Len(p) : p[i] \in T /\ p[i] \in {r \in TaxLines : Posts(r)}
    BY KeepIn DEF VatOnly
  <1> HIDE DEF p
  <1>3. \A i \in 1..Len(p) : p[i] \in TaxLines /\ p[i].tax_account = "vat"
    BY <1>2 DEF Posts
  <1>4. DOMAIN t = 1..Len(p)
    BY <1>1, <1>2 DEF MapF
  <1>5. \A i \in DOMAIN t : t[i].account = "vat"
    BY <1>1, <1>3, <1>4 DEF MapF, TaxLeg, Gl
  <1> HIDE DEF t
  <1>6. t \in Seq(GlRows)
    BY <1>1, UnstampedType, SeqMonotonic
  <1>7. \A i \in DOMAIN t : t[i] \in GlRows
    BY <1>6
  <1>8. MapF(t, OnAmount({"vat"})) = MapF(t, OnAmount(Accounts))
    BY <1>5, <1>7 DEF MapF, OnAmount, Accounts
  <1>9. ASSUME NEW A, "vat" \notin A PROVE FracSum(MapF(t, OnAmount(A))) = Zero
    <2>1. MapF(t, OnAmount(A)) = [i \in DOMAIN t |-> Zero]
      BY <1>5, <1>7, <1>9 DEF MapF, OnAmount
    <2>2. [i \in DOMAIN t |-> Zero] \in Seq({Zero})
      BY <1>6
    <2> QED BY <2>1, <2>2, FracSumZero
  <1> QED BY <1>6, <1>8, <1>9 DEF t

\* Two legs and the tax legs.
LEMMA TwoLegsSum ==
    ASSUME NEW A, NEW x \in GlRows, NEW y \in GlRows, NEW t \in Seq(GlRows)
    PROVE  FracSum(MapF(<<x, y>> \o t, OnAmount(A))) =
             (OnAmount(A)[x] ++ OnAmount(A)[y]) ++ FracSum(MapF(t, OnAmount(A)))
  <1>1. <<x, y>> \in Seq(GlRows) /\ OnAmount(A) \in [GlRows -> Fractions]
    BY MeasureTypes
  <1>2. FracSum(MapF(<<x, y>>, OnAmount(A))) = OnAmount(A)[x] ++ OnAmount(A)[y]
    BY <1>1, SumTwo
  <1> HIDE DEF OnAmount
  <1> QED BY <1>1, <1>2, SumConcat

\* Sums with Zero.
LEMMA ZeroSums == /\ Zero ++ Zero = Zero /\ Zero \in Fractions
                  /\ \A n \in Int : /\ Whole(n) ++ Zero = Whole(n) /\ Zero ++ Whole(n) = Whole(n)
                                    /\ Negated(Whole(n)) = Whole(-n) /\ Whole(n) \in Fractions
  <1>1. \A n \in Int : Negated(Whole(n)) = Whole(-n)
    BY DEF Negated, Whole
  <1> QED BY <1>1, ZeroType, WholeType, PlusZero

\* The marks of the legs.
LEMMA IdsAre ==
    /\ "debit" \in Ids /\ "credit" \in Ids /\ "cash" \in Ids /\ "income" \in Ids /\ "from" \in Ids
    /\ "to" \in Ids /\ "tax" \in Ids /\ "liability" \in Ids /\ "journal" \in Ids
  BY DEF Ids

\* What the invoices put on accounts, leg by leg.
LEMMA InvoiceSums ==
    ASSUME NEW w, IsSettled(w), NEW A
    PROVE  /\ total_tax(w) \in Int
           /\ tax_legs(w, 1) \in Seq(GlRows) /\ tax_legs(w, -1) \in Seq(GlRows)
           /\ w.doctype = "SalesInvoice" =>
                MonetarySum(w, A) =
                  ((IF w.debit_to \in A THEN Whole(w.grand_total) ELSE Zero)
                   ++ (IF w.income_account \in A THEN Whole(-(w.grand_total - total_tax(w))) ELSE Zero))
                  ++ FracSum(MapF(tax_legs(w, -1), OnAmount(A)))
           /\ w.doctype = "PurchaseInvoice" =>
                MonetarySum(w, A) =
                  ((IF w.credit_to \in A THEN Whole(-w.grand_total) ELSE Zero)
                   ++ (IF w.expense_account \in A THEN Whole(w.grand_total - total_tax(w)) ELSE Zero))
                  ++ FracSum(MapF(tax_legs(w, 1), OnAmount(A)))
           /\ w.doctype = "POSInvoice" =>
                MonetarySum(w, A) =
                  ((IF w.cash_account \in A THEN Whole(w.grand_total) ELSE Zero)
                   ++ (IF w.income_account \in A THEN Whole(-(w.grand_total - total_tax(w))) ELSE Zero))
                  ++ FracSum(MapF(tax_legs(w, -1), OnAmount(A)))
  <1>1. w.taxes \in Seq(TaxLines) /\ 1 \in Int /\ -1 \in Int
    BY DEF IsSettled
  <1>2. total_tax(w) \in Int
    BY <1>1, TotalTaxType
  <1>3. \A sign \in Int : tax_legs(w, sign) \in Seq(Unstamped)
    BY <1>1, TaxLegsAre
  <1>4. tax_legs(w, 1) \in Seq(GlRows) /\ tax_legs(w, -1) \in Seq(GlRows)
    BY <1>1, <1>3, UnstampedType, SeqMonotonic
  <1>5. /\ w.debit_to \in Accounts /\ w.income_account \in Accounts /\ w.credit_to \in Accounts
        /\ w.expense_account \in Accounts /\ w.cash_account \in Accounts
        /\ w.doctype \in Invoices => w.grand_total \in Int
    BY DEF IsSettled
  <1>6. CASE w.doctype = "SalesInvoice"
    <2> DEFINE x == Gl("debit", w.debit_to, w.grand_total)
               y == Gl("credit", w.income_account, -(w.grand_total - total_tax(w)))
    <2>1. w.grand_total \in Int /\ -(w.grand_total - total_tax(w)) \in Int
      BY <1>2, <1>5, <1>6 DEF Invoices
    <2>2. x \in GlRows /\ OnAmount(A)[x] = IF w.debit_to \in A THEN Whole(w.grand_total) ELSE Zero
      BY <1>5, <2>1, IdsAre, GlOn
    <2>3. y \in GlRows /\ OnAmount(A)[y] = IF w.income_account \in A
                                           THEN Whole(-(w.grand_total - total_tax(w))) ELSE Zero
      BY <1>5, <2>1, IdsAre, GlOn
    <2>4. derive_monetary_gl(w) = <<x, y>> \o tax_legs(w, -1)
      BY <1>6, MonetaryIs
    <2> HIDE DEF x, y
    <2> QED BY <1>2, <1>4, <1>6, <2>2, <2>3, <2>4, TwoLegsSum DEF MonetarySum
  <1>7. CASE w.doctype = "PurchaseInvoice"
    <2> DEFINE x == Gl("credit", w.credit_to, -w.grand_total)
               y == Gl("debit", w.expense_account, w.grand_total - total_tax(w))
    <2>1. -w.grand_total \in Int /\ w.grand_total - total_tax(w) \in Int
      BY <1>2, <1>5, <1>7 DEF Invoices
    <2>2. x \in GlRows /\ OnAmount(A)[x] = IF w.credit_to \in A THEN Whole(-w.grand_total) ELSE Zero
      BY <1>5, <2>1, IdsAre, GlOn
    <2>3. y \in GlRows /\ OnAmount(A)[y] = IF w.expense_account \in A
                                           THEN Whole(w.grand_total - total_tax(w)) ELSE Zero
      BY <1>5, <2>1, IdsAre, GlOn
    <2>4. derive_monetary_gl(w) = <<x, y>> \o tax_legs(w, 1)
      BY <1>7, MonetaryIs
    <2> HIDE DEF x, y
    <2> QED BY <1>2, <1>4, <1>7, <2>2, <2>3, <2>4, TwoLegsSum DEF MonetarySum
  <1>8. CASE w.doctype = "POSInvoice"
    <2> DEFINE x == Gl("cash", w.cash_account, w.grand_total)
               y == Gl("income", w.income_account, -(w.grand_total - total_tax(w)))
    <2>1. w.grand_total \in Int /\ -(w.grand_total - total_tax(w)) \in Int
      BY <1>2, <1>5, <1>8 DEF Invoices
    <2>2. x \in GlRows /\ OnAmount(A)[x] = IF w.cash_account \in A THEN Whole(w.grand_total) ELSE Zero
      BY <1>5, <2>1, IdsAre, GlOn
    <2>3. y \in GlRows /\ OnAmount(A)[y] = IF w.income_account \in A
                                           THEN Whole(-(w.grand_total - total_tax(w))) ELSE Zero
      BY <1>5, <2>1, IdsAre, GlOn
    <2>4. derive_monetary_gl(w) = <<x, y>> \o tax_legs(w, -1)
      BY <1>8, MonetaryIs
    <2> HIDE DEF x, y
    <2> QED BY <1>2, <1>4, <1>8, <2>2, <2>3, <2>4, TwoLegsSum DEF MonetarySum
  <1> QED BY <1>2, <1>4, <1>6, <1>7, <1>8

\* The legs of the other doctypes.
LEMMA OtherSums ==
    ASSUME NEW w, IsSettled(w), NEW A
    PROVE  /\ w.doctype = "PaymentEntry" =>
                MonetarySum(w, A) = (IF w.paid_from \in A THEN Whole(-w.paid_amount) ELSE Zero)
                                    ++ (IF w.paid_to \in A THEN Whole(w.paid_amount) ELSE Zero)
           /\ w.doctype = "CustomerDeposit" =>
                MonetarySum(w, A) = (IF w.cash_account \in A THEN Whole(w.amount) ELSE Zero)
                                    ++ (IF w.deposit_account \in A THEN Whole(-w.amount) ELSE Zero)
           /\ w.doctype = "Expense" =>
                MonetarySum(w, A) =
                  ((IF w.expense_account \in A THEN Whole(w.net_amount) ELSE Zero)
                   ++ (IF w.tax_amount # 0 /\ w.tax_account \in A THEN Whole(w.tax_amount) ELSE Zero))
                  ++ (IF (IF w.is_paid THEN w.paid_from ELSE w.credit_to) \in A
                      THEN Whole(-w.gross_amount) ELSE Zero)
           /\ w.doctype \notin {"SalesInvoice", "PurchaseInvoice", "POSInvoice", "PaymentEntry",
                                "Expense", "CustomerDeposit", "JournalEntry"} =>
                MonetarySum(w, A) = Zero
  <1>1. OnAmount(A) \in [GlRows -> Fractions]
    BY MeasureTypes
  <1>2. /\ w.paid_from \in Accounts /\ w.paid_to \in Accounts /\ w.cash_account \in Accounts
        /\ w.deposit_account \in Accounts /\ w.expense_account \in Accounts
        /\ w.tax_account \in Accounts /\ w.credit_to \in Accounts
        /\ w.paid_amount \in Int /\ -w.paid_amount \in Int /\ w.amount \in Int /\ -w.amount \in Int
        /\ w.net_amount \in Int /\ w.tax_amount \in Int
        /\ w.doctype = "Expense" => -w.gross_amount \in Int
    BY DEF IsSettled
  <1>3. CASE w.doctype = "PaymentEntry"
    <2> DEFINE x == Gl("from", w.paid_from, -w.paid_amount)
               y == Gl("to", w.paid_to, w.paid_amount)
    <2>1. /\ x \in GlRows /\ OnAmount(A)[x] = IF w.paid_from \in A THEN Whole(-w.paid_amount) ELSE Zero
          /\ y \in GlRows /\ OnAmount(A)[y] = IF w.paid_to \in A THEN Whole(w.paid_amount) ELSE Zero
      BY <1>2, IdsAre, GlOn
    <2>2. derive_monetary_gl(w) = <<x, y>>
      BY <1>3, MonetaryIs
    <2> HIDE DEF x, y
    <2> QED BY <1>1, <1>3, <2>1, <2>2, SumTwo DEF MonetarySum
  <1>4. CASE w.doctype = "CustomerDeposit"
    <2> DEFINE x == Gl("cash", w.cash_account, w.amount)
               y == Gl("liability", w.deposit_account, -w.amount)
    <2>1. /\ x \in GlRows /\ OnAmount(A)[x] = IF w.cash_account \in A THEN Whole(w.amount) ELSE Zero
          /\ y \in GlRows /\ OnAmount(A)[y] = IF w.deposit_account \in A THEN Whole(-w.amount) ELSE Zero
      BY <1>2, IdsAre, GlOn
    <2>2. derive_monetary_gl(w) = <<x, y>>
      BY <1>4, MonetaryIs
    <2> HIDE DEF x, y
    <2> QED BY <1>1, <1>4, <2>1, <2>2, SumTwo DEF MonetarySum
  <1>5. CASE w.doctype = "Expense"
    <2> DEFINE b == IF w.is_paid THEN w.paid_from ELSE w.credit_to
               x == Gl("debit", w.expense_account, w.net_amount)
               y == Gl("tax", w.tax_account, w.tax_amount)
               z == Gl("credit", b, -w.gross_amount)
               t == IF w.tax_amount # 0 THEN <<y>> ELSE <<>>
               ft == IF w.tax_amount # 0 /\ w.tax_account \in A THEN Whole(w.tax_amount) ELSE Zero
    <2>1. b \in Accounts
      BY <1>2
    <2>2. x \in GlRows /\ OnAmount(A)[x] = IF w.expense_account \in A THEN Whole(w.net_amount) ELSE Zero
      BY <1>2, IdsAre, GlOn
    <2>3. y \in GlRows /\ OnAmount(A)[y] = IF w.tax_account \in A THEN Whole(w.tax_amount) ELSE Zero
      BY <1>2, IdsAre, GlOn
    <2>4. z \in GlRows /\ OnAmount(A)[z] = IF b \in A THEN Whole(-w.gross_amount) ELSE Zero
      <3> HIDE DEF b
      <3> QED BY <1>2, <1>5, <2>1, IdsAre, GlOn
    <2>5. derive_monetary_gl(w) = <<x>> \o t \o <<z>>
      BY <1>5, MonetaryIs
    <2> HIDE DEF b, x, y, z
    <2>6. t \in Seq(GlRows) /\ <<x>> \in Seq(GlRows) /\ <<z>> \in Seq(GlRows)
      BY <2>2, <2>3, <2>4
    <2>7. FracSum(MapF(t, OnAmount(A))) = ft
      BY <1>1, <2>3, SumOne, SumNone
    <2>8. FracSum(MapF(<<x>>, OnAmount(A))) = OnAmount(A)[x]
            /\ FracSum(MapF(<<z>>, OnAmount(A))) = OnAmount(A)[z]
      BY <1>1, <2>2, <2>4, SumOne
    <2> HIDE DEF t, ft
    <2>9. FracSum(MapF(<<x>> \o t, OnAmount(A))) = OnAmount(A)[x] ++ ft /\ <<x>> \o t \in Seq(GlRows)
      BY <1>1, <2>6, <2>7, <2>8, SumConcat, ConcatProperties
    <2>10. FracSum(MapF((<<x>> \o t) \o <<z>>, OnAmount(A))) = (OnAmount(A)[x] ++ ft) ++ OnAmount(A)[z]
      BY <1>1, <2>6, <2>8, <2>9, SumConcat
    <2> QED BY <1>5, <2>2, <2>4, <2>5, <2>10 DEF MonetarySum, ft, b
  <1>6. CASE w.doctype \notin {"SalesInvoice", "PurchaseInvoice", "POSInvoice", "PaymentEntry",
                               "Expense", "CustomerDeposit", "JournalEntry"}
    <2>1. derive_monetary_gl(w) = <<>>
      BY <1>6, MonetaryIs
    <2> QED BY <1>6, <2>1, SumNone DEF MonetarySum
  <1>7. CASE w.doctype \in {"SalesInvoice", "PurchaseInvoice", "POSInvoice", "JournalEntry"}
    BY <1>7
  <1> QED BY <1>3, <1>4, <1>5, <1>6, <1>7

-----------------------------------------------------------------------------
(* The party rows.                                                         *)

KindSum(w, k) == FracSum(MapF(derive_party_rows(w), KindAmount(k)))

\* A stamped party row has its base amount at the rate.
LEMMA StampedParty ==
    ASSUME NEW w, IsSettled(w), NEW k, NEW r \in PlainParty,
           NEW t, t = IF is_base_stamped(w.doctype)
                      THEN [r EXCEPT !.base = r.amount ** RateOf(w)] ELSE r
    PROVE  KindAmount(k)[t] = KindAmount(k)[r] /\ KindBase(k)[t] = KindAmount(k)[r] ** RateOf(w)
  <1> DEFINE c == RateOf(w)
  <1>1. c \in Fractions
    BY RateOfType
  <1>2. r \in PartyRows /\ r.amount \in Fractions /\ r.base = r.amount
    BY PartyRowType DEF PlainParty
  <1>3. r.amount ** c \in Fractions /\ None \notin Fractions
    BY <1>1, <1>2, TimesType, PayloadsAssumption
  <1>4. t \in PartyRows
    BY <1>2, <1>3, PartyRowType
  <1>5. t.kind = r.kind /\ t.amount = r.amount
    BY <1>2 DEF PartyRows
  <1>6. Base(t) = r.amount ** c
    <2>1. CASE is_base_stamped(w.doctype)
      <3>1. t.base = r.amount ** c
        BY <1>2, <2>1 DEF PartyRows
      <3> QED BY <1>3, <3>1 DEF Base, Default
    <2>2. CASE ~is_base_stamped(w.doctype)
      <3>1. c = Whole(1) /\ t = r
        BY <2>2 DEF RateOf
      <3> QED BY <1>2, <3>1, TimesOne DEF Base, Default
    <2> QED BY <2>1, <2>2
  <1> HIDE DEF c
  <1>7. Zero ** c = Zero
    BY <1>1, TimesZero
  <1>8. KindAmount(k)[t] = KindAmount(k)[r]
    BY <1>2, <1>4, <1>5 DEF KindAmount, Amount
  <1>9. KindBase(k)[t] = KindAmount(k)[r] ** c
    BY <1>2, <1>4, <1>5, <1>6, <1>7 DEF KindAmount, KindBase, Amount
  <1> QED BY <1>8, <1>9 DEF c

\* The stamped party rows have their sum at the rate in base.
LEMMA PartySums ==
    ASSUME NEW w, IsSettled(w), NEW k
    PROVE  /\ FracSum(MapF(stamp_base_amounts(w, derive_party_rows(w)), KindAmount(k))) = KindSum(w, k)
           /\ FracSum(MapF(stamp_base_amounts(w, derive_party_rows(w)), KindBase(k))) =
                KindSum(w, k) ** RateOf(w)
           /\ KindSum(w, k) \in Fractions
  <1> DEFINE c == RateOf(w)
             s == derive_party_rows(w)
             t == stamp_base_amounts(w, s)
             m == MapF(s, KindAmount(k))
             n == [i \in DOMAIN m |-> m[i] ** c]
  <1>0. s \in Seq(PlainParty)
    BY PartyType
  <1> HIDE DEF s
  <1>1. DOMAIN t = DOMAIN s
    BY StampIs
  <1>2. ASSUME NEW i \in DOMAIN s
        PROVE  KindAmount(k)[t[i]] = KindAmount(k)[s[i]] /\ KindBase(k)[t[i]] = KindAmount(k)[s[i]] ** c
    <2>1. s[i] \in PlainParty
      BY <1>0
    <2>2. t[i] = IF is_base_stamped(w.doctype)
                 THEN [s[i] EXCEPT !.base = s[i].amount ** RateOf(w)] ELSE s[i]
      BY StampIs
    <2> HIDE DEF t
    <2> QED BY <2>1, <2>2, StampedParty
  <1> HIDE DEF t, c
  <1>3. MapF(t, KindAmount(k)) = m
    BY <1>1, <1>2 DEF MapF
  <1>4. MapF(t, KindBase(k)) = n
    BY <1>1, <1>2 DEF MapF
  <1>5. m \in Seq(Fractions)
    <2>1. s \in Seq(PartyRows)
      BY <1>0, SeqMonotonic DEF PlainParty
    <2> QED BY <2>1, MeasureTypes, MapType
  <1> HIDE DEF m
  <1>6. FracSum(n) = FracSum(m) ** c
    BY <1>5, RateOfType, FracSumTimes DEF c
  <1> QED BY <1>3, <1>4, <1>5, <1>6, FracSumType DEF t, c, m, s, KindSum

\* One party row.
LEMMA OneParty ==
    ASSUME NEW w, NEW k \in Kinds, NEW n \in Int, derive_party_rows(w) = <<PartyRow(k, n)>>, NEW j
    PROVE  KindSum(w, j) = IF j = k THEN Whole(n) ELSE Zero
  <1> DEFINE x == PartyRow(k, n)
  <1>1. x \in PartyRows
    BY PartyRowIs DEF PlainParty
  <1>2. x.kind = k /\ x.amount = Whole(n)
    BY DEF PartyRow
  <1> HIDE DEF x
  <1>3. KindAmount(j)[x] = IF j = k THEN Whole(n) ELSE Zero
    BY <1>1, <1>2 DEF KindAmount, Amount
  <1>4. FracSum(MapF(<<x>>, KindAmount(j))) = KindAmount(j)[x]
    BY <1>1, MeasureTypes, SumOne
  <1> QED BY <1>3, <1>4 DEF KindSum, x

\* No rows, no sum.
LEMMA NoParty ==
    ASSUME NEW w, derive_party_rows(w) = <<>>, NEW j PROVE KindSum(w, j) = Zero
  BY SumNone DEF KindSum

-----------------------------------------------------------------------------
(* The control accounts of a submit.                                       *)

\* What the control accounts and the party rows have to agree on.
Agree(w) ==
    /\ MonetarySum(w, {"receivable"}) = KindSum(w, "Customer")
    /\ MonetarySum(w, {"payable"}) = Negated(KindSum(w, "Supplier"))

\* A free account is no control account.
LEMMA FreeControls ==
    ASSUME NEW a, Free(a) PROVE a \notin {"receivable"} /\ a \notin {"payable"} /\ a \notin {"vat"}
  BY DEF Free, Compared, ControlAccounts

\* A sales invoice agrees with its party rows.
LEMMA SalesAgrees ==
    ASSUME NEW w, IsSettled(w), Apart(w), VatOnly(w), w.doctype = "SalesInvoice", w.customer # None
    PROVE  Agree(w)
  <1> DEFINE t(a) == FracSum(MapF(tax_legs(w, -1), OnAmount({a})))
  <1>1. w.debit_to = "receivable" /\ Free(w.income_account)
    BY DEF Apart
  <1>2. w.grand_total \in Int
    BY DEF IsSettled, Invoices
  <1>3. derive_party_rows(w) = <<PartyRow("Customer", w.grand_total)>>
    BY DEF derive_party_rows
  <1>4. KindSum(w, "Customer") = Whole(w.grand_total) /\ KindSum(w, "Supplier") = Zero
    BY <1>2, <1>3, OneParty DEF Kinds
  <1>5. t("receivable") = Zero /\ t("payable") = Zero
    <2>1. -1 \in Int
      OBVIOUS
    <2> QED BY <2>1, TaxLegsOn
  <1> HIDE DEF t
  <1>6. MonetarySum(w, {"receivable"}) = (Whole(w.grand_total) ++ Zero) ++ t("receivable")
    BY <1>1, FreeControls, InvoiceSums DEF t
  <1>7. MonetarySum(w, {"payable"}) = (Zero ++ Zero) ++ t("payable")
    BY <1>1, FreeControls, InvoiceSums DEF t
  <1> QED BY <1>2, <1>4, <1>5, <1>6, <1>7, ZeroSums, NegatedZero DEF Agree

\* A bill agrees with its party rows.
LEMMA BillAgrees ==
    ASSUME NEW w, IsSettled(w), Apart(w), VatOnly(w), w.doctype = "PurchaseInvoice", w.supplier # None
    PROVE  Agree(w)
  <1> DEFINE t(a) == FracSum(MapF(tax_legs(w, 1), OnAmount({a})))
  <1>1. w.credit_to = "payable" /\ Free(w.expense_account)
    BY DEF Apart
  <1>2. w.grand_total \in Int /\ -w.grand_total \in Int
    BY DEF IsSettled, Invoices
  <1>3. derive_party_rows(w) = <<PartyRow("Supplier", w.grand_total)>>
    BY DEF derive_party_rows
  <1>4. KindSum(w, "Supplier") = Whole(w.grand_total) /\ KindSum(w, "Customer") = Zero
    BY <1>2, <1>3, OneParty DEF Kinds
  <1>5. t("receivable") = Zero /\ t("payable") = Zero
    <2>1. 1 \in Int
      OBVIOUS
    <2> QED BY <2>1, TaxLegsOn
  <1> HIDE DEF t
  <1>6. MonetarySum(w, {"receivable"}) = (Zero ++ Zero) ++ t("receivable")
    BY <1>1, FreeControls, InvoiceSums DEF t
  <1>7. MonetarySum(w, {"payable"}) = (Whole(-w.grand_total) ++ Zero) ++ t("payable")
    BY <1>1, FreeControls, InvoiceSums DEF t
  <1> QED BY <1>2, <1>4, <1>5, <1>6, <1>7, ZeroSums, NegatedZero DEF Agree

\* A till invoice agrees with its party rows.
LEMMA TillAgrees ==
    ASSUME NEW w, IsSettled(w), Apart(w), VatOnly(w), w.doctype = "POSInvoice"
    PROVE  Agree(w)
  <1> DEFINE t(a) == FracSum(MapF(tax_legs(w, -1), OnAmount({a})))
  <1>1. Free(w.cash_account) /\ Free(w.income_account)
    BY DEF Apart
  <1>2. derive_party_rows(w) = <<>>
    BY DEF derive_party_rows
  <1>3. KindSum(w, "Supplier") = Zero /\ KindSum(w, "Customer") = Zero
    BY <1>2, NoParty
  <1>4. t("receivable") = Zero /\ t("payable") = Zero
    <2>1. -1 \in Int
      OBVIOUS
    <2> QED BY <2>1, TaxLegsOn
  <1> HIDE DEF t
  <1>5. MonetarySum(w, {"receivable"}) = (Zero ++ Zero) ++ t("receivable")
    BY <1>1, FreeControls, InvoiceSums DEF t
  <1>6. MonetarySum(w, {"payable"}) = (Zero ++ Zero) ++ t("payable")
    BY <1>1, FreeControls, InvoiceSums DEF t
  <1> QED BY <1>3, <1>4, <1>5, <1>6, ZeroSums, NegatedZero DEF Agree

\* A payment agrees with its party rows.
LEMMA PaymentAgrees ==
    ASSUME NEW w, IsSettled(w), Apart(w), w.doctype = "PaymentEntry", w.party # None
    PROVE  Agree(w)
  <1>1. w.paid_amount \in Int /\ -w.paid_amount \in Int /\ -(-w.paid_amount) = w.paid_amount
    BY DEF IsSettled
  <1>2. CASE w.payment_type = "Receive"
    <2>1. w.paid_from = "receivable" /\ Free(w.paid_to)
      BY <1>2 DEF Apart
    <2>2. derive_party_rows(w) = <<PartyRow("Customer", -w.paid_amount)>>
      BY <1>2 DEF derive_party_rows
    <2>3. KindSum(w, "Customer") = Whole(-w.paid_amount) /\ KindSum(w, "Supplier") = Zero
      BY <1>1, <2>2, OneParty DEF Kinds
    <2>4. /\ MonetarySum(w, {"receivable"}) = Whole(-w.paid_amount) ++ Zero
          /\ MonetarySum(w, {"payable"}) = Zero ++ Zero
      BY <2>1, FreeControls, OtherSums
    <2> QED BY <1>1, <2>3, <2>4, ZeroSums, NegatedZero DEF Agree
  <1>3. CASE w.payment_type = "Pay"
    <2>1. Free(w.paid_from) /\ w.paid_to = "payable"
      BY <1>3 DEF Apart
    <2>2. derive_party_rows(w) = <<PartyRow("Supplier", -w.paid_amount)>>
      BY <1>3 DEF derive_party_rows
    <2>3. KindSum(w, "Supplier") = Whole(-w.paid_amount) /\ KindSum(w, "Customer") = Zero
      BY <1>1, <2>2, OneParty DEF Kinds
    <2>4. /\ MonetarySum(w, {"receivable"}) = Zero ++ Zero
          /\ MonetarySum(w, {"payable"}) = Zero ++ Whole(w.paid_amount)
      BY <2>1, FreeControls, OtherSums
    <2> QED BY <1>1, <2>3, <2>4, ZeroSums, NegatedZero DEF Agree
  <1>4. CASE w.payment_type \notin {"Receive", "Pay"}
    <2>1. Free(w.paid_from) /\ Free(w.paid_to)
      BY <1>4 DEF Apart
    <2>2. derive_party_rows(w) = <<>>
      BY <1>4 DEF derive_party_rows
    <2>3. KindSum(w, "Supplier") = Zero /\ KindSum(w, "Customer") = Zero
      BY <2>2, NoParty
    <2>4. /\ MonetarySum(w, {"receivable"}) = Zero ++ Zero
          /\ MonetarySum(w, {"payable"}) = Zero ++ Zero
      BY <2>1, FreeControls, OtherSums
    <2> QED BY <2>3, <2>4, ZeroSums, NegatedZero DEF Agree
  <1> QED BY <1>2, <1>3, <1>4

\* An expense agrees with its party rows.
LEMMA ExpenseAgrees ==
    ASSUME NEW w, IsSettled(w), Apart(w), w.doctype = "Expense", w.supplier # None
    PROVE  Agree(w)
  <1>1. /\ Free(w.expense_account) /\ Free(w.paid_from) /\ w.credit_to = "payable"
        /\ w.is_paid \in BOOLEAN /\ (w.tax_amount # 0 => w.tax_account = "vat")
    BY DEF Apart
  <1>2. w.gross_amount \in Int /\ -w.gross_amount \in Int
    BY DEF IsSettled
  <1>3. CASE w.is_paid
    <2>1. derive_party_rows(w) = <<>>
      BY <1>3 DEF derive_party_rows
    <2>2. KindSum(w, "Supplier") = Zero /\ KindSum(w, "Customer") = Zero
      BY <2>1, NoParty
    <2>3. /\ MonetarySum(w, {"receivable"}) = (Zero ++ Zero) ++ Zero
          /\ MonetarySum(w, {"payable"}) = (Zero ++ Zero) ++ Zero
      BY <1>1, <1>3, FreeControls, OtherSums
    <2> QED BY <2>2, <2>3, ZeroSums, NegatedZero DEF Agree
  <1>4. CASE ~w.is_paid
    <2>1. derive_party_rows(w) = <<PartyRow("Supplier", w.gross_amount)>>
      BY <1>4 DEF derive_party_rows
    <2>2. KindSum(w, "Supplier") = Whole(w.gross_amount) /\ KindSum(w, "Customer") = Zero
      BY <1>2, <2>1, OneParty DEF Kinds
    <2>3. /\ MonetarySum(w, {"receivable"}) = (Zero ++ Zero) ++ Zero
          /\ MonetarySum(w, {"payable"}) = (Zero ++ Zero) ++ Whole(-w.gross_amount)
      BY <1>1, <1>4, FreeControls, OtherSums
    <2> QED BY <1>2, <2>2, <2>3, ZeroSums, NegatedZero DEF Agree
  <1> QED BY <1>1, <1>3, <1>4

\* A deposit agrees with its party rows.
LEMMA DepositAgrees ==
    ASSUME NEW w, IsSettled(w), Apart(w), w.doctype = "CustomerDeposit" PROVE Agree(w)
  <1>1. Free(w.cash_account) /\ Free(w.deposit_account)
    BY DEF Apart
  <1>2. derive_party_rows(w) = <<>>
    BY DEF derive_party_rows
  <1>3. KindSum(w, "Supplier") = Zero /\ KindSum(w, "Customer") = Zero
    BY <1>2, NoParty
  <1>4. /\ MonetarySum(w, {"receivable"}) = Zero ++ Zero
        /\ MonetarySum(w, {"payable"}) = Zero ++ Zero
    BY <1>1, FreeControls, OtherSums
  <1> QED BY <1>3, <1>4, ZeroSums, NegatedZero DEF Agree

\* The other doctypes touch neither.
LEMMA SilentAgrees ==
    ASSUME NEW w, IsSettled(w),
           w.doctype \notin {"SalesInvoice", "PurchaseInvoice", "POSInvoice", "PaymentEntry",
                             "Expense", "CustomerDeposit", "JournalEntry"}
    PROVE  Agree(w)
  <1>1. derive_party_rows(w) = <<>>
    BY DEF derive_party_rows
  <1>2. KindSum(w, "Supplier") = Zero /\ KindSum(w, "Customer") = Zero
    BY <1>1, NoParty
  <1> QED BY <1>2, OtherSums, NegatedZero DEF Agree

-----------------------------------------------------------------------------
(* The control accounts of a journal.                                      *)

\* The journal rows that name the party of a receivable or a payable.
Attribution ==
    {r \in Entries : /\ r.account = "receivable" <=> r.party_type = "Customer"
                     /\ r.account = "payable" <=> r.party_type = "Supplier"}
Partied == {r \in Attribution : r.party_type \in Kinds => r.party # None}

\* The lines of an attributed journal name the party of their control account.
LEMMA JournalPartied ==
    ASSUME NEW v \in Payloads, NEW w, SameFields(w, v), Attributed(v), v.doctype = "JournalEntry",
           Valid(resolve_account_fallbacks(v))
    PROVE  journal_rows(w) \in Seq(Partied)
  <1> DEFINE u == resolve_account_fallbacks(v)
             j == Keep(v.accounts, Named)
  <1>1. v.accounts \in Seq(Entries) /\ w.accounts = v.accounts
    BY PayloadFields DEF SameFields
  <1>2. v.accounts \in Seq(Attribution)
    <2>1. \A i \in 1..Len(v.accounts) : v.accounts[i] \in Entries /\ v.accounts[i] \in ToSet(v.accounts)
      BY <1>1 DEF ToSet
    <2>2. \A i \in 1..Len(v.accounts) : v.accounts[i] \in Attribution
      BY <2>1 DEF Attributed, Attribution
    <2> QED BY <1>1, <2>2
  <1>3. journal_rows(w) = j
    BY <1>1, JournalRowsAre
  <1>4. u.doctype = "JournalEntry" /\ u.accounts = v.accounts
    BY ResolvedFields DEF SameFields
  <1>5. j \in Seq(Attribution)
    BY <1>2, KeepIn
  <1>6. \A r \in ToSet(Filter(u.accounts, LAMBDA r : r.account # None)) :
            r.party_type \in {"Customer", "Supplier"} => r.party # None
    BY <1>4 DEF Valid, validate_c5_document
  <1>7. Filter(u.accounts, LAMBDA r : r.account # None) = j
    <2>1. \A i \in DOMAIN v.accounts : v.accounts[i] \in Entries
      BY <1>1
    <2> QED BY <1>4, <2>1 DEF Filter, FlatMap, Map, Keep, Named
  <1>8. \A r \in ToSet(j) : r.party_type \in Kinds => r.party # None
    BY <1>6, <1>7 DEF Kinds
  <1> HIDE DEF j
  <1>9. \A i \in 1..Len(j) : j[i] \in Attribution /\ j[i] \in ToSet(j)
    BY <1>5 DEF ToSet
  <1>10. \A i \in 1..Len(j) : j[i] \in Partied
    BY <1>8, <1>9 DEF Partied
  <1> QED BY <1>3, <1>5, <1>10

\* What the party row of a journal row puts on the parties of a kind.
JournalKind(k) ==
    [r \in Entries |-> IF r \in OfParty THEN KindAmount(k)[JournalParty[r]] ELSE Zero]

\* What a journal line puts on a kind of party is a fraction.
LEMMA JournalKindType == ASSUME NEW k PROVE JournalKind(k) \in [Entries -> Fractions]
  <1>1. ASSUME NEW r \in OfParty PROVE KindAmount(k)[JournalParty[r]] \in Fractions
    <2>1. JournalParty[r] \in PartyRows
      BY JournalPartyType DEF PlainParty
    <2> QED BY <2>1, MeasureTypes
  <1> QED BY <1>1, ZeroType DEF JournalKind

\* The legs and the party rows of a journal, line by line.
LEMMA JournalSums ==
    ASSUME NEW w, IsSettled(w), w.doctype = "JournalEntry", NEW j, j = journal_rows(w)
    PROVE  /\ j \in Seq(Entries)
           /\ \A A : MonetarySum(w, A) = FracSum([i \in DOMAIN j |-> OnAmount(A)[JournalLeg[j[i]]]])
           /\ \A k : KindSum(w, k) = FracSum([i \in DOMAIN j |-> JournalKind(k)[j[i]]])
  <1> DEFINE p == Keep(j, OfParty)
  <1>1. j \in Seq(Entries)
    BY JournalRowsAre DEF IsSettled
  <1>2. ASSUME NEW A
        PROVE  MonetarySum(w, A) = FracSum([i \in DOMAIN j |-> OnAmount(A)[JournalLeg[j[i]]]])
    <2>1. derive_monetary_gl(w) = MapF(j, JournalLeg)
      BY MonetaryIs
    <2> QED BY <2>1 DEF MonetarySum, MapF
  <1>3. ASSUME NEW k
        PROVE  KindSum(w, k) = FracSum([i \in DOMAIN j |-> JournalKind(k)[j[i]]])
    <2>1. p \in Seq(OfParty) /\ derive_party_rows(w) = MapF(p, JournalParty)
      BY JournalPartiesAre
    <2>2. FracSum(MapF(p, JournalKind(k))) =
            FracSum([i \in DOMAIN j |-> IF j[i] \in OfParty THEN JournalKind(k)[j[i]] ELSE Zero])
      BY <1>1, JournalKindType, SumKeep
    <2>3. \A i \in DOMAIN j : (IF j[i] \in OfParty THEN JournalKind(k)[j[i]] ELSE Zero) = JournalKind(k)[j[i]]
      BY <1>1 DEF JournalKind
    <2> HIDE DEF p
    <2>4. \A i \in DOMAIN p : p[i] \in OfParty /\ p[i] \in Entries
      BY <2>1 DEF OfParty
    <2>5. \A i \in DOMAIN p : KindAmount(k)[JournalParty[p[i]]] = JournalKind(k)[p[i]]
      BY <2>4 DEF JournalKind
    <2>6. MapF(MapF(p, JournalParty), KindAmount(k)) = MapF(p, JournalKind(k))
      BY <2>5 DEF MapF
    <2>7. [i \in DOMAIN j |-> IF j[i] \in OfParty THEN JournalKind(k)[j[i]] ELSE Zero]
             = [i \in DOMAIN j |-> JournalKind(k)[j[i]]]
      BY <2>3
    <2> QED BY <2>1, <2>2, <2>6, <2>7 DEF KindSum
  <1> QED BY <1>1, <1>2, <1>3

\* A journal line agrees with its party row.
LEMMA JournalRowAgrees ==
    ASSUME NEW r \in Partied
    PROVE  /\ OnAmount({"receivable"})[JournalLeg[r]] = JournalKind("Customer")[r]
           /\ OnAmount({"payable"})[JournalLeg[r]] = Negated(JournalKind("Supplier")[r])
  <1> DEFINE n == r.debit - r.credit
             m == r.credit - r.debit
  <1>1. r \in Entries /\ r.debit \in Int /\ r.credit \in Int /\ r.account \in Accounts
    BY EntryType, NamesAreAccounts DEF Partied, Attribution
  <1>2. n \in Int /\ m \in Int /\ -m = n
    BY <1>1
  <1>3. JournalLeg[r] = Gl("journal", r.account, n)
    BY <1>1 DEF JournalLeg
  <1>4. \A A : OnAmount(A)[JournalLeg[r]] = IF r.account \in A THEN Whole(n) ELSE Zero
    BY <1>1, <1>2, <1>3, GlOn, IdsAre
  <1>5. r \in OfParty <=> r.party_type \in Kinds
    BY <1>1 DEF OfParty, Partied
  <1>6. r \in OfParty => JournalParty[r] = PartyRow(r.party_type, IF r.party_type = "Customer" THEN n ELSE m)
    BY DEF JournalParty
  <1>7. /\ r.account = "receivable" <=> r.party_type = "Customer"
        /\ r.account = "payable" <=> r.party_type = "Supplier"
    BY DEF Partied, Attribution
  <1> HIDE DEF n, m
  <1>8. ASSUME NEW k \in Kinds
        PROVE  JournalKind(k)[r] = IF r.party_type = k THEN (IF k = "Customer" THEN Whole(n) ELSE Whole(m))
                                   ELSE Zero
    <2>1. CASE r.party_type \notin Kinds
      BY <1>1, <1>5, <2>1 DEF JournalKind
    <2>2. CASE r.party_type \in Kinds
      <3> DEFINE q == IF r.party_type = "Customer" THEN n ELSE m
                 x == PartyRow(r.party_type, q)
      <3>1. x \in PartyRows /\ x.kind = r.party_type /\ x.amount = Whole(q)
        BY <1>2, <2>2, PartyRowIs DEF PlainParty, PartyRow
      <3>2. JournalKind(k)[r] = KindAmount(k)[x]
        BY <1>1, <1>5, <1>6, <2>2 DEF JournalKind
      <3> HIDE DEF x
      <3>3. KindAmount(k)[x] = IF r.party_type = k THEN Whole(q) ELSE Zero
        BY <3>1 DEF KindAmount, Amount
      <3> QED BY <3>2, <3>3
    <2> QED BY <2>1, <2>2
  <1>9. OnAmount({"receivable"})[JournalLeg[r]] = JournalKind("Customer")[r]
    BY <1>4, <1>7, <1>8 DEF Kinds
  <1>10. Negated(Whole(m)) = Whole(n) /\ Negated(Zero) = Zero
    BY <1>2, ZeroSums, NegatedZero
  <1>11. OnAmount({"payable"})[JournalLeg[r]] = Negated(JournalKind("Supplier")[r])
    BY <1>4, <1>7, <1>8, <1>10 DEF Kinds
  <1> QED BY <1>9, <1>11

\* A journal agrees with its party rows.
LEMMA JournalAgrees ==
    ASSUME NEW w, IsSettled(w), w.doctype = "JournalEntry", journal_rows(w) \in Seq(Partied)
    PROVE  Agree(w)
  <1> DEFINE j == journal_rows(w)
             s == [i \in DOMAIN j |-> JournalKind("Supplier")[j[i]]]
  <1>1. /\ j \in Seq(Entries)
        /\ \A A : MonetarySum(w, A) = FracSum([i \in DOMAIN j |-> OnAmount(A)[JournalLeg[j[i]]]])
        /\ \A k : KindSum(w, k) = FracSum([i \in DOMAIN j |-> JournalKind(k)[j[i]]])
    BY JournalSums
  <1>2. \A i \in DOMAIN j : j[i] \in Partied
    OBVIOUS
  <1> HIDE DEF j
  <1>3. \A i \in DOMAIN j :
           /\ OnAmount({"receivable"})[JournalLeg[j[i]]] = JournalKind("Customer")[j[i]]
           /\ OnAmount({"payable"})[JournalLeg[j[i]]] = Negated(JournalKind("Supplier")[j[i]])
    BY <1>2, JournalRowAgrees
  <1>4. MonetarySum(w, {"receivable"}) = KindSum(w, "Customer")
    <2>1. [i \in DOMAIN j |-> OnAmount({"receivable"})[JournalLeg[j[i]]]]
             = [i \in DOMAIN j |-> JournalKind("Customer")[j[i]]]
      BY <1>3
    <2>2. KindSum(w, "Customer") = FracSum([i \in DOMAIN j |-> JournalKind("Customer")[j[i]]])
      BY <1>1
    <2> QED BY <1>1, <2>1, <2>2
  <1>5. s \in Seq(Fractions)
    <2>1. s = MapF(j, JournalKind("Supplier"))
      BY DEF MapF
    <2> QED BY <1>1, <2>1, JournalKindType, MapType
  <1>6. MonetarySum(w, {"payable"}) = Negated(KindSum(w, "Supplier"))
    <2>1. [i \in DOMAIN j |-> OnAmount({"payable"})[JournalLeg[j[i]]]]
             = [i \in DOMAIN s |-> Negated(s[i])]
      BY <1>3
    <2>2. KindSum(w, "Supplier") = FracSum(s)
      BY <1>1
    <2> HIDE DEF s
    <2>3. FracSum([i \in DOMAIN s |-> Negated(s[i])]) = Negated(FracSum(s))
      BY <1>5, FracSumNegated
    <2> QED BY <1>1, <2>1, <2>2, <2>3
  <1> QED BY <1>4, <1>6 DEF Agree

-----------------------------------------------------------------------------
(* The control accounts of every voucher.                                  *)

\* What the general ledger and the party rows of a document agree on.
PartiesAgree(g, p) ==
    /\ FracSum(MapF(g, OnAmount({"receivable"}))) = FracSum(MapF(p, KindAmount("Customer")))
    /\ FracSum(MapF(g, OnBase({"receivable"}))) = FracSum(MapF(p, KindBase("Customer")))
    /\ FracSum(MapF(g, OnAmount({"payable"}))) = Negated(FracSum(MapF(p, KindAmount("Supplier"))))
    /\ FracSum(MapF(g, OnBase({"payable"}))) = Negated(FracSum(MapF(p, KindBase("Supplier"))))

PartyInv ==
    \A d \in Docs : SeparateAccounts(Vouchers[d]) /\ Attributed(Vouchers[d]) =>
        PartiesAgree(gl[d], party_transactions[d])

\* The settled document posts its taxes on the VAT account alone.
LEMMA VatFields ==
    ASSUME NEW v \in Payloads, NEW w, SameFields(w, v), SeparateAccounts(v) PROVE VatOnly(w)
  <1>1. v.taxes \in Seq(TaxLines) /\ w.taxes = v.taxes
    BY PayloadFields DEF SameFields
  <1>2. {r.tax_account : r \in ToSet(v.taxes)} \subseteq {None, "vat"}
    BY DEF SeparateAccounts
  <1>3. \A i \in 1..Len(v.taxes) : v.taxes[i] \in TaxLines /\ v.taxes[i] \in ToSet(v.taxes)
    BY <1>1 DEF ToSet
  <1>4. \A i \in 1..Len(v.taxes) : v.taxes[i] \in {r \in TaxLines : r.tax_account \in {None, "vat"}}
    BY <1>2, <1>3
  <1> QED BY <1>1, <1>4 DEF VatOnly

\* Every document agrees with its party rows before it is stamped.
LEMMA VoucherAgrees ==
    ASSUME NEW v \in Payloads, NEW w, w = Settled(v), IsSettled(w), SameFields(w, v),
           SeparateAccounts(v), Attributed(v), Valid(resolve_account_fallbacks(v))
    PROVE  Agree(w)
  <1>1. Apart(w) /\ VatOnly(w)
    BY ApartFields, VatFields
  <1>2. /\ w.doctype = v.doctype /\ w.customer = v.customer /\ w.supplier = v.supplier
        /\ w.party = v.party
    BY DEF SameFields
  <1>3. CASE w.doctype = "SalesInvoice"
    BY <1>1, <1>2, <1>3, SalesAgrees DEF Attributed
  <1>4. CASE w.doctype = "PurchaseInvoice"
    BY <1>1, <1>2, <1>4, BillAgrees DEF Attributed
  <1>5. CASE w.doctype = "POSInvoice"
    BY <1>1, <1>5, TillAgrees
  <1>6. CASE w.doctype = "PaymentEntry"
    BY <1>1, <1>2, <1>6, PaymentAgrees DEF Attributed
  <1>7. CASE w.doctype = "Expense"
    BY <1>1, <1>2, <1>7, ExpenseAgrees DEF Attributed
  <1>8. CASE w.doctype = "CustomerDeposit"
    BY <1>1, <1>8, DepositAgrees
  <1>9. CASE w.doctype = "JournalEntry"
    BY <1>2, <1>9, JournalPartied, JournalAgrees
  <1>10. CASE w.doctype \notin {"SalesInvoice", "PurchaseInvoice", "POSInvoice", "PaymentEntry",
                                "Expense", "CustomerDeposit", "JournalEntry"}
    BY <1>10, SilentAgrees
  <1> QED BY <1>3, <1>4, <1>5, <1>6, <1>7, <1>8, <1>9, <1>10

\* What is posted agrees in both currencies.
LEMMA PostedParties ==
    ASSUME sles \in Seq(Sles), NEW v \in Payloads, NEW w, w = Settled(v), IsSettled(w),
           SameFields(w, v), w.is_return \in BOOLEAN, SeparateAccounts(v), Attributed(v),
           Valid(resolve_account_fallbacks(v))
    PROVE  PartiesAgree(Posting(w), stamp_base_amounts(w, derive_party_rows(w)))
  <1> DEFINE c == RateOf(w)
             p == stamp_base_amounts(w, derive_party_rows(w))
             g == Posting(w)
  <1>1. Apart(w) /\ w.doctype = v.doctype /\ Agree(w)
    BY ApartFields, VoucherAgrees DEF SameFields
  <1>2. c \in Fractions
    BY RateOfType
  <1>3. \A a \in {"receivable", "payable", "vat"} :
           /\ FracSum(MapF(g, OnAmount({a}))) = MonetarySum(w, {a})
           /\ FracSum(MapF(g, OnBase({a}))) = MonetarySum(w, {a}) ** c
    BY <1>1, StockElsewhere
  <1>4. \A k : /\ FracSum(MapF(p, KindAmount(k))) = KindSum(w, k)
               /\ FracSum(MapF(p, KindBase(k))) = KindSum(w, k) ** c
               /\ KindSum(w, k) \in Fractions
    BY PartySums
  <1> HIDE DEF g, p, c
  <1>5. Negated(KindSum(w, "Supplier")) ** c = Negated(KindSum(w, "Supplier") ** c)
    BY <1>2, <1>4, NegatedTimes
  <1>6. /\ FracSum(MapF(g, OnAmount({"receivable"}))) = FracSum(MapF(p, KindAmount("Customer")))
        /\ FracSum(MapF(g, OnBase({"receivable"}))) = FracSum(MapF(p, KindBase("Customer")))
    BY <1>1, <1>3, <1>4 DEF Agree
  <1>7. /\ FracSum(MapF(g, OnAmount({"payable"}))) = Negated(FracSum(MapF(p, KindAmount("Supplier"))))
        /\ FracSum(MapF(g, OnBase({"payable"}))) = Negated(FracSum(MapF(p, KindBase("Supplier"))))
    BY <1>1, <1>3, <1>4, <1>5 DEF Agree
  <1> QED BY <1>6, <1>7 DEF PartiesAgree, g, p

\* What is cancelled agrees, for it is nothing.
LEMMA UndoneParties ==
    ASSUME LedgerTypeOK, NEW d \in Docs
    PROVE  PartiesAgree(gl[d] \o MapF(gl[d], ReverseRows(GlRows)),
                        party_transactions[d] \o MapF(party_transactions[d], ReverseRows(PartyRows)))
  <1> DEFINE p == party_transactions[d] \o MapF(party_transactions[d], ReverseRows(PartyRows))
  <1>1. /\ \A A : /\ FracSum(MapF(gl[d] \o MapF(gl[d], ReverseRows(GlRows)), OnAmount(A))) = Zero
                  /\ FracSum(MapF(gl[d] \o MapF(gl[d], ReverseRows(GlRows)), OnBase(A))) = Zero
        /\ \A k : FracSum(MapF(p, KindBase(k))) = Zero
    BY UndoneRows
  <1>2. ASSUME NEW k PROVE FracSum(MapF(p, KindAmount(k))) = Zero
    <2>1. party_transactions[d] \in Seq(PartyRows) /\ ReverseRows(PartyRows) \in [PartyRows -> PartyRows]
      BY ReverseTypes DEF LedgerTypeOK
    <2>2. KindAmount(k) \in [PartyRows -> Fractions]
      BY MeasureTypes
    <2>3. \A r \in PartyRows : KindAmount(k)[ReverseRows(PartyRows)[r]] = Negated(KindAmount(k)[r])
      BY ReversalMirrors
    <2> QED BY <2>1, <2>2, <2>3, UndoneSum
  <1> QED BY <1>1, <1>2, NegatedZero DEF PartiesAgree

\* PartyInv is inductive.
LEMMA PartyStep == LedgerTypeOK /\ FreshInv /\ PartyInv /\ [Next]_vars => PartyInv'
  <1> SUFFICES ASSUME LedgerTypeOK, FreshInv, PartyInv, [Next]_vars PROVE PartyInv'
    OBVIOUS
  <1>1. sles \in Seq(Sles)
    BY DEF LedgerTypeOK
  <1>2. ASSUME NEW d \in Docs, NEW w, Submits(d, w), IsSettled(w), SameFields(w, Vouchers[d]),
               w.is_return \in BOOLEAN
        PROVE  PartyInv'
    <2>1. /\ gl'[d] = Posting(w)
          /\ party_transactions'[d] = stamp_base_amounts(w, derive_party_rows(w))
      BY <1>2, SubmittedRows
    <2>2. SeparateAccounts(Vouchers[d]) /\ Attributed(Vouchers[d]) =>
             PartiesAgree(gl'[d], party_transactions'[d])
      <3>1. Vouchers[d] \in Payloads
        BY PayloadsAssumption
      <3>2. w = Settled(Vouchers[d]) /\ Valid(resolve_account_fallbacks(Vouchers[d]))
        BY <1>2 DEF Submits
      <3> QED BY <1>1, <1>2, <2>1, <3>1, <3>2, PostedParties
    <2>3. \A e \in Docs : e # d => gl'[e] = gl[e] /\ party_transactions'[e] = party_transactions[e]
      BY <1>2 DEF Submits, LedgerTypeOK
    <2> QED BY <2>2, <2>3 DEF PartyInv
  <1>3. ASSUME NEW d \in Docs, Cancels(d) PROVE PartyInv'
    <2>1. /\ gl'[d] = gl[d] \o MapF(gl[d], ReverseRows(GlRows))
          /\ party_transactions'[d] =
                party_transactions[d] \o MapF(party_transactions[d], ReverseRows(PartyRows))
      BY <1>3 DEF Cancels, LedgerTypeOK
    <2>2. PartiesAgree(gl'[d], party_transactions'[d])
      BY <2>1, UndoneParties
    <2>3. \A e \in Docs : e # d => gl'[e] = gl[e] /\ party_transactions'[e] = party_transactions[e]
      BY <1>3 DEF Cancels, LedgerTypeOK
    <2> QED BY <2>2, <2>3 DEF PartyInv
  <1>4. CASE UNCHANGED <<company, status, gl, party_transactions, tax_transactions, sles, bins>>
    BY <1>4 DEF PartyInv
  <1> QED BY <1>2, <1>3, <1>4, Steps

\* PartyInv holds at the start.
LEMMA PartyInit == Init => PartyInv
  <1>1. PartiesAgree(<<>>, <<>>)
    BY SumNone, NegatedZero DEF PartiesAgree
  <1> QED BY <1>1 DEF Init, PartyInv

\* PartyInv is the half of the property on control accounts.
LEMMA PartyImplies == LedgerTypeOK /\ PartyInv => ControlAccountsAgree
  <1> SUFFICES ASSUME LedgerTypeOK, PartyInv, NEW d \in Docs,
                      SeparateAccounts(Vouchers[d]), Attributed(Vouchers[d])
               PROVE  LET p == party_transactions[d]
                      IN  /\ OnAccounts(gl[d], {"receivable"}, Amount) = OfKind(p, "Customer", Amount)
                          /\ OnAccounts(gl[d], {"receivable"}, Base) = OfKind(p, "Customer", Base)
                          /\ OnAccounts(gl[d], {"payable"}, Amount) = Negated(OfKind(p, "Supplier", Amount))
                          /\ OnAccounts(gl[d], {"payable"}, Base) = Negated(OfKind(p, "Supplier", Base))
    BY DEF ControlAccountsAgree, Written
  <1> DEFINE p == party_transactions[d]
  <1>1. gl[d] \in Seq(GlRows) /\ p \in Seq(PartyRows)
    BY DEF LedgerTypeOK
  <1>2. PartiesAgree(gl[d], p)
    BY DEF PartyInv
  <1>3. \A A : /\ OnAccounts(gl[d], A, Amount) = FracSum(MapF(gl[d], OnAmount(A)))
               /\ OnAccounts(gl[d], A, Base) = FracSum(MapF(gl[d], OnBase(A)))
    BY <1>1, OnAccountsIs
  <1>4. \A k : /\ OfKind(p, k, Amount) = FracSum(MapF(p, KindAmount(k)))
               /\ OfKind(p, k, Base) = FracSum(MapF(p, KindBase(k)))
    BY <1>1, OfKindIs
  <1> QED BY <1>2, <1>3, <1>4 DEF PartiesAgree

-----------------------------------------------------------------------------
(* The VAT account and the tax subledger.                                  *)

TaxSigned == [r \in TaxRows |-> Whole(IF r.party_type = "Supplier" THEN r.tax_amount ELSE -r.tax_amount)]

\* The fields of a tax row.
LEMMA TaxRowType ==
    ASSUME NEW r \in TaxRows
    PROVE  r.tax_amount \in Int /\ r.base_amount \in Int /\ -r.tax_amount \in Int /\ r.party_type \in Kinds
  BY DEF TaxRows

\* The signed tax of a row, and of its mirror image.
LEMMA TaxSignedType ==
    /\ TaxSigned \in [TaxRows -> Fractions]
    /\ \A r \in TaxRows : TaxSigned[ReverseTax[r]] = Negated(TaxSigned[r])
  <1>1. ASSUME NEW r \in TaxRows
        PROVE  Whole(IF r.party_type = "Supplier" THEN r.tax_amount ELSE -r.tax_amount) \in Fractions
    BY TaxRowType, WholeType
  <1>2. ASSUME NEW r \in TaxRows PROVE TaxSigned[ReverseTax[r]] = Negated(TaxSigned[r])
    <2> DEFINE q == ReverseTax[r]
               n == IF r.party_type = "Supplier" THEN r.tax_amount ELSE -r.tax_amount
    <2>1. q \in TaxRows
      BY ReverseTypes
    <2>2. q.party_type = r.party_type /\ q.tax_amount = -r.tax_amount
      BY DEF ReverseTax, TaxRow
    <2>3. n \in Int /\ TaxSigned[r] = Whole(n)
      BY TaxRowType DEF TaxSigned
    <2> HIDE DEF q
    <2>4. TaxSigned[q] = Whole(-n)
      BY <2>1, <2>2, TaxRowType DEF TaxSigned
    <2> HIDE DEF n
    <2> QED BY <2>3, <2>4, ZeroSums DEF q
  <1>3. TaxSigned \in [TaxRows -> Fractions]
    BY <1>1 DEF TaxSigned
  <1> QED BY <1>2, <1>3

\* The tax rows of an invoice, signed, add up to its tax.
LEMMA TaxRowsSum ==
    ASSUME NEW w, IsSettled(w), NEW k \in Kinds
    PROVE  FracSum(MapF(MapF(w.taxes, InvoiceTax(k)), TaxSigned)) =
             Whole(IF k = "Supplier" THEN total_tax(w) ELSE -total_tax(w))
  <1> DEFINE s == w.taxes
             a == [i \in DOMAIN s |-> s[i].tax_amount]
             f == [i \in DOMAIN a |-> Whole(a[i])]
             m == MapF(MapF(s, InvoiceTax(k)), TaxSigned)
  <1>1. a \in Seq(Int) /\ total_tax(w) \in Int
    BY TotalTaxType DEF IsSettled
  <1>2. total_tax(w) = SumFunction(a)
    BY DEF total_tax, Total, Map
  <1>3. FracSum(f) = Whole(total_tax(w))
    BY <1>1, <1>2, WholeSum
  <1>4. f \in Seq(Fractions)
    <2>1. \A i \in DOMAIN a : Whole(a[i]) \in Fractions
      BY <1>1, WholeType
    <2> HIDE DEF a
    <2> QED BY <1>1, <2>1
  <1>5. ASSUME NEW i \in DOMAIN s
        PROVE  m[i] = IF k = "Supplier" THEN f[i] ELSE Negated(f[i])
    <2>1. s[i] \in TaxLines
      BY DEF IsSettled
    <2>2. s[i].tax_amount \in Int /\ s[i].taxable_amount \in Int
      BY <2>1, TaxLineType
    <2> DEFINE q == TaxRow(k, s[i].taxable_amount, s[i].tax_amount)
    <2>3. q \in TaxRows /\ q.party_type = k /\ q.tax_amount = s[i].tax_amount
      BY <2>2 DEF TaxRows, TaxRow
    <2>4. m[i] = TaxSigned[q]
      BY <2>1 DEF MapF, InvoiceTax
    <2> HIDE DEF q
    <2>5. TaxSigned[q] = Whole(IF k = "Supplier" THEN s[i].tax_amount ELSE -s[i].tax_amount)
      BY <2>3 DEF TaxSigned
    <2>6. f[i] = Whole(s[i].tax_amount) /\ Negated(Whole(s[i].tax_amount)) = Whole(-s[i].tax_amount)
      BY <2>2, ZeroSums
    <2> QED BY <2>4, <2>5, <2>6
  <1>6. DOMAIN m = DOMAIN s /\ DOMAIN f = DOMAIN s
    BY DEF MapF
  <1>7. m = [i \in DOMAIN m |-> m[i]]
    BY DEF MapF
  <1>8. Negated(Whole(total_tax(w))) = Whole(-total_tax(w))
    BY <1>1, ZeroSums
  <1> HIDE DEF m, f, s
  <1>9. CASE k = "Supplier"
    <2>1. f = [i \in DOMAIN f |-> f[i]]
      BY <1>4
    <2>2. m = f
      BY <1>5, <1>6, <1>7, <1>9, <2>1
    <2> QED BY <1>3, <1>9, <2>2 DEF m, s
  <1>10. CASE k # "Supplier"
    <2>1. m = [i \in DOMAIN f |-> Negated(f[i])]
      BY <1>5, <1>6, <1>7, <1>10
    <2>2. FracSum([i \in DOMAIN f |-> Negated(f[i])]) = Negated(FracSum(f))
      BY <1>4, FracSumNegated
    <2> QED BY <1>3, <1>8, <1>10, <2>1, <2>2 DEF m, s
  <1> QED BY <1>9, <1>10

\* What balances a posting is what its tax rows say: a row without an account
\* would leave its tax out of the legs.
LEMMA InvoiceTaxAgrees ==
    ASSUME NEW w, IsSettled(w), Apart(w), VatOnly(w), w.doctype \in Invoices,
           MonetarySum(w, Accounts) = Zero
    PROVE  MonetarySum(w, {"vat"}) =
             Whole(IF w.doctype = "PurchaseInvoice" THEN total_tax(w) ELSE -total_tax(w))
  <1> DEFINE g == w.grand_total
             n == total_tax(w)
             t(sign, A) == FracSum(MapF(tax_legs(w, sign), OnAmount(A)))
  <1>1. g \in Int /\ n \in Int
    BY InvoiceSums DEF IsSettled
  <1>2. /\ Whole(g) ++ Whole(-(g - n)) = Whole(n)
        /\ Whole(-g) ++ Whole(g - n) = Whole(-n)
    <2>1. g + (-(g - n)) = n /\ (-g) + (g - n) = -n /\ -(g - n) \in Int /\ -g \in Int /\ g - n \in Int
      BY <1>1
    <2> QED BY <1>1, <2>1, WholePlus
  <1>3. ASSUME NEW sign \in {-1, 1}
        PROVE  t(sign, {"vat"}) = t(sign, Accounts) /\ t(sign, Accounts) \in Fractions
    <2>1. sign \in Int
      OBVIOUS
    <2>2. OnAmount(Accounts) \in [GlRows -> Fractions]
      BY MeasureTypes
    <2> QED BY <2>1, <2>2, TaxLegsOn, SumType2
  <1>4. /\ w.debit_to \in Accounts /\ w.credit_to \in Accounts /\ w.income_account \in Accounts
        /\ w.expense_account \in Accounts /\ w.cash_account \in Accounts
    BY DEF IsSettled
  <1> HIDE DEF g, n, t
  <1>5. ASSUME NEW x \in Int, NEW y \in Fractions, Whole(x) ++ y = Zero PROVE y = Whole(-x)
    BY <1>5, WholeType, NegatedUnique, ZeroSums
  <1>6. \A y \in Fractions : (Zero ++ Zero) ++ y = y
    BY ZeroSums, PlusZero
  <1>7. CASE w.doctype = "SalesInvoice"
    <2>1. MonetarySum(w, Accounts) = (Whole(g) ++ Whole(-(g - n))) ++ t(-1, Accounts)
      BY <1>4, <1>7, InvoiceSums DEF g, n, t
    <2>2. t(-1, Accounts) = Whole(-n)
      BY <1>1, <1>2, <1>3, <1>5, <2>1
    <2>3. w.debit_to \notin {"vat"} /\ w.income_account \notin {"vat"}
      BY <1>7, FreeControls DEF Apart
    <2>4. MonetarySum(w, {"vat"}) = (Zero ++ Zero) ++ t(-1, {"vat"})
      BY <1>7, <2>3, InvoiceSums DEF t
    <2> QED BY <1>3, <1>6, <1>7, <2>2, <2>4 DEF n
  <1>8. CASE w.doctype = "PurchaseInvoice"
    <2>1. MonetarySum(w, Accounts) = (Whole(-g) ++ Whole(g - n)) ++ t(1, Accounts)
      BY <1>4, <1>8, InvoiceSums DEF g, n, t
    <2>2. -n \in Int /\ -(-n) = n
      BY <1>1
    <2>3. t(1, Accounts) = Whole(n)
      BY <1>2, <1>3, <1>5, <2>1, <2>2
    <2>4. w.credit_to \notin {"vat"} /\ w.expense_account \notin {"vat"}
      BY <1>8, FreeControls DEF Apart
    <2>5. MonetarySum(w, {"vat"}) = (Zero ++ Zero) ++ t(1, {"vat"})
      BY <1>8, <2>4, InvoiceSums DEF t
    <2> QED BY <1>3, <1>6, <1>8, <2>3, <2>5 DEF n
  <1>9. CASE w.doctype = "POSInvoice"
    <2>1. MonetarySum(w, Accounts) = (Whole(g) ++ Whole(-(g - n))) ++ t(-1, Accounts)
      BY <1>4, <1>9, InvoiceSums DEF g, n, t
    <2>2. t(-1, Accounts) = Whole(-n)
      BY <1>1, <1>2, <1>3, <1>5, <2>1
    <2>3. w.cash_account \notin {"vat"} /\ w.income_account \notin {"vat"}
      BY <1>9, FreeControls DEF Apart
    <2>4. MonetarySum(w, {"vat"}) = (Zero ++ Zero) ++ t(-1, {"vat"})
      BY <1>9, <2>3, InvoiceSums DEF t
    <2> QED BY <1>3, <1>6, <1>9, <2>2, <2>4 DEF n
  <1> QED BY <1>7, <1>8, <1>9 DEF Invoices

\* What a document puts on the VAT account is the tax of its rows.
LEMMA VoucherTaxAgrees ==
    ASSUME NEW w, IsSettled(w), Apart(w), VatOnly(w), w.doctype # "JournalEntry",
           MonetarySum(w, Accounts) = Zero
    PROVE  MonetarySum(w, {"vat"}) = FracSum(MapF(derive_tax_rows(w), TaxSigned))
  <1>1. CASE w.doctype \in Invoices
    <2> DEFINE k == IF w.doctype = "PurchaseInvoice" THEN "Supplier" ELSE "Customer"
    <2>1. derive_tax_rows(w) = MapF(w.taxes, InvoiceTax(k))
      BY <1>1, TaxRowsAre
    <2>2. k \in Kinds /\ (k = "Supplier" <=> w.doctype = "PurchaseInvoice")
      BY DEF Kinds
    <2> HIDE DEF k
    <2> QED BY <1>1, <2>1, <2>2, TaxRowsSum, InvoiceTaxAgrees
  <1>2. CASE w.doctype = "Expense"
    <2>1. /\ w.expense_account \notin {"vat"} /\ w.paid_from \notin {"vat"} /\ w.credit_to = "payable"
          /\ w.is_paid \in BOOLEAN /\ (w.tax_amount # 0 => w.tax_account = "vat")
      BY <1>2, FreeControls DEF Apart
    <2>2. w.tax_amount \in Int /\ w.net_amount \in Int
      BY DEF IsSettled
    <2>3. (IF w.is_paid THEN w.paid_from ELSE w.credit_to) \notin {"vat"}
      BY <2>1
    <2>4. CASE w.tax_amount = 0
      <3>1. derive_tax_rows(w) = <<>>
        BY <1>2, <2>4, TaxRowsAre DEF Invoices
      <3>2. MonetarySum(w, {"vat"}) = (Zero ++ Zero) ++ Zero
        BY <1>2, <2>1, <2>3, <2>4, OtherSums
      <3> QED BY <3>1, <3>2, SumNone, ZeroSums
    <2>5. CASE w.tax_amount # 0
      <3> DEFINE q == TaxRow("Supplier", w.net_amount, w.tax_amount)
      <3>1. derive_tax_rows(w) = <<q>>
        BY <1>2, <2>5, TaxRowsAre
      <3>2. q \in TaxRows /\ q.party_type = "Supplier" /\ q.tax_amount = w.tax_amount
        BY <2>2 DEF TaxRows, TaxRow, Kinds
      <3> HIDE DEF q
      <3>3. TaxSigned[q] = Whole(w.tax_amount)
        BY <3>2 DEF TaxSigned
      <3>4. FracSum(MapF(<<q>>, TaxSigned)) = TaxSigned[q]
        BY <3>2, TaxSignedType, SumOne
      <3>5. MonetarySum(w, {"vat"}) = (Zero ++ Whole(w.tax_amount)) ++ Zero
        BY <1>2, <2>1, <2>3, <2>5, OtherSums
      <3> QED BY <2>2, <3>1, <3>3, <3>4, <3>5, ZeroSums
    <2> QED BY <2>4, <2>5
  <1>3. CASE w.doctype \notin Invoices \cup {"Expense"}
    <2>1. derive_tax_rows(w) = <<>>
      BY <1>3, TaxRowsAre
    <2>2. MonetarySum(w, {"vat"}) = Zero
      <3>1. CASE w.doctype = "PaymentEntry"
        <4>1. w.paid_from \notin {"vat"} /\ w.paid_to \notin {"vat"}
          <5>1. /\ w.paid_from = "receivable" \/ Free(w.paid_from)
                /\ w.paid_to = "payable" \/ Free(w.paid_to)
            BY <3>1 DEF Apart
          <5> QED BY <5>1, FreeControls
        <4> QED BY <3>1, <4>1, OtherSums, ZeroSums
      <3>2. CASE w.doctype = "CustomerDeposit"
        <4>1. w.cash_account \notin {"vat"} /\ w.deposit_account \notin {"vat"}
          BY <3>2, FreeControls DEF Apart
        <4> QED BY <3>2, <4>1, OtherSums, ZeroSums
      <3>3. CASE w.doctype \notin {"PaymentEntry", "CustomerDeposit"}
        BY <1>3, <3>3, OtherSums DEF Invoices
      <3> QED BY <3>1, <3>2, <3>3
    <2> QED BY <2>1, <2>2, SumNone
  <1> QED BY <1>1, <1>2, <1>3

-----------------------------------------------------------------------------
(* The subledgers agree.                                                   *)

\* What the VAT account and the tax rows of a document agree on.
TaxesAgree(g, t) == FracSum(MapF(g, OnAmount({"vat"}))) = FracSum(MapF(t, TaxSigned))

TaxInv ==
    \A d \in Docs : SeparateAccounts(Vouchers[d]) /\ Vouchers[d].doctype # "JournalEntry" =>
        TaxesAgree(gl[d], tax_transactions[d])

\* TaxInv is inductive.
LEMMA TaxStep == LedgerTypeOK /\ FreshInv /\ TaxInv /\ [Next]_vars => TaxInv'
  <1> SUFFICES ASSUME LedgerTypeOK, FreshInv, TaxInv, [Next]_vars PROVE TaxInv'
    OBVIOUS
  <1>1. sles \in Seq(Sles)
    BY DEF LedgerTypeOK
  <1>2. ASSUME NEW d \in Docs, NEW w, Submits(d, w), IsSettled(w), SameFields(w, Vouchers[d]),
               w.is_return \in BOOLEAN
        PROVE  TaxInv'
    <2>1. gl'[d] = Posting(w) /\ tax_transactions'[d] = derive_tax_rows(w)
      BY <1>2, SubmittedRows
    <2>2. ASSUME SeparateAccounts(Vouchers[d]), Vouchers[d].doctype # "JournalEntry"
          PROVE  TaxesAgree(gl'[d], tax_transactions'[d])
      <3>1. Vouchers[d] \in Payloads
        BY PayloadsAssumption
      <3>2. w = Settled(Vouchers[d]) /\ w.doctype = Vouchers[d].doctype
        BY <1>2 DEF Submits, SameFields
      <3>3. Apart(w) /\ VatOnly(w)
        BY <1>2, <2>2, <3>1, <3>2, ApartFields, VatFields
      <3>4. MonetarySum(w, Accounts) = Zero
        BY <1>1, <1>2, PostingBalances DEF Submits
      <3>5. MonetarySum(w, {"vat"}) = FracSum(MapF(derive_tax_rows(w), TaxSigned))
        BY <1>2, <2>2, <3>2, <3>3, <3>4, VoucherTaxAgrees
      <3>6. FracSum(MapF(Posting(w), OnAmount({"vat"}))) = MonetarySum(w, {"vat"})
        BY <1>1, <1>2, <2>2, <3>2, <3>3, StockElsewhere
      <3> QED BY <2>1, <3>5, <3>6 DEF TaxesAgree
    <2>3. \A e \in Docs : e # d => gl'[e] = gl[e] /\ tax_transactions'[e] = tax_transactions[e]
      BY <1>2 DEF Submits, LedgerTypeOK
    <2> QED BY <2>2, <2>3 DEF TaxInv
  <1>3. ASSUME NEW d \in Docs, Cancels(d) PROVE TaxInv'
    <2> DEFINE t == tax_transactions[d] \o MapF(tax_transactions[d], ReverseTax)
    <2>1. gl'[d] = gl[d] \o MapF(gl[d], ReverseRows(GlRows)) /\ tax_transactions'[d] = t
      BY <1>3 DEF Cancels, LedgerTypeOK
    <2>2. FracSum(MapF(gl'[d], OnAmount({"vat"}))) = Zero
      BY <2>1, UndoneRows
    <2>3. FracSum(MapF(t, TaxSigned)) = Zero
      <3>1. tax_transactions[d] \in Seq(TaxRows) /\ ReverseTax \in [TaxRows -> TaxRows]
        BY ReverseTypes DEF LedgerTypeOK
      <3> QED BY <3>1, TaxSignedType, UndoneSum
    <2>4. \A e \in Docs : e # d => gl'[e] = gl[e] /\ tax_transactions'[e] = tax_transactions[e]
      BY <1>3 DEF Cancels, LedgerTypeOK
    <2> QED BY <2>1, <2>2, <2>3, <2>4 DEF TaxInv, TaxesAgree
  <1>4. CASE UNCHANGED <<company, status, gl, party_transactions, tax_transactions, sles, bins>>
    BY <1>4 DEF TaxInv
  <1> QED BY <1>2, <1>3, <1>4, Steps

\* TaxInv holds at the start.
LEMMA TaxInit == Init => TaxInv
  <1>1. TaxesAgree(<<>>, <<>>)
    BY SumNone DEF TaxesAgree
  <1> QED BY <1>1 DEF Init, TaxInv

\* The signed tax as a total of integers.
LEMMA SignedTotal ==
    ASSUME NEW s \in Seq(TaxRows)
    PROVE  FracSum(MapF(s, TaxSigned)) =
             Whole(Total(s, LAMBDA r : IF r.party_type = "Supplier" THEN r.tax_amount ELSE -r.tax_amount))
  <1> DEFINE a == [i \in DOMAIN s |-> IF s[i].party_type = "Supplier" THEN s[i].tax_amount
                                      ELSE -s[i].tax_amount]
  <1>1. \A i \in DOMAIN s : s[i] \in TaxRows /\ s[i].tax_amount \in Int /\ -s[i].tax_amount \in Int
    BY TaxRowType
  <1>2. a \in Seq(Int)
    BY <1>1
  <1>3. [i \in DOMAIN a |-> Whole(a[i])] = MapF(s, TaxSigned)
    BY <1>1 DEF MapF, TaxSigned
  <1>4. Total(s, LAMBDA r : IF r.party_type = "Supplier" THEN r.tax_amount ELSE -r.tax_amount)
          = SumFunction(a)
    BY DEF Total, Map
  <1> HIDE DEF a
  <1>5. Whole(SumFunction(a)) = FracSum(MapF(s, TaxSigned))
    BY <1>2, <1>3, WholeSum
  <1> QED BY <1>4, <1>5

\* TaxInv is the half of the property on tax.
LEMMA TaxImplies == LedgerTypeOK /\ TaxInv => TaxAgrees
  <1> SUFFICES ASSUME LedgerTypeOK, TaxInv, NEW d \in Docs,
                      SeparateAccounts(Vouchers[d]), Vouchers[d].doctype # "JournalEntry"
               PROVE  OnAccounts(gl[d], {"vat"}, Amount) =
                        Whole(Total(tax_transactions[d],
                                    LAMBDA r : IF r.party_type = "Supplier"
                                               THEN r.tax_amount ELSE -r.tax_amount))
    BY DEF TaxAgrees, Written
  <1>1. gl[d] \in Seq(GlRows) /\ tax_transactions[d] \in Seq(TaxRows)
    BY DEF LedgerTypeOK
  <1>2. TaxesAgree(gl[d], tax_transactions[d])
    BY DEF TaxInv
  <1>3. OnAccounts(gl[d], {"vat"}, Amount) = FracSum(MapF(gl[d], OnAmount({"vat"})))
    BY <1>1, OnAccountsIs
  <1>4. FracSum(MapF(tax_transactions[d], TaxSigned)) =
          Whole(Total(tax_transactions[d],
                      LAMBDA r : IF r.party_type = "Supplier" THEN r.tax_amount ELSE -r.tax_amount))
    BY <1>1, SignedTotal
  <1> QED BY <1>2, <1>3, <1>4 DEF TaxesAgree

\* The inductive invariant behind SubledgersAgree.
SubledgerInv == LedgerTypeOK /\ FreshInv /\ PartyInv /\ TaxInv

\* The receivable and payable accounts agree with the party subledger, in
\* both currencies, and the VAT account with the tax subledger, whatever is
\* submitted and cancelled (derive_monetary_gl, derive_subledger_rows).
THEOREM SubledgersAlwaysAgree == Spec => []SubledgersAgree
  <1>1. Init => SubledgerInv
    BY TypeInit, FreshInit, PartyInit, TaxInit DEF SubledgerInv
  <1>2. SubledgerInv /\ [Next]_vars => SubledgerInv'
    BY TypeStep, FreshStep, PartyStep, TaxStep DEF SubledgerInv
  <1>3. SubledgerInv => SubledgersAgree
    BY PartyImplies, TaxImplies DEF SubledgerInv, SubledgersAgree
  <1> QED BY <1>1, <1>2, <1>3, PTL DEF Spec
=============================================================================
