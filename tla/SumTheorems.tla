---------------------------- MODULE SumTheorems ----------------------------
(***************************************************************************)
(* Facts about sums over finite sets, for the proofs about what settlement *)
(* rows, applications of deposits and opening balances add up to.          *)
(*                                                                         *)
(* SumFunctionOnSet is defined by recursion over the subsets of its set.   *)
(* Induction is by a least counterexample: every set of naturals that is   *)
(* not empty has a least element, so a property of finite sets that fails  *)
(* at all fails for a smallest set.                                        *)
(***************************************************************************)
EXTENDS Integers, FiniteSets, Functions, FiniteSetTheorems, WellFoundedInduction, TLAPS

LEMMA LeastNat ==
    ASSUME NEW T \in SUBSET Nat, T # {}
    PROVE  \E n \in T : \A m \in T : n <= m
  <1> DEFINE R == {ss \in Nat \X Nat : ss[1] < ss[2]}
  <1>1. IsWellFoundedOn(R, Nat)
    BY NatLessThanWellFounded DEF OpToRel
  <1>2. \A x, y \in Nat : y < x => <<y, x>> \in R
    OBVIOUS
  <1> HIDE DEF R
  <1>3. PICK x \in T : \A y \in T : ~ (<<y, x>> \in R)
    BY <1>1, WFMin
  <1>4. ASSUME NEW m \in T PROVE x <= m
    <2>1. ~ (<<m, x>> \in R)
      BY <1>3
    <2>2. m \in Nat /\ x \in Nat
      OBVIOUS
    <2>3. ~ (m < x)
      BY <1>2, <2>1, <2>2, Zenon
    <2> QED BY <2>2, <2>3
  <1> QED BY <1>4

\* Among the finite subsets of S with property P there is a smallest one.
LEMMA Smallest ==
    ASSUME NEW S, IsFiniteSet(S), NEW P \in SUBSET SUBSET S, P # {}
    PROVE  \E u \in P : /\ IsFiniteSet(u)
                        /\ \A x \in u : u \ {x} \notin P
  <1> DEFINE T == {Cardinality(u) : u \in P}
  <1>1. \A u \in P : IsFiniteSet(u) /\ Cardinality(u) \in Nat
    BY FS_Subset, FS_CardinalityType
  <1>2. T \in SUBSET Nat /\ T # {}
    BY <1>1
  <1>3. PICK n \in T : \A m \in T : n <= m
    BY <1>2, LeastNat
  <1>4. PICK u \in P : Cardinality(u) = n
    BY <1>3
  <1>5. ASSUME NEW x \in u, u \ {x} \in P PROVE FALSE
    <2>1. Cardinality(u \ {x}) = Cardinality(u) - 1
      BY <1>1, FS_RemoveElement
    <2>2. Cardinality(u) <= Cardinality(u \ {x})
      BY <1>3, <1>4, <1>5
    <2> QED BY <1>1, <2>1, <2>2
  <1> QED BY <1>1, <1>5

\* The image of a finite set is finite.
LEMMA FiniteImage ==
    ASSUME NEW S, IsFiniteSet(S), NEW f
    PROVE  IsFiniteSet({f[x] : x \in S})
  <1> DEFINE T == {f[x] : x \in S}
             g == [x \in S |-> f[x]]
  <1>1. g \in Surjection(S, T)
    BY DEF Surjection
  <1> QED BY <1>1, FS_Surjection

\* The element a sum takes next.
Next1(s) == CHOOSE x \in s : TRUE

\* g is the function the recursion defines on the subsets of S.
IsSum(g, f, S) ==
    g = [s \in SUBSET S |->
           IF s = {} THEN 0 ELSE f[Next1(s)] + g[s \ {Next1(s)}]]

LEMMA SumsAgree ==
    ASSUME NEW f, NEW S, IsFiniteSet(S), NEW T, NEW g, NEW h, IsSum(g, f, S), IsSum(h, f, T),
           NEW u \in SUBSET S, u \in SUBSET T
    PROVE  g[u] = h[u]
  <1> DEFINE P == {v \in SUBSET S : v \in SUBSET T /\ g[v] # h[v]}
  <1> SUFFICES ASSUME P # {} PROVE FALSE
    OBVIOUS
  <1>1. PICK v \in P : IsFiniteSet(v) /\ \A x \in v : v \ {x} \notin P
    BY Smallest
  <1>2. /\ g[v] = IF v = {} THEN 0 ELSE f[Next1(v)] + g[v \ {Next1(v)}]
        /\ h[v] = IF v = {} THEN 0 ELSE f[Next1(v)] + h[v \ {Next1(v)}]
    BY DEF IsSum
  <1>3. v # {} => Next1(v) \in v
    BY DEF Next1
  <1>4. v # {} => g[v \ {Next1(v)}] = h[v \ {Next1(v)}]
    BY <1>1, <1>3
  <1> QED BY <1>2, <1>4

LEMMA SumExists ==
    ASSUME NEW f, NEW S, IsFiniteSet(S)
    PROVE  \E g : IsSum(g, f, S)
  <1> DEFINE P == {u \in SUBSET S : ~ \E g : IsSum(g, f, u)}
             G(u) == CHOOSE g : IsSum(g, f, u)
  <1> SUFFICES ASSUME P # {} PROVE FALSE
    OBVIOUS
  <1>1. PICK v \in P : IsFiniteSet(v) /\ \A x \in v : v \ {x} \notin P
    BY Smallest
  <1>2. \A x \in v : \E g : IsSum(g, f, v \ {x})
    BY <1>1
  <1>3. \A u \in SUBSET v : u # v => \E g : IsSum(g, f, u)
    <2> SUFFICES ASSUME NEW u \in SUBSET v, u # v PROVE \E g : IsSum(g, f, u)
      OBVIOUS
    <2>1. PICK x \in v : x \notin u
      OBVIOUS
    <2>2. PICK g : IsSum(g, f, v \ {x})
      BY <1>2
    <2> DEFINE h == [s \in SUBSET u |-> g[s]]
    <2>3. \A s \in SUBSET u : s \in SUBSET (v \ {x}) /\ s \ {Next1(s)} \in SUBSET u
      BY <2>1
    <2>4. \A s \in SUBSET u : g[s] = IF s = {} THEN 0 ELSE f[Next1(s)] + g[s \ {Next1(s)}]
      BY <2>2, <2>3 DEF IsSum
    <2>5. IsSum(h, f, u)
      BY <2>3, <2>4 DEF IsSum
    <2> QED BY <2>5
  <1>4. \A u \in SUBSET v : u # v => IsSum(G(u), f, u)
    BY <1>3
  <1> DEFINE h == [u \in SUBSET v |-> IF u # v THEN G(u)[u]
                                      ELSE IF v = {} THEN 0
                                      ELSE f[Next1(v)] + G(v \ {Next1(v)})[v \ {Next1(v)}]]
  <1> HIDE DEF G
  <1>5. ASSUME NEW u \in SUBSET v
        PROVE  h[u] = IF u = {} THEN 0 ELSE f[Next1(u)] + h[u \ {Next1(u)}]
    <2> DEFINE w == u \ {Next1(u)}
    <2>1. u # {} => w \in SUBSET v /\ w \in SUBSET u /\ w # v /\ w # u
      BY DEF Next1
    <2>2. CASE u = v
      BY <2>1, <2>2
    <2>3. CASE u # v
      <3>1. G(u)[u] = IF u = {} THEN 0 ELSE f[Next1(u)] + G(u)[w]
        BY <1>4, <2>3 DEF IsSum
      <3>2. ASSUME u # {} PROVE G(u)[w] = G(w)[w]
        <4>1. IsSum(G(u), f, u) /\ IsSum(G(w), f, w) /\ IsFiniteSet(u)
          BY <1>1, <1>4, <2>1, <2>3, <3>2, FS_Subset
        <4> QED BY <2>1, <3>2, <4>1, SumsAgree
      <3> QED BY <2>1, <2>3, <3>1, <3>2
    <2> QED BY <2>2, <2>3
  <1>6. IsSum(h, f, v)
    BY <1>5 DEF IsSum
  <1> QED BY <1>1, <1>6

\* A sum over a finite set is what its recursion defines.
LEMMA SumUnfold ==
    ASSUME NEW f, NEW S,
           \E g : g = [s \in SUBSET S |->
                         IF s = {} THEN 0
                         ELSE LET x == CHOOSE x \in s : TRUE IN f[x] + g[s \ {x}]]
    PROVE  \E g : /\ g = [s \in SUBSET S |->
                            IF s = {} THEN 0
                            ELSE LET x == CHOOSE x \in s : TRUE IN f[x] + g[s \ {x}]]
                  /\ SumFunctionOnSet(f, S) = g[S]
  BY DEF SumFunctionOnSet, FoldFunctionOnSet, MapThenFoldSet

LEMMA SumIs ==
    ASSUME NEW f, NEW S, IsFiniteSet(S)
    PROVE  \E g : IsSum(g, f, S) /\ SumFunctionOnSet(f, S) = g[S]
  <1>1. \E g : IsSum(g, f, S)
    BY SumExists
  <1>2. \E g : g = [s \in SUBSET S |->
                         IF s = {} THEN 0
                         ELSE LET x == CHOOSE x \in s : TRUE IN f[x] + g[s \ {x}]]
    BY <1>1 DEF IsSum, Next1
  <1>3. PICK g : /\ g = [s \in SUBSET S |->
                            IF s = {} THEN 0
                            ELSE LET x == CHOOSE x \in s : TRUE IN f[x] + g[s \ {x}]]
                 /\ SumFunctionOnSet(f, S) = g[S]
    BY <1>2, SumUnfold
  <1>4. IsSum(g, f, S)
    BY <1>3 DEF IsSum, Next1
  <1> QED BY <1>3, <1>4

LEMMA SumEquation ==
    ASSUME NEW f, NEW S, IsFiniteSet(S)
    PROVE  SumFunctionOnSet(f, S) =
              IF S = {} THEN 0
              ELSE f[Next1(S)] + SumFunctionOnSet(f, S \ {Next1(S)})
  <1>1. PICK g : IsSum(g, f, S) /\ SumFunctionOnSet(f, S) = g[S]
    BY SumIs
  <1>2. g[S] = IF S = {} THEN 0 ELSE f[Next1(S)] + g[S \ {Next1(S)}]
    BY <1>1 DEF IsSum
  <1>3. CASE S # {}
    <2> DEFINE T == S \ {Next1(S)}
    <2>1. IsFiniteSet(T) /\ T \in SUBSET S
      BY FS_Subset
    <2>2. PICK h : IsSum(h, f, T) /\ SumFunctionOnSet(f, T) = h[T]
      BY <2>1, SumIs
    <2>3. g[T] = h[T]
      BY <1>1, <2>1, <2>2, SumsAgree
    <2> QED BY <1>1, <1>2, <1>3, <2>2, <2>3
  <1> QED BY <1>1, <1>2, <1>3

LEMMA SumType ==
    ASSUME NEW f, NEW S, IsFiniteSet(S), \A x \in S : f[x] \in Int
    PROVE  SumFunctionOnSet(f, S) \in Int
  <1> DEFINE P == {u \in SUBSET S : SumFunctionOnSet(f, u) \notin Int}
  <1> SUFFICES ASSUME P # {} PROVE FALSE
    OBVIOUS
  <1>1. PICK v \in P : IsFiniteSet(v) /\ \A x \in v : v \ {x} \notin P
    BY Smallest
  <1>2. SumFunctionOnSet(f, v) =
              IF v = {} THEN 0 ELSE f[Next1(v)] + SumFunctionOnSet(f, v \ {Next1(v)})
    BY <1>1, SumEquation
  <1>3. v # {} => Next1(v) \in v
    BY DEF Next1
  <1>4. v # {} => SumFunctionOnSet(f, v \ {Next1(v)}) \in Int /\ f[Next1(v)] \in Int
    BY <1>1, <1>3
  <1> QED BY <1>2, <1>4

\* A sum depends on the values summed only.
LEMMA SumSame ==
    ASSUME NEW f, NEW g, NEW S, IsFiniteSet(S), \A x \in S : f[x] = g[x]
    PROVE  SumFunctionOnSet(f, S) = SumFunctionOnSet(g, S)
  <1> DEFINE P == {u \in SUBSET S : SumFunctionOnSet(f, u) # SumFunctionOnSet(g, u)}
  <1> SUFFICES ASSUME P # {} PROVE FALSE
    OBVIOUS
  <1>1. PICK v \in P : IsFiniteSet(v) /\ \A x \in v : v \ {x} \notin P
    BY Smallest
  <1>2. /\ SumFunctionOnSet(f, v) =
              IF v = {} THEN 0 ELSE f[Next1(v)] + SumFunctionOnSet(f, v \ {Next1(v)})
        /\ SumFunctionOnSet(g, v) =
              IF v = {} THEN 0 ELSE g[Next1(v)] + SumFunctionOnSet(g, v \ {Next1(v)})
    BY <1>1, SumEquation
  <1>3. v # {} => Next1(v) \in v
    BY DEF Next1
  <1>4. v # {} => /\ SumFunctionOnSet(f, v \ {Next1(v)}) = SumFunctionOnSet(g, v \ {Next1(v)})
                  /\ f[Next1(v)] = g[Next1(v)]
    BY <1>1, <1>3
  <1> QED BY <1>2, <1>4

LEMMA SumTake ==
    ASSUME NEW f, NEW S, IsFiniteSet(S), \A x \in S : f[x] \in Int, NEW e \in S
    PROVE  SumFunctionOnSet(f, S) = f[e] + SumFunctionOnSet(f, S \ {e})
  <1> DEFINE P == {u \in SUBSET S : \E x \in u :
                      SumFunctionOnSet(f, u) # f[x] + SumFunctionOnSet(f, u \ {x})}
  <1> SUFFICES ASSUME P # {} PROVE FALSE
    OBVIOUS
  <1>1. PICK v \in P : IsFiniteSet(v) /\ \A x \in v : v \ {x} \notin P
    BY Smallest
  <1>2. PICK x \in v : SumFunctionOnSet(f, v) # f[x] + SumFunctionOnSet(f, v \ {x})
    OBVIOUS
  <1> DEFINE c == Next1(v)
  <1>3. c \in v /\ SumFunctionOnSet(f, v) = f[c] + SumFunctionOnSet(f, v \ {c})
    BY <1>1, SumEquation DEF Next1
  <1> HIDE DEF c
  <1>4. c # x
    BY <1>2, <1>3
  <1>5. SumFunctionOnSet(f, v \ {c}) = f[x] + SumFunctionOnSet(f, (v \ {c}) \ {x})
    BY <1>1, <1>3, <1>4
  <1>6. SumFunctionOnSet(f, v \ {x}) = f[c] + SumFunctionOnSet(f, (v \ {x}) \ {c})
    BY <1>1, <1>3, <1>4
  <1>7. (v \ {c}) \ {x} = (v \ {x}) \ {c}
    OBVIOUS
  <1>8. IsFiniteSet((v \ {c}) \ {x}) /\ \A y \in (v \ {c}) \ {x} : f[y] \in Int
    BY <1>1, FS_Subset
  <1>9. SumFunctionOnSet(f, (v \ {c}) \ {x}) \in Int
    BY <1>8, SumType
  <1>10. f[c] \in Int /\ f[x] \in Int
    BY <1>3
  <1> QED BY <1>2, <1>3, <1>5, <1>6, <1>7, <1>9, <1>10

LEMMA SumEmpty == \A f : SumFunctionOnSet(f, {}) = 0
  BY SumEquation, FS_EmptySet

\* The sum over two sets that share nothing.
LEMMA SumUnion ==
    ASSUME NEW f, NEW S, NEW T, IsFiniteSet(S), IsFiniteSet(T), S \cap T = {},
           \A x \in S \cup T : f[x] \in Int
    PROVE  SumFunctionOnSet(f, S \cup T) = SumFunctionOnSet(f, S) + SumFunctionOnSet(f, T)
  <1> DEFINE P == {u \in SUBSET T :
                      SumFunctionOnSet(f, S \cup u) # SumFunctionOnSet(f, S) + SumFunctionOnSet(f, u)}
  <1> SUFFICES ASSUME P # {} PROVE FALSE
    OBVIOUS
  <1>1. PICK v \in P : IsFiniteSet(v) /\ \A x \in v : v \ {x} \notin P
    BY Smallest
  <1>2. SumFunctionOnSet(f, S) \in Int
    BY SumType
  <1>3. CASE v = {}
    BY <1>2, <1>3, SumEmpty
  <1>4. ASSUME NEW e \in v PROVE FALSE
    <2>1. SumFunctionOnSet(f, v) = f[e] + SumFunctionOnSet(f, v \ {e})
      BY <1>1, SumTake
    <2>2. IsFiniteSet(S \cup v) /\ (S \cup v) \ {e} = S \cup (v \ {e})
      BY <1>1, FS_Union
    <2>3. SumFunctionOnSet(f, S \cup v) = f[e] + SumFunctionOnSet(f, S \cup (v \ {e}))
      BY <2>2, SumTake
    <2>4. SumFunctionOnSet(f, S \cup (v \ {e})) = SumFunctionOnSet(f, S) + SumFunctionOnSet(f, v \ {e})
      BY <1>1
    <2>5. IsFiniteSet(v \ {e}) /\ \A y \in v \ {e} : f[y] \in Int
      BY <1>1, FS_Subset
    <2>6. SumFunctionOnSet(f, v \ {e}) \in Int /\ f[e] \in Int
      BY <2>5, SumType
    <2> QED BY <1>2, <2>1, <2>3, <2>4, <2>6
  <1> QED BY <1>3, <1>4

\* A sum of zeros.
LEMMA SumZero ==
    ASSUME NEW f, NEW S, IsFiniteSet(S), \A x \in S : f[x] = 0
    PROVE  SumFunctionOnSet(f, S) = 0
  <1> DEFINE P == {u \in SUBSET S : SumFunctionOnSet(f, u) # 0}
  <1> SUFFICES ASSUME P # {} PROVE FALSE
    OBVIOUS
  <1>1. PICK v \in P : IsFiniteSet(v) /\ \A x \in v : v \ {x} \notin P
    BY Smallest
  <1>2. SumFunctionOnSet(f, v) =
              IF v = {} THEN 0 ELSE f[Next1(v)] + SumFunctionOnSet(f, v \ {Next1(v)})
    BY <1>1, SumEquation
  <1>3. v # {} => Next1(v) \in v
    BY DEF Next1
  <1>4. v # {} => SumFunctionOnSet(f, v \ {Next1(v)}) = 0 /\ f[Next1(v)] = 0
    BY <1>1, <1>3
  <1> QED BY <1>2, <1>4

\* A sum with one term that counts.
LEMMA SumSingle ==
    ASSUME NEW f, NEW S, IsFiniteSet(S), NEW e \in S, f[e] \in Int,
           \A x \in S \ {e} : f[x] = 0
    PROVE  SumFunctionOnSet(f, S) = f[e]
  <1>1. \A x \in S : f[x] \in Int
    OBVIOUS
  <1>2. SumFunctionOnSet(f, S) = f[e] + SumFunctionOnSet(f, S \ {e})
    BY <1>1, SumTake
  <1>3. SumFunctionOnSet(f, S \ {e}) = 0
    BY SumZero, FS_Subset
  <1> QED BY <1>2, <1>3

\* g has, for each key in S, the sum of the terms f of I with that key, and h
\* the terms whose key is in S; q has the terms by key.
ByKey(I, S, f, k, q, g, h) ==
    /\ \A i \in I : f[i] \in Int
    /\ \A a \in S : g[a] = SumFunctionOnSet(q[a], I)
    /\ \A a \in S : \A i \in I : q[a][i] = IF k[i] = a THEN f[i] ELSE 0
    /\ \A i \in I : h[i] = IF k[i] \in S THEN f[i] ELSE 0

\* Terms collected under their keys add up to what they add up to without.
LEMMA SumByKey ==
    ASSUME NEW I, IsFiniteSet(I), NEW S, IsFiniteSet(S), NEW f, NEW k, NEW q, NEW g, NEW h,
           ByKey(I, S, f, k, q, g, h)
    PROVE  SumFunctionOnSet(g, S) = SumFunctionOnSet(h, I)
  <1> USE DEF ByKey
  <1> DEFINE at(a) == [i \in I |-> IF k[i] = a THEN f[i] ELSE 0]
             part(u) == [a \in S |-> SumFunctionOnSet(at(a), u)]
             all == [i \in I |-> IF k[i] \in S THEN f[i] ELSE 0]
  <1>1. SumFunctionOnSet(part(I), S) = SumFunctionOnSet(all, I)
    <2> DEFINE P == {u \in SUBSET I : SumFunctionOnSet(part(u), S) # SumFunctionOnSet(all, u)}
    <2> SUFFICES ASSUME P # {} PROVE FALSE
      OBVIOUS
    <2>1. PICK u \in P : IsFiniteSet(u) /\ \A x \in u : u \ {x} \notin P
      BY Smallest
    <2>2. u \in SUBSET I /\ SumFunctionOnSet(part(u), S) # SumFunctionOnSet(all, u)
      OBVIOUS
    <2>3. /\ \A a, i \in I : at(a)[i] = IF k[i] = a THEN f[i] ELSE 0
          /\ \A i \in I : all[i] = IF k[i] \in S THEN f[i] ELSE 0
      OBVIOUS
    <2>4. \A x \in u : SumFunctionOnSet(part(u \ {x}), S) = SumFunctionOnSet(all, u \ {x})
      BY <2>1
    <2>5. \A w : \A a \in S : part(w)[a] = SumFunctionOnSet(at(a), w)
      OBVIOUS
    <2>6. \A a : \A i \in I : at(a)[i] = IF k[i] = a THEN f[i] ELSE 0
      OBVIOUS
    <2>7. \A a : \A i \in I : at(a)[i] \in Int /\ all[i] \in Int
      BY <2>3, <2>6
    <2> HIDE DEF at, part, all, P
    <2>8. CASE u = {}
      <3>1. \A a \in S : part(u)[a] = 0
        BY <2>5, <2>8, SumEmpty
      <3> QED BY <2>2, <2>8, <3>1, SumEmpty, SumZero
    <2>9. ASSUME NEW e \in u PROVE FALSE
      <3> DEFINE w == u \ {e}
      <3>1. e \in I /\ IsFiniteSet(w) /\ w \in SUBSET I
        BY <2>1, <2>2, FS_Subset
      <3>2. \A a : SumFunctionOnSet(at(a), u) = at(a)[e] + SumFunctionOnSet(at(a), w)
        BY <2>1, <2>2, <2>7, SumTake
      <3>3. SumFunctionOnSet(all, u) = all[e] + SumFunctionOnSet(all, w)
        BY <2>1, <2>2, <2>7, SumTake
      <3>4. \A a : SumFunctionOnSet(at(a), w) \in Int
        BY <2>7, <3>1, SumType
      <3>5. SumFunctionOnSet(all, w) \in Int
        BY <2>7, <3>1, SumType
      <3>6. SumFunctionOnSet(part(w), S) = SumFunctionOnSet(all, w)
        BY <2>4
      <3> HIDE DEF w
      <3>7. \A a \in S : k[e] # a => part(u)[a] = part(w)[a]
        BY <2>5, <2>6, <3>1, <3>2, <3>4
      <3>8. CASE k[e] \notin S
        <4>1. SumFunctionOnSet(part(u), S) = SumFunctionOnSet(part(w), S)
          BY <3>7, <3>8, SumSame
        <4>2. all[e] = 0
          BY <2>3, <3>1, <3>8
        <4> QED BY <2>2, <3>3, <3>5, <3>6, <4>1, <4>2
      <3>9. CASE k[e] \in S
        <4> DEFINE b == k[e]
        <4>1. part(u)[b] = f[e] + part(w)[b]
          BY <2>5, <2>6, <3>1, <3>2, <3>9
        <4>2. \A a \in S : part(w)[a] \in Int /\ part(u)[a] \in Int
          BY <2>5, <2>7, <3>1, <3>2, <3>4
        <4>3. /\ SumFunctionOnSet(part(u), S) = part(u)[b] + SumFunctionOnSet(part(u), S \ {b})
              /\ SumFunctionOnSet(part(w), S) = part(w)[b] + SumFunctionOnSet(part(w), S \ {b})
          BY <3>9, <4>2, SumTake
        <4>4. IsFiniteSet(S \ {b})
          BY FS_Subset
        <4>5. SumFunctionOnSet(part(u), S \ {b}) = SumFunctionOnSet(part(w), S \ {b})
          BY <3>7, <4>4, SumSame
        <4>6. SumFunctionOnSet(part(w), S \ {b}) \in Int
          BY <4>2, <4>4, SumType
        <4>7. all[e] = f[e] /\ f[e] \in Int /\ part(w)[b] \in Int
          BY <2>3, <3>1, <3>9, <4>2
        <4> QED BY <2>2, <3>3, <3>5, <3>6, <4>1, <4>3, <4>5, <4>6, <4>7
      <3> QED BY <3>8, <3>9
    <2> QED BY <2>8, <2>9
  <1>2. \A a \in S : \A i \in I : q[a][i] = at(a)[i]
    OBVIOUS
  <1>3. \A i \in I : h[i] = all[i]
    OBVIOUS
  <1>4. \A a \in S : part(I)[a] = SumFunctionOnSet(at(a), I)
    OBVIOUS
  <1> HIDE DEF at, part, all
  <1>5. \A a \in S : g[a] = part(I)[a]
    <2> SUFFICES ASSUME NEW a \in S PROVE SumFunctionOnSet(q[a], I) = SumFunctionOnSet(at(a), I)
      BY <1>4
    <2>1. \A i \in I : q[a][i] = at(a)[i]
      BY <1>2
    <2> QED BY <2>1, SumSame
  <1>6. SumFunctionOnSet(g, S) = SumFunctionOnSet(part(I), S)
    BY <1>5, SumSame
  <1>7. SumFunctionOnSet(h, I) = SumFunctionOnSet(all, I)
    BY <1>3, SumSame
  <1> QED BY <1>1, <1>6, <1>7
=============================================================================
