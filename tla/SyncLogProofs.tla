---------------------------- MODULE SyncLogProofs ----------------------------
(***************************************************************************)
(* Proofs about the replication log.  Every row that carries a chain value *)
(* carries that of its whole prefix (ChainCorrect), a device that the      *)
(* checkpoint comparison lets through holds exactly the server's history   *)
(* (BookCorrect), and a lost number stays retired (RetiredCorrect), for    *)
(* any number of documents, devices, pushes and restores.                  *)
(***************************************************************************)
EXTENDS SyncLog, SequenceTheorems, WellFoundedInduction, TLAPS

-----------------------------------------------------------------------------
(* Maxima of bounded sets of naturals.                                     *)

\* The naturals are well founded, with the order as a relation on pairs.
LEMMA LessThanRelation ==
    \E R : IsWellFoundedOn(R, Nat) /\ \A x, y \in Nat : <<x, y>> \in R <=> x < y
  <1>1. IsWellFoundedOn(OpToRel(<, Nat), Nat)
    BY NatLessThanWellFounded, Zenon
  <1>2. \A x, y \in Nat : <<x, y>> \in OpToRel(<, Nat) <=> x < y
    BY Zenon DEF OpToRel
  <1> QED BY <1>1, <1>2, Zenon

\* A nonempty set of naturals has a least element.
LEMMA LeastExists ==
    ASSUME NEW T \in SUBSET Nat, T # {}
    PROVE  \E x \in T : \A y \in T : x <= y
  <1>1. PICK R : IsWellFoundedOn(R, Nat) /\ \A x, y \in Nat : <<x, y>> \in R <=> x < y
    BY LessThanRelation, Zenon
  <1>2. IsWellFoundedOn(R, Nat) /\ T \subseteq Nat
    BY <1>1, Zenon
  <1>3. PICK t \in T : \A y \in T : ~(<<y, t>> \in R)
    BY <1>2, WFMin, Zenon
  <1>4. \A y \in T : ~(y < t)
    BY <1>1, <1>3, Zenon
  <1> QED BY <1>4

\* A nonempty set of naturals with an upper bound has a greatest element.
LEMMA GreatestExists ==
    ASSUME NEW n \in Nat, NEW S \in SUBSET (0..n), S # {}
    PROVE  \E m \in S : \A x \in S : x <= m
  <1> DEFINE T == {k \in 0..n : n - k \in S}
  <1>1. T \subseteq Nat
    OBVIOUS
  <1>2. T # {}
    <2>1. PICK s \in S : TRUE
      OBVIOUS
    <2>2. n - s \in T
      BY <2>1
    <2> QED BY <2>2
  <1> HIDE DEF T
  <1>3. PICK t \in T : \A y \in T : t <= y
    BY <1>1, <1>2, LeastExists
  <1> USE DEF T
  <1>4. \A x \in S : x <= n - t
    <2>1. ASSUME NEW x \in S PROVE x <= n - t
      <3>1. n - x \in T
        OBVIOUS
      <3> QED BY <1>3, <3>1
    <2> QED BY <2>1
  <1> QED BY <1>4

\* Max picks that element.
LEMMA MaxIsGreatest ==
    ASSUME NEW n \in Nat, NEW S \in SUBSET (0..n), S # {}
    PROVE  Max(S) \in S /\ \A x \in S : x <= Max(S)
  <1>1. PICK m \in S : \A x \in S : m >= x
    BY GreatestExists
  <1> QED BY <1>1 DEF Max

-----------------------------------------------------------------------------
(* The chain.                                                              *)

\* With an exact chain, linking from the newest linked row gives every row
\* the value of its prefix.
LEMMA Linking ==
    ASSUME log \in Seq(Mutation), DOMAIN hash = DOMAIN log, ChainExact
    PROVE  /\ LastLinked \in 0..Len(log)
           /\ \A v \in DOMAIN log : LinkedAt(v) = Prefix(log, v)
           /\ chain_tip = Prefix(log, Len(log))
  <1> DEFINE S == {0} \cup {v \in DOMAIN log : hash[v] # NoHash}
             k == LastLinked
  <1>1. DOMAIN log = 1..Len(log) /\ Len(log) \in Nat
    OBVIOUS
  <1>2. S \in SUBSET (0..Len(log)) /\ S # {}
    BY <1>1
  <1>3. k \in S /\ \A x \in S : x <= k
    BY <1>1, <1>2, MaxIsGreatest DEF LastLinked
  <1>4. k \in 0..Len(log)
    BY <1>2, <1>3
  <1>5. k # 0 => hash[k] # NoHash /\ k \in DOMAIN log
    BY <1>3
  <1>6. \A v \in DOMAIN log : v <= k => hash[v] = Prefix(log, v)
    BY <1>1, <1>4, <1>5 DEF ChainExact, Exact
  <1>7. Anchor = Prefix(log, k)
    <2>1. CASE k = 0
      BY <2>1 DEF Anchor, GENESIS, Prefix
    <2>2. CASE k # 0
      BY <2>2, <1>5, <1>6, <1>4 DEF Anchor
    <2> QED BY <2>1, <2>2
  <1>8. ASSUME NEW v \in k..Len(log)
        PROVE  Link(Anchor, log, k, v) = Prefix(log, v)
    <2>1. DOMAIN Anchor \cup (k + 1)..v = 1..v
      BY <1>4, <1>7 DEF Prefix
    <2>2. \A u \in 1..v : (IF u > k THEN log[u] ELSE Anchor[u]) = log[u]
      BY <1>4, <1>7 DEF Prefix
    <2> QED BY <2>1, <2>2 DEF Link, Prefix
  <1>9. \A v \in DOMAIN log : LinkedAt(v) = Prefix(log, v)
    BY <1>1, <1>4, <1>6, <1>8 DEF LinkedAt
  <1>10. chain_tip = Prefix(log, Len(log))
    BY <1>1, <1>4, <1>8 DEF chain_tip
  <1> QED BY <1>4, <1>9, <1>10

\* A prefix of a log is a sequence of mutations, so no null.
LEMMA PrefixIsValue ==
    ASSUME NEW rows \in Seq(Mutation), NEW v \in 0..Len(rows)
    PROVE  Prefix(rows, v) \in Seq(Mutation) /\ Prefix(rows, v) # NoHash
  <1>1. \A u \in 1..v : rows[u] \in Mutation
    BY ElementOfSeq
  <1>2. Prefix(rows, v) \in Seq(Mutation)
    BY <1>1, IsASeq DEF Prefix
  <1> QED BY <1>2, NullAssumption

\* What an append leaves behind.
LEMMA AppendKeepsChain ==
    ASSUME log \in Seq(Mutation), ChainExact,
           hash \in [DOMAIN log -> Seq(Mutation) \cup {NoHash}],
           NEW new \in Seq(Mutation), NEW chained \in BOOLEAN,
           append_mutations(new, chained)
    PROVE  /\ log' \in Seq(Mutation) /\ Len(log') = Len(log) + Len(new)
           /\ \A v \in DOMAIN log : log'[v] = log[v]
           /\ hash' \in [DOMAIN log' -> Seq(Mutation) \cup {NoHash}]
           /\ ChainExact'
  <1> DEFINE rows == log \o new
  <1>1. /\ log' = rows /\ rows \in Seq(Mutation) /\ Len(rows) = Len(log) + Len(new)
        /\ DOMAIN log = 1..Len(log) /\ DOMAIN rows = 1..Len(rows)
        /\ Len(log) \in Nat /\ Len(new) \in Nat
        /\ \A v \in DOMAIN log : rows[v] = log[v]
    BY DEF append_mutations
  <1>2. \A v \in 0..Len(log) : Prefix(rows, v) = Prefix(log, v)
    BY <1>1 DEF Prefix
  <1>3. CASE chained
    <2>1. hash' = [v \in DOMAIN rows |-> IF v <= Len(log) THEN LinkedAt(v)
                                         ELSE Link(chain_tip, rows, Len(log), v)]
      BY <1>3 DEF append_mutations
    <2>2. \A v \in DOMAIN log : LinkedAt(v) = Prefix(rows, v)
      BY <1>1, <1>2, Linking
    <2>3. chain_tip = Prefix(rows, Len(log))
      BY <1>1, <1>2, Linking
    <2>4. ASSUME NEW v \in DOMAIN rows, v > Len(log)
          PROVE  Link(chain_tip, rows, Len(log), v) = Prefix(rows, v)
      <3>1. DOMAIN chain_tip \cup (Len(log) + 1)..v = 1..v
        BY <1>1, <2>3, <2>4 DEF Prefix
      <3>2. \A u \in 1..v : (IF u > Len(log) THEN rows[u] ELSE chain_tip[u]) = rows[u]
        BY <1>1, <2>3, <2>4 DEF Prefix
      <3> QED BY <3>1, <3>2 DEF Link, Prefix
    <2>5. \A v \in DOMAIN rows : hash'[v] = Prefix(rows, v)
      BY <1>1, <2>1, <2>2, <2>4
    <2>6. ASSUME NEW v \in DOMAIN rows
          PROVE  hash'[v] \in Seq(Mutation) /\ hash'[v] # NoHash
      <3> HIDE DEF rows
      <3>1. v \in 0..Len(rows) /\ rows \in Seq(Mutation)
        BY <1>1
      <3>2. Prefix(rows, v) \in Seq(Mutation) /\ Prefix(rows, v) # NoHash
        BY <3>1, PrefixIsValue
      <3> QED BY <2>5, <3>2
    <2>7. hash' \in [DOMAIN rows -> Seq(Mutation) \cup {NoHash}]
      BY <2>1, <2>6
    <2>8. Exact(log', hash')
      <3> HIDE DEF rows
      <3>1. \A v \in DOMAIN rows : \A u \in 1..v : u \in DOMAIN rows
        BY <1>1
      <3> QED BY <1>1, <2>5, <2>6, <3>1 DEF Exact
    <2> QED BY <1>1, <2>7, <2>8 DEF ChainExact
  <1>4. CASE ~chained
    <2>1. hash' = [v \in DOMAIN rows |-> IF v <= Len(log) THEN hash[v] ELSE NoHash]
      BY <1>4 DEF append_mutations
    <2>2. hash' \in [DOMAIN rows -> Seq(Mutation) \cup {NoHash}]
      BY <1>1, <2>1
    <2>3. ASSUME NEW v \in DOMAIN rows, hash'[v] # NoHash
          PROVE  /\ hash'[v] = Prefix(rows, v)
                 /\ \A u \in 1..v : hash'[u] # NoHash
      <3>1. v \in DOMAIN log /\ hash'[v] = hash[v]
        BY <1>1, <2>1, <2>3
      <3>2. hash[v] = Prefix(log, v) /\ \A u \in 1..v : hash[u] # NoHash
        BY <2>3, <3>1 DEF ChainExact, Exact
      <3>3. \A u \in 1..v : hash'[u] = hash[u]
        BY <1>1, <2>1, <3>1
      <3> QED BY <1>1, <1>2, <3>1, <3>2, <3>3
    <2> QED BY <1>1, <2>2, <2>3 DEF ChainExact, Exact
  <1> QED BY <1>3, <1>4

\* What linking the rows leaves behind.
LEMMA LinkKeepsChain ==
    ASSUME log \in Seq(Mutation), ChainExact, UNCHANGED log, LinkRows,
           hash \in [DOMAIN log -> Seq(Mutation) \cup {NoHash}]
    PROVE  hash' \in [DOMAIN log' -> Seq(Mutation) \cup {NoHash}] /\ ChainExact'
  <1>1. DOMAIN log = 1..Len(log) /\ Len(log) \in Nat
    OBVIOUS
  <1>2. \A v \in DOMAIN log : hash'[v] = Prefix(log, v)
    BY Linking DEF LinkRows
  <1>3. \A v \in DOMAIN log : hash'[v] \in Seq(Mutation) /\ hash'[v] # NoHash
    BY <1>1, <1>2, PrefixIsValue
  <1>4. hash' \in [DOMAIN log -> Seq(Mutation) \cup {NoHash}]
    BY <1>3 DEF LinkRows
  <1> QED BY <1>1, <1>2, <1>3, <1>4 DEF ChainExact, Exact

-----------------------------------------------------------------------------
(* Types.  A report raises the series to the greatest number it names; that *)
(* there is one is why the numbers on record are bounded.                   *)

NumsUpTo(rows, n) == \A v \in DOMAIN rows : rows[v].num <= n

NumsBelow(n) ==
    /\ NumsUpTo(log, n) /\ (backup # NoBackup => NumsUpTo(backup.log, n))
    /\ \A w \in Pushers : NumsUpTo(push[w].batch, n) /\ NumsUpTo(push[w].rows, n)
    /\ \A dev \in Devices :
          /\ NumsUpTo(held[dev], n) /\ NumsUpTo(page[dev], n)
          /\ \A m \in former[dev] : m.num <= n

NumsBounded == \E n \in Nat : NumsBelow(n)

BackupExact == backup # NoBackup => Exact(backup.log, backup.hash)

\* The rows and chain values of the server, and of its newest dump.
LogInv == ChainExact /\ BackupExact

\* The greatest of the series and a bounded set of numbers is a natural.
LEMMA SeriesAfterFacts ==
    ASSUME TypeOK, NumsBounded, NEW dev \in Devices
    PROVE  /\ SeriesAfter(Lost(dev)) \in Nat
           /\ series <= SeriesAfter(Lost(dev))
           /\ \A m \in Gone(Lost(dev)) : m.num <= SeriesAfter(Lost(dev))
  <1> DEFINE S == {series} \cup {m.num : m \in Gone(Lost(dev))}
  <1>1. PICK n \in Nat : NumsBelow(n)
    BY DEF NumsBounded
  <1>2. \A m \in Gone(Lost(dev)) : m \in former[dev] /\ m.num \in Nat /\ m.num <= n
    BY <1>1 DEF Gone, Lost, NumsBelow, TypeOK, Mutation
  <1>3. PICK k \in Nat : series <= k /\ n <= k
    <2>1. series \in Nat
      BY DEF TypeOK
    <2>2. series + n \in Nat /\ series <= series + n /\ n <= series + n
      BY <2>1
    <2> QED BY <2>2
  <1>4. S \in SUBSET (0..k) /\ S # {}
    BY <1>2, <1>3 DEF TypeOK
  <1>5. Max(S) \in S /\ \A x \in S : x <= Max(S)
    BY <1>4, MaxIsGreatest
  <1> QED BY <1>4, <1>5 DEF SeriesAfter

\* The smaller of two numbers.
LEMMA MinOfTwo ==
    ASSUME NEW a \in Int, NEW b \in Int
    PROVE  Min({a, b}) = IF a <= b THEN a ELSE b
  <1>1. \E x \in {a, b} : \A y \in {a, b} : x <= y
    OBVIOUS
  <1> QED BY <1>1 DEF Min

\* A pulled page continues the log after the cursor.
LEMMA PageFacts ==
    ASSUME log \in Seq(Mutation), NEW n \in Nat, n <= Len(log)
    PROVE  /\ PullPage(n) \in Seq(Mutation) /\ n + Len(PullPage(n)) <= Len(log)
           /\ \A i \in DOMAIN PullPage(n) : PullPage(n)[i] = log[n + i]
  <1> DEFINE top == IF n + PageSize <= Len(log) THEN n + PageSize ELSE Len(log)
  <1>1. PageSize \in Nat \ {0} /\ Len(log) \in Nat
    BY PageAssumption
  <1>2. PullPage(n) = SubSeq(log, n + 1, top)
    BY <1>1, MinOfTwo DEF PullPage
  <1>3. top \in n..Len(log)
    BY <1>1
  <1> HIDE DEF top
  <1>4. /\ SubSeq(log, n + 1, top) \in Seq(Mutation)
        /\ Len(SubSeq(log, n + 1, top)) = top - n
        /\ \A i \in 1..(top - n) : SubSeq(log, n + 1, top)[i] = log[n + i]
    BY <1>1, <1>3, SubSeqProperties
  <1> QED BY <1>1, <1>2, <1>3, <1>4

\* A push handler between its steps.
LEMMA IdleTyped == Idle \in PushType /\ Idle.batch = <<>> /\ Idle.rows = <<>>
  BY DEF Idle, PushType

\* Every step keeps the types and the chain of the log and of the dump.
LEMMA TypeStep ==
    ASSUME TypeOK, NumsBounded, LogInv, [Next]_vars
    PROVE  TypeOK' /\ LogInv'
  <1> USE DEF LogInv
  <1>1. ASSUME NEW d \in Docs, NEW chained \in BOOLEAN, Post(d, chained)
        PROVE  TypeOK' /\ LogInv'
    <2> DEFINE m == [id |-> PostingId(d), doc |-> d, num |-> series + 1]
               new == IF Logged(m.id) THEN <<>> ELSE <<m>>
    <2>1. m \in Mutation
      BY DEF TypeOK, Mutation, PostingId
    <2>2. new \in Seq(Mutation)
      BY <2>1
    <2>3. append_mutations(new, chained)
      BY <1>1 DEF Post
    <2> HIDE DEF new
    <2>4. /\ log' \in Seq(Mutation) /\ ChainExact'
          /\ hash' \in [DOMAIN log' -> Seq(Mutation) \cup {NoHash}]
      BY <2>2, <2>3, AppendKeepsChain DEF TypeOK
    <2>5. number' \in [Docs -> Nat] /\ series' \in Nat
      BY <1>1 DEF Post, TypeOK
    <2> QED BY <1>1, <2>4, <2>5 DEF Post, TypeOK, deviceVars, BackupExact
  <1>2. ASSUME NEW w \in Pushers, NEW b \in Batches, BeginPush(w, b)
        PROVE  TypeOK' /\ LogInv'
    <2>1. push' \in [Pushers -> PushType]
      <3>1. b \in Seq(Mutation) /\ ToSet(b) \subseteq Mutation
        BY BatchesAssumption DEF ToSet
      <3> QED BY <1>2, <3>1, IdleTyped DEF BeginPush, TypeOK, PushType
    <2> QED BY <1>2, <2>1 DEF BeginPush, TypeOK, store, deviceVars, ChainExact, BackupExact
  <1>3. ASSUME NEW w \in Pushers, CheckPush(w) \/ LockCounter(w) \/ AppendRow(w) \/ AbandonPush(w)
        PROVE  TypeOK' /\ LogInv'
    <2>1. push' \in [Pushers -> PushType]
      <3> DEFINE p == push[w]
      <3>0. /\ p \in PushType /\ p.next \in Nat \ {0} /\ p.rows \in Seq(Mutation)
            /\ p.next \in 1..Len(p.batch) => p.batch[p.next] \in Mutation
        BY DEF TypeOK, PushType
      <3>1. CASE CheckPush(w)
        <4>1. [p EXCEPT !.next = @ + 1] \in PushType
          BY <3>0 DEF PushType
        <4>2. \/ push' = [push EXCEPT ![w] = Idle]
              \/ push' = [push EXCEPT ![w] = [p EXCEPT !.next = @ + 1]]
          BY <3>1 DEF CheckPush, TypeOK
        <4> QED BY <4>1, <4>2, IdleTyped DEF TypeOK
      <3>2. CASE LockCounter(w)
        <4> DEFINE q == [p EXCEPT !.phase = "appending"]
        <4>0. q \in PushType
          BY <3>0 DEF PushType
        <4> HIDE DEF q
        <4>1. [q EXCEPT !.next = 1] \in PushType
          BY <4>0 DEF PushType
        <4> USE DEF q
        <4>2. push' = [push EXCEPT ![w] = [q EXCEPT !.next = 1]]
          BY <3>2 DEF LockCounter, TypeOK
        <4> QED BY <4>1, <4>2 DEF TypeOK
      <3>3. CASE AppendRow(w)
        <4> DEFINE m == p.batch[p.next]
                   rows == IF Logged(m.id) THEN p.rows ELSE Append(p.rows, m)
        <4>1. p.next \in 1..Len(p.batch)
          BY <3>0, <3>3 DEF AppendRow, PushType
        <4>2. rows \in Seq(Mutation)
          BY <3>0, <3>3, <4>1 DEF AppendRow
        <4> HIDE DEF rows
        <4> DEFINE q == [p EXCEPT !.next = @ + 1]
        <4>5. q \in PushType
          BY <3>0 DEF PushType
        <4> HIDE DEF q
        <4>3. [q EXCEPT !.rows = rows] \in PushType
          BY <4>5, <4>2 DEF PushType
        <4>4. push' = [push EXCEPT ![w] = [q EXCEPT !.rows = rows]]
          BY <3>3 DEF AppendRow, TypeOK, rows, q
        <4> QED BY <4>3, <4>4 DEF TypeOK
      <3>4. CASE AbandonPush(w)
        BY <3>4, IdleTyped DEF AbandonPush, TypeOK
      <3> QED BY <1>3, <3>1, <3>2, <3>3, <3>4
    <2> QED BY <1>3, <2>1 DEF CheckPush, LockCounter, AppendRow, AbandonPush, TypeOK, store,
                              deviceVars, ChainExact, BackupExact
  <1>4. ASSUME NEW w \in Pushers, NEW chained \in BOOLEAN, CommitPush(w, chained)
        PROVE  TypeOK' /\ LogInv'
    <2>1. push[w].rows \in Seq(Mutation)
      BY DEF TypeOK, PushType
    <2>2. append_mutations(push[w].rows, chained)
      BY <1>4 DEF CommitPush
    <2>3. /\ log' \in Seq(Mutation) /\ ChainExact'
          /\ hash' \in [DOMAIN log' -> Seq(Mutation) \cup {NoHash}]
      BY <2>1, <2>2, AppendKeepsChain DEF TypeOK
    <2>4. push' \in [Pushers -> PushType]
      BY <1>4, IdleTyped DEF CommitPush, TypeOK
    <2> QED BY <1>4, <2>3, <2>4 DEF CommitPush, TypeOK, deviceVars, BackupExact
  <1>5. CASE Backup
    BY <1>5 DEF Backup, TypeOK, store, deviceVars, ChainExact, BackupExact
  <1>6. CASE Restore
    BY <1>6, IdleTyped DEF Restore, TypeOK, ChainExact, BackupExact
  <1>7. ASSUME NEW dev \in Devices, CheckHistory(dev)
        PROVE  TypeOK' /\ LogInv'
    <2>1. hash' \in [DOMAIN log' -> Seq(Mutation) \cup {NoHash}] /\ ChainExact'
      BY <1>7, LinkKeepsChain DEF CheckHistory, TypeOK
    <2>2. Official(held[dev]) \subseteq Mutation
      BY DEF Official, ToSet, TypeOK
    <2> DEFINE typed == /\ held' \in [Devices -> Seq(Mutation)] /\ DOMAIN mark' = Devices
                        /\ former' \in [Devices -> SUBSET Mutation]
                        /\ recovery' \in [Devices -> Nat]
    <2>3. ASSUME AtHash(Len(held[dev])) = mark[dev] PROVE typed
      <3>1. UNCHANGED <<held, mark, former, recovery>>
        BY <1>7, <2>3 DEF CheckHistory
      <3> QED BY <3>1 DEF TypeOK
    <2>4. ASSUME AtHash(Len(held[dev])) # mark[dev] PROVE typed
      <3>1. /\ held' = [held EXCEPT ![dev] = <<>>] /\ mark' = [mark EXCEPT ![dev] = GENESIS]
            /\ former' = [former EXCEPT ![dev] = @ \cup Official(held[dev])]
            /\ recovery' = [recovery EXCEPT ![dev] = @ + 1]
        BY <1>7, <2>4 DEF CheckHistory
      <3>2. held' \in [Devices -> Seq(Mutation)] /\ DOMAIN mark' = Devices
        BY <3>1 DEF TypeOK
      <3>3. former' \in [Devices -> SUBSET Mutation] /\ recovery' \in [Devices -> Nat]
        BY <3>1, <2>2 DEF TypeOK
      <3> QED BY <3>2, <3>3
    <2>5. typed
      BY <2>3, <2>4
    <2> QED BY <1>7, <2>1, <2>5 DEF CheckHistory, TypeOK, BackupExact
  <1>8. ASSUME NEW dev \in Devices, sync_pull(dev)
        PROVE  TypeOK' /\ LogInv'
    <2>1. PullPage(Len(held[dev])) \in Seq(Mutation)
      <3> DEFINE n == Len(held[dev])
      <3>1. n \in Nat /\ PageSize \in Nat /\ Len(log) \in Nat /\ log \in Seq(Mutation)
        BY PageAssumption DEF TypeOK
      <3>2. CASE n <= Len(log)
        BY <3>1, <3>2, PageFacts
      <3>3. CASE n > Len(log)
        <4> HIDE DEF n
        <4>0. Min({n + PageSize, Len(log)}) = Len(log)
          BY <3>1, <3>3, MinOfTwo
        <4>1. PullPage(n) = SubSeq(log, n + 1, Len(log))
          BY <4>0 DEF PullPage
        <4>2. n + 1 \in Int /\ Len(log) \in Int /\ Len(log) < n + 1
          BY <3>1, <3>3
        <4>3. SubSeq(log, n + 1, Len(log)) = <<>>
          BY <4>2, SubSeqEmpty
        <4>4. PullPage(n) \in Seq(Mutation)
          BY <4>1, <4>3, EmptySeq
        <4> QED BY <4>4 DEF n
      <3> QED BY <3>1, <3>2, <3>3
    <2> QED BY <1>8, <2>1 DEF sync_pull, TypeOK, store, ChainExact, BackupExact
  <1>9. ASSUME NEW dev \in Devices, ApplyPage(dev)
        PROVE  TypeOK' /\ LogInv'
    <2>1. hash' \in [DOMAIN log' -> Seq(Mutation) \cup {NoHash}] /\ ChainExact'
      BY <1>9, LinkKeepsChain DEF ApplyPage, TypeOK
    <2> QED BY <1>9, <2>1 DEF ApplyPage, TypeOK, BackupExact
  <1>10. ASSUME NEW dev \in Devices, NEW answered \in BOOLEAN, ReportLost(dev, answered)
         PROVE  TypeOK' /\ LogInv'
    <2>1. series' \in Nat
      BY <1>10, SeriesAfterFacts DEF ReportLost, record_lost_history, TypeOK
    <2>2. former' \in [Devices -> SUBSET Mutation]
      BY <1>10 DEF ReportLost, TypeOK
    <2> QED BY <1>10, <2>1, <2>2 DEF ReportLost, TypeOK, ChainExact, BackupExact
  <1>11. CASE UNCHANGED vars
    BY <1>11 DEF vars, store, deviceVars, TypeOK, ChainExact, BackupExact
  <1> QED
    BY <1>1, <1>2, <1>3, <1>4, <1>5, <1>6, <1>7, <1>8, <1>9, <1>10, <1>11
    DEF Next, DeviceStep

\* A larger bound is a bound.
LEMMA LargerBound ==
    ASSUME TypeOK, NEW n \in Nat, NEW k \in Nat, n <= k, NumsBelow(n)
    PROVE  NumsBelow(k)
  <1>1. ASSUME NEW rows \in Seq(Mutation), NumsUpTo(rows, n) PROVE NumsUpTo(rows, k)
    <2>1. \A v \in DOMAIN rows : rows[v] \in Mutation
      OBVIOUS
    <2>2. \A v \in DOMAIN rows : rows[v].num \in Nat
      BY <2>1 DEF Mutation
    <2> QED BY <1>1, <2>2 DEF NumsUpTo
  <1>2. \A w \in Pushers : push[w].batch \in Seq(Mutation) /\ push[w].rows \in Seq(Mutation)
    BY DEF TypeOK, PushType
  <1>3. \A dev \in Devices : \A m \in former[dev] : m.num \in Nat
    BY DEF TypeOK, Mutation
  <1>4. NumsUpTo(log, k) /\ (backup # NoBackup => NumsUpTo(backup.log, k))
    BY <1>1 DEF NumsBelow, TypeOK
  <1>5. \A w \in Pushers : NumsUpTo(push[w].batch, k) /\ NumsUpTo(push[w].rows, k)
    BY <1>1, <1>2 DEF NumsBelow
  <1>6. \A dev \in Devices : NumsUpTo(held[dev], k) /\ NumsUpTo(page[dev], k)
    BY <1>1 DEF NumsBelow, TypeOK
  <1>7. \A dev \in Devices : \A m \in former[dev] : m.num <= k
    BY <1>3 DEF NumsBelow
  <1> QED BY <1>4, <1>5, <1>6, <1>7 DEF NumsBelow

\* A bound of two sequences bounds their concatenation.
LEMMA ConcatBound ==
    ASSUME NEW n \in Nat, NEW s \in Seq(Mutation), NEW t \in Seq(Mutation),
           NumsUpTo(s, n), NumsUpTo(t, n)
    PROVE  NumsUpTo(s \o t, n)
  <1>1. ASSUME NEW v \in DOMAIN (s \o t) PROVE (s \o t)[v].num <= n
    <2>1. /\ v \in 1..(Len(s) + Len(t)) /\ Len(s) \in Nat /\ Len(t) \in Nat
          /\ (s \o t)[v] = IF v <= Len(s) THEN s[v] ELSE t[v - Len(s)]
      OBVIOUS
    <2>2. CASE v <= Len(s)
      <3>1. v \in DOMAIN s /\ (s \o t)[v] = s[v]
        BY <2>1, <2>2
      <3> QED BY <3>1 DEF NumsUpTo
    <2>3. CASE v > Len(s)
      <3>1. v - Len(s) \in DOMAIN t /\ (s \o t)[v] = t[v - Len(s)]
        BY <2>1, <2>3
      <3> QED BY <3>1 DEF NumsUpTo
    <2> QED BY <2>1, <2>2, <2>3
  <1> QED BY <1>1 DEF NumsUpTo

\* Only a posting brings a new number in, and it is a natural number.
LEMMA BoundStep ==
    ASSUME TypeOK, NumsBounded, BookIsServerHistory, [Next]_vars
    PROVE  NumsBounded'
  <1>0. PICK n \in Nat : NumsBelow(n)
    BY DEF NumsBounded
  <1>1. ASSUME NEW d \in Docs, NEW chained \in BOOLEAN, Post(d, chained)
        PROVE  NumsBounded'
    <2> DEFINE m == [id |-> PostingId(d), doc |-> d, num |-> series + 1]
               new == IF Logged(m.id) THEN <<>> ELSE <<m>>
    <2>1. PICK k \in Nat : n <= k /\ series + 1 <= k
      <3>1. /\ series \in Nat /\ n + series + 1 \in Nat
            /\ n <= n + series + 1 /\ series + 1 <= n + series + 1
        BY DEF TypeOK
      <3> QED BY <3>1
    <2>2. NumsBelow(k)
      BY <1>0, <2>1, LargerBound
    <2>3. log' = log \o new /\ new \in Seq(Mutation) /\ NumsUpTo(new, k)
      <3>1. log' = log \o new
        BY <1>1 DEF Post, append_mutations
      <3>2. m \in Mutation /\ m.num <= k
        BY <2>1 DEF Mutation, PostingId, TypeOK
      <3>3. CASE new = <<>>
        BY <3>1, <3>3 DEF NumsUpTo
      <3>4. CASE new = <<m>>
        BY <3>1, <3>2, <3>4 DEF NumsUpTo
      <3> QED BY <3>3, <3>4
    <2> HIDE DEF new
    <2>4. NumsUpTo(log', k)
      <3>1. log \in Seq(Mutation) /\ NumsUpTo(log, k)
        BY <2>2 DEF NumsBelow, TypeOK
      <3> QED BY <2>3, <3>1, ConcatBound
    <2>5. NumsBelow(k)'
      BY <1>1, <2>2, <2>4 DEF Post, NumsBelow, deviceVars
    <2> QED BY <2>1, <2>5 DEF NumsBounded
  <1>2. ASSUME NEW w \in Pushers, NEW b \in Batches, BeginPush(w, b)
        PROVE  NumsBelow(n)'
    <2>1. b \in Seq(Mutation) /\ NumsUpTo(b, n) /\ NumsUpTo(<<>>, n)
      BY BatchesAssumption DEF NumsUpTo
    <2>2. \A x \in Pushers : \/ push'[x].batch = push[x].batch /\ push'[x].rows = push[x].rows
                             \/ push'[x].batch = b /\ push'[x].rows = <<>>
      BY <1>2, IdleTyped DEF BeginPush, TypeOK, PushType
    <2> QED BY <1>0, <1>2, <2>1, <2>2 DEF BeginPush, NumsBelow, store, deviceVars
  <1>3. ASSUME NEW w \in Pushers,
               \/ CheckPush(w) \/ LockCounter(w) \/ AbandonPush(w)
               \/ \E chained \in BOOLEAN : CommitPush(w, chained)
        PROVE  /\ \A x \in Pushers :
                     \/ push'[x].batch = push[x].batch /\ push'[x].rows = push[x].rows
                     \/ push'[x].batch = <<>> /\ push'[x].rows = <<>>
               /\ UNCHANGED <<backup, held, page, former>>
    <2>1. CASE CheckPush(w)
      <3>1. /\ UNCHANGED <<backup, held, page, former>>
            /\ \/ push' = [push EXCEPT ![w] = Idle]
               \/ push' = [push EXCEPT ![w].next = @ + 1]
        BY <2>1 DEF CheckPush, deviceVars
      <3>2. CASE push' = [push EXCEPT ![w] = Idle]
        BY <3>1, <3>2, IdleTyped DEF TypeOK
      <3>3. CASE push' = [push EXCEPT ![w].next = @ + 1]
        BY <3>1, <3>3 DEF TypeOK, PushType
      <3> QED BY <3>1, <3>2, <3>3
    <2>2. CASE LockCounter(w)
      BY <2>2 DEF LockCounter, TypeOK, PushType, deviceVars
    <2>3. CASE AbandonPush(w) \/ \E chained \in BOOLEAN : CommitPush(w, chained)
      BY <2>3, IdleTyped DEF AbandonPush, CommitPush, TypeOK, deviceVars
    <2> QED BY <1>3, <2>1, <2>2, <2>3
  <1>4. NumsUpTo(<<>>, n)
    BY DEF NumsUpTo
  <1>5. ASSUME NEW w \in Pushers, CheckPush(w) \/ LockCounter(w) \/ AbandonPush(w)
        PROVE  NumsBelow(n)'
    <2>1. log' = log
      BY <1>5 DEF CheckPush, LockCounter, AbandonPush, store
    <2> QED BY <1>0, <1>3, <1>4, <1>5, <2>1 DEF NumsBelow
  <1>6. ASSUME NEW w \in Pushers, NEW chained \in BOOLEAN, CommitPush(w, chained)
        PROVE  NumsBelow(n)'
    <2>1. NumsUpTo(log', n)
      <3>1. log' = log \o push[w].rows
        BY <1>6 DEF CommitPush, append_mutations
      <3>2. /\ push[w].rows \in Seq(Mutation) /\ log \in Seq(Mutation)
            /\ NumsUpTo(push[w].rows, n) /\ NumsUpTo(log, n)
        BY <1>0 DEF TypeOK, PushType, NumsBelow
      <3> QED BY <3>1, <3>2, ConcatBound
    <2> QED BY <1>0, <1>3, <1>4, <1>6, <2>1 DEF NumsBelow
  <1>7. ASSUME NEW w \in Pushers, AppendRow(w) PROVE NumsBelow(n)'
    <2> DEFINE p == push[w]
               m == p.batch[p.next]
    <2>1. /\ p.next \in DOMAIN p.batch /\ m \in Mutation /\ m.num <= n
          /\ p.rows \in Seq(Mutation) /\ NumsUpTo(p.rows, n)
      BY <1>0, <1>7 DEF AppendRow, TypeOK, PushType, NumsBelow, NumsUpTo
    <2>2. NumsUpTo(Append(p.rows, m), n)
      BY <2>1 DEF NumsUpTo
    <2>3. \A x \in Pushers :
             /\ push'[x].batch = push[x].batch
             /\ \/ push'[x].rows = push[x].rows
                \/ x = w /\ push'[x].rows = Append(p.rows, m)
      BY <1>7 DEF AppendRow, TypeOK, PushType
    <2> QED BY <1>0, <1>7, <2>1, <2>2, <2>3 DEF AppendRow, NumsBelow, store, deviceVars
  <1>8. CASE Backup
    BY <1>0, <1>8 DEF Backup, NumsBelow, NumsBounded, store, deviceVars
  <1>9. CASE Restore
    <2>1. NumsBelow(n)'
      BY <1>0, <1>4, <1>9, IdleTyped DEF Restore, NumsBelow
    <2> QED BY <2>1 DEF NumsBounded
  <1>10. ASSUME NEW dev \in Devices, CheckHistory(dev) PROVE NumsBelow(n)'
    <2>1. \A x \in Devices : held'[x] = held[x] \/ held'[x] = <<>>
      BY <1>10 DEF CheckHistory, TypeOK
    <2>2. \A m \in Official(held[dev]) : m.num <= n
      BY <1>0 DEF Official, ToSet, NumsBelow, NumsUpTo
    <2>3. \A x \in Devices : \A m \in former'[x] : m \in former[x] \/ m \in Official(held[dev])
      <3>1. \/ former' = former
            \/ former' = [former EXCEPT ![dev] = former[dev] \cup Official(held[dev])]
        BY <1>10 DEF CheckHistory
      <3> QED BY <3>1 DEF TypeOK
    <2> QED BY <1>0, <1>4, <1>10, <2>1, <2>2, <2>3 DEF CheckHistory, NumsBelow
  <1>11. ASSUME NEW dev \in Devices, sync_pull(dev) PROVE NumsBelow(n)'
    <2> DEFINE k == Len(held[dev])
    <2>1. k \in Nat /\ k <= Len(log) /\ log \in Seq(Mutation)
      <3>1. /\ held[dev] \in Seq(Mutation) /\ page[dev] \in Seq(Mutation)
            /\ log \in Seq(Mutation) /\ session[dev] = "checked"
        BY <1>11 DEF TypeOK, sync_pull
      <3>2. Len(held[dev]) + Len(page[dev]) <= Len(log)
        BY <3>1 DEF BookIsServerHistory
      <3>3. Len(held[dev]) \in Nat /\ Len(page[dev]) \in Nat /\ Len(log) \in Nat
        BY <3>1, LenProperties
      <3>4. \A a, b, c \in Nat : a + b <= c => a <= c
        OBVIOUS
      <3>5. Len(held[dev]) <= Len(log)
        BY ONLY <3>2, <3>3, <3>4
      <3> QED BY <3>1, <3>3, <3>5
    <2> HIDE DEF k
    <2>2. NumsUpTo(PullPage(k), n)
      <3>1. \A i \in DOMAIN PullPage(k) : k + i \in DOMAIN log /\ PullPage(k)[i] = log[k + i]
        <4>1. /\ PullPage(k) \in Seq(Mutation) /\ k + Len(PullPage(k)) <= Len(log)
              /\ \A i \in DOMAIN PullPage(k) : PullPage(k)[i] = log[k + i]
          BY <2>1, PageFacts
        <4> QED BY <2>1, <4>1
      <3> QED BY <1>0, <3>1 DEF NumsUpTo, NumsBelow
    <2>3. \A x \in Devices : page'[x] = page[x] \/ page'[x] = PullPage(k)
      BY <1>11 DEF sync_pull, TypeOK, k
    <2> QED BY <1>0, <1>11, <2>2, <2>3 DEF sync_pull, NumsBelow, store
  <1>12. ASSUME NEW dev \in Devices, ApplyPage(dev) PROVE NumsBelow(n)'
    <2>1. /\ held[dev] \in Seq(Mutation) /\ page[dev] \in Seq(Mutation)
          /\ NumsUpTo(held[dev], n) /\ NumsUpTo(page[dev], n)
      BY <1>0 DEF TypeOK, NumsBelow
    <2>2. NumsUpTo(held[dev] \o page[dev], n)
      BY <2>1, ConcatBound
    <2>3. \A x \in Devices : /\ held'[x] = held[x] \/ held'[x] = held[dev] \o page[dev]
                             /\ page'[x] = page[x] \/ page'[x] = <<>>
      BY <1>12 DEF ApplyPage, TypeOK
    <2> QED BY <1>0, <1>4, <1>12, <2>2, <2>3 DEF ApplyPage, NumsBelow
  <1>13. ASSUME NEW dev \in Devices, NEW answered \in BOOLEAN, ReportLost(dev, answered)
         PROVE  NumsBelow(n)'
    <2>1. \A x \in Devices : former'[x] \subseteq former[x]
      BY <1>13 DEF ReportLost, TypeOK
    <2> QED BY <1>0, <1>13, <2>1 DEF ReportLost, NumsBelow
  <1>14. CASE UNCHANGED vars
    BY <1>0, <1>14 DEF vars, store, deviceVars, NumsBelow, NumsBounded
  <1> QED
    BY <1>1, <1>2, <1>5, <1>6, <1>7, <1>8, <1>9, <1>10, <1>11, <1>12, <1>13, <1>14
    DEF Next, DeviceStep, NumsBounded

-----------------------------------------------------------------------------
(* Books.                                                                  *)

\* A book with a page behind it continues a log from its beginning.
Follows(book, pg, rows) ==
    /\ Len(book) + Len(pg) <= Len(rows)
    /\ \A i \in 1..Len(book) : book[i] = rows[i]
    /\ \A i \in 1..Len(pg) : pg[i] = rows[Len(book) + i]

\* A checkpoint is the chain value of the whole book, and only a device in
\* the middle of a pull has a page to apply.
BookInv ==
    \A dev \in Devices :
        /\ mark[dev] = held[dev]
        /\ session[dev] # "paged" => page[dev] = <<>>
        /\ session[dev] # "idle" => Follows(held[dev], page[dev], log)

\* The same as an equation between sequences.
LEMMA FollowsIsPrefix ==
    ASSUME NEW book \in Seq(Mutation), NEW pg \in Seq(Mutation), NEW rows \in Seq(Mutation),
           Follows(book, pg, rows)
    PROVE  book \o pg = Prefix(rows, Len(book) + Len(pg))
  <1> DEFINE n == Len(book) + Len(pg)
             both == book \o pg
  <1>1. Len(book) \in Nat /\ Len(pg) \in Nat /\ Len(rows) \in Nat /\ n \in Nat
    BY LenProperties
  <1>2. /\ both \in Seq(Mutation) /\ Len(both) = n
        /\ \A i \in 1..n : both[i] = IF i <= Len(book) THEN book[i] ELSE pg[i - Len(book)]
    BY ConcatProperties
  <1>3. both \in [1..n -> Mutation]
    BY <1>2, LenProperties
  <1>4. ASSUME NEW i \in 1..n PROVE both[i] = rows[i]
    <2>1. CASE i <= Len(book)
      <3>1. i \in 1..Len(book)
        BY <1>1, <2>1
      <3> QED BY <1>2, <2>1, <3>1 DEF Follows
    <2>2. CASE ~(i <= Len(book))
      <3> DEFINE j == i - Len(book)
      <3>1. j \in 1..Len(pg) /\ Len(book) + j = i
        BY <1>1, <2>2
      <3>2. pg[j] = rows[Len(book) + j]
        BY <3>1 DEF Follows
      <3> QED BY <1>2, <2>2, <3>1, <3>2
    <2> QED BY <2>1, <2>2
  <1> HIDE DEF both, n
  <1>5. both = Prefix(rows, n)
    BY <1>3, <1>4 DEF Prefix
  <1> QED BY <1>5 DEF both, n

\* What the invariant says of the books is the property of the runs.
LEMMA BooksFollow == TypeOK /\ BookInv => BookIsServerHistory
  <1> SUFFICES ASSUME TypeOK, BookInv, NEW dev \in Devices, session[dev] # "idle"
               PROVE  /\ Len(held[dev]) + Len(page[dev]) <= Len(log)
                      /\ held[dev] \o page[dev] = Prefix(log, Len(held[dev]) + Len(page[dev]))
    BY DEF BookIsServerHistory
  <1>1. held[dev] \in Seq(Mutation) /\ page[dev] \in Seq(Mutation) /\ log \in Seq(Mutation)
    BY DEF TypeOK
  <1>2. Follows(held[dev], page[dev], log)
    BY DEF BookInv
  <1> QED BY <1>1, <1>2, FollowsIsPrefix DEF Follows

\* A log that grew is followed by what followed it before.
LEMMA GrownLog ==
    ASSUME NEW book \in Seq(Mutation), NEW pg \in Seq(Mutation), NEW rows \in Seq(Mutation),
           NEW grown \in Seq(Mutation), Len(rows) <= Len(grown),
           \A v \in DOMAIN rows : grown[v] = rows[v], Follows(book, pg, rows)
    PROVE  Follows(book, pg, grown)
  <1>1. /\ Len(book) \in Nat /\ Len(pg) \in Nat /\ Len(rows) \in Nat /\ Len(grown) \in Nat
        /\ DOMAIN rows = 1..Len(rows)
    BY LenProperties
  <1>2. Len(book) + Len(pg) <= Len(rows)
    BY DEF Follows
  <1>3. \A i \in 1..Len(book) : i \in DOMAIN rows
    BY <1>1, <1>2
  <1>4. \A i \in 1..Len(pg) : Len(book) + i \in DOMAIN rows
    BY <1>1, <1>2
  <1>5. Len(book) + Len(pg) <= Len(grown)
    BY <1>1, <1>2
  <1> QED BY <1>3, <1>4, <1>5 DEF Follows

\* The value a checkpoint is compared with is the prefix of the log there.
LEMMA AtHashIsPrefix ==
    ASSUME TypeOK, LogInv, NEW n \in Nat
    PROVE  AtHash(n) = IF n <= Len(log) THEN Prefix(log, n) ELSE NoHash
  <1>1. log \in Seq(Mutation) /\ Len(log) \in Nat /\ DOMAIN log = 1..Len(log)
        /\ DOMAIN hash = DOMAIN log
    BY DEF TypeOK
  <1>2. \A v \in DOMAIN log : LinkedAt(v) = Prefix(log, v)
    BY <1>1, Linking DEF LogInv
  <1>3. CASE n = 0
    BY <1>1, <1>3 DEF AtHash, GENESIS, Prefix
  <1>4. CASE n # 0
    BY <1>1, <1>2, <1>4 DEF AtHash
  <1> QED BY <1>3, <1>4

\* A sequence that equals a prefix has its elements.
LEMMA EqualsPrefix ==
    ASSUME NEW book \in Seq(Mutation), NEW rows \in Seq(Mutation),
           Len(book) <= Len(rows), book = Prefix(rows, Len(book))
    PROVE  Follows(book, <<>>, rows)
  <1> DEFINE n == Len(book)
  <1>1. n \in Nat /\ Len(rows) \in Nat
    BY LenProperties
  <1> HIDE DEF n
  <1>2. \A i \in 1..n : Prefix(rows, n)[i] = rows[i]
    BY <1>1 DEF Prefix
  <1>3. \A i \in 1..n : book[i] = rows[i]
    BY <1>2 DEF n
  <1>4. Len(<<>>) = 0 /\ n + 0 = n
    BY <1>1, EmptySeq
  <1> QED BY <1>1, <1>3, <1>4 DEF Follows, n

\* Appending leaves every book where it was.
LEMMA AppendKeepsBooks ==
    ASSUME TypeOK, BookInv, log' \in Seq(Mutation), Len(log) <= Len(log'),
           \A v \in DOMAIN log : log'[v] = log[v], UNCHANGED <<held, mark, session, page>>
    PROVE  BookInv'
  <1>1. ASSUME NEW dev \in Devices, session[dev] # "idle"
        PROVE  Follows(held[dev], page[dev], log')
    <2>1. /\ held[dev] \in Seq(Mutation) /\ page[dev] \in Seq(Mutation) /\ log \in Seq(Mutation)
          /\ Follows(held[dev], page[dev], log)
      BY <1>1 DEF TypeOK, BookInv
    <2> QED BY <2>1, GrownLog
  <1> QED BY <1>1 DEF BookInv

\* Every step keeps the books in step with their checkpoints and the log.
LEMMA BookStep ==
    ASSUME TypeOK, LogInv, BookInv, [Next]_vars
    PROVE  BookInv'
  <1>0. log \in Seq(Mutation) /\ Len(log) \in Nat
    BY DEF TypeOK
  <1>1. ASSUME NEW d \in Docs, NEW chained \in BOOLEAN, Post(d, chained)
        PROVE  BookInv'
    <2> DEFINE m == [id |-> PostingId(d), doc |-> d, num |-> series + 1]
               new == IF Logged(m.id) THEN <<>> ELSE <<m>>
    <2>1. m \in Mutation
      BY DEF TypeOK, Mutation, PostingId
    <2>2. new \in Seq(Mutation)
      BY <2>1
    <2>3. append_mutations(new, chained) /\ UNCHANGED <<held, mark, session, page>>
      BY <1>1 DEF Post, deviceVars
    <2> HIDE DEF new
    <2>4. /\ log' \in Seq(Mutation) /\ Len(log') = Len(log) + Len(new)
          /\ \A v \in DOMAIN log : log'[v] = log[v]
      BY <2>2, <2>3, AppendKeepsChain DEF TypeOK, LogInv
    <2>5. Len(new) \in Nat /\ Len(log) <= Len(log')
      BY <1>0, <2>2, <2>4
    <2> QED BY <2>3, <2>4, <2>5, AppendKeepsBooks
  <1>2. ASSUME NEW w \in Pushers, NEW chained \in BOOLEAN, CommitPush(w, chained)
        PROVE  BookInv'
    <2>1. push[w].rows \in Seq(Mutation)
      BY DEF TypeOK, PushType
    <2>2. append_mutations(push[w].rows, chained) /\ UNCHANGED <<held, mark, session, page>>
      BY <1>2 DEF CommitPush, deviceVars
    <2>3. /\ log' \in Seq(Mutation) /\ Len(log') = Len(log) + Len(push[w].rows)
          /\ \A v \in DOMAIN log : log'[v] = log[v]
      BY <2>1, <2>2, AppendKeepsChain DEF TypeOK, LogInv
    <2>4. Len(push[w].rows) \in Nat /\ Len(log) <= Len(log')
      BY <1>0, <2>1, <2>3
    <2> QED BY <2>2, <2>3, <2>4, AppendKeepsBooks
  <1>3. ASSUME UNCHANGED <<log, held, mark, session, page>> PROVE BookInv'
    BY <1>3 DEF BookInv, Follows
  <1>4. CASE Restore
    BY <1>4 DEF Restore, BookInv
  <1>5. ASSUME NEW dev \in Devices, CheckHistory(dev) PROVE BookInv'
    <2>1. /\ UNCHANGED <<log, page>> /\ session[dev] = "idle"
          /\ session' = [session EXCEPT ![dev] = "checked"]
      BY <1>5 DEF CheckHistory
    <2>2. page[dev] = <<>>
      BY <2>1 DEF BookInv
    <2>3. CASE AtHash(Len(held[dev])) = mark[dev]
      <3>1. UNCHANGED <<held, mark>>
        BY <1>5, <2>3 DEF CheckHistory
      <3>2. held[dev] \in Seq(Mutation) /\ Len(held[dev]) \in Nat /\ held[dev] # NoHash
        BY NullAssumption, LenProperties DEF TypeOK
      <3>3. AtHash(Len(held[dev])) = held[dev]
        BY <2>3 DEF BookInv
      <3>4. Len(held[dev]) <= Len(log) /\ held[dev] = Prefix(log, Len(held[dev]))
        BY <3>2, <3>3, AtHashIsPrefix
      <3>5. Follows(held[dev], page[dev], log)
        BY <1>0, <2>2, <3>2, <3>4, EqualsPrefix
      <3> QED BY <2>1, <2>2, <3>1, <3>5 DEF BookInv, TypeOK
    <2>4. CASE AtHash(Len(held[dev])) # mark[dev]
      <3>1. held' = [held EXCEPT ![dev] = <<>>] /\ mark' = [mark EXCEPT ![dev] = GENESIS]
        BY <1>5, <2>4 DEF CheckHistory
      <3>2. Follows(<<>>, <<>>, log)
        BY <1>0 DEF Follows
      <3> QED BY <2>1, <2>2, <3>1, <3>2 DEF BookInv, TypeOK, GENESIS
    <2> QED BY <2>3, <2>4
  <1>6. ASSUME NEW dev \in Devices, sync_pull(dev) PROVE BookInv'
    <2> DEFINE k == Len(held[dev])
               pg == PullPage(k)
    <2>1. /\ UNCHANGED <<log, held, mark>> /\ session[dev] = "checked"
          /\ session' = [session EXCEPT ![dev] = "paged"]
          /\ page' = [page EXCEPT ![dev] = pg]
      BY <1>6 DEF sync_pull, store
    <2>2. held[dev] \in Seq(Mutation) /\ k \in Nat /\ page[dev] = <<>> /\ Len(page[dev]) = 0
      BY <2>1, LenProperties, EmptySeq DEF TypeOK, BookInv
    <2>3. Follows(held[dev], page[dev], log)
      BY <2>1 DEF BookInv
    <2>4. k <= Len(log)
      BY <1>0, <2>2, <2>3 DEF Follows
    <2>5. /\ pg \in Seq(Mutation) /\ k + Len(pg) <= Len(log)
          /\ \A i \in DOMAIN pg : pg[i] = log[k + i]
      BY <1>0, <2>2, <2>4, PageFacts
    <2>6. DOMAIN pg = 1..Len(pg)
      BY <2>5, LenProperties
    <2> HIDE DEF pg
    <2>7. Follows(held[dev], pg, log)
      BY <2>3, <2>5, <2>6 DEF Follows
    <2> QED BY <2>1, <2>7 DEF BookInv, TypeOK
  <1>7. ASSUME NEW dev \in Devices, ApplyPage(dev) PROVE BookInv'
    <2> DEFINE n == Len(held[dev]) + Len(page[dev])
               both == held[dev] \o page[dev]
    <2>1. /\ held[dev] \in Seq(Mutation) /\ page[dev] \in Seq(Mutation)
          /\ Len(held[dev]) \in Nat /\ Len(page[dev]) \in Nat
      BY LenProperties DEF TypeOK
    <2>2. both \in Seq(Mutation) /\ Len(both) = n /\ n \in Nat
      <3>1. both \in Seq(Mutation) /\ Len(both) = n
        BY <2>1, ConcatProperties
      <3>2. \A a, b \in Nat : a + b \in Nat
        OBVIOUS
      <3>3. n \in Nat
        BY ONLY <2>1, <3>2
      <3> QED BY <3>1, <3>3
    <2>3. Follows(held[dev], page[dev], log)
      BY <1>7 DEF ApplyPage, BookInv
    <2>4. n <= Len(log)
      BY <2>3 DEF Follows
    <2>5. both = Prefix(log, n)
      BY <1>0, <2>1, <2>3, FollowsIsPrefix
    <2>6. AtHash(n) = both
      BY <2>2, <2>4, <2>5, AtHashIsPrefix
    <2>7. Follows(both, <<>>, log)
      BY <1>0, <2>2, <2>4, <2>5, EqualsPrefix
    <2>8. /\ UNCHANGED log
          /\ held' = [held EXCEPT ![dev] = both] /\ mark' = [mark EXCEPT ![dev] = AtHash(n)]
          /\ session' = [session EXCEPT ![dev] = IF more[dev] THEN "checked" ELSE "idle"]
          /\ page' = [page EXCEPT ![dev] = <<>>]
      BY <1>7 DEF ApplyPage
    <2> HIDE DEF both, n
    <2> QED BY <2>6, <2>7, <2>8 DEF BookInv, TypeOK
  <1>8. CASE UNCHANGED vars
    BY <1>3, <1>8 DEF vars, store, deviceVars
  <1>9. ASSUME NEW w \in Pushers,
               \/ \E b \in Batches : BeginPush(w, b)
               \/ CheckPush(w) \/ LockCounter(w) \/ AppendRow(w) \/ AbandonPush(w)
        PROVE  BookInv'
    BY <1>3, <1>9 DEF BeginPush, CheckPush, LockCounter, AppendRow, AbandonPush, store, deviceVars
  <1>10. CASE Backup
    BY <1>3, <1>10 DEF Backup, store, deviceVars
  <1>11. ASSUME NEW dev \in Devices, NEW answered \in BOOLEAN, ReportLost(dev, answered)
         PROVE  BookInv'
    BY <1>3, <1>11 DEF ReportLost
  <1> QED
    BY <1>1, <1>2, <1>4, <1>5, <1>6, <1>7, <1>8, <1>9, <1>10, <1>11 DEF Next, DeviceStep

-----------------------------------------------------------------------------
(* Lost numbers.                                                           *)

\* No number is beyond the series, and no number the reports found lost is:
\* the next posting takes neither.
Retired(numbers, last, reports) ==
    /\ \A d \in Docs : numbers[d] <= last
    /\ \A p \in reports : \A m \in p.gone :
          /\ m.num \in Nat /\ m.num <= last
          /\ m \notin p.reused => \A d \in Docs \ {m.doc} : numbers[d] # m.num

\* The same of the dump, which a restore brings back as a whole.
RetiredInv ==
    /\ Retired(number, series, recoveries)
    /\ backup # NoBackup => Retired(backup.number, backup.series, backup.recoveries)

\* Every step keeps the lost numbers retired.
LEMMA RetiredStep ==
    ASSUME TypeOK, NumsBounded, RetiredInv, [Next]_vars
    PROVE  RetiredInv'
  <1>0. number \in [Docs -> Nat] /\ series \in Nat /\ Retired(number, series, recoveries)
    BY DEF TypeOK, RetiredInv
  <1>1. ASSUME NEW d \in Docs, NEW chained \in BOOLEAN, Post(d, chained)
        PROVE  RetiredInv'
    <2>1. /\ UNCHANGED <<recoveries, backup>> /\ series' = series + 1
          /\ number' = [number EXCEPT ![d] = series + 1]
      BY <1>1 DEF Post
    <2>2. \A x \in Docs : number'[x] = IF x = d THEN series + 1 ELSE number[x]
      BY <1>0, <2>1
    <2>3. \A x \in Docs : number[x] \in Nat /\ number[x] <= series
      BY <1>0 DEF Retired
    <2>4. \A x \in Docs : number'[x] <= series'
      BY <1>0, <2>1, <2>2, <2>3
    <2>5. ASSUME NEW p \in recoveries, NEW m \in p.gone
          PROVE  /\ m.num \in Nat /\ m.num <= series'
                 /\ m \notin p.reused => \A x \in Docs \ {m.doc} : number'[x] # m.num
      <3>1. m.num \in Nat /\ m.num <= series
        BY <1>0 DEF Retired
      <3>2. series + 1 # m.num /\ m.num <= series'
        BY <1>0, <2>1, <3>1
      <3>3. m \notin p.reused => \A x \in Docs \ {m.doc} : number[x] # m.num
        BY <1>0 DEF Retired
      <3> QED BY <2>2, <3>1, <3>2, <3>3
    <2> QED BY <2>1, <2>4, <2>5 DEF RetiredInv, Retired
  <1>2. ASSUME NEW dev \in Devices, NEW answered \in BOOLEAN, ReportLost(dev, answered)
        PROVE  RetiredInv'
    <2> DEFINE id == <<dev, recovery[dev]>>
               lost == Lost(dev)
               new == [id |-> id, lost |-> lost, gone |-> Gone(lost),
                       reused |-> number_reused(lost)]
    <2>1. UNCHANGED <<number, backup>> /\ record_lost_history(id, lost)
      BY <1>2 DEF ReportLost
    <2>2. CASE \E p \in recoveries : p.id = id
      BY <2>1, <2>2 DEF record_lost_history, RetiredInv, Retired
    <2>3. CASE ~(\E p \in recoveries : p.id = id)
      <3>1. series' = SeriesAfter(lost) /\ recoveries' = recoveries \cup {new}
        BY <2>1, <2>3 DEF record_lost_history
      <3>2. /\ series' \in Nat /\ series <= series'
            /\ \A m \in Gone(lost) : m.num <= series'
        BY <3>1, SeriesAfterFacts
      <3>3. \A d \in Docs : number'[d] <= series'
        BY <1>0, <2>1, <3>2 DEF Retired
      <3>4. ASSUME NEW p \in recoveries, NEW m \in p.gone
            PROVE  /\ m.num \in Nat /\ m.num <= series'
                   /\ m \notin p.reused => \A d \in Docs \ {m.doc} : number'[d] # m.num
        BY <1>0, <2>1, <3>2 DEF Retired
      <3>5. ASSUME NEW m \in Gone(lost)
            PROVE  /\ m.num \in Nat /\ m.num <= series'
                   /\ m \notin number_reused(lost) =>
                         \A d \in Docs \ {m.doc} : number'[d] # m.num
        <4>1. m.num \in Nat
          BY DEF Gone, Lost, TypeOK, Mutation
        <4>2. m \notin number_reused(lost) => \A d \in Docs \ {m.doc} : number[d] # m.num
          BY DEF number_reused
        <4> QED BY <2>1, <3>2, <4>1, <4>2
      <3>6. new.gone = Gone(lost) /\ new.reused = number_reused(lost)
        OBVIOUS
      <3> HIDE DEF new, lost
      <3>7. ASSUME NEW p \in recoveries', NEW m \in p.gone
            PROVE  /\ m.num \in Nat /\ m.num <= series'
                   /\ m \notin p.reused => \A d \in Docs \ {m.doc} : number'[d] # m.num
        <4>1. CASE p \in recoveries
          BY <3>4, <4>1
        <4>2. CASE p = new
          BY <3>5, <3>6, <4>2
        <4> QED BY <3>1, <4>1, <4>2
      <3> QED BY <2>1, <3>3, <3>7 DEF RetiredInv, Retired
    <2> QED BY <2>2, <2>3
  <1>3. ASSUME UNCHANGED <<number, series, recoveries, backup>> PROVE RetiredInv'
    BY <1>3 DEF RetiredInv
  <1>4. CASE Backup
    BY <1>0, <1>4 DEF Backup, store, RetiredInv
  <1>5. CASE Restore
    BY <1>5 DEF Restore, RetiredInv
  <1>6. ASSUME NEW w \in Pushers,
               \/ \E b \in Batches : BeginPush(w, b)
               \/ CheckPush(w) \/ LockCounter(w) \/ AppendRow(w) \/ AbandonPush(w)
               \/ \E chained \in BOOLEAN : CommitPush(w, chained)
        PROVE  RetiredInv'
    BY <1>3, <1>6 DEF BeginPush, CheckPush, LockCounter, AppendRow, AbandonPush, CommitPush, store
  <1>7. ASSUME NEW dev \in Devices, DeviceStep(dev) PROVE RetiredInv'
    BY <1>3, <1>7 DEF DeviceStep, CheckHistory, sync_pull, ApplyPage, store
  <1>8. CASE UNCHANGED vars
    BY <1>3, <1>8 DEF vars, store
  <1> QED BY <1>1, <1>2, <1>4, <1>5, <1>6, <1>7, <1>8 DEF Next

-----------------------------------------------------------------------------
(* The theorems.                                                           *)

IInv == TypeOK /\ NumsBounded /\ LogInv /\ BookInv /\ RetiredInv

\* A company starts with an empty chain, no dump and empty books.
LEMMA InitIInv == Init => IInv
  <1> SUFFICES ASSUME Init PROVE IInv
    OBVIOUS
  <1>1. log \in Seq(Mutation) /\ NumsUpTo(log, 0)
    BY BatchesAssumption, EmptySeq DEF Init, NumsUpTo
  <1>2. TypeOK
    BY <1>1, IdleTyped, EmptySeq DEF Init, TypeOK
  <1>3. NumsBelow(0)
    BY <1>1, IdleTyped DEF Init, NumsBelow, NumsUpTo
  <1>4. LogInv
    BY DEF Init, LogInv, ChainExact, Exact, BackupExact
  <1>5. BookInv
    BY DEF Init, BookInv, GENESIS
  <1>6. RetiredInv
    BY DEF Init, RetiredInv, Retired
  <1> QED BY <1>2, <1>3, <1>4, <1>5, <1>6 DEF IInv, NumsBounded

\* The invariant is inductive.
LEMMA StepIInv == IInv /\ [Next]_vars => IInv'
  <1> SUFFICES ASSUME IInv, [Next]_vars PROVE IInv'
    OBVIOUS
  <1>1. TypeOK /\ NumsBounded /\ LogInv /\ BookInv /\ RetiredInv
    BY DEF IInv
  <1>2. TypeOK' /\ LogInv'
    BY <1>1, TypeStep
  <1>3. BookInv'
    BY <1>1, BookStep
  <1>4. NumsBounded'
    BY <1>1, BooksFollow, BoundStep
  <1>5. RetiredInv'
    BY <1>1, RetiredStep
  <1> QED BY <1>2, <1>3, <1>4, <1>5 DEF IInv

\* Every reachable state satisfies it.
LEMMA Invariant == Spec => []IInv
  BY InitIInv, StepIInv, PTL DEF Spec

\* The variables of the log, the handlers and the devices keep their types,
\* through pushes, postings, restores and reports.
THEOREM TypeCorrect == Spec => []TypeOK
  <1>1. IInv => TypeOK
    BY DEF IInv
  <1> QED BY <1>1, Invariant, PTL

\* A row that chain_tip or an append has linked carries the chain value of
\* all records up to it, and so do all rows before it, however servers with
\* and without the chain interleave and whatever is restored.
THEOREM ChainCorrect == Spec => []ChainExact
  <1>1. IInv => ChainExact
    BY DEF IInv, LogInv
  <1> QED BY <1>1, Invariant, PTL

\* A device whose checkpoint the server confirmed holds, with the page it is
\* applying, exactly the server's first records (sync_history, sync_pull).
THEOREM BookCorrect == Spec => []BookIsServerHistory
  <1>1. IInv => BookIsServerHistory
    BY BooksFollow DEF IInv
  <1> QED BY <1>1, Invariant, PTL

\* A number found lost, and not found in use by the report, is never carried
\* by another document, whatever is restored afterwards (record_lost_history).
THEOREM RetiredCorrect == Spec => []LostNumbersRetired
  <1>1. IInv => LostNumbersRetired
    BY DEF IInv, RetiredInv, Retired, LostNumbersRetired
  <1> QED BY <1>1, Invariant, PTL
=============================================================================
