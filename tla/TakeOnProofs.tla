---------------------------- MODULE TakeOnProofs ----------------------------
(***************************************************************************)
(* Proofs about the books lock and the Solo take-on, for any number of     *)
(* requests and any commands and packages.                                 *)
(*                                                                         *)
(* The lock: a request that is about to write it holds the company's       *)
(* advisory lock, so what it was permitted and what its caller expected is *)
(* still so when it writes (LockInv).  The take-on: the package that marks *)
(* the company is its first document, fills its books until it is          *)
(* cancelled, and is the only one any migration id or caller was answered  *)
(* for (OpeningInv).                                                       *)
(***************************************************************************)
EXTENDS TakeOn, SequenceTheorems, SumTheorems

-----------------------------------------------------------------------------
(* Handlers.                                                               *)

HandlersOK ==
    /\ DOMAIN pc = Handlers /\ DOMAIN cmd = Handlers /\ DOMAIN seen = Handlers
    /\ DOMAIN answer = Handlers
    /\ \A h \in Handlers : pc[h] # "idle" => cmd[h] \in Commands
    /\ advisory \in Handlers \cup {Nobody}

\* A step concerns one handler: no other one's place or command changes.
LEMMA OneHandler ==
    ASSUME HandlersOK, NEW h \in Handlers, SettingsStep(h) \/ TakeOnStep(h)
    PROVE  /\ DOMAIN pc' = Handlers /\ DOMAIN cmd' = Handlers /\ DOMAIN seen' = Handlers
           /\ \A g \in Handlers \ {h} : pc'[g] = pc[g] /\ cmd'[g] = cmd[g]
           /\ pc'[h] = "idle" \/ cmd'[h] \in Commands
           /\ advisory' \in Handlers \cup {Nobody}
  <1> USE DEF HandlersOK
  <1>1. ASSUME End(h)
        PROVE  /\ DOMAIN pc' = Handlers /\ DOMAIN cmd' = Handlers /\ DOMAIN seen' = Handlers
               /\ \A g \in Handlers \ {h} : pc'[g] = pc[g] /\ cmd'[g] = cmd[g]
               /\ pc'[h] = "idle"
    BY <1>1 DEF End
  <1>2. ASSUME NEW where, pc[h] # "idle", Read(h, where) \/ Proceed(h, where)
        PROVE  /\ DOMAIN pc' = Handlers /\ DOMAIN cmd' = Handlers /\ DOMAIN seen' = Handlers
               /\ \A g \in Handlers \ {h} : pc'[g] = pc[g] /\ cmd'[g] = cmd[g]
               /\ cmd'[h] \in Commands
    BY <1>2 DEF Read, Proceed
  <1>3. CASE \E c \in Commands : Begin(h, c)
    BY <1>3 DEF Begin
  <1>4. CASE Abandon(h)
    BY <1>1, <1>4 DEF Abandon
  <1>5. CASE ReadSettings(h) \/ LockBooks(h)
    BY <1>1, <1>2, <1>5 DEF ReadSettings, LockBooks, At
  <1>6. CASE put_company_settings(h) \/ WriteLock(h)
    BY <1>1, <1>6 DEF put_company_settings, WriteLock
  <1>7. CASE TakeOnStep(h)
    BY <1>1, <1>2, <1>7 DEF TakeOnStep, ReadMigrationKey, build, CommitReplayed,
        posting_commit, Tell, At, storeUnchanged
  <1> QED BY <1>3, <1>4, <1>5, <1>6, <1>7 DEF SettingsStep

\* Answers are kept per handler, and only a take-on gives one.
LEMMA Answers ==
    ASSUME HandlersOK, NEW h \in Handlers, TakeOnStep(h)
    PROVE  /\ DOMAIN answer' = Handlers
           /\ \A g \in Handlers \ {h} : answer'[g] = answer[g]
  BY DEF HandlersOK, TakeOnStep, ReadMigrationKey, build, CommitReplayed, posting_commit,
      Tell, Proceed

LEMMA HandlersStep ==
    ASSUME HandlersOK, [Next]_vars
    PROVE  HandlersOK'
  <1>1. ASSUME NEW h \in Handlers, SettingsStep(h) /\ UNCHANGED takeOnVars PROVE HandlersOK'
    BY <1>1, OneHandler DEF HandlersOK, takeOnVars
  <1>2. ASSUME NEW h \in Handlers, TakeOnStep(h) PROVE HandlersOK'
    BY <1>2, OneHandler, Answers DEF HandlersOK
  <1>3. ASSUME (\E t, date : Submit(t, date)) \/ CancelOpening PROVE HandlersOK'
    BY <1>3 DEF Submit, CancelOpening, settingsVars, handlerVars, HandlersOK
  <1>4. CASE UNCHANGED vars
    BY <1>4 DEF vars, settingsVars, handlerVars, takeOnVars, HandlersOK
  <1> QED BY <1>1, <1>2, <1>3, <1>4 DEF Next

LEMMA HandlersInvariant == Spec => []HandlersOK
  <1>1. Init => HandlersOK
    BY DEF Init, SettingsInit, HandlersOK
  <1> QED BY <1>1, HandlersStep, PTL DEF Spec

-----------------------------------------------------------------------------
(* The books lock.                                                         *)

\* A request that is about to write the lock holds the advisory lock, its
\* caller expected the lock there is, and it may make this change.
LockInv ==
    \A h \in Handlers : At(h, "write", "lock") =>
        advisory = h /\ cmd[h].expected = lock /\ Permitted(h)

\* Only the holder of the advisory lock moves the lock or frees the former.
LEMMA LockSteps ==
    ASSUME HandlersOK, LockInv, NEW h \in Handlers, SettingsStep(h) \/ TakeOnStep(h)
    PROVE  /\ lock' = lock \/ (At(h, "write", "lock") /\ lock' = cmd[h].new)
           /\ advisory' = advisory \/ advisory \in {h, Nobody}
           /\ At(h, "write", "lock")' =>
                 /\ cmd'[h] = cmd[h] /\ Permitted(h)
                 /\ cmd[h].expected = lock /\ advisory' = h /\ lock' = lock
  <1> USE DEF HandlersOK
  <1>1. ASSUME End(h) PROVE ~At(h, "write", "lock")'
    BY <1>1 DEF End, At
  <1>2. CASE \E c \in Commands : Begin(h, c)
    BY <1>2 DEF Begin, At
  <1>3. CASE Abandon(h)
    BY <1>1, <1>3 DEF Abandon
  <1>4. CASE ReadSettings(h)
    BY <1>1, <1>4 DEF ReadSettings, Read, At
  <1>5. CASE LockBooks(h)
    BY <1>1, <1>5 DEF LockBooks, Read, At, Moved
  <1>6. CASE put_company_settings(h)
    BY <1>1, <1>6 DEF put_company_settings, LockAfterPut
  <1>7. CASE WriteLock(h)
    BY <1>1, <1>7 DEF WriteLock, LockInv
  <1>8. CASE TakeOnStep(h)
    BY <1>1, <1>8 DEF TakeOnStep, ReadMigrationKey, build, CommitReplayed, posting_commit,
        Tell, Proceed, At, storeUnchanged
  <1> QED BY <1>2, <1>3, <1>4, <1>5, <1>6, <1>7, <1>8 DEF SettingsStep

LEMMA LockInvStep ==
    ASSUME HandlersOK, LockInv, [Next]_vars
    PROVE  LockInv'
  <1>1. ASSUME NEW h \in Handlers, SettingsStep(h) \/ TakeOnStep(h) PROVE LockInv'
    <2> SUFFICES ASSUME NEW g \in Handlers, At(g, "write", "lock")'
                 PROVE  /\ advisory' = g /\ cmd'[g].expected = lock' /\ Permitted(g)'
      BY DEF LockInv
    <2>1. CASE g = h
      BY <1>1, <2>1, LockSteps DEF Permitted, May
    <2>2. CASE g # h
      <3>1. pc'[g] = pc[g] /\ cmd'[g] = cmd[g]
        BY <1>1, <2>2, OneHandler
      <3>2. At(g, "write", "lock") /\ advisory = g /\ cmd[g].expected = lock /\ Permitted(g)
        BY <3>1 DEF At, LockInv
      <3>3. advisory' = g /\ lock' = lock
        BY <1>1, <2>2, <3>2, LockSteps, SettingsAssumption DEF LockInv
      <3> QED BY <3>1, <3>2, <3>3 DEF Permitted, May
    <2> QED BY <2>1, <2>2
  <1>2. CASE (\E t, date : Submit(t, date)) \/ CancelOpening \/ UNCHANGED vars
    BY <1>2 DEF Submit, CancelOpening, vars, settingsVars, handlerVars, LockInv, At,
                Permitted, May
  <1> QED BY <1>1, <1>2 DEF Next

\* The lock moves only for a caller who saw it as it was, and periods are
\* reopened only by an owner or an admin, for any number of requests: the
\* role is checked against the lock the caller claims to have seen, and the
\* compare-and-set makes that claim true (set_books_lock).
THEOREM LockCorrect == Spec => LockMovedKnowingly
  <1> DEFINE Knowingly ==
        lock' # lock =>
          \E h \in Handlers :
              /\ At(h, "write", "lock")
              /\ cmd[h].expected = lock /\ cmd[h].new = lock'
              /\ Reopens(lock, lock') => May(h, {"Owner", "Admin"})
  <1>1. Init => LockInv
    BY DEF Init, SettingsInit, LockInv, At
  <1>2. HandlersOK /\ LockInv /\ [Next]_vars => LockInv'
    BY LockInvStep
  <1>3. HandlersOK /\ LockInv /\ [Next]_vars => [Knowingly]_settingsVars
    <2> SUFFICES ASSUME HandlersOK, LockInv, [Next]_vars, lock' # lock
                 PROVE  \E h \in Handlers :
                            /\ At(h, "write", "lock")
                            /\ cmd[h].expected = lock /\ cmd[h].new = lock'
                            /\ Reopens(lock, lock') => May(h, {"Owner", "Admin"})
      OBVIOUS
    <2>1. PICK h \in Handlers : SettingsStep(h) \/ TakeOnStep(h)
      BY DEF Next, Submit, CancelOpening, vars, settingsVars
    <2>2. At(h, "write", "lock") /\ lock' = cmd[h].new
      BY <2>1, LockSteps
    <2>3. cmd[h].expected = lock /\ Permitted(h)
      BY <2>2 DEF LockInv
    <2> QED BY <2>2, <2>3 DEF Permitted
  <1> QED BY <1>1, <1>2, <1>3, HandlersInvariant, PTL DEF Spec, LockMovedKnowingly

\* A setting changes without having been sent only when the settings changed
\* between the read and the write of the request that writes it, and then to
\* what that request had read, for any number of requests (put_settings,
\* set_books_lock).
THEOREM LossCorrect == Spec => SettingLostOnlyByRace
  <1> DEFINE By(h, f) ==
        /\ pc'[h] = "idle"
        /\ \/ At(h, "write", "put") /\ f \in DOMAIN cmd[h].patch
           \/ /\ At(h, "write", "put") \/ At(h, "write", "lock")
              /\ seen[h].fields[f] = fields'[f]
             Explained == \A f \in Fields : fields'[f] # fields[f] => \E h \in Handlers : By(h, f)
  <1>1. HandlersOK /\ [Next]_vars => [Explained]_settingsVars
    <2> SUFFICES ASSUME HandlersOK, [Next]_vars, NEW f \in Fields, fields'[f] # fields[f]
                 PROVE  \E h \in Handlers : By(h, f)
      OBVIOUS
    <2>1. PICK h \in Handlers : SettingsStep(h) \/ TakeOnStep(h)
      BY DEF Next, Submit, CancelOpening, vars, settingsVars
    <2>2. put_company_settings(h) \/ WriteLock(h)
      BY <2>1 DEF SettingsStep, Begin, Abandon, ReadSettings, LockBooks,
          TakeOnStep, ReadMigrationKey, build, CommitReplayed, posting_commit, storeUnchanged
    <2>3. pc'[h] = "idle"
      BY <2>2 DEF put_company_settings, WriteLock, End, HandlersOK
    <2>4. CASE put_company_settings(h)
      <3>1. fields'[f] = IF f \in DOMAIN cmd[h].patch THEN cmd[h].patch[f] ELSE seen[h].fields[f]
        BY <2>4 DEF put_company_settings, Merged
      <3>2. At(h, "write", "put")
        BY <2>4 DEF put_company_settings
      <3> QED BY <2>3, <3>1, <3>2
    <2>5. CASE WriteLock(h)
      BY <2>3, <2>5 DEF WriteLock
    <2> QED BY <2>2, <2>4, <2>5
  <1>2. Spec => [][Explained]_settingsVars
    <2> HIDE DEF Explained
    <2> QED BY <1>1, HandlersInvariant, PTL DEF Spec
  <1> QED BY <1>2 DEF SettingLostOnlyByRace

-----------------------------------------------------------------------------
(* The Solo take-on.                                                       *)

\* Documents are kept in a sequence.
DocsOK == \E S : docs \in Seq(S)

\* The rows of an opening, or what is left of them once it was cancelled.
Held(p, reversed) == IF reversed THEN Reversed(OpeningRows(p)) ELSE OpeningRows(p)

\* The package that marks the company is its first document, and every
\* migration id and caller was answered with that package or with none.
OpeningInv ==
    /\ DocsOK /\ DOMAIN keys = Migrations
    /\ OpeningComesFirst
    /\ mark # NoPackage => /\ Len(docs) > 0 /\ docs[1] = [package |-> mark]
                           /\ books = Held(mark, cancelled)
    /\ cancelled \in BOOLEAN /\ (mark = NoPackage => ~cancelled)
    /\ \A m \in Migrations : keys[m] \in {NoPackage, mark}
    /\ \A h \in Handlers : answer[h] \in {NoPackage, mark}

\* A company's documents before and after one more.
LEMMA OneMore ==
    ASSUME DocsOK, NEW e, docs' = Append(docs, e)
    PROVE  /\ DocsOK' /\ Len(docs) \in Nat /\ Len(docs') = Len(docs) + 1
           /\ DOMAIN docs' = 1..Len(docs')
           /\ \A i \in 1..Len(docs) : i \in DOMAIN docs /\ docs'[i] = docs[i]
           /\ docs'[Len(docs')] = e
  <1>1. PICK S : docs \in Seq(S)
    BY DEF DocsOK
  <1>2. docs \in Seq(S \cup {e}) /\ e \in S \cup {e}
    BY <1>1
  <1>3. docs' \in Seq(S \cup {e})
    BY <1>2
  <1>4. DocsOK'
    BY <1>3 DEF DocsOK
  <1> QED BY <1>2, <1>3, <1>4

\* What the rows of an opening are depends on the package alone.
LEMMA RowsConstant == \A p : OpeningRows(p)' = OpeningRows(p)
  BY Zenon DEF OpeningRows, OpeningBins, AccountNet, Total, Net, Pair, FoldSeq, FoldLeft,
      FoldFunction, FoldFunctionOnSet, MapThenFoldSet, ToSet

LEMMA HeldConstant == Held(mark, cancelled)' = Held(mark', cancelled')
  BY RowsConstant DEF Held, Reversed

\* Nothing but a take-on, its cancellation or a submit touches the books of
\* the company.
LEMMA OpeningStep ==
    ASSUME HandlersOK, OpeningInv, [Next]_vars
    PROVE  OpeningInv'
  <1> USE DEF OpeningInv
  <1>1. ASSUME UNCHANGED <<docs, mark, keys, books, cancelled>>, DOMAIN answer' = Handlers,
               \A h \in Handlers : answer'[h] \in {NoPackage, mark}
        PROVE  OpeningInv'
    <2>1. DocsOK' /\ OpeningComesFirst'
      BY <1>1 DEF DocsOK, OpeningComesFirst, IsOpening
    <2>2. mark' # NoPackage => books' = Held(mark', cancelled')
      BY <1>1
    <2>3. mark' # NoPackage => books' = Held(mark, cancelled)'
      BY <2>2, HeldConstant
    <2> QED BY <1>1, <2>1, <2>3
  <1>2. ASSUME NEW h \in Handlers, SettingsStep(h) /\ UNCHANGED takeOnVars PROVE OpeningInv'
    BY <1>1, <1>2 DEF takeOnVars, HandlersOK
  <1>3. ASSUME NEW h \in Handlers, TakeOnStep(h) PROVE OpeningInv'
    <2>0. At(h, "start", "takeon") \/ At(h, "write", "takeon") => Pkg(h).migration \in Migrations
      BY TakeOnAssumption DEF IsPackage, At, Pkg, HandlersOK
    <2>1. ASSUME NEW told \in {NoPackage, mark}, Tell(h, told), UNCHANGED <<docs, mark, keys, books, cancelled>>
          PROVE  OpeningInv'
      BY <1>1, <2>1 DEF Tell, HandlersOK
    <2>2. ASSUME NEW where, Proceed(h, where), UNCHANGED <<docs, mark, keys, books, cancelled>>
          PROVE  OpeningInv'
      BY <1>1, <2>2 DEF Proceed, HandlersOK
    <2>3. \A stored \in {NoPackage, mark} : same_package(h, stored) \in {NoPackage, mark}
      BY DEF same_package
    <2>4. CASE ReadMigrationKey(h)
      BY <2>0, <2>1, <2>2, <2>3, <2>4 DEF ReadMigrationKey, storeUnchanged
    <2>5. CASE build(h)
      BY <2>1, <2>2, <2>5 DEF build, storeUnchanged
    <2>6. CASE CommitReplayed(h)
      BY <2>0, <2>1, <2>3, <2>6 DEF CommitReplayed, storeUnchanged
    <2>7. CASE posting_commit(h) /\ Tell(h, NoPackage) /\ UNCHANGED <<docs, mark, keys, books, cancelled>>
      BY <2>1, <2>7
    <2>8. CASE posting_commit(h) /\ ~(Tell(h, NoPackage) /\ UNCHANGED <<docs, mark, keys, books, cancelled>>)
      <3> DEFINE p == Pkg(h)
      <3>1. /\ EmptyCompany /\ docs' = Append(docs, [package |-> p]) /\ mark' = p
            /\ keys' = [keys EXCEPT ![p.migration] = p]
            /\ books' = OpeningRows(p) /\ Tell(h, p) /\ cancelled' = cancelled
        BY <2>8 DEF posting_commit
      <3>2. Len(docs) = 0 /\ mark = NoPackage
        BY <3>1 DEF EmptyCompany
      <3>3. /\ DocsOK' /\ Len(docs') = 1 /\ DOMAIN docs' = 1..1 /\ docs'[1] = [package |-> p]
        BY <3>1, <3>2, OneMore
      <3>4. OpeningComesFirst'
        BY <3>3 DEF OpeningComesFirst
      <3>5. books' = Held(mark, cancelled)' /\ ~cancelled'
        <4>1. ~cancelled' /\ books' = OpeningRows(mark')
          BY <3>1, <3>2
        <4>2. books' = Held(mark', cancelled')
          BY <4>1 DEF Held
        <4> QED BY <4>1, <4>2, HeldConstant
      <3>6. DOMAIN keys' = Migrations /\ \A m \in Migrations : keys'[m] \in {NoPackage, mark'}
        BY <3>1, <3>2
      <3>7. \A g \in Handlers : answer'[g] \in {NoPackage, mark'}
        BY <3>1, <3>2 DEF Tell, HandlersOK
      <3> QED BY <3>1, <3>3, <3>4, <3>5, <3>6, <3>7
    <2> QED BY <1>3, <2>4, <2>5, <2>6, <2>7, <2>8 DEF TakeOnStep
  <1>4. ASSUME NEW t, NEW date, Submit(t, date) PROVE OpeningInv'
    <2> DEFINE e == [doctype |-> t, number |-> series[t] + 1]
    <2>1. docs' = Append(docs, e) /\ UNCHANGED <<mark, keys, books, cancelled, answer>>
      BY <1>4 DEF Submit
    <2>2. /\ DocsOK' /\ Len(docs) \in Nat /\ Len(docs') = Len(docs) + 1
          /\ DOMAIN docs' = 1..Len(docs')
          /\ \A i \in 1..Len(docs) : i \in DOMAIN docs /\ docs'[i] = docs[i]
          /\ docs'[Len(docs')] = e
      BY <2>1, OneMore
    <2>3. ~IsOpening(e)
      BY DEF IsOpening
    <2>4. OpeningComesFirst'
      <3> SUFFICES ASSUME NEW i \in DOMAIN docs', IsOpening(docs'[i]) PROVE i = 1
        BY DEF OpeningComesFirst, IsOpening
      <3> HIDE DEF e
      <3>1. i \in 1..Len(docs)
        BY <2>2, <2>3
      <3> QED BY <2>2, <3>1 DEF OpeningComesFirst
    <2>5. mark' # NoPackage => Len(docs') > 0 /\ docs'[1] = [package |-> mark']
      <3> HIDE DEF e
      <3>1. mark # NoPackage => 1 \in 1..Len(docs) /\ docs[1] = [package |-> mark]
        BY <2>2
      <3> QED BY <2>1, <2>2, <3>1
    <2>6. mark' # NoPackage => books' = Held(mark, cancelled)'
      <3>1. mark' # NoPackage => books' = Held(mark', cancelled')
        BY <2>1
      <3> QED BY <3>1, HeldConstant
    <2> QED BY <2>1, <2>2, <2>4, <2>5, <2>6
  <1>5. CASE UNCHANGED vars
    BY <1>1, <1>5 DEF vars, takeOnVars, HandlersOK
  <1>6. CASE CancelOpening
    <2>1. /\ mark # NoPackage /\ ~cancelled /\ cancelled' = TRUE
          /\ books' = Reversed(books) /\ UNCHANGED <<docs, mark, keys, answer>>
      BY <1>6 DEF CancelOpening
    <2>2. DocsOK' /\ OpeningComesFirst'
      BY <2>1 DEF DocsOK, OpeningComesFirst, IsOpening
    <2>3. books = OpeningRows(mark)
      BY <2>1 DEF Held
    <2>4. books' = Held(mark', cancelled')
      BY <2>1, <2>3 DEF Held
    <2>5. books' = Held(mark, cancelled)'
      BY <2>4, HeldConstant
    <2> QED BY <2>1, <2>2, <2>5
  <1> QED BY <1>2, <1>3, <1>4, <1>5, <1>6 DEF Next

LEMMA OpeningInvariant == Spec => []OpeningInv
  <1>1. Init => OpeningInv
    <2> SUFFICES ASSUME Init PROVE OpeningInv
      OBVIOUS
    <2>1. docs = <<>> /\ mark = NoPackage /\ cancelled = FALSE
      BY DEF Init
    <2>2. DocsOK
      <3>1. docs \in Seq({})
        BY <2>1
      <3> QED BY <3>1 DEF DocsOK
    <2>3. OpeningComesFirst
      BY <2>1 DEF OpeningComesFirst
    <2>4. /\ DOMAIN keys = Migrations /\ \A m \in Migrations : keys[m] = NoPackage
          /\ \A h \in Handlers : answer[h] = NoPackage
      BY DEF Init
    <2> QED BY <2>1, <2>2, <2>3, <2>4 DEF OpeningInv
  <1>2. HandlersOK /\ OpeningInv /\ [Next]_vars => OpeningInv'
    BY OpeningStep
  <1> QED BY <1>1, <1>2, HandlersInvariant, PTL DEF Spec

\* A Solo book only ever comes into an empty company, as its first document
\* and once, for any number of take-ons and submits that were under way when
\* the first of them committed (posting_commit).
THEOREM OpeningCorrect == Spec => []OpeningComesFirst
  <1>1. OpeningInv => OpeningComesFirst
    BY DEF OpeningInv
  <1> QED BY <1>1, OpeningInvariant, PTL

\* A caller who is told its package is in place has that package, and no
\* other, as the company's opening, whatever packages other requests sent under
\* the same migration id: its rows are the books', in full or, once the opening
\* was cancelled, reversed (same_package, import_solo_opening, build_cancel).
THEOREM AnswersCorrect == Spec => []AnsweredIsHeld
  <1>1. OpeningInv => AnsweredIsHeld
    BY DEF OpeningInv, AnsweredIsHeld, Held
  <1> QED BY <1>1, OpeningInvariant, PTL

\* The opening is posted in a period that is open when it commits, wherever
\* the lock was when the package was judged (build, posting_commit).
THEOREM OpenPeriodCorrect == Spec => OpeningInOpenPeriod
  <1>1. [Next]_vars => [mark' # mark => mark'.date > lock]_vars
    <2> SUFFICES ASSUME [Next]_vars, mark' # mark PROVE mark'.date > lock
      OBVIOUS
    <2>1. PICK h \in Handlers : TakeOnStep(h)
      BY DEF Next, Submit, CancelOpening, vars, takeOnVars
    <2>2. posting_commit(h) /\ OpenPeriod(h) /\ mark' = Pkg(h)
      BY <2>1 DEF TakeOnStep, ReadMigrationKey, build, CommitReplayed, posting_commit,
          storeUnchanged
    <2> QED BY <2>2 DEF OpenPeriod
  <1> QED BY <1>1, PTL DEF Spec, OpeningInOpenPeriod

-----------------------------------------------------------------------------
(* What a valid package writes adds up.                                    *)

\* The sums of a package, term by term.
LEMMA LineSums ==
    ASSUME NEW p
    PROVE  /\ \A a : AccountNet(p, a) =
                 SumFunctionOnSet([i \in DOMAIN p.lines |->
                     IF p.lines[i].account = a THEN Net(p.lines[i]) ELSE 0], DOMAIN p.lines)
           /\ Receivables(p) =
                 SumFunctionOnSet([i \in DOMAIN p.lines |->
                     IF p.lines[i].party \in Customers THEN Net(p.lines[i]) ELSE 0], DOMAIN p.lines)
           /\ Payables(p) =
                 SumFunctionOnSet([i \in DOMAIN p.lines |->
                     IF p.lines[i].party \in Suppliers THEN -Net(p.lines[i]) ELSE 0], DOMAIN p.lines)
           /\ check_balanced(p) =>
                 SumFunctionOnSet([i \in DOMAIN p.lines |-> Net(p.lines[i])], DOMAIN p.lines) = 0
  BY DEF AccountNet, Receivables, Payables, check_balanced, Total, SumFunction

LEMMA StockSums ==
    ASSUME NEW p
    PROVE  \A a : StockOn(p, a) =
              SumFunctionOnSet([i \in DOMAIN p.stock |->
                  IF p.stock[i].account = a THEN p.stock[i].value ELSE 0], DOMAIN p.stock)
  BY DEF StockOn, Total, SumFunction

LEMMA PartySums ==
    ASSUME NEW p, NEW c \in Customers \cup Suppliers
    PROVE  OpeningRows(p).party[c] =
              SumFunctionOnSet([i \in DOMAIN p.lines |->
                  IF p.lines[i].party # c THEN 0
                  ELSE IF c \in Customers THEN Net(p.lines[i]) ELSE -Net(p.lines[i])],
                  DOMAIN p.lines)
  BY DEF OpeningRows, Total, SumFunction

\* The lists of a package are finite and hold numbers.
LEMMA PackageLists ==
    ASSUME NEW p, IsPackage(p)
    PROVE  /\ IsFiniteSet(DOMAIN p.lines) /\ IsFiniteSet(DOMAIN p.stock)
           /\ DOMAIN p.stock \subseteq Int
           /\ \A i \in DOMAIN p.lines : Net(p.lines[i]) \in Int
           /\ \A i \in DOMAIN p.stock : p.stock[i].value \in Int
  <1>1. /\ DOMAIN p.lines = 1..Len(p.lines) /\ Len(p.lines) \in Nat
        /\ DOMAIN p.stock = 1..Len(p.stock) /\ Len(p.stock) \in Nat
    BY DEF IsPackage, IsList
  <1>2. IsFiniteSet(DOMAIN p.lines) /\ IsFiniteSet(DOMAIN p.stock)
    BY <1>1, FS_Interval
  <1>3. \A i \in DOMAIN p.lines : p.lines[i].debit \in Int /\ p.lines[i].credit \in Int
    BY DEF IsPackage, ToSet
  <1>4. \A i \in DOMAIN p.stock : p.stock[i].value \in Int
    BY DEF IsPackage, ToSet
  <1> QED BY <1>1, <1>2, <1>3, <1>4 DEF Net

\* The ledger of an opening balances.
LEMMA OpeningBalances ==
    ASSUME NEW p, IsPackage(p), Valid(p)
    PROVE  SumFunctionOnSet(OpeningRows(p).gl, Accounts) = 0
  <1> DEFINE I == DOMAIN p.lines
             net == [i \in I |-> Net(p.lines[i])]
             acc == [i \in I |-> p.lines[i].account]
             q == [a \in Accounts |-> [i \in I |-> IF p.lines[i].account = a
                                                   THEN Net(p.lines[i]) ELSE 0]]
             g == OpeningRows(p).gl
  <1>1. IsFiniteSet(I) /\ IsFiniteSet(Accounts) /\ \A i \in I : net[i] \in Int
    BY PackageLists, TakeOnAssumption
  <1>2. \A a \in Accounts : g[a] = AccountNet(p, a)
    BY DEF OpeningRows
  <1>3. \A a \in Accounts : g[a] = SumFunctionOnSet(q[a], I)
    BY <1>2, LineSums
  <1>4. \A a \in Accounts : \A i \in I : q[a][i] = IF acc[i] = a THEN net[i] ELSE 0
    OBVIOUS
  <1>5. \A i \in I : net[i] = IF acc[i] \in Accounts THEN net[i] ELSE 0
    BY DEF Valid, LinesOK, ToSet
  <1>6. SumFunctionOnSet(net, I) = 0
    BY LineSums DEF Valid
  <1> HIDE DEF I, net, acc, q, g
  <1>7. ByKey(I, Accounts, net, acc, q, g, net)
    BY <1>1, <1>3, <1>4, <1>5 DEF ByKey
  <1>8. SumFunctionOnSet(g, Accounts) = SumFunctionOnSet(net, I)
    BY <1>1, <1>7, SumByKey
  <1> QED BY <1>6, <1>8 DEF g

\* What customers owe together is what the Solo book stated.
LEMMA CustomersOwe ==
    ASSUME NEW p, IsPackage(p), Valid(p)
    PROVE  SumFunctionOnSet(OpeningRows(p).party, Customers) = p.expected.receivables
  <1> DEFINE I == DOMAIN p.lines
             net == [i \in I |-> Net(p.lines[i])]
             who == [i \in I |-> p.lines[i].party]
             q == [c \in Customers |-> [i \in I |->
                     IF p.lines[i].party # c THEN 0
                     ELSE IF c \in Customers THEN Net(p.lines[i]) ELSE -Net(p.lines[i])]]
             h == [i \in I |-> IF p.lines[i].party \in Customers THEN Net(p.lines[i]) ELSE 0]
             g == OpeningRows(p).party
  <1>1. IsFiniteSet(I) /\ IsFiniteSet(Customers) /\ \A i \in I : net[i] \in Int
    BY PackageLists, TakeOnAssumption
  <1>2. \A c \in Customers : g[c] = SumFunctionOnSet(q[c], I)
    BY PartySums
  <1>3. \A c \in Customers : \A i \in I : q[c][i] = IF who[i] = c THEN net[i] ELSE 0
    OBVIOUS
  <1>4. \A i \in I : h[i] = IF who[i] \in Customers THEN net[i] ELSE 0
    OBVIOUS
  <1>5. SumFunctionOnSet(h, I) = p.expected.receivables
    BY LineSums DEF Valid, Reconciles
  <1> HIDE DEF I, net, who, q, h, g
  <1>6. ByKey(I, Customers, net, who, q, g, h)
    BY <1>1, <1>2, <1>3, <1>4 DEF ByKey
  <1>7. SumFunctionOnSet(g, Customers) = SumFunctionOnSet(h, I)
    BY <1>1, <1>6, SumByKey
  <1> QED BY <1>5, <1>7 DEF g

\* What is owed to suppliers together is what the Solo book stated.
LEMMA SuppliersOwed ==
    ASSUME NEW p, IsPackage(p), Valid(p)
    PROVE  SumFunctionOnSet(OpeningRows(p).party, Suppliers) = p.expected.payables
  <1> DEFINE I == DOMAIN p.lines
             owed == [i \in I |-> -Net(p.lines[i])]
             who == [i \in I |-> p.lines[i].party]
             q == [c \in Suppliers |-> [i \in I |->
                     IF p.lines[i].party # c THEN 0
                     ELSE IF c \in Customers THEN Net(p.lines[i]) ELSE -Net(p.lines[i])]]
             h == [i \in I |-> IF p.lines[i].party \in Suppliers THEN -Net(p.lines[i]) ELSE 0]
             g == OpeningRows(p).party
  <1>1. IsFiniteSet(I) /\ IsFiniteSet(Suppliers) /\ \A i \in I : owed[i] \in Int
    BY PackageLists, TakeOnAssumption
  <1>2. \A c \in Suppliers : g[c] = SumFunctionOnSet(q[c], I)
    BY PartySums
  <1>3. \A c \in Suppliers : \A i \in I : q[c][i] = IF who[i] = c THEN owed[i] ELSE 0
    BY TakeOnAssumption
  <1>4. \A i \in I : h[i] = IF who[i] \in Suppliers THEN owed[i] ELSE 0
    OBVIOUS
  <1>5. SumFunctionOnSet(h, I) = p.expected.payables
    BY LineSums DEF Valid, Reconciles
  <1> HIDE DEF I, owed, who, q, h, g
  <1>6. ByKey(I, Suppliers, owed, who, q, g, h)
    BY <1>1, <1>2, <1>3, <1>4 DEF ByKey
  <1>7. SumFunctionOnSet(g, Suppliers) = SumFunctionOnSet(h, I)
    BY <1>1, <1>6, SumByKey
  <1> QED BY <1>5, <1>7 DEF g

\* The inventory accounts hold the value of the stock lines.
LEMMA InventoryHolds ==
    ASSUME NEW p, IsPackage(p), Valid(p)
    PROVE  SumFunctionOnSet(OpeningRows(p).gl, StockAccounts(p)) =
              SumFunctionOnSet([i \in DOMAIN p.stock |-> p.stock[i].value], DOMAIN p.stock)
  <1> DEFINE J == DOMAIN p.stock
             S == StockAccounts(p)
             val == [i \in J |-> p.stock[i].value]
             acc == [i \in J |-> p.stock[i].account]
             q == [a \in S |-> [i \in J |-> IF p.stock[i].account = a
                                            THEN p.stock[i].value ELSE 0]]
             g == OpeningRows(p).gl
  <1>1. S \subseteq Accounts /\ \A i \in J : p.stock[i].account \in S
    BY DEF Valid, StockOK, StockAccounts, ToSet
  <1>2. IsFiniteSet(J) /\ IsFiniteSet(S) /\ \A i \in J : val[i] \in Int
    BY <1>1, PackageLists, TakeOnAssumption, FS_Subset
  <1>3. \A a \in S : g[a] = AccountNet(p, a)
    BY <1>1 DEF OpeningRows
  <1>4. \A a \in S : g[a] = StockOn(p, a)
    BY <1>3 DEF Valid, Reconciles
  <1>5. \A a \in S : g[a] = SumFunctionOnSet(q[a], J)
    BY <1>4, StockSums
  <1>6. \A a \in S : \A i \in J : q[a][i] = IF acc[i] = a THEN val[i] ELSE 0
    OBVIOUS
  <1>7. \A i \in J : val[i] = IF acc[i] \in S THEN val[i] ELSE 0
    BY <1>1
  <1> HIDE DEF J, S, val, acc, q, g
  <1>8. ByKey(J, S, val, acc, q, g, val)
    BY <1>2, <1>5, <1>6, <1>7 DEF ByKey
  <1>9. SumFunctionOnSet(g, S) = SumFunctionOnSet(val, J)
    BY <1>2, <1>8, SumByKey
  <1> QED BY <1>9 DEF g, S, val, J

\* A pair that is listed once is in its bin as it is listed.
LEMMA BinIsLine ==
    ASSUME NEW p, IsPackage(p), Valid(p), NEW i \in DOMAIN p.stock
    PROVE  /\ Pair(p.stock[i]) \in DOMAIN OpeningBins(p)
           /\ OpeningBins(p)[Pair(p.stock[i])].value = p.stock[i].value
  <1> DEFINE pair == Pair(p.stock[i])
             S == {j \in DOMAIN p.stock : Pair(p.stock[j]) = pair}
  <1>1. S = {i}
    BY DEF Valid, StockOK
  <1>2. i \in Int
    BY PackageLists
  <1>3. Max(S) = i
    BY <1>1, <1>2 DEF Max
  <1>4. pair \in {Pair(s) : s \in ToSet(p.stock)}
    BY DEF ToSet
  <1> HIDE DEF pair
  <1>5. OpeningBins(p)[pair] = [qty |-> p.stock[Max(S)].qty, value |-> p.stock[Max(S)].value]
    BY <1>4 DEF OpeningBins
  <1> QED BY <1>3, <1>4, <1>5 DEF OpeningBins, pair

\* The bins hold the value of the stock lines too.
LEMMA BinsHold ==
    ASSUME NEW p, IsPackage(p), Valid(p)
    PROVE  SumFunctionOnSet([x \in DOMAIN OpeningBins(p) |-> OpeningBins(p)[x].value],
                            DOMAIN OpeningBins(p)) =
              SumFunctionOnSet([i \in DOMAIN p.stock |-> p.stock[i].value], DOMAIN p.stock)
  <1> DEFINE J == DOMAIN p.stock
             S == DOMAIN OpeningBins(p)
             val == [i \in J |-> p.stock[i].value]
             key == [i \in J |-> Pair(p.stock[i])]
             q == [x \in S |-> [i \in J |-> IF key[i] = x THEN val[i] ELSE 0]]
             g == [x \in S |-> OpeningBins(p)[x].value]
  <1>1. S = {key[i] : i \in J}
    BY DEF OpeningBins, ToSet
  <1>2. IsFiniteSet(J) /\ \A i \in J : val[i] \in Int
    BY PackageLists
  <1>3. \A i, j \in J : key[i] = key[j] => i = j
    BY DEF Valid, StockOK
  <1>4. \A i \in J : key[i] \in S /\ g[key[i]] = val[i]
    BY BinIsLine
  <1>5. \A x \in S : \A i \in J : q[x][i] = IF key[i] = x THEN val[i] ELSE 0
    OBVIOUS
  <1> HIDE DEF J, S, val, key, q, g
  <1>6. IsFiniteSet(S)
    <2>1. IsFiniteSet({key[i] : i \in J})
      BY <1>2, FiniteImage
    <2> QED BY <1>1, <2>1
  <1>7. \A x \in S : g[x] = SumFunctionOnSet(q[x], J)
    <2> SUFFICES ASSUME NEW x \in S PROVE g[x] = SumFunctionOnSet(q[x], J)
      OBVIOUS
    <2>1. PICK e \in J : key[e] = x
      BY <1>1
    <2>2. q[x][e] = val[e] /\ val[e] \in Int
      BY <1>2, <1>5, <2>1
    <2>3. \A i \in J \ {e} : q[x][i] = 0
      BY <1>3, <1>5, <2>1
    <2>4. SumFunctionOnSet(q[x], J) = q[x][e]
      BY <1>2, <2>2, <2>3, SumSingle
    <2> QED BY <1>4, <2>1, <2>2, <2>4
  <1>8. \A i \in J : val[i] = IF key[i] \in S THEN val[i] ELSE 0
    BY <1>4
  <1>9. ByKey(J, S, val, key, q, g, val)
    BY <1>2, <1>5, <1>7, <1>8 DEF ByKey
  <1>10. SumFunctionOnSet(g, S) = SumFunctionOnSet(val, J)
    BY <1>2, <1>6, <1>9, SumByKey
  <1> QED BY <1>10 DEF g, S, val, J

\* Whatever a valid package says, the rows written for it agree with each
\* other and with what the Solo book stated.
LEMMA RowsReconcile ==
    ASSUME OpeningInv, mark # NoPackage => IsPackage(mark) /\ Valid(mark)
    PROVE  OpeningReconciles
  <1> SUFFICES ASSUME mark # NoPackage, ~cancelled PROVE OpeningReconciles
    BY DEF OpeningReconciles
  <1>0. books = OpeningRows(mark)
    BY DEF OpeningInv, Held
  <1>1. /\ books.gl = OpeningRows(mark).gl /\ books.party = OpeningRows(mark).party
        /\ books.bins = OpeningBins(mark)
    <2>1. OpeningRows(mark).bins = OpeningBins(mark)
      BY Zenon DEF OpeningRows
    <2> QED BY <1>0, <2>1
  <1>2. SumFunctionOnSet(books.gl, Accounts) = 0
    BY <1>1, OpeningBalances
  <1>3. /\ SumFunctionOnSet(books.party, Customers) = mark.expected.receivables
        /\ SumFunctionOnSet(books.party, Suppliers) = mark.expected.payables
    BY <1>1, CustomersOwe, SuppliersOwed
  <1>4. SumFunctionOnSet([x \in DOMAIN books.bins |-> books.bins[x].value], DOMAIN books.bins)
          = SumFunctionOnSet(books.gl, StockAccounts(mark))
    BY <1>1, InventoryHolds, BinsHold
  <1>5. DOMAIN [x \in DOMAIN books.bins |-> books.bins[x].value] = DOMAIN books.bins
    OBVIOUS
  <1>6. SumFunction([x \in DOMAIN books.bins |-> books.bins[x].value])
          = SumFunctionOnSet(books.gl, StockAccounts(mark))
    BY <1>4, <1>5 DEF SumFunction
  <1> QED BY <1>2, <1>3, <1>6 DEF OpeningReconciles

-----------------------------------------------------------------------------
(* The numbering goes on from the Solo book.                               *)

\* A package about to be written passed every check of build.
Judged == \A h \in Handlers : At(h, "write", "takeon") => Valid(Pkg(h))

MarkValid == mark # NoPackage => IsPackage(mark) /\ Valid(mark)

\* A series stands at the last number given, counted from the Solo book's.
SeriesExact ==
    /\ series \in [Doctypes -> Nat]
    /\ docs = <<>> => \A t \in Doctypes : series[t] = 0
    /\ \A t \in Doctypes : /\ SoloLast(t) \in Nat /\ SoloLast(t) <= series[t]
                           /\ Numbers(t) = (SoloLast(t) + 1)..series[t]

CarriedInv == Judged /\ MarkValid /\ SeriesExact

\* The checks look at the package and the masters only.
LEMMA ChecksConstant ==
    \A p : /\ Valid(p)' <=> Valid(p)
           /\ IsPackage(p)' <=> IsPackage(p)
           /\ \A t : Floors(p, t)' = Floors(p, t)
  <1> SUFFICES ASSUME NEW p
               PROVE  /\ Valid(p)' <=> Valid(p)
                      /\ IsPackage(p)' <=> IsPackage(p)
                      /\ \A t : Floors(p, t)' = Floors(p, t)
    OBVIOUS
  <1>1. LinesOK(p)' <=> LinesOK(p)
    BY Zenon DEF LinesOK, ToSet
  <1>2. check_balanced(p)' <=> check_balanced(p)
    BY Zenon DEF check_balanced, Total, Net, SumFunction, SumFunctionOnSet, FoldFunctionOnSet,
        MapThenFoldSet
  <1>3. StockOK(p)' <=> StockOK(p)
    BY Zenon DEF StockOK, ToSet, Pair
  <1>4. Reconciles(p)' <=> Reconciles(p)
    BY Zenon DEF Reconciles, AccountNet, StockAccounts, StockOn, Receivables, Payables, ToSet,
        Total, Net, SumFunction, SumFunctionOnSet, FoldFunctionOnSet, MapThenFoldSet
  <1>5. NumberingOK(p)' <=> NumberingOK(p)
    BY Zenon DEF NumberingOK, ToSet
  <1>6. IsPackage(p)' <=> IsPackage(p)
    BY Zenon DEF IsPackage, IsList, ToSet
  <1>7. \A t : Floors(p, t)' = Floors(p, t)
    BY Zenon DEF Floors, ToSet
  <1> QED BY <1>1, <1>2, <1>3, <1>4, <1>5, <1>6, <1>7 DEF Valid

\* Only build sends a package on to be written.
LEMMA JudgedStep ==
    ASSUME HandlersOK, Judged, [Next]_vars
    PROVE  Judged'
  <1> USE DEF HandlersOK
  <1>1. ASSUME NEW h \in Handlers, SettingsStep(h) \/ TakeOnStep(h), At(h, "write", "takeon")'
        PROVE  cmd'[h] = cmd[h] /\ Valid(Pkg(h))
    <2>1. ASSUME End(h) PROVE FALSE
      BY <1>1, <2>1 DEF End, At
    <2>2. CASE \E c \in Commands : Begin(h, c)
      BY <1>1, <2>2 DEF Begin, At
    <2>3. CASE Abandon(h)
      BY <2>1, <2>3 DEF Abandon
    <2>4. CASE ReadSettings(h)
      BY <1>1, <2>1, <2>4 DEF ReadSettings, Read, At
    <2>5. CASE LockBooks(h)
      BY <1>1, <2>1, <2>5 DEF LockBooks, Read, At
    <2>6. CASE put_company_settings(h) \/ WriteLock(h)
      BY <2>1, <2>6 DEF put_company_settings, WriteLock
    <2>7. CASE ReadMigrationKey(h)
      BY <1>1, <2>1, <2>7 DEF ReadMigrationKey, Tell, Proceed, At
    <2>8. CASE build(h)
      BY <2>1, <2>8 DEF build, Tell, Proceed
    <2>9. CASE CommitReplayed(h) \/ posting_commit(h)
      BY <2>1, <2>9 DEF CommitReplayed, posting_commit, Tell
    <2> QED BY <1>1, <2>2, <2>3, <2>4, <2>5, <2>6, <2>7, <2>8, <2>9 DEF SettingsStep, TakeOnStep
  <1>2. ASSUME NEW h \in Handlers, SettingsStep(h) \/ TakeOnStep(h) PROVE Judged'
    <2> SUFFICES ASSUME NEW g \in Handlers, At(g, "write", "takeon")' PROVE Valid(Pkg(g))'
      BY DEF Judged
    <2>1. cmd'[g] = cmd[g] /\ Valid(Pkg(g))
      <3>1. CASE g = h
        BY <1>1, <1>2, <3>1
      <3>2. CASE g # h
        BY <1>2, <3>2, OneHandler DEF Judged, At
      <3> QED BY <3>1, <3>2
    <2>2. Pkg(g)' = Pkg(g)
      BY <2>1 DEF Pkg
    <2>3. Valid(Pkg(g)')
      BY <2>1, <2>2
    <2> QED BY <2>3, ChecksConstant
  <1>3. CASE (\E t, date : Submit(t, date)) \/ CancelOpening \/ UNCHANGED vars
    <2>1. pc' = pc /\ cmd' = cmd
      BY <1>3 DEF Submit, CancelOpening, vars, settingsVars, handlerVars
    <2> SUFFICES ASSUME NEW g \in Handlers, At(g, "write", "takeon")' PROVE Valid(Pkg(g))'
      BY DEF Judged
    <2>2. Valid(Pkg(g)) /\ Pkg(g)' = Pkg(g)
      BY <2>1 DEF Judged, At, Pkg
    <2>3. Valid(Pkg(g)')
      BY <2>2
    <2> QED BY <2>3, ChecksConstant
  <1> QED BY <1>2, <1>3 DEF Next

\* The books of a company change by the commit of a take-on, by a submit, or
\* not at all.
LEMMA BookSteps ==
    ASSUME HandlersOK, Judged, [Next]_vars
    PROVE  \/ UNCHANGED <<docs, series, mark>>
           \/ \E p : /\ IsPackage(p) /\ Valid(p) /\ EmptyCompany
                     /\ docs' = Append(docs, [package |-> p])
                     /\ series' = Continued(p) /\ mark' = p
           \/ \E t \in Doctypes :
                     /\ docs' = Append(docs, [doctype |-> t, number |-> series[t] + 1])
                     /\ series' = [series EXCEPT ![t] = @ + 1] /\ mark' = mark
  <1>1. CASE \E h \in Handlers : posting_commit(h) /\ ~UNCHANGED <<docs, series, mark>>
    <2>1. PICK h \in Handlers : posting_commit(h) /\ ~UNCHANGED <<docs, series, mark>>
      BY <1>1
    <2>2. /\ At(h, "write", "takeon") /\ EmptyCompany
          /\ docs' = Append(docs, [package |-> Pkg(h)])
          /\ series' = Continued(Pkg(h)) /\ mark' = Pkg(h)
      BY <2>1 DEF posting_commit
    <2>3. IsPackage(Pkg(h)) /\ Valid(Pkg(h))
      BY <2>2, TakeOnAssumption DEF HandlersOK, Judged, At, Pkg
    <2> QED BY <2>2, <2>3
  <1>2. CASE \E t \in Doctypes, date \in 1..(Tomorrow + 1) : Submit(t, date)
    BY <1>2 DEF Submit
  <1>3. CASE \E h \in Handlers : ReadMigrationKey(h) \/ build(h) \/ CommitReplayed(h)
    BY <1>3 DEF ReadMigrationKey, build, CommitReplayed, storeUnchanged
  <1>4. CASE (\E h \in Handlers : SettingsStep(h) /\ UNCHANGED takeOnVars) \/ UNCHANGED vars
    BY <1>4 DEF vars, takeOnVars
  <1>5. CASE CancelOpening
    BY <1>5 DEF CancelOpening
  <1> QED BY <1>1, <1>2, <1>3, <1>4, <1>5 DEF Next, TakeOnStep

\* The last number of a doctype a valid package states.
LEMMA FloorsBounded ==
    ASSUME NEW p, Valid(p), NEW t
    PROVE  \E n \in Nat : Max({0} \cup Floors(p, t)) = n
  <1>1. Floors(p, t) \subseteq 0..MaxValue
    BY DEF Floors, Valid, NumberingOK
  <1>2. \A x, y \in Floors(p, t) : x = y
    BY DEF Floors, Valid, NumberingOK, ToSet
  <1>3. CASE Floors(p, t) = {}
    <2>1. \E x \in {0} \cup Floors(p, t) : \A y \in {0} \cup Floors(p, t) : x >= y
      BY <1>3
    <2> QED BY <1>3, <2>1 DEF Max
  <1>4. ASSUME NEW x \in Floors(p, t) PROVE \E n \in Nat : Max({0} \cup Floors(p, t)) = n
    <2>1. {0} \cup Floors(p, t) = {0, x} /\ x \in Nat
      BY <1>1, <1>2, TakeOnAssumption
    <2>2. Max({0, x}) \in {0, x}
      BY <2>1 DEF Max
    <2> QED BY <2>1, <2>2
  <1> QED BY <1>3, <1>4

\* Submits number on where the series stands, and a take-on sets the series
\* of an empty company.
LEMMA SeriesStep ==
    ASSUME HandlersOK, OpeningInv, CarriedInv, [Next]_vars
    PROVE  SeriesExact'
  <1> USE DEF CarriedInv
  <1>1. CASE UNCHANGED <<docs, series, mark>>
    <2>1. \A t : Numbers(t)' = Numbers(t)
      BY <1>1 DEF Numbers, IsOpening
    <2>2. \A t : SoloLast(t)' = SoloLast(t)
      <3>1. \A t : Floors(mark, t)' = Floors(mark', t)
        BY ChecksConstant
      <3> QED BY <1>1, <3>1 DEF SoloLast, Max
    <2> QED BY <1>1, <2>1, <2>2 DEF SeriesExact
  <1>2. ASSUME NEW p, IsPackage(p), Valid(p), EmptyCompany,
               docs' = Append(docs, [package |-> p]), series' = Continued(p), mark' = p
        PROVE  SeriesExact'
    <2>1. docs = <<>> /\ \A t \in Doctypes : series[t] = 0
      BY <1>2 DEF EmptyCompany, SeriesExact
    <2>2. Len(docs') = 1 /\ DOMAIN docs' = 1..1 /\ docs'[1] = [package |-> p]
      BY <1>2, <2>1, OneMore DEF OpeningInv
    <2>3. docs' # <<>> /\ \A i \in DOMAIN docs' : IsOpening(docs'[i])
      BY <2>2 DEF IsOpening
    <2>4. \A t : Numbers(t)' = {}
      BY <2>3 DEF Numbers, IsOpening
    <2>5. \A t \in Doctypes : series'[t] = Max({0} \cup Floors(p, t)) /\ series'[t] \in Nat
      BY <1>2, <2>1, FloorsBounded DEF Continued
    <2>6. \A t \in Doctypes : SoloLast(t)' = series'[t]
      <3>1. \A t : Floors(mark, t)' = Floors(p, t)
        <4>1. \A t : Floors(mark, t)' = Floors(mark', t)
          BY ChecksConstant
        <4> QED BY <1>2, <4>1
      <3>2. p # NoPackage
        BY <1>2 DEF IsPackage
      <3> QED BY <1>2, <2>5, <3>1, <3>2 DEF SoloLast, Max
    <2>7. series' \in [Doctypes -> Nat]
      BY <1>2, <2>5 DEF Continued
    <2>8. \A n \in Nat : (n + 1)..n = {}
      OBVIOUS
    <2>9. ASSUME NEW t \in Doctypes
          PROVE  /\ SoloLast(t)' \in Nat /\ SoloLast(t)' <= series'[t]
                 /\ Numbers(t)' = (SoloLast(t)' + 1)..series'[t]
      <3>1. (SoloLast(t)' + 1)..series'[t] = {}
        BY <2>5, <2>6, <2>8
      <3>2. SoloLast(t)' = series'[t] /\ series'[t] \in Nat
        BY <2>5, <2>6
      <3>3. Numbers(t)' = {}
        BY <2>4
      <3> QED BY <3>1, <3>2, <3>3
    <2> QED BY <2>3, <2>7, <2>9 DEF SeriesExact
  <1>3. ASSUME NEW t \in Doctypes,
               docs' = Append(docs, [doctype |-> t, number |-> series[t] + 1]),
               series' = [series EXCEPT ![t] = @ + 1], mark' = mark
        PROVE  SeriesExact'
    <2> DEFINE e == [doctype |-> t, number |-> series[t] + 1]
    <2>0. ~IsOpening(e) /\ e.doctype = t /\ e.number = series[t] + 1
      BY DEF IsOpening
    <2> HIDE DEF e
    <2>1. /\ Len(docs) \in Nat /\ Len(docs') = Len(docs) + 1 /\ DOMAIN docs' = 1..Len(docs')
          /\ \A i \in 1..Len(docs) : i \in DOMAIN docs /\ docs'[i] = docs[i]
          /\ docs'[Len(docs')] = e
      BY <1>3, OneMore DEF OpeningInv, e
    <2>2. DOMAIN docs = 1..Len(docs)
      BY DEF OpeningInv, DocsOK
    <2>3. \A u : Numbers(u)' = IF u = t THEN Numbers(u) \cup {series[t] + 1} ELSE Numbers(u)
      <3> SUFFICES ASSUME NEW u
                   PROVE  Numbers(u)' = IF u = t THEN Numbers(u) \cup {series[t] + 1} ELSE Numbers(u)
        OBVIOUS
      <3> DEFINE J == {j \in DOMAIN docs : ~IsOpening(docs[j]) /\ docs[j].doctype = u}
                 K == {j \in DOMAIN docs' : ~IsOpening(docs'[j]) /\ docs'[j].doctype = u}
      <3>1. K = IF u = t THEN J \cup {Len(docs')} ELSE J
        BY <2>0, <2>1, <2>2
      <3>2. \A j \in J : docs'[j] = docs[j]
        BY <2>1, <2>2
      <3>3. Numbers(u) = {docs[j].number : j \in J} /\ Numbers(u)' = {docs'[j].number : j \in K}
        BY DEF Numbers, IsOpening
      <3> HIDE DEF J, K
      <3> QED BY <2>0, <2>1, <3>1, <3>2, <3>3
    <2>4. \A u : SoloLast(u)' = SoloLast(u)
      <3>1. \A u : Floors(mark, u)' = Floors(mark', u)
        BY ChecksConstant
      <3> QED BY <1>3, <3>1 DEF SoloLast, Max
    <2>5. series' \in [Doctypes -> Nat] /\ series'[t] = series[t] + 1
          /\ \A u \in Doctypes \ {t} : series'[u] = series[u]
      BY <1>3 DEF SeriesExact
    <2>6. docs' # <<>>
      BY <2>1
    <2>7. ASSUME NEW u \in Doctypes
          PROVE  /\ SoloLast(u)' \in Nat /\ SoloLast(u)' <= series'[u]
                 /\ Numbers(u)' = (SoloLast(u)' + 1)..series'[u]
      <3>1. /\ SoloLast(u) \in Nat /\ SoloLast(u) <= series[u] /\ series[u] \in Nat
            /\ Numbers(u) = (SoloLast(u) + 1)..series[u]
        BY DEF SeriesExact
      <3>2. CASE u = t
        <4>1. (SoloLast(u) + 1)..(series[u] + 1) = ((SoloLast(u) + 1)..series[u]) \cup {series[u] + 1}
          BY <3>1
        <4>2. series'[u] = series[u] + 1 /\ SoloLast(u)' = SoloLast(u)
          BY <2>4, <2>5, <3>2
        <4>3. Numbers(u)' = Numbers(u) \cup {series[u] + 1}
          BY <2>3, <3>2
        <4>4. Numbers(u)' = (SoloLast(u) + 1)..(series[u] + 1)
          BY <3>1, <4>1, <4>3
        <4>5. Numbers(u)' = (SoloLast(u)' + 1)..series'[u]
          BY <4>2, <4>4
        <4> QED BY <3>1, <4>2, <4>5
      <3>3. CASE u # t
        BY <2>3, <2>4, <2>5, <3>1, <3>3
      <3> QED BY <3>2, <3>3
    <2> QED BY <2>5, <2>6, <2>7 DEF SeriesExact
  <1>4. \/ UNCHANGED <<docs, series, mark>>
        \/ \E p : /\ IsPackage(p) /\ Valid(p) /\ EmptyCompany
                  /\ docs' = Append(docs, [package |-> p])
                  /\ series' = Continued(p) /\ mark' = p
        \/ \E t \in Doctypes :
                  /\ docs' = Append(docs, [doctype |-> t, number |-> series[t] + 1])
                  /\ series' = [series EXCEPT ![t] = @ + 1] /\ mark' = mark
    BY BookSteps
  <1> QED BY <1>1, <1>2, <1>3, <1>4

LEMMA MarkStep ==
    ASSUME HandlersOK, CarriedInv, [Next]_vars
    PROVE  MarkValid'
  <1>1. mark' = mark \/ (IsPackage(mark') /\ Valid(mark'))
    BY BookSteps DEF CarriedInv
  <1>2. mark' # NoPackage => IsPackage(mark') /\ Valid(mark')
    BY <1>1 DEF CarriedInv, MarkValid
  <1> QED BY <1>2, ChecksConstant DEF MarkValid

LEMMA CarriedInvariant == Spec => []CarriedInv
  <1>1. Init => CarriedInv
    <2> SUFFICES ASSUME Init PROVE CarriedInv
      OBVIOUS
    <2>1. Judged
      BY DEF Init, SettingsInit, Judged, At
    <2>2. docs = <<>> /\ series = [t \in Doctypes |-> 0] /\ mark = NoPackage
      BY DEF Init
    <2>3. \A t : SoloLast(t) = 0 /\ Numbers(t) = {}
      BY <2>2 DEF SoloLast, Numbers
    <2>4. 1..0 = {} /\ 0 + 1 = 1
      OBVIOUS
    <2>5. \A t \in Doctypes : Numbers(t) = (SoloLast(t) + 1)..series[t]
      BY <2>2, <2>3, <2>4
    <2>6. SeriesExact
      BY <2>2, <2>3, <2>5 DEF SeriesExact
    <2> QED BY <2>1, <2>2, <2>6 DEF CarriedInv, MarkValid
  <1>2. HandlersOK /\ OpeningInv /\ CarriedInv /\ [Next]_vars => CarriedInv'
    BY JudgedStep, SeriesStep, MarkStep DEF CarriedInv
  <1> QED BY <1>1, <1>2, HandlersInvariant, OpeningInvariant, PTL DEF Spec

\* Whatever a Solo book states and however many lines it has, the opening that
\* is stored balances, its inventory accounts are its bins and its parties
\* owe what was stated, and the series go on right after the last Solo
\* numbers: what is written agrees because what was sent was checked before
\* and no pair is listed twice, until the opening is cancelled (build,
\* posting_commit).
THEOREM CarriedOverCorrect == Spec => []OpeningCarriedOver
  <1>1. SeriesExact => NumberingContinues
    <2> SUFFICES ASSUME SeriesExact, NEW t \in Doctypes
                 PROVE  Numbers(t) = (SoloLast(t) + 1)..(SoloLast(t) + Cardinality(Numbers(t)))
      BY DEF NumberingContinues
    <2>1. /\ SoloLast(t) \in Nat /\ series[t] \in Nat /\ SoloLast(t) <= series[t]
          /\ Numbers(t) = (SoloLast(t) + 1)..series[t]
      BY DEF SeriesExact
    <2>2. Cardinality(Numbers(t)) = series[t] - SoloLast(t)
      <3> DEFINE a == SoloLast(t) + 1
                 b == series[t]
      <3>1. a \in Int /\ b \in Int /\ b - a + 1 = series[t] - SoloLast(t) /\ a <= b + 1
        BY <2>1
      <3>2. Numbers(t) = a..b
        BY <2>1
      <3>3. a > b => series[t] - SoloLast(t) = 0
        BY <2>1
      <3> HIDE DEF a, b
      <3>4. Cardinality(a..b) = IF a > b THEN 0 ELSE b - a + 1
        BY <3>1, FS_Interval
      <3> QED BY <3>1, <3>2, <3>3, <3>4
    <2>3. SoloLast(t) + Cardinality(Numbers(t)) = series[t]
      BY <2>1, <2>2
    <2> QED BY <2>1, <2>3
  <1>2. OpeningInv /\ CarriedInv => OpeningCarriedOver
    BY <1>1, RowsReconcile DEF CarriedInv, MarkValid, OpeningCarriedOver
  <1> QED BY <1>2, OpeningInvariant, CarriedInvariant, PTL
=============================================================================
