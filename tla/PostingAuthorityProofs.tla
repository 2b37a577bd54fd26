----------------------- MODULE PostingAuthorityProofs -----------------------
(***************************************************************************)
(* Machine-checked facts about the posting authority, for any number of    *)
(* concurrent requests, documents, stock pairs, keys and commands, and the *)
(* proof that it implements the official books.                            *)
(***************************************************************************)
EXTENDS PostingRefinement, SequenceTheorems, SumTheorems

-----------------------------------------------------------------------------
(* Types.                                                                  *)

\* What a command is, for the handler that runs it.
LEMMA CommandFacts ==
    ASSUME NEW c \in Commands
    PROVE  /\ c.kind \in {"submit", "cancel"} /\ c.doc \in Docs
           /\ c.key \in Keys \cup {NoKey}
           /\ c.kind = "submit" => c.body \in Bodies
  BY CommandsAssumption

\* A document is of one doctype.
LEMMA DoctypesApart ==
    ASSUME NEW d
    PROVE  /\ IsPayment(d) => ~IsDeposit(d) /\ Doctype[d] \notin SETTLEABLE_DOCTYPES
           /\ IsDeposit(d) => Doctype[d] \notin SETTLEABLE_DOCTYPES
  BY DEF IsPayment, IsDeposit, SETTLEABLE_DOCTYPES

\* Rows that were not read yet have the type of rows that were.
LEMMA NoVoucherType ==
    NoVoucher \in [moves : [Pairs -> Int], settled : SUBSET SettlementType]
  BY DEF NoVoucher

\* A handler that returns leaves well-typed request state behind.
LEMMA AnswerTypes ==
    ASSUME RequestTypeOK, NEW r \in Req, NEW w, Answer(r, w)
    PROVE  RequestTypeOK'
  BY RetriesAssumption, NoVoucherType DEF RequestTypeOK, Answer, Phases

\* A handler that only moves on does too.
LEMMA ProceedTypes ==
    ASSUME RequestTypeOK, NEW r \in Req, NEW phase \in Phases \ {"idle"}, pc[r] # "idle",
           Proceed(r, phase)
    PROVE  RequestTypeOK'
  BY DEF RequestTypeOK, Proceed, Goto, Local, Phases

\* Steps that do not touch the store keep it well typed.
LEMMA StoreStutter ==
    ASSUME StoreTypeOK, UNCHANGED storeVars
    PROVE  StoreTypeOK'
  BY DEF StoreTypeOK, storeVars

\* A build that starts over keeps its command and counts the attempt.
LEMMA RebuildTypes ==
    ASSUME RequestTypeOK, NEW r \in Req, pc[r] # "idle", AttemptsLeft(r), Rebuild(r)
    PROVE  RequestTypeOK'
  BY RetriesAssumption, NoVoucherType DEF RequestTypeOK, Rebuild, Phases, AttemptsLeft

\* The original movement of a voucher on a pair is a quantity.
LEMMA StoredTypes ==
    ASSUME StoreTypeOK, NEW d \in Docs, NEW p \in Pairs
    PROVE  StoredQty(d, p) \in Int
  <1>1. \A j \in DOMAIN ledger[p] : ledger[p][j] \in RowType
    BY DEF StoreTypeOK
  <1>2. CASE \E i \in DOMAIN ledger[p] : ledger[p][i].doc = d /\ ~ledger[p][i].rev
    <2> DEFINE i == CHOOSE i \in DOMAIN ledger[p] :
                        ledger[p][i].doc = d /\ ~ledger[p][i].rev
    <2>1. i \in DOMAIN ledger[p]
      BY <1>2
    <2>2. ledger[p][i] \in RowType
      BY <1>1, <2>1, Zenon
    <2>3. StoredQty(d, p) = ledger[p][i].qty
      BY <1>2, Zenon DEF StoredQty
    <2> QED BY <2>2, <2>3 DEF RowType
  <1> QED BY <1>2 DEF StoredQty

\* Every read and every refused commit keeps the request state well typed.
LEMMA BuildTypes ==
    ASSUME TypeOK, NEW r \in Req,
           \/ Replay(r) \/ ReadSettings(r) \/ ReadDocumentSubmit(r)
           \/ ReadDocumentCancel(r) \/ ReadSettled(r) \/ ReadDeposit(r)
           \/ ReadApplications(r) \/ ReadVoucher(r) \/ (\E p \in Pairs : ReadStock(r, p))
           \/ CheckStock(r) \/ (\E i \in Docs : ReadInvoice(r, i))
           \/ (\E i \in Docs : ReadSettlements(r, i)) \/ InvoicesRead(r)
           \/ CommitReplay(r) \/ CommitStale(r) \/ CommitConflict(r) \/ Abandon(r)
    PROVE  RequestTypeOK' /\ UNCHANGED storeVars
  <1> USE DEF TypeOK
  <1>1. CASE Replay(r)
    BY <1>1, AnswerTypes, ProceedTypes DEF Replay, Phases
  <1>2. CASE ReadSettings(r)
    <2>1. UNCHANGED storeVars
      BY <1>2 DEF ReadSettings
    <2>2. CASE Answer(r, "refused")
      BY <2>1, <2>2, AnswerTypes
    <2>3. CASE ~Answer(r, "refused")
      <3> DEFINE now == [lock |-> lock, allowNeg |-> allowNeg]
      <3>1. now \in [lock : Nat, allowNeg : BOOLEAN]
        BY Zenon DEF StoreTypeOK
      <3>2. /\ seen' = [seen EXCEPT ![r] = now] /\ pc' = [pc EXCEPT ![r] = "document"]
            /\ pc[r] # "idle" /\ UNCHANGED <<cmd, tries, voucher, led, quoted>>
        BY <1>2, <2>3 DEF ReadSettings, Goto
      <3> HIDE DEF now
      <3> QED BY <2>1, <3>1, <3>2 DEF RequestTypeOK, Phases
    <2> QED BY <2>2, <2>3
  <1>3. CASE ReadDocumentSubmit(r)
    BY <1>3, AnswerTypes, ProceedTypes DEF ReadDocumentSubmit, Phases
  <1>4. CASE ReadDocumentCancel(r)
    <2>1. UNCHANGED storeVars
      BY <1>4 DEF ReadDocumentCancel
    <2>2. CASE \E w : Answer(r, w)
      BY <2>1, <2>2, AnswerTypes
    <2>3. CASE ~(\E w : Answer(r, w))
      <3>1. \/ Goto(r, "settled") \/ Goto(r, "applied") \/ Goto(r, "voucher")
        BY <1>4, <2>3 DEF ReadDocumentCancel, CancelBeyondLock
      <3>2. UNCHANGED <<cmd, answer, tries, seen, voucher, led, quoted, upd>> /\ pc[r] = "document"
        BY <1>4, <2>3 DEF ReadDocumentCancel, CancelBeyondLock
      <3> QED BY <2>1, <3>1, <3>2 DEF Goto, RequestTypeOK, Phases
    <2> QED BY <2>2, <2>3
  <1>5. CASE ReadSettled(r)
    BY <1>5, AnswerTypes, ProceedTypes DEF ReadSettled, Phases
  <1>6. CASE ReadDeposit(r)
    BY <1>6, AnswerTypes, ProceedTypes DEF ReadDeposit, Phases
  <1>7. CASE ReadApplications(r)
    BY <1>7, AnswerTypes, ProceedTypes DEF ReadApplications, Phases
  <1>17. CASE ReadVoucher(r)
    <2> DEFINE own == [moves |-> [p \in Pairs |-> StoredQty(Target(r), p)],
                       settled |-> StoredSettlements(Target(r))]
    <2>1. Target(r) \in Docs
      BY <1>17, CommandFacts DEF ReadVoucher, Target, RequestTypeOK
    <2>2. own \in [moves : [Pairs -> Int], settled : SUBSET SettlementType]
      BY <2>1, StoredTypes DEF StoredSettlements, StoreTypeOK
    <2>3. /\ voucher' = [voucher EXCEPT ![r] = own] /\ pc' = [pc EXCEPT ![r] = "stock"]
          /\ pc[r] # "idle" /\ UNCHANGED <<storeVars, cmd, tries, seen, led, quoted>>
      BY <1>17, Zenon DEF ReadVoucher, Goto
    <2> HIDE DEF own
    <2> QED BY <2>2, <2>3 DEF RequestTypeOK, Phases
  <1>8. ASSUME NEW p \in Pairs, ReadStock(r, p) PROVE RequestTypeOK' /\ UNCHANGED storeVars
    BY <1>8 DEF ReadStock, RequestTypeOK, StoreTypeOK
  <1>9. CASE CheckStock(r)
    BY <1>9, AnswerTypes, ProceedTypes DEF CheckStock, Phases
  <1>10. ASSUME NEW i \in Docs, ReadInvoice(r, i) PROVE RequestTypeOK' /\ UNCHANGED storeVars
    <2>1. CASE Answer(r, "refused")
      BY <1>10, <2>1, AnswerTypes DEF ReadInvoice
    <2>2. CASE ~Answer(r, "refused")
      <3>1. /\ quoted' = [quoted EXCEPT ![r] = @ \cup {i}]
            /\ UNCHANGED <<storeVars, pc, cmd, tries, seen, voucher, led>>
        BY <1>10, <2>2 DEF ReadInvoice
      <3> QED BY <3>1 DEF RequestTypeOK
    <2> QED BY <2>1, <2>2
  <1>11. ASSUME NEW i \in Docs, ReadSettlements(r, i) PROVE RequestTypeOK' /\ UNCHANGED storeVars
    <2>1. CASE Answer(r, "refused")
      BY <1>11, <2>1, AnswerTypes DEF ReadSettlements
    <2>2. CASE ~Answer(r, "refused")
      BY <1>11, <2>2 DEF ReadSettlements, RequestTypeOK
    <2> QED BY <2>1, <2>2
  <1>12. CASE InvoicesRead(r)
    BY <1>12, ProceedTypes DEF InvoicesRead, Phases
  <1>13. CASE CommitReplay(r)
    BY <1>13, AnswerTypes DEF CommitReplay
  <1>14. CASE CommitStale(r)
    BY <1>14, AnswerTypes, RebuildTypes DEF CommitStale
  <1>15. CASE CommitConflict(r)
    BY <1>15, AnswerTypes DEF CommitConflict
  <1>16. CASE Abandon(r)
    BY <1>16, AnswerTypes DEF Abandon
  <1> QED
    BY <1>1, <1>2, <1>3, <1>4, <1>5, <1>6, <1>7, <1>8, <1>9, <1>10, <1>11, <1>12,
       <1>13, <1>14, <1>15, <1>16, <1>17

\* The movements and settlements a running request is about to write.
LEMMA NewRowTypes ==
    ASSUME TypeOK, NEW r \in Req, pc[r] # "idle"
    PROVE  /\ Target(r) \in Docs /\ Doctype[Target(r)] \in POSTED_DOCTYPES
           /\ \A p \in Pairs : NewQty(r, p) \in Int
           /\ NewSettlements(r) \subseteq SettlementType
  <1>1. cmd[r] \in Commands
    BY DEF TypeOK, RequestTypeOK
  <1>2. Target(r) \in Docs /\ Doctype[Target(r)] \in POSTED_DOCTYPES
    BY <1>1, CommandFacts, DoctypeAssumption DEF Target
  <1>4. ASSUME NEW p \in Pairs PROVE NewQty(r, p) \in Int
    <2>1. CASE IsSubmit(r)
      BY <1>1, <2>1, CommandFacts DEF NewQty, IsSubmit, Bodies
    <2>2. CASE ~IsSubmit(r)
      BY <2>2 DEF NewQty, TypeOK, RequestTypeOK
    <2> QED BY <2>1, <2>2
  <1>5. NewSettlements(r) \subseteq SettlementType
    <2>1. CASE ~IsPayment(Target(r))
      BY <2>1 DEF NewSettlements
    <2>2. CASE IsPayment(Target(r)) /\ IsSubmit(r)
      <3>1. cmd[r].body.refs \subseteq [inv : Docs, amt : Int]
        BY <1>1, <2>2, CommandFacts DEF IsSubmit, Bodies
      <3>2. SUFFICES ASSUME NEW f \in cmd[r].body.refs
            PROVE [pay |-> Target(r), inv |-> f.inv, rev |-> FALSE, amt |-> f.amt]
                    \in SettlementType
        BY <2>2, Zenon DEF NewSettlements
      <3>3. f.inv \in Docs /\ f.amt \in Int
        BY <3>1
      <3> QED BY <1>2, <3>3 DEF SettlementType
    <2>3. CASE IsPayment(Target(r)) /\ ~IsSubmit(r)
      <3>1. voucher[r].settled \subseteq SettlementType
        BY DEF TypeOK, RequestTypeOK
      <3>2. SUFFICES ASSUME NEW s \in voucher[r].settled
            PROVE [pay |-> s.pay, inv |-> s.inv, rev |-> TRUE, amt |-> -s.amt]
                    \in SettlementType
        BY <2>3, Zenon DEF NewSettlements
      <3>3. s.pay \in Docs /\ s.inv \in Docs /\ -s.amt \in Int
        BY <3>1 DEF SettlementType
      <3> QED BY <3>3 DEF SettlementType
    <2> QED BY <2>1, <2>2, <2>3
  <1> QED BY <1>2, <1>4, <1>5

\* The commit writes well-typed rows.
LEMMA CommitTypes ==
    ASSUME TypeOK, NEW r \in Req, CommitApply(r)
    PROVE  TypeOK'
  <1> USE DEF TypeOK
  <1>1. /\ cmd[r] \in Commands /\ pc[r] # "idle"
    BY DEF CommitApply, RequestTypeOK
  <1>2. /\ Target(r) \in Docs /\ Doctype[Target(r)] \in POSTED_DOCTYPES
        /\ \A p \in Pairs : NewQty(r, p) \in Int
        /\ NewSettlements(r) \subseteq SettlementType
    BY <1>1, NewRowTypes
  <1>3. RequestTypeOK'
    BY AnswerTypes DEF CommitApply
  <1>4. /\ status' \in [Docs -> 0..2] /\ lock' \in Nat /\ allowNeg' \in BOOLEAN
    BY <1>2 DEF CommitApply, WriteDocument, StoreTypeOK
  <1>5. number' \in [Docs -> Docs \cup Nat \cup {NoNumber}]
    <2>1. NextNumber(r) \in Docs \cup Nat \cup {NoNumber}
      BY <1>2, ReceiptAssumption DEF NextNumber, StoreTypeOK
    <2> QED BY <1>2, <2>1 DEF CommitApply, WriteDocument, StoreTypeOK
  <1>6. body' \in [Docs -> Bodies \cup {NoBody}]
    BY <1>1, <1>2, CommandFacts DEF CommitApply, WriteDocument, StoreTypeOK, IsSubmit
  <1>7. series' \in [POSTED_DOCTYPES -> Nat]
    BY <1>2 DEF CommitApply, WriteDocument, StoreTypeOK
  <1>8. DOMAIN outstanding' = Docs /\ DOMAIN bins' = Pairs
    BY DEF CommitApply, WriteOutstanding, WriteStock
  <1>9. ledger' \in [Pairs -> Seq(RowType)]
    <2>1. ASSUME NEW p \in Pairs
          PROVE  [doc |-> Target(r), rev |-> ~IsSubmit(r), qty |-> NewQty(r, p)] \in RowType
      BY <1>2, Zenon DEF RowType
    <2> QED BY <2>1 DEF CommitApply, WriteStock, StoreTypeOK
  <1>10. settlements' \subseteq SettlementType
    BY <1>2 DEF CommitApply, StoreTypeOK
  <1>11. idem' \in [Keys -> [kind : {"submit", "cancel"}, doc : Docs] \cup {NoResponse}]
    BY <1>1, <1>2, CommandFacts DEF CommitApply, WriteKey, StoreTypeOK, Target
  <1> QED
    BY <1>3, <1>4, <1>5, <1>6, <1>7, <1>8, <1>9, <1>10, <1>11 DEF StoreTypeOK

\* Types are preserved by every step.
LEMMA TypeStep == TypeOK /\ [Next]_vars => TypeOK'
  <1> SUFFICES ASSUME TypeOK, [Next]_vars PROVE TypeOK'
    OBVIOUS
  <1>1. ASSUME NEW r \in Req, NEW c \in Commands, Begin(r, c) PROVE TypeOK'
    <2>1. RequestTypeOK'
      BY <1>1 DEF Begin, TypeOK, RequestTypeOK, Phases, Local
    <2> QED BY <1>1, <2>1, StoreStutter DEF Begin, TypeOK
  <1>2. ASSUME NEW r \in Req, Step(r) \/ Abandon(r), ~CommitApply(r) PROVE TypeOK'
    BY <1>2, BuildTypes, StoreStutter DEF Step, TypeOK
  <1>3. ASSUME NEW r \in Req, CommitApply(r) PROVE TypeOK'
    BY <1>3, CommitTypes
  <1>4. ASSUME NEW l \in Locks, set_books_lock(l) PROVE TypeOK'
    BY <1>4, LocksAssumption
       DEF set_books_lock, TypeOK, StoreTypeOK, RequestTypeOK, requestVars
  <1>5. ASSUME NEW b \in AllowChoices, put_company_settings(b) PROVE TypeOK'
    BY <1>5, AllowAssumption
       DEF put_company_settings, TypeOK, StoreTypeOK, RequestTypeOK, requestVars
  <1>6. CASE UNCHANGED vars
    BY <1>6 DEF vars, storeVars, requestVars, TypeOK, StoreTypeOK, RequestTypeOK
  <1> QED
    BY <1>1, <1>2, <1>3, <1>4, <1>5, <1>6 DEF Next

\* The empty company with idle handlers is well typed.
LEMMA TypeInit == Init => TypeOK
  <1> SUFFICES ASSUME Init PROVE TypeOK
    OBVIOUS
  <1>1. /\ lock \in Nat /\ status \in [Docs -> 0..2]
        /\ number \in [Docs -> Docs \cup Nat \cup {NoNumber}]
        /\ body \in [Docs -> Bodies \cup {NoBody}]
        /\ series \in [POSTED_DOCTYPES -> Nat]
    BY DEF Init
  <1>2. /\ DOMAIN outstanding = Docs /\ DOMAIN bins = Pairs
        /\ ledger \in [Pairs -> Seq(RowType)]
        /\ settlements \subseteq SettlementType
    BY DEF Init
  <1>3. /\ idem \in [Keys -> [kind : {"submit", "cancel"}, doc : Docs] \cup {NoResponse}]
        /\ allowNeg \in BOOLEAN
    BY DEF Init
  <1>4. RequestTypeOK
    BY RetriesAssumption, NoVoucherType DEF Init, RequestTypeOK, Phases
  <1> QED BY <1>1, <1>2, <1>3, <1>4 DEF TypeOK, StoreTypeOK

\* The type invariant: in particular no request is ever built more than
\* MaxRetries times, and a running request always has a command.
THEOREM TypeCorrect == Spec => []TypeOK
  BY TypeInit, TypeStep, PTL DEF Spec
-----------------------------------------------------------------------------
(* Only a commit writes the books.                                         *)

books == <<status, number, body, outstanding, series, ledger, bins,
           settlements, idem, logged, mirror>>

\* Reads, refusals and disconnections leave the books alone: only
\* CommitApply changes documents, series, ledgers, bins, settlements and keys.
LEMMA OnlyCommitsWrite ==
    ASSUME [Next]_vars, \A r \in Req : ~CommitApply(r)
    PROVE  UNCHANGED books
  <1> USE DEF books
  <1>1. ASSUME NEW r \in Req, NEW c \in Commands, Begin(r, c) PROVE UNCHANGED books
    BY <1>1 DEF Begin, storeVars
  <1>2. ASSUME NEW r \in Req, Step(r) PROVE UNCHANGED storeVars
    BY <1>2 DEF Step, Replay, ReadSettings, ReadDocumentSubmit, ReadDocumentCancel,
        ReadSettled, ReadDeposit, ReadApplications, ReadVoucher, ReadStock, CheckStock,
        ReadInvoice, ReadSettlements, InvoicesRead, CommitReplay, CommitStale,
        CommitConflict
  <1>3. ASSUME NEW r \in Req, Abandon(r) PROVE UNCHANGED storeVars
    BY <1>3 DEF Abandon
  <1>4. UNCHANGED storeVars => UNCHANGED books
    BY DEF storeVars
  <1> QED
    BY <1>1, <1>2, <1>3, <1>4 DEF Next, vars, storeVars, set_books_lock,
        put_company_settings

\* What a commit does to the books, by the guards it passed.
LEMMA CommitFacts ==
    ASSUME TypeOK, NEW r \in Req, CommitApply(r)
    PROVE  /\ cmd[r] \in Commands /\ Target(r) \in Docs /\ cmd[r].doc = Target(r)
           /\ IsSubmit(r) => status[Target(r)] = 0 /\ cmd[r].body \in Bodies
           /\ ~IsSubmit(r) => status[Target(r)] = 1
           /\ Doctype[Target(r)] \in POSTED_DOCTYPES
  <1>1. cmd[r] \in Commands
    BY DEF CommitApply, TypeOK, RequestTypeOK
  <1>2. Target(r) \in Docs /\ Doctype[Target(r)] \in POSTED_DOCTYPES
    BY <1>1, CommandFacts, DoctypeAssumption DEF Target
  <1>3. status[Target(r)] = IF IsSubmit(r) THEN 0 ELSE 1
    BY DEF CommitApply, Clash, DocumentClash
  <1> QED
    BY <1>1, <1>2, <1>3, CommandFacts DEF IsSubmit, Target

-----------------------------------------------------------------------------
(* Documents and their numbers.                                            *)

\* A document without a row has no number, and one with a row has a payload.
RowsComplete ==
    \A d \in Docs : /\ status[d] = 0 => number[d] = NoNumber
                    /\ status[d] # 0 => body[d] \in Bodies

NumberInv == RowsComplete /\ NumbersGapFree /\ NumbersUnique

\* Commits keep number and payload present exactly on posted documents.
LEMMA RowsCompleteStep ==
    ASSUME TypeOK, RowsComplete, [Next]_vars
    PROVE  RowsComplete'
  <1>1. ASSUME NEW r \in Req, CommitApply(r) PROVE RowsComplete'
    <2> DEFINE t == Target(r)
    <2>2. /\ status' = [status EXCEPT ![t] = IF IsSubmit(r) THEN 1 ELSE 2]
          /\ number' = [number EXCEPT ![t] = NextNumber(r)]
          /\ body' = IF IsSubmit(r) THEN [body EXCEPT ![t] = cmd[r].body] ELSE body
      BY <1>1 DEF CommitApply, WriteDocument
    <2>3. ASSUME NEW d \in Docs, d # t
          PROVE  status'[d] = status[d] /\ number'[d] = number[d] /\ body'[d] = body[d]
      BY <2>2, <2>3 DEF TypeOK, StoreTypeOK
    <2>4. status'[t] # 0 /\ body'[t] \in Bodies
      BY <1>1, <2>2, CommitFacts DEF TypeOK, StoreTypeOK, RowsComplete
    <2> QED BY <2>3, <2>4 DEF RowsComplete
  <1>2. CASE UNCHANGED books
    BY <1>2 DEF books, RowsComplete
  <1> QED BY <1>1, <1>2, OnlyCommitsWrite

\* A commit that takes a series number puts it on its document, and no step
\* takes a number off a document again.
LEMMA GapFreeStep ==
    ASSUME TypeOK, RowsComplete, NumbersGapFree, [Next]_vars
    PROVE  NumbersGapFree'
  <1>1. ASSUME NEW r \in Req, CommitApply(r) PROVE NumbersGapFree'
    <2> DEFINE d == Target(r)
               t == Doctype[d]
    <2>1. d \in Docs /\ t \in POSTED_DOCTYPES
      BY <1>1, CommitFacts
    <2>2. number' = [number EXCEPT ![d] = NextNumber(r)] /\ number \in [Docs -> Docs \cup Nat \cup {NoNumber}]
      BY <1>1 DEF CommitApply, WriteDocument, TypeOK, StoreTypeOK
    <2>3. series \in [POSTED_DOCTYPES -> Nat]
      BY DEF TypeOK, StoreTypeOK
    <2>4. CASE ConsumesNumber(r)
      <3>1. number'[d] = series[t] + 1 /\ series' = [series EXCEPT ![t] = @ + 1]
        BY <1>1, <2>1, <2>2, <2>4
           DEF CommitApply, WriteDocument, ConsumesNumber, NextNumber
      <3>2. number[d] = NoNumber
        BY <1>1, <2>1, <2>4, CommitFacts DEF ConsumesNumber, RowsComplete
      <3> SUFFICES ASSUME NEW u \in POSTED_DOCTYPES, NEW n \in 1..series'[u]
                   PROVE  \E e \in Docs : Doctype[e] = u /\ number'[e] = n
        BY DEF NumbersGapFree
      <3>3. CASE u = t /\ n = series[t] + 1
        BY <2>1, <3>1, <3>3
      <3>4. CASE ~(u = t /\ n = series[t] + 1)
        <4>1. n \in 1..series[u]
          BY <2>1, <2>3, <3>1, <3>4
        <4>2. PICK e \in Docs : Doctype[e] = u /\ number[e] = n
          BY <4>1 DEF NumbersGapFree
        <4>3. e # d
          BY <3>2, <4>1, <4>2, ReceiptAssumption
        <4> QED BY <2>2, <4>2, <4>3
      <3> QED BY <3>3, <3>4
    <2>5. CASE ~ConsumesNumber(r)
      <3>1. series' = series
        BY <1>1, <2>5 DEF CommitApply, WriteDocument
      <3> SUFFICES ASSUME NEW u \in POSTED_DOCTYPES, NEW n \in 1..series[u]
                   PROVE  \E e \in Docs : Doctype[e] = u /\ number'[e] = n
        BY <3>1 DEF NumbersGapFree
      <3>2. PICK e \in Docs : Doctype[e] = u /\ number[e] = n
        BY DEF NumbersGapFree
      <3>3. CASE e # d
        BY <2>2, <3>2, <3>3
      <3>4. CASE e = d
        <4>1. ~IsSubmit(r)
          BY <1>1, <2>1, <3>2, <3>4, CommitFacts, ReceiptAssumption DEF RowsComplete
        <4> QED BY <2>1, <2>2, <3>2, <3>4, <4>1 DEF NextNumber
      <3> QED BY <3>3, <3>4
    <2> QED BY <2>4, <2>5
  <1>2. CASE UNCHANGED books
    BY <1>2 DEF books, NumbersGapFree
  <1> QED BY <1>1, <1>2, OnlyCommitsWrite

\* A committed number passed the unique index, or was the document's already.
LEMMA UniqueStep ==
    ASSUME TypeOK, NumbersUnique, [Next]_vars
    PROVE  NumbersUnique'
  <1>1. ASSUME NEW r \in Req, CommitApply(r) PROVE NumbersUnique'
    <2> DEFINE t == Target(r)
    <2>1. t \in Docs
      BY <1>1, CommitFacts
    <2>2. number' = [number EXCEPT ![t] = NextNumber(r)] /\ number \in [Docs -> Docs \cup Nat \cup {NoNumber}]
      BY <1>1 DEF CommitApply, WriteDocument, TypeOK, StoreTypeOK
    <2>3. CASE ~IsSubmit(r)
      BY <2>1, <2>2, <2>3 DEF NextNumber, NumbersUnique
    <2>4. CASE IsSubmit(r)
      <3>1. \A e \in Docs : Doctype[e] = Doctype[t] => number[e] # NextNumber(r)
        BY <1>1, <2>4 DEF CommitApply, IndexClash, SameDoctype
      <3> QED BY <2>1, <2>2, <3>1 DEF NumbersUnique
    <2> QED BY <2>3, <2>4
  <1>2. CASE UNCHANGED books
    BY <1>2 DEF books, NumbersUnique
  <1> QED BY <1>1, <1>2, OnlyCommitsWrite

\* Official numbers: gap-free per doctype and never used twice, for any number
\* of concurrent requests and any receipts printed by offline tills.
THEOREM NumberingCorrect == Spec => []NumberingExact
  <1>1. Init => NumberInv
    BY DEF Init, NumberInv, RowsComplete, NumbersGapFree, NumbersUnique
  <1>2. TypeOK /\ NumberInv /\ [Next]_vars => NumberInv'
    BY RowsCompleteStep, GapFreeStep, UniqueStep DEF NumberInv
  <1>3. NumberInv => NumberingExact
    BY DEF NumberInv, NumberingExact
  <1> QED BY <1>1, <1>2, <1>3, TypeCorrect, PTL DEF Spec
-----------------------------------------------------------------------------
(* Stock.                                                                  *)

\* What a build cached of a pair's ledger is a prefix of it: rows are only
\* ever appended.  This is what makes a row count enough of an expectation.
LedgersCached ==
    \A r \in Req : \A p \in DOMAIN led[r] :
        /\ Len(led[r][p]) <= Len(ledger[p])
        /\ \A i \in 1..Len(led[r][p]) : led[r][p][i] = ledger[p][i]

\* A build past its stock check still passes it: the check looks at nothing
\* but what the build cached.
StockChecked == \A r \in Req : pc[r] \in {"invoices", "commit"} => ~Short(r)

StockInv == LedgersCached /\ BinsMatchLedger /\ StockChecked

\* A commit whose expectations hold was built from the current ledgers.
LEMMA FreshLedgers ==
    ASSUME TypeOK, LedgersCached, NEW r \in Req, CommitApply(r)
    PROVE  \A p \in DOMAIN led[r] : p \in Pairs /\ led[r][p] = ledger[p]
  <1> SUFFICES ASSUME NEW p \in DOMAIN led[r]
               PROVE  p \in Pairs /\ led[r][p] = ledger[p]
    OBVIOUS
  <1>1. p \in Pairs /\ led[r][p] \in Seq(RowType) /\ ledger[p] \in Seq(RowType)
    BY DEF TypeOK, RequestTypeOK, StoreTypeOK
  <1>2. Len(ledger[p]) = Len(led[r][p])
    BY DEF CommitApply, Stale, LedgerStale
  <1>3. \A i \in 1..Len(led[r][p]) : led[r][p][i] = ledger[p][i]
    BY DEF LedgersCached
  <1> QED BY <1>1, <1>2, <1>3, SeqEqual

\* So the bins it writes are the balances of the ledgers it leaves behind.
LEMMA CommittedBins ==
    ASSUME TypeOK, LedgersCached, NEW r \in Req, CommitApply(r), NEW p \in Pairs
    PROVE  /\ p \in DOMAIN led[r] => /\ ledger'[p] = Built(r, p)
                                     /\ bins'[p] = compute_balance(ledger'[p])
           /\ p \notin DOMAIN led[r] => ledger'[p] = ledger[p] /\ bins'[p] = bins[p]
  BY FreshLedgers DEF CommitApply, WriteStock, Built

\* Every step keeps the bins equal to the balances of the ledgers.
LEMMA BinsStep ==
    ASSUME TypeOK, LedgersCached, BinsMatchLedger, [Next]_vars
    PROVE  BinsMatchLedger'
  <1>1. ASSUME NEW r \in Req, CommitApply(r) PROVE BinsMatchLedger'
    <2> SUFFICES ASSUME NEW p \in Pairs PROVE bins'[p] = compute_balance(ledger'[p])
      BY DEF BinsMatchLedger, compute_balance
    <2> QED BY <1>1, CommittedBins DEF BinsMatchLedger
  <1>2. CASE UNCHANGED books
    BY <1>2 DEF books, BinsMatchLedger, compute_balance
  <1> QED BY <1>1, <1>2, OnlyCommitsWrite

\* No step shortens or rewrites a ledger.
LEMMA LedgerGrows ==
    ASSUME TypeOK, [Next]_vars, NEW p \in Pairs
    PROVE  /\ Len(ledger[p]) <= Len(ledger'[p])
           /\ \A i \in 1..Len(ledger[p]) : ledger'[p][i] = ledger[p][i]
  <1>0. ledger[p] \in Seq(RowType)
    BY DEF TypeOK, StoreTypeOK
  <1>1. ASSUME NEW r \in Req, CommitApply(r)
        PROVE  \/ ledger'[p] = ledger[p]
               \/ \E row \in RowType : ledger'[p] = Append(ledger[p], row)
    <2> DEFINE row == [doc |-> Target(r), rev |-> ~IsSubmit(r), qty |-> NewQty(r, p)]
    <2>1. Target(r) \in Docs /\ NewQty(r, p) \in Int
      BY <1>1, NewRowTypes DEF CommitApply
    <2>2. row \in RowType
      BY <2>1, Zenon DEF RowType
    <2>3. ledger'[p] = IF p \in DOMAIN led[r] THEN Append(ledger[p], row) ELSE ledger[p]
      BY <1>1 DEF CommitApply, WriteStock
    <2> QED BY <2>2, <2>3
  <1>2. CASE UNCHANGED books
    BY <1>0, <1>2 DEF books
  <1> QED BY <1>0, <1>1, <1>2, OnlyCommitsWrite

\* A step leaves a cached ledger alone, drops it, or caches the current one.
LEMMA CacheSteps ==
    ASSUME TypeOK, [Next]_vars, NEW r \in Req, NEW p \in DOMAIN led'[r]
    PROVE  \/ p \in DOMAIN led[r] /\ led'[r][p] = led[r][p]
           \/ p \in Pairs /\ led'[r][p] = ledger[p]
  <1> USE DEF TypeOK, RequestTypeOK
  <1>1. ASSUME NEW s \in Req, NEW w, Answer(s, w)
        PROVE  led'[r] = led[r] \/ led'[r] = <<>>
    BY <1>1 DEF Answer
  <1>2. ASSUME NEW s \in Req, Rebuild(s) PROVE led'[r] = led[r] \/ led'[r] = <<>>
    BY <1>2 DEF Rebuild
  <1>3. ASSUME NEW s \in Req, NEW q \in Pairs, ReadStock(s, q)
        PROVE  \/ p \in DOMAIN led[r] /\ led'[r][p] = led[r][p]
               \/ p \in Pairs /\ led'[r][p] = ledger[p]
    <2>1. CASE r # s
      BY <1>3, <2>1 DEF ReadStock
    <2>2. CASE r = s
      <3>1. led'[r] = [x \in DOMAIN led[r] \cup {q} |-> IF x = q THEN ledger[q] ELSE led[r][x]]
        BY <1>3, <2>2 DEF ReadStock
      <3> QED BY <3>1
    <2> QED BY <2>1, <2>2
  <1>4. ASSUME NEW s \in Req, Step(s) \/ Abandon(s),
               \A q \in Pairs : ~ReadStock(s, q)
        PROVE  led'[r] = led[r] \/ led'[r] = <<>>
    BY <1>1, <1>2, <1>4 DEF Step, Abandon, Replay, ReadSettings, ReadDocumentSubmit,
        ReadDocumentCancel, CancelBeyondLock, ReadSettled, ReadDeposit, ReadApplications,
        ReadVoucher, CheckStock, ReadInvoice, ReadSettlements, InvoicesRead, CommitReplay,
        CommitStale, CommitConflict, CommitApply, Proceed, Local
  <1>5. ASSUME NEW s \in Req, NEW c \in Commands, Begin(s, c) PROVE led'[r] = led[r]
    BY <1>5 DEF Begin, Local
  <1>6. CASE (\E l \in Locks : set_books_lock(l)) \/ (\E b \in AllowChoices : put_company_settings(b))
             \/ UNCHANGED vars
    BY <1>6 DEF set_books_lock, put_company_settings, requestVars, vars
  <1>7. CASE led'[r] = led[r] \/ led'[r] = <<>>
    BY <1>7
  <1> QED BY <1>3, <1>4, <1>5, <1>6, <1>7 DEF Next

\* A ledger a request cached stays a prefix of the stored one.
LEMMA CachedStep ==
    ASSUME TypeOK, LedgersCached, [Next]_vars
    PROVE  LedgersCached'
  <1> SUFFICES ASSUME NEW r \in Req, NEW p \in DOMAIN led'[r]
               PROVE  /\ Len(led'[r][p]) <= Len(ledger'[p])
                      /\ \A i \in 1..Len(led'[r][p]) : led'[r][p][i] = ledger'[p][i]
    BY DEF LedgersCached
  <1>1. CASE p \in DOMAIN led[r] /\ led'[r][p] = led[r][p]
    <2>1. p \in Pairs /\ led[r][p] \in Seq(RowType) /\ ledger[p] \in Seq(RowType)
      BY <1>1 DEF TypeOK, RequestTypeOK, StoreTypeOK
    <2>2. ledger'[p] \in Seq(RowType)
      BY <2>1, TypeStep DEF TypeOK, StoreTypeOK
    <2> QED BY <1>1, <2>1, <2>2, LedgerGrows DEF LedgersCached
  <1>2. CASE p \in Pairs /\ led'[r][p] = ledger[p]
    BY <1>2, LedgerGrows
  <1> QED BY <1>1, <1>2, CacheSteps

\* The payment a request submits passed validate_payment_submit.
PaymentChecked(r) ==
    IsSubmit(r) /\ IsPayment(Target(r)) => ValidPayment(r)

\* A request enters the phases after the stock check only by passing it, and
\* its command and caches stay as they are while it is there.
LEMMA PastCheckSteps ==
    ASSUME TypeOK, [Next]_vars, NEW r \in Req, pc'[r] \in {"invoices", "commit"}
    PROVE  /\ \/ pc[r] \in {"invoices", "commit"}
              \/ ~Short(r) /\ DOMAIN led[r] = MovedPairs(r) /\ PaymentChecked(r)
           /\ cmd'[r] = cmd[r] /\ seen'[r] = seen[r] /\ led'[r] = led[r]
           /\ voucher'[r] = voucher[r]
  <1> DEFINE Same(s) == /\ cmd'[s] = cmd[s] /\ seen'[s] = seen[s] /\ led'[s] = led[s]
                        /\ voucher'[s] = voucher[s]
             Past(s) == \/ pc[s] \in {"invoices", "commit"}
                        \/ ~Short(s) /\ DOMAIN led[s] = MovedPairs(s) /\ PaymentChecked(s)
  <1>0. /\ pc \in [Req -> Phases] /\ DOMAIN cmd = Req /\ DOMAIN seen = Req
        /\ DOMAIN led = Req /\ DOMAIN voucher = Req
    BY DEF TypeOK, RequestTypeOK
  <1>1. ASSUME NEW s \in Req, NEW w, Answer(s, w) PROVE r # s /\ Same(r) /\ pc'[r] = pc[r]
    BY <1>0, <1>1 DEF Answer
  <1>2. ASSUME NEW s \in Req, Rebuild(s) PROVE r # s /\ Same(r) /\ pc'[r] = pc[r]
    BY <1>0, <1>2 DEF Rebuild
  <1>3. ASSUME NEW s \in Req, NEW phase, Proceed(s, phase)
        PROVE  /\ Same(r)
               /\ IF r = s THEN phase \in {"invoices", "commit"} ELSE pc'[r] = pc[r]
    BY <1>0, <1>3 DEF Proceed, Goto, Local
  <1>4. ASSUME NEW s \in Req, Replay(s) \/ ReadDocumentSubmit(s) \/ ReadSettled(s)
                  \/ ReadDeposit(s) \/ ReadApplications(s) \/ CommitReplay(s)
                  \/ CommitStale(s) \/ CommitConflict(s) \/ CommitApply(s) \/ Abandon(s)
        PROVE  Past(r) /\ Same(r)
    BY <1>1, <1>2, <1>3, <1>4 DEF Replay, ReadDocumentSubmit, ReadSettled, ReadDeposit,
        ReadApplications, CommitReplay, CommitStale, CommitConflict, CommitApply, Abandon
  <1>5. ASSUME NEW s \in Req, ReadSettings(s) \/ ReadDocumentCancel(s) \/ ReadVoucher(s)
        PROVE  Past(r) /\ Same(r)
    <2>1. CASE \E w : Answer(s, w)
      BY <1>1, <2>1
    <2>2. CASE ~(\E w : Answer(s, w))
      BY <1>0, <1>5, <2>2 DEF ReadSettings, ReadDocumentCancel, CancelBeyondLock,
          ReadVoucher, Goto
    <2> QED BY <2>1, <2>2
  <1>6. ASSUME NEW s \in Req, CheckStock(s) PROVE Past(r) /\ Same(r)
    <2> DEFINE refuse == \/ Short(s)
                         \/ IsPayment(Target(s)) /\ IsSubmit(s) /\ ~ValidPayment(s)
    <2>1. CASE refuse
      BY <1>1, <1>6, <2>1 DEF CheckStock
    <2>2. CASE ~refuse
      <3>1. \E phase : Proceed(s, phase)
        BY <1>6, <2>2 DEF CheckStock
      <3>2. r # s => Past(r)
        BY <1>3, <3>1
      <3>3. Past(s)
        <4>1. DOMAIN led[s] = MovedPairs(s)
          BY <1>6 DEF CheckStock
        <4>2. PaymentChecked(s)
          BY <2>2 DEF PaymentChecked
        <4> QED BY <2>2, <4>1, <4>2
      <3> QED BY <1>3, <3>1, <3>2, <3>3
    <2> QED BY <2>1, <2>2
  <1>7. ASSUME NEW s \in Req, NEW p \in Pairs, ReadStock(s, p) PROVE Past(r) /\ Same(r)
    BY <1>0, <1>7 DEF ReadStock
  <1>8. ASSUME NEW s \in Req, NEW i \in Docs, ReadInvoice(s, i) \/ ReadSettlements(s, i)
        PROVE  Past(r) /\ Same(r)
    BY <1>1, <1>8 DEF ReadInvoice, ReadSettlements
  <1>9. ASSUME NEW s \in Req, InvoicesRead(s) PROVE Past(r) /\ Same(r)
    BY <1>3, <1>9 DEF InvoicesRead
  <1>10. ASSUME NEW s \in Req, NEW c \in Commands, Begin(s, c) PROVE Past(r) /\ Same(r)
    BY <1>0, <1>10 DEF Begin, Local
  <1>11. CASE (\E l \in Locks : set_books_lock(l)) \/ (\E b \in AllowChoices : put_company_settings(b))
              \/ UNCHANGED vars
    BY <1>11 DEF set_books_lock, put_company_settings, requestVars, vars
  <1> QED
    BY <1>4, <1>5, <1>6, <1>7, <1>8, <1>9, <1>10, <1>11 DEF Next, Step

\* A request past check_negative_stock stays licensed until it commits.
LEMMA StockCheckedStep ==
    ASSUME TypeOK, StockChecked, [Next]_vars
    PROVE  StockChecked'
  <1> SUFFICES ASSUME NEW r \in Req, pc'[r] \in {"invoices", "commit"}
               PROVE  ~Short(r)'
    BY DEF StockChecked
  <1>1. ~Short(r)
    BY PastCheckSteps DEF StockChecked
  <1>2. /\ cmd'[r] = cmd[r] /\ seen'[r] = seen[r] /\ led'[r] = led[r]
        /\ voucher'[r] = voucher[r]
    BY PastCheckSteps
  <1> QED BY <1>1, <1>2 DEF Short, Built, NewQty, Target, IsSubmit

\* The stock strengthening holds in every reachable state.
LEMMA StockInvariant == Spec => []StockInv
  <1>1. Init => StockInv
    BY DEF Init, StockInv, LedgersCached, BinsMatchLedger, StockChecked
  <1>2. TypeOK /\ StockInv /\ [Next]_vars => StockInv'
    BY CachedStep, BinsStep, StockCheckedStep DEF StockInv
  <1> QED BY <1>1, <1>2, TypeCorrect, PTL DEF Spec

\* The bins always agree with the ledger they summarise: although a commit
\* writes balances computed from earlier reads, the row counts it checks are
\* enough, because a cached ledger is always a prefix of the stored one.
THEOREM BinsCorrect == Spec => []BinsMatchLedger
  <1>1. StockInv => BinsMatchLedger
    BY DEF StockInv
  <1> QED BY <1>1, StockInvariant, PTL

\* Concurrent requests never oversell together: a step that leaves a pair
\* below zero is the commit of a request that was allowed to.
THEOREM StockLicensedCorrect == Spec => StockLicensed
  <1> DEFINE Licensed ==
        \A p \in Pairs :
            ledger'[p] # ledger[p] /\ compute_balance(ledger'[p]) < 0
            => \E r \in Req : /\ pc[r] = "commit" /\ pc'[r] = "idle"
                              /\ seen[r].allowNeg \/ OfflineSubmit(r)
  <1>1. TypeOK /\ StockInv /\ [Next]_vars => [Licensed]_vars
    <2> SUFFICES ASSUME TypeOK, StockInv, [Next]_vars, NEW p \in Pairs,
                        ledger'[p] # ledger[p], compute_balance(ledger'[p]) < 0
                 PROVE  \E r \in Req : /\ pc[r] = "commit" /\ pc'[r] = "idle"
                                       /\ seen[r].allowNeg \/ OfflineSubmit(r)
      OBVIOUS
    <2>1. PICK r \in Req : CommitApply(r)
      BY OnlyCommitsWrite DEF books
    <2>2. pc[r] = "commit" /\ pc'[r] = "idle"
      BY <2>1 DEF CommitApply, Answer, TypeOK, RequestTypeOK
    <2>3. p \in DOMAIN led[r] /\ ledger'[p] = Built(r, p)
      BY <2>1, CommittedBins DEF StockInv
    <2>4. ~Short(r)
      BY <2>2 DEF StockInv, StockChecked
    <2> QED BY <2>2, <2>3, <2>4 DEF Short, OfflineSubmit
  <1> QED BY <1>1, TypeCorrect, StockInvariant, PTL DEF Spec, StockLicensed
-----------------------------------------------------------------------------
(* Guards re-checked in the commit.                                        *)

\* Posted documents have a payload and a number in every reachable state.
LEMMA RowsCompleteInvariant == Spec => []RowsComplete
  <1>1. Init => RowsComplete
    BY DEF Init, RowsComplete
  <1>2. TypeOK /\ RowsComplete /\ [Next]_vars => RowsComplete'
    BY RowsCompleteStep
  <1> QED BY <1>1, <1>2, TypeCorrect, PTL DEF Spec

\* Nothing commits into a period that is locked when it commits, for any
\* sequence of lock changes while requests are being built and retried.
THEOREM LockRespectedCorrect == Spec => LockRespected
  <1> DEFINE Open == \A d \in Docs : status'[d] # status[d] => body'[d].date > lock
  <1>1. TypeOK /\ RowsComplete /\ [Next]_vars => [Open]_vars
    <2> SUFFICES ASSUME TypeOK, RowsComplete, [Next]_vars,
                        NEW d \in Docs, status'[d] # status[d]
                 PROVE  body'[d].date > lock
      OBVIOUS
    <2>1. PICK r \in Req : CommitApply(r)
      BY OnlyCommitsWrite DEF books
    <2>2. d = Target(r)
      BY <2>1 DEF CommitApply, WriteDocument, TypeOK, StoreTypeOK
    <2>3. ~(PostingDate(r) <= lock)
      BY <2>1 DEF CommitApply, Stale, LockStale, lock_violation
    <2>4. body'[d] = IF IsSubmit(r) THEN cmd[r].body ELSE body[d]
      BY <2>1, <2>2 DEF CommitApply, WriteDocument, TypeOK, StoreTypeOK
    <2>5. body'[d] \in Bodies /\ body'[d].date = PostingDate(r)
      BY <2>1, <2>2, <2>4, CommitFacts DEF RowsComplete, PostingDate
    <2>6. body'[d].date \in Nat /\ lock \in Nat
      BY <2>5 DEF Bodies, TypeOK, StoreTypeOK
    <2> QED BY <2>3, <2>5, <2>6
  <1> QED BY <1>1, TypeCorrect, RowsCompleteInvariant, PTL DEF Spec, LockRespected

\* No commit leaves a submitted payment pointing at a deposit that is not
\* submitted.
LEMMA OrphanStep ==
    ASSUME TypeOK, RowsComplete, NoOrphanApplication, [Next]_vars
    PROVE  NoOrphanApplication'
  <1>1. ASSUME NEW r \in Req, CommitApply(r) PROVE NoOrphanApplication'
    <2> DEFINE t == Target(r)
    <2>0. SUFFICES ASSUME NEW d \in Docs, IsPayment(d), status'[d] = 1,
                        body'[d].deposit # NoDoc
                 PROVE  /\ IsDeposit(body'[d].deposit)
                        /\ status'[body'[d].deposit] = 1
      BY DEF NoOrphanApplication, DepositUsable
    <2>1. /\ t \in Docs /\ status \in [Docs -> 0..2] /\ body \in [Docs -> Bodies \cup {NoBody}]
      BY <1>1, CommitFacts DEF TypeOK, StoreTypeOK
    <2>2. /\ status' = [status EXCEPT ![t] = IF IsSubmit(r) THEN 1 ELSE 2]
          /\ body' = IF IsSubmit(r) THEN [body EXCEPT ![t] = cmd[r].body] ELSE body
          /\ ~deposit_guard_violation(r)
      BY <1>1 DEF CommitApply, WriteDocument, Stale
    <2>3. CASE d = t
      <3>a. status'[t] = 1
        BY <2>0, <2>3
      <3>0. IsSubmit(r)
        BY <2>1, <2>2, <3>a
      <3>1. IsSubmit(r) /\ body'[d] = cmd[r].body /\ cmd[r].body \in Bodies
        BY <1>1, <2>1, <2>2, <2>3, <3>0, CommitFacts
      <3>2. AppliesDeposit(r)
        BY <2>0, <2>3, <3>1 DEF AppliesDeposit
      <3>3. DepositUsable(body'[d].deposit)
        BY <2>2, <3>1, <3>2 DEF deposit_guard_violation
      <3>4. body'[d].deposit # t
        BY <2>0, <2>3, <3>3, DoctypesApart DEF DepositUsable
      <3>5. body'[d].deposit \in Docs
        BY <2>0, <3>1 DEF Bodies
      <3> QED BY <2>1, <2>2, <3>3, <3>4, <3>5 DEF DepositUsable
    <2>4. CASE d # t
      <3>1. status[d] = 1 /\ body'[d] = body[d]
        BY <2>0, <2>1, <2>2, <2>4
      <3>2. DepositUsable(body[d].deposit)
        BY <2>0, <3>1 DEF NoOrphanApplication
      <3>3. body[d].deposit \in Docs
        <4>1. body[d] \in Bodies
          BY <3>1 DEF RowsComplete
        <4> QED BY <2>0, <3>1, <4>1 DEF Bodies
      <3>4. CASE body[d].deposit # t
        BY <2>1, <2>2, <3>1, <3>2, <3>3, <3>4 DEF DepositUsable
      <3>5. CASE body[d].deposit = t
        <4>1. status[t] = 1
          BY <3>2, <3>5 DEF DepositUsable
        <4>2. ~IsSubmit(r)
          BY <1>1, <4>1, CommitFacts
        <4>3. d \in deposit_applications(t)
          BY <2>0, <3>1, <3>5 DEF deposit_applications
        <4> QED BY <2>2, <3>2, <3>5, <4>2, <4>3
              DEF deposit_guard_violation, ReleasesDeposit, DepositUsable
      <3> QED BY <3>4, <3>5
    <2> QED BY <2>3, <2>4
  <1>2. CASE UNCHANGED books
    BY <1>2 DEF books, NoOrphanApplication, DepositUsable
  <1> QED BY <1>1, <1>2, OnlyCommitsWrite

\* A live payment never points at a deposit that is gone, whichever of the
\* application and the deposit's cancellation commits first.
THEOREM NoOrphanCorrect == Spec => []NoOrphanApplication
  <1>1. Init => NoOrphanApplication
    <2> SUFFICES ASSUME Init, NEW d \in Docs PROVE status[d] # 1
      BY DEF NoOrphanApplication
    <2> QED BY DEF Init
  <1>2. TypeOK /\ RowsComplete /\ NoOrphanApplication /\ [Next]_vars => NoOrphanApplication'
    BY OrphanStep
  <1> QED BY <1>1, <1>2, TypeCorrect, RowsCompleteInvariant, PTL DEF Spec

\* A payment past the checks of its own payload stays past them until it
\* commits.
PaymentsChecked == \A r \in Req : pc[r] \in {"invoices", "commit"} => PaymentChecked(r)

LEMMA PaymentsCheckedStep ==
    ASSUME TypeOK, PaymentsChecked, [Next]_vars
    PROVE  PaymentsChecked'
  <1> SUFFICES ASSUME NEW r \in Req, pc'[r] \in {"invoices", "commit"}
               PROVE  PaymentChecked(r)'
    BY DEF PaymentsChecked
  <1>1. PaymentChecked(r)
    BY PastCheckSteps DEF PaymentsChecked
  <1>2. cmd'[r] = cmd[r]
    BY PastCheckSteps
  <1> QED BY <1>1, <1>2 DEF PaymentChecked, ValidPayment, Target, IsSubmit, Allocated

\* Finitely many documents are posted.
PostedFinite == IsFiniteSet({d \in Docs : status[d] # 0})

\* Every posted payment is of more than zero.
PaymentsPositive ==
    \A d \in Docs : IsPayment(d) /\ status[d] # 0 => body[d].amount > 0

DepositInv == PaymentsChecked /\ PostedFinite /\ PaymentsPositive /\ DepositsCovered

\* What an application adds up to, as a sum of the amounts of all documents.
Amounts == [d \in Docs |-> body[d].amount]

LEMMA AppliedIsSum ==
    ASSUME TypeOK, PostedFinite, NEW dep
    PROVE  /\ IsFiniteSet(deposit_applications(dep))
           /\ Applied(dep) = SumFunctionOnSet(Amounts, deposit_applications(dep))
  <1> DEFINE A == deposit_applications(dep)
             f == [d \in A |-> body[d].amount]
  <1>0. A \subseteq {d \in Docs : status[d] # 0}
    BY DEF deposit_applications, TypeOK, StoreTypeOK
  <1>1. IsFiniteSet(A)
    BY <1>0, FS_Subset DEF PostedFinite
  <1>2. A \subseteq Docs
    BY DEF deposit_applications
  <1>3. Applied(dep) = SumFunctionOnSet(f, A)
    BY DEF Applied, SumFunction
  <1>4. \A d \in A : f[d] = Amounts[d]
    BY <1>2 DEF Amounts
  <1> HIDE DEF f, A
  <1>5. SumFunctionOnSet(f, A) = SumFunctionOnSet(Amounts, A)
    BY <1>1, <1>4, SumSame
  <1> QED BY <1>1, <1>3, <1>5 DEF A

\* What a commit does to documents.
LEMMA CommitDocuments ==
    ASSUME TypeOK, RowsComplete, NEW r \in Req, CommitApply(r)
    PROVE  /\ Target(r) \in Docs
           /\ status' = [status EXCEPT ![Target(r)] = IF IsSubmit(r) THEN 1 ELSE 2]
           /\ body' = IF IsSubmit(r) THEN [body EXCEPT ![Target(r)] = cmd[r].body] ELSE body
           /\ body'[Target(r)] \in Bodies
           /\ \A d \in Docs \ {Target(r)} : status'[d] = status[d] /\ body'[d] = body[d]
           /\ status[Target(r)] = IF IsSubmit(r) THEN 0 ELSE 1
           /\ status'[Target(r)] = IF IsSubmit(r) THEN 1 ELSE 2
           /\ IsSubmit(r) => cmd[r] \in Commands /\ cmd[r].kind = "submit"
                             /\ body'[Target(r)] = cmd[r].body
  <1> USE DEF TypeOK, StoreTypeOK
  <1>1. /\ Target(r) \in Docs /\ cmd[r] \in Commands
        /\ status[Target(r)] = IF IsSubmit(r) THEN 0 ELSE 1
        /\ IsSubmit(r) => cmd[r].body \in Bodies
    BY CommitFacts
  <1>2. /\ status' = [status EXCEPT ![Target(r)] = IF IsSubmit(r) THEN 1 ELSE 2]
        /\ body' = IF IsSubmit(r) THEN [body EXCEPT ![Target(r)] = cmd[r].body] ELSE body
    BY DEF CommitApply, WriteDocument
  <1>3. ~IsSubmit(r) => body[Target(r)] \in Bodies
    BY <1>1 DEF RowsComplete
  <1> QED BY <1>1, <1>2, <1>3 DEF IsSubmit

\* A commit that neither posts nor cancels an application of the deposit
\* leaves what is applied of it alone.
LEMMA AppliedUnchanged ==
    ASSUME PostedFinite, NEW dep, deposit_applications(dep)' = deposit_applications(dep),
           \A d \in deposit_applications(dep) : body'[d] = body[d]
    PROVE  Applied(dep)' = Applied(dep)
  <1> DEFINE A == deposit_applications(dep)
             f == [d \in A |-> body[d].amount]
             g == [d \in A |-> body'[d].amount]
  <1>1. f = g
    OBVIOUS
  <1> QED BY <1>1 DEF Applied

\* The submitted applications of a deposit never exceed it: an application is
\* counted against the others when it commits.
LEMMA DepositsStep ==
    ASSUME TypeOK, RowsComplete, NoOrphanApplication, DepositInv, PostedFinite', [Next]_vars
    PROVE  DepositsCovered'
  <1>1. ASSUME NEW r \in Req, CommitApply(r) PROVE DepositsCovered'
    <2> DEFINE t == Target(r)
    <2> SUFFICES ASSUME NEW dep \in Docs, IsDeposit(dep), status'[dep] # 0
                 PROVE  Applied(dep)' <= body'[dep].amount
      BY DEF DepositsCovered
    <2> DEFINE A == deposit_applications(dep)
               B == {d \in Docs : /\ IsPayment(d) /\ status'[d] = 1
                                  /\ body'[d].deposit = dep}
    <2>0. deposit_applications(dep)' = B
      BY DEF deposit_applications
    <2>1. /\ t \in Docs /\ body'[t] \in Bodies
          /\ status \in [Docs -> 0..2] /\ status' \in [Docs -> 0..2]
          /\ \A d \in Docs \ {t} : status'[d] = status[d] /\ body'[d] = body[d]
          /\ status[t] = IF IsSubmit(r) THEN 0 ELSE 1
          /\ status'[t] = IF IsSubmit(r) THEN 1 ELSE 2
          /\ IsSubmit(r) => cmd[r] \in Commands /\ cmd[r].kind = "submit"
                             /\ body'[t] = cmd[r].body
          /\ ~IsSubmit(r) => body' = body
      BY <1>1, CommitDocuments, TypeStep DEF TypeOK, StoreTypeOK
    <2>2. /\ \A d : d \in A <=> /\ d \in Docs /\ IsPayment(d)
                               /\ status[d] = 1 /\ body[d].deposit = dep
          /\ \A d : d \in B <=> /\ d \in Docs /\ IsPayment(d)
                               /\ status'[d] = 1 /\ body'[d].deposit = dep
      BY DEF deposit_applications
    <2>a. \A d \in A : body[d] \in Bodies
      BY <2>1, <2>2 DEF RowsComplete
    <2>3. IsFiniteSet(A) /\ Applied(dep) = SumFunctionOnSet(Amounts, A)
      BY AppliedIsSum DEF DepositInv
    <2>4. \A d \in A : Amounts[d] \in Int /\ Amounts[d] = body[d].amount
      BY <2>2, <2>a DEF Amounts, Bodies
    <2> HIDE DEF A, B
    <2>5. Applied(dep) \in Int
      BY <2>3, <2>4, SumType
    <2>6. IsFiniteSet(B) /\ Applied(dep)' = SumFunctionOnSet(Amounts', B)
      <3>1. TypeOK'
        BY TypeStep
      <3>2. IsFiniteSet(deposit_applications(dep))' /\
              (Applied(dep) = SumFunctionOnSet(Amounts, deposit_applications(dep)))'
        BY <3>1, AppliedIsSum, PTL
      <3> QED BY <2>0, <3>2
    <2>7. CASE dep = t
      <3>1. ~IsPayment(t)
        BY <2>7, DoctypesApart
      <3>2. B = A /\ \A d \in A : body'[d] = body[d]
        <4>1. \A d : d \in B <=> d \in A
          BY <2>1, <2>2, <3>1
        <4> QED BY <2>1, <2>2, <3>1, <4>1
      <3>3. Applied(dep)' = Applied(dep)
        BY <2>0, <3>2, AppliedUnchanged DEF DepositInv, A
      <3>4. CASE IsSubmit(r)
        <4>1. A = {}
          <5> SUFFICES ASSUME NEW d \in A PROVE FALSE
            OBVIOUS
          <5>1. dep # NoDoc
            BY CommandsAssumption
          <5> QED BY <2>1, <2>2, <2>7, <3>4, <5>1 DEF NoOrphanApplication, DepositUsable
        <4>2. Applied(dep) = 0
          BY <2>3, <4>1, SumEmpty
        <4>3. cmd[r].body.amount > 0
          BY <2>1, <2>7, <3>4, CommandsAssumption DEF Target
        <4>4. body'[dep].amount \in Int /\ body'[dep].amount > 0
          BY <2>1, <2>7, <3>4, <4>3 DEF Bodies
        <4> QED BY <3>3, <4>2, <4>4
      <3>5. CASE ~IsSubmit(r)
        <4>1. Applied(dep) <= body[dep].amount
          BY <2>1, <2>7, <3>5 DEF DepositInv, DepositsCovered
        <4> QED BY <2>1, <3>3, <3>5, <4>1
      <3> QED BY <3>4, <3>5
    <2>8. CASE dep # t
      <3>1. body'[dep] = body[dep] /\ status[dep] # 0
        BY <2>1, <2>8
      <3>2. Applied(dep) <= body[dep].amount /\ body[dep].amount \in Int
        BY <3>1 DEF DepositInv, DepositsCovered, RowsComplete, Bodies
      <3>3. CASE B = A /\ \A d \in A : body'[d] = body[d]
        <4>1. Applied(dep)' = Applied(dep)
          BY <2>0, <3>3, AppliedUnchanged DEF DepositInv, A
        <4> QED BY <3>1, <3>2, <4>1
      <3>4. CASE IsSubmit(r) /\ IsPayment(t) /\ body'[t].deposit = dep
        <4>1. B = A \cup {t} /\ t \notin A /\ t \in B
          BY <2>1, <2>2, <3>4
        <4>2. \A d \in A : body'[d] = body[d]
          BY <2>1, <2>2, <4>1
        <4>3. \A d \in A : Amounts'[d] = Amounts[d]
          BY <2>2, <4>2 DEF Amounts
        <4>4. Amounts'[t] = cmd[r].body.amount /\ Amounts'[t] \in Int
          BY <2>1, <3>4 DEF Amounts, Bodies
        <4>5. \A d \in B : Amounts'[d] \in Int
          BY <2>4, <4>1, <4>3, <4>4
        <4>6. B \ {t} = A
          BY <4>1
        <4>7. SumFunctionOnSet(Amounts', B) = Amounts'[t] + SumFunctionOnSet(Amounts', B \ {t})
          BY <2>6, <4>1, <4>5, SumTake
        <4>8. SumFunctionOnSet(Amounts', A) = SumFunctionOnSet(Amounts, A)
          BY <2>3, <4>3, SumSame
        <4>9. cmd[r].body.amount <= body[dep].amount - Applied(dep)
          <5>1. cmd[r].body.deposit = dep /\ dep # NoDoc
            BY <2>1, <3>4, CommandsAssumption
          <5>2. AppliesDeposit(r)
            BY <3>4, <5>1 DEF AppliesDeposit
          <5>3. ApplicationFits(r)
            BY <1>1, <5>2 DEF CommitApply, Stale, deposit_guard_violation
          <5> QED BY <5>1, <5>3 DEF ApplicationFits
        <4>10. Applied(dep)' = cmd[r].body.amount + Applied(dep)
          BY <2>3, <2>6, <4>4, <4>6, <4>7, <4>8
        <4> QED BY <2>5, <3>1, <3>2, <4>4, <4>9, <4>10
      <3>5. CASE ~IsSubmit(r) /\ t \in A
        <4>1. B = A \ {t}
          BY <2>1, <2>2, <3>5
        <4>2. Amounts' = Amounts
          BY <2>1, <3>5 DEF Amounts
        <4>3. SumFunctionOnSet(Amounts, A) = Amounts[t] + SumFunctionOnSet(Amounts, A \ {t})
          BY <2>3, <2>4, <3>5, SumTake
        <4>4. Amounts[t] \in Int /\ Amounts[t] > 0
          BY <2>2, <2>4, <3>5 DEF DepositInv, PaymentsPositive
        <4>5. SumFunctionOnSet(Amounts, A \ {t}) \in Int
          <5>1. IsFiniteSet(A \ {t}) /\ \A d \in A \ {t} : Amounts[d] \in Int
            BY <2>3, <2>4, FS_Subset
          <5> QED BY <5>1, SumType
        <4>6. Applied(dep)' = SumFunctionOnSet(Amounts, A \ {t})
          BY <2>6, <4>1, <4>2
        <4> QED BY <2>3, <2>5, <3>1, <3>2, <4>3, <4>4, <4>5, <4>6
      <3>6. CASE ~(IsSubmit(r) /\ IsPayment(t) /\ body'[t].deposit = dep)
                 /\ ~(~IsSubmit(r) /\ t \in A)
        <4>1. t \notin A
          BY <2>1, <2>2, <3>6
        <4>2. t \notin B
          BY <2>1, <2>2, <3>6
        <4>3. \A d : d \in B <=> d \in A
          BY <2>1, <2>2, <4>1, <4>2
        <4>4. B = A
          BY <4>3
        <4> QED BY <2>1, <2>2, <3>3, <4>1, <4>4
      <3> QED BY <3>4, <3>5, <3>6
    <2> QED BY <2>7, <2>8
  <1>2. CASE UNCHANGED books
    <2> SUFFICES ASSUME NEW dep \in Docs, IsDeposit(dep), status'[dep] # 0
                 PROVE  Applied(dep)' <= body'[dep].amount
      BY DEF DepositsCovered
    <2>1. status' = status /\ body' = body
      BY <1>2 DEF books
    <2>2. Applied(dep)' = Applied(dep)
      BY <2>1, AppliedUnchanged DEF DepositInv, deposit_applications
    <2> QED BY <2>1, <2>2 DEF DepositInv, DepositsCovered
  <1> QED BY <1>1, <1>2, OnlyCommitsWrite

\* One document at most is posted by a step, and a payment only once checked.
LEMMA PostedStep ==
    ASSUME TypeOK, RowsComplete, PaymentsChecked, PostedFinite, PaymentsPositive, [Next]_vars
    PROVE  PostedFinite' /\ PaymentsPositive'
  <1>1. ASSUME NEW r \in Req, CommitApply(r) PROVE PostedFinite' /\ PaymentsPositive'
    <2> DEFINE t == Target(r)
    <2>1. /\ t \in Docs /\ status \in [Docs -> 0..2]
          /\ \A d \in Docs \ {t} : status'[d] = status[d] /\ body'[d] = body[d]
          /\ status[t] = IF IsSubmit(r) THEN 0 ELSE 1
          /\ IsSubmit(r) => body'[t] = cmd[r].body
          /\ ~IsSubmit(r) => body' = body
      BY <1>1, CommitDocuments DEF TypeOK, StoreTypeOK
    <2>2. {d \in Docs : status'[d] # 0} \subseteq {d \in Docs : status[d] # 0} \cup {t}
      BY <2>1
    <2>3. IsFiniteSet({d \in Docs : status[d] # 0} \cup {t})
      BY FS_AddElement DEF PostedFinite
    <2>4. PostedFinite'
      BY <2>2, <2>3, FS_Subset DEF PostedFinite
    <2>5. PaymentChecked(r)
      BY <1>1 DEF PaymentsChecked, CommitApply
    <2>6. IsPayment(t) => body'[t].amount > 0
      <3>1. CASE IsSubmit(r) /\ IsPayment(t)
        <4>1. ValidPayment(r)
          BY <2>5, <3>1 DEF PaymentChecked
        <4>2. cmd[r].body.amount > 0
          BY <4>1 DEF ValidPayment
        <4> QED BY <2>1, <3>1, <4>2
      <3>2. CASE ~IsSubmit(r)
        BY <2>1, <3>2 DEF PaymentsPositive
      <3> QED BY <3>1, <3>2
    <2> QED BY <2>1, <2>4, <2>6 DEF PaymentsPositive
  <1>2. CASE UNCHANGED books
    BY <1>2 DEF books, PostedFinite, PaymentsPositive
  <1> QED BY <1>1, <1>2, OnlyCommitsWrite

\* However many payments apply a deposit at the same time, are retried or
\* cancelled, the submitted ones never add up to more than the deposit.
LEMMA DepositInvariant == Spec => []DepositInv
  <1>1. Init => DepositInv
    <2> SUFFICES ASSUME Init PROVE DepositInv
      OBVIOUS
    <2>1. \A d \in Docs : status[d] = 0
      BY DEF Init
    <2>2. PaymentsPositive /\ DepositsCovered
      BY <2>1 DEF PaymentsPositive, DepositsCovered
    <2>3. PaymentsChecked
      BY DEF Init, PaymentsChecked
    <2>4. {d \in Docs : status[d] # 0} = {}
      BY <2>1
    <2>5. PostedFinite
      BY <2>4, FS_EmptySet DEF PostedFinite
    <2> QED BY <2>2, <2>3, <2>5 DEF DepositInv
  <1>2. TypeOK /\ RowsComplete /\ NoOrphanApplication /\ DepositInv /\ [Next]_vars
        => DepositInv'
    <2> SUFFICES ASSUME TypeOK, RowsComplete, NoOrphanApplication, DepositInv, [Next]_vars
                 PROVE  DepositInv'
      OBVIOUS
    <2>1. PaymentsChecked'
      BY PaymentsCheckedStep DEF DepositInv
    <2>2. PostedFinite' /\ PaymentsPositive'
      BY PostedStep DEF DepositInv
    <2>3. DepositsCovered'
      BY <2>2, DepositsStep
    <2> QED BY <2>1, <2>2, <2>3 DEF DepositInv
  <1> QED BY <1>1, <1>2, TypeCorrect, RowsCompleteInvariant, NoOrphanCorrect, PTL DEF Spec

THEOREM DepositsCorrect == Spec => []DepositsCovered
  <1>1. DepositInv => DepositsCovered
    BY DEF DepositInv
  <1> QED BY <1>1, DepositInvariant, PTL

\* A commit of an offline sale found its till series unused or its own.
LEMMA TillStep ==
    ASSUME TypeOK, RowsComplete, TillSingleDevice, [Next]_vars,
           \A d \in Docs : status[d] # 0 /\ body[d].offline => Doctype[d] = "POS Invoice"
    PROVE  /\ TillSingleDevice'
           /\ \A d \in Docs : status'[d] # 0 /\ body'[d].offline => Doctype[d] = "POS Invoice"
  <1>1. ASSUME NEW r \in Req, CommitApply(r)
        PROVE  /\ TillSingleDevice'
               /\ \A d \in Docs : status'[d] # 0 /\ body'[d].offline => Doctype[d] = "POS Invoice"
    <2> DEFINE t == Target(r)
    <2>1. /\ t \in Docs /\ status \in [Docs -> 0..2] /\ body \in [Docs -> Bodies \cup {NoBody}]
      BY <1>1, CommitFacts DEF TypeOK, StoreTypeOK
    <2>2. /\ status' = [status EXCEPT ![t] = IF IsSubmit(r) THEN 1 ELSE 2]
          /\ body' = IF IsSubmit(r) THEN [body EXCEPT ![t] = cmd[r].body] ELSE body
          /\ ~TillBoundElsewhere(r)
      BY <1>1 DEF CommitApply, WriteDocument, Clash
    <2>3. CASE ~IsSubmit(r)
      <3>1. body' = body /\ \A d \in Docs : status'[d] # 0 => status[d] # 0
        BY <1>1, <2>1, <2>2, <2>3, CommitFacts
      <3> QED BY <3>1 DEF TillSingleDevice
    <2>4. CASE IsSubmit(r)
      <3>1. cmd[r].body.offline => Doctype[t] = "POS Invoice"
        BY <1>1, <2>4, CommitFacts, CommandsAssumption DEF IsSubmit
      <3>2. \A d \in Docs : status'[d] # 0 /\ body'[d].offline => Doctype[d] = "POS Invoice"
        BY <2>1, <2>2, <2>4, <3>1
      <3>3. ASSUME NEW e \in Docs, e # t, status[e] # 0, body[e].offline,
                   cmd[r].body.offline, body[e].till = cmd[r].body.till,
                   as_non_empty(body[e].till) = body[e].till
            PROVE  body[e].device = cmd[r].body.device
        <4>1. e \in SameDoctype(t)
          BY <3>1, <3>3 DEF SameDoctype
        <4>2. as_non_empty(cmd[r].body.till) # ""
          BY <1>1, <2>4, <3>3, CommitFacts, CommandsAssumption DEF IsSubmit
        <4> QED BY <2>2, <2>4, <3>3, <4>1, <4>2 DEF TillBoundElsewhere, OfflineSubmit
      <3>4. TillSingleDevice'
        BY <2>1, <2>2, <2>4, <3>3 DEF TillSingleDevice
      <3> QED BY <3>2, <3>4
    <2> QED BY <2>3, <2>4
  <1>2. CASE UNCHANGED books
    BY <1>2 DEF books, TillSingleDevice
  <1> QED BY <1>1, <1>2, OnlyCommitsWrite

\* A till receipt series that the payloads spell without surrounding blanks
\* is only ever used from one device.
THEOREM TillCorrect == Spec => []TillSingleDevice
  <1> DEFINE OfflineIsPos ==
        \A d \in Docs : status[d] # 0 /\ body[d].offline => Doctype[d] = "POS Invoice"
  <1>1. Init => TillSingleDevice /\ OfflineIsPos
    BY DEF Init, TillSingleDevice
  <1>2. TypeOK /\ RowsComplete /\ TillSingleDevice /\ OfflineIsPos /\ [Next]_vars
        => TillSingleDevice' /\ OfflineIsPos'
    BY TillStep
  <1> HIDE DEF OfflineIsPos
  <1> QED BY <1>1, <1>2, TypeCorrect, RowsCompleteInvariant, PTL DEF Spec

\* A key's stored response is never replaced.
THEOREM KeyAnsweredOnceCorrect == Spec => KeyAnsweredOnce
  <1> DEFINE Kept == \A k \in Keys : idem[k] # NoResponse => idem'[k] = idem[k]
  <1>1. TypeOK /\ [Next]_vars => [Kept]_vars
    <2> SUFFICES ASSUME TypeOK, [Next]_vars, NEW k \in Keys, idem[k] # NoResponse
                 PROVE  idem'[k] = idem[k]
      OBVIOUS
    <2>1. ASSUME NEW r \in Req, CommitApply(r) PROVE idem'[k] = idem[k]
      <3>1. ~KeyUsed(r) /\ WriteKey(r)
        BY <2>1 DEF CommitApply
      <3> QED BY <3>1 DEF KeyUsed, WriteKey, TypeOK, StoreTypeOK
    <2> QED BY <2>1, OnlyCommitsWrite DEF books
  <1> QED BY <1>1, TypeCorrect, PTL DEF Spec, KeyAnsweredOnce
-----------------------------------------------------------------------------
(* Settlements, outstanding amounts and what devices receive.              *)

\* Every settlement row is of a posted payment, against a posted invoice; the
\* reversing rows are of cancelled payments and take back what was settled.
RowsBooked ==
    \A s \in settlements :
        /\ IsPayment(s.pay) /\ status[s.pay] # 0 /\ (s.rev => status[s.pay] = 2)
        /\ Doctype[s.inv] \in SETTLEABLE_DOCTYPES /\ status[s.inv] # 0
        /\ (s.rev => s.amt <= 0) /\ (~s.rev => s.amt >= 0)

\* The rows a cancel is going to reverse are stored rows of its payment.
VouchersStored ==
    \A r \in Req :
        pc[r] \in {"stock", "invoices", "commit"} /\ ~IsSubmit(r)
        => voucher[r].settled \subseteq StoredSettlements(Target(r))

\* Where a build of a payment is: the invoices it has read, and the new
\* outstanding amounts it has computed.
BuildSound(r) ==
    IF pc[r] \in {"invoices", "commit"} /\ IsPayment(Target(r))
    THEN /\ DOMAIN upd[r] \subseteq quoted[r] /\ quoted[r] \subseteq Invoices(r)
         /\ \A i \in quoted[r] : status[i] # 0
         /\ pc[r] = "commit" => DOMAIN upd[r] = Invoices(r)
    ELSE DOMAIN upd[r] = {} /\ quoted[r] = {}

BuildsSound == DOMAIN upd = Req /\ \A r \in Req : BuildSound(r)

\* Only a submit reads the deposit it names, a cancel that reads the
\* applications of a deposit is the cancel of that deposit, and only payments
\* read invoices.
PhasesSound ==
    \A r \in Req : /\ pc[r] = "deposit" => IsSubmit(r)
                   /\ pc[r] = "applied" /\ ~IsSubmit(r) => IsDeposit(Target(r))
                   /\ pc[r] = "invoices" => IsPayment(Target(r))

\* What is on the mutation log was put there by a posting that is booked.
LogBooked ==
    \A m \in logged : /\ m[1] \in Docs /\ status[m[1]] # 0
                      /\ m[4] => status[m[1]] = 2

RowsInv ==
    /\ IsFiniteSet(settlements) /\ RowsBooked /\ VouchersStored /\ BuildsSound
    /\ PhasesSound /\ LogBooked /\ ReplicaAgrees

\* The documents whose postings read or write settlements.
Settles(d) == IsPayment(d) \/ Doctype[d] \in SETTLEABLE_DOCTYPES

\* No two requests about payments or invoices run at the same time.  Postings
\* of every other doctype, lock and settings changes run at any time.
SettlementsApart ==
    \A r, s \in Req : /\ pc[r] # "idle" /\ pc[s] # "idle"
                      /\ Settles(Target(r)) /\ Settles(Target(s))
                      => r = s

\* What a build of a payment has read and computed is what is stored, and it
\* allocates no more than is outstanding.
BuildExact(r) ==
    pc[r] \in {"invoices", "commit"} /\ IsPayment(Target(r))
    => /\ \A i \in quoted[r] : status[i] = 1
       /\ \A i \in DOMAIN upd[r] :
             upd[r][i] = OutstandingAfter(r, i) /\ ~OverAllocated(r, i)

\* An invoice whose cancellation passed the check has no live settlement.
CancelExact(r) ==
    /\ pc[r] \in {"voucher", "stock", "commit"} /\ ~IsSubmit(r)
    /\ Doctype[Target(r)] \in SETTLEABLE_DOCTYPES
    => Settled(Target(r)) = 0

SettleInv ==
    /\ OutstandingExact /\ CancelledUnsettled
    /\ \A r \in Req : pc[r] # "idle" => BuildExact(r) /\ CancelExact(r)

\* What a step may do to a request, as far as settlements go.
SameBuild(r) ==
    /\ cmd'[r] = cmd[r] /\ voucher'[r] = voucher[r]
    /\ quoted'[r] = quoted[r] /\ upd'[r] = upd[r]

Kept(r) == pc'[r] = pc[r] /\ SameBuild(r)

Ended(r) == pc'[r] = "idle" /\ quoted'[r] = {} /\ upd'[r] = <<>>

\* It moves to a phase before the rows are read, or starts over.
Early(r) ==
    /\ pc'[r] \in {"replay", "settings", "document", "settled", "deposit", "applied", "voucher"}
    /\ \/ quoted'[r] = {} /\ upd'[r] = <<>>
       \/ pc[r] \notin {"invoices", "commit"} /\ quoted'[r] = quoted[r] /\ upd'[r] = upd[r]
    /\ pc'[r] = "deposit" => cmd'[r] = cmd[r] /\ IsSubmit(r)
    /\ pc'[r] = "applied"
       => cmd'[r] = cmd[r] /\ (pc[r] = "deposit" \/ IsDeposit(Target(r)))
    /\ pc'[r] = "voucher"
       => /\ cmd'[r] = cmd[r]
          /\ \/ Settled(Target(r)) = 0
             \/ Doctype[Target(r)] \notin SETTLEABLE_DOCTYPES
             \/ pc[r] = "applied" /\ ~IsSubmit(r)

RowsRead(r) ==
    /\ pc[r] = "voucher" /\ pc'[r] = "stock" /\ cmd'[r] = cmd[r]
    /\ voucher'[r].settled = StoredSettlements(Target(r))
    /\ quoted'[r] = quoted[r] /\ upd'[r] = upd[r]

SubmitBuilds(r) ==
    pc[r] \in {"document", "applied"} /\ IsSubmit(r) /\ pc'[r] = "stock" /\ SameBuild(r)

StockPassed(r) ==
    /\ pc[r] = "stock" /\ SameBuild(r)
    /\ pc'[r] = IF IsPayment(Target(r)) THEN "invoices" ELSE "commit"

Quotes(r) ==
    /\ pc[r] = "invoices" /\ pc'[r] = "invoices" /\ cmd'[r] = cmd[r]
    /\ voucher'[r] = voucher[r] /\ upd'[r] = upd[r]
    /\ \E i \in Invoices(r) : status[i] = 1 /\ quoted'[r] = quoted[r] \cup {i}

Computes(r) ==
    /\ pc[r] = "invoices" /\ pc'[r] = "invoices" /\ cmd'[r] = cmd[r]
    /\ voucher'[r] = voucher[r] /\ quoted'[r] = quoted[r]
    /\ \E i \in quoted[r] :
          /\ ~OverAllocated(r, i)
          /\ upd'[r] = [j \in DOMAIN upd[r] \cup {i} |->
                           IF j = i THEN OutstandingAfter(r, i) ELSE upd[r][j]]

Completes(r) ==
    pc[r] = "invoices" /\ pc'[r] = "commit" /\ SameBuild(r) /\ DOMAIN upd[r] = Invoices(r)

Moves(r) ==
    \/ Early(r) \/ RowsRead(r) \/ SubmitBuilds(r) \/ StockPassed(r)
    \/ Quotes(r) \/ Computes(r) \/ Completes(r)

\* The step of one request leaves the others alone.
LEMMA OthersKept ==
    ASSUME TypeOK, DOMAIN upd = Req, NEW s \in Req, NEW r \in Req, r # s,
           Step(s) \/ Abandon(s) \/ (\E c \in Commands : Begin(s, c))
    PROVE  Kept(r) /\ DOMAIN upd' = Req
  <1> USE DEF Kept, SameBuild
  <1>0. /\ pc \in [Req -> Phases] /\ DOMAIN cmd = Req /\ DOMAIN voucher = Req
        /\ DOMAIN quoted = Req
    BY DEF TypeOK, RequestTypeOK
  <1>1. ASSUME NEW w, Answer(s, w) PROVE Kept(r) /\ DOMAIN upd' = Req
    BY <1>0, <1>1 DEF Answer
  <1>2. CASE Rebuild(s)
    BY <1>0, <1>2 DEF Rebuild
  <1>3. ASSUME NEW phase, Proceed(s, phase) PROVE Kept(r) /\ DOMAIN upd' = Req
    BY <1>0, <1>3 DEF Proceed, Goto, Local
  <1>4. CASE \/ Replay(s) \/ ReadDocumentSubmit(s) \/ ReadSettled(s) \/ ReadDeposit(s)
             \/ ReadApplications(s) \/ InvoicesRead(s) \/ CheckStock(s) \/ CommitReplay(s)
             \/ CommitStale(s) \/ CommitConflict(s) \/ CommitApply(s) \/ Abandon(s)
    BY <1>1, <1>2, <1>3, <1>4 DEF Replay, ReadDocumentSubmit, ReadSettled, ReadDeposit,
        ReadApplications, InvoicesRead, CheckStock, CommitReplay, CommitStale,
        CommitConflict, CommitApply, Abandon
  <1>5. CASE ReadSettings(s) \/ ReadDocumentCancel(s) \/ ReadVoucher(s)
    <2>1. CASE \E w : Answer(s, w)
      BY <1>1, <2>1
    <2>2. CASE ~(\E w : Answer(s, w))
      BY <1>0, <1>5, <2>2 DEF ReadSettings, ReadDocumentCancel, CancelBeyondLock,
          ReadVoucher, Goto
    <2> QED BY <2>1, <2>2
  <1>6. ASSUME NEW p \in Pairs, ReadStock(s, p) PROVE Kept(r) /\ DOMAIN upd' = Req
    BY <1>0, <1>6 DEF ReadStock
  <1>7. ASSUME NEW i \in Docs, ReadInvoice(s, i) PROVE Kept(r) /\ DOMAIN upd' = Req
    BY <1>0, <1>1, <1>7 DEF ReadInvoice
  <1>8. ASSUME NEW i \in Docs, ReadSettlements(s, i) PROVE Kept(r) /\ DOMAIN upd' = Req
    BY <1>0, <1>1, <1>8 DEF ReadSettlements
  <1>9. ASSUME NEW c \in Commands, Begin(s, c) PROVE Kept(r) /\ DOMAIN upd' = Req
    BY <1>0, <1>9 DEF Begin, Local
  <1> QED BY <1>4, <1>5, <1>6, <1>7, <1>8, <1>9 DEF Step

\* What its own steps do to a request.
LEMMA OwnMoves ==
    ASSUME TypeOK, DOMAIN upd = Req, NEW r \in Req,
           Step(r) \/ Abandon(r) \/ (\E c \in Commands : Begin(r, c))
    PROVE  Kept(r) \/ Ended(r) \/ Moves(r)
  <1>0. /\ pc \in [Req -> Phases] /\ DOMAIN cmd = Req /\ DOMAIN voucher = Req
        /\ DOMAIN quoted = Req
    BY DEF TypeOK, RequestTypeOK
  <1>1. ASSUME NEW w, Answer(r, w) PROVE Ended(r)
    BY <1>0, <1>1 DEF Answer, Ended
  <1>2. ASSUME Rebuild(r) PROVE Early(r)
    BY <1>0, <1>2 DEF Rebuild, Early
  <1>3. ASSUME NEW phase, Proceed(r, phase) PROVE pc'[r] = phase /\ SameBuild(r)
    BY <1>0, <1>3 DEF Proceed, Goto, Local, SameBuild
  <1>4. ASSUME NEW c \in Commands, Begin(r, c) PROVE Early(r)
    BY <1>0, <1>4 DEF Begin, Local, Early
  <1>5. ASSUME Replay(r) PROVE Ended(r) \/ Early(r)
    BY <1>1, <1>3, <1>5 DEF Replay, Early, SameBuild
  <1>6. ASSUME ReadSettings(r) PROVE Ended(r) \/ Early(r)
    BY <1>0, <1>1, <1>6 DEF ReadSettings, Goto, Early
  <1>7. ASSUME ReadDocumentSubmit(r) PROVE Ended(r) \/ Early(r) \/ SubmitBuilds(r)
    BY <1>1, <1>3, <1>7 DEF ReadDocumentSubmit, SubmitBuilds, Early, SameBuild
  <1>8. ASSUME ReadDocumentCancel(r) PROVE Ended(r) \/ Early(r)
    <2>1. CASE \E w : Answer(r, w)
      BY <1>1, <2>1
    <2>2. CASE ~(\E w : Answer(r, w))
      <3>1. /\ pc[r] = "document" /\ ~IsSubmit(r)
            /\ quoted' = quoted /\ upd' = upd /\ cmd' = cmd
            /\ \/ pc'[r] = "settled"
               \/ /\ Doctype[Target(r)] \notin SETTLEABLE_DOCTYPES
                  /\ pc'[r] = IF ReleasesDeposit(r) THEN "applied" ELSE "voucher"
        BY <1>0, <1>8, <2>2 DEF ReadDocumentCancel, CancelBeyondLock, Goto
      <3> QED BY <3>1 DEF Early, ReleasesDeposit
    <2> QED BY <2>1, <2>2
  <1>9. ASSUME ReadSettled(r) PROVE Ended(r) \/ Early(r)
    BY <1>1, <1>3, <1>9 DEF ReadSettled, HasPayments, Early, SameBuild
  <1>10. ASSUME ReadDeposit(r) PROVE Ended(r) \/ Early(r)
    BY <1>1, <1>3, <1>10 DEF ReadDeposit, Early, SameBuild
  <1>11. ASSUME ReadApplications(r) PROVE Ended(r) \/ Early(r) \/ SubmitBuilds(r)
    BY <1>1, <1>3, <1>11 DEF ReadApplications, SubmitBuilds, Early, SameBuild
  <1>12. ASSUME ReadVoucher(r) PROVE RowsRead(r)
    BY <1>0, <1>12 DEF ReadVoucher, Goto, RowsRead
  <1>13. ASSUME NEW p \in Pairs, ReadStock(r, p) PROVE Kept(r)
    BY <1>13 DEF ReadStock, Kept, SameBuild
  <1>14. ASSUME CheckStock(r) PROVE Ended(r) \/ StockPassed(r)
    BY <1>1, <1>3, <1>14 DEF CheckStock, StockPassed
  <1>15. ASSUME NEW i \in Docs, ReadInvoice(r, i) PROVE Ended(r) \/ Quotes(r)
    BY <1>0, <1>1, <1>15 DEF ReadInvoice, Quotes
  <1>16. ASSUME NEW i \in Docs, ReadSettlements(r, i) PROVE Ended(r) \/ Computes(r)
    BY <1>0, <1>1, <1>16 DEF ReadSettlements, Computes
  <1>17. ASSUME InvoicesRead(r) PROVE Completes(r)
    BY <1>3, <1>17 DEF InvoicesRead, Completes
  <1>18. ASSUME CommitReplay(r) \/ CommitStale(r) \/ CommitConflict(r) \/ CommitApply(r)
                \/ Abandon(r)
         PROVE  Ended(r) \/ Early(r)
    BY <1>1, <1>2, <1>18 DEF CommitReplay, CommitStale, CommitConflict, CommitApply, Abandon
  <1> QED
    BY <1>4, <1>5, <1>6, <1>7, <1>8, <1>9, <1>10, <1>11, <1>12, <1>13, <1>14, <1>15,
       <1>16, <1>17, <1>18 DEF Step, Moves

\* A step keeps a request, ends it, or moves it on without touching the books.
LEMMA RequestMoves ==
    ASSUME TypeOK, DOMAIN upd = Req, [Next]_vars
    PROVE  /\ DOMAIN upd' = Req
           /\ \A r \in Req : Kept(r) \/ Ended(r) \/ (Moves(r) /\ UNCHANGED books)
  <1>1. ASSUME NEW s \in Req, Step(s) \/ Abandon(s) \/ (\E c \in Commands : Begin(s, c))
        PROVE  /\ DOMAIN upd' = Req
               /\ \A r \in Req : Kept(r) \/ Ended(r) \/ (Moves(r) /\ UNCHANGED books)
    <2>1. \A r \in Req : r # s => Kept(r)
      BY <1>1, OthersKept
    <2>2. Kept(s) \/ Ended(s) \/ Moves(s)
      BY <1>1, OwnMoves
    <2>3. DOMAIN upd' = Req
      <3>1. ASSUME NEW w, Answer(s, w) PROVE DOMAIN upd' = Req
        BY <3>1 DEF Answer
      <3> QED BY <1>1, <3>1 DEF Step, Abandon, Begin, Replay, ReadSettings, ReadDocumentSubmit,
            ReadDocumentCancel, CancelBeyondLock, ReadSettled, ReadDeposit, ReadApplications,
            ReadVoucher, ReadStock, CheckStock, ReadInvoice, ReadSettlements, InvoicesRead,
            CommitReplay, CommitStale, CommitConflict, CommitApply, Proceed, Local, Rebuild
    <2>4. CASE UNCHANGED books
      BY <2>1, <2>2, <2>3, <2>4
    <2>5. CASE \E q \in Req : CommitApply(q)
      <3>1. PICK q \in Req : CommitApply(q)
        BY <2>5
      <3>2. Ended(q)
        BY <3>1 DEF CommitApply, Answer, Ended, TypeOK, RequestTypeOK
      <3>3. pc[q] # pc'[q]
        BY <3>1, <3>2 DEF CommitApply, Ended
      <3>4. q = s
        BY <2>1, <3>3 DEF Kept
      <3> QED BY <2>1, <2>3, <3>2, <3>4
    <2> QED BY <2>4, <2>5, OnlyCommitsWrite
  <1>2. CASE \/ \E l \in Locks : set_books_lock(l)
             \/ \E b \in AllowChoices : put_company_settings(b)
             \/ UNCHANGED vars
    BY <1>2 DEF set_books_lock, put_company_settings, requestVars, vars, Kept, SameBuild
  <1> QED BY <1>1, <1>2 DEF Next

\* A document's row only goes from nothing to submitted to cancelled.
LEMMA StatusGrows ==
    ASSUME TypeOK, RowsComplete, [Next]_vars, NEW d \in Docs
    PROVE  /\ status[d] # 0 => status'[d] # 0 /\ body'[d] = body[d]
           /\ status[d] = 2 => status'[d] = 2
           /\ status[d] \in 0..2 /\ status'[d] \in 0..2
  <1>0. status \in [Docs -> 0..2] /\ status' \in [Docs -> 0..2]
    BY TypeStep DEF TypeOK, StoreTypeOK
  <1>1. ASSUME NEW r \in Req, CommitApply(r)
        PROVE  /\ status[d] # 0 => status'[d] # 0 /\ body'[d] = body[d]
               /\ status[d] = 2 => status'[d] = 2
    BY <1>0, <1>1, CommitDocuments
  <1>2. CASE UNCHANGED books
    BY <1>0, <1>2 DEF books
  <1> QED BY <1>0, <1>1, <1>2, OnlyCommitsWrite

\* The rows a request writes depend on its command and on the rows it read.
LEMMA SameRows ==
    ASSUME NEW r \in Req, cmd'[r] = cmd[r], voucher'[r] = voucher[r]
    PROVE  /\ NewSettlements(r)' = NewSettlements(r) /\ Invoices(r)' = Invoices(r)
           /\ Target(r)' = Target(r) /\ IsSubmit(r)' = IsSubmit(r)
           /\ \A i : NewAllocation(r, i)' = NewAllocation(r, i)
  <1>1. Target(r)' = Target(r) /\ IsSubmit(r)' = IsSubmit(r)
    BY DEF Target, IsSubmit
  <1>2. NewSettlements(r)' = NewSettlements(r)
    BY <1>1 DEF NewSettlements
  <1> QED BY <1>1, <1>2 DEF Invoices, NewAllocation, Allocated

\* The settlement rows a payment is going to write: finitely many, of this
\* payment and this kind of posting, against the invoices it names.
LEMMA NewRows ==
    ASSUME TypeOK, RowsInv, PaymentsChecked, NEW r \in Req, pc[r] \in {"invoices", "commit"}
    PROVE  /\ IsFiniteSet(NewSettlements(r))
           /\ \A s \in NewSettlements(r) :
                 /\ IsPayment(Target(r)) /\ s.pay = Target(r) /\ s.rev = ~IsSubmit(r)
                 /\ Doctype[s.inv] \in SETTLEABLE_DOCTYPES
                 /\ IF IsSubmit(r) THEN s.amt >= 0 ELSE s.amt <= 0
  <1>0. cmd[r] \in Commands
    BY DEF TypeOK, RequestTypeOK
  <1>1. CASE ~IsPayment(Target(r))
    BY <1>1, FS_EmptySet DEF NewSettlements
  <1>2. CASE IsPayment(Target(r)) /\ IsSubmit(r)
    <2> DEFINE refs == cmd[r].body.refs
               f == [x \in refs |-> [pay |-> Target(r), inv |-> x.inv, rev |-> FALSE, amt |-> x.amt]]
    <2>1. IsFiniteSet(refs)
      BY <1>0, <1>2, CommandsAssumption, Zenon DEF IsSubmit
    <2>2. NewSettlements(r) = {f[x] : x \in refs}
      BY <1>2 DEF NewSettlements
    <2>3. \A x \in refs : Doctype[x.inv] \in SETTLEABLE_DOCTYPES /\ x.amt >= 0
      BY <1>2 DEF PaymentsChecked, PaymentChecked, ValidPayment
    <2>4. \A s \in NewSettlements(r) : /\ s.pay = Target(r) /\ s.rev = FALSE
                                       /\ Doctype[s.inv] \in SETTLEABLE_DOCTYPES
                                       /\ s.amt >= 0
      <3> SUFFICES ASSUME NEW s \in NewSettlements(r)
                   PROVE  /\ s.pay = Target(r) /\ s.rev = FALSE
                          /\ Doctype[s.inv] \in SETTLEABLE_DOCTYPES /\ s.amt >= 0
        OBVIOUS
      <3>1. PICK x \in refs :
               s = [pay |-> Target(r), inv |-> x.inv, rev |-> FALSE, amt |-> x.amt]
        BY <2>2
      <3> QED BY <2>3, <3>1
    <2> HIDE DEF f, refs
    <2>5. IsFiniteSet(NewSettlements(r))
      BY <2>1, <2>2, FiniteImage
    <2> QED BY <1>2, <2>4, <2>5
  <1>3. CASE IsPayment(Target(r)) /\ ~IsSubmit(r)
    <2> DEFINE own == voucher[r].settled
               f == [x \in own |-> [pay |-> x.pay, inv |-> x.inv, rev |-> TRUE, amt |-> -x.amt]]
    <2>1. own \subseteq settlements /\ \A x \in own : x.pay = Target(r) /\ ~x.rev
      BY <1>3 DEF RowsInv, VouchersStored, StoredSettlements
    <2>2. NewSettlements(r) = {f[x] : x \in own}
      BY <1>3 DEF NewSettlements
    <2>3. \A x \in own : /\ Doctype[x.inv] \in SETTLEABLE_DOCTYPES
                        /\ x.amt \in Int /\ x.amt >= 0
      BY <2>1 DEF RowsInv, RowsBooked, TypeOK, StoreTypeOK, SettlementType
    <2>4. \A s \in NewSettlements(r) : /\ s.pay = Target(r) /\ s.rev = TRUE
                                       /\ Doctype[s.inv] \in SETTLEABLE_DOCTYPES
                                       /\ s.amt <= 0
      <3> SUFFICES ASSUME NEW s \in NewSettlements(r)
                   PROVE  /\ s.pay = Target(r) /\ s.rev = TRUE
                          /\ Doctype[s.inv] \in SETTLEABLE_DOCTYPES /\ s.amt <= 0
        OBVIOUS
      <3>1. PICK x \in own :
               s = [pay |-> x.pay, inv |-> x.inv, rev |-> TRUE, amt |-> -x.amt]
        BY <2>2
      <3> QED BY <2>1, <2>3, <3>1
    <2>5. IsFiniteSet(own)
      BY <2>1, FS_Subset DEF RowsInv
    <2> HIDE DEF f, own
    <2>6. IsFiniteSet(NewSettlements(r))
      BY <2>2, <2>5, FiniteImage
    <2> QED BY <1>3, <2>4, <2>6
  <1> QED BY <1>1, <1>2, <1>3

\* A commit adds rows that are not there yet, against posted invoices, all of
\* which get a new outstanding amount.
LEMMA CommitRows ==
    ASSUME TypeOK, RowsComplete, RowsInv, PaymentsChecked, NEW r \in Req, CommitApply(r)
    PROVE  /\ settlements' = settlements \cup NewSettlements(r)
           /\ settlements \cap NewSettlements(r) = {}
           /\ DOMAIN upd[r] = Invoices(r)
           /\ Target(r) \notin DOMAIN upd[r]
           /\ \A i \in DOMAIN upd[r] : /\ i \in Docs /\ i \in quoted[r] /\ status[i] # 0
                                       /\ Doctype[i] \in SETTLEABLE_DOCTYPES
           /\ ~IsPayment(Target(r)) => NewSettlements(r) = {} /\ DOMAIN upd[r] = {}
  <1>0. /\ pc[r] = "commit" /\ settlements' = settlements \cup NewSettlements(r)
        /\ Target(r) \in Docs
    BY CommitFacts DEF CommitApply
  <1>1. \A s \in NewSettlements(r) :
           /\ IsPayment(Target(r)) /\ s.pay = Target(r) /\ s.rev = ~IsSubmit(r)
           /\ Doctype[s.inv] \in SETTLEABLE_DOCTYPES
    BY <1>0, NewRows
  <1>2. BuildSound(r)
    BY DEF RowsInv, BuildsSound
  <1>3. DOMAIN upd[r] = Invoices(r) /\ \A i \in Invoices(r) : i \in quoted[r] /\ status[i] # 0
    <2>1. CASE IsPayment(Target(r))
      BY <1>0, <1>2, <2>1 DEF BuildSound
    <2>2. CASE ~IsPayment(Target(r))
      BY <1>0, <1>2, <2>2 DEF BuildSound, Invoices, NewSettlements
    <2> QED BY <2>1, <2>2
  <1>4. \A i \in Invoices(r) : /\ i \in Docs /\ Doctype[i] \in SETTLEABLE_DOCTYPES
                               /\ IsPayment(Target(r))
    <2>1. NewSettlements(r) \subseteq SettlementType
      BY <1>0, NewRowTypes
    <2> QED BY <1>1, <2>1 DEF Invoices, SettlementType
  <1>5. Target(r) \notin Invoices(r)
    BY <1>4, DoctypesApart
  <1>6. ASSUME NEW s \in settlements, s \in NewSettlements(r) PROVE FALSE
    <2>1. /\ s.pay = Target(r) /\ s.rev = ~IsSubmit(r) /\ status[s.pay] # 0
          /\ s.rev => status[s.pay] = 2
      BY <1>1, <1>6 DEF RowsInv, RowsBooked
    <2>2. status[Target(r)] = IF IsSubmit(r) THEN 0 ELSE 1
      BY CommitDocuments
    <2>3. CASE IsSubmit(r)
      BY <2>1, <2>2, <2>3
    <2>4. CASE ~IsSubmit(r)
      <3>1. s.rev
        BY <2>1, <2>4, Zenon
      <3> QED BY <2>1, <2>2, <2>4, <3>1
    <2> QED BY <2>3, <2>4
  <1>7. ~IsPayment(Target(r)) => NewSettlements(r) = {} /\ DOMAIN upd[r] = {}
    BY <1>3, <1>4 DEF NewSettlements
  <1> QED BY <1>0, <1>3, <1>4, <1>5, <1>6, <1>7

\* Rows are added by commits only, and stay within what is booked.
LEMMA RowsBookedStep ==
    ASSUME TypeOK, RowsComplete, RowsInv, PaymentsChecked, [Next]_vars
    PROVE  /\ IsFiniteSet(settlements') /\ RowsBooked' /\ settlements \subseteq settlements'
           /\ settlements' \subseteq SettlementType
  <1>0. settlements \subseteq SettlementType /\ settlements' \subseteq SettlementType
    BY TypeStep DEF TypeOK, StoreTypeOK
  <1>1. ASSUME NEW s \in settlements
        PROVE  /\ IsPayment(s.pay) /\ status'[s.pay] # 0 /\ (s.rev => status'[s.pay] = 2)
               /\ Doctype[s.inv] \in SETTLEABLE_DOCTYPES /\ status'[s.inv] # 0
               /\ (s.rev => s.amt <= 0) /\ (~s.rev => s.amt >= 0)
    <2>1. s.pay \in Docs /\ s.inv \in Docs
      BY <1>0 DEF SettlementType
    <2> QED BY <1>1, <2>1, StatusGrows DEF RowsInv, RowsBooked
  <1>2. ASSUME NEW r \in Req, CommitApply(r)
        PROVE  /\ IsFiniteSet(settlements') /\ RowsBooked' /\ settlements \subseteq settlements'
    <2>1. /\ settlements' = settlements \cup NewSettlements(r)
          /\ DOMAIN upd[r] = Invoices(r)
          /\ \A i \in Invoices(r) : i \in Docs /\ status[i] # 0
      BY <1>2, CommitRows
    <2>2. /\ IsFiniteSet(NewSettlements(r))
          /\ \A s \in NewSettlements(r) :
                 /\ IsPayment(Target(r)) /\ s.pay = Target(r) /\ s.rev = ~IsSubmit(r)
                 /\ Doctype[s.inv] \in SETTLEABLE_DOCTYPES
                 /\ IF IsSubmit(r) THEN s.amt >= 0 ELSE s.amt <= 0
      BY <1>2, NewRows DEF CommitApply
    <2>3. status'[Target(r)] = IF IsSubmit(r) THEN 1 ELSE 2
      BY <1>2, CommitDocuments
    <2>4. ASSUME NEW s \in NewSettlements(r)
          PROVE  /\ IsPayment(s.pay) /\ status'[s.pay] # 0 /\ (s.rev => status'[s.pay] = 2)
                 /\ Doctype[s.inv] \in SETTLEABLE_DOCTYPES /\ status'[s.inv] # 0
                 /\ (s.rev => s.amt <= 0) /\ (~s.rev => s.amt >= 0)
      <3>1. s.inv \in Invoices(r)
        BY DEF Invoices
      <3>2. status'[s.inv] # 0
        BY <2>1, <3>1, StatusGrows
      <3>3. IsPayment(s.pay) /\ s.pay = Target(r) /\ s.rev = ~IsSubmit(r)
            /\ Doctype[s.inv] \in SETTLEABLE_DOCTYPES
            /\ IF IsSubmit(r) THEN s.amt >= 0 ELSE s.amt <= 0
        BY <2>2
      <3>4. CASE IsSubmit(r)
        <4>1. ~s.rev
          BY <3>3, <3>4, Zenon
        <4> QED BY <2>3, <3>2, <3>3, <3>4, <4>1
      <3>5. CASE ~IsSubmit(r)
        <4>1. s.rev
          BY <3>3, <3>5, Zenon
        <4> QED BY <2>3, <3>2, <3>3, <3>5, <4>1
      <3> QED BY <3>4, <3>5
    <2>5. IsFiniteSet(settlements')
      BY <2>1, <2>2, FS_Union DEF RowsInv
    <2> QED BY <1>1, <2>1, <2>4, <2>5 DEF RowsBooked
  <1>3. CASE UNCHANGED books
    <2>1. settlements' = settlements
      BY <1>3 DEF books
    <2>2. RowsBooked'
      BY <1>1, <2>1 DEF RowsBooked
    <2> QED BY <1>0, <2>1, <2>2 DEF RowsInv
  <1> QED BY <1>0, <1>2, <1>3, OnlyCommitsWrite

\* A cancel keeps the rows it read, and they stay stored.
LEMMA VouchersStep ==
    ASSUME TypeOK, RowsComplete, RowsInv, PaymentsChecked, [Next]_vars
    PROVE  VouchersStored' /\ PhasesSound'
  <1>0. settlements \subseteq settlements' /\ DOMAIN upd = Req
    BY RowsBookedStep DEF RowsInv, BuildsSound
  <1> SUFFICES ASSUME NEW r \in Req
               PROVE  /\ pc'[r] \in {"stock", "invoices", "commit"} /\ ~IsSubmit(r)'
                         => voucher'[r].settled \subseteq StoredSettlements(Target(r))'
                      /\ pc'[r] = "deposit" => IsSubmit(r)'
                      /\ pc'[r] = "applied" /\ ~IsSubmit(r)' => IsDeposit(Target(r)')
                      /\ pc'[r] = "invoices" => IsPayment(Target(r)')
    BY DEF VouchersStored, PhasesSound
  <1>1. cmd'[r] = cmd[r] => /\ IsSubmit(r)' = IsSubmit(r) /\ Target(r)' = Target(r)
                            /\ StoredSettlements(Target(r)) \subseteq StoredSettlements(Target(r))'
    BY <1>0 DEF IsSubmit, Target, StoredSettlements
  <1>2. /\ pc[r] \in {"stock", "invoices", "commit"} /\ ~IsSubmit(r)
           => voucher[r].settled \subseteq StoredSettlements(Target(r))
        /\ pc[r] = "deposit" => IsSubmit(r)
        /\ pc[r] = "applied" /\ ~IsSubmit(r) => IsDeposit(Target(r))
        /\ pc[r] = "invoices" => IsPayment(Target(r))
    BY DEF RowsInv, VouchersStored, PhasesSound
  <1>3. CASE Kept(r)
    BY <1>1, <1>2, <1>3 DEF Kept, SameBuild
  <1>4. CASE Ended(r)
    BY <1>4 DEF Ended
  <1>5. CASE Early(r)
    BY <1>1, <1>2, <1>5 DEF Early
  <1>6. CASE RowsRead(r)
    BY <1>1, <1>6 DEF RowsRead
  <1>7. CASE SubmitBuilds(r)
    BY <1>1, <1>7 DEF SubmitBuilds, SameBuild
  <1>8. CASE StockPassed(r)
    BY <1>1, <1>2, <1>8 DEF StockPassed, SameBuild
  <1>9. CASE Quotes(r) \/ Computes(r) \/ Completes(r)
    BY <1>1, <1>2, <1>9 DEF Quotes, Computes, Completes, SameBuild
  <1> QED
    BY <1>0, <1>3, <1>4, <1>5, <1>6, <1>7, <1>8, <1>9, RequestMoves DEF Moves

\* A build of a payment goes through the invoices it names, and only those.
LEMMA BuildsStep ==
    ASSUME TypeOK, RowsComplete, RowsInv, [Next]_vars
    PROVE  BuildsSound'
  <1>0. DOMAIN upd = Req /\ DOMAIN upd' = Req /\ quoted \in [Req -> SUBSET Docs]
    BY RequestMoves DEF RowsInv, BuildsSound, TypeOK, RequestTypeOK
  <1> SUFFICES ASSUME NEW r \in Req PROVE BuildSound(r)'
    BY <1>0 DEF BuildsSound
  <1> DEFINE late == pc[r] \in {"invoices", "commit"} /\ IsPayment(Target(r))
             late1 == pc'[r] \in {"invoices", "commit"} /\ IsPayment(Target(r)')
  <1>1. SUFFICES /\ late1 => /\ DOMAIN upd'[r] \subseteq quoted'[r]
                             /\ quoted'[r] \subseteq Invoices(r)'
                             /\ \A i \in quoted'[r] : status'[i] # 0
                             /\ pc'[r] = "commit" => DOMAIN upd'[r] = Invoices(r)'
                 /\ ~late1 => DOMAIN upd'[r] = {} /\ quoted'[r] = {}
    BY DEF BuildSound
  <1>2. /\ late => /\ DOMAIN upd[r] \subseteq quoted[r]
                   /\ quoted[r] \subseteq Invoices(r)
                   /\ \A i \in quoted[r] : status[i] # 0
                   /\ pc[r] = "commit" => DOMAIN upd[r] = Invoices(r)
        /\ ~late => DOMAIN upd[r] = {} /\ quoted[r] = {}
    BY DEF RowsInv, BuildsSound, BuildSound
  <1>3. \A i \in quoted[r] : status[i] # 0 => status'[i] # 0
    BY <1>0, StatusGrows
  <1>4. cmd'[r] = cmd[r] => Target(r)' = Target(r)
    BY DEF Target
  <1>5. cmd'[r] = cmd[r] /\ voucher'[r] = voucher[r] => Invoices(r)' = Invoices(r)
    BY SameRows
  <1>6. CASE Kept(r)
    BY <1>2, <1>3, <1>4, <1>5, <1>6 DEF Kept, SameBuild
  <1>7. CASE Ended(r)
    BY <1>7 DEF Ended
  <1>8. CASE Early(r)
    BY <1>2, <1>8 DEF Early
  <1>9. CASE RowsRead(r) \/ SubmitBuilds(r)
    BY <1>2, <1>9 DEF RowsRead, SubmitBuilds, SameBuild
  <1>10. CASE StockPassed(r)
    BY <1>2, <1>4, <1>10 DEF StockPassed, SameBuild
  <1>11. CASE Quotes(r) /\ UNCHANGED books
    <2>1. PICK i \in Invoices(r) : status[i] = 1 /\ quoted'[r] = quoted[r] \cup {i}
      BY <1>11 DEF Quotes
    <2>2. status' = status
      BY <1>11 DEF books
    <2>3. pc[r] = "invoices" /\ pc'[r] = "invoices" /\ upd'[r] = upd[r]
          /\ Invoices(r)' = Invoices(r) /\ Target(r)' = Target(r)
      BY <1>4, <1>5, <1>11 DEF Quotes
    <2>4. IsPayment(Target(r))
      BY <2>1 DEF Invoices, NewSettlements
    <2> QED BY <1>2, <2>1, <2>2, <2>3, <2>4
  <1>12. CASE Computes(r) /\ UNCHANGED books
    <2>1. PICK i \in quoted[r] : upd'[r] = [j \in DOMAIN upd[r] \cup {i} |->
                                         IF j = i THEN OutstandingAfter(r, i) ELSE upd[r][j]]
      BY <1>12 DEF Computes
    <2>2. DOMAIN upd'[r] = DOMAIN upd[r] \cup {i} /\ status' = status
      BY <1>12, <2>1 DEF books
    <2>3. pc[r] = "invoices" /\ pc'[r] = "invoices" /\ quoted'[r] = quoted[r]
          /\ Invoices(r)' = Invoices(r) /\ Target(r)' = Target(r)
      BY <1>4, <1>5, <1>12 DEF Computes
    <2> QED BY <1>2, <2>1, <2>2, <2>3
  <1>13. CASE Completes(r)
    <2>1. IsPayment(Target(r)) \/ Invoices(r) = {}
      BY DEF Invoices, NewSettlements
    <2> QED BY <1>2, <1>3, <1>4, <1>5, <1>13, <2>1 DEF Completes, SameBuild
  <1> QED
    BY <1>0, <1>6, <1>7, <1>8, <1>9, <1>10, <1>11, <1>12, <1>13, RequestMoves DEF Moves

\* A mutation id is put on the log once: it names the posting that wrote it.
LEMMA LogStep ==
    ASSUME TypeOK, RowsComplete, LogBooked, [Next]_vars
    PROVE  LogBooked'
  <1>1. ASSUME NEW m \in logged
        PROVE  m[1] \in Docs /\ status'[m[1]] # 0 /\ (m[4] => status'[m[1]] = 2)
    BY <1>1, StatusGrows DEF LogBooked
  <1>2. ASSUME NEW r \in Req, CommitApply(r) PROVE LogBooked'
    <2>1. logged' = logged \cup {DocMutation(r)}
                        \cup {OutstandingMutation(r, i) : i \in DOMAIN upd[r]}
      BY <1>2 DEF CommitApply, WriteLog
    <2>2. Target(r) \in Docs /\ status'[Target(r)] = IF IsSubmit(r) THEN 1 ELSE 2
      BY <1>2, CommitDocuments
    <2>3. ASSUME NEW m \in logged', m \notin logged
          PROVE  m[1] = Target(r) /\ m[4] = ~IsSubmit(r)
      BY <2>1, <2>3 DEF DocMutation, OutstandingMutation
    <2>4. ASSUME NEW m \in logged', m \notin logged
          PROVE  m[1] \in Docs /\ status'[m[1]] # 0 /\ (m[4] => status'[m[1]] = 2)
      <3>1. m[1] = Target(r) /\ m[4] = ~IsSubmit(r)
        BY <2>3, <2>4
      <3>2. CASE IsSubmit(r)
        <4>1. ~m[4]
          BY <3>1, <3>2, Zenon
        <4> QED BY <2>2, <3>1, <3>2, <4>1
      <3>3. CASE ~IsSubmit(r)
        BY <2>2, <3>1, <3>3
      <3> QED BY <3>2, <3>3
    <2> QED BY <1>1, <2>4 DEF LogBooked
  <1>3. CASE UNCHANGED books
    BY <1>1, <1>3 DEF books, LogBooked
  <1> QED BY <1>2, <1>3, OnlyCommitsWrite

\* The log's projection follows every commit: the document's own mutation and
\* those of its invoices are new, and carry what the commit stored.
LEMMA ReplicaStep ==
    ASSUME TypeOK, RowsComplete, RowsInv, PaymentsChecked, [Next]_vars
    PROVE  ReplicaAgrees'
  <1>1. ASSUME NEW r \in Req, CommitApply(r) PROVE ReplicaAgrees'
    <2> SUFFICES ASSUME NEW d \in Docs, status'[d] # 0
                 PROVE  mirror'[d] = [status |-> status'[d], outstanding |-> outstanding'[d]]
      BY DEF ReplicaAgrees
    <2> DEFINE t == Target(r)
    <2>1. /\ t \in Docs /\ \A e \in Docs \ {t} : status'[e] = status[e]
          /\ status[t] = IF IsSubmit(r) THEN 0 ELSE 1
          /\ status'[t] = IF IsSubmit(r) THEN 1 ELSE 2
      BY <1>1, CommitDocuments
    <2>2. t \notin DOMAIN upd[r]
      BY <1>1, CommitRows
    <2>3. mirror'[d] =
            IF d \in DOMAIN upd[r] /\ OutstandingMutation(r, d) \notin logged
            THEN [status |-> status[d], outstanding |-> upd[r][d]]
            ELSE IF d = t /\ DocMutation(r) \notin logged
            THEN [status |-> IF IsSubmit(r) THEN 1 ELSE 2, outstanding |-> OwnOutstanding(r)]
            ELSE mirror[d]
      BY <1>1 DEF CommitApply, WriteLog
    <2>4. outstanding'[d] = IF d \in DOMAIN upd[r] THEN upd[r][d]
                            ELSE IF d = t THEN OwnOutstanding(r) ELSE outstanding[d]
      BY <1>1 DEF CommitApply, WriteOutstanding
    <2>5. ASSUME NEW m \in logged, m[1] = t, m[4] = ~IsSubmit(r) PROVE FALSE
      <3>1. status[t] # 0 /\ (m[4] => status[t] = 2)
        BY <2>5 DEF RowsInv, LogBooked
      <3>2. CASE IsSubmit(r)
        BY <2>1, <3>1, <3>2
      <3>3. CASE ~IsSubmit(r)
        <4>1. m[4]
          BY <2>5, <3>3, Zenon
        <4> QED BY <2>1, <3>1, <3>3, <4>1
      <3> QED BY <3>2, <3>3
    <2>6. DocMutation(r) \notin logged
      <3>1. DocMutation(r)[1] = t /\ DocMutation(r)[4] = ~IsSubmit(r)
        BY DEF DocMutation
      <3> QED BY <2>5, <3>1
    <2>7. OutstandingMutation(r, d) \notin logged
      <3>1. OutstandingMutation(r, d)[1] = t /\ OutstandingMutation(r, d)[4] = ~IsSubmit(r)
        BY DEF OutstandingMutation
      <3> QED BY <2>5, <3>1
    <2>8. CASE d \in DOMAIN upd[r]
      BY <2>1, <2>2, <2>3, <2>4, <2>7, <2>8
    <2>9. CASE d \notin DOMAIN upd[r] /\ d = t
      BY <2>1, <2>3, <2>4, <2>6, <2>9
    <2>10. CASE d \notin DOMAIN upd[r] /\ d # t
      BY <2>1, <2>3, <2>4, <2>10 DEF RowsInv, ReplicaAgrees
    <2> QED BY <2>8, <2>9, <2>10
  <1>2. CASE UNCHANGED books
    BY <1>2 DEF books, RowsInv, ReplicaAgrees
  <1> QED BY <1>1, <1>2, OnlyCommitsWrite

\* The settlement rows, the builds and the log are in step in every reachable
\* state.
LEMMA RowsInvariant == Spec => []RowsInv
  <1>1. Init => RowsInv
    <2> SUFFICES ASSUME Init PROVE RowsInv
      OBVIOUS
    <2>1. IsFiniteSet(settlements) /\ RowsBooked
      BY FS_EmptySet DEF Init, RowsBooked
    <2>2. \A r \in Req : pc[r] = "idle"
      BY DEF Init
    <2>3. VouchersStored /\ PhasesSound
      BY <2>2 DEF VouchersStored, PhasesSound
    <2>4. BuildsSound
      BY DEF Init, BuildsSound, BuildSound
    <2>5. LogBooked
      BY DEF Init, LogBooked
    <2>6. ReplicaAgrees
      BY DEF Init, ReplicaAgrees
    <2> QED BY <2>1, <2>3, <2>4, <2>5, <2>6 DEF RowsInv
  <1>2. TypeOK /\ RowsComplete /\ RowsInv /\ PaymentsChecked /\ [Next]_vars => RowsInv'
    <2> SUFFICES ASSUME TypeOK, RowsComplete, RowsInv, PaymentsChecked, [Next]_vars
                 PROVE  RowsInv'
      OBVIOUS
    <2>1. IsFiniteSet(settlements)' /\ RowsBooked'
      BY RowsBookedStep
    <2>2. VouchersStored' /\ PhasesSound'
      BY VouchersStep
    <2>3. BuildsSound'
      BY BuildsStep
    <2>4. LogBooked'
      BY LogStep DEF RowsInv
    <2>5. ReplicaAgrees'
      BY ReplicaStep
    <2> QED BY <2>1, <2>2, <2>3, <2>4, <2>5 DEF RowsInv
  <1>3. DepositInv => PaymentsChecked
    BY DEF DepositInv
  <1> QED
    BY <1>1, <1>2, <1>3, TypeCorrect, RowsCompleteInvariant, DepositInvariant, PTL DEF Spec

\* Whatever requests run at the same time, devices that apply the log hold
\* each posted document's docstatus and outstanding amount.
THEOREM ReplicaCorrect == Spec => []ReplicaAgrees
  <1>1. RowsInv => ReplicaAgrees
    BY DEF RowsInv
  <1> QED BY <1>1, RowsInvariant, PTL

\* What two sets of rows that share none add up to.
LEMMA AllocatedUnion ==
    ASSUME NEW A \in SUBSET SettlementType, NEW B \in SUBSET SettlementType,
           IsFiniteSet(A), IsFiniteSet(B), A \cap B = {}
    PROVE  /\ Allocated(A \cup B) = Allocated(A) + Allocated(B)
           /\ Allocated(A) \in Int /\ Allocated(B) \in Int
  <1> DEFINE Amt == [s \in SettlementType |-> s.amt]
  <1>1. ASSUME NEW S \in SUBSET SettlementType, IsFiniteSet(S)
        PROVE  Allocated(S) = SumFunctionOnSet(Amt, S) /\ Allocated(S) \in Int
    <2> DEFINE f == [s \in S |-> s.amt]
    <2>1. Allocated(S) = SumFunctionOnSet(f, S)
      BY DEF Allocated, SumFunction
    <2>2. \A s \in S : f[s] = Amt[s] /\ Amt[s] \in Int
      BY DEF SettlementType
    <2> HIDE DEF f, Amt
    <2>3. SumFunctionOnSet(f, S) = SumFunctionOnSet(Amt, S)
      BY <1>1, <2>2, SumSame
    <2>4. SumFunctionOnSet(Amt, S) \in Int
      BY <1>1, <2>2, SumType
    <2> QED BY <2>1, <2>3, <2>4
  <1>2. \A s \in A \cup B : Amt[s] \in Int
    BY DEF SettlementType
  <1>3. IsFiniteSet(A \cup B)
    BY FS_Union
  <1> HIDE DEF Amt
  <1>4. SumFunctionOnSet(Amt, A \cup B) = SumFunctionOnSet(Amt, A) + SumFunctionOnSet(Amt, B)
    BY <1>2, SumUnion
  <1> QED BY <1>1, <1>3, <1>4

LEMMA AllocatedNothing == Allocated({}) = 0
  BY SumEmpty DEF Allocated, SumFunction

\* A commit adds its new allocation to what is settled of each invoice.
LEMMA SettledAdds ==
    ASSUME TypeOK, RowsComplete, RowsInv, PaymentsChecked, NEW r \in Req, CommitApply(r), NEW i
    PROVE  /\ Settled(i)' = Settled(i) + NewAllocation(r, i)
           /\ Settled(i) \in Int /\ NewAllocation(r, i) \in Int
           /\ i \notin Invoices(r) => NewAllocation(r, i) = 0
  <1> DEFINE A == {s \in settlements : s.inv = i}
             B == {s \in NewSettlements(r) : s.inv = i}
  <1>1. /\ settlements' = settlements \cup NewSettlements(r)
        /\ settlements \cap NewSettlements(r) = {}
    BY CommitRows
  <1>2. settlements \subseteq SettlementType /\ NewSettlements(r) \subseteq SettlementType
    BY NewRowTypes DEF TypeOK, StoreTypeOK, CommitApply
  <1>3. IsFiniteSet(settlements) /\ IsFiniteSet(NewSettlements(r))
    BY NewRows DEF RowsInv, CommitApply
  <1>4. IsFiniteSet(A) /\ IsFiniteSet(B)
    BY <1>3, FS_Subset
  <1>5. /\ A \in SUBSET SettlementType /\ B \in SUBSET SettlementType /\ A \cap B = {}
        /\ {s \in settlements' : s.inv = i} = A \cup B
    BY <1>1, <1>2
  <1>6. Settled(i) = Allocated(A) /\ NewAllocation(r, i) = Allocated(B)
    BY DEF Settled, NewAllocation
  <1>7. Settled(i)' = Allocated({s \in settlements' : s.inv = i})
    BY DEF Settled, Allocated
  <1>8. i \notin Invoices(r) => B = {}
    BY DEF Invoices
  <1> HIDE DEF A, B
  <1> QED BY <1>4, <1>5, <1>6, <1>7, <1>8, AllocatedUnion, AllocatedNothing

\* No other step changes what is settled.
LEMMA SettledKept ==
    ASSUME UNCHANGED books, NEW i
    PROVE  Settled(i)' = Settled(i)
  BY DEF books, Settled, Allocated

\* A commit of another doctype leaves invoices and their settlements alone.
LEMMA OtherDoctypes ==
    ASSUME TypeOK, RowsComplete, RowsInv, PaymentsChecked, NEW q \in Req, CommitApply(q),
           ~Settles(Target(q)), NEW i \in Docs, Doctype[i] \in SETTLEABLE_DOCTYPES
    PROVE  status'[i] = status[i] /\ body'[i] = body[i] /\ Settled(i)' = Settled(i)
  <1>1. i # Target(q) /\ ~IsPayment(Target(q))
    BY DEF Settles
  <1>2. NewSettlements(q) = {} /\ i \notin Invoices(q)
    BY <1>1, CommitRows DEF Invoices
  <1>3. Settled(i)' = Settled(i) + 0 /\ Settled(i) \in Int
    BY <1>2, SettledAdds
  <1> QED BY <1>1, <1>3, CommitDocuments

\* The invoices a payment being built has read are invoices.
LEMMA QuotedInvoices ==
    ASSUME TypeOK, RowsInv, PaymentsChecked, NEW r \in Req, pc[r] \in {"invoices", "commit"}
    PROVE  \A i \in quoted[r] : i \in Docs /\ Doctype[i] \in SETTLEABLE_DOCTYPES
  <1>1. quoted[r] \subseteq Invoices(r)
    <2>1. CASE IsPayment(Target(r))
      BY <2>1 DEF RowsInv, BuildsSound, BuildSound
    <2>2. CASE ~IsPayment(Target(r))
      BY <2>2 DEF RowsInv, BuildsSound, BuildSound
    <2> QED BY <2>1, <2>2
  <1>2. quoted[r] \subseteq Docs
    BY DEF TypeOK, RequestTypeOK
  <1>3. \A s \in NewSettlements(r) : Doctype[s.inv] \in SETTLEABLE_DOCTYPES
    BY NewRows
  <1> QED BY <1>1, <1>2, <1>3 DEF Invoices

\* A commit that found the invoices as its build read them keeps outstanding
\* amounts and settlements in step.
LEMMA OutstandingStep ==
    ASSUME TypeOK, RowsComplete, RowsInv, PaymentsChecked, SettleInv, [Next]_vars
    PROVE  OutstandingExact' /\ CancelledUnsettled'
  <1>1. ASSUME NEW r \in Req, CommitApply(r), NEW i \in Docs,
               Doctype[i] \in SETTLEABLE_DOCTYPES
        PROVE  /\ status'[i] = 1 => outstanding'[i] = body'[i].amount - Settled(i)'
               /\ status'[i] = 2 => Settled(i)' = 0
    <2> DEFINE t == Target(r)
    <2>1. /\ t \in Docs /\ body'[t] \in Bodies
          /\ \A e \in Docs \ {t} : status'[e] = status[e] /\ body'[e] = body[e]
          /\ status[t] = IF IsSubmit(r) THEN 0 ELSE 1
          /\ status'[t] = IF IsSubmit(r) THEN 1 ELSE 2
          /\ IsSubmit(r) => body'[t] = cmd[r].body
          /\ status \in [Docs -> 0..2]
      BY <1>1, CommitDocuments DEF TypeOK, StoreTypeOK
    <2>2. /\ Settled(i)' = Settled(i) + NewAllocation(r, i)
          /\ Settled(i) \in Int /\ NewAllocation(r, i) \in Int
          /\ i \notin Invoices(r) => NewAllocation(r, i) = 0
      BY <1>1, SettledAdds
    <2>3. /\ DOMAIN upd[r] = Invoices(r) /\ t \notin DOMAIN upd[r]
          /\ DOMAIN upd[r] \subseteq quoted[r]
          /\ ~IsPayment(t) => DOMAIN upd[r] = {}
      BY <1>1, CommitRows
    <2>4. outstanding'[i] = IF i \in DOMAIN upd[r] THEN upd[r][i]
                            ELSE IF i = t THEN OwnOutstanding(r) ELSE outstanding[i]
      BY <1>1 DEF CommitApply, WriteOutstanding
    <2>5. /\ status[i] = 1 => outstanding[i] = body[i].amount - Settled(i)
          /\ status[i] = 2 => Settled(i) = 0
      BY <1>1 DEF SettleInv, OutstandingExact, CancelledUnsettled
    <2>6. CASE i # t /\ i \notin DOMAIN upd[r]
      <3>1. Settled(i)' = Settled(i)
        BY <2>2, <2>3, <2>6
      <3> QED BY <2>1, <2>4, <2>5, <2>6, <3>1
    <2>7. CASE i \in DOMAIN upd[r]
      <3>1. IsPayment(t) /\ i # t /\ i \in quoted[r]
        BY <2>3, <2>7
      <3>2. status[i] = 1 /\ upd[r][i] = OutstandingAfter(r, i)
        BY <1>1, <2>7, <3>1 DEF SettleInv, BuildExact, CommitApply
      <3>3. body[i].amount \in Int
        BY <2>1, <3>2 DEF RowsComplete, Bodies
      <3>4. outstanding'[i] = body[i].amount - Settled(i) - NewAllocation(r, i)
        BY <2>4, <2>7, <3>2 DEF OutstandingAfter
      <3>5. status'[i] = 1 /\ body'[i] = body[i]
        BY <2>1, <3>1, <3>2
      <3> QED BY <2>2, <3>3, <3>4, <3>5
    <2>8. CASE i = t
      <3>1. Settled(i)' = Settled(i) /\ outstanding'[i] = OwnOutstanding(r)
        BY <2>2, <2>3, <2>4, <2>8
      <3>2. CASE IsSubmit(r)
        <4>1. {s \in settlements : s.inv = i} = {}
          BY <2>1, <2>8, <3>2 DEF RowsInv, RowsBooked
        <4>2. Settled(i) = 0
          BY <4>1, AllocatedNothing DEF Settled
        <4>3. OwnOutstanding(r) = cmd[r].body.amount
          BY <1>1, <2>8, <3>2 DEF OwnOutstanding
        <4>4. status'[i] = 1 /\ body'[i].amount = cmd[r].body.amount
              /\ body'[i].amount \in Int
          BY <2>1, <2>8, <3>2 DEF Bodies
        <4> QED BY <3>1, <4>2, <4>3, <4>4
      <3>3. CASE ~IsSubmit(r)
        <4>1. CancelExact(r) /\ pc[r] = "commit"
          BY <1>1 DEF SettleInv, CommitApply
        <4>2. Settled(i) = 0
          BY <1>1, <2>8, <3>3, <4>1 DEF CancelExact
        <4>3. status'[i] = 2
          BY <2>1, <2>8, <3>3
        <4> QED BY <3>1, <4>2, <4>3
      <3> QED BY <3>2, <3>3
    <2> QED BY <2>6, <2>7, <2>8
  <1>2. CASE UNCHANGED books
    <2>1. status' = status /\ outstanding' = outstanding /\ body' = body
      BY <1>2 DEF books
    <2>2. \A i : Settled(i)' = Settled(i)
      BY <1>2, SettledKept
    <2> QED BY <2>1, <2>2 DEF SettleInv, OutstandingExact, CancelledUnsettled
  <1>3. CASE \E r \in Req : CommitApply(r)
    BY <1>1, <1>3 DEF OutstandingExact, CancelledUnsettled
  <1> QED BY <1>2, <1>3, OnlyCommitsWrite

\* While no other request about payments or invoices runs, what a build has
\* read stays true until it commits.
LEMMA ExactKept ==
    ASSUME TypeOK, RowsComplete, RowsInv, PaymentsChecked, SettleInv, SettlementsApart,
           [Next]_vars, NEW r \in Req, pc[r] # "idle", Kept(r)
    PROVE  BuildExact(r)' /\ CancelExact(r)'
  <1>0. /\ Target(r)' = Target(r) /\ IsSubmit(r)' = IsSubmit(r) /\ pc'[r] = pc[r]
        /\ quoted'[r] = quoted[r] /\ upd'[r] = upd[r]
        /\ \A i : NewAllocation(r, i)' = NewAllocation(r, i)
    BY SameRows DEF Kept, SameBuild
  <1>1. BuildExact(r) /\ CancelExact(r)
    BY DEF SettleInv
  <1>2. Target(r) \in Docs
    BY NewRowTypes
  <1>3. CASE ~Settles(Target(r))
    BY <1>0, <1>3 DEF BuildExact, CancelExact, Settles
  <1>4. CASE Settles(Target(r))
    <2>1. ASSUME NEW i \in Docs, Doctype[i] \in SETTLEABLE_DOCTYPES
          PROVE  status'[i] = status[i] /\ body'[i] = body[i] /\ Settled(i)' = Settled(i)
      <3>1. ASSUME NEW q \in Req, CommitApply(q) PROVE ~Settles(Target(q))
        <4>1. pc[q] = "commit" /\ pc'[q] = "idle"
          BY <3>1 DEF CommitApply, Answer, TypeOK, RequestTypeOK
        <4> QED BY <1>0, <1>4, <4>1 DEF SettlementsApart
      <3>2. CASE UNCHANGED books
        BY <3>2, SettledKept DEF books
      <3>3. CASE \E q \in Req : CommitApply(q)
        BY <2>1, <3>1, <3>3, OtherDoctypes
      <3> QED BY <3>2, <3>3, OnlyCommitsWrite
    <2>2. BuildExact(r)'
      <3> SUFFICES ASSUME pc[r] \in {"invoices", "commit"}, IsPayment(Target(r))
                   PROVE  /\ \A i \in quoted[r] : status'[i] = 1
                          /\ \A i \in DOMAIN upd[r] : /\ upd[r][i] = OutstandingAfter(r, i)'
                                                     /\ ~OverAllocated(r, i)'
        BY <1>0 DEF BuildExact
      <3>1. /\ \A i \in quoted[r] : status[i] = 1
            /\ \A i \in DOMAIN upd[r] : /\ upd[r][i] = OutstandingAfter(r, i)
                                       /\ ~OverAllocated(r, i)
        BY <1>1 DEF BuildExact
      <3>2. \A i \in quoted[r] : i \in Docs /\ Doctype[i] \in SETTLEABLE_DOCTYPES
        BY QuotedInvoices
      <3>3. DOMAIN upd[r] \subseteq quoted[r]
        BY DEF RowsInv, BuildsSound, BuildSound
      <3>4. \A i \in quoted[r] : status'[i] = 1
        BY <2>1, <3>1, <3>2
      <3>5. ASSUME NEW i \in DOMAIN upd[r]
            PROVE  /\ OutstandingAfter(r, i)' = OutstandingAfter(r, i)
                   /\ OverAllocated(r, i)' = OverAllocated(r, i)
        <4>1. body'[i] = body[i] /\ Settled(i)' = Settled(i)
          BY <2>1, <3>2, <3>3
        <4> QED BY <1>0, <4>1 DEF OutstandingAfter, OverAllocated
      <3> QED BY <3>1, <3>4, <3>5
    <2>3. CancelExact(r)'
      <3> SUFFICES ASSUME pc[r] \in {"voucher", "stock", "commit"}, ~IsSubmit(r),
                          Doctype[Target(r)] \in SETTLEABLE_DOCTYPES
                   PROVE  Settled(Target(r))' = 0
        BY <1>0 DEF CancelExact
      <3>1. Settled(Target(r)) = 0
        BY <1>1 DEF CancelExact
      <3> DEFINE t == Target(r)
      <3>2. t \in Docs /\ Target(r)' = t
        BY <1>0, <1>2
      <3>3. ASSUME NEW i, i = t PROVE Settled(i)' = 0
        BY <1>2, <2>1, <3>1, <3>3
      <3> QED BY <3>2, <3>3 DEF Settled
    <2> QED BY <2>2, <2>3
  <1> QED BY <1>3, <1>4

\* A build reads and computes what is stored.
LEMMA ExactMoves ==
    ASSUME TypeOK, RowsInv, SettleInv, NEW r \in Req, Moves(r), UNCHANGED books
    PROVE  BuildExact(r)' /\ CancelExact(r)'
  <1>0. status' = status /\ body' = body /\ \A i : Settled(i)' = Settled(i)
    BY SettledKept DEF books
  <1>1. pc[r] # "idle" => BuildExact(r) /\ CancelExact(r)
    BY DEF SettleInv
  <1>2. /\ cmd'[r] = cmd[r] => Target(r)' = Target(r) /\ IsSubmit(r)' = IsSubmit(r)
        /\ cmd'[r] = cmd[r] /\ voucher'[r] = voucher[r]
           => \A i : /\ OutstandingAfter(r, i)' = OutstandingAfter(r, i)
                    /\ OverAllocated(r, i)' = OverAllocated(r, i)
    <2>1. ASSUME cmd'[r] = cmd[r], voucher'[r] = voucher[r], NEW i
          PROVE  /\ OutstandingAfter(r, i)' = OutstandingAfter(r, i)
                 /\ OverAllocated(r, i)' = OverAllocated(r, i)
      <3>1. NewAllocation(r, i)' = NewAllocation(r, i)
        BY <2>1, SameRows
      <3>2. IsSubmit(r)' = IsSubmit(r)
        BY <2>1 DEF IsSubmit
      <3> QED BY <1>0, <3>1, <3>2 DEF OutstandingAfter, OverAllocated
    <2> QED BY <2>1 DEF Target, IsSubmit
  <1>3. /\ Target(r)' = Target(r) => Settled(Target(r))' = Settled(Target(r))
    <2>1. \A i : i = Target(r) => Settled(i)' = Settled(Target(r))
      BY <1>0
    <2> QED BY <1>0 DEF Settled, Allocated, books
  <1>4. /\ pc[r] = "applied" /\ ~IsSubmit(r) => Doctype[Target(r)] \notin SETTLEABLE_DOCTYPES
        /\ pc[r] = "invoices" => /\ IsPayment(Target(r))
                                 /\ Doctype[Target(r)] \notin SETTLEABLE_DOCTYPES
                                 /\ DOMAIN upd[r] \subseteq quoted[r]
        /\ pc[r] = "stock" => DOMAIN upd[r] = {} /\ quoted[r] = {}
    BY DoctypesApart DEF RowsInv, PhasesSound, BuildsSound, BuildSound
  <1>5. CASE Early(r)
    <2>1. BuildExact(r)'
      BY <1>5 DEF Early, BuildExact
    <2>2. CancelExact(r)'
      <3> SUFFICES ASSUME pc'[r] = "voucher", Doctype[Target(r)'] \in SETTLEABLE_DOCTYPES
                   PROVE  Settled(Target(r))' = 0
        BY <1>5 DEF Early, CancelExact
      <3>1. /\ cmd'[r] = cmd[r]
            /\ \/ Settled(Target(r)) = 0
               \/ Doctype[Target(r)] \notin SETTLEABLE_DOCTYPES
               \/ pc[r] = "applied" /\ ~IsSubmit(r)
        BY <1>5 DEF Early
      <3>2. Settled(Target(r)) = 0
        BY <1>2, <1>4, <3>1
      <3> QED BY <1>2, <1>3, <3>1, <3>2
    <2> QED BY <2>1, <2>2
  <1>6. CASE RowsRead(r)
    BY <1>1, <1>2, <1>3, <1>6 DEF RowsRead, BuildExact, CancelExact
  <1>7. CASE SubmitBuilds(r)
    BY <1>2, <1>7 DEF SubmitBuilds, SameBuild, BuildExact, CancelExact
  <1>8. CASE StockPassed(r)
    <2>1. /\ pc[r] = "stock" /\ cmd'[r] = cmd[r]
          /\ quoted'[r] = {} /\ DOMAIN upd'[r] = {}
          /\ pc'[r] = IF IsPayment(Target(r)) THEN "invoices" ELSE "commit"
      BY <1>4, <1>8 DEF StockPassed, SameBuild
    <2>2. BuildExact(r)'
      BY <2>1 DEF BuildExact
    <2>3. CancelExact(r)'
      BY <1>1, <1>2, <1>3, <2>1 DEF CancelExact
    <2> QED BY <2>2, <2>3
  <1>9. CASE Quotes(r)
    <2>1. PICK i \in Invoices(r) : status[i] = 1 /\ quoted'[r] = quoted[r] \cup {i}
      BY <1>9 DEF Quotes
    <2>2. /\ pc[r] = "invoices" /\ pc'[r] = "invoices" /\ upd'[r] = upd[r]
          /\ Target(r)' = Target(r)
          /\ \A j : /\ OutstandingAfter(r, j)' = OutstandingAfter(r, j)
                   /\ OverAllocated(r, j)' = OverAllocated(r, j)
      BY <1>2, <1>9 DEF Quotes
    <2>3. /\ \A j \in quoted[r] : status[j] = 1
          /\ \A j \in DOMAIN upd[r] : /\ upd[r][j] = OutstandingAfter(r, j)
                                     /\ ~OverAllocated(r, j)
      BY <1>1, <1>4, <2>2 DEF BuildExact
    <2>4. BuildExact(r)'
      BY <1>0, <2>1, <2>2, <2>3 DEF BuildExact
    <2> QED BY <2>2, <2>4 DEF CancelExact
  <1>10. CASE Computes(r)
    <2>1. PICK i \in quoted[r] :
             /\ ~OverAllocated(r, i)
             /\ upd'[r] = [j \in DOMAIN upd[r] \cup {i} |->
                              IF j = i THEN OutstandingAfter(r, i) ELSE upd[r][j]]
      BY <1>10 DEF Computes
    <2>2. /\ pc[r] = "invoices" /\ pc'[r] = "invoices" /\ quoted'[r] = quoted[r]
          /\ Target(r)' = Target(r)
          /\ \A j : /\ OutstandingAfter(r, j)' = OutstandingAfter(r, j)
                   /\ OverAllocated(r, j)' = OverAllocated(r, j)
      BY <1>2, <1>10 DEF Computes
    <2>3. /\ \A j \in quoted[r] : status[j] = 1
          /\ \A j \in DOMAIN upd[r] : /\ upd[r][j] = OutstandingAfter(r, j)
                                     /\ ~OverAllocated(r, j)
      BY <1>1, <1>4, <2>2 DEF BuildExact
    <2>4. \A j \in DOMAIN upd'[r] : upd'[r][j] = OutstandingAfter(r, j) /\ ~OverAllocated(r, j)
      BY <2>1, <2>3
    <2>5. BuildExact(r)'
      BY <1>0, <2>2, <2>3, <2>4 DEF BuildExact
    <2> QED BY <2>2, <2>5 DEF CancelExact
  <1>11. CASE Completes(r)
    <2>1. /\ pc[r] = "invoices" /\ pc'[r] = "commit" /\ quoted'[r] = quoted[r]
          /\ upd'[r] = upd[r] /\ Target(r)' = Target(r)
          /\ \A j : /\ OutstandingAfter(r, j)' = OutstandingAfter(r, j)
                   /\ OverAllocated(r, j)' = OverAllocated(r, j)
      BY <1>2, <1>11 DEF Completes, SameBuild
    <2>2. /\ \A j \in quoted[r] : status[j] = 1
          /\ \A j \in DOMAIN upd[r] : /\ upd[r][j] = OutstandingAfter(r, j)
                                     /\ ~OverAllocated(r, j)
      BY <1>1, <1>4, <2>1 DEF BuildExact
    <2>3. BuildExact(r)'
      BY <1>0, <2>1, <2>2 DEF BuildExact
    <2>4. CancelExact(r)'
      BY <1>4, <2>1 DEF CancelExact
    <2> QED BY <2>3, <2>4
  <1> QED BY <1>5, <1>6, <1>7, <1>8, <1>9, <1>10, <1>11 DEF Moves

\* As long as no two requests about payments or invoices run at the same
\* time, outstanding amounts, settlements and builds stay in step.
LEMMA SettleInvariant == Spec /\ []SettlementsApart => []SettleInv
  <1>1. Init => SettleInv
    <2> SUFFICES ASSUME Init PROVE SettleInv
      OBVIOUS
    <2>1. (\A d \in Docs : status[d] = 0) /\ (\A r \in Req : pc[r] = "idle")
      BY DEF Init
    <2> QED BY <2>1 DEF SettleInv, OutstandingExact, CancelledUnsettled
  <1>2. /\ TypeOK /\ RowsComplete /\ RowsInv /\ PaymentsChecked /\ SettleInv
        /\ SettlementsApart /\ [Next]_vars
        => SettleInv'
    <2> SUFFICES ASSUME TypeOK, RowsComplete, RowsInv, PaymentsChecked, SettleInv,
                        SettlementsApart, [Next]_vars
                 PROVE  SettleInv'
      OBVIOUS
    <2>1. OutstandingExact' /\ CancelledUnsettled'
      BY OutstandingStep
    <2>2. ASSUME NEW r \in Req, pc'[r] # "idle" PROVE BuildExact(r)' /\ CancelExact(r)'
      <3>1. Kept(r) \/ Ended(r) \/ (Moves(r) /\ UNCHANGED books)
        BY RequestMoves DEF RowsInv, BuildsSound
      <3>2. CASE Kept(r)
        BY <2>2, <3>2, ExactKept DEF Kept
      <3>3. CASE Moves(r) /\ UNCHANGED books
        BY <3>3, ExactMoves
      <3> QED BY <2>2, <3>1, <3>2, <3>3 DEF Ended
    <2> QED BY <2>1, <2>2 DEF SettleInv
  <1>3. DepositInv => PaymentsChecked
    BY DEF DepositInv
  <1> QED
    BY <1>1, <1>2, <1>3, TypeCorrect, RowsCompleteInvariant, DepositInvariant, RowsInvariant,
       PTL DEF Spec

\* The maintained outstanding amount of a submitted invoice can come to differ
\* from its total less what is settled only after two requests about payments
\* or invoices ran at the same time, which the code does not prevent: no
\* sequence of submits, cancels, stale retries and disconnections, and no
\* overlap with postings of another kind, does it.
THEOREM LostOutstandingNeedsOverlap ==
    Spec /\ <>~OutstandingExact => <>~SettlementsApart
  <1>1. SettleInv => OutstandingExact
    BY DEF SettleInv
  <1> QED BY <1>1, SettleInvariant, PTL

\* An invoice is cancelled with a live settlement against it only after two
\* such requests ran at the same time.
THEOREM CancelledSettledNeedsOverlap ==
    Spec /\ <>~CancelledUnsettled => <>~SettlementsApart
  <1>1. SettleInv => CancelledUnsettled
    BY DEF SettleInv
  <1> QED BY <1>1, SettleInvariant, PTL

\* Rows that settle nothing or take back settle nothing together.
LEMMA AllocatedNegative ==
    ASSUME NEW S \in SUBSET SettlementType, IsFiniteSet(S), \A s \in S : s.amt <= 0
    PROVE  Allocated(S) <= 0
  <1> DEFINE f == [s \in S |-> s.amt]
             P == {u \in SUBSET S : ~(SumFunctionOnSet(f, u) <= 0)}
  <1>0. \A s \in S : f[s] \in Int /\ f[s] <= 0
    BY DEF SettlementType
  <1>1. Allocated(S) = SumFunctionOnSet(f, S)
    BY DEF Allocated, SumFunction
  <1> HIDE DEF f
  <1> SUFFICES ASSUME P # {} PROVE FALSE
    BY <1>1
  <1>2. PICK v \in P : IsFiniteSet(v) /\ \A x \in v : v \ {x} \notin P
    BY Smallest
  <1>3. v # {}
    BY SumEmpty
  <1>4. PICK e \in v : TRUE
    BY <1>3
  <1>5. \A x \in v : f[x] \in Int
    BY <1>0
  <1>6. SumFunctionOnSet(f, v) = f[e] + SumFunctionOnSet(f, v \ {e})
    BY <1>2, <1>5, SumTake
  <1>7. IsFiniteSet(v \ {e})
    BY <1>2, FS_Subset
  <1>8. SumFunctionOnSet(f, v \ {e}) \in Int /\ SumFunctionOnSet(f, v \ {e}) <= 0
    BY <1>2, <1>5, <1>7, SumType
  <1> QED BY <1>0, <1>6, <1>8

\* One request at a time never settles an invoice beyond its total.
LEMMA OverSettledStep ==
    ASSUME \A c \in Commands : c.kind = "submit" /\ Doctype[c.doc] \in SETTLEABLE_DOCTYPES
                               => c.body.amount >= 0,
           TypeOK, RowsComplete, RowsInv, PaymentsChecked, SettleInv, NeverOverSettled,
           [Next]_vars
    PROVE  NeverOverSettled'
  <1>1. ASSUME NEW r \in Req, CommitApply(r), NEW i \in Docs,
               Doctype[i] \in SETTLEABLE_DOCTYPES, status'[i] = 1
        PROVE  Settled(i)' <= body'[i].amount
    <2> DEFINE t == Target(r)
    <2>1. /\ t \in Docs /\ body'[t] \in Bodies
          /\ \A e \in Docs \ {t} : status'[e] = status[e] /\ body'[e] = body[e]
          /\ status[t] = IF IsSubmit(r) THEN 0 ELSE 1
          /\ status'[t] = IF IsSubmit(r) THEN 1 ELSE 2
          /\ IsSubmit(r) => /\ cmd[r] \in Commands /\ cmd[r].kind = "submit"
                            /\ body'[t] = cmd[r].body
      BY <1>1, CommitDocuments
    <2>2. /\ Settled(i)' = Settled(i) + NewAllocation(r, i)
          /\ Settled(i) \in Int /\ NewAllocation(r, i) \in Int
          /\ i \notin Invoices(r) => NewAllocation(r, i) = 0
      BY <1>1, SettledAdds
    <2>3. /\ DOMAIN upd[r] = Invoices(r) /\ t \notin DOMAIN upd[r]
          /\ ~IsPayment(t) => DOMAIN upd[r] = {}
      BY <1>1, CommitRows
    <2>4. CASE i = t
      <3>1. IsSubmit(r)
        BY <1>1, <2>1, <2>4
      <3>2. {s \in settlements : s.inv = i} = {}
        BY <2>1, <2>4, <3>1 DEF RowsInv, RowsBooked
      <3>3. Settled(i)' = 0
        <4>1. Settled(i) = 0
          BY <3>2, AllocatedNothing DEF Settled
        <4> QED BY <2>2, <2>3, <2>4, <4>1
      <3>4. body'[i].amount \in Int /\ body'[i].amount >= 0
        BY <1>1, <2>1, <2>4, <3>1 DEF Bodies, Target
      <3> QED BY <3>3, <3>4
    <2>5. CASE i # t
      <3>1. status[i] = 1 /\ body'[i] = body[i]
        BY <1>1, <2>1, <2>5
      <3>2. Settled(i) <= body[i].amount /\ body[i].amount \in Int
        BY <1>1, <3>1 DEF NeverOverSettled, RowsComplete, Bodies
      <3>3. CASE i \notin Invoices(r)
        BY <2>2, <3>1, <3>2, <3>3
      <3>4. CASE i \in Invoices(r) /\ IsSubmit(r)
        <4>1. ~OverAllocated(r, i)
          BY <1>1, <2>3, <3>4 DEF SettleInv, BuildExact, CommitApply
        <4> QED BY <2>2, <3>1, <3>2, <3>4, <4>1 DEF OverAllocated
      <3>5. CASE i \in Invoices(r) /\ ~IsSubmit(r)
        <4> DEFINE B == {s \in NewSettlements(r) : s.inv = i}
        <4>1. /\ IsFiniteSet(NewSettlements(r)) /\ NewSettlements(r) \subseteq SettlementType
              /\ \A s \in NewSettlements(r) : s.amt <= 0
          BY <1>1, <3>5, NewRows, NewRowTypes DEF CommitApply
        <4>2. B \in SUBSET SettlementType /\ IsFiniteSet(B) /\ \A s \in B : s.amt <= 0
          BY <4>1, FS_Subset
        <4>3. NewAllocation(r, i) = Allocated(B)
          BY DEF NewAllocation
        <4> HIDE DEF B
        <4>4. NewAllocation(r, i) <= 0
          BY <4>2, <4>3, AllocatedNegative
        <4> QED BY <2>2, <3>1, <3>2, <4>4
      <3> QED BY <3>3, <3>4, <3>5
    <2> QED BY <2>4, <2>5
  <1>2. CASE UNCHANGED books
    <2>1. status' = status /\ body' = body
      BY <1>2 DEF books
    <2>2. \A i : Settled(i)' = Settled(i)
      BY <1>2, SettledKept
    <2> QED BY <2>1, <2>2 DEF NeverOverSettled
  <1>3. CASE \E r \in Req : CommitApply(r)
    BY <1>1, <1>3 DEF NeverOverSettled
  <1> QED BY <1>2, <1>3, OnlyCommitsWrite

\* "A payment can never drive an invoice's outstanding negative": true of
\* invoices of zero or more as long as requests about payments and invoices
\* do not overlap.
THEOREM OverSettlementNeedsOverlap ==
    ASSUME \A c \in Commands : c.kind = "submit" /\ Doctype[c.doc] \in SETTLEABLE_DOCTYPES
                               => c.body.amount >= 0
    PROVE  Spec /\ []SettlementsApart => []NeverOverSettled
  <1>1. Init => NeverOverSettled
    <2> SUFFICES ASSUME Init PROVE NeverOverSettled
      OBVIOUS
    <2>1. \A d \in Docs : status[d] = 0
      BY DEF Init
    <2> QED BY <2>1 DEF NeverOverSettled
  <1>2. /\ TypeOK /\ RowsComplete /\ RowsInv /\ PaymentsChecked /\ SettleInv
        /\ NeverOverSettled /\ [Next]_vars
        => NeverOverSettled'
    BY OverSettledStep
  <1>3. DepositInv => PaymentsChecked
    BY DEF DepositInv
  <1> QED
    BY <1>1, <1>2, <1>3, TypeCorrect, RowsCompleteInvariant, DepositInvariant, RowsInvariant,
       SettleInvariant, PTL DEF Spec

-----------------------------------------------------------------------------
(* The posting authority implements the official books.                    *)
(*                                                                         *)
(* A submit writes what its command says, so it is enough that the ledgers *)
(* it was built on are the stored ones when it commits (StockInv).  A      *)
(* cancel negates rows it read some time ago: that those are what the      *)
(* document says needs two more facts.  The rows of a posted document are  *)
(* its payload's movements (RowsPosted), and a cancel past its reads holds *)
(* exactly those (CancelReads), because posted documents do not change.    *)

\* Phases of a handler after posted_document.
Later == Phases \ {"idle", "replay", "settings", "document"}

\* Phases after the voucher's own rows were read.
Built3 == {"stock", "invoices", "commit"}

-----------------------------------------------------------------------------
(* The strengthening.                                                      *)

\* Past the stock check a build has read exactly the pairs it moves.
PairsRead ==
    \A r \in Req : pc[r] \in {"invoices", "commit"} => DOMAIN led[r] = MovedPairs(r)

\* Stock rows belong to posted documents and say what the payload says.
RowsPosted ==
    \A p \in Pairs :
        /\ \A i \in 1..Len(ledger[p]) :
              /\ status[ledger[p][i].doc] # 0
              /\ ~ledger[p][i].rev => ledger[p][i].qty = body[ledger[p][i].doc].moves[p]
        /\ \A d \in Docs : status[d] # 0 /\ body[d].moves[p] # 0 =>
              \E i \in 1..Len(ledger[p]) : ledger[p][i].doc = d /\ ~ledger[p][i].rev

\* A cancel's document is posted, and the rows it read are its movements.
CancelReads ==
    \A r \in Req : pc[r] \in Later /\ ~IsSubmit(r) =>
        /\ status[Target(r)] # 0
        /\ pc[r] \in Built3 => voucher[r].moves = body[Target(r)].moves

\* Negative stock is only ever seen allowed when it may be.
AllowSeen ==
    /\ allowNeg => TRUE \in AllowChoices
    /\ \A r \in Req : seen[r].allowNeg => TRUE \in AllowChoices

RefinementInv == PairsRead /\ RowsPosted /\ CancelReads /\ AllowSeen

-----------------------------------------------------------------------------
(* Each part is preserved.                                                 *)

LEMMA PairsReadStep ==
    ASSUME TypeOK, PairsRead, [Next]_vars
    PROVE  PairsRead'
  <1> SUFFICES ASSUME NEW r \in Req, pc'[r] \in {"invoices", "commit"}
               PROVE  DOMAIN led'[r] = MovedPairs(r)'
    BY DEF PairsRead
  <1>1. DOMAIN led[r] = MovedPairs(r)
    BY PastCheckSteps DEF PairsRead
  <1>2. cmd'[r] = cmd[r] /\ led'[r] = led[r] /\ voucher'[r] = voucher[r]
    BY PastCheckSteps
  <1> QED BY <1>1, <1>2 DEF MovedPairs, NewQty, IsSubmit

\* A posted document stays posted and keeps its payload.
LEMMA PostedStays ==
    ASSUME TypeOK, [Next]_vars, NEW d \in Docs, status[d] # 0
    PROVE  status'[d] # 0 /\ body'[d] = body[d]
  <1>1. ASSUME NEW r \in Req, CommitApply(r) PROVE status'[d] # 0 /\ body'[d] = body[d]
    <2>1. /\ status' = [status EXCEPT ![Target(r)] = IF IsSubmit(r) THEN 1 ELSE 2]
          /\ body' = IF IsSubmit(r) THEN [body EXCEPT ![Target(r)] = cmd[r].body] ELSE body
      BY <1>1 DEF CommitApply, WriteDocument
    <2>2. IsSubmit(r) => Target(r) # d
      BY <1>1, CommitFacts
    <2> QED BY <2>1, <2>2 DEF TypeOK, StoreTypeOK
  <1>2. CASE UNCHANGED books
    BY <1>2 DEF books
  <1> QED BY <1>1, <1>2, OnlyCommitsWrite

\* The rows a cancel reads are the movements of its document.
LEMMA StoredIsPosted ==
    ASSUME TypeOK, RowsPosted, RowsComplete, NEW d \in Docs, status[d] # 0, NEW p \in Pairs
    PROVE  StoredQty(d, p) = body[d].moves[p]
  <1>1. ledger[p] \in Seq(RowType)
    BY DEF TypeOK, StoreTypeOK
  <1>2. DOMAIN ledger[p] = 1..Len(ledger[p])
    BY <1>1
  <1>3. CASE \E i \in DOMAIN ledger[p] : ledger[p][i].doc = d /\ ~ledger[p][i].rev
    <2> DEFINE i == CHOOSE i \in DOMAIN ledger[p] : ledger[p][i].doc = d /\ ~ledger[p][i].rev
    <2>1. i \in DOMAIN ledger[p] /\ ledger[p][i].doc = d /\ ~ledger[p][i].rev
      BY <1>3
    <2>2. StoredQty(d, p) = ledger[p][i].qty
      BY <1>3 DEF StoredQty
    <2> HIDE DEF i
    <2> QED BY <1>2, <2>1, <2>2 DEF RowsPosted
  <1>4. CASE ~ \E i \in DOMAIN ledger[p] : ledger[p][i].doc = d /\ ~ledger[p][i].rev
    BY <1>2, <1>4 DEF StoredQty, RowsPosted
  <1> QED BY <1>3, <1>4

\* The row a commit appends to a pair it moves.
NewRow(r, p) == [doc |-> Target(r), rev |-> ~IsSubmit(r), qty |-> NewQty(r, p)]

LEMMA CommittedRows ==
    ASSUME TypeOK, PairsRead, NEW r \in Req, CommitApply(r), NEW p \in Pairs
    PROVE  ledger'[p] = IF NewQty(r, p) = 0 THEN ledger[p] ELSE Append(ledger[p], NewRow(r, p))
  <1>1. DOMAIN led[r] = MovedPairs(r)
    BY DEF PairsRead, CommitApply
  <1>2. p \in DOMAIN led[r] <=> NewQty(r, p) # 0
    BY <1>1 DEF MovedPairs
  <1> QED BY <1>2 DEF CommitApply, WriteStock, NewRow

\* A commit adds only rows that say what the payload says, and a row for
\* every pair a submitted payload moves.
LEMMA RowsPostedStep ==
    ASSUME TypeOK, PairsRead, RowsPosted, [Next]_vars
    PROVE  RowsPosted'
  <1>1. ASSUME NEW r \in Req, CommitApply(r) PROVE RowsPosted'
    <2> DEFINE t == Target(r)
    <2>1. /\ status' = [status EXCEPT ![t] = IF IsSubmit(r) THEN 1 ELSE 2]
          /\ body' = IF IsSubmit(r) THEN [body EXCEPT ![t] = cmd[r].body] ELSE body
      BY <1>1 DEF CommitApply, WriteDocument
    <2>2. t \in Docs /\ (IsSubmit(r) => status[t] = 0) /\ (~IsSubmit(r) => status[t] = 1)
      BY <1>1, CommitFacts
    <2>3. /\ status'[t] # 0 /\ (IsSubmit(r) => body'[t] = cmd[r].body)
          /\ ~IsSubmit(r) => body'[t] = body[t]
      BY <2>1, <2>2 DEF TypeOK, StoreTypeOK
    <2>4. \A d \in Docs : d # t => status'[d] = status[d] /\ body'[d] = body[d]
      BY <2>1 DEF TypeOK, StoreTypeOK
    <2> SUFFICES ASSUME NEW p \in Pairs
                 PROVE  /\ \A i \in 1..Len(ledger'[p]) :
                              /\ status'[ledger'[p][i].doc] # 0
                              /\ ~ledger'[p][i].rev =>
                                    ledger'[p][i].qty = body'[ledger'[p][i].doc].moves[p]
                        /\ \A d \in Docs : status'[d] # 0 /\ body'[d].moves[p] # 0 =>
                              \E i \in 1..Len(ledger'[p]) :
                                  ledger'[p][i].doc = d /\ ~ledger'[p][i].rev
      BY DEF RowsPosted
    <2>5. ledger[p] \in Seq(RowType)
      BY DEF TypeOK, StoreTypeOK
    <2>6. /\ Len(ledger[p]) <= Len(ledger'[p])
          /\ \A i \in 1..Len(ledger[p]) : ledger'[p][i] = ledger[p][i]
      BY LedgerGrows
    <2>7. ledger'[p] = IF NewQty(r, p) = 0 THEN ledger[p] ELSE Append(ledger[p], NewRow(r, p))
      BY <1>1, CommittedRows
    <2>8. NewRow(r, p).doc = t /\ NewRow(r, p).rev = ~IsSubmit(r)
          /\ NewRow(r, p).qty = NewQty(r, p)
      BY DEF NewRow
    <2>9. IsSubmit(r) => NewQty(r, p) = cmd[r].body.moves[p]
      BY DEF NewQty
    <2>10. ASSUME NEW i \in 1..Len(ledger[p])
           PROVE  /\ ledger[p][i].doc \in Docs
                  /\ status'[ledger[p][i].doc] # 0
                  /\ ~ledger[p][i].rev => ledger[p][i].qty = body'[ledger[p][i].doc].moves[p]
      <3>1. ledger[p][i] \in RowType
        BY <2>5
      <3>2. ledger[p][i].doc \in Docs
        BY <3>1 DEF RowType
      <3>3. /\ status[ledger[p][i].doc] # 0
            /\ ~ledger[p][i].rev => ledger[p][i].qty = body[ledger[p][i].doc].moves[p]
        BY DEF RowsPosted
      <3> QED BY <3>2, <3>3, PostedStays
    <2>11. CASE NewQty(r, p) = 0
      <3>1. ledger'[p] = ledger[p]
        BY <2>7, <2>11
      <3>2. ASSUME NEW d \in Docs, status'[d] # 0, body'[d].moves[p] # 0
            PROVE  \E i \in 1..Len(ledger[p]) : ledger[p][i].doc = d /\ ~ledger[p][i].rev
        <4>1. d = t => ~IsSubmit(r)
          BY <2>3, <2>9, <2>11, <3>2
        <4>2. status[d] # 0 /\ body[d].moves[p] # 0
          BY <2>2, <2>3, <2>4, <3>2, <4>1
        <4> QED BY <4>2 DEF RowsPosted
      <3> QED BY <2>10, <3>1, <3>2
    <2>12. CASE NewQty(r, p) # 0
      <3> DEFINE last == Len(ledger[p]) + 1
      <3>1. ledger'[p] = Append(ledger[p], NewRow(r, p))
        BY <2>7, <2>12
      <3>2. /\ Len(ledger'[p]) = last /\ last \in Nat /\ ledger'[p][last] = NewRow(r, p)
            /\ \A i \in 1..Len(ledger'[p]) : i \in 1..Len(ledger[p]) \/ i = last
        BY <2>5, <3>1
      <3>3. ASSUME NEW i \in 1..Len(ledger'[p])
            PROVE  /\ status'[ledger'[p][i].doc] # 0
                   /\ ~ledger'[p][i].rev =>
                         ledger'[p][i].qty = body'[ledger'[p][i].doc].moves[p]
        <4>1. CASE i \in 1..Len(ledger[p])
          BY <2>6, <2>10, <4>1
        <4>2. CASE i = last
          BY <2>3, <2>8, <2>9, <3>2, <4>2
        <4> QED BY <3>2, <4>1, <4>2
      <3>4. ASSUME NEW d \in Docs, status'[d] # 0, body'[d].moves[p] # 0
            PROVE  \E i \in 1..Len(ledger'[p]) : ledger'[p][i].doc = d /\ ~ledger'[p][i].rev
        <4>1. CASE d = t /\ IsSubmit(r)
          <5>1. last \in 1..Len(ledger'[p])
            BY <2>5, <3>2
          <5> QED BY <2>8, <3>2, <4>1, <5>1
        <4>2. CASE ~(d = t /\ IsSubmit(r))
          <5>1. status[d] # 0 /\ body[d].moves[p] # 0
            BY <2>2, <2>3, <2>4, <3>4, <4>2
          <5>2. PICK i \in 1..Len(ledger[p]) : ledger[p][i].doc = d /\ ~ledger[p][i].rev
            BY <5>1 DEF RowsPosted
          <5>3. i \in 1..Len(ledger'[p]) /\ ledger'[p][i] = ledger[p][i]
            BY <2>5, <2>6, <3>2
          <5> QED BY <5>2, <5>3
        <4> QED BY <4>1, <4>2
      <3> QED BY <3>3, <3>4
    <2> QED BY <2>11, <2>12
  <1>2. CASE UNCHANGED books
    BY <1>2 DEF books, RowsPosted
  <1> QED BY <1>1, <1>2, OnlyCommitsWrite

\* Where a cancel comes from, and what it holds when it has read its rows.
LEMMA CancelSteps ==
    ASSUME TypeOK, [Next]_vars, NEW r \in Req, pc'[r] \in Later, ~IsSubmit(r)'
    PROVE  /\ cmd'[r] = cmd[r]
           /\ pc[r] \in Later \/ status[Target(r)] # 0
           /\ pc'[r] \in Built3 =>
                 \/ pc[r] \in Built3 /\ voucher'[r] = voucher[r]
                 \/ /\ pc[r] = "voucher"
                    /\ voucher'[r].moves = [p \in Pairs |-> StoredQty(Target(r), p)]
  <1> DEFINE Held(s) ==
        /\ cmd'[s] = cmd[s]
        /\ pc[s] \in Later \/ status[Target(s)] # 0
        /\ pc'[s] \in Built3 =>
              \/ pc[s] \in Built3 /\ voucher'[s] = voucher[s]
              \/ /\ pc[s] = "voucher"
                 /\ voucher'[s].moves = [p \in Pairs |-> StoredQty(Target(s), p)]
  <1>0. pc \in [Req -> Phases] /\ DOMAIN cmd = Req /\ DOMAIN voucher = Req
    BY DEF TypeOK, RequestTypeOK
  <1>1. ASSUME cmd'[r] = cmd[r], pc'[r] = pc[r], voucher'[r] = voucher[r] PROVE Held(r)
    BY <1>1
  <1>2. ASSUME NEW s \in Req, NEW w, Answer(s, w) PROVE Held(r)
    <2>1. r # s
      BY <1>0, <1>2 DEF Answer, Later
    <2> QED BY <1>0, <1>1, <1>2, <2>1 DEF Answer
  <1>3. ASSUME NEW s \in Req, Rebuild(s) PROVE Held(r)
    <2>1. r # s
      BY <1>0, <1>3 DEF Rebuild, Later
    <2> QED BY <1>0, <1>1, <1>3, <2>1 DEF Rebuild
  <1>4. ASSUME NEW s \in Req, NEW phase, Proceed(s, phase)
        PROVE  /\ cmd'[r] = cmd[r] /\ voucher'[r] = voucher[r]
               /\ IF r = s THEN pc'[r] = phase ELSE Held(r)
    BY <1>0, <1>1, <1>4 DEF Proceed, Goto, Local
  <1>5. ASSUME NEW s \in Req, Replay(s) PROVE Held(r)
    BY <1>2, <1>4, <1>5 DEF Replay, Later
  <1>6. ASSUME NEW s \in Req, ReadSettings(s) PROVE Held(r)
    <2>1. CASE \E w : Answer(s, w)
      BY <1>2, <2>1
    <2>2. CASE ~(\E w : Answer(s, w))
      BY <1>0, <1>1, <1>6, <2>2 DEF ReadSettings, Goto, Later
    <2> QED BY <2>1, <2>2
  <1>7. ASSUME NEW s \in Req, ReadDocumentSubmit(s) PROVE Held(r)
    BY <1>2, <1>4, <1>7 DEF ReadDocumentSubmit, IsSubmit
  <1>8. ASSUME NEW s \in Req, ReadDocumentCancel(s) PROVE Held(r)
    <2>1. CASE \E w : Answer(s, w)
      BY <1>2, <2>1
    <2>2. CASE ~(\E w : Answer(s, w))
      <3>1. /\ status[Target(s)] = 1 /\ cmd' = cmd /\ voucher' = voucher
            /\ pc' = [pc EXCEPT ![s] = pc'[s]] /\ pc'[s] \notin Built3
        BY <1>0, <1>8, <2>2 DEF ReadDocumentCancel, CancelBeyondLock, Goto, Built3
      <3> QED BY <1>0, <1>1, <3>1
    <2> QED BY <2>1, <2>2
  <1>9. ASSUME NEW s \in Req, ReadSettled(s) \/ ReadDeposit(s) \/ ReadApplications(s)
        PROVE  Held(r)
    BY <1>2, <1>4, <1>9 DEF ReadSettled, ReadDeposit, ReadApplications, IsSubmit, Later,
        Built3, Phases
  <1>10. ASSUME NEW s \in Req, ReadVoucher(s) PROVE Held(r)
    <2>1. CASE r = s
      BY <1>0, <1>10, <2>1 DEF ReadVoucher, Goto, Later, Phases
    <2>2. CASE r # s
      BY <1>0, <1>1, <1>10, <2>2 DEF ReadVoucher, Goto
    <2> QED BY <2>1, <2>2
  <1>11. ASSUME NEW s \in Req, CheckStock(s) \/ InvoicesRead(s) PROVE Held(r)
    BY <1>2, <1>4, <1>11 DEF CheckStock, InvoicesRead, Later, Built3, Phases
  <1>12. ASSUME NEW s \in Req, NEW p \in Pairs, ReadStock(s, p) PROVE Held(r)
    BY <1>1, <1>12 DEF ReadStock
  <1>13. ASSUME NEW s \in Req, NEW i \in Docs, ReadInvoice(s, i) \/ ReadSettlements(s, i)
         PROVE  Held(r)
    BY <1>1, <1>2, <1>13 DEF ReadInvoice, ReadSettlements
  <1>14. ASSUME NEW s \in Req, CommitReplay(s) \/ CommitStale(s) \/ CommitConflict(s)
                   \/ CommitApply(s) \/ Abandon(s)
         PROVE  Held(r)
    BY <1>2, <1>3, <1>14 DEF CommitReplay, CommitStale, CommitConflict, CommitApply, Abandon
  <1>15. ASSUME NEW s \in Req, NEW c \in Commands, Begin(s, c) PROVE Held(r)
    <2>1. r # s
      BY <1>0, <1>15 DEF Begin, Later
    <2> QED BY <1>0, <1>1, <1>15, <2>1 DEF Begin, Local
  <1>16. CASE (\E l \in Locks : set_books_lock(l)) \/ (\E b \in AllowChoices : put_company_settings(b))
              \/ UNCHANGED vars
    BY <1>1, <1>16 DEF set_books_lock, put_company_settings, requestVars, vars
  <1> QED
    BY <1>5, <1>6, <1>7, <1>8, <1>9, <1>10, <1>11, <1>12, <1>13, <1>14, <1>15, <1>16
    DEF Next, Step

\* A cancel holds the movements of its document from when it read them on.
LEMMA CancelReadsStep ==
    ASSUME TypeOK, RowsComplete, RowsPosted, CancelReads, [Next]_vars
    PROVE  CancelReads'
  <1> SUFFICES ASSUME NEW r \in Req, pc'[r] \in Later, ~IsSubmit(r)'
               PROVE  /\ status'[Target(r)'] # 0
                      /\ pc'[r] \in Built3 => voucher'[r].moves = body'[Target(r)'].moves
    BY DEF CancelReads
  <1>1. /\ cmd'[r] = cmd[r]
        /\ pc[r] \in Later \/ status[Target(r)] # 0
        /\ pc'[r] \in Built3 =>
              \/ pc[r] \in Built3 /\ voucher'[r] = voucher[r]
              \/ /\ pc[r] = "voucher"
                 /\ voucher'[r].moves = [p \in Pairs |-> StoredQty(Target(r), p)]
    BY CancelSteps
  <1>2. ~IsSubmit(r) /\ Target(r)' = Target(r)
    BY <1>1 DEF IsSubmit, Target
  <1>3. cmd'[r] \in Commands
    BY TypeStep DEF TypeOK, RequestTypeOK, Later
  <1>4. Target(r) \in Docs
    BY <1>1, <1>3, CommandFacts DEF Target
  <1>5. status[Target(r)] # 0
    BY <1>1, <1>2 DEF CancelReads
  <1>6. status'[Target(r)] # 0 /\ body'[Target(r)] = body[Target(r)]
    BY <1>4, <1>5, PostedStays
  <1>7. ASSUME pc'[r] \in Built3 PROVE voucher'[r].moves = body[Target(r)].moves
    <2>1. CASE pc[r] \in Built3 /\ voucher'[r] = voucher[r]
      BY <1>2, <2>1 DEF CancelReads, Built3, Later, Phases
    <2>2. CASE voucher'[r].moves = [p \in Pairs |-> StoredQty(Target(r), p)]
      <3>1. body[Target(r)].moves \in [Pairs -> Int]
        BY <1>4, <1>5 DEF RowsComplete, Bodies
      <3>2. \A p \in Pairs : StoredQty(Target(r), p) = body[Target(r)].moves[p]
        BY <1>4, <1>5, StoredIsPosted
      <3> QED BY <2>2, <3>1, <3>2
    <2> QED BY <1>1, <1>7, <2>1, <2>2
  <1> QED BY <1>2, <1>6, <1>7

\* What a handler holds of allow_negative_stock was stored or is the default.
LEMMA AllowSeenStep ==
    ASSUME TypeOK, AllowSeen, [Next]_vars
    PROVE  AllowSeen'
  <1>1. allowNeg' => TRUE \in AllowChoices
    <2>1. ASSUME NEW b \in AllowChoices, put_company_settings(b) PROVE allowNeg' => TRUE \in AllowChoices
      BY <2>1, AllowAssumption DEF put_company_settings
    <2>2. CASE allowNeg' = allowNeg
      BY <2>2 DEF AllowSeen
    <2> QED
      BY <2>1, <2>2, ZenonT(40) DEF Next, Step, vars, storeVars, Begin, Replay, ReadSettings,
          ReadDocumentSubmit, ReadDocumentCancel, ReadSettled, ReadDeposit,
          ReadApplications, ReadVoucher, ReadStock, CheckStock, ReadInvoice,
          ReadSettlements, InvoicesRead, CommitReplay, CommitStale, CommitConflict,
          CommitApply, Abandon, set_books_lock
  <1> SUFFICES ASSUME NEW r \in Req, seen'[r].allowNeg PROVE TRUE \in AllowChoices
    BY <1>1 DEF AllowSeen
  <1> DEFINE Known == seen'[r] = seen[r] \/ seen'[r].allowNeg \in {FALSE, allowNeg}
  <1>2. DOMAIN seen = Req
    BY DEF TypeOK, RequestTypeOK
  <1>3. ASSUME NEW s \in Req, NEW w, Answer(s, w) PROVE Known
    BY <1>2, <1>3 DEF Answer
  <1>4. ASSUME NEW s \in Req, Rebuild(s) PROVE Known
    BY <1>2, <1>4 DEF Rebuild
  <1>5. ASSUME NEW s \in Req, NEW phase, Proceed(s, phase) PROVE Known
    BY <1>5 DEF Proceed, Local
  <1>6. ASSUME NEW s \in Req, ReadSettings(s) PROVE Known
    <2>1. CASE \E w : Answer(s, w)
      BY <1>3, <2>1
    <2>2. CASE ~(\E w : Answer(s, w))
      <3>1. seen' = [seen EXCEPT ![s] = [lock |-> lock, allowNeg |-> allowNeg]]
        BY <1>6, <2>2, Zenon DEF ReadSettings
      <3> QED BY <1>2, <3>1
    <2> QED BY <2>1, <2>2
  <1>7. ASSUME NEW s \in Req, ReadDocumentCancel(s) PROVE Known
    <2>1. CASE \E w : Answer(s, w)
      BY <1>3, <2>1
    <2>2. CASE ~(\E w : Answer(s, w))
      BY <1>7, <2>2 DEF ReadDocumentCancel, CancelBeyondLock
    <2> QED BY <2>1, <2>2
  <1>8. ASSUME NEW s \in Req,
               \/ Replay(s) \/ ReadDocumentSubmit(s) \/ ReadSettled(s) \/ ReadDeposit(s)
               \/ ReadApplications(s) \/ CheckStock(s) \/ InvoicesRead(s)
        PROVE  Known
    BY <1>3, <1>5, <1>8 DEF Replay, ReadDocumentSubmit, ReadSettled, ReadDeposit,
        ReadApplications, CheckStock, InvoicesRead
  <1>9. ASSUME NEW s \in Req, ReadVoucher(s) \/ (\E p \in Pairs : ReadStock(s, p)) PROVE Known
    BY <1>9 DEF ReadVoucher, ReadStock
  <1>10. ASSUME NEW s \in Req, NEW i \in Docs, ReadInvoice(s, i) \/ ReadSettlements(s, i)
         PROVE  Known
    BY <1>3, <1>10 DEF ReadInvoice, ReadSettlements
  <1>11. ASSUME NEW s \in Req, CommitReplay(s) \/ CommitStale(s) \/ CommitConflict(s)
                   \/ CommitApply(s) \/ Abandon(s)
         PROVE  Known
    BY <1>3, <1>4, <1>11 DEF CommitReplay, CommitStale, CommitConflict, CommitApply, Abandon
  <1>12. ASSUME \/ \E s \in Req, c \in Commands : Begin(s, c)
                \/ \E l \in Locks : set_books_lock(l)
                \/ \E b \in AllowChoices : put_company_settings(b)
                \/ UNCHANGED vars
         PROVE  Known
    <2>1. seen' = seen
      BY <1>12 DEF Begin, Local, set_books_lock, put_company_settings, requestVars, vars
    <2> QED BY <2>1
  <1>13. Known
    BY <1>6, <1>7, <1>8, <1>9, <1>10, <1>11, <1>12 DEF Next, Step
  <1> QED BY <1>13 DEF AllowSeen

\* The strengthening holds in every reachable state.
LEMMA RefinementInvariant == Spec => []RefinementInv
  <1>1. Init => RefinementInv
    <2> SUFFICES ASSUME Init PROVE RefinementInv
      OBVIOUS
    <2>1. PairsRead /\ CancelReads
      BY DEF Init, PairsRead, CancelReads, Later
    <2>2. RowsPosted
      <3> SUFFICES ASSUME NEW p \in Pairs
                   PROVE  /\ 1..Len(ledger[p]) = {}
                          /\ \A d \in Docs : status[d] = 0
        BY DEF RowsPosted
      <3> QED BY DEF Init
    <2>3. AllowSeen
      BY DEF Init, AllowSeen
    <2> QED BY <2>1, <2>2, <2>3 DEF RefinementInv
  <1>2. TypeOK /\ RowsComplete /\ RefinementInv /\ [Next]_vars => RefinementInv'
    BY PairsReadStep, RowsPostedStep, CancelReadsStep, AllowSeenStep DEF RefinementInv
  <1> QED BY <1>1, <1>2, TypeCorrect, RowsCompleteInvariant, PTL DEF Spec

-----------------------------------------------------------------------------
(* Every step is a step of the official books.                             *)

\* What moves, as the official books put it.
StockMoves(r) == [p \in Pairs |-> NewQty(r, p)]

\* A commit moves stock as a posting at that moment does.
LEMMA CommitMoves ==
    ASSUME TypeOK, StockInv, RefinementInv, NEW r \in Req, CommitApply(r)
    PROVE  Books!Move(Target(r), ~IsSubmit(r), StockMoves(r), OfflineSubmit(r))
  <1>1. ledger' = [p \in Pairs |->
                     IF StockMoves(r)[p] = 0 THEN ledger[p]
                     ELSE Append(ledger[p], [doc |-> Target(r), rev |-> ~IsSubmit(r),
                                             qty |-> StockMoves(r)[p]])]
    <2>1. ledger' = [p \in Pairs |-> ledger'[p]]
      BY DEF CommitApply, WriteStock
    <2>2. \A p \in Pairs : ledger'[p] = IF StockMoves(r)[p] = 0 THEN ledger[p]
                     ELSE Append(ledger[p], [doc |-> Target(r), rev |-> ~IsSubmit(r),
                                             qty |-> StockMoves(r)[p]])
      BY CommittedRows DEF RefinementInv, NewRow, StockMoves
    <2> QED BY <2>1, <2>2
  <1>2. bins' = [p \in Pairs |-> compute_balance(ledger'[p])]
    <2>1. bins' = [p \in Pairs |-> bins'[p]]
      BY DEF CommitApply, WriteStock
    <2>2. \A p \in Pairs : bins'[p] = compute_balance(ledger'[p])
      BY CommittedBins DEF StockInv, BinsMatchLedger
    <2> QED BY <2>1, <2>2
  <1>3. ASSUME NEW p \in Pairs, StockMoves(r)[p] # 0, bins'[p] < 0
        PROVE  OfflineSubmit(r) \/ TRUE \in AllowChoices
    <2>1. pc[r] = "commit" /\ DOMAIN led[r] = MovedPairs(r) /\ ~Short(r)
      BY DEF CommitApply, RefinementInv, PairsRead, StockInv, StockChecked
    <2>2. p \in DOMAIN led[r]
      BY <1>3, <2>1 DEF StockMoves, MovedPairs
    <2>3. bins'[p] = compute_balance(Built(r, p))
      BY <2>2, CommittedBins DEF StockInv
    <2>4. seen[r].allowNeg \/ OfflineSubmit(r)
      BY <1>3, <2>1, <2>2, <2>3 DEF Short, OfflineSubmit
    <2> QED BY <2>4 DEF RefinementInv, AllowSeen
  <1> QED BY <1>1, <1>2, <1>3 DEF Books!Move

\* A submit that commits is a submit of the official books.
LEMMA SubmitRefines ==
    ASSUME TypeOK, StockInv, RefinementInv, NEW r \in Req, CommitApply(r), IsSubmit(r)
    PROVE  /\ cmd[r].body \in {c.body : c \in {e \in Commands : e.kind = "submit"}}
           /\ Books!Submit(Target(r), cmd[r].body)
  <1> DEFINE d == Target(r)
             b == cmd[r].body
             n == IF b.offline THEN Receipt[d] ELSE series[Doctype[d]] + 1
  <1>1. cmd[r] \in Commands /\ d \in Docs /\ status[d] = 0 /\ b \in Bodies
    BY CommitFacts
  <1>2. b \in {c.body : c \in {e \in Commands : e.kind = "submit"}}
    BY <1>1 DEF IsSubmit
  <1>3. b.date > lock
    <2>1. ~(b.date <= lock)
      BY DEF CommitApply, Stale, LockStale, lock_violation, PostingDate
    <2>2. b.date \in Nat /\ lock \in Nat
      BY <1>1 DEF Bodies, TypeOK, StoreTypeOK
    <2> QED BY <2>1, <2>2
  <1>4. NextNumber(r) = n
    BY DEF NextNumber
  <1>5. \A e \in Docs : Doctype[e] = Doctype[d] => number[e] # n
    BY <1>4 DEF CommitApply, IndexClash, SameDoctype
  <1>6. /\ status' = [status EXCEPT ![d] = 1]
        /\ number' = [number EXCEPT ![d] = n]
        /\ body' = [body EXCEPT ![d] = b]
        /\ series' = IF b.offline THEN series ELSE [series EXCEPT ![Doctype[d]] = @ + 1]
        /\ lock' = lock
    BY <1>4 DEF CommitApply, WriteDocument, ConsumesNumber
  <1>7. StockMoves(r) = b.moves
    BY <1>1 DEF StockMoves, NewQty, Bodies
  <1>8. Books!Move(d, FALSE, b.moves, b.offline)
    <2>1. Books!Move(d, ~IsSubmit(r), StockMoves(r), OfflineSubmit(r))
      BY CommitMoves
    <2>2. b.offline \in BOOLEAN
      BY <1>1 DEF Bodies
    <2>3. OfflineSubmit(r) = b.offline /\ (~IsSubmit(r)) = FALSE
      BY <2>2 DEF OfflineSubmit
    <2> QED BY <1>7, <2>1, <2>3
  <1> QED BY <1>1, <1>2, <1>3, <1>5, <1>6, <1>8 DEF Books!Submit

\* A cancel that commits is a cancel of the official books.
LEMMA CancelRefines ==
    ASSUME TypeOK, RowsComplete, StockInv, RefinementInv, NEW r \in Req, CommitApply(r),
           ~IsSubmit(r)
    PROVE  Books!Cancel(Target(r))
  <1> DEFINE d == Target(r)
  <1>1. d \in Docs /\ status[d] = 1 /\ body[d] \in Bodies
    BY CommitFacts DEF RowsComplete
  <1>2. body[d].date > lock
    <2>1. ~(body[d].date <= lock)
      BY DEF CommitApply, Stale, LockStale, lock_violation, PostingDate
    <2>2. body[d].date \in Nat /\ lock \in Nat
      BY <1>1 DEF Bodies, TypeOK, StoreTypeOK
    <2> QED BY <2>1, <2>2
  <1>3. /\ status' = [status EXCEPT ![d] = 2]
        /\ number' = [number EXCEPT ![d] = number[d]]
        /\ body' = body /\ series' = series /\ lock' = lock
    BY DEF CommitApply, WriteDocument, ConsumesNumber, NextNumber
  <1>4. number' = number
    BY <1>1, <1>3 DEF TypeOK, StoreTypeOK
  <1>5. voucher[r].moves = body[d].moves
    BY DEF CommitApply, RefinementInv, CancelReads, Built3, Later, Phases
  <1>6. StockMoves(r) = [p \in Pairs |-> -body[d].moves[p]]
    BY <1>5 DEF StockMoves, NewQty
  <1>7. Books!Move(d, TRUE, [p \in Pairs |-> -body[d].moves[p]], FALSE)
    <2>1. Books!Move(d, ~IsSubmit(r), StockMoves(r), OfflineSubmit(r))
      BY CommitMoves
    <2>2. OfflineSubmit(r) = FALSE /\ (~IsSubmit(r)) = TRUE
      BY DEF OfflineSubmit
    <2> QED BY <1>6, <2>1, <2>2
  <1> QED BY <1>1, <1>2, <1>3, <1>4, <1>7 DEF Books!Cancel

\* Any step is a step of the official books or leaves them alone.
LEMMA StepRefines ==
    ASSUME TypeOK, RowsComplete, StockInv, RefinementInv, [Next]_vars
    PROVE  [Books!Next]_(Books!bookVars)
  <1>1. ASSUME NEW r \in Req, CommitApply(r) PROVE Books!Next
    <2>1. Target(r) \in Docs
      BY <1>1, CommitFacts
    <2>2. CASE IsSubmit(r)
      BY <1>1, <2>1, <2>2, SubmitRefines DEF Books!Next
    <2>3. CASE ~IsSubmit(r)
      BY <1>1, <2>1, <2>3, CancelRefines DEF Books!Next
    <2> QED BY <2>2, <2>3
  <1>2. ASSUME NEW l \in Locks, set_books_lock(l) PROVE Books!Next
    BY <1>2 DEF set_books_lock, Books!Next, Books!SetLock
  <1>3. CASE (\A r \in Req : ~CommitApply(r)) /\ (\A l \in Locks : ~set_books_lock(l))
    <2>1. UNCHANGED books
      BY <1>3, OnlyCommitsWrite
    <2>2. lock' = lock
      BY <1>3, ZenonT(40) DEF Next, Step, vars, storeVars, Begin, Replay, ReadSettings,
          ReadDocumentSubmit, ReadDocumentCancel, ReadSettled, ReadDeposit,
          ReadApplications, ReadVoucher, ReadStock, CheckStock, ReadInvoice,
          ReadSettlements, InvoicesRead, CommitReplay, CommitStale, CommitConflict,
          Abandon, put_company_settings
    <2> QED BY <2>1, <2>2 DEF books, Books!bookVars
  <1> QED BY <1>1, <1>2, <1>3

\* The posting authority implements the official books: for any number of
\* handlers, documents, pairs and commands, and whatever is read, retried,
\* abandoned or reconfigured in between, each change of the store is one
\* posting that happens at once on the books as they are then
\* (submit_document, cancel_document, posting_commit).
THEOREM Refines == Spec => ImplementsBooks
  <1>1. Init => Books!Init
    BY DEF Init, Books!Init
  <1>2. TypeOK /\ RowsComplete /\ StockInv /\ RefinementInv /\ [Next]_vars
        => [Books!Next]_(Books!bookVars)
    BY StepRefines
  <1> QED
    BY <1>1, <1>2, TypeCorrect, RowsCompleteInvariant, StockInvariant, RefinementInvariant,
       PTL DEF Spec, ImplementsBooks, Books!Spec
=============================================================================
