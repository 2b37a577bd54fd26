-------------------------- MODULE PostingAuthority --------------------------
(***************************************************************************)
(* The posting authority of the team backend: the handlers of              *)
(* submit-document and cancel-document (src/posting/engine.rs) running     *)
(* concurrently over one company's PostgreSQL store (src/store/pg.rs).     *)
(*                                                                         *)
(* A request first BUILDS its commit from a series of awaited reads, each  *)
(* of which sees the store as it is at that moment, and then hands it to   *)
(* posting_commit, one transaction that runs under the company's advisory  *)
(* lock and re-checks some, but not all, of what the build saw.  A Stale   *)
(* answer sends the request back to build again, at most MaxRetries times. *)
(*                                                                         *)
(* Abstractions.  A document stands for its (doctype, id) pair and ids are *)
(* taken to be unique across doctypes.  A voucher has at most one stock    *)
(* line per (item, warehouse) pair; service lines are already dropped.     *)
(* Quantities and money are integers, and only the quantity of a stock row *)
(* is kept: rates, GL legs and the party and tax subledgers are written in *)
(* the same transaction and decide nothing here.  Commands holds the       *)
(* commands that pass the checks that read nothing but the command.        *)
(***************************************************************************)
EXTENDS Integers, Sequences, FiniteSets, Functions

CONSTANTS
    Req,          \* the request handlers that may run at the same time
    Docs,         \* documents, each a (doctype, id)
    Doctype,      \* the doctype of a document
    Receipt,      \* the number an offline till printed: the document's own
                  \* id, or n when that id is spelled like series number n
    Pairs,        \* (item, warehouse) pairs
    Keys,         \* idempotency keys
    NoKey,        \* a command sent without a key
    NoDoc,        \* a payment that applies no deposit
    NoBody,       \* the payload of a document that is not posted
    NoNumber,     \* the number of a document that is not posted
    NoResponse,   \* an idempotency key that holds no response yet
    NoCommand,    \* the command of an idle handler
    Tills,        \* spellings of a till series as sent, "" included
    Trim,         \* a spelling without its surrounding blanks
    Commands,     \* the commands clients send
    Locks,        \* the books-lock dates an owner may set; 0 is no lock
    AllowChoices, \* the values allow_negative_stock may be set to
    MaxRetries    \* MAX_RETRIES

POSTED_DOCTYPES ==
    {"Sales Invoice", "Purchase Invoice", "Purchase Receipt", "Delivery Note",
     "POS Invoice", "Payment Entry", "Stock Entry", "Journal Entry", "Expense",
     "Customer Deposit"}

SETTLEABLE_DOCTYPES == {"Sales Invoice", "Purchase Invoice"}

IsPayment(d) == Doctype[d] = "Payment Entry"

IsDeposit(d) == Doctype[d] = "Customer Deposit"

\* What of a payload the posting decisions depend on.  amount is grand_total,
\* paid_amount or the deposit's amount; moves is the signed stock quantity.
Bodies == [date : Nat \ {0}, moves : [Pairs -> Int], offline : BOOLEAN,
           till : Tills, device : STRING, amount : Int, party : STRING,
           refs : SUBSET [inv : Docs, amt : Int], deposit : Docs \cup {NoDoc}]

ASSUME TillsAssumption ==
    /\ "" \in Tills /\ Trim \in [Tills -> Tills]
    /\ \A t \in Tills : Trim[Trim[t]] = Trim[t]

\* A trimmed string; the empty one stands for None.
as_non_empty(value) == Trim[value]

ASSUME DoctypeAssumption == Doctype \in [Docs -> POSTED_DOCTYPES]

ASSUME ReceiptAssumption ==
    /\ Receipt \in [Docs -> Docs \cup Nat]
    /\ \A d \in Docs : Receipt[d] \in Docs => Receipt[d] = d
    /\ Docs \cap Nat = {} /\ NoNumber \notin Docs \cup Nat

ASSUME CommandsAssumption ==
    /\ NoKey \notin Keys /\ NoDoc \notin Docs /\ NoBody \notin Bodies
    /\ NoCommand \notin Commands
    /\ NoResponse \notin [kind : {"submit", "cancel"}, doc : Docs]
    /\ \A c \in Commands :
          c \in [kind : {"submit"}, doc : Docs, key : Keys \cup {NoKey}, body : Bodies]
             \cup [kind : {"cancel"}, doc : Docs, key : Keys \cup {NoKey}, body : {NoBody}]
    \* validate_offline_fiscal: only a POS sale of a till series is
    \* confirmed offline
    /\ \A c \in Commands : c.kind = "submit" /\ c.body.offline
          => Doctype[c.doc] = "POS Invoice" /\ as_non_empty(c.body.till) # ""
    \* a payload lists finitely many references; validate_c5_document: a
    \* deposit is of more than zero
    /\ \A c \in Commands : c.kind = "submit" => IsFiniteSet(c.body.refs)
    /\ \A c \in Commands : c.kind = "submit" /\ IsDeposit(c.doc) => c.body.amount > 0

ASSUME LocksAssumption == Locks \subseteq Nat /\ 0 \in Locks

ASSUME AllowAssumption == AllowChoices \subseteq BOOLEAN /\ FALSE \in AllowChoices

ASSUME RetriesAssumption == MaxRetries \in Nat \ {0}

VARIABLES
    \* the store
    lock, allowNeg,            \* company_settings
    status, number, body,      \* documents: docstatus (0 = no row), number, payload
    outstanding,               \* documents.payload.outstanding_amount
    series,                    \* numbering_series.next_value
    ledger, bins,              \* stock_ledger_entries and the bins derived from it
    settlements,               \* settlements
    idem,                      \* idempotency_keys
    logged, mirror,            \* ids on the mutation log; the projection it feeds
    \* the request handlers
    pc, cmd, tries,            \* where it is, for which command, stale builds so far
    seen, snapshot, voucher,   \* settings, outstanding and own rows it read
    led, quoted, upd,          \* ledgers, invoices and new outstandings by key
    answer                     \* what the last command was told

storeVars == <<lock, allowNeg, status, number, body, outstanding, series,
               ledger, bins, settlements, idem, logged, mirror>>
requestVars == <<pc, cmd, tries, seen, snapshot, voucher, led, quoted, upd, answer>>
vars == <<storeVars, requestVars>>

-----------------------------------------------------------------------------
(* Derived quantities.                                                     *)

\* Quantity on hand after replaying a pair's ledger rows.
compute_balance(rows) == SumFunction([i \in DOMAIN rows |-> rows[i].qty])

\* Net amount of a set of settlement rows or references.
Allocated(rows) == SumFunction([s \in rows |-> s.amt])

\* Net amount of the settlement rows stored against an invoice.
Settled(inv) == Allocated({s \in settlements : s.inv = inv})

\* The submitted payments that apply a deposit, and what they apply of it.
deposit_applications(dep) ==
    {d \in Docs : IsPayment(d) /\ status[d] = 1 /\ body[d].deposit = dep}

Applied(dep) ==
    SumFunction([d \in deposit_applications(dep) |-> body[d].amount])

\* The original (non-reversal) rows of a payment.
StoredSettlements(d) == {s \in settlements : s.pay = d /\ ~s.rev}

\* The original (non-reversal) quantity a voucher moved on a pair; 0 if none.
StoredQty(d, p) ==
    IF \E i \in DOMAIN ledger[p] : ledger[p][i].doc = d /\ ~ledger[p][i].rev
    THEN LET i == CHOOSE i \in DOMAIN ledger[p] :
                      ledger[p][i].doc = d /\ ~ledger[p][i].rev
         IN  ledger[p][i].qty
    ELSE 0

\* A handler that has read no voucher rows.
NoVoucher == [moves |-> [p \in Pairs |-> 0], settled |-> {}]

-----------------------------------------------------------------------------
(* What a request intends to write.                                        *)

IsSubmit(r) == cmd[r].kind = "submit"

Target(r) == cmd[r].doc

\* The stock movement of request r on pair p: a submit's own line, or the
\* stored row of the cancelled voucher negated.
NewQty(r, p) ==
    IF IsSubmit(r) THEN cmd[r].body.moves[p] ELSE -voucher[r].moves[p]

MovedPairs(r) == {p \in Pairs : NewQty(r, p) # 0}

\* The pair's ledger as the build sees it once its own row is appended.
Built(r, p) ==
    Append(led[r][p], [doc |-> Target(r), rev |-> ~IsSubmit(r), qty |-> NewQty(r, p)])

\* The settlement rows of a payment, or the reversals of the stored ones.
NewSettlements(r) ==
    IF ~IsPayment(Target(r)) THEN {}
    ELSE IF IsSubmit(r)
    THEN {[pay |-> Target(r), inv |-> f.inv, rev |-> FALSE, amt |-> f.amt] :
             f \in cmd[r].body.refs}
    ELSE {[pay |-> s.pay, inv |-> s.inv, rev |-> TRUE, amt |-> -s.amt] :
             s \in voucher[r].settled}

Invoices(r) == {s.inv : s \in NewSettlements(r)}

NewAllocation(r, inv) == Allocated({s \in NewSettlements(r) : s.inv = inv})

\* The posting date the period lock is compared with.
PostingDate(r) == IF IsSubmit(r) THEN cmd[r].body.date ELSE body[Target(r)].date

lock_violation(date, l) == date <= l

\* The deposit request r must not over-apply (submit) or orphan (cancel).
AppliesDeposit(r) ==
    IsSubmit(r) /\ IsPayment(Target(r)) /\ cmd[r].body.deposit # NoDoc

ReleasesDeposit(r) == ~IsSubmit(r) /\ IsDeposit(Target(r))

DepositUsable(dep) == IsDeposit(dep) /\ status[dep] = 1

\* Apply arm of deposit_guard_violation once the deposit is known submitted.
ApplicationFits(r) ==
    LET dep == cmd[r].body.deposit
    IN  /\ cmd[r].body.party = body[dep].party
        /\ cmd[r].body.amount <= body[dep].amount - Applied(dep)

\* Mutant: a deposit's applications are not counted when another is made.
OverApplyMutant(r) ==
    \/ AppliesDeposit(r) /\ ~DepositUsable(cmd[r].body.deposit)
    \/ ReleasesDeposit(r) /\ deposit_applications(Target(r)) # {}

\* Mutant: only the applying side is guarded.
OrphanMutant(r) ==
    AppliesDeposit(r) /\ ~(DepositUsable(cmd[r].body.deposit) /\ ApplicationFits(r))

deposit_guard_violation(r) ==
    \/ AppliesDeposit(r) /\ ~(DepositUsable(cmd[r].body.deposit) /\ ApplicationFits(r))
    \/ ReleasesDeposit(r) /\ deposit_applications(Target(r)) # {}

-----------------------------------------------------------------------------
(* Moving a request along.                                                 *)

Local == <<tries, seen, snapshot, voucher, led, quoted, upd>>

Goto(r, phase) == pc' = [pc EXCEPT ![r] = phase]

\* The handler returns: its locals are gone.
Answer(r, what) ==
    /\ pc' = [pc EXCEPT ![r] = "idle"]
    /\ answer' = [answer EXCEPT ![r] = what]
    /\ cmd' = [cmd EXCEPT ![r] = NoCommand]
    /\ tries' = [tries EXCEPT ![r] = 0]
    /\ seen' = [seen EXCEPT ![r] = [lock |-> 0, allowNeg |-> FALSE]]
    /\ snapshot' = [snapshot EXCEPT ![r] = 0]
    /\ voucher' = [voucher EXCEPT ![r] = NoVoucher]
    /\ led' = [led EXCEPT ![r] = <<>>]
    /\ quoted' = [quoted EXCEPT ![r] = {}]
    /\ upd' = [upd EXCEPT ![r] = <<>>]

\* Mutant: a stale build is retried without counting.
RebuildMutant(r) ==
    /\ pc' = [pc EXCEPT ![r] = "settings"]
    /\ led' = [led EXCEPT ![r] = <<>>]
    /\ quoted' = [quoted EXCEPT ![r] = {}]
    /\ upd' = [upd EXCEPT ![r] = <<>>]
    /\ UNCHANGED <<cmd, answer, tries, seen, snapshot, voucher>>

\* The build starts over with nothing cached.
Rebuild(r) ==
    /\ pc' = [pc EXCEPT ![r] = "settings"]
    /\ tries' = [tries EXCEPT ![r] = @ + 1]
    /\ seen' = [seen EXCEPT ![r] = [lock |-> 0, allowNeg |-> FALSE]]
    /\ snapshot' = [snapshot EXCEPT ![r] = 0]
    /\ voucher' = [voucher EXCEPT ![r] = NoVoucher]
    /\ led' = [led EXCEPT ![r] = <<>>]
    /\ quoted' = [quoted EXCEPT ![r] = {}]
    /\ upd' = [upd EXCEPT ![r] = <<>>]
    /\ UNCHANGED <<cmd, answer>>

\* Locals other than the named phase stay as they are.
Proceed(r, phase) == Goto(r, phase) /\ UNCHANGED <<cmd, answer, Local>>

\* The answer to a key that already holds a response (bound_replay).
bound_replay(r) ==
    IF idem[cmd[r].key].doc = Target(r) THEN "replayed" ELSE "conflict"

-----------------------------------------------------------------------------
(* Building the commit: one action per awaited read.                       *)

\* A client sends a command; commands without a key skip the replay lookup.
Begin(r, c) ==
    /\ pc[r] = "idle"
    /\ pc' = [pc EXCEPT ![r] = IF c.key = NoKey THEN "settings" ELSE "replay"]
    /\ cmd' = [cmd EXCEPT ![r] = c]
    /\ answer' = [answer EXCEPT ![r] = "none"]
    /\ UNCHANGED <<storeVars, Local>>

Replay(r) ==
    /\ pc[r] = "replay"
    /\ \/ /\ idem[cmd[r].key] # NoResponse
          /\ Answer(r, bound_replay(r))
       \/ /\ idem[cmd[r].key] = NoResponse
          /\ Proceed(r, "settings")
    /\ UNCHANGED storeVars

\* company_settings; a submit's date is checked at once, a cancel's later.
ReadSettings(r) ==
    /\ pc[r] = "settings"
    /\ \/ /\ IsSubmit(r) /\ lock_violation(cmd[r].body.date, lock)
          /\ Answer(r, "refused")
       \/ /\ ~(IsSubmit(r) /\ lock_violation(cmd[r].body.date, lock))
          /\ seen' = [seen EXCEPT ![r] = [lock |-> lock, allowNeg |-> allowNeg]]
          /\ Goto(r, "document")
          /\ UNCHANGED <<cmd, answer, tries, snapshot, voucher, led, quoted, upd>>
    /\ UNCHANGED storeVars

\* posted_document on a submit: the id must be free.
ReadDocumentSubmit(r) ==
    /\ pc[r] = "document" /\ IsSubmit(r)
    /\ \/ /\ status[Target(r)] # 0
          /\ Answer(r, "conflict")
       \/ /\ status[Target(r)] = 0
          /\ Proceed(r, IF AppliesDeposit(r) THEN "deposit" ELSE "stock")
    /\ UNCHANGED storeVars

\* The cancelled document's own date against the settings read earlier.
CancelBeyondLock(r, next) ==
    \/ /\ lock_violation(body[Target(r)].date, seen[r].lock)
       /\ Answer(r, "refused")
    \/ /\ ~lock_violation(body[Target(r)].date, seen[r].lock)
       /\ Goto(r, next)
       /\ snapshot' = [snapshot EXCEPT ![r] = outstanding[Target(r)]]
       /\ UNCHANGED <<cmd, answer, tries, seen, voucher, led, quoted, upd>>

\* posted_document on a cancel: the document is cloned, payload included,
\* and that clone is what the commit will write back.
ReadDocumentCancel(r) ==
    /\ pc[r] = "document" /\ ~IsSubmit(r)
    /\ \/ /\ status[Target(r)] = 0
          /\ Answer(r, "notfound")
       \/ /\ status[Target(r)] = 2
          /\ Answer(r, "conflict")
       \/ /\ status[Target(r)] = 1
          /\ Doctype[Target(r)] \in SETTLEABLE_DOCTYPES
          /\ Goto(r, "settled")
          /\ snapshot' = [snapshot EXCEPT ![r] = outstanding[Target(r)]]
          /\ UNCHANGED <<cmd, answer, tries, seen, voucher, led, quoted, upd>>
       \/ /\ status[Target(r)] = 1
          /\ Doctype[Target(r)] \notin SETTLEABLE_DOCTYPES
          /\ CancelBeyondLock(r, IF ReleasesDeposit(r) THEN "applied" ELSE "voucher")
    /\ UNCHANGED storeVars

\* Mutant: only a fully paid invoice is protected from cancellation.
HasPaymentsMutant(r) == outstanding[Target(r)] = 0

HasPayments(r) == Settled(Target(r)) # 0

\* settlements_for_invoice: an invoice with live payments is not cancelled.
ReadSettled(r) ==
    /\ pc[r] = "settled"
    /\ \/ /\ HasPayments(r)
          /\ Answer(r, "conflict")
       \/ /\ ~HasPayments(r)
          /\ lock_violation(body[Target(r)].date, seen[r].lock)
          /\ Answer(r, "refused")
       \/ /\ ~HasPayments(r)
          /\ ~lock_violation(body[Target(r)].date, seen[r].lock)
          /\ Proceed(r, "voucher")
    /\ UNCHANGED storeVars

\* deposit_application: the deposit a payment names.
ReadDeposit(r) ==
    /\ pc[r] = "deposit"
    /\ \/ /\ ~DepositUsable(cmd[r].body.deposit)
          /\ Answer(r, "refused")
       \/ /\ DepositUsable(cmd[r].body.deposit)
          /\ Proceed(r, "applied")
    /\ UNCHANGED storeVars

\* deposit_applications, then the guard over what was read.
ReadApplications(r) ==
    /\ pc[r] = "applied"
    /\ \/ /\ IsSubmit(r) /\ ~ApplicationFits(r)
          /\ Answer(r, "refused")
       \/ /\ ~IsSubmit(r) /\ deposit_applications(Target(r)) # {}
          /\ Answer(r, "conflict")
       \/ /\ IF IsSubmit(r) THEN ApplicationFits(r)
                            ELSE deposit_applications(Target(r)) = {}
          /\ Proceed(r, IF IsSubmit(r) THEN "stock" ELSE "voucher")
    /\ UNCHANGED storeVars

\* sles_for_voucher and settlements_for_payment: the original rows a cancel
\* will negate.  The rows of a posted voucher never change, so the reads
\* are one step.
ReadVoucher(r) ==
    /\ pc[r] = "voucher"
    /\ voucher' = [voucher EXCEPT ![r] =
                      [moves |-> [p \in Pairs |-> StoredQty(Target(r), p)],
                       settled |-> StoredSettlements(Target(r))]]
    /\ Goto(r, "stock")
    /\ UNCHANGED <<storeVars, cmd, answer, tries, seen, snapshot, led, quoted, upd>>

\* sles_for_pair, once per pair on first touch (Ledgers::prior_for).
ReadStock(r, p) ==
    /\ pc[r] = "stock"
    /\ p \in MovedPairs(r) \ DOMAIN led[r]
    /\ led' = [led EXCEPT ![r] =
                  [q \in DOMAIN led[r] \cup {p} |->
                      IF q = p THEN ledger[p] ELSE led[r][q]]]
    /\ UNCHANGED <<storeVars, pc, cmd, answer, tries, seen, snapshot, voucher,
                   quoted, upd>>

\* check_negative_stock over the built ledgers; offline sales only report.
Short(r) ==
    /\ ~seen[r].allowNeg
    /\ ~(IsSubmit(r) /\ cmd[r].body.offline)
    /\ \E p \in DOMAIN led[r] : compute_balance(Built(r, p)) < 0

\* validate_payment_submit.
ValidPayment(r) ==
    LET refs == cmd[r].body.refs
    IN  /\ cmd[r].body.amount > 0
        /\ \A f \in refs : Doctype[f.inv] \in SETTLEABLE_DOCTYPES /\ f.amt >= 0
        /\ Allocated(refs) <= cmd[r].body.amount

CheckStock(r) ==
    /\ pc[r] = "stock"
    /\ DOMAIN led[r] = MovedPairs(r)
    /\ LET refuse == Short(r) \/ (IsPayment(Target(r)) /\ IsSubmit(r) /\ ~ValidPayment(r))
       IN  \/ refuse /\ Answer(r, "refused")
           \/ ~refuse /\ Proceed(r, IF IsPayment(Target(r)) THEN "invoices" ELSE "commit")
    /\ UNCHANGED storeVars

\* payment_outstanding_updates, first read: the invoice must be submitted.
ReadInvoice(r, i) ==
    /\ pc[r] = "invoices"
    /\ i \in Invoices(r) \ quoted[r]
    /\ \/ /\ status[i] # 1
          /\ Answer(r, "refused")
       \/ /\ status[i] = 1
          /\ quoted' = [quoted EXCEPT ![r] = @ \cup {i}]
          /\ UNCHANGED <<pc, cmd, answer, tries, seen, snapshot, voucher, led, upd>>
    /\ UNCHANGED storeVars

\* A submit may not allocate more than the current outstanding.
OverAllocated(r, i) ==
    IsSubmit(r) /\ NewAllocation(r, i) > body[i].amount - Settled(i)

\* Mutant: the settlements already stored are forgotten.
OutstandingAfterMutant(r, i) == body[i].amount - NewAllocation(r, i)

OutstandingAfter(r, i) == body[i].amount - Settled(i) - NewAllocation(r, i)

\* Second read: its stored settlements, from which the build computes the
\* outstanding amount the commit will set.
ReadSettlements(r, i) ==
    /\ pc[r] = "invoices"
    /\ i \in quoted[r] \ DOMAIN upd[r]
    /\ \/ /\ OverAllocated(r, i)
          /\ Answer(r, "refused")
       \/ /\ ~OverAllocated(r, i)
          /\ upd' = [upd EXCEPT ![r] =
                        [j \in DOMAIN upd[r] \cup {i} |->
                            IF j = i THEN OutstandingAfter(r, i) ELSE upd[r][j]]]
          /\ UNCHANGED <<pc, cmd, answer, tries, seen, snapshot, voucher, led, quoted>>
    /\ UNCHANGED storeVars

InvoicesRead(r) ==
    /\ pc[r] = "invoices"
    /\ DOMAIN upd[r] = Invoices(r)
    /\ Proceed(r, "commit")
    /\ UNCHANGED storeVars

-----------------------------------------------------------------------------
(* posting_commit: one transaction under the company's advisory lock.      *)

\* Mutant: the key is looked up before the build only.
KeyUsedMutant(r) == FALSE

KeyUsed(r) == cmd[r].key # NoKey /\ idem[cmd[r].key] # NoResponse

LockStale(r) == lock_violation(PostingDate(r), lock)

\* Mutant: no expectations are passed to the commit.
LedgerStaleMutant(r) == FALSE

\* The optimistic stock-ledger expectations: a row count per pair read.
LedgerStale(r) == \E p \in DOMAIN led[r] : Len(ledger[p]) # Len(led[r][p])

Stale(r) == LockStale(r) \/ deposit_guard_violation(r) \/ LedgerStale(r)

DocumentClash(r) == status[Target(r)] # IF IsSubmit(r) THEN 0 ELSE 1

OfflineSubmit(r) == IsSubmit(r) /\ cmd[r].body.offline

SameDoctype(d) == {e \in Docs : Doctype[e] = Doctype[d]}

\* preassigned_number: a receipt number already used by the doctype.
ReceiptTaken(r) ==
    OfflineSubmit(r) /\ \E e \in SameDoctype(Target(r)) : number[e] = Receipt[Target(r)]

\* Mutant: the till binding is not checked.
TillBoundElsewhereMutant(r) == FALSE

\* till_binding: the till series already used from another device.  The
\* trimmed series is looked for among the spellings the payloads keep.
TillBoundElsewhere(r) ==
    /\ OfflineSubmit(r) /\ as_non_empty(cmd[r].body.till) # ""
    /\ \E e \in SameDoctype(Target(r)) :
          /\ status[e] # 0 /\ body[e].offline
          /\ body[e].till = as_non_empty(cmd[r].body.till)
          /\ body[e].device # cmd[r].body.device

Clash(r) == DocumentClash(r) \/ ReceiptTaken(r) \/ TillBoundElsewhere(r)

\* The number the document gets: a cancel keeps the one it has.
NextNumber(r) ==
    IF ~IsSubmit(r) THEN number[Target(r)]
    ELSE IF cmd[r].body.offline THEN Receipt[Target(r)]
    ELSE series[Doctype[Target(r)]] + 1

\* The unique index on (company, doctype, official_number): a series number
\* that a till receipt already carries aborts the transaction.
IndexClash(r) ==
    /\ IsSubmit(r)
    /\ \E e \in SameDoctype(Target(r)) : number[e] = NextNumber(r)

CommitReplay(r) ==
    /\ pc[r] = "commit" /\ KeyUsed(r)
    /\ Answer(r, bound_replay(r))
    /\ UNCHANGED storeVars

AttemptsLeft(r) == tries[r] + 1 < MaxRetries

CommitStale(r) ==
    /\ pc[r] = "commit" /\ ~KeyUsed(r) /\ Stale(r)
    /\ \/ AttemptsLeft(r) /\ Rebuild(r)
       \/ ~AttemptsLeft(r) /\ Answer(r, "conflict")
    /\ UNCHANGED storeVars

CommitConflict(r) ==
    /\ pc[r] = "commit" /\ ~KeyUsed(r) /\ ~Stale(r)
    /\ \/ Clash(r) /\ Answer(r, "conflict")
       \/ ~Clash(r) /\ IndexClash(r) /\ Answer(r, "error")
    /\ UNCHANGED storeVars

\* Mutant: a cancel takes a number as well.
ConsumesNumberMutant(r) == ~OfflineSubmit(r)

\* A cancel and an offline sale take no series number (series_key is None).
ConsumesNumber(r) == IsSubmit(r) /\ ~cmd[r].body.offline

\* documents and numbering_series.
WriteDocument(r) ==
    LET d == Target(r)
    IN  /\ status' = [status EXCEPT ![d] = IF IsSubmit(r) THEN 1 ELSE 2]
        /\ number' = [number EXCEPT ![d] = NextNumber(r)]
        /\ body' = IF IsSubmit(r) THEN [body EXCEPT ![d] = cmd[r].body] ELSE body
        /\ series' = IF ConsumesNumber(r)
                     THEN [series EXCEPT ![Doctype[d]] = @ + 1] ELSE series

\* A new invoice owes its total; a cancel writes back the payload it cloned.
OwnOutstanding(r) ==
    IF ~IsSubmit(r) THEN snapshot[r]
    ELSE IF Doctype[Target(r)] \in SETTLEABLE_DOCTYPES THEN cmd[r].body.amount ELSE 0

WriteOutstanding(r) ==
    outstanding' = [i \in Docs |->
                       IF i \in DOMAIN upd[r] THEN upd[r][i]
                       ELSE IF i = Target(r) THEN OwnOutstanding(r)
                       ELSE outstanding[i]]

\* stock_ledger_entries are appended; bins are set to what the build computed.
WriteStock(r) ==
    /\ ledger' = [p \in Pairs |->
                     IF p \in DOMAIN led[r]
                     THEN Append(ledger[p], [doc |-> Target(r), rev |-> ~IsSubmit(r),
                                             qty |-> NewQty(r, p)])
                     ELSE ledger[p]]
    /\ bins' = [p \in Pairs |->
                   IF p \in DOMAIN led[r] THEN compute_balance(Built(r, p)) ELSE bins[p]]

\* Mutant: the reversal suffix is missing from the document's mutation id.
DocMutationMutant(r) == <<Target(r), "doc", Target(r), FALSE>>

DocMutation(r) == <<Target(r), "doc", Target(r), ~IsSubmit(r)>>

OutstandingMutation(r, i) == <<Target(r), "outstanding", i, ~IsSubmit(r)>>

\* replication_mutations + append_mutations: one mutation for the document
\* and one per maintained invoice, skipped when its id is already logged.
WriteLog(r) ==
    /\ logged' = logged \cup {DocMutation(r)}
                        \cup {OutstandingMutation(r, i) : i \in DOMAIN upd[r]}
    /\ mirror' = [d \in Docs |->
          IF d \in DOMAIN upd[r] /\ OutstandingMutation(r, d) \notin logged
          THEN [status |-> status[d], outstanding |-> upd[r][d]]
          ELSE IF d = Target(r) /\ DocMutation(r) \notin logged
          THEN [status |-> IF IsSubmit(r) THEN 1 ELSE 2, outstanding |-> OwnOutstanding(r)]
          ELSE mirror[d]]

WriteKey(r) ==
    idem' = IF cmd[r].key = NoKey THEN idem
            ELSE [idem EXCEPT ![cmd[r].key] = [kind |-> cmd[r].kind, doc |-> Target(r)]]

CommitApply(r) ==
    /\ pc[r] = "commit"
    /\ ~KeyUsed(r) /\ ~Stale(r) /\ ~Clash(r) /\ ~IndexClash(r)
    /\ WriteDocument(r)
    /\ WriteOutstanding(r)
    /\ WriteStock(r)
    /\ settlements' = settlements \cup NewSettlements(r)
    /\ WriteLog(r)
    /\ WriteKey(r)
    /\ Answer(r, "applied")
    /\ UNCHANGED <<lock, allowNeg>>

-----------------------------------------------------------------------------
(* The rest of the world.                                                  *)

\* The connection drops (or the process dies) at an await: the handler's
\* future is gone and the transaction, if one was open, rolls back.
Abandon(r) ==
    /\ pc[r] # "idle"
    /\ Answer(r, "none")
    /\ UNCHANGED storeVars

\* set_books_lock, which takes the same advisory lock as posting_commit.
set_books_lock(l) ==
    /\ l # lock
    /\ lock' = l
    /\ UNCHANGED <<allowNeg, status, number, body, outstanding, series, ledger, bins,
                   settlements, idem, logged, mirror, requestVars>>

\* PUT settings, which keeps the stored lock.
put_company_settings(b) ==
    /\ b # allowNeg
    /\ allowNeg' = b
    /\ UNCHANGED <<lock, status, number, body, outstanding, series, ledger, bins,
                   settlements, idem, logged, mirror, requestVars>>

-----------------------------------------------------------------------------
Init ==
    /\ lock = 0 /\ allowNeg = FALSE
    /\ status = [d \in Docs |-> 0]
    /\ number = [d \in Docs |-> NoNumber]
    /\ body = [d \in Docs |-> NoBody]
    /\ outstanding = [d \in Docs |-> 0]
    /\ series = [t \in POSTED_DOCTYPES |-> 0]
    /\ ledger = [p \in Pairs |-> <<>>]
    /\ bins = [p \in Pairs |-> compute_balance(<<>>)]
    /\ settlements = {}
    /\ idem = [k \in Keys |-> NoResponse]
    /\ logged = {}
    /\ mirror = [d \in Docs |-> [status |-> 0, outstanding |-> 0]]
    /\ pc = [r \in Req |-> "idle"]
    /\ cmd = [r \in Req |-> NoCommand]
    /\ tries = [r \in Req |-> 0]
    /\ seen = [r \in Req |-> [lock |-> 0, allowNeg |-> FALSE]]
    /\ snapshot = [r \in Req |-> 0]
    /\ voucher = [r \in Req |-> NoVoucher]
    /\ led = [r \in Req |-> <<>>]
    /\ quoted = [r \in Req |-> {}]
    /\ upd = [r \in Req |-> <<>>]
    /\ answer = [r \in Req |-> "none"]

\* One step of a running handler.
Step(r) ==
    \/ Replay(r)
    \/ ReadSettings(r)
    \/ ReadDocumentSubmit(r)
    \/ ReadDocumentCancel(r)
    \/ ReadSettled(r)
    \/ ReadDeposit(r)
    \/ ReadApplications(r)
    \/ ReadVoucher(r)
    \/ \E p \in Pairs : ReadStock(r, p)
    \/ CheckStock(r)
    \/ \E i \in Docs : ReadInvoice(r, i)
    \/ \E i \in Docs : ReadSettlements(r, i)
    \/ InvoicesRead(r)
    \/ CommitReplay(r)
    \/ CommitStale(r)
    \/ CommitConflict(r)
    \/ CommitApply(r)

Next ==
    \/ \E r \in Req, c \in Commands : Begin(r, c)
    \/ \E r \in Req : Step(r)
    \/ \E r \in Req : Abandon(r)
    \/ \E l \in Locks : set_books_lock(l)
    \/ \E b \in AllowChoices : put_company_settings(b)

Spec == Init /\ [][Next]_vars

\* A running handler keeps being polled and its store calls return; nothing
\* is assumed about when clients send, disconnect or change settings.
FairSpec == Spec /\ \A r \in Req : WF_vars(Step(r))

-----------------------------------------------------------------------------
(* What makes the authority correct.                                       *)

\* A stock ledger row: its voucher, whether it reverses, the quantity change.
RowType == [doc : Docs, rev : BOOLEAN, qty : Int]

Phases == {"idle", "replay", "settings", "document", "settled", "deposit",
           "applied", "voucher", "stock", "invoices", "commit"}

SettlementType == [pay : Docs, inv : Docs, rev : BOOLEAN, amt : Int]

StoreTypeOK ==
    /\ lock \in Nat /\ allowNeg \in BOOLEAN
    /\ status \in [Docs -> 0..2]
    /\ number \in [Docs -> Docs \cup Nat \cup {NoNumber}]
    /\ body \in [Docs -> Bodies \cup {NoBody}]
    /\ DOMAIN outstanding = Docs /\ DOMAIN bins = Pairs
    /\ series \in [POSTED_DOCTYPES -> Nat]
    /\ ledger \in [Pairs -> Seq(RowType)]
    /\ settlements \subseteq SettlementType
    /\ idem \in [Keys -> [kind : {"submit", "cancel"}, doc : Docs] \cup {NoResponse}]

RequestTypeOK ==
    /\ pc \in [Req -> Phases]
    /\ cmd \in [Req -> Commands \cup {NoCommand}]
    /\ \A r \in Req : pc[r] # "idle" => cmd[r] \in Commands
    /\ tries \in [Req -> 0..(MaxRetries - 1)]
    /\ seen \in [Req -> [lock : Nat, allowNeg : BOOLEAN]]
    /\ voucher \in [Req -> [moves : [Pairs -> Int], settled : SUBSET SettlementType]]
    /\ DOMAIN led = Req
    /\ \A r \in Req : /\ DOMAIN led[r] \subseteq Pairs
                      /\ \A p \in DOMAIN led[r] : led[r][p] \in Seq(RowType)
    /\ quoted \in [Req -> SUBSET Docs]

\* Type invariant.  Amounts computed by summing (bins, outstanding, the
\* updates of a build) are left untyped beyond their domains.
TypeOK == StoreTypeOK /\ RequestTypeOK

\* The stored balance of every pair is the balance of its whole ledger, even
\* though a commit writes the balance its build computed from an earlier read
\* of the ledger and never looks at the stored bin (recompute_bins, the
\* expectation counts of posting_commit).
BinsMatchLedger == \A p \in Pairs : bins[p] = compute_balance(ledger[p])

\* Stock goes below zero only by a posting that was built while negative
\* stock was allowed or that confirms an offline till sale: two requests that
\* each saw enough stock never oversell together (check_negative_stock).
StockLicensed ==
    [][\A p \in Pairs :
          ledger'[p] # ledger[p] /\ compute_balance(ledger'[p]) < 0
          => \E r \in Req : /\ pc[r] = "commit" /\ pc'[r] = "idle"
                            /\ seen[r].allowNeg \/ OfflineSubmit(r)]_vars

\* Series numbers have no gap: every number up to the counter is carried by a
\* posted document of the doctype (gap-free allocation in posting_commit).
NumbersGapFree ==
    \A t \in POSTED_DOCTYPES : \A n \in 1..series[t] :
        \E d \in Docs : Doctype[d] = t /\ number[d] = n

\* No two documents of a doctype carry the same official number, the receipts
\* printed by offline tills included.
NumbersUnique ==
    \A d, e \in Docs :
        /\ Doctype[d] = Doctype[e] /\ number[d] # NoNumber /\ number[d] = number[e]
        => d = e

\* The official numbers of a doctype are exactly what was issued, once each:
\* concurrent commits, stale retries, cancels and receipts printed off line
\* neither repeat a number nor leave one out (posting_commit).
NumberingExact == NumbersGapFree /\ NumbersUnique

\* One device per till receipt series, of the sales whose payload spells the
\* series without surrounding blanks, however they are mixed with sales that
\* do not (till_binding).  A series stored with blanks binds nobody: the
\* commit looks for the trimmed spelling.
TillSingleDevice ==
    \A d, e \in Docs :
        /\ status[d] # 0 /\ status[e] # 0 /\ body[d].offline /\ body[e].offline
        /\ body[d].till = body[e].till /\ as_non_empty(body[d].till) = body[d].till
        => body[d].device = body[e].device

\* Nothing is submitted or cancelled in a period that is locked at the moment
\* it commits, even when the lock moved after the request checked it.
LockRespected ==
    [][\A d \in Docs : status'[d] # status[d] => body'[d].date > lock]_vars

\* The submitted payments applying a deposit never exceed it, although each
\* was checked against applications read earlier (DepositGuard::Apply).
DepositsCovered ==
    \A d \in Docs :
        IsDeposit(d) /\ status[d] # 0 => Applied(d) <= body[d].amount

\* A submitted payment never points at a deposit that is not submitted
\* (DepositGuard::Apply against a concurrent DepositGuard::Release).
NoOrphanApplication ==
    \A d \in Docs :
        /\ IsPayment(d) /\ status[d] = 1 /\ body[d].deposit # NoDoc
        => DepositUsable(body[d].deposit)

\* What devices receive agrees with the official documents after every commit:
\* the projection of the log shows each document's docstatus and outstanding.
ReplicaAgrees ==
    \A d \in Docs : status[d] # 0 =>
        mirror[d] = [status |-> status[d], outstanding |-> outstanding[d]]

\* The response stored under an idempotency key is never replaced: two
\* requests that both found the key unused do not both commit under it.
KeyAnsweredOnce ==
    [][\A k \in Keys : idem[k] # NoResponse => idem'[k] = idem[k]]_vars

\* The settlements of a submitted invoice never exceed its total
\* (payment_outstanding_updates: "a payment can never drive an invoice's
\* outstanding negative").
NeverOverSettled ==
    \A i \in Docs :
        Doctype[i] \in SETTLEABLE_DOCTYPES /\ status[i] = 1 => Settled(i) <= body[i].amount

\* The maintained outstanding_amount of a submitted invoice is its total less
\* the settlements stored against it.
OutstandingExact ==
    \A i \in Docs :
        Doctype[i] \in SETTLEABLE_DOCTYPES /\ status[i] = 1
        => outstanding[i] = body[i].amount - Settled(i)

\* A cancelled invoice has no live settlement against it (build_cancel).
CancelledUnsettled ==
    \A i \in Docs :
        Doctype[i] \in SETTLEABLE_DOCTYPES /\ status[i] = 2 => Settled(i) = 0

\* Every request is answered: retries cannot go on for ever, whatever the
\* other requests, the lock and the settings do meanwhile (MAX_RETRIES).
EveryRequestAnswered == \A r \in Req : pc[r] # "idle" ~> pc[r] = "idle"

=============================================================================
