------------------------------- MODULE TakeOn -------------------------------
(***************************************************************************)
(* The one-time Solo take-on (import_solo_opening in src/api.rs and        *)
(* src/posting/solo_migration.rs, its commit in src/store/pg.rs), beside   *)
(* ordinary submits, the cancellation of the opening it posts, and the     *)
(* settings requests of module Settings, with which it shares the books    *)
(* lock and the company's advisory lock.                                   *)
(*                                                                         *)
(* A package is what the owner sends: migration id, posting date, opening  *)
(* lines, opening stock, numbering and the totals the Solo book states.    *)
(* Packages are equal when their SHA-256 is.  Amounts are whole cents, so  *)
(* "to the cent" is equality.  The masters published before are constant.  *)
(***************************************************************************)
EXTENDS Settings, Sequences, FiniteSets, SequencesExt

CONSTANTS
    Doctypes,    \* doctypes with a Team numbering series
    Accounts,    \* accounts on the server
    Customers,   \* customers on the server
    Suppliers,   \* suppliers on the server
    StockItems,  \* items on the server that are stock items
    Migrations,  \* migration ids
    NoPackage,   \* nothing is stored, nothing was told
    NoParty,     \* a line without a party
    MaxValue,    \* the largest number a package may continue from
    MaxDocs      \* bound: documents of the company

IsList(s) == Len(s) \in Nat /\ DOMAIN s = 1..Len(s)

\* A package is sent with lists of lines, whose amounts are numbers.
IsPackage(p) ==
    /\ p # NoPackage /\ p.migration \in Migrations
    /\ IsList(p.lines) /\ IsList(p.stock) /\ IsList(p.numbering)
    /\ \A l \in ToSet(p.lines) : l.debit \in Int /\ l.credit \in Int
    /\ \A s \in ToSet(p.stock) : s.value \in Int

\* Masters are finitely many, and a party is a customer or a supplier: in the
\* code party_type goes with the name.
ASSUME TakeOnAssumption ==
    /\ IsFiniteSet(Accounts) /\ IsFiniteSet(Customers) /\ IsFiniteSet(Suppliers)
    /\ Customers \cap Suppliers = {}
    /\ MaxValue \in Nat
    /\ \A c \in Commands : c.kind = "takeon" => IsPackage(c.package)

VARIABLES
    docs,    \* documents, in commit order
    series,  \* numbering_series.next_value
    mark,    \* solo_migrations: the package taken on
    keys,    \* idempotency_keys of migrations: the package answered for
    books,   \* the opening's GL, party and bin rows, reversals included
    cancelled, \* the opening's docstatus is 2
    answer   \* per handler, the package its caller was told is in place

takeOnVars == <<docs, series, mark, keys, books, cancelled, answer>>
vars == <<settingsVars, takeOnVars>>

Pkg(h) == cmd[h].package

-----------------------------------------------------------------------------
(* What a package must satisfy before anything is written (build).         *)

Net(line) == line.debit - line.credit

\* Sum of Of(x) over the elements of a sequence.
Total(seq, Of(_)) == SumFunction([i \in DOMAIN seq |-> Of(seq[i])])

AccountNet(p, a) == Total(p.lines, LAMBDA l : IF l.account = a THEN Net(l) ELSE 0)

StockOn(p, a) == Total(p.stock, LAMBDA s : IF s.account = a THEN s.value ELSE 0)

\* A debit raises what a customer owes, a credit what a supplier is owed.
Receivables(p) == Total(p.lines, LAMBDA l : IF l.party \in Customers THEN Net(l) ELSE 0)

Payables(p) == Total(p.lines, LAMBDA l : IF l.party \in Suppliers THEN -Net(l) ELSE 0)

LinesOK(p) ==
    /\ p.lines # <<>>
    /\ \A l \in ToSet(p.lines) : /\ l.debit >= 0 /\ l.credit >= 0
                                 /\ l.debit = 0 \/ l.credit = 0
                                 /\ l.account \in Accounts
                                 /\ l.party \in Customers \cup Suppliers \cup {NoParty}

check_balanced(p) == Total(p.lines, Net) = 0

Pair(s) == <<s.item, s.warehouse>>

\* Mutant: a pair may be listed twice.
RepeatedPairMutant(p) ==
    \A s \in ToSet(p.stock) : /\ s.account \in Accounts /\ s.item \in StockItems
                              /\ s.qty > 0 /\ s.value >= 0

StockOK(p) ==
    /\ \A s \in ToSet(p.stock) : /\ s.account \in Accounts /\ s.item \in StockItems
                                 /\ s.qty > 0 /\ s.value >= 0
    /\ \A i, j \in DOMAIN p.stock : Pair(p.stock[i]) = Pair(p.stock[j]) => i = j

StockAccounts(p) == {s.account : s \in ToSet(p.stock)}

Reconciles(p) ==
    /\ \A a \in Accounts : AccountNet(p, a) = p.expected.trial_balance[a]
    /\ \A a \in StockAccounts(p) : AccountNet(p, a) = StockOn(p, a)
    /\ Total(p.stock, LAMBDA s : s.value) = p.expected.stock_value
    /\ Receivables(p) = p.expected.receivables
    /\ Payables(p) = p.expected.payables

NumberingOK(p) ==
    /\ \A n \in ToSet(p.numbering) : n.doctype \in Doctypes /\ n.last \in 0..MaxValue
    /\ \A i, j \in DOMAIN p.numbering :
          p.numbering[i].doctype = p.numbering[j].doctype => i = j

Valid(p) ==
    LinesOK(p) /\ check_balanced(p) /\ StockOK(p) /\ Reconciles(p) /\ NumberingOK(p)

-----------------------------------------------------------------------------
(* The handler.                                                            *)

Tell(h, what) == End(h) /\ answer' = [answer EXCEPT ![h] = what]

Proceed(h, where) == pc' = [pc EXCEPT ![h] = where] /\ UNCHANGED <<cmd, seen, answer>>

storeUnchanged ==
    UNCHANGED <<fields, lock, advisory, docs, series, mark, keys, books, cancelled>>

\* Mutant: whatever is stored under the migration id answers the caller.
AnySameMutant(h, stored) == Pkg(h)

\* What a caller is told when its migration id is answered already: success
\* for the same package, a conflict for another one.
same_package(h, stored) == IF stored = Pkg(h) THEN Pkg(h) ELSE NoPackage

\* Authorization, then the lookup of the idempotency key.
ReadMigrationKey(h) ==
    /\ At(h, "start", "takeon")
    /\ LET stored == keys[Pkg(h).migration]
       IN  \/ ~May(h, {"Owner"}) /\ Tell(h, NoPackage)
           \/ /\ May(h, {"Owner"}) /\ stored # NoPackage
              /\ Tell(h, same_package(h, stored))
           \/ May(h, {"Owner"}) /\ stored = NoPackage /\ Proceed(h, "build")
    /\ storeUnchanged

\* The settings and the masters are read and the package is judged.
build(h) ==
    /\ At(h, "build", "takeon")
    /\ LET accepted == Pkg(h).date > lock /\ Valid(Pkg(h))
       IN  \/ ~accepted /\ Tell(h, NoPackage)
           \/ accepted /\ Proceed(h, "write")
    /\ storeUnchanged

-----------------------------------------------------------------------------
(* posting_commit with a take-on, under the advisory lock.                 *)

CommitReplayed(h) ==
    /\ At(h, "write", "takeon") /\ advisory = Nobody
    /\ LET stored == keys[Pkg(h).migration]
       IN  stored # NoPackage /\ Tell(h, same_package(h, stored))
    /\ storeUnchanged

\* Mutant: the lock is judged in the build only.
UnlockedMutant(h) == TRUE

OpenPeriod(h) == Pkg(h).date > lock

\* Mutant: only an earlier take-on refuses another.
NotTakenOnMutant == mark = NoPackage

\* No earlier take-on and no official document.
EmptyCompany == mark = NoPackage /\ docs = <<>>

\* The last numbers of a doctype the Solo book states.
Floors(p, t) == {n.last : n \in {m \in ToSet(p.numbering) : m.doctype = t}}

\* The series continues after the last number the Solo book issued.
Continued(p) == [t \in Doctypes |-> Max({series[t]} \cup Floors(p, t))]

\* Bins are upserted one by one: a pair holds the last line written for it.
OpeningBins(p) ==
    [pair \in {Pair(s) : s \in ToSet(p.stock)} |->
        LET last == p.stock[Max({i \in DOMAIN p.stock : Pair(p.stock[i]) = pair})]
        IN  [qty |-> last.qty, value |-> last.value]]

OpeningRows(p) ==
    [gl |-> [a \in Accounts |-> AccountNet(p, a)],
     party |-> [c \in Customers \cup Suppliers |->
                   Total(p.lines, LAMBDA l : IF l.party # c THEN 0
                                             ELSE IF c \in Customers THEN Net(l) ELSE -Net(l))],
     bins |-> OpeningBins(p)]

\* The opening takes no number of its own.
posting_commit(h) ==
    /\ At(h, "write", "takeon") /\ advisory = Nobody
    /\ keys[Pkg(h).migration] = NoPackage
    /\ \/ /\ ~(OpenPeriod(h) /\ EmptyCompany)
          /\ Tell(h, NoPackage)
          /\ UNCHANGED <<docs, series, mark, keys, books>>
       \/ /\ OpenPeriod(h) /\ EmptyCompany
          /\ docs' = Append(docs, [package |-> Pkg(h)])
          /\ series' = Continued(Pkg(h))
          /\ mark' = Pkg(h)
          /\ keys' = [keys EXCEPT ![Pkg(h).migration] = Pkg(h)]
          /\ books' = OpeningRows(Pkg(h))
          /\ Tell(h, Pkg(h))
    /\ UNCHANGED <<fields, lock, advisory, cancelled>>

\* An ordinary submit commits; PostingAuthority has its steps.
Submit(t, date) ==
    /\ Len(docs) < MaxDocs
    /\ advisory = Nobody
    /\ date > lock
    /\ docs' = Append(docs, [doctype |-> t, number |-> series[t] + 1])
    /\ series' = [series EXCEPT ![t] = @ + 1]
    /\ UNCHANGED <<settingsVars, mark, keys, books, cancelled, answer>>

\* Rows with the reversals that build_cancel mirrors from them (Ledger has
\* how): nothing is left, and the pairs keep their bins.
Reversed(rows) ==
    [gl |-> [a \in Accounts |-> 0],
     party |-> [c \in Customers \cup Suppliers |-> 0],
     bins |-> [pair \in DOMAIN rows.bins |-> [qty |-> 0, value |-> 0]]]

\* cancel-document on the opening, a Journal Entry like another one.  The key,
\* the mark and the document stay, so no other Solo book can follow.
CancelOpening ==
    /\ mark # NoPackage /\ ~cancelled
    /\ advisory = Nobody
    /\ mark.date > lock
    /\ books' = Reversed(books)
    /\ cancelled' = TRUE
    /\ UNCHANGED <<settingsVars, docs, series, mark, keys, answer>>

-----------------------------------------------------------------------------
NoBooks ==
    [gl |-> [a \in Accounts |-> 0], party |-> [c \in Customers \cup Suppliers |-> 0],
     bins |-> <<>>]

Init ==
    /\ SettingsInit
    /\ docs = <<>> /\ series = [t \in Doctypes |-> 0]
    /\ mark = NoPackage /\ keys = [m \in Migrations |-> NoPackage]
    /\ books = NoBooks /\ cancelled = FALSE
    /\ answer = [h \in Handlers |-> NoPackage]

TakeOnStep(h) ==
    ReadMigrationKey(h) \/ build(h) \/ CommitReplayed(h) \/ posting_commit(h)

Next ==
    \/ \E h \in Handlers : SettingsStep(h) /\ UNCHANGED takeOnVars
    \/ \E h \in Handlers : TakeOnStep(h)
    \/ \E t \in Doctypes, date \in 1..(Tomorrow + 1) : Submit(t, date)
    \/ CancelOpening

Spec == Init /\ [][Next]_vars

-----------------------------------------------------------------------------
(* Properties                                                              *)

IsOpening(doc) == "package" \in DOMAIN doc

\* A Solo book is moved only into an empty company, once: the opening is the
\* first document the company ever posted, also when an ordinary submit or
\* another take-on commits after the package was judged.
OpeningComesFirst == \A i \in DOMAIN docs : IsOpening(docs[i]) => i = 1

\* A caller who is told its package is in place has that package posted as the
\* company's opening, also when the same migration id was used with different
\* packages by two requests at the same time, and the books hold its rows and
\* no others of any opening: in full, or, once the opening was cancelled,
\* reversed to the last one.  (Cancelling leaves the key: a retry is still
\* answered with success by same_package.)
AnsweredIsHeld ==
    \A h \in Handlers : answer[h] # NoPackage =>
        /\ docs[1] = [package |-> answer[h]]
        /\ books = IF cancelled THEN Reversed(OpeningRows(answer[h]))
                                 ELSE OpeningRows(answer[h])

SoloLast(t) ==
    IF mark = NoPackage THEN 0 ELSE Max({0} \cup Floors(mark, t))

Numbers(t) == {docs[i].number : i \in {j \in DOMAIN docs : ~IsOpening(docs[j]) /\ docs[j].doctype = t}}

\* Team never reuses a number the Solo book issued, and leaves none out after
\* it: the numbers of a series are those right after the last Solo number.
NumberingContinues ==
    \A t \in Doctypes :
        Numbers(t) = (SoloLast(t) + 1)..(SoloLast(t) + Cardinality(Numbers(t)))

\* The opening is posted in an open period, although the lock may move after
\* the package was judged against it.
OpeningInOpenPeriod == [][mark' # mark => mark'.date > lock]_vars

\* The value of the bins is the balance of the inventory accounts, the party
\* rows are what the Solo book stated, and the ledger balances: what is
\* written agrees, not only what was sent, until the opening is cancelled.
OpeningReconciles ==
    mark # NoPackage /\ ~cancelled =>
        /\ SumFunctionOnSet(books.gl, Accounts) = 0
        /\ SumFunction([x \in DOMAIN books.bins |-> books.bins[x].value])
              = SumFunctionOnSet(books.gl, StockAccounts(mark))
        /\ SumFunctionOnSet(books.party, Customers) = mark.expected.receivables
        /\ SumFunctionOnSet(books.party, Suppliers) = mark.expected.payables

\* The Solo book is carried over whole: the stored opening reconciles and the
\* series go on from it (build, posting_commit).
OpeningCarriedOver == OpeningReconciles /\ NumberingContinues
=============================================================================
