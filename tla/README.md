# Verification of the Atlas team backend

TLA+ models of the Neuradix Atlas team backend (`src/`, Rust, Axum over
PostgreSQL), TLC configurations that check them on small instances, and TLAPS
proofs, for instances of any size, of their most important invariants and of
the refinement of an atomic specification by the posting authority.
`PROJECT.json` lists the runs, the source lines each definition models, the
hazards and the theorems.

## The system

A company's data lives on devices (a Flutter client, not in this repository)
and on this server. Everything the server keeps is in PostgreSQL; a request is
an async handler that awaits one store call after another, and most handlers
hold no transaction around them. A client that disconnects drops its handler
at an await. So what can go wrong lies **between** the store calls, and there
the models are fine-grained: one action is one store call.

| Component | State | Operations | Interacts with | What makes it correct |
|---|---|---|---|---|
| Posting authority (`posting/engine.rs`, `posting_commit` in `store/pg.rs`) | documents, stock ledger and bins, numbering series, idempotency keys, till bindings | submit, cancel: build from reads, commit under an advisory lock, retry on Stale | writes the log and projection, reads settings | no overselling by two builds, bins equal their ledgers, numbers gap-free and unique, a key answered once, nothing posted in a locked period |
| Settlements (`engine.rs`, `values.rs`) | settlements, `outstanding_amount` of invoices | allocate, reverse | posting authority, Stripe webhook | an invoice is never settled beyond its total, or cancelled while settled; its outstanding is exact |
| Replication log (`append_mutations`, `history.rs`, `sync_*` in `api.rs`) | mutations by version, hash chain, counter, lost numbers | push, pull, checkpoint, lost-history report | postings append to it, devices follow it, backup and restore rewind it | a device let through holds the server's history; lost numbers are not given to other documents; devices catch up |
| Push guard (`authority.rs`, `sync_push`) | none of its own | refuses client writes to official documents | reads postings, then appends | posted documents are immutable on the sync plane |
| Projection (`projection.rs`) | `company_documents` | fold of each logged mutation | read by portal, pay plane, engine | agrees with the official documents |
| Identity (`auth.rs`, `api.rs`) | memberships, invitations, user tokens, devices | invite, accept, register, revoke, rotate, remove, change role | every other handler authorizes through it | an owner remains, an invitation joins no more often than acceptances of it were cut off or overlap, rotation loses no session, devices end with membership |
| Stock costing and GL (`posting/stock.rs`, `values.rs`, `engine.rs`) | GL, party, tax and stock rows, bins | every row a submit or a cancel derives | computed by the builds of the posting authority | inventory, control and VAT accounts agree with their subledgers; base currency balances; FIFO and average costs are right; a cancel leaves nothing |
| Settings and books lock (`api.rs`, `store/pg.rs`) | `company_settings` | put settings, compare-and-set of the lock | read by builds, re-read by commits | no commit in a locked period; the lock moves only knowingly and is reopened only by owner or admin |
| Solo take-on (`posting/solo_migration.rs`) | `solo_migrations`, the opening's rows, number floors | import once; a cancel may reverse it | commits beside submits under the same advisory lock, reads the lock | comes first, once, in an open period; reconciles; the caller is told the truth; numbering goes on |
| Rate limiter (`limit.rs`) | token buckets per (class, client) | check | in front of the unauthenticated routes | never more than the budget in any window; an honest Retry-After |
| Portal (`portal.rs`) | portal links | accept, reject a quotation | reads the projection, pushes to the log | a quotation is never accepted and rejected at once, and the portal turns a decision round at most once |
| Pay links and Stripe (`pay.rs`) | pay links, webhook inbox | mint, revoke, webhook | posts through the engine | a charge is booked once and, once its day is open, finally answered |
| Blobs, audit, protocol gate, pages | | | | see "Not modelled" |

The hard behaviours are: optimistic commits that re-check some of what they
read; check-then-write handlers without a transaction; retries under
idempotency keys; at-least-once webhooks; restores from a backup that devices
have outrun; server versions with and without the hash chain on the same log;
and handlers cut off half way. `PROJECT.json` lists each as a hazard at the
line where it bites.

## Modules

| Module | Models |
|---|---|
| `PostingAuthority` | submit and cancel handlers over the store |
| `OfficialBooks` | what the posting authority promises: submits, cancels and lock changes that happen at once |
| `PostingRefinement` | the mapping under which `PostingAuthority` implements `OfficialBooks` |
| `StockCosting` | balances, moving average, FIFO layers (pure operators on ledgers) |
| `Ledger` | the rows a submit or a cancel derives and what they leave in the books |
| `SyncLog` | the mutation log, its chain, pushes, pulls, backup, restore, recovery |
| `Identity` | members, invitations, tokens, devices |
| `Settings` | settings and books lock, one action per store call |
| `TakeOn` | the Solo take-on, composed with `Settings` and with ordinary submits |
| `Payments` | a pay link, the Stripe webhook, the webhook inbox |
| `Portal` | customer links and decisions on a quotation beside device edits |
| `RateLimiter` | the token buckets, with time |
| `MC*` | the documents, commands, edits and amounts of the small instances |
| `*Proofs` | theorems: `PostingAuthority` with its refinement, `TakeOn`, `SyncLog`, `Identity`; `Payments`, `Portal` and `RateLimiter` together in `PublicPlaneProofs`; `Ledger` in `LedgerProofs` and, for stock and costs, `StockProofs` |
| `SumTheorems` | what the proofs need to know of sums over finite sets |

**PostingAuthority.** A request is a record of arrays indexed by handler: `pc`
names the next store call, the others are the locals of `build_submit` and
`build_cancel`. `Begin` takes a command. `Replay`, `ReadSettings`,
`ReadDocumentSubmit`/`Cancel`, `ReadSettled`, `ReadDeposit`,
`ReadApplications`, `ReadVoucher`, `ReadStock`, `CheckStock`, `ReadInvoice`,
`ReadSettlements` and `InvoicesRead` are the awaited reads in the order of the
code. `posting_commit` is one transaction under the company's advisory lock
and so one step, with four outcomes in the code's order: the key is used
(`CommitReplay`), something moved (`CommitStale`, back to the build or 409
after `MaxRetries`), the document, receipt or till clashes (`CommitConflict`),
or everything is written (`CommitApply`). `set_books_lock` and
`put_company_settings` move the settings at any moment, `Abandon` cuts a
request off. GL, tax and party rows, rates and rounding are in `Ledger`. Ids are taken
to be unique across doctypes, a voucher has at most one stock line per (item,
warehouse), and only offline sales carry a till device. `Tills` are the
spellings of till series and `Trim` what `as_non_empty` makes of one: the
binding a build asks for is trimmed, the stored payload is not, and the commit
compares the first with the second.

**OfficialBooks, PostingRefinement.** The abstract books have `Submit`,
`Cancel` and `SetLock`, each one step that looks at the books as they are and
writes all its effects on documents, numbers, stock ledger and bins. The
mapping is the identity on the store's variables (`OnHand` is
`compute_balance`); requests, retries, keys and settlements are hidden.
Settlements are left out on purpose: they are not serialised (finding 1).

**StockCosting, Ledger.** `build_submit` and `build_cancel` of one document
are one step each, since `PostingAuthority` has their interleavings: resolve
accounts, validate, derive the monetary legs, subledger rows and base amounts,
derive and cost the stock rows against the simulated ledgers
(`cost_stock_movements`, with `return_cost` and `SpreadProduction`), add the
stock legs, split GRNI, check balance, group accounts and stock, recompute the
bins, and write; a cancel mirrors the stored rows. The amounts of a payload
are whole cents and its quantities whole units; prices, rates and what is made
of them are exact fractions of a cent, with `round2` where the code rounds (a
line's amount, the moving average, the value of a bin); what the model does not
have is the error of a double. Fractions are in lowest terms
(`Denominator`) and what the code computes in a loop is a `Fold` over the
prefixes of a sequence, so that both can be reasoned about. Cost centres, due
dates and names are left out.

The code posts to whatever account a document or an item names, so the
comparisons of `Ledger` are stated for documents that keep the compared
accounts apart (`SeparateAccounts`): receivable, payable, VAT, GRNI and the
inventory accounts serve no second purpose. `Attributed` adds that the party of
a receivable or payable is named, `ReceivesItsGoods` and `ValueNeutral` exclude
the cases listed under Findings. `CostsExact` leaves out an issue of a
production from its own output, which is costed before the output has its price
(`TakesItsOutput`), and a return of a sale with one item on two lines, of which
`return_cost` finds the first (`SellsGoods`).

**Settings, TakeOn.** A handler is `Begin`, one action per store call, and
`Abandon` at any await. `put_settings` is `ReadSettings` and
`put_company_settings`; `set_books_lock` is `LockBooks` (role, advisory lock,
read, compare) and `WriteLock` (write-back of all settings, commit). A take-on
is `ReadMigrationKey`, `build` (every check of the package, `Valid`),
`CommitReplayed` or `posting_commit`; `Submit` is the commit of an ordinary
document and `CancelOpening` the cancellation of the opening Journal Entry,
which `build_cancel` allows like any other: its rows are reversed and the
migration's mark and key stay. Packages are equal when their SHA-256 is; amounts are whole cents,
so the tolerance of half a cent is equality; masters are constant.

**RateLimiter.** `Arrive` picks the key and reads the clock, `Take` is the
body of `check` under the mutex, `Pass` the disabled class. The code reads the
clock *before* it locks, so requests may reach a bucket in the other order and
a bucket's `updated` moves back; the model has this. A token is `Minute` parts
and a budget of n refills n parts a tick, so everything is whole. `Watch` is a
history variable that starts to follow one key at any moment.

**SyncLog.** `append_mutations` holds the counter row from its first read, so
an append is one step for a posting (`Post`) and is split, for a push, into
the check, the lock, one step per row and the commit. `last_version` is
`Len(log)`. SHA-256 is injective: a chain value *is* the records it covers.
`chained` says whether the server that commits knows the chain, which models
rolling between versions. `Restore` puts the newest dump back. A device pulls
pages, keeps a checkpoint, has it confirmed (`CheckHistory`) before it syncs,
and after a divergence reports the official records it alone has
(`ReportLost`, whose answer may be lost and the report repeated) and starts
over. The device's part is taken from `history.rs`, `sync_pull` and
`docs/OPERATIONS.md`. One doctype and series stand for all.

**Identity.** A handler authenticates (`Begin`), reads its role (`Authorize`)
and then makes its store calls one by one; `Disconnect` ends it between two.
A user is their e-mail address; the six roles no rule mentions are `member`.
A token does not expire during the rotation that issued it.

**Payments.** One invoice, one link, the provider, and handlers that go
through `CheckBacklog`, `LogEvent`, `ResolveLink`, `ReadInvoice`,
`CheckReplay`, `EngineReplay`, `EngineBuild`, `EngineCommit`, `Tell`. Only
verified, well-formed events of the link arrive. The engine's build is one
step here, and the payments and cancellations of other clients are atomic;
`PostingAuthority` takes both apart. The books lock moves at any moment
(`set_books_lock`); the build compares the date of the event with it and the
commit compares again, up to `MAX_RETRIES` times (`Stale`).

**Portal.** `quote_action` in its steps `resolve_link`, `ReadQuotation`,
`PushDecision`, `Tell`, against devices that `Pull` a copy and `Edit` it later.
A mutation replaces the whole payload (`fold_mutation`), and the log ignores
an id it has (`Known`). Of the payload the customer and the two decision fields
are kept (`decided`), and edits of a device may give the quotation to another
customer.

## Runs

Twelve configurations; "pass" means TLC finishes without an error, "violation"
that it finds the counterexample a finding describes. Every property of a
passing run has a mutant of the code that breaks it.

| Run | Shows |
|---|---|
| `posting_stock` | two concurrent handlers, one unit of stock, repeated and reused keys, cancels, a lock that comes and goes, an offline receipt spelled like a series number, a till series on two devices spelled with and without blanks: `ImplementsBooks`, `NumberingExact`, `KeyAnsweredOnce`, `StockLicensed`, `TillSingleDevice` |
| `posting_guards` | a deposit of 2 applied by payments of 2 and 1 and cancelled, a moving lock, two handlers: `DepositsCovered`, `NoOrphanApplication`, `EveryRequestAnswered` |
| `posting_settlement` | one handler, an invoice of 2 paid by 2 and by 1, cancelled in every order, with the stock policy changing: `OutstandingExact`, `CancelledUnsettled`, `ReplicaAgrees` |
| `over_settlement` | violation: with two handlers `NeverOverSettled` fails |
| `ledger` | eight small companies, every order of submitting and cancelling their documents (every doctype, FIFO and average items, boxes and units, prices in fractions of a cent, returns, transfers, productions, counts, foreign currency, VAT, oversales): `StockReconciles`, `SubledgersAgree`, `BaseLedgerBalances`, `CostsExact`, `VoucherNetsOut` |
| `company` | two handlers with settings, lock changes by several roles and take-ons (the same and another package under one migration id, a repeated pair, a later date) beside submits and the cancellation of the opening: `OpeningComesFirst`, `AnsweredIsHeld`, `OpeningCarriedOver`, `OpeningInOpenPeriod`, `LockMovedKnowingly`, `SettingLostOnlyByRace` |
| `rate_limiter` | two requests at a time, budgets of one and three a minute and a disabled class, three minutes: `AdmittedWithinBudget`, `RetryAfterHonest` |
| `sync_log` | postings, a push, a backup, a restore, recovery: `ChainExact`, `BookIsServerHistory`, `LostNumbersRetired`, `DevicesCatchUp` |
| `sync_push_race` | violation: `PostedImmutable` fails between check and append |
| `identity` | every sequence of membership operations, cut short between any two store calls except in a removal: `OwnerRemains`, `DevicesEndWithMembership`, `JoinsBounded`, `SessionKept`, `OwnersGoFreely` |
| `payments` | repeated, concurrent, cut-off deliveries under a moving books lock: `ChargeBookedOnce`, `InboxBounded`, `PaidRejectionHonest`, `EveryChargeAnswered` |
| `portal` | two handlers, two devices that push old copies and move the quotation between two customers: `OneDecision`, `OverruledOnce` |

**Bounds, and why they are enough.** Every race the code can have in the
commit protocol is between one request and "the others", so two handlers show
it; commands repeat without limit. One unit of stock makes any second issue a
shortfall; a deposit of 2 with applications of 2 and 1 distinguishes
exhausting from exceeding; `Locks = {0, 1}` is a date inside and outside the
lock. `MaxRetries = 2` stands for 16: one retry and the exhausted case. In
`SyncLog`, `MaxLog = 3` with one backup and `MaxRestores = 1` lets the log
outgrow a device's cursor after the restore, and `PageSize = 1` makes every
row a page boundary. `Identity` has two users, one invitation, three tokens
and one device; the passing run has one handler, because two handlers break
`OwnerRemains` (see below). `Disconnects` leaves out removals there (see
below), and `MaxCuts = 1` lets one acceptance be cut off between joining and
marking the invitation, so that it joins twice. `Payments` has one event for the whole invoice, another client paying
half, two handlers, an inbox of two rows, two faults (a cut-off handler or a
delivery after a 2xx), and a lock that covers the event's day or does not. `SYMMETRY` on request handlers is used only in runs
without liveness. Deadlock is not checked in `identity` (all bounded counters
used up and no member left to act), `payments` (everything answered and the
link ended) and `ledger` (every document cancelled), where the system may
really stop.

In `ledger` a company has four to seven documents and each is submitted and
cancelled at most once, so every order of them is explored; the receipts have
different costs (one not a whole number of cents a unit, one bill with lines
worth 21/2 and 5/4 cents), so an exchanged
layer, an average for a FIFO rate or a lost rounding shows, and each refusal
(unbalanced, group account, wrong total, short stock) has a document. In
`company` the lock has the values none, 1 and 2, so it can be set, moved back
and cleared; packages are dated inside and after it; with `MaxDocs = 2` an
ordinary document comes before or after the opening, and the opening may be
cancelled once. In `rate_limiter` a
minute has two ticks and six ticks pass, so the sweep interval ends with time
left to use a bucket that came back; a budget of one leaves half a token,
where rounding of Retry-After shows.

**Fairness.** A handler that is running is polled and its store calls return:
weak fairness of `Step` in `PostingAuthority` and `Payments`. In `SyncLog` a
device that is on keeps syncing although appends interrupt it (strong fairness
of `DeviceStep`) and an open transaction ends (weak fairness of `EndPush`).
In `Payments` the provider retries what was not answered 2xx (strong fairness
of `Deliver`) and the operator prunes a full inbox, as the comment on
`check_webhook_backlog` assumes (weak fairness of `Prune`). Nothing is assumed
about clients, settings, restores or reports.

## Findings

Each is a violation run; the quoted text is in `PROJECT.json`.

1. *Over-settlement* (`pg.rs:1564`). The commit re-checks stock, lock and
   deposits but not settlements, so two payments built against the same
   outstanding both commit.
2. *Edit after posting* (`api.rs:844`). `sync_push` checks and appends in
   separate transactions.

Known from checks that are not runs of their own. Races:

- `CancelledUnsettled` fails with two handlers: the settlement check of
  `build_cancel` is not repeated in the commit (`pg.rs:1592`), and a payment
  in between leaves a cancelled invoice with a live settlement.
- `OutstandingExact` fails with two handlers, by the lost update behind 1.
- `LostNumbersNeverReissued` fails with three documents: a lost document that
  was submitted again under another number before the report sets no floor
  for its first number (`history.rs:124`).
- `OwnerRemains` fails with two handlers: owners are counted in one statement
  and removed or demoted in a later one (`api.rs:722`).
- `OwnersGoFreely` fails with two handlers: a member who was made an owner
  after a removal read their role is removed by somebody else.
- An invitation joins again when its acceptance was cut off between joining and
  marking it (`api.rs:462-469`), or overlapped another, and the user was
  removed in between; `JoinsBounded` says how often.
- `DevicesEndWithMembership` fails when a removal is cut off before the
  devices are revoked, or races a registration.
- `put_settings` loses concurrent updates of other fields, and
  `set_books_lock` writes back fields that `put_settings` replaced after it
  read them, since only one of the two takes the advisory lock.
- Without its premises `EveryChargeAnswered` fails. With two events the lost
  update leaves the stored outstanding above what is left, every redelivery
  then allocates too much, and the 422 is retried for ever (`pay.rs:486` wants
  business rejections answered 200); and a charge dated in a period that was
  locked before its payment was posted is a 422 for as long as the lock stays
  (`engine.rs:413`).
- A redelivery after the link was revoked or expired is answered
  `handled: false` although its payment is posted.
- Two concurrent decisions, or a decision and an old copy pushed by a second
  device, cross (`portal.rs:450` says the opposing verb is a 409): the later
  push overrules the earlier. A decision pushed after a device gave the
  quotation to another customer decides it and moves it back, because the whole
  payload is the one that was read. The portal run states what bounds this. A
  decision wiped by a device's old copy cannot be made again, since its mutation
  id is already on the log, and the answer still says it is decided.
- The limiter reads its clock before the mutex, so a late request moves a
  bucket's clock back and those ticks are refilled twice. The strict budget
  fails by exactly that; `AdmittedWithinBudget` counts the ticks in `rewound`.

Without any race:

- A sale whose payload spells its till series with surrounding blanks is bound
  by the trimmed series (`engine.rs:512`) and stored with the blanks, and the
  commit looks for the trimmed one (`pg.rs:1640`): it binds nobody, and a second
  device may use the series (`pg.rs:1617` says one device per till series).
  `TillSingleDevice` is stated for the spellings without blanks.
- After the opening of a take-on was cancelled, a repeat of the import still
  finds its key and is answered as imported, while the books net to zero
  (`solo_migration.rs:178-195`). `AnsweredIsHeld` says what is then held: the
  opening's rows and their reversal.
- A key used for a submit replays its response to a cancel of the same
  document (`bound_replay`, `engine.rs:316`).
- With negative stock allowed an issue can be costed at a negative rate or at
  zero (`stock.rs:51-54`), and after an oversale or a cancelled receipt
  `remaining_layers` is no longer oldest first, and a pair may keep a value at
  quantity zero. `FifoIsOldestFirst` is stated for ledgers without either.
- A bill that receives its own goods leaves a balance on GRNI when its prices
  include tax or its currency is foreign: stock is valued at the line rate,
  GRNI is debited with the line amount. `GrniClears` excludes both. It also
  leaves the rounding of each line whose quantity times rate is not a whole
  number of cents, since the amount is rounded (`engine.rs:899`) and the stock
  legs are not (`engine.rs:2141`): three at 3.5 cents debit 11 and credit 10.5.
  `GrniClears` says that this, half a cent a line, is all that is left.
- A production whose inputs cost nothing, and a transfer that lacks one of its
  warehouses, changes the stock value without a GL leg (`ValueNeutral`).

## Proofs

All theorems hold for every value of the constants that satisfies the named
`ASSUME`s of the component's module (finite or non-empty sets where a sum or a
choice needs it, positive bounds, distinct null values). They are safety
properties of `Spec`, and each rests on an inductive invariant.

`TakeOnProofs`
- `LockCorrect`: `LockInv` says that a lock change about to be written holds
  the advisory lock, was permitted, and expects the lock as it still is. It is
  inductive because only `WriteLock` moves the lock (`LockSteps`); the role
  was judged by `expected`, which is therefore the lock that moves.
- `OpeningCorrect`, `AnswersCorrect`: `OpeningInv` relates the mark, the first
  document, the stored rows, the keys and the answers; only the commit of a
  take-on writes them, and only into an empty company, and only the
  cancellation of the opening adds to its rows.
- `CarriedOverCorrect`: whatever a package says, `Valid` implies that what is
  written agrees. The ledger, the parties and the bins are the lines collected
  under accounts, parties and pairs, and `SumByKey` says that collecting
  changes no sum; the bins need that no pair is listed twice (`BinIsLine`).
  `CarriedInv` says that a package about to be written passed `build`
  (`Judged`) and that every series stands at the last number given, counted
  from the Solo book's (`SeriesExact`), which gives the numbering.
- `LossCorrect`, `OpenPeriodCorrect`: action properties that need
  no invariant; each variable they speak of is written by one or two steps,
  which compare what was read earlier with what is stored now.

`PublicPlaneProofs`, limiter
- `BudgetKept`, `RetryAfterKept`: the bound is not inductive, since it forgets
  the tokens still in the bucket. `Amortised` bounds what was spent *and* what
  is left by what flowed in until the bucket's clock; a dropped bucket was
  idle for two minutes, of which one refills it and the other covers a request
  that read its clock before (`MaxWait <= Minute`). `Shape` bounds tokens and
  clocks. The sweep, the lookup and the refill are one lemma each (`SweptIs`,
  `FoundIs`, `LeftIs`).

`PostingAuthorityProofs`
- `TypeCorrect`: by cases on the actions; also that a request is built at most
  `MaxRetries` times.
- `NumberingCorrect`: gap-freedom and uniqueness are inductive together with
  `RowsComplete` (a document has a number exactly when it is posted).
- `BinsCorrect`, `StockLicensedCorrect`: the commit compares only *row counts*
  and writes bins it never reads. `LedgersCached` (what a request cached is a
  prefix of the stored ledger) makes equal counts mean equal ledgers
  (`FreshLedgers`), and `StockChecked` carries the shortage check from
  `CheckStock` to the commit (`PastCheckSteps`).
- `LockRespectedCorrect`, `NoOrphanCorrect`, `TillCorrect`,
  `KeyAnsweredOnceCorrect`: from `OnlyCommitsWrite` (every other step leaves
  the store alone) and `CommitFacts` (what the re-checks establish).
- `DepositsCorrect`, for any number of handlers: the guard counts the other
  applications when the commit runs, and what it counts is a sum over the
  posted payments. `DepositInv` adds that finitely many documents are posted
  (`PostedFinite`), that a payment past its checks stays past them
  (`PaymentsChecked`) and that posted payments are of more than zero
  (`PaymentsPositive`).
- `ReplicaCorrect`, for any number of handlers: `RowsInv` relates the
  settlement rows to the postings that wrote them, the rows a cancel holds to
  the stored ones, the invoices a build goes through to the ones its payment
  names, and the log to the postings (`LogBooked`). So the mutation ids of a
  commit are new and none of its mutations is taken for a repeat.
- `LostOutstandingNeedsOverlap`, `CancelledSettledNeedsOverlap`,
  `OverSettlementNeedsOverlap`: the code does not keep requests about payments
  and invoices apart, and `OutstandingExact`, `CancelledUnsettled` and
  `NeverOverSettled` fail when two of them overlap (finding 1). The theorems
  are the contrapositive: a behaviour that violates one of them has a moment at
  which two such requests run (`~SettlementsApart`). Requests about other
  documents, retries, cut-offs, lock and settings changes never suffice. Up to
  such a moment `SettleInv` is inductive: what a build read and computed of an
  invoice is still what is stored when it commits (`BuildExact`,
  `CancelExact`).
- `Refines`: `PostingAuthority` implements `OfficialBooks`. Every step but a
  commit leaves the abstract variables alone; a commit must be the abstract
  posting *at that moment*, although it writes what a build read earlier.
  `RefinementInv` is what a build may still rely on when it commits:
  `PairsRead` (the cached pairs are the moved ones), `RowsPosted` (stored
  stock rows say what their document's payload says), `CancelReads` (the rows
  a cancel mirrors are the payload of a document that was posted) and
  `AllowSeen` (who saw negative stock allowed saw an allowed choice). With
  `FreshLedgers`, which turns equal row counts into equal ledgers,
  `CommitMoves` gives the abstract stock movement, and `SubmitRefines` and
  `CancelRefines` the rest.

`SyncLogProofs`
- `ChainCorrect`: `ChainExact` with the same for the dump (`BackupExact`),
  since a restore brings the dump back; `Linking` and `AppendKeepsChain` are
  the lemmas about `chain_tip` and the append.
- `BookCorrect`: `BookInv` says a synced device follows the log; it needs the
  chain, because only the chain ties a confirmed checkpoint to a prefix.
- `RetiredCorrect`: `RetiredInv` relates each recovery to the series;
  `NumsBounded` gives the maximum that a floor is computed from.
- `TypeCorrect`.

`IdentityProofs`
- `SessionCorrect`: for any number of concurrent handlers. `RotationInv` (a
  rotation about to delete has issued a valid token for the same user) and
  `DeleteInv` exclude that two rotations delete each other's result.
- `JoinsCorrect`, for any number of users and handlers: `JoinsInv` counts, next
  to the acceptances cut off, the handlers that have read the invitation as
  open or have joined and not yet marked it.
- `OwnerLossNeedsOverlap`, `OwnerTakenNeedsOverlap`, `DeviceOutlivesNeedsRace`:
  the code does not prevent that a company loses its last owner, that an owner
  is taken away by somebody else, or that a device outlives a membership; the
  theorems say what each needs. `Apart(ops, others)` is that no handlers of
  these operations overlap. The first two happen only after two removals or
  role changes overlapped, the third only if removals may be cut off or after a
  registration overlapped one; every other overlap and cut-off is harmless.
  `OwnerInv` carries the count of owners to the write (another owner than the
  target is still there), `OwnersGoInv` and `DevicesInv` the role and the
  member that were read.
- `TypeCorrect`.

`PublicPlaneProofs`, payments
- `ChargeBookedOnceCorrect`: `BookInv` says that the id of a booked payment is
  its event and a used key, and that ids are pairwise different; only a commit
  books (`OnlyCommitsBook`), and it does so under a key not used before.
- `PaidRejectionHonestCorrect`: from `BookInv`, since the key is looked up
  after the invoice was read.
- `InboxBoundedCorrect`: the inbox alone is not inductive. `InboxInv` bounds
  the rows together with the handlers that have counted and not yet inserted.

`PublicPlaneProofs`, portal
- `OneDecisionCorrect`, `OverruledOnceCorrect`: `ReadChecked` says a request
  about to push has read an undecided quotation, and `DecisionsLogged` that
  every decision on the quotation or on a copy is on the log; so a request that
  finds the opposite decision in the way, and is not dropped as known, is the
  first to push its own, and the log then has both.

`LedgerProofs`, `StockProofs`

The theorems hold for every company: any documents, lines, items, units,
accounts, taxes and conversion rates of the types that `PayloadsAssumption`
states, any number of them, in every order of submitting and cancelling. Three
layers carry them.

*Arithmetic.* `FracIs` says that `Frac(n, d)` is the quotient in lowest terms,
by a least denominator instead of a greatest common divisor, and from it the
fractions are a field (`PlusAssoc`, `TimesPlus`, `WholeDivided`). `Iterates` and
`SeqInduct`, an induction over sequences by a least counterexample, give what a
`Fold` computes; `FracSumConcat`, `FracSumTimes`, `KeepConcat`, `MirrorSum` and
`SumReplace` are the algebra of sums over rows that are kept, mapped, mirrored
or repriced.

*Rows.* `SettledFields` is what `resolve_account_fallbacks` and `Derived` leave
of a payload. `MonetaryType`, `PartyType`, `TaxRowsAre`, `StockRowsAre`,
`CostRowIs`, `SpreadIs` and `SplitIs` say doctype by doctype which rows a
document derives; `SubmitIs` and `CancelIs` put a step together from them.

*Invariants*, the last two theorems in `StockProofs`.
- `LedgerTyping`: by `TypeSubmit` and `TypeCancel`.
- `CancelledVouchersNetOut`: the property says this of the accounts and pairs
  that occur; `NetInv` says it of every set of accounts, kind and pair, which
  is inductive, since a cancel appends the mirror image of what is stored
  (`UndoneRows`, `OwnUndone`) and no other document writes under its voucher.
- `BaseColumnsBalance`: `check_balanced` gives the sum in transaction currency.
  Stamping multiplies it by the rate (`StampedSums`), the stock legs are
  balanced row by row (`StockSums`), and the GRNI split moves the same amount
  off one leg and onto another, in both currencies (`SplitSum`, with `BillLegs`:
  a bill has exactly one expense leg). `FreshInv` (a draft has no rows) makes
  what a submit writes all there is.
- `SubledgersAlwaysAgree`: `PartyInv` and `TaxInv`, per voucher, from one lemma
  per doctype (`SalesAgrees`, `BillAgrees`, `TillAgrees`, `PaymentAgrees`,
  `ExpenseAgrees`, `DepositAgrees`, `JournalAgrees`). `tax_legs` skips a tax line
  without an account and the tax rows do not: that such a document is refused
  follows from `check_balanced` and the arithmetic of its totals
  (`VoucherTaxAgrees`).
- `StockAlwaysReconciles`: `InvInv` compares the inventory accounts with the
  rows of the voucher. Rows that post carry their value over (`LoudRows`); for
  those that do not, a transfer is a sequence of pairs out and in at one rate
  (`TransferTwins`, `TransferValue`), and a production spreads exactly what it
  consumed (`ProductionValue`). `GrniInv` needs that a line is received at
  what it is worth whatever its unit (`LineValue`), that its amount differs from
  that by half a cent at most and only by rounding (`LineRounding`), and that
  roundings add up (`WithinSum`). `BinInv` needs that the simulated
  ledger, in which the code patches the *last row that looks like* the one it
  priced, has the quantity and the value of the stored rows: there is always a
  row left to patch for each (`Room`, `PatchedSums`), even if it is another.
- `CostsAlwaysExact`: `CostInv` says that every issue stored has the rate
  `issue_rate` gives on the rows of its pair before it; it is inductive because
  rows are only appended (`EarlierKept`) and because costing sees the voucher's
  own earlier rows. FIFO is oldest first because the layers of a regular ledger
  are the units received and not yet issued, in order (`TakeStep`); the residual
  of the average is the rounding of `round2` (`DrainImplies`). For returns,
  `ShapeInv` (a posted voucher has the rows its payload derives) ties the
  return's lines to the sale's rows, `ReturnInv` says that they mirror each
  other, and `CogsInv` that a sale has in cost of goods sold what its rows are
  worth.

`SumTheorems`
- `SumFunctionOnSet` is a recursion over subsets; `SumEquation`, `SumTake`,
  `SumUnion`, `SumSingle` and `SumByKey` are what the other proofs use of it.
  The library's induction theorems cannot be instantiated by the provers, so
  induction is by a least counterexample: a property that fails for some finite
  set fails for a smallest one (`Smallest`, from the well-foundedness of `<`).

Only model-checked: liveness (`EveryRequestAnswered`, `DevicesCatchUp`,
`EveryChargeAnswered`), since the prover has neither fairness nor `ENABLED`;
and, for one handler at a time, `OutstandingExact`, `CancelledUnsettled`,
`OwnerRemains`, `OwnersGoFreely` and `DevicesEndWithMembership`, which the code
does not keep under concurrency and of which the theorems named `Needs...` say
what it takes to violate them. Every other invariant and action property that a
passing run checks is stated by a theorem.

## Not modelled

- The checkpoint that `with_history` adds to a posting's answer: what a device
  does with it is not in this repository.
- `pin_books_lock` (`authority.rs:129`), which sets the books lock in created and
  updated Company rows that carry the field and parse, from a lock read before
  the append, and leaves every other row as it came.
- `check_client_mutation`, the protocol gate and the parsing of signatures and
  bodies: stateless filters whose result is assumed.
- Blobs (written once), the audit log (never read back by an operation),
  `sync_ack` (a flag nobody reads), `last_seen_at`.
- Children rows, deletes and `rebuild_projection` of the projection; the pages
  and exports of the portal and the pay plane, which only read.
- `MemStore` (the test twin, one mutex per call: its interleavings are a subset
  of those modelled), startup, configuration, error mapping, HTML.
- The error of `f64`: costs are exact fractions in `StockCosting`, tokens are
  whole parts in `RateLimiter`. Fractions of a unit, and sent amounts with
  fractions of a cent, in `Ledger`.
- A panic of a handler that holds the limiter's mutex, and waits for it longer
  than a minute.

## Plan

Done: all components above with runs, and proofs of the safety properties.
Left, in this order:

1. `Projection`: children rows, deletes and `rebuild_projection`, as a
   refinement of a fold of the log.
2. `Identity` with one user token bound to several companies.
