----------------------------- MODULE MCCompany -----------------------------
(***************************************************************************)
(* One new company: two requests at a time change its settings, move its   *)
(* books lock and bring a Solo book, while ordinary documents are          *)
(* submitted and the opening is cancelled.                                 *)
(***************************************************************************)
EXTENDS TakeOn, TLC

CONSTANTS h1, h2

HandlerSymmetry == Permutations(Handlers)

None == [x \in {} |-> Default]

Put(role, patch, l) == [kind |-> "put", role |-> role, patch |-> patch, lock |-> l]

Lock(role, old, new) == [kind |-> "lock", role |-> role, expected |-> old, new |-> new]

SettingsCommands ==
    {Put("Accountant", "costing" :> "fifo", {}), Put("Admin", "stock" :> "any", {0}),
     Put("Member", "stock" :> "any", {}), Put("Owner", "stock" :> "default", {2}),
     Lock("Accountant", 0, 2), Lock("Owner", 2, 1), Lock("Accountant", 1, 0), Lock("Admin", 2, 0)}

-----------------------------------------------------------------------------
(* A Solo book with two customers' debts, a supplier's bill and stock.     *)

Line(a, d, c, p) == [account |-> a, debit |-> d, credit |-> c, party |-> p]

Stock(w, q, v) == [item |-> "nut", warehouse |-> w, qty |-> q, value |-> v, account |-> "stock"]

Book(m) ==
    [migration |-> m, date |-> 1,
     lines |-> <<Line("debtors", 5, 0, "ann"), Line("debtors", 0, 2, "bob"),
                 Line("stock", 4, 0, NoParty), Line("creditors", 0, 3, "sue"),
                 Line("equity", 0, 4, NoParty)>>,
     stock |-> <<Stock("shop", 2, 3), Stock("van", 1, 1)>>,
     numbering |-> <<[doctype |-> "Sales Invoice", last |-> 2]>>,
     expected |-> [trial_balance |-> "debtors" :> 3 @@ "stock" :> 4 @@ "creditors" :> -3
                                     @@ "equity" :> -4,
                   receivables |-> 3, payables |-> 3, stock_value |-> 4]]

\* The same migration id with other stock, dated later.
OtherBook == [Book("m1") EXCEPT !.stock = <<Stock("shop", 4, 4)>>, !.date = 3]

\* A pair listed twice.
RepeatedPair == [Book("m2") EXCEPT !.stock = <<Stock("shop", 2, 3), Stock("shop", 1, 1)>>]

TakeOn(role, p) == [kind |-> "takeon", role |-> role, package |-> p]

CompanyCommands ==
    SettingsCommands \cup
    {TakeOn("Owner", p) : p \in {Book("m1"), OtherBook, RepeatedPair}}
    \cup {TakeOn("Owner", [Book("m2") EXCEPT !.date = 3]), TakeOn("Admin", Book("m1"))}

SoloAccounts == {"debtors", "stock", "creditors", "equity"}
=============================================================================
