------------------------------- MODULE Ledger -------------------------------
(***************************************************************************)
(* What a submitted or cancelled document writes to the ledgers            *)
(* (src/posting/engine.rs): the GL legs, the party and tax subledgers, the *)
(* costed stock ledger rows and the bins.                                  *)
(*                                                                         *)
(* Postings follow one another here: the commit protocol that makes them   *)
(* do so, with numbers, keys, locks and settlements, is PostingAuthority.  *)
(* A posting that is refused changes nothing and is no step.               *)
(*                                                                         *)
(* A GL row carries debit - credit.  Its base column is None where the     *)
(* code leaves it null.  The amounts of a payload are in whole cents, as   *)
(* the tolerances of the code are; rates, and the amounts made of them,    *)
(* are fractions of a cent (see StockCosting).  Account names are strings, *)
(* and the defaults of CompanySettings are "receivable", "payable" and so  *)
(* on.  Doctypes and stock entry types are written without their blanks.   *)
(***************************************************************************)
EXTENDS StockCosting

CONSTANTS
    Vouchers,      \* the payload of each document
    Items,         \* the item registry and the synced Item masters
    GroupAccounts, \* the accounts whose master says is_group
    Companies,     \* [drafts, allow_negative_stock]: the documents on the
                   \* devices of a company, and its stock policy
    None           \* a null or absent field

VARIABLES
    company,            \* one of Companies
    status,             \* "draft", "posted" or "cancelled", by document
    gl,                 \* the GL rows of each document
    party_transactions, \* the party subledger rows of each document
    tax_transactions,   \* the tax subledger rows of each document
    sles,               \* the stock ledger, in the order of seq
    bins                \* the bin of each (item, warehouse) touched so far

vars == <<company, status, gl, party_transactions, tax_transactions, sles, bins>>

Docs == DOMAIN Vouchers

Default(x, d) == IF x = None THEN d ELSE x

Names == STRING \cup {None}

Lines == [item : Names, warehouse : Names, source_warehouse : Names, target_warehouse : Names,
          uom : Names, qty : Int, rate : Fractions, valuation_rate : Fractions \cup {None},
          amount : Int \cup {None}]
TaxLines == [tax_account : Names, taxable_amount : Int, rate : Int, tax_amount : Int,
             tax_type : STRING]
Entries == [account : Names, debit : Int, credit : Int, party_type : Names, party : Names]

Payloads ==
    [doctype : STRING, items : Seq(Lines), taxes : Seq(TaxLines), accounts : Seq(Entries),
     customer : Names, supplier : Names, party : Names, payment_type : Names,
     stock_entry_type : Names, set_warehouse : Names, return_against : Names,
     debit_to : Names, credit_to : Names, income_account : Names, expense_account : Names,
     cash_account : Names, deposit_account : Names, paid_from : Names, paid_to : Names,
     tax_account : Names, total : Int \cup {None}, tax_total : Int \cup {None},
     grand_total : Int \cup {None}, conversion_rate : Fractions \cup {None},
     paid_amount : Int, net_amount : Int, tax_amount : Int, gross_amount : Int \cup {None},
     amount : Int, is_paid : BOOLEAN \cup {None}, prices_include_tax : BOOLEAN,
     update_stock : BOOLEAN, is_return : BOOLEAN, offline_fiscal : BOOLEAN]

ItemRecords ==
    [item_type : STRING, valuation_method : Names, stock_uom : Names,
     uoms : Seq([uom : Names, conversion_factor : Int]), inventory_account : Names,
     cogs_account : Names, stock_adjustment_account : Names]

\* The payloads the model covers: of the types serde reads, with quantities in
\* whole units and amounts in whole cents.
ASSUME PayloadsAssumption ==
    /\ \A d \in Docs : Vouchers[d] \in Payloads
    /\ \A i \in DOMAIN Items : Items[i] \in ItemRecords
    /\ None \notin Fractions /\ None \notin STRING

-----------------------------------------------------------------------------
(* Items                                                                   *)

UnknownItem == [item_type |-> "Stock", valuation_method |-> None, stock_uom |-> None,
                uoms |-> <<>>, inventory_account |-> None, cogs_account |-> None,
                stock_adjustment_account |-> None]

load_items(i) == IF i \in DOMAIN Items THEN Items[i] ELSE UnknownItem

is_stock_item_type(i) == load_items(i).item_type # "Service"

\* How many stock units one unit of the line's UOM is.
uom_factor(i, uom) ==
    LET item == load_items(i)
        rows == {k \in DOMAIN item.uoms : /\ item.uoms[k].uom = uom
                                          /\ item.uoms[k].conversion_factor > 0}
    IN  IF None \in {uom, item.stock_uom} \/ uom = item.stock_uom \/ rows = {} THEN 1
        ELSE item.uoms[Min(rows)].conversion_factor

-----------------------------------------------------------------------------
(* The payload: blank accounts, tax rows, totals, the C5 doctypes.         *)

Fallbacks(v) ==
    CASE v.doctype = "SalesInvoice" -> [debit_to |-> "receivable", income_account |-> "income"]
      [] v.doctype = "PurchaseInvoice" -> [credit_to |-> "payable", expense_account |-> "expense"]
      [] v.doctype = "POSInvoice" -> [cash_account |-> "cash", income_account |-> "income"]
      [] v.doctype = "Expense" -> [paid_from |-> "cash", credit_to |-> "payable"]
      [] v.doctype = "CustomerDeposit" -> [cash_account |-> "cash", deposit_account |-> "deposit"]
      [] v.doctype = "PaymentEntry" /\ v.payment_type = "Receive" ->
            [paid_from |-> "receivable", paid_to |-> "cash"]
      [] v.doctype = "PaymentEntry" /\ v.payment_type = "Pay" ->
            [paid_from |-> "cash", paid_to |-> "payable"]
      [] OTHER -> <<>>

resolve_account_fallbacks(v) ==
    LET f == Fallbacks(v)
    IN  [x \in DOMAIN v |-> IF x \in DOMAIN f /\ v[x] = None THEN f[x] ELSE v[x]]

\* A line at its price, to the fraction of a cent, and its amount.
Worth(line) == Whole(line.qty) ** line.rate
line_amount(line) == Default(line.amount, round2(Worth(line))[1])

total_tax(v) == Total(v.taxes, LAMBDA r : r.tax_amount)

validate_tax_rows(v) ==
    \A r \in ToSet(v.taxes) :
        LET magnitude == round2(Frac(r.taxable_amount * r.rate, 100))[1]
            expected  == IF r.tax_type = "Withholding" THEN -magnitude ELSE magnitude
        IN  /\ r.rate >= 0
            /\ IF v.is_return THEN r.taxable_amount <= 0 ELSE r.taxable_amount >= 0
            /\ Abs(r.tax_amount - expected) <= 1

\* The totals the server computes, and the ones it goes on with: the sent
\* ones where there are any.
Computed(v) ==
    LET extracted == IF v.prices_include_tax
                     THEN Total(Filter(v.taxes, LAMBDA r : r.tax_type # "Withholding"),
                                LAMBDA r : r.tax_amount)
                     ELSE 0
        total == Total(v.items, line_amount) - extracted
    IN  [total |-> total, tax_total |-> total_tax(v), grand_total |-> total + total_tax(v)]

Totals(v) == [x \in {"total", "tax_total", "grand_total"} |-> Default(v[x], Computed(v)[x])]

\* Per-line rounding may drift a sent total by half a cent per line.
validate_invoice_totals(v) ==
    LET lines == IF v.items = <<>> THEN 1 ELSE Len(v.items)
        Off(x) == Abs(Totals(v)[x] - Computed(v)[x])
        t == Totals(v)
    IN  /\ \A line \in ToSet(v.items) : line_amount(line) = round2(Worth(line))[1]
        /\ 2 * Off("total") <= lines
        /\ Off("tax_total") = 0
        /\ 2 * Off("grand_total") <= lines
        /\ Abs(t.grand_total - (t.total + t.tax_total)) <= 1

Invoices == {"SalesInvoice", "PurchaseInvoice", "POSInvoice"}

validate_c5_document(v) ==
    /\ v.doctype = "JournalEntry" =>
          LET named == Filter(v.accounts, LAMBDA r : r.account # None)
          IN  /\ \A r \in ToSet(v.accounts) :
                    /\ r.debit >= 0 /\ r.credit >= 0 /\ ~(r.debit > 0 /\ r.credit > 0)
                    /\ r.account = None => r.debit = 0 /\ r.credit = 0
              /\ \A r \in ToSet(named) :
                    r.party_type \in {"Customer", "Supplier"} => r.party # None
              /\ Len(Filter(named, LAMBDA r : r.debit + r.credit > 0)) >= 2
              /\ Total(named, LAMBDA r : r.debit) = Total(named, LAMBDA r : r.credit)
    /\ v.doctype = "Expense" =>
          /\ v.conversion_rate \in {None, Whole(1)}
          /\ v.net_amount > 0 /\ v.tax_amount >= 0
          /\ v.gross_amount \in {None, v.net_amount + v.tax_amount}
          /\ v.expense_account # None
    /\ v.doctype = "CustomerDeposit" =>
          v.conversion_rate \in {None, Whole(1)} /\ v.amount > 0 /\ v.customer # None

\* What the validations write back into the payload.
Derived(v) ==
    IF v.doctype = "Expense"
    THEN [v EXCEPT !.is_paid = Default(@, TRUE), !.gross_amount = v.net_amount + v.tax_amount,
                   !.tax_account = IF v.tax_amount # 0 THEN Default(@, "vat") ELSE @]
    ELSE IF v.doctype \in Invoices THEN [v EXCEPT !.grand_total = Totals(v).grand_total]
    ELSE v

Valid(v) ==
    /\ validate_c5_document(v)
    /\ v.doctype \in Invoices => validate_tax_rows(v) /\ validate_invoice_totals(v)

-----------------------------------------------------------------------------
(* The monetary GL legs, the subledgers and the base amounts.              *)

Gl(id, account, amount) ==
    [id |-> id, account |-> account, amount |-> Whole(amount), base |-> None]

\* Output VAT is credited, input VAT debited; rows without an account or an
\* amount post nothing.
tax_legs(v, sign) ==
    Map(Filter(v.taxes, LAMBDA r : r.tax_account # None /\ r.tax_amount # 0),
        LAMBDA r : Gl("tax", r.tax_account, sign * r.tax_amount))

journal_rows(v) == Filter(v.accounts, LAMBDA r : r.account # None)

derive_monetary_gl(v) ==
    LET net == v.grand_total - total_tax(v)
    IN  CASE v.doctype = "SalesInvoice" ->
                <<Gl("debit", v.debit_to, v.grand_total),
                  Gl("credit", v.income_account, -net)>> \o tax_legs(v, -1)
          [] v.doctype = "PurchaseInvoice" ->
                <<Gl("credit", v.credit_to, -v.grand_total),
                  Gl("debit", v.expense_account, net)>> \o tax_legs(v, 1)
          [] v.doctype = "POSInvoice" ->
                <<Gl("cash", v.cash_account, v.grand_total),
                  Gl("income", v.income_account, -net)>> \o tax_legs(v, -1)
          [] v.doctype = "PaymentEntry" ->
                <<Gl("from", v.paid_from, -v.paid_amount), Gl("to", v.paid_to, v.paid_amount)>>
          [] v.doctype = "Expense" ->
                <<Gl("debit", v.expense_account, v.net_amount)>>
                \o (IF v.tax_amount # 0 THEN <<Gl("tax", v.tax_account, v.tax_amount)>> ELSE <<>>)
                \o <<Gl("credit", IF v.is_paid THEN v.paid_from ELSE v.credit_to,
                        -v.gross_amount)>>
          [] v.doctype = "CustomerDeposit" ->
                <<Gl("cash", v.cash_account, v.amount),
                  Gl("liability", v.deposit_account, -v.amount)>>
          [] v.doctype = "JournalEntry" ->
                Map(journal_rows(v), LAMBDA r : Gl("journal", r.account, r.debit - r.credit))
          [] OTHER -> <<>>

\* Mutant: a payment raises what is owed.
UnsignedMutant(kind, amount) ==
    [kind |-> kind, amount |-> Whole(Abs(amount)), base |-> Whole(Abs(amount))]

PartyRow(kind, amount) == [kind |-> kind, amount |-> Whole(amount), base |-> Whole(amount)]

\* A payment lowers what is owed; a debit raises what a customer owes and a
\* credit what is owed to a supplier.
derive_party_rows(v) ==
    CASE v.doctype = "SalesInvoice" /\ v.customer # None ->
            <<PartyRow("Customer", v.grand_total)>>
      [] v.doctype = "PurchaseInvoice" /\ v.supplier # None ->
            <<PartyRow("Supplier", v.grand_total)>>
      [] v.doctype = "PaymentEntry" /\ v.party # None /\ v.payment_type = "Receive" ->
            <<PartyRow("Customer", -v.paid_amount)>>
      [] v.doctype = "PaymentEntry" /\ v.party # None /\ v.payment_type = "Pay" ->
            <<PartyRow("Supplier", -v.paid_amount)>>
      [] v.doctype = "Expense" /\ ~v.is_paid /\ v.supplier # None ->
            <<PartyRow("Supplier", v.gross_amount)>>
      [] v.doctype = "JournalEntry" ->
            Map(Filter(journal_rows(v), LAMBDA r : /\ r.party # None
                                                      /\ r.party_type \in {"Customer", "Supplier"}),
                LAMBDA r : PartyRow(r.party_type, IF r.party_type = "Customer"
                                                  THEN r.debit - r.credit
                                                  ELSE r.credit - r.debit))
      [] OTHER -> <<>>

TaxRow(party_type, base_amount, tax_amount) ==
    [party_type |-> party_type, base_amount |-> base_amount, tax_amount |-> tax_amount]

\* A row of amount zero still carries its taxable base.
derive_tax_rows(v) ==
    CASE v.doctype \in Invoices ->
            Map(v.taxes, LAMBDA r : TaxRow(IF v.doctype = "PurchaseInvoice" THEN "Supplier"
                                           ELSE "Customer",
                                           r.taxable_amount, r.tax_amount))
      [] v.doctype = "Expense" /\ v.tax_amount # 0 ->
            <<TaxRow("Supplier", v.net_amount, v.tax_amount)>>
      [] OTHER -> <<>>

is_base_stamped(doctype) ==
    doctype \in {"SalesInvoice", "PurchaseInvoice", "PaymentEntry", "JournalEntry"}

conversion_rate_of(v) ==
    IF v.conversion_rate # None /\ Positive(v.conversion_rate) THEN v.conversion_rate ELSE Whole(1)

stamp_base_amounts(v, rows) ==
    IF is_base_stamped(v.doctype)
    THEN Map(rows, LAMBDA r : [r EXCEPT !.base = r.amount ** conversion_rate_of(v)])
    ELSE rows

-----------------------------------------------------------------------------
(* The stock rows of a voucher and what they cost.                         *)

Pair(row) == <<row.item, row.warehouse>>

Sle(trans_type, line, warehouse, qty, rate) ==
    [trans_type |-> trans_type, item |-> line.item, warehouse |-> warehouse,
     qty |-> qty, rate |-> rate, uom |-> line.uom]

stock_document_rows(v, sign, trans_type) ==
    FlatMap(v.items, LAMBDA line :
        LET warehouse == Default(line.warehouse, v.set_warehouse)
        IN  IF None \in {line.item, warehouse} THEN <<>>
            ELSE <<Sle(trans_type, line, warehouse, sign * line.qty,
                       Default(line.valuation_rate, line.rate))>>)

stock_entry_trans_type(purpose) ==
    CASE purpose = "MaterialReceipt" -> "Receipt"
      [] purpose = "MaterialTransfer" -> "Transfer"
      [] purpose \in {"Repack", "StockCount"} -> "Adjustment"
      [] purpose \in {"Manufacture", "Manufacturing"} -> "Production"
      [] OTHER -> "Issue"

stock_entry_rows(v) ==
    LET trans_type == stock_entry_trans_type(v.stock_entry_type)
        Leg(line, warehouse, qty) ==
            IF None \in {line.item, warehouse} THEN <<>>
            ELSE <<Sle(trans_type, line, warehouse, qty, Default(line.valuation_rate, Zero))>>
    IN  FlatMap(v.items, LAMBDA line : Leg(line, line.source_warehouse, -line.qty)
                                       \o Leg(line, line.target_warehouse, line.qty))

\* Service items never touch stock.
derive_stock_rows(v) ==
    LET rows == CASE v.doctype = "SalesInvoice" /\ v.update_stock ->
                        stock_document_rows(v, -1, "Issue")
                  [] v.doctype = "PurchaseInvoice" /\ v.update_stock ->
                        stock_document_rows(v, 1, "Receipt")
                  [] v.doctype = "PurchaseReceipt" -> stock_document_rows(v, 1, "Receipt")
                  [] v.doctype \in {"POSInvoice", "DeliveryNote"} ->
                        stock_document_rows(v, -1, "Issue")
                  [] v.doctype = "StockEntry" -> stock_entry_rows(v)
                  [] OTHER -> <<>>
    IN  Filter(rows, LAMBDA r : is_stock_item_type(r.item))

sles_for_pair(p) == Filter(sles, LAMBDA r : Pair(r) = p)
sles_for_voucher(d) == Filter(sles, LAMBDA r : r.voucher = d)

\* A pair's ledger with the costed rows of a voucher so far.
prior_for(p, rows) == sles_for_pair(p) \o Filter(rows, LAMBDA r : Pair(r) = p)

\* Goods come back at the cost they were issued at: to the same warehouse, or
\* else to any, or else at the moving average.
return_cost(v, p, prior) ==
    LET originals == Filter(sles_for_voucher(v.return_against), LAMBDA r : r.item = p[1])
        there     == Filter(originals, LAMBDA r : Pair(r) = p)
    IN  IF there # <<>> THEN there[1].rate
        ELSE IF originals # <<>> THEN originals[1].rate
        ELSE compute_balance(prior).rate

\* A receipt's rate is per unit of the line; stock is kept per stock unit.
ReceiptRate(r, factor) == r.rate // Whole(factor)

\* What the voucher's last issue of the item cost.
OutCost(rows, r) ==
    LET out == {k \in DOMAIN rows : rows[k].item = r.item /\ rows[k].qty < 0}
    IN  IF out = {} THEN r.rate ELSE rows[Max(out)].rate

\* One row: its quantity in stock units and its rate, after the costed rows.
CostRow(v, rows, r) ==
    LET factor == uom_factor(r.item, r.uom)
        qty    == r.qty * factor
        prior  == prior_for(Pair(r), rows)
        rate   == CASE qty < 0 -> issue_rate(prior, -qty, load_items(r.item).valuation_method)
                    [] qty = 0 -> r.rate
                    [] qty > 0 /\ v.is_return -> return_cost(v, Pair(r), prior)
                    [] qty > 0 /\ ~v.is_return /\ r.trans_type = "Transfer" -> OutCost(rows, r)
                    [] qty > 0 /\ ~v.is_return /\ r.trans_type = "Production" -> r.rate
                    [] OTHER -> ReceiptRate(r, factor)
    IN  Append(rows, [r EXCEPT !.qty = qty, !.rate = rate])

CostRows(v, rows) == Fold(LAMBDA costed, r : CostRow(v, costed, r), <<>>, rows)

\* The output of a Production entry shares what its input cost.
IsOutput(v, r) == r.trans_type = "Production" /\ r.qty > 0 /\ ~v.is_return
Consumed(rows) == Negated(SumOver(rows, LAMBDA r : IF r.qty < 0 THEN Value(r) ELSE Zero))
Produced(v, rows) == Total(rows, LAMBDA r : IF IsOutput(v, r) THEN r.qty ELSE 0)
Spreads(v, rows) == Produced(v, rows) > 0 /\ Positive(Consumed(rows))
SpreadRate(v, rows) == Consumed(rows) // Whole(Produced(v, rows))

\* Mutant: it keeps the rates it was sent with.
UnspreadMutant(v, rows) == rows

SpreadProduction(v, rows) ==
    IF Spreads(v, rows)
    THEN Map(rows, LAMBDA r : IF IsOutput(v, r) THEN [r EXCEPT !.rate = SpreadRate(v, rows)] ELSE r)
    ELSE rows

\* A simulated ledger with its last row like r at another rate.
PatchLedger(ledger, r, rate) ==
    LET alike == {k \in DOMAIN ledger : ledger[k].qty = r.qty /\ ledger[k].rate = r.rate}
    IN  IF alike = {} THEN ledger ELSE [ledger EXCEPT ![Max(alike)].rate = rate]

\* The simulated ledger of a pair that the check and the bins are made from.
SimulatedLedger(v, p, rows) ==
    LET prior == prior_for(p, rows)
        legs  == Filter(Filter(rows, LAMBDA r : Pair(r) = p), LAMBDA r : IsOutput(v, r))
    IN  IF Spreads(v, rows)
        THEN Fold(LAMBDA l, r : PatchLedger(l, r, SpreadRate(v, rows)), prior, legs)
        ELSE prior

Pairs(rows) == {Pair(r) : r \in ToSet(rows)}

cost_stock_movements(v, rows) ==
    LET costed == CostRows(v, rows)
    IN  [rows    |-> SpreadProduction(v, costed),
         ledgers |-> [p \in Pairs(rows) |-> SimulatedLedger(v, p, costed)]]

-----------------------------------------------------------------------------
(* The GL counterpart of stock.                                            *)

\* A row's value moves between inventory and cost of goods sold, GRNI or the
\* adjustment account.  Transfers and productions post no GL.
CounterAccount(v, item) ==
    IF v.doctype \in {"SalesInvoice", "DeliveryNote", "POSInvoice"}
    THEN Default(item.cogs_account, "cogs")
    ELSE IF v.doctype \in {"PurchaseInvoice", "PurchaseReceipt"} THEN "grni"
    ELSE Default(item.stock_adjustment_account, "adjustment")

StockLeg(account, x) == [id |-> "stock", account |-> account, amount |-> x, base |-> x]

StockLegs(v, r) ==
    LET item == load_items(r.item)
    IN  IF Value(r) = Zero \/ r.trans_type \in {"Transfer", "Production"} THEN <<>>
        ELSE <<StockLeg(Default(item.inventory_account, "inventory"), Value(r)),
               StockLeg(CounterAccount(v, item), Negated(Value(r)))>>

stock_gl_legs(v, rows) == FlatMap(rows, LAMBDA r : StockLegs(v, r))

\* The stock lines of a bill leave the expense leg and clear GRNI instead.
IsStockLine(line) == line.item # None /\ is_stock_item_type(line.item)
StockNet(v) == Whole(Total(v.items, LAMBDA line : IF IsStockLine(line) THEN line_amount(line) ELSE 0))

\* Mutant: the base column of the expense leg is not restamped.
StaleBaseMutant(v, r) ==
    IF r.id # "debit" THEN <<r>>
    ELSE IF r.amount = StockNet(v) THEN <<>>
    ELSE <<[r EXCEPT !.amount = @ -- StockNet(v)]>>

LessStock(v, r) ==
    IF r.id # "debit" THEN <<r>>
    ELSE IF r.amount = StockNet(v) THEN <<>>
    ELSE <<[r EXCEPT !.amount = @ -- StockNet(v),
                     !.base = (r.amount -- StockNet(v)) ** conversion_rate_of(v)]>>

split_grni_from_expense(v, rows) ==
    IF StockNet(v) = Zero THEN rows
    ELSE Append(FlatMap(rows, LAMBDA r : LessStock(v, r)),
                [id |-> "grni", account |-> "grni", amount |-> StockNet(v),
                 base |-> StockNet(v) ** conversion_rate_of(v)])

Amount(r) == r.amount
Base(r) == Default(r.base, r.amount)

check_balanced(rows) == SumOver(rows, Amount) = Zero

check_group_accounts(rows) == \A r \in ToSet(rows) : r.account \notin GroupAccounts \cup {None}

check_negative_stock(ledgers) ==
    company.allow_negative_stock \/ \A p \in DOMAIN ledgers : Quantity(ledgers[p]) >= 0

recompute_bins(ledgers) ==
    [p \in DOMAIN bins \cup DOMAIN ledgers |->
        IF p \in DOMAIN ledgers THEN compute_balance(ledgers[p]) ELSE bins[p]]

-----------------------------------------------------------------------------
(* The postings.                                                           *)

Init ==
    /\ company \in Companies
    /\ status = [d \in Docs |-> "draft"]
    /\ gl = [d \in Docs |-> <<>>]
    /\ party_transactions = [d \in Docs |-> <<>>]
    /\ tax_transactions = [d \in Docs |-> <<>>]
    /\ sles = <<>>
    /\ bins = [p \in {} |-> Zero]

\* A row of the stock ledger.
Stored(r, d, new_status) ==
    [item |-> r.item, warehouse |-> r.warehouse, qty |-> r.qty, rate |-> r.rate,
     voucher |-> d, is_reversal |-> new_status = "cancelled"]

\* Everything one commit writes.
Write(d, new) ==
    /\ status' = [status EXCEPT ![d] = new.status]
    /\ gl' = [gl EXCEPT ![d] = @ \o new.gl]
    /\ party_transactions' = [party_transactions EXCEPT ![d] = @ \o new.party]
    /\ tax_transactions' = [tax_transactions EXCEPT ![d] = @ \o new.tax]
    /\ sles' = sles \o Map(new.sles, LAMBDA r : Stored(r, d, new.status))
    /\ bins' = recompute_bins(new.ledgers)
    /\ UNCHANGED company

\* The rows of the general ledger: the monetary legs in both currencies and
\* the stock legs, and for a bill what is split off for the goods.
DerivedLegs(v, costed) == stamp_base_amounts(v, derive_monetary_gl(v)) \o stock_gl_legs(v, costed)

SplitLegs(v, legs) ==
    IF v.doctype = "PurchaseInvoice" THEN split_grni_from_expense(v, legs) ELSE legs

\* The checks of what was derived, and the commit.
PostRows(d, v, costed, rows) ==
    /\ check_balanced(rows)
    /\ check_group_accounts(rows)
    /\ v.offline_fiscal \/ check_negative_stock(costed.ledgers)
    /\ Write(d, [status |-> "posted", gl |-> rows, sles |-> costed.rows,
                 party |-> stamp_base_amounts(v, derive_party_rows(v)),
                 tax |-> derive_tax_rows(v), ledgers |-> costed.ledgers])

PostCosted(d, v, costed) == PostRows(d, v, costed, SplitLegs(v, DerivedLegs(v, costed.rows)))

build_submit(d) ==
    LET sent == resolve_account_fallbacks(Vouchers[d])
        v    == Derived(sent)
    IN  /\ d \in company.drafts /\ status[d] = "draft"
        /\ Valid(sent)
        /\ PostCosted(d, v, cost_stock_movements(v, derive_stock_rows(v)))

\* The reversal of stored rows: swapped columns, negated quantities and
\* amounts, the stored rates.
\* Mutant: the base column is not swapped.
BaseKeptMutant(r) == [r EXCEPT !.amount = Negated(@)]

Reversed(r) ==
    [r EXCEPT !.amount = Negated(@), !.base = IF @ = None THEN None ELSE Negated(@)]

build_cancel(d) ==
    LET back    == Map(sles_for_voucher(d), LAMBDA r : [r EXCEPT !.qty = -@])
        ledgers == [p \in Pairs(back) |-> prior_for(p, back)]
    IN  /\ status[d] = "posted"
        /\ check_negative_stock(ledgers)
        /\ Write(d, [status |-> "cancelled", gl |-> Map(gl[d], Reversed),
                     party |-> Map(party_transactions[d], Reversed),
                     tax |-> Map(tax_transactions[d], LAMBDA r :
                                 TaxRow(r.party_type, -r.base_amount, -r.tax_amount)),
                     sles |-> back, ledgers |-> ledgers])

Next == \E d \in Docs : build_submit(d) \/ build_cancel(d)

Spec == Init /\ [][Next]_vars

-----------------------------------------------------------------------------
(* Properties                                                              *)

\* What rows put on some accounts, or on the parties of a kind.
OnAccounts(rows, accounts, f(_)) ==
    SumOver(rows, LAMBDA r : IF r.account \in accounts THEN f(r) ELSE Zero)
OfKind(rows, kind, f(_)) == SumOver(rows, LAMBDA r : IF r.kind = kind THEN f(r) ELSE Zero)

\* The value a document put into the stock ledger.
StockValue(d) == SumOver(sles, LAMBDA r : IF r.voucher = d THEN Value(r) ELSE Zero)

\* The documents that were posted, cancelled since or not.
Written == {d \in Docs : status[d] # "draft"}

InventoryAccounts ==
    {"inventory"} \cup {Default(Items[i].inventory_account, "inventory") : i \in DOMAIN Items}

\* The accounts that are compared with something else below.
ControlAccounts == {"receivable", "payable", "vat", "grni"}
Compared == ControlAccounts \cup InventoryAccounts

Receives(v) == v.doctype = "PaymentEntry" /\ v.payment_type = "Receive"
Pays(v) == v.doctype = "PaymentEntry" /\ v.payment_type = "Pay"

\* The accounts of a voucher, and of the items, that serve other purposes.
OtherAccounts(v) ==
    {v.income_account, v.expense_account, v.cash_account, v.deposit_account}
    \cup (IF Receives(v) THEN {} ELSE {v.paid_from})
    \cup (IF Pays(v) THEN {} ELSE {v.paid_to})

ItemCounterAccounts ==
    UNION {{Items[i].cogs_account, Items[i].stock_adjustment_account} : i \in DOMAIN Items}

DefaultAccounts == {"income", "expense", "cash", "deposit", "cogs", "adjustment"}

\* A compared account is used for nothing else: not by the voucher, and not
\* by the items.  (The code posts to whatever account it is given.)
SeparateAccounts(v) ==
    /\ Compared \cap OtherAccounts(v) = {}
    /\ Compared \cap (ItemCounterAccounts \cup DefaultAccounts) = {}
    /\ InventoryAccounts \cap ControlAccounts = {}
    /\ v.debit_to \in {None, "receivable"} /\ v.credit_to \in {None, "payable"}
    /\ Receives(v) => v.paid_from \in {None, "receivable"}
    /\ Pays(v) => v.paid_to \in {None, "payable"}
    /\ {v.tax_account} \cup {r.tax_account : r \in ToSet(v.taxes)} \subseteq {None, "vat"}
    /\ \A r \in ToSet(v.accounts) : r.account \notin InventoryAccounts

\* A transfer that moves goods from somewhere to somewhere, or a production
\* with an output whose input was worth something.  (The code posts no GL for
\* either, and for the others stock appears or disappears without one.)
ValueNeutral(d) ==
    LET v == Vouchers[d]
        trans_type == stock_entry_trans_type(v.stock_entry_type)
        own == Filter(sles, LAMBDA r : r.voucher = d /\ ~r.is_reversal)
    IN  v.doctype = "StockEntry" =>
          /\ trans_type \in {"Transfer", "Production"} => ~v.is_return
          /\ trans_type = "Transfer" =>
                \A line \in ToSet(v.items) :
                    line.qty > 0 /\ None \notin {line.source_warehouse, line.target_warehouse}
          /\ trans_type = "Production" =>
                Positive(Consumed(own)) /\ \E r \in ToSet(own) : r.qty > 0

\* Perpetual inventory (stock_gl_legs): what a document's legs put on the
\* inventory accounts is what its rows put into the stock ledger, through
\* every costing rule, for transfers and productions, which post no legs, too.
InventoryReconciles ==
    \A d \in Written : SeparateAccounts(Vouchers[d]) /\ ValueNeutral(d) =>
        OnAccounts(gl[d], InventoryAccounts, Amount) = StockValue(d)

\* The voucher names the party of every receivable or payable it posts.
Attributed(v) ==
    /\ v.doctype = "SalesInvoice" => v.customer # None
    /\ v.doctype \in {"PurchaseInvoice", "Expense"} => v.supplier # None
    /\ v.doctype = "PaymentEntry" => v.party # None
    /\ \A r \in ToSet(v.accounts) : /\ r.account = "receivable" <=> r.party_type = "Customer"
                                    /\ r.account = "payable" <=> r.party_type = "Supplier"

\* The control accounts and the subledgers are derived apart
\* (derive_monetary_gl, derive_subledger_rows) and agree, in transaction
\* currency and in base currency.
ControlAccountsAgree ==
    \A d \in Written : SeparateAccounts(Vouchers[d]) /\ Attributed(Vouchers[d]) =>
        LET parties == party_transactions[d]
        IN  /\ OnAccounts(gl[d], {"receivable"}, Amount) = OfKind(parties, "Customer", Amount)
            /\ OnAccounts(gl[d], {"receivable"}, Base) = OfKind(parties, "Customer", Base)
            /\ OnAccounts(gl[d], {"payable"}, Amount) = Negated(OfKind(parties, "Supplier", Amount))
            /\ OnAccounts(gl[d], {"payable"}, Base) = Negated(OfKind(parties, "Supplier", Base))

\* The VAT account and the tax subledger, from which the VAT return is made,
\* agree.  tax_legs skips a row without an account and tax_transactions does
\* not: that no such row is posted is the work of check_balanced.
TaxAgrees ==
    \A d \in Written : SeparateAccounts(Vouchers[d]) /\ Vouchers[d].doctype # "JournalEntry" =>
        OnAccounts(gl[d], {"vat"}, Amount) =
            Whole(Total(tax_transactions[d], LAMBDA r : IF r.party_type = "Supplier"
                                                        THEN r.tax_amount ELSE -r.tax_amount))

\* What customers owe, what is owed to suppliers and what is owed in tax is
\* the same in the general ledger and in the subledgers (derive_monetary_gl,
\* derive_subledger_rows, tax_transactions).
SubledgersAgree == ControlAccountsAgree /\ TaxAgrees

\* check_balanced looks at the transaction columns only.  The base columns
\* of a document balance as well, although its legs are stamped at the
\* document's rate and its stock legs at 1, and the GRNI split moves part of
\* a stamped leg.
BaseLedgerBalances == \A d \in Docs : SumOver(gl[d], Base) = Zero

\* A bill that receives its own goods, in base currency at prices without tax
\* and at the prices of its lines.
ReceivesItsGoods(v) ==
    /\ v.doctype = "PurchaseInvoice" /\ v.update_stock /\ ~v.prices_include_tax /\ ~v.is_return
    /\ conversion_rate_of(v) = Whole(1)
    /\ \A line \in ToSet(v.items) :
          line.qty > 0 /\ line.valuation_rate = None /\ Default(line.warehouse, v.set_warehouse) # None

\* A stock line whose quantity at its rate is not a whole number of cents.
Uneven(line) == IsStockLine(line) /\ round2(Worth(line)) # Worth(line)

\* The goods received and not invoiced account is cleared by the bill that
\* receives them, whatever the unit of measure, and service lines take part
\* in neither side.  The debit is made of the rounded amounts of the lines
\* (line_amount) and the credit of costed stock units, which stock_gl_legs
\* does not round: half a cent may stay behind for each line whose worth is
\* not a whole number of cents, and nothing else.
GrniClears ==
    \A d \in Written : SeparateAccounts(Vouchers[d]) /\ ReceivesItsGoods(Vouchers[d]) =>
        LET left   == OnAccounts(gl[d], {"grni"}, Amount)
            uneven == Total(Vouchers[d].items, LAMBDA line : IF Uneven(line) THEN 1 ELSE 0)
        IN  2 * Abs(left[1]) <= uneven * left[2]

\* The bins, folded from the simulated ledgers of a build, are the balance of
\* the rows that were stored.
BinsMatch ==
    \A p \in {Pair(r) : r \in ToSet(sles)} :
        p \in DOMAIN bins /\ bins[p] = compute_balance(sles_for_pair(p))

\* Stock is worth the same wherever it is written: on the inventory accounts,
\* in the stock ledger and in the bins, and a bill that receives its own goods
\* leaves nothing but the rounding of its lines between the two (cost_stock_movements, stock_gl_legs,
\* split_grni_from_expense, recompute_bins).
StockReconciles == InventoryReconciles /\ GrniClears /\ BinsMatch

\* The rows of its pair that row k of the stock ledger followed.
Before(k) == Filter(SubSeq(sles, 1, k - 1), LAMBDA r : Pair(r) = Pair(sles[k]))

IsProduction(v) ==
    v.doctype = "StockEntry" /\ stock_entry_trans_type(v.stock_entry_type) = "Production"

\* A production that takes from its own output does so before the output has
\* its price (cost_stock_movements costs the rows first and then spreads).
TakesItsOutput(k) ==
    /\ IsProduction(Vouchers[sles[k].voucher])
    /\ \E r \in ToSet(Before(k)) : r.voucher = sles[k].voucher /\ r.qty > 0

Issues(fifo) ==
    {k \in DOMAIN sles : /\ sles[k].qty < 0 /\ ~sles[k].is_reversal /\ ~TakesItsOutput(k)
                         /\ (load_items(sles[k].item).valuation_method = FIFO) = fifo}

\* Neither cancelled nor oversold so far.
Regular(rows) ==
    /\ \A i \in DOMAIN rows : ~rows[i].is_reversal
    /\ \A i \in DOMAIN rows : Quantity(SubSeq(rows, 1, i)) >= 0

\* FIFO against its definition: number the units received, and an issue costs
\* the units that follow the ones already issued.  (After a cancellation or
\* an oversale remaining_layers is not that: a reversal takes from the oldest
\* layer whatever it reverses, and what an oversale lacked is forgotten.)
FifoIsOldestFirst ==
    \A k \in Issues(TRUE) :
        LET rows   == Before(k)
            units  == FlatMap(Filter(rows, LAMBDA r : r.qty > 0),
                              LAMBDA r : [u \in 1..r.qty |-> r.rate])
            issued == Len(units) - Quantity(rows)
            n      == -sles[k].qty
        IN  Regular(rows) /\ n <= Quantity(rows) =>
              Value(sles[k]) = Negated(SumOver(SubSeq(units, issued + 1, issued + n),
                                               LAMBDA rate : rate))

\* The moving average is rounded to a cent, so issuing the last units need
\* not take their whole value.  What stays behind on an empty bin is at most
\* half a cent for each unit of that issue and half a cent more.
DrainResidualBounded ==
    \A k \in Issues(FALSE) :
        LET rows == Append(Before(k), sles[k])
            rest == SumOver(rows, Value)
        IN  Quantity(rows) = 0 => 2 * Abs(rest[1]) <= (1 - sles[k].qty) * rest[2]

\* A sale of goods, each on one line.  (return_cost finds the first row of
\* the item, so on two lines it would come back at the cost of the first; the
\* return of a bill is an issue, at the cost of the day.)
SellsGoods(v) ==
    /\ v.doctype \in {"SalesInvoice", "POSInvoice", "DeliveryNote"}
    /\ \A line \in ToSet(v.items) : line.qty > 0
    /\ \A i, j \in DOMAIN v.items : v.items[i].item = v.items[j].item => i = j

\* d returns all of o, to the same warehouses.
ReturnsAll(d, o) ==
    LET v == Vouchers[d]
        w == Vouchers[o]
    IN  /\ v.is_return /\ v.return_against = o /\ v.doctype = w.doctype
        /\ v.update_stock = w.update_stock /\ v.set_warehouse = w.set_warehouse
        /\ v.items = Map(w.items, LAMBDA line : [line EXCEPT !.qty = -@])

\* A sale and its return leave nothing in cost of goods sold or inventory,
\* whatever the average cost became between the two.
ReturnsAtOriginalCost ==
    \A d, o \in Written :
        /\ status[d] = "posted" /\ status[o] = "posted"
        /\ SellsGoods(Vouchers[o]) /\ ReturnsAll(d, o)
        /\ \A v \in {Vouchers[d], Vouchers[o]} : SeparateAccounts(v) /\ "cogs" \notin OtherAccounts(v)
        /\ \E k, m \in DOMAIN sles : k < m /\ sles[k].voucher = o /\ sles[m].voucher = d
        => \A accounts \in {InventoryAccounts, {"cogs"}} :
              OnAccounts(gl[o] \o gl[d], accounts, Amount) = Zero

\* What an issue or a return costs is what the goods cost when they came in:
\* exactly under FIFO and for returns, to a cent's rounding under the moving
\* average (issue_rate, fifo_rate, return_cost).
CostsExact == FifoIsOldestFirst /\ DrainResidualBounded /\ ReturnsAtOriginalCost

\* A cancelled document leaves nothing on any account, in any subledger or in
\* any bin, in either currency: the stored rows are mirrored and never
\* derived again.
VoucherNetsOut ==
    \A d \in Docs : status[d] = "cancelled" =>
        /\ \A a \in {r.account : r \in ToSet(gl[d])} :
              OnAccounts(gl[d], {a}, Amount) = Zero /\ OnAccounts(gl[d], {a}, Base) = Zero
        /\ \A kind \in {"Customer", "Supplier"} : OfKind(party_transactions[d], kind, Base) = Zero
        /\ Total(tax_transactions[d], LAMBDA r : r.tax_amount) = 0
        /\ Total(tax_transactions[d], LAMBDA r : r.base_amount) = 0
        /\ \A p \in {Pair(r) : r \in ToSet(sles)} :
              LET own == Filter(sles, LAMBDA r : r.voucher = d /\ Pair(r) = p)
              IN  Quantity(own) = 0 /\ SumOver(own, Value) = Zero
=============================================================================
