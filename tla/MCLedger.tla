------------------------------ MODULE MCLedger ------------------------------
(***************************************************************************)
(* Companies with a few documents each, chosen so that every doctype,      *)
(* costing rule and refusal happens and so that costs differ between       *)
(* receipts.                                                               *)
(***************************************************************************)
EXTENDS Ledger, TLC

Line == [item |-> None, warehouse |-> None, source_warehouse |-> None,
         target_warehouse |-> None, qty |-> 0, rate |-> Zero, valuation_rate |-> None,
         amount |-> None, uom |-> None]

Blank == [doctype |-> None, items |-> <<>>, taxes |-> <<>>, accounts |-> <<>>,
          customer |-> None, supplier |-> None, party |-> None, payment_type |-> None,
          stock_entry_type |-> None, set_warehouse |-> None, return_against |-> None,
          debit_to |-> None, credit_to |-> None, income_account |-> None,
          expense_account |-> None, cash_account |-> None, deposit_account |-> None,
          paid_from |-> None, paid_to |-> None, tax_account |-> None,
          total |-> None, tax_total |-> None, grand_total |-> None, conversion_rate |-> None,
          paid_amount |-> 0, net_amount |-> 0, tax_amount |-> 0, gross_amount |-> None,
          amount |-> 0, is_paid |-> None, prices_include_tax |-> FALSE,
          update_stock |-> FALSE, is_return |-> FALSE, offline_fiscal |-> FALSE]

Doc(doctype, fields) == fields @@ [doctype |-> doctype] @@ Blank

Priced(item, qty, rate) == [item |-> item, warehouse |-> "main", qty |-> qty, rate |-> rate] @@ Line
Goods(item, qty, rate) == Priced(item, qty, Whole(rate))
Boxes(item, qty, rate) == [uom |-> "box"] @@ Goods(item, qty, rate)
Leg(item, from, to, qty, rate) ==
    [item |-> item, source_warehouse |-> from, target_warehouse |-> to, qty |-> qty,
     valuation_rate |-> rate] @@ Line
Vat(account, taxable, tax) ==
    [tax_account |-> account, taxable_amount |-> taxable, rate |-> 20, tax_amount |-> tax,
     tax_type |-> "VAT"]
Entry(account, debit, credit, party_type, party) ==
    [account |-> account, debit |-> debit, credit |-> credit, party_type |-> party_type,
     party |-> party]

Stocked == [uoms |-> <<[uom |-> "box", conversion_factor |-> 4]>>, stock_uom |-> "unit"]
           @@ UnknownItem

MCItems == [bolt   |-> Stocked,                                   \* moving average
            nut    |-> [valuation_method |-> FIFO, inventory_account |-> "inventory-nuts"] @@ Stocked,
            labour |-> [item_type |-> "Service"] @@ UnknownItem]

MCVouchers ==
    \* Receipts: bolts at 10 and then four at 15/4 each; nuts at 4 and 9.
    [rc_bolt  |-> Doc("PurchaseReceipt", [items |-> <<Goods("bolt", 2, 10)>>]),
     rc_box   |-> Doc("PurchaseReceipt", [items |-> <<Boxes("bolt", 1, 15)>>]),
     rc_nut   |-> Doc("PurchaseReceipt", [items |-> <<Goods("nut", 2, 4)>>]),
     rc_nut2  |-> Doc("PurchaseReceipt", [items |-> <<Goods("nut", 2, 9), Goods("nut", 1, 7)>>]),
     \* Bills: goods by the box, a service line and input VAT; goods at prices
     \* in fractions of a cent, worth 21/2 and 5/4 cents; a foreign bill
     \* for goods received before; a tax row without an account, a wrong total.
     bill     |-> Doc("PurchaseInvoice",
                      [supplier |-> "s", update_stock |-> TRUE, set_warehouse |-> "main",
                       items |-> <<Boxes("bolt", 1, 40), Goods("labour", 1, 30)>>,
                       taxes |-> <<Vat("vat", 70, 14), Vat("vat", 5, 0)>>]),
     uneven   |-> Doc("PurchaseInvoice",
                      [supplier |-> "s", update_stock |-> TRUE,
                       items |-> <<Priced("nut", 3, <<7, 2>>), Priced("nut", 1, <<5, 4>>)>>]),
     fx_bill  |-> Doc("PurchaseInvoice",
                      [supplier |-> "s", conversion_rate |-> <<3, 2>>,
                       items |-> <<Goods("bolt", 2, 10), Goods("labour", 1, 5)>>]),
     no_vat   |-> Doc("PurchaseInvoice",
                      [supplier |-> "s", items |-> <<Goods("labour", 1, 50)>>,
                       taxes |-> <<Vat(None, 50, 10)>>]),
     wrong    |-> Doc("SalesInvoice",
                      [customer |-> "c", items |-> <<Goods("labour", 1, 50)>>, grand_total |-> 49]),
     \* Sales: with stock and output VAT included in the price, its return,
     \* a delivery, tills on line and off line.
     sale     |-> Doc("SalesInvoice",
                      [customer |-> "c", update_stock |-> TRUE, prices_include_tax |-> TRUE,
                       items |-> <<Goods("bolt", 2, 30)>>, taxes |-> <<Vat("vat", 50, 10)>>,
                       grand_total |-> 60]),
     refund   |-> Doc("SalesInvoice",
                      [customer |-> "c", update_stock |-> TRUE, prices_include_tax |-> TRUE,
                       is_return |-> TRUE, return_against |-> "sale",
                       items |-> <<Goods("bolt", -2, 30)>>, taxes |-> <<Vat("vat", -50, -10)>>]),
     deliver  |-> Doc("DeliveryNote", [items |-> <<Goods("bolt", 2, 0), Goods("bolt", 1, 0)>>]),
     note     |-> Doc("DeliveryNote", [items |-> <<Goods("nut", 3, 0)>>]),
     till     |-> Doc("POSInvoice", [items |-> <<Goods("nut", 1, 20)>>,
                                      taxes |-> <<Vat("vat", 20, 4)>>]),
     offline  |-> Doc("POSInvoice", [items |-> <<Goods("nut", 3, 20)>>, offline_fiscal |-> TRUE]),
     \* Stock entries.
     move     |-> Doc("StockEntry", [stock_entry_type |-> "MaterialTransfer",
                                      items |-> <<Leg("nut", "main", "shop", 1, None),
                                                  Leg("nut", "main", "shop", 2, None)>>]),
     make     |-> Doc("StockEntry", [stock_entry_type |-> "Manufacture",
                                      items |-> <<Leg("nut", "main", None, 2, None),
                                                  Leg("bolt", None, "main", 2, Whole(1)),
                                                  Leg("bolt", None, "main", 1, Whole(1))>>]),
     count    |-> Doc("StockEntry", [stock_entry_type |-> "StockCount",
                                      items |-> <<Leg("bolt", "main", None, 4, None)>>]),
     found    |-> Doc("StockEntry", [stock_entry_type |-> "MaterialReceipt",
                                      items |-> <<Leg("nut", None, "main", 1, Whole(6))>>]),
     \* Money.
     receive  |-> Doc("PaymentEntry", [payment_type |-> "Receive", party |-> "c",
                                        paid_amount |-> 7, conversion_rate |-> <<3, 2>>]),
     pay      |-> Doc("PaymentEntry", [payment_type |-> "Pay", party |-> "s", paid_amount |-> 5]),
     journal  |-> Doc("JournalEntry",
                      [conversion_rate |-> <<5, 4>>,
                       accounts |-> <<Entry("receivable", 9, 0, "Customer", "c"),
                                      Entry("payable", 0, 6, "Supplier", "s"),
                                      Entry("income", 0, 3, None, None)>>]),
     lopsided |-> Doc("JournalEntry", [accounts |-> <<Entry("cash", 9, 0, None, None),
                                                       Entry("income", 0, 8, None, None)>>]),
     owed     |-> Doc("Expense", [supplier |-> "s", is_paid |-> FALSE, net_amount |-> 50,
                                  tax_amount |-> 10, expense_account |-> "rent"]),
     fuel     |-> Doc("Expense", [supplier |-> "s", net_amount |-> 8, expense_account |-> "fuel"]),
     deposit  |-> Doc("CustomerDeposit", [customer |-> "c", amount |-> 12]),
     toGroup  |-> Doc("CustomerDeposit", [customer |-> "c", amount |-> 12,
                                           cash_account |-> "assets"])]

MCGroupAccounts == {"assets"}

Strict(drafts) == [drafts |-> drafts, allow_negative_stock |-> FALSE]
Lax(drafts) == [drafts |-> drafts, allow_negative_stock |-> TRUE]

MCCompanies ==
    {Strict({"rc_bolt", "rc_box", "sale", "refund"}),
     Strict({"bill", "rc_box", "deliver", "count"}),
     Strict({"rc_nut", "rc_nut2", "note", "move"}),
     Strict({"rc_nut", "rc_nut2", "make", "deliver"}),
     Strict({"uneven", "found", "till", "offline"}),
     Lax({"rc_bolt", "bill", "deliver", "sale"}),
     Strict({"fx_bill", "no_vat", "wrong", "receive", "pay", "journal", "lopsided"}),
     Strict({"owed", "fuel", "deposit", "toGroup", "pay"})}
=============================================================================
