----------------------------- MODULE MCPosting -----------------------------
(***************************************************************************)
(* Small companies for the posting authority.  Each scenario fixes a few   *)
(* documents, their doctypes and the commands clients may send about them, *)
(* repeated and interleaved in any order.                                  *)
(***************************************************************************)
EXTENDS PostingRefinement, TLC

CONSTANTS d1, d2, d3, d4, d5, pA, pB, k1, r1, r2

ReqSymmetry == Permutations(Req)

OwnReceipts == [d \in Docs |-> d]

NoMoves == [x \in Pairs |-> 0]

Move(x, n) == [NoMoves EXCEPT ![x] = n]

Plain == [date |-> 1, moves |-> NoMoves, offline |-> FALSE, till |-> "",
          device |-> "", amount |-> 0, party |-> "", refs |-> {}, deposit |-> NoDoc]

Stock(moves) == [Plain EXCEPT !.moves = moves]

\* The second spelling of the till series is padded.
TillNames == {"", "T1", " T1"}

TrimTill == [t \in TillNames |-> IF t = "" THEN "" ELSE "T1"]

TillSale(device, till, moves) ==
    [Plain EXCEPT !.moves = moves, !.offline = TRUE, !.till = till, !.device = device]

Submit(d, k, b) == [kind |-> "submit", doc |-> d, key |-> k, body |-> b]

Cancel(d, k) == [kind |-> "cancel", doc |-> d, key |-> k, body |-> NoBody]

-----------------------------------------------------------------------------
(* Stock: one unit that a till sale, a delivery edited on two devices and  *)
(* another delivery compete for, while offline tills confirm sales that    *)
(* are over already.  One till's receipt is spelled like POS-00001, and a  *)
(* second device uses the till's series, padded with blanks or not.        *)

StockDocs == {d1, d2, d3, d4, d5}

StockDoctype ==
    d1 :> "Purchase Receipt" @@ d2 :> "Delivery Note" @@ d3 :> "POS Invoice"
    @@ d4 :> "POS Invoice" @@ d5 :> "POS Invoice"

StockReceipt == [d \in StockDocs |-> IF d = d4 THEN 1 ELSE d]

StockCommands ==
    {Submit(d1, NoKey, Stock([x \in Pairs |-> 1])), Cancel(d1, NoKey),
     Submit(d2, NoKey, Stock(Move(pA, -1))), Submit(d2, k1, Stock(Move(pB, -1))),
     Cancel(d2, k1),
     Submit(d3, k1, Stock(Move(pA, -1))),
     Submit(d4, NoKey, TillSale("A", "T1", Move(pB, -1))),
     Submit(d5, NoKey, TillSale("B", "T1", NoMoves)),
     Submit(d5, NoKey, TillSale("B", " T1", NoMoves))}
-----------------------------------------------------------------------------
(* Guards re-checked in the commit: a deposit of 2 that two payments of 2   *)
(* and 1 apply, and give back, while it may be cancelled, and a books lock  *)
(* that comes and goes.                                                     *)

GuardDocs == {d1, d2, d3}

GuardDoctype ==
    d1 :> "Customer Deposit" @@ d2 :> "Payment Entry" @@ d3 :> "Payment Entry"

Deposit(n) == [Plain EXCEPT !.amount = n, !.party = "C"]

Application(n) == [Deposit(n) EXCEPT !.deposit = d1]

GuardCommands ==
    {Submit(d1, NoKey, Deposit(2)), Cancel(d1, NoKey),
     Submit(d2, NoKey, Application(2)), Cancel(d2, NoKey),
     Submit(d3, NoKey, Application(1)), Cancel(d3, NoKey)}

-----------------------------------------------------------------------------
(* Settlement: an invoice of 2, issuing a unit of stock that is not there, *)
(* that payments of 2 and 1 settle and that may be cancelled.              *)

SettleDocs == {d1, d2, d3}

SettleDoctype ==
    d1 :> "Sales Invoice" @@ d2 :> "Payment Entry" @@ d3 :> "Payment Entry"

Payment(n) == [Plain EXCEPT !.amount = n, !.party = "C",
                            !.refs = {[inv |-> d1, amt |-> n]}]

SettleCommands ==
    {Submit(d1, k1, [Stock(Move(pA, -1)) EXCEPT !.amount = 2, !.party = "C"]),
     Cancel(d1, NoKey), Cancel(d1, k1),
     Submit(d2, NoKey, Payment(2)), Cancel(d2, NoKey),
     Submit(d3, NoKey, Payment(1)), Cancel(d3, NoKey)}
=============================================================================
