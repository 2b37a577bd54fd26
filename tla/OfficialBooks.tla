--------------------------- MODULE OfficialBooks ---------------------------
(***************************************************************************)
(* What the posting authority promises: every posting of a company happens *)
(* at once.  A submit or a cancel looks at the books as they are at that   *)
(* moment (is the document there, is its period open, is there stock) and  *)
(* writes all of its effects.  There are no requests, reads, retries or    *)
(* races here.                                                             *)
(***************************************************************************)
EXTENDS Integers, Sequences

CONSTANTS
    Docs, Doctypes,  \* documents and doctypes
    Doctype,         \* the doctype of a document
    Receipt,         \* the number an offline till printed on it
    Pairs,           \* (item, warehouse) pairs
    Payloads,        \* what is submitted
    Locks,           \* books-lock dates
    MayGoNegative,   \* whether the company ever allows negative stock
    NoNumber, NoBody, \* of a document that is not posted
    OnHand(_)        \* the stock that movements leave on hand

VARIABLES
    lock,                  \* the books lock
    status, number, body,  \* the documents
    series,                \* the last number of each doctype
    ledger, bins           \* stock movements and the stock on hand

bookVars == <<lock, status, number, body, series, ledger, bins>>

\* Stock moves as the document says, and what is on hand follows.  Only a
\* sale that is over already may take what is not there.
Move(d, reversal, moves, anyway) ==
    /\ ledger' = [p \in Pairs |->
                     IF moves[p] = 0 THEN ledger[p]
                     ELSE Append(ledger[p], [doc |-> d, rev |-> reversal, qty |-> moves[p]])]
    /\ bins' = [p \in Pairs |-> OnHand(ledger'[p])]
    /\ \A p \in Pairs : moves[p] # 0 /\ bins'[p] < 0 => anyway \/ MayGoNegative

\* A document is submitted once, in an open period, under a number no other
\* document of its doctype has: the next of the series or the till's.
Submit(d, b) ==
    LET t == Doctype[d]
        n == IF b.offline THEN Receipt[d] ELSE series[t] + 1
    IN  /\ status[d] = 0 /\ b.date > lock
        /\ \A e \in Docs : Doctype[e] = t => number[e] # n
        /\ status' = [status EXCEPT ![d] = 1]
        /\ number' = [number EXCEPT ![d] = n]
        /\ body' = [body EXCEPT ![d] = b]
        /\ series' = IF b.offline THEN series ELSE [series EXCEPT ![t] = @ + 1]
        /\ Move(d, FALSE, b.moves, b.offline)
        /\ UNCHANGED lock

\* A submitted document is cancelled once, in an open period; exactly what it
\* moved moves back, and its number stays its own.
Cancel(d) ==
    /\ status[d] = 1 /\ body[d].date > lock
    /\ status' = [status EXCEPT ![d] = 2]
    /\ Move(d, TRUE, [p \in Pairs |-> -body[d].moves[p]], FALSE)
    /\ UNCHANGED <<lock, number, body, series>>

SetLock(l) == lock' = l /\ UNCHANGED <<status, number, body, series, ledger, bins>>

Init ==
    /\ lock = 0
    /\ status = [d \in Docs |-> 0]
    /\ number = [d \in Docs |-> NoNumber]
    /\ body = [d \in Docs |-> NoBody]
    /\ series = [t \in Doctypes |-> 0]
    /\ ledger = [p \in Pairs |-> <<>>]
    /\ bins = [p \in Pairs |-> OnHand(<<>>)]

Next ==
    \/ \E d \in Docs, b \in Payloads : Submit(d, b)
    \/ \E d \in Docs : Cancel(d)
    \/ \E l \in Locks : SetLock(l)

Spec == Init /\ [][Next]_bookVars
=============================================================================
