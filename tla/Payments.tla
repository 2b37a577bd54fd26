------------------------------ MODULE Payments ------------------------------
(***************************************************************************)
(* Payment links and the Stripe webhook behind them (src/pay.rs, and the   *)
(* webhook intake of src/api.rs), for one invoice and its pay link.        *)
(*                                                                         *)
(* The provider delivers a verified checkout event at least once, also     *)
(* while an earlier delivery is still being handled, and stops retrying    *)
(* after a 2xx answer; one action is one awaited store call of a handler.  *)
(*                                                                         *)
(* Abstractions.  Only verified, well-formed events for a minted link are  *)
(* delivered.  The build of the posting engine is one step here and the    *)
(* payments and cancellations of other clients are atomic: PostingAuthority*)
(* takes them apart; the payments of others are dated after the books lock.*)
(* Audit rows are left out.                                                *)
(***************************************************************************)
EXTENDS Integers, Sequences, FiniteSets, FiniteSetsExt

CONSTANTS
    Handlers,       \* request handlers that may run at the same time
    Events,         \* checkout events
    Amount,         \* amount_total of an event
    Date,           \* the day it was created: the payment's posting_date
    InvoiceDate,    \* posting_date of the invoice
    Locks,          \* the days the books may be locked through, 0 = not locked
    MAX_RETRIES,    \* builds before a stale commit is given up (bound: code 16)
    Total,          \* grand_total of the invoice
    OtherAmounts,   \* payments other clients may allocate to the invoice
    BacklogMax,     \* ATLAS_WEBHOOK_BACKLOG_MAX, 0 = unlimited
    MaxFaults,      \* bound: handlers cut off, deliveries after a 2xx answer
    Nothing         \* the job of an idle handler

ASSUME HandlersAssumption == IsFiniteSet(Handlers) /\ Handlers # {}

ASSUME EventsAssumption ==
    /\ Nothing \notin Events /\ Amount \in [Events -> Nat \ {0}]
    /\ Date \in [Events -> Nat \ {0}]

ASSUME AmountsAssumption ==
    /\ Total \in Nat \ {0} /\ OtherAmounts \subseteq Nat \ {0}
    /\ BacklogMax \in Nat /\ MaxFaults \in Nat
    /\ InvoiceDate \in Nat \ {0} /\ 0 \in Locks /\ Locks \subseteq Nat
    /\ MAX_RETRIES \in Nat \ {0}

VARIABLES
    link,           \* pay_links: the invoice's link
    invoice,        \* documents: docstatus of the invoice
    outstanding,    \* its payload's outstanding_amount
    booked,         \* the Stripe payments in the order they were posted
    cancelled,      \* the ids of those cancelled since
    other,          \* what other payments settled
    keys,           \* idempotency keys that hold a response
    lock,           \* company_settings: books_lock_date
    inbox,          \* number of webhook_events rows of the provider
    charged, acked, \* the provider: charges made, charges answered 2xx
    faults,         \* counter for the bound
    pc, job,        \* handlers: where each is, and the event
    alloc, upd,     \* allocation it asks for, outstanding its build computed
    builds          \* how often it has built

bookVars == <<invoice, outstanding, booked, cancelled, other, keys, lock>>
providerVars == <<charged, acked, faults>>
vars == <<link, bookVars, providerVars, inbox, pc, job, alloc, upd, builds>>

-----------------------------------------------------------------------------
(* Links.                                                                  *)

Usable == link = "live"

\* A pay link is only minted for a submitted invoice.
create_link ==
    /\ link = "none" /\ invoice = 1
    /\ link' = "live"
    /\ UNCHANGED <<bookVars, providerVars, inbox, pc, job, alloc, upd, builds>>

revoke_link ==
    /\ link # "none"
    /\ link' = "revoked"
    /\ UNCHANGED <<bookVars, providerVars, inbox, pc, job, alloc, upd, builds>>

\* Time passes expires_at.
Expire ==
    /\ link = "live"
    /\ link' = "expired"
    /\ UNCHANGED <<bookVars, providerVars, inbox, pc, job, alloc, upd, builds>>

-----------------------------------------------------------------------------
(* The books, as other clients move them.                                  *)

\* The net of the settlement rows stored against the invoice.
Settled ==
    other + SumFunction([i \in DOMAIN booked |->
                            IF booked[i].id \in cancelled THEN 0 ELSE booked[i].amt])

\* A posting_date the books lock does not cover (check_period_lock).
Open(date) == date > lock

\* The owner locks a period, or opens it again.
set_books_lock(l) ==
    /\ l # lock
    /\ lock' = l
    /\ UNCHANGED <<link, invoice, outstanding, booked, cancelled, other, keys,
                   providerVars, inbox, pc, job, alloc, upd, builds>>

OtherPayment(a) ==
    /\ invoice = 1 /\ a <= Total - Settled
    /\ other' = other + a
    /\ outstanding' = Total - Settled - a
    /\ UNCHANGED <<link, invoice, booked, cancelled, keys, lock, providerVars,
                   inbox, pc, job, alloc, upd, builds>>

\* cancel-document on a posted Stripe payment; its key stays used.
CancelPayment(i) ==
    /\ invoice = 1 /\ booked[i].id \notin cancelled /\ Open(Date[booked[i].event])
    /\ cancelled' = cancelled \cup {booked[i].id}
    /\ outstanding' = Total - Settled + booked[i].amt
    /\ UNCHANGED <<link, invoice, booked, other, keys, lock, providerVars,
                   inbox, pc, job, alloc, upd, builds>>

CancelInvoice ==
    /\ invoice = 1 /\ Settled = 0 /\ Open(InvoiceDate)
    /\ invoice' = 2
    /\ UNCHANGED <<link, outstanding, booked, cancelled, other, keys, lock,
                   providerVars, inbox, pc, job, alloc, upd, builds>>

-----------------------------------------------------------------------------
(* Handlers.                                                               *)

Goto(h, phase) == pc' = [pc EXCEPT ![h] = phase] /\ UNCHANGED <<job, alloc, upd, builds>>

\* The handler returns and its locals are gone.
Answer(h) ==
    /\ pc' = [pc EXCEPT ![h] = "idle"]
    /\ job' = [job EXCEPT ![h] = Nothing]
    /\ alloc' = [alloc EXCEPT ![h] = 0]
    /\ upd' = [upd EXCEPT ![h] = 0]
    /\ builds' = [builds EXCEPT ![h] = 0]

\* It returns a 2xx (handled or not), which stops the provider's retries.
Final(h) ==
    /\ Answer(h)
    /\ acked' = acked \cup {job[h]}
    /\ UNCHANGED <<charged, faults>>

\* Mutant: the engine picks an id and the key names the delivery.
PaymentOfMutant(h) == <<job[h], h>>

\* The payment's document id (PAY-STRIPE-{event id}) and idempotency key
\* (stripe-{event id}) are both derived from the event.
PaymentOf(h) == job[h]

Posted(id) == \E i \in DOMAIN booked : booked[i].id = id

\* The customer pays on the provider's page.
Charge(e) ==
    /\ e \notin charged /\ link # "none"
    /\ charged' = charged \cup {e}
    /\ UNCHANGED <<link, bookVars, inbox, acked, faults, pc, job, alloc, upd, builds>>

Begin(h, e) ==
    /\ pc[h] = "idle"
    /\ pc' = [pc EXCEPT ![h] = "intake"]
    /\ job' = [job EXCEPT ![h] = e]
    /\ UNCHANGED <<link, bookVars, inbox, charged, acked, alloc, upd, builds>>

\* POST /webhooks/payments/stripe: a first delivery or a retry.
Deliver(h, e) ==
    /\ e \in charged /\ e \notin acked
    /\ Begin(h, e)
    /\ UNCHANGED faults

\* A duplicate that arrives although the event was answered.
Stray(h, e) ==
    /\ e \in acked /\ faults < MaxFaults
    /\ Begin(h, e)
    /\ faults' = faults + 1

\* Mutant: refused one row late.
FullMutant == BacklogMax > 0 /\ inbox > BacklogMax

Full == BacklogMax > 0 /\ inbox >= BacklogMax

\* check_webhook_backlog counts; insert_webhook_event is a later statement.
CheckBacklog(h) ==
    /\ pc[h] = "intake"
    /\ \/ Full /\ Answer(h)
       \/ ~Full /\ Goto(h, "log")
    /\ UNCHANGED <<link, bookVars, providerVars, inbox>>

LogEvent(h) ==
    /\ pc[h] = "log"
    /\ inbox' = inbox + 1
    /\ Goto(h, "link")
    /\ UNCHANGED <<link, bookVars, providerVars>>

ResolveLink(h) ==
    /\ pc[h] = "link"
    /\ \/ ~Usable /\ Final(h)
       \/ Usable /\ Goto(h, "invoice") /\ UNCHANGED providerVars
    /\ UNCHANGED <<link, bookVars, inbox>>

\* Mutant: the whole charge is allocated.
AllocationMutant(h) == Amount[job[h]]

\* paid_amount.min(outstanding).
Allocation(h) == IF Amount[job[h]] < outstanding THEN Amount[job[h]] ELSE outstanding

\* posted_document: the stored outstanding caps the allocation.
ReadInvoice(h) ==
    /\ pc[h] = "invoice"
    /\ \/ invoice # 1 /\ Final(h)
       \/ /\ invoice = 1
          /\ pc' = [pc EXCEPT ![h] = "replay"]
          /\ alloc' = [alloc EXCEPT ![h] = Allocation(h)]
          /\ UNCHANGED <<providerVars, job, upd, builds>>
    /\ UNCHANGED <<link, bookVars, inbox>>

\* Mutant: a redelivery is not told from a new event.
is_replayMutant(h) == FALSE

is_replay(h) == PaymentOf(h) \in keys

\* idempotent_response, read after the invoice: an event this server already
\* posted is not rejected because the invoice it settled reads as paid.
CheckReplay(h) ==
    /\ pc[h] = "replay"
    /\ \/ ~is_replay(h) /\ alloc[h] <= 0 /\ Final(h)
       \/ (is_replay(h) \/ alloc[h] > 0) /\ Goto(h, "engine") /\ UNCHANGED providerVars
    /\ UNCHANGED <<link, bookVars, inbox>>

\* engine_submit looks its key up first ...
EngineReplay(h) ==
    /\ pc[h] = "engine"
    /\ Goto(h, IF PaymentOf(h) \in keys THEN "told" ELSE "build")
    /\ UNCHANGED <<link, bookVars, providerVars, inbox>>

\* ... then builds: a posting_date in a locked period is a 422, a document
\* already there a 409, an invoice no longer submitted or with less left than
\* the allocation a 422.
EngineBuild(h) ==
    /\ pc[h] = "build"
    /\ LET refuse == \/ ~Open(Date[job[h]])
                     \/ Posted(PaymentOf(h))
                     \/ invoice # 1
                     \/ alloc[h] > Total - Settled
       IN  \/ refuse /\ Answer(h)
           \/ /\ ~refuse
              /\ pc' = [pc EXCEPT ![h] = "commit"]
              /\ upd' = [upd EXCEPT ![h] = Total - Settled - alloc[h]]
              /\ builds' = [builds EXCEPT ![h] = @ + 1]
              /\ UNCHANGED <<job, alloc>>
    /\ UNCHANGED <<link, bookVars, providerVars, inbox>>

\* A commit that was overtaken is built again, MAX_RETRIES builds in all.
Stale(h) ==
    \/ builds[h] < MAX_RETRIES /\ Goto(h, "build")
    \/ builds[h] = MAX_RETRIES /\ Answer(h)

\* posting_commit: the key again, the books lock again, the document again,
\* and the rows.
EngineCommit(h) ==
    /\ pc[h] = "commit"
    /\ \/ /\ PaymentOf(h) \in keys
          /\ Goto(h, "told")
          /\ UNCHANGED bookVars
       \/ /\ PaymentOf(h) \notin keys /\ ~Open(Date[job[h]])
          /\ Stale(h)
          /\ UNCHANGED bookVars
       \/ /\ PaymentOf(h) \notin keys /\ Open(Date[job[h]]) /\ Posted(PaymentOf(h))
          /\ Answer(h)
          /\ UNCHANGED bookVars
       \/ /\ PaymentOf(h) \notin keys /\ Open(Date[job[h]]) /\ ~Posted(PaymentOf(h))
          /\ booked' = Append(booked, [id |-> PaymentOf(h), event |-> job[h], amt |-> alloc[h]])
          /\ keys' = keys \cup {PaymentOf(h)}
          /\ outstanding' = upd[h]
          /\ Goto(h, "told")
          /\ UNCHANGED <<invoice, cancelled, other, lock>>
    /\ UNCHANGED <<link, providerVars, inbox>>

\* The audit row, then the answer.
Tell(h) ==
    /\ pc[h] = "told"
    /\ Final(h)
    /\ UNCHANGED <<link, bookVars, inbox>>

-----------------------------------------------------------------------------
\* The connection drops at an await and the handler's future with it.
Drop(h) ==
    /\ pc[h] # "idle" /\ faults < MaxFaults
    /\ Answer(h)
    /\ faults' = faults + 1
    /\ UNCHANGED <<link, bookVars, inbox, charged, acked>>

\* The operator empties a full inbox.
Prune ==
    /\ Full
    /\ inbox' = 0
    /\ UNCHANGED <<link, bookVars, providerVars, pc, job, alloc, upd, builds>>

Init ==
    /\ link = "none"
    /\ invoice = 1 /\ outstanding = Total
    /\ booked = <<>> /\ cancelled = {} /\ other = 0 /\ keys = {} /\ lock = 0
    /\ inbox = 0
    /\ charged = {} /\ acked = {} /\ faults = 0
    /\ pc = [h \in Handlers |-> "idle"]
    /\ job = [h \in Handlers |-> Nothing]
    /\ alloc = [h \in Handlers |-> 0]
    /\ upd = [h \in Handlers |-> 0]
    /\ builds = [h \in Handlers |-> 0]

Step(h) ==
    \/ CheckBacklog(h) \/ LogEvent(h) \/ ResolveLink(h) \/ ReadInvoice(h)
    \/ CheckReplay(h) \/ EngineReplay(h) \/ EngineBuild(h) \/ EngineCommit(h)
    \/ Tell(h)

Next ==
    \/ create_link \/ revoke_link \/ Expire
    \/ \E a \in OtherAmounts : OtherPayment(a)
    \/ \E i \in DOMAIN booked : CancelPayment(i)
    \/ CancelInvoice
    \/ \E l \in Locks : set_books_lock(l)
    \/ \E e \in Events : Charge(e)
    \/ \E h \in Handlers, e \in Events : Deliver(h, e) \/ Stray(h, e)
    \/ \E h \in Handlers : Step(h) \/ Drop(h)
    \/ Prune

Spec == Init /\ [][Next]_vars

\* A running handler is polled until it answers, the provider retries what
\* was not answered 2xx, and an operator empties an inbox that is full.
FairSpec ==
    /\ Spec
    /\ \A h \in Handlers : WF_vars(Step(h))
    /\ \A e \in Events : SF_vars(\E h \in Handlers : Deliver(h, e))
    /\ WF_vars(Prune)

-----------------------------------------------------------------------------
(* What makes card payments correct.                                       *)

\* A charge is booked at most once, however often, and however concurrently,
\* its event is delivered, where its handler is cut off, and whether the
\* payment was cancelled since ("event redeliveries [are] replays, never
\* double postings").
ChargeBookedOnce ==
    \A i, j \in DOMAIN booked : booked[i].event = booked[j].event => i = j

\* An event is rejected for want of an outstanding amount only when it was
\* not booked itself: a redelivery of the charge that paid the invoice is
\* never told that nothing was posted (the order of the two reads before
\* is_replay).
PaidRejectionHonest ==
    [][\A h \in Handlers : pc[h] = "replay" /\ pc'[h] = "idle" /\ faults' = faults
          => \A i \in DOMAIN booked : booked[i].event # job[h]]_vars

\* The cap on stored events is overrun at most by the handlers that counted
\* before one another's insert (check_webhook_backlog, insert_webhook_event).
InboxBounded == BacklogMax > 0 => inbox <= BacklogMax + Cardinality(Handlers) - 1

\* A charge is finally answered 2xx, provided that the outstanding amount
\* stored on the invoice is right in the end and that its day does not stay
\* locked: refused, stale, failed and cut deliveries are retried and none else
\* fails for ever.  While a lost update leaves the stored amount above what is
\* left, every delivery asks for too much; and a charge dated in a period that
\* was locked since, or locked when it came, is a 422 on every redelivery
\* (check_period_lock of the payment that stripe_webhook dates by the event).
EveryChargeAnswered ==
    \A e \in Events :
        <>[](outstanding = Total - Settled) /\ <>[]Open(Date[e])
        => (e \in charged ~> e \in acked)
=============================================================================
