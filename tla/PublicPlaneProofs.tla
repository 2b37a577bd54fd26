------------------------- MODULE PublicPlaneProofs -------------------------
(***************************************************************************)
(* Proofs about what strangers reach.  The Stripe webhook, for any number  *)
(* of handlers and events: a charge is booked once, a redelivery is        *)
(* recognised, and the inbox is overrun by at most the other handlers.     *)
(* The portal's decisions, for any number of customers, concurrent         *)
(* requests and devices.  And the limiter in front of both, which keeps    *)
(* its budget and its word for every budget, every number of clients and   *)
(* of concurrent requests, and every length of time.                       *)
(*                                                                         *)
(* The budget is an amortised bound.  Once a request of the window was     *)
(* admitted, what was spent and what is left in the bucket together are at *)
(* most the capacity and what flowed in until the bucket's own clock.  A   *)
(* bucket that was swept away had been idle long enough to refill before   *)
(* any request that can still come reads the clock.                        *)
(***************************************************************************)
EXTENDS Payments, Portal, RateLimiter, FiniteSetTheorems, SequenceTheorems, TLAPS

-----------------------------------------------------------------------------
(* The ids of the booked payments are their events, used keys, and         *)
(* pairwise different.                                                     *)

IsSequence(s) == \E S : s \in Seq(S)

BookedUnderKeys ==
    \A i \in DOMAIN booked : booked[i].id = booked[i].event /\ booked[i].id \in keys

BookedOnce == \A i, j \in DOMAIN booked : booked[i].id = booked[j].id => i = j

BookInv ==
    /\ IsSequence(booked)
    /\ DOMAIN pc = Handlers
    /\ faults \in Nat
    /\ BookedUnderKeys
    /\ BookedOnce

\* Of all steps only a commit under a new key books a payment, and it books
\* the one whose id and key are its event.
LEMMA OnlyCommitsBook ==
    Next => \/ booked' = booked /\ keys' = keys
            \/ \E h \in Handlers : \E a :
                  /\ ~Posted(job[h])
                  /\ booked' = Append(booked, [id |-> job[h], event |-> job[h], amt |-> a])
                  /\ keys' = keys \cup {job[h]}
  <1> SUFFICES ASSUME Next, ~(booked' = booked /\ keys' = keys)
               PROVE \E h \in Handlers : \E a :
                  /\ ~Posted(job[h])
                  /\ booked' = Append(booked, [id |-> job[h], event |-> job[h], amt |-> a])
                  /\ keys' = keys \cup {job[h]}
    OBVIOUS
  <1>1. \E h \in Handlers : EngineCommit(h)
    BY DEF Next, create_link, revoke_link, Expire, OtherPayment, CancelPayment,
           CancelInvoice, set_books_lock, Charge, Deliver, Stray, Begin, Step, CheckBacklog, LogEvent,
           ResolveLink, ReadInvoice, CheckReplay, EngineReplay, EngineBuild, Tell, Drop,
           Prune, bookVars
  <1>2. PICK h \in Handlers : EngineCommit(h)
    BY <1>1
  <1> QED BY <1>2 DEF EngineCommit, PaymentOf, bookVars

\* Every step leaves the program counters a function on the handlers.
LEMMA CountersStay ==
    ASSUME DOMAIN pc = Handlers, [Next]_vars PROVE DOMAIN pc' = Handlers
  BY DEF Next, create_link, revoke_link, Expire, OtherPayment, CancelPayment,
         CancelInvoice, set_books_lock, Charge, Deliver, Stray, Begin, Step, CheckBacklog, LogEvent,
         ResolveLink, ReadInvoice, CheckReplay, EngineReplay, EngineBuild, EngineCommit, Stale,
         Tell, Drop, Prune, Answer, Goto, Final, vars

\* A step adds at most one fault.
LEMMA FaultsCount == [Next]_vars => faults' = faults \/ faults' = faults + 1
  BY DEF Next, create_link, revoke_link, Expire, OtherPayment, CancelPayment,
         CancelInvoice, set_books_lock, Charge, Deliver, Stray, Begin, Step, CheckBacklog, LogEvent,
         ResolveLink, ReadInvoice, CheckReplay, EngineReplay, EngineBuild, EngineCommit, Stale,
         Tell, Drop, Prune, Final, vars, providerVars

\* Nothing is booked before the first delivery.
LEMMA BookInit == Init => BookInv
  BY EmptySeq DEF Init, BookInv, IsSequence, BookedUnderKeys, BookedOnce

\* A commit books under an unused key, so the ids stay pairwise different.
LEMMA BookStep == BookInv /\ [Next]_vars => BookInv'
  <1> SUFFICES ASSUME BookInv, [Next]_vars PROVE BookInv'
    OBVIOUS
  <1>1. DOMAIN pc' = Handlers /\ faults' \in Nat
    BY CountersStay, FaultsCount DEF BookInv
  <1>2. CASE booked' = booked /\ keys' = keys
    BY <1>1, <1>2 DEF BookInv, IsSequence, BookedUnderKeys, BookedOnce
  <1>3. CASE ~(booked' = booked /\ keys' = keys)
    <2>1. Next
      BY <1>3 DEF vars, bookVars
    <2>0. PICK h \in Handlers : \E a :
             /\ ~Posted(job[h])
             /\ booked' = Append(booked, [id |-> job[h], event |-> job[h], amt |-> a])
             /\ keys' = keys \cup {job[h]}
      BY <1>3, <2>1, OnlyCommitsBook
    <2>2. PICK a :
             /\ ~Posted(job[h])
             /\ booked' = Append(booked, [id |-> job[h], event |-> job[h], amt |-> a])
             /\ keys' = keys \cup {job[h]}
      BY <2>0
    <2> DEFINE new == [id |-> job[h], event |-> job[h], amt |-> a]
    <2>3. PICK S : booked \in Seq(S)
      BY DEF BookInv, IsSequence
    <2>4. booked \in Seq(S \cup {new})
      BY <2>3
    <2>5. /\ booked' \in Seq(S \cup {new})
          /\ DOMAIN booked' = DOMAIN booked \cup {Len(booked) + 1}
          /\ \A i \in DOMAIN booked : booked'[i] = booked[i]
          /\ booked'[Len(booked) + 1] = new
      BY <2>2, <2>4
    <2>6. BookedUnderKeys'
      BY <2>2, <2>5 DEF BookInv, BookedUnderKeys
    <2>7. \A i \in DOMAIN booked : booked[i].id # job[h]
      BY <2>2 DEF Posted
    <2>8. BookedOnce'
      BY <2>5, <2>7 DEF BookInv, BookedOnce
    <2> QED BY <1>1, <2>5, <2>6, <2>8 DEF BookInv, IsSequence
  <1> QED BY <1>2, <1>3

\* A charge is booked at most once, for any number of concurrent and repeated
\* deliveries (the document id and key that stripe_webhook derives).
THEOREM ChargeBookedOnceCorrect == Spec => []ChargeBookedOnce
  <1>1. BookInv => ChargeBookedOnce
    BY DEF BookInv, BookedUnderKeys, BookedOnce, ChargeBookedOnce
  <1> QED BY <1>1, BookInit, BookStep, PTL DEF Spec

\* An event that is rejected for want of an outstanding amount was not booked
\* (the key lookup of stripe_webhook comes after the invoice read).
THEOREM PaidRejectionHonestCorrect == Spec => PaidRejectionHonest
  <1> DEFINE Honest == \A h \in Handlers :
                pc[h] = "replay" /\ pc'[h] = "idle" /\ faults' = faults
                => \A i \in DOMAIN booked : booked[i].event # job[h]
  <1>1. BookInv /\ [Next]_vars => [Honest]_vars
    <2> SUFFICES ASSUME BookInv, Next, NEW h \in Handlers,
                        pc[h] = "replay", pc'[h] = "idle", faults' = faults
                 PROVE \A i \in DOMAIN booked : booked[i].event # job[h]
      BY DEF vars
    <2>1. PICK k \in Handlers : Step(k) \/ Drop(k) \/ (\E e \in Events : Begin(k, e))
      BY DEF Next, create_link, revoke_link, Expire, OtherPayment, CancelPayment,
             CancelInvoice, set_books_lock, Charge, Deliver, Stray, Prune
    <2>2. ~Drop(k)
      BY DEF Drop, BookInv
    <2>3. k = h
      BY <2>1, <2>2 DEF BookInv, Begin, Step, CheckBacklog, LogEvent, ResolveLink,
             ReadInvoice, CheckReplay, EngineReplay, EngineBuild, EngineCommit, Stale, Tell,
             Answer, Goto, Final
    <2>4. CheckReplay(h)
      BY <2>1, <2>2, <2>3 DEF Begin, Step, CheckBacklog, LogEvent, ResolveLink, ReadInvoice,
             EngineReplay, EngineBuild, EngineCommit, Stale, Goto, Answer, Tell
    <2>5. job[h] \notin keys
      BY <2>4 DEF CheckReplay, Goto, is_replay, PaymentOf, BookInv
    <2> QED BY <2>5 DEF BookInv, BookedUnderKeys
  <1>2. Spec => [][Honest]_vars
    <2> HIDE DEF Honest
    <2> QED BY <1>1, BookInit, BookStep, PTL DEF Spec
  <1> QED BY <1>2 DEF PaidRejectionHonest

-----------------------------------------------------------------------------
(* The inbox.  Its rows and the handlers that counted and have not inserted *)
(* yet stay within the bound together.                                      *)

Counted == {h \in Handlers : pc[h] = "log"}

InboxInv ==
    /\ DOMAIN pc = Handlers
    /\ inbox \in Nat
    /\ BacklogMax > 0 =>
          inbox + Cardinality(Counted) <= BacklogMax + Cardinality(Handlers) - 1

\* What a step does to the inbox and to the handlers that have counted.
LEMMA InboxMoves ==
    ASSUME DOMAIN pc = Handlers, [Next]_vars
    PROVE  \/ inbox' = inbox /\ Counted' \subseteq Counted
           \/ inbox' = inbox /\ ~Full
           \/ inbox' = 0 /\ Full
           \/ \E h \in Counted : inbox' = inbox + 1 /\ Counted' = Counted \ {h}
  <1>1. CASE UNCHANGED <<inbox, pc>>
    BY <1>1 DEF Counted
  <1>2. CASE Prune
    BY <1>2 DEF Prune
  <1>3. ASSUME NEW h \in Handlers, CheckBacklog(h)
        PROVE  \/ inbox' = inbox /\ Counted' \subseteq Counted
               \/ inbox' = inbox /\ ~Full
    BY <1>3 DEF CheckBacklog, Answer, Goto, Counted
  <1>4. ASSUME NEW h \in Handlers, LogEvent(h)
        PROVE  h \in Counted /\ inbox' = inbox + 1 /\ Counted' = Counted \ {h}
    BY <1>4 DEF LogEvent, Goto, Counted
  <1>5. ASSUME NEW h \in Handlers,
               \/ ResolveLink(h) \/ ReadInvoice(h) \/ CheckReplay(h) \/ EngineReplay(h)
               \/ EngineBuild(h) \/ EngineCommit(h) \/ Tell(h) \/ Drop(h)
               \/ \E e \in Events : Begin(h, e)
        PROVE  inbox' = inbox /\ Counted' \subseteq Counted
    <2>1. inbox' = inbox
      BY <1>5 DEF ResolveLink, ReadInvoice, CheckReplay, EngineReplay, EngineBuild,
                  EngineCommit, Tell, Drop, Begin
    <2>2. \E phase : phase # "log" /\ pc' = [pc EXCEPT ![h] = phase]
      BY <1>5 DEF ResolveLink, ReadInvoice, CheckReplay, EngineReplay, EngineBuild,
                  EngineCommit, Stale, Tell, Drop, Begin, Answer, Final, Goto
    <2> QED BY <2>1, <2>2 DEF Counted
  <1>6. \/ UNCHANGED <<inbox, pc>>
        \/ Prune
        \/ \E h \in Handlers :
              \/ CheckBacklog(h) \/ LogEvent(h) \/ ResolveLink(h) \/ ReadInvoice(h)
              \/ CheckReplay(h) \/ EngineReplay(h) \/ EngineBuild(h) \/ EngineCommit(h)
              \/ Tell(h) \/ Drop(h) \/ \E e \in Events : Begin(h, e)
    BY DEF Next, Step, vars, create_link, revoke_link, Expire, OtherPayment,
           CancelPayment, CancelInvoice, set_books_lock, Charge, Deliver, Stray
  <1> QED BY <1>1, <1>2, <1>3, <1>4, <1>5, <1>6

\* A handler is counted before its row is stored, and an insert trades the one
\* for the other.
LEMMA InboxStep == InboxInv /\ [Next]_vars => InboxInv'
  <1> SUFFICES ASSUME InboxInv, [Next]_vars PROVE InboxInv'
    OBVIOUS
  <1>1. /\ IsFiniteSet(Counted) /\ IsFiniteSet(Counted')
        /\ Cardinality(Counted) \in Nat /\ Cardinality(Counted') \in Nat
        /\ Cardinality(Counted') <= Cardinality(Handlers)
        /\ Cardinality(Handlers) \in Nat
    <2>1. Counted \in SUBSET Handlers /\ Counted' \in SUBSET Handlers
      BY DEF Counted
    <2> QED BY <2>1, HandlersAssumption, FS_Subset, FS_CardinalityType
  <1>2. DOMAIN pc' = Handlers
    BY CountersStay DEF InboxInv
  <1>3. CASE inbox' = inbox /\ Counted' \subseteq Counted
    <2>1. Cardinality(Counted') <= Cardinality(Counted)
      BY <1>1, <1>3, FS_Subset
    <2> QED BY <1>1, <1>2, <1>3, <2>1, AmountsAssumption DEF InboxInv
  <1>4. CASE inbox' = inbox /\ ~Full
    BY <1>1, <1>2, <1>4, AmountsAssumption DEF InboxInv, Full
  <1>5. CASE inbox' = 0 /\ Full
    BY <1>1, <1>2, <1>5, AmountsAssumption DEF InboxInv, Full
  <1>6. ASSUME NEW h \in Counted, inbox' = inbox + 1, Counted' = Counted \ {h}
        PROVE  InboxInv'
    <2>1. Cardinality(Counted') = Cardinality(Counted) - 1
      BY <1>1, <1>6, FS_RemoveElement
    <2> QED BY <1>1, <1>2, <1>6, <2>1, AmountsAssumption DEF InboxInv
  <1> QED BY <1>3, <1>4, <1>5, <1>6, InboxMoves DEF InboxInv

\* The inbox starts empty and no handler has counted it.
LEMMA InboxInit == Init => InboxInv
  <1> SUFFICES ASSUME Init PROVE InboxInv
    OBVIOUS
  <1>1. Counted = {}
    BY DEF Init, Counted
  <1>2. Cardinality(Counted) = 0
    BY <1>1, FS_EmptySet
  <1>3. Cardinality(Handlers) \in Nat /\ Cardinality(Handlers) # 0
    BY HandlersAssumption, FS_CardinalityType, FS_EmptySet
  <1> QED BY <1>2, <1>3, AmountsAssumption DEF Init, InboxInv

\* The stored events exceed the cap by fewer than there are handlers, whatever
\* is delivered, cut off and pruned (check_webhook_backlog counts before
\* insert_webhook_event).
THEOREM InboxBoundedCorrect == Spec => []InboxBounded
  <1>1. InboxInv => InboxBounded
    <2> SUFFICES ASSUME InboxInv PROVE InboxBounded
      OBVIOUS
    <2>1. Cardinality(Counted) \in Nat /\ Cardinality(Handlers) \in Nat
      <3>1. Counted \in SUBSET Handlers
        BY DEF Counted
      <3> QED BY <3>1, HandlersAssumption, FS_Subset, FS_CardinalityType
    <2> QED BY <2>1, AmountsAssumption DEF InboxInv, InboxBounded
  <1> QED BY <1>1, InboxInit, InboxStep, PTL DEF Spec

-----------------------------------------------------------------------------
(* The portal's decisions.                                                 *)

Quotation == [customer : Customers, decided : {{}, {"accept"}, {"reject"}}]

\* The quotation, its copies and what handlers hold are well formed.
PortalTyped ==
    /\ quote \in Quotation /\ copy \in [Devices -> Quotation] /\ logged \subseteq Verbs
    /\ DOMAIN stage = Requests /\ DOMAIN party = Requests
    /\ DOMAIN verb = Requests /\ DOMAIN base = Requests
    /\ \A h \in Requests : stage[h] # "idle" => verb[h] \in Verbs

\* A request that is about to push has read an undecided quotation.
ReadChecked ==
    \A h \in Requests : stage[h] = "push" =>
        base[h] \in Quotation /\ base[h].decided = {}

\* Every decision that the quotation or a copy of it shows is on the log.
DecisionsLogged ==
    /\ quote.decided \subseteq logged
    /\ \A d \in Devices : copy[d].decided \subseteq logged

PortalInv == PortalTyped /\ ReadChecked /\ DecisionsLogged

\* A step of a handler leaves the locals of the others alone.
Others(h) ==
    \A k \in Requests \ {h} : /\ stage'[k] = stage[k] /\ party'[k] = party[k]
                              /\ verb'[k] = verb[k] /\ base'[k] = base[k]

Domains ==
    /\ DOMAIN stage' = Requests /\ DOMAIN party' = Requests
    /\ DOMAIN verb' = Requests /\ DOMAIN base' = Requests

HandlerStep(h) ==
    \/ \E c \in Customers, v \in Verbs : Request(h, c, v)
    \/ resolve_link(h) \/ ReadQuotation(h) \/ PushDecision(h) \/ TellCustomer(h) \/ DropRequest(h)

\* The step of a handler leaves the locals of the others alone.
LEMMA HandlersApart ==
    ASSUME PortalTyped, NEW h \in Requests, HandlerStep(h)
    PROVE  Others(h) /\ Domains
  BY DEF PortalTyped, HandlerStep, Others, Domains, Request, resolve_link, ReadQuotation,
         PushDecision, TellCustomer, DropRequest, End, Proceed

\* The step of a handler keeps its own part of the invariant.
LEMMA OwnPart ==
    ASSUME PortalInv, NEW h \in Requests, HandlerStep(h)
    PROVE  /\ stage'[h] # "idle" => verb'[h] \in Verbs
           /\ stage'[h] = "push" => base'[h] \in Quotation /\ base'[h].decided = {}
  <1>1. ASSUME NEW c \in Customers, NEW v \in Verbs, Request(h, c, v)
        PROVE  stage'[h] = "link" /\ verb'[h] \in Verbs
    BY <1>1 DEF PortalInv, PortalTyped, Request
  <1>2. CASE resolve_link(h)
    BY <1>2 DEF PortalInv, PortalTyped, resolve_link, End, Proceed
  <1>3. CASE ReadQuotation(h)
    BY <1>3 DEF PortalInv, PortalTyped, ReadQuotation, End, Opposed, Repeated, Quotation, Verbs
  <1>4. CASE PushDecision(h)
    BY <1>4 DEF PortalInv, PortalTyped, PushDecision, Proceed
  <1>5. CASE TellCustomer(h) \/ DropRequest(h)
    BY <1>5 DEF PortalInv, PortalTyped, TellCustomer, DropRequest, End
  <1> QED BY <1>1, <1>2, <1>3, <1>4, <1>5 DEF HandlerStep

\* No request is under way at the start.
LEMMA PortalStart == PortalInit => PortalInv
  BY DEF PortalInit, PortalInv, PortalTyped, ReadChecked, DecisionsLogged, Quotation, NoQuotation

\* Every step, of a handler, a device or a link's owner, keeps the invariant.
LEMMA PortalKept == PortalInv /\ [PortalNext]_portalVars => PortalInv'
  <1> SUFFICES ASSUME PortalInv, [PortalNext]_portalVars PROVE PortalInv'
    OBVIOUS
  <1>1. ASSUME NEW h \in Requests, HandlerStep(h) PROVE PortalInv'
    <2>1. Others(h) /\ Domains
      BY <1>1, HandlersApart DEF PortalInv
    <2>2. /\ quote' \in Quotation /\ copy' = copy
          /\ logged \subseteq logged' /\ logged' \subseteq Verbs
          /\ quote'.decided \subseteq logged'
      <3>1. CASE PushDecision(h)
        <4>1. verb[h] \in Verbs /\ base[h] \in Quotation /\ base[h].decided = {}
          BY <3>1 DEF PushDecision, PortalInv, PortalTyped, ReadChecked
        <4>2. CASE Known(h)
          BY <3>1, <4>1, <4>2 DEF PushDecision, fold_mutation, PortalInv, PortalTyped,
                                  DecisionsLogged
        <4>3. CASE ~Known(h)
          <5>1. quote' = [base[h] EXCEPT !.decided = {verb[h]}]
            BY <3>1, <4>1, <4>3 DEF PushDecision, fold_mutation
          <5> QED BY <3>1, <4>1, <5>1 DEF PushDecision, PortalInv, PortalTyped, Quotation, Verbs
        <4> QED BY <4>2, <4>3
      <3>2. CASE ~PushDecision(h)
        BY <1>1, <3>2 DEF HandlerStep, Request, resolve_link, ReadQuotation, TellCustomer,
                          DropRequest, PortalInv, PortalTyped, DecisionsLogged
      <3> QED BY <3>1, <3>2
    <2>3. PortalTyped'
      BY <1>1, <2>1, <2>2, OwnPart DEF PortalInv, PortalTyped, Others, Domains
    <2>4. ReadChecked'
      BY <1>1, <2>1, OwnPart DEF PortalInv, ReadChecked, Others, Quotation
    <2>5. DecisionsLogged'
      BY <2>2 DEF PortalInv, DecisionsLogged
    <2> QED BY <2>3, <2>4, <2>5 DEF PortalInv
  <1> DEFINE Quiet == /\ UNCHANGED <<handlerVars, logged>>
                      /\ quote' \in Quotation /\ copy' \in [Devices -> Quotation]
                      /\ DecisionsLogged'
  <1>2. CASE Quiet
    BY <1>2 DEF PortalInv, PortalTyped, ReadChecked, handlerVars, Quotation
  <1>3. ASSUME NEW d \in Devices, NEW c \in Customers, Pull(d) \/ Edit(d, c)
        PROVE  Quiet
    BY <1>3 DEF Pull, Edit, fold_mutation, PortalInv, PortalTyped, DecisionsLogged, Quotation
  <1>4. ASSUME NEW c \in Customers,
               create_portal_link(c) \/ revoke_portal_link(c) \/ ExpirePortalLink(c)
        PROVE  Quiet
    BY <1>4 DEF create_portal_link, revoke_portal_link, ExpirePortalLink, PortalInv,
                PortalTyped, DecisionsLogged
  <1>5. CASE UNCHANGED portalVars
    BY <1>2, <1>5 DEF portalVars, PortalInv, PortalTyped, DecisionsLogged
  <1> QED BY <1>1, <1>2, <1>3, <1>4, <1>5 DEF PortalNext, HandlerStep

\* Only the push of a request itself takes it from "push" to "told".
LEMMA PushIsPush ==
    ASSUME PortalInv, PortalNext, NEW h \in Requests, stage[h] = "push", stage'[h] = "told"
    PROVE  PushDecision(h)
  <1>1. PICK k \in Requests : HandlerStep(k)
    BY DEF PortalNext, HandlerStep, create_portal_link, revoke_portal_link, ExpirePortalLink,
           Pull, Edit, handlerVars
  <1>2. k = h
    BY <1>1, HandlersApart DEF Others, PortalInv
  <1> QED BY <1>1, <1>2 DEF HandlerStep, Request, resolve_link, ReadQuotation, TellCustomer,
             DropRequest, End, PortalInv, PortalTyped

\* No interleaving of requests and devices leaves the quotation, or a copy,
\* accepted and rejected (quote_action pushes what it read undecided and
\* fold_mutation replaces the payload).
THEOREM OneDecisionCorrect == PortalSpec => []OneDecision
  <1>1. PortalInv => OneDecision
    BY DEF PortalInv, PortalTyped, OneDecision, Quotation, Verbs
  <1> QED BY <1>1, PortalStart, PortalKept, PTL DEF PortalSpec

\* The portal turns a decision round at most once, for any number of requests,
\* customers and devices: the overruled decision was the only one logged, and
\* afterwards both are (the mutation ids of quote_action).
THEOREM OverruledOnceCorrect == PortalSpec => OverruledOnce
  <1> DEFINE Once == \A h \in Requests :
                /\ stage[h] = "push" /\ stage'[h] = "told" /\ quote' # quote
                /\ Opposed(h)
                => logged = quote.decided /\ logged' = Verbs
  <1>1. PortalInv /\ [PortalNext]_portalVars => [Once]_portalVars
    <2> SUFFICES ASSUME PortalInv, PortalNext, NEW h \in Requests,
                        stage[h] = "push", stage'[h] = "told", quote' # quote, Opposed(h)
                 PROVE  logged = quote.decided /\ logged' = Verbs
      BY DEF portalVars
    <2>1. PushDecision(h)
      BY PushIsPush
    <2>2. verb[h] \in Verbs /\ verb[h] \notin logged
      BY <2>1 DEF PushDecision, fold_mutation, Known, PortalInv, PortalTyped
    <2>3. /\ quote.decided \subseteq logged /\ logged \subseteq Verbs
          /\ Verbs \ {verb[h]} \subseteq quote.decided
      BY DEF Opposed, PortalInv, PortalTyped, DecisionsLogged
    <2>4. logged = Verbs \ {verb[h]}
      BY <2>2, <2>3
    <2> QED BY <2>1, <2>2, <2>3, <2>4 DEF PushDecision
  <1>2. PortalSpec => [][Once]_portalVars
    <2> HIDE DEF Once
    <2> QED BY <1>1, PortalStart, PortalKept, PTL DEF PortalSpec
  <1> QED BY <1>2 DEF OverruledOnce

-----------------------------------------------------------------------------
(* The limiter: arithmetic.                                                *)

\* Products are monotone in their second factor.
LEMMA TimesMonotone ==
    ASSUME NEW n \in Nat, NEW x \in Int, NEW y \in Int, x <= y
    PROVE  n * x <= n * y
  BY Z3

\* Products distribute over sums.
LEMMA TimesPlus ==
    ASSUME NEW n \in Int, NEW x \in Int, NEW y \in Int
    PROVE  /\ n * (x + y) = n * x + n * y
           /\ n * (x - y) = n * x - n * y
           /\ (x + y) * n = x * n + y * n
           /\ n * x \in Int /\ n * x = x * n
  BY Z3

\* Rounding up covers what is asked for.
LEMMA RoundedUp ==
    ASSUME NEW a \in Int, a > 0, NEW d \in Nat, d > 0
    PROVE  /\ (a + d - 1) \div d \in Nat
           /\ d * ((a + d - 1) \div d) >= a
  BY Z3

\* A bucket that had time to refill can be forgotten.
LEMMA RefilledMeanwhile ==
    ASSUME NEW n \in Nat, NEW m \in Nat, NEW x \in Int, NEW y \in Int, x + m <= y,
           NEW spent \in Int, NEW tokens \in Nat, spent + tokens <= n * m + n * x
    PROVE  spent <= n * y
  <1>1. n * (x + m) <= n * y
    BY TimesMonotone
  <1>2. n * (x + m) = n * x + n * m
    BY TimesPlus
  <1>3. n * x \in Int /\ n * m \in Int /\ n * y \in Int /\ n * (x + m) \in Int
    BY TimesPlus
  <1> QED BY <1>1, <1>2, <1>3

-----------------------------------------------------------------------------
(* The limiter: the inductive invariant.                                   *)

\* Buckets are never over-full or overdrawn, clocks never ahead, and no
\* request waits longer than MaxWait.
Shape ==
    /\ TypeOK
    /\ \A k \in Keys : bucket[k] # Absent =>
          bucket[k].tokens \in 0..Capacity(k) /\ bucket[k].updated <= now
    /\ \A r \in Callers : request[r] # Idle =>
          request[r].clock <= now /\ now - request[r].clock <= MaxWait
    /\ watch # NotYet => watch.since <= now /\ PerMin[watch.key] # 0
    /\ promise # NotYet => watch # NotYet

\* What flowed into a bucket of the watched key until a time.
Inflow(time) == PerMin[watch.key] * (time - watch.since + watch.rewound)

Spent == watch.count * Minute

Amortised ==
    watch # NotYet /\ watch.count > 0 =>
        IF bucket[watch.key] = Absent THEN Spent <= Inflow(now - MaxWait)
        ELSE Spent + bucket[watch.key].tokens
                <= Capacity(watch.key) + Inflow(bucket[watch.key].updated)

LimiterInv == Shape /\ Amortised /\ RetryAfterHonest

-----------------------------------------------------------------------------
\* Types of what a check finds.
LEMMA CapacityType ==
    ASSUME NEW k \in Keys
    PROVE  /\ PerMin[k] \in Nat /\ Minute \in Nat /\ Minute > 0
           /\ Second \in Nat /\ Second > 0 /\ MaxWait \in Nat /\ MaxWait <= Minute
           /\ Capacity(k) \in Nat
           /\ PerMin[k] # 0 => Capacity(k) >= Minute
  <1>1. /\ PerMin[k] \in Nat /\ Minute \in Nat /\ Minute > 0
        /\ Second \in Nat /\ Second > 0 /\ MaxWait \in Nat /\ MaxWait <= Minute
    BY LimiterAssumption
  <1>2. Capacity(k) \in Nat
    BY <1>1, TimesMonotone DEF Capacity
  <1>3. PerMin[k] # 0 => Capacity(k) >= Minute
    <2> SUFFICES ASSUME PerMin[k] # 0 PROVE Capacity(k) >= Minute
      OBVIOUS
    <2>1. Minute * 1 <= Minute * PerMin[k]
      BY <1>1, TimesMonotone
    <2> QED BY <1>1, <2>1, TimesPlus DEF Capacity
  <1> QED BY <1>1, <1>2, <1>3

\* A sweep keeps every bucket that was used within two minutes.
LEMMA SweptIs ==
    ASSUME Shape, NEW clock \in Nat, clock <= now, NEW k \in Keys
    PROVE  /\ Swept(clock) \in [Keys -> [tokens : Int, updated : Nat] \cup {Absent}]
           /\ \/ Swept(clock)[k] = bucket[k]
              \/ /\ Swept(clock)[k] = Absent /\ bucket[k] # Absent
                 /\ bucket[k].updated + 2 * Minute <= clock
  <1>1. Minute \in Nat /\ Minute > 0
    BY LimiterAssumption
  <1>2. bucket[k] # Absent => bucket[k].updated \in Nat
    BY DEF Shape, TypeOK
  <1>3. Swept(clock) \in [Keys -> [tokens : Int, updated : Nat] \cup {Absent}]
    BY DEF Shape, TypeOK, Swept
  <1>4. CASE Swept(clock)[k] # bucket[k]
    <2>1. /\ bucket[k] # Absent /\ Swept(clock)[k] = Absent
          /\ Since(clock, bucket[k].updated) >= IDLE_EVICT
      BY <1>4 DEF Swept
    <2> QED BY <1>1, <1>2, <1>3, <2>1 DEF Since, IDLE_EVICT
  <1> QED BY <1>3, <1>4

\* The bucket a check works on: full when it is new, and else the stored one.
LEMMA FoundIs ==
    ASSUME Shape, NEW r \in Callers, request[r] # Idle, PerMin[request[r].key] # 0
    PROVE  LET k == request[r].key
               c == request[r].clock
           IN  /\ k \in Keys /\ c \in Nat /\ c <= now
               /\ Old(r).tokens \in 0..Capacity(k) /\ Old(r).updated \in Nat
               /\ Found(r) \in 0..Capacity(k)
               /\ Found(r) <= Old(r).tokens + Since(c, Old(r).updated) * PerMin[k]
               /\ Found(r) = Capacity(k)
                  \/ Found(r) = Old(r).tokens + Since(c, Old(r).updated) * PerMin[k]
               /\ \/ Swept(c)[k] = Absent /\ Old(r) = [tokens |-> Capacity(k), updated |-> c]
                  \/ Swept(c)[k] # Absent /\ Swept(c)[k] = bucket[k] /\ Old(r) = bucket[k]
  <1> DEFINE k == request[r].key
             c == request[r].clock
             gain == Since(c, Old(r).updated)
  <1>1. k \in Keys /\ c \in Nat /\ c <= now
    BY DEF Shape, TypeOK
  <1>2. PerMin[k] \in Nat /\ Capacity(k) \in Nat
    BY <1>1, CapacityType
  <1>3. \/ Swept(c)[k] = Absent /\ Old(r) = [tokens |-> Capacity(k), updated |-> c]
        \/ Swept(c)[k] # Absent /\ Swept(c)[k] = bucket[k] /\ Old(r) = bucket[k]
    BY <1>1, SweptIs DEF Old, Entry
  <1>4. Old(r).tokens \in 0..Capacity(k) /\ Old(r).updated \in Nat
    <2>1. CASE Swept(c)[k] = Absent
      BY <1>1, <1>2, <1>3, <2>1
    <2>2. CASE Swept(c)[k] # Absent
      BY <1>1, <1>2, <1>3, <2>2 DEF Shape, TypeOK
    <2> QED BY <2>1, <2>2
  <1>5. gain \in Nat
    BY <1>1, <1>4 DEF Since
  <1>6. gain * PerMin[k] \in Int /\ gain * PerMin[k] >= 0
    <2>1. PerMin[k] * 0 <= PerMin[k] * gain
      BY <1>2, <1>5, TimesMonotone
    <2> QED BY <1>2, <1>5, <2>1, TimesPlus
  <1>7. Found(r) = AtMost(Capacity(k), Old(r).tokens + gain * PerMin[k])
    BY DEF Found, Refilled
  <1> HIDE DEF gain
  <1>8. /\ Found(r) \in 0..Capacity(k)
        /\ Found(r) <= Old(r).tokens + gain * PerMin[k]
        /\ Found(r) = Capacity(k) \/ Found(r) = Old(r).tokens + gain * PerMin[k]
    BY <1>2, <1>4, <1>6, <1>7 DEF AtMost
  <1> QED BY <1>1, <1>3, <1>4, <1>8 DEF gain

-----------------------------------------------------------------------------
(* A check preserves the invariant.                                        *)

\* The bucket a check leaves.
Left(r) == IF Admitted(r) THEN Found(r) - Minute ELSE Found(r)

LEMMA LeftIs ==
    ASSUME Shape, NEW r \in Callers, Take(r)
    PROVE  LET k == request[r].key
               c == request[r].clock
           IN  /\ Left(r) \in 0..Capacity(k)
               /\ bucket'[k] = [tokens |-> Left(r), updated |-> c]
               /\ bucket'[k] # Absent
               /\ \A j \in Keys \ {k} : bucket'[j] = Swept(c)[j]
               /\ bucket' \in [Keys -> [tokens : Int, updated : Nat] \cup {Absent}]
  <1> DEFINE k == request[r].key
             c == request[r].clock
  <1>1. k \in Keys /\ c \in Nat /\ c <= now /\ Found(r) \in 0..Capacity(k)
    BY FoundIs DEF Take
  <1>2. Minute \in Nat /\ Capacity(k) \in Nat
    BY <1>1, CapacityType
  <1>3. Left(r) \in 0..Capacity(k)
    BY <1>1, <1>2 DEF Left, Admitted
  <1>4. Swept(c) \in [Keys -> [tokens : Int, updated : Nat] \cup {Absent}]
    BY <1>1, SweptIs
  <1>5. bucket' = [Swept(c) EXCEPT ![k] = [tokens |-> Left(r), updated |-> c]]
    BY DEF Take, Left
  <1>6. [tokens |-> Left(r), updated |-> c] \in [tokens : Int, updated : Nat]
    BY <1>1, <1>2, <1>3
  <1>7. [tokens |-> Left(r), updated |-> c] # Absent
    BY <1>6, LimiterAssumption
  <1> QED BY <1>1, <1>3, <1>4, <1>5, <1>6, <1>7

\* What a check records of the watched key.
LEMMA WatchAfterTake ==
    ASSUME Shape, NEW r \in Callers, Take(r)
    PROVE  /\ watch' \in [key : Keys, since : Nat, count : Nat, rewound : Nat] \cup {NotYet}
           /\ watch' # NotYet <=> watch # NotYet
           /\ watch # NotYet => watch'.key = watch.key /\ watch'.since = watch.since
           /\ ~Watched(r) => watch' = watch
           /\ Watched(r) =>
                 /\ watch'.rewound = watch.rewound + Since(Old(r).updated, request[r].clock)
                 /\ watch'.count = IF Admitted(r) /\ request[r].clock >= watch.since
                                   THEN watch.count + 1 ELSE watch.count
  <1>1. watch \in [key : Keys, since : Nat, count : Nat, rewound : Nat] \cup {NotYet}
    BY DEF Shape, TypeOK
  <1>2. Since(Old(r).updated, request[r].clock) \in Nat
    BY FoundIs DEF Since, Take
  <1>3. CASE ~Watched(r)
    BY <1>1, <1>3 DEF Take
  <1>4. CASE Watched(r)
    <2>1. watch' = [key |-> watch.key, since |-> watch.since,
                    count |-> IF Admitted(r) /\ request[r].clock >= watch.since
                              THEN watch.count + 1 ELSE watch.count,
                    rewound |-> watch.rewound + Since(Old(r).updated, request[r].clock)]
      BY <1>4 DEF Take
    <2>2. watch \in [key : Keys, since : Nat, count : Nat, rewound : Nat]
      BY <1>1, <1>4 DEF Watched
    <2>3. watch' \in [key : Keys, since : Nat, count : Nat, rewound : Nat]
      BY <1>2, <2>1, <2>2
    <2> QED BY <1>4, <2>1, <2>2, <2>3, LimiterAssumption DEF Watched
  <1> QED BY <1>3, <1>4

LEMMA TakeShape ==
    ASSUME Shape, NEW r \in Callers, Take(r)
    PROVE  Shape'
  <1> DEFINE k == request[r].key
             c == request[r].clock
  <1>1. k \in Keys /\ c \in Nat /\ c <= now /\ Found(r) \in 0..Capacity(k)
    BY FoundIs DEF Take
  <1>2. now' = now /\ now \in Nat
    BY DEF Take, Shape, TypeOK
  <1>3. last_prune' \in Nat
    BY <1>1 DEF Take, Shape, TypeOK
  <1>4. request' \in [Callers -> [key : Keys, clock : Nat] \cup {Idle}]
    BY DEF Take, Shape, TypeOK
  <1>5. \A q \in Callers : request'[q] # Idle => request'[q] = request[q]
    BY DEF Take, Shape, TypeOK
  <1>6. Told(r) \in Nat \/ Admitted(r)
    <2> SUFFICES ASSUME ~Admitted(r) PROVE Told(r) \in Nat
      OBVIOUS
    <2>1. Minute \in Nat /\ Second \in Nat /\ Second > 0 /\ PerMin[k] \in Nat /\ PerMin[k] # 0
          /\ Capacity(k) \in Nat
      BY <1>1, CapacityType DEF Take
    <2>2. Minute - Found(r) \in Int /\ Minute - Found(r) > 0
      BY <1>1, <2>1 DEF Admitted
    <2>3. PerMin[k] * Second \in Nat /\ PerMin[k] * Second > 0
      <3>1. PerMin[k] * 1 <= PerMin[k] * Second
        BY <2>1, TimesMonotone
      <3> QED BY <2>1, <3>1, TimesPlus
    <2> DEFINE wait == RetryAfter(k, Found(r))
    <2>4. wait \in Nat
      BY <2>2, <2>3, RoundedUp DEF RetryAfter
    <2>5. Told(r) = c + wait * Second
      BY DEF Told
    <2> HIDE DEF wait
    <2>6. Second * 0 <= Second * wait
      BY <2>1, <2>4, TimesMonotone
    <2>7. wait * Second = Second * wait /\ Second * wait \in Int
      BY <2>1, <2>4, TimesPlus
    <2>8. wait * Second \in Nat
      BY <2>1, <2>6, <2>7
    <2> QED BY <1>1, <2>5, <2>8
  <1>7. promise' \in Nat \cup {NotYet} /\ (promise' # NotYet => watch' # NotYet)
    <2>1. promise \in Nat \cup {NotYet} /\ (promise # NotYet => watch # NotYet)
      BY DEF Shape, TypeOK
    <2>2. CASE ~Watched(r)
      BY <2>1, <2>2, WatchAfterTake DEF Take
    <2>3. CASE Watched(r) /\ Admitted(r)
      BY <2>1, <2>3 DEF Take
    <2>4. CASE Watched(r) /\ ~Admitted(r)
      BY <1>6, <2>1, <2>4, WatchAfterTake DEF Take, AtMost, Watched
    <2> QED BY <2>2, <2>3, <2>4
  <1>8. \A j \in Keys : bucket'[j] # Absent =>
           bucket'[j].tokens \in 0..Capacity(j) /\ bucket'[j].updated <= now
    <2> SUFFICES ASSUME NEW j \in Keys, bucket'[j] # Absent
                 PROVE  bucket'[j].tokens \in 0..Capacity(j) /\ bucket'[j].updated <= now
      OBVIOUS
    <2>1. CASE j = k
      <3>1. Left(r) \in 0..Capacity(k) /\ bucket'[k] = [tokens |-> Left(r), updated |-> c]
        BY LeftIs
      <3> QED BY <1>1, <2>1, <3>1
    <2>2. CASE j # k
      <3>1. bucket'[j] = Swept(c)[j]
        BY <2>2, LeftIs
      <3>2. Swept(c)[j] = bucket[j] \/ Swept(c)[j] = Absent
        BY <1>1, SweptIs
      <3> QED BY <3>1, <3>2 DEF Shape
    <2> QED BY <2>1, <2>2
  <1>9. bucket' \in [Keys -> [tokens : Int, updated : Nat] \cup {Absent}]
    BY LeftIs
  <1>10. watch' # NotYet => watch'.since <= now /\ PerMin[watch'.key] # 0
    BY WatchAfterTake DEF Shape
  <1>11. TypeOK'
    BY <1>2, <1>3, <1>4, <1>7, <1>9, WatchAfterTake DEF TypeOK
  <1>12. \A q \in Callers : request'[q] # Idle =>
           request'[q].clock <= now /\ now - request'[q].clock <= MaxWait
    BY <1>5 DEF Shape
  <1> QED BY <1>2, <1>7, <1>8, <1>10, <1>11, <1>12 DEF Shape, Capacity

\* The bound still holds when the bucket of the watched key is swept away.
LEMMA SweptAmortised ==
    ASSUME Shape, Amortised, watch # NotYet, watch.count > 0,
           NEW clock \in Nat, clock <= now,
           bucket[watch.key] # Absent, bucket[watch.key].updated + 2 * Minute <= clock
    PROVE  /\ Spent <= Inflow(clock - Minute)
           /\ Spent <= Inflow(now - MaxWait)
  <1> DEFINE k == watch.key
             b == bucket[k]
             floor == watch.rewound - watch.since
  <1>1. /\ k \in Keys /\ now \in Nat /\ floor \in Int /\ watch.count \in Nat
        /\ watch.since \in Nat /\ watch.rewound \in Nat
    BY DEF Shape, TypeOK
  <1>2. /\ PerMin[k] \in Nat /\ Minute \in Nat /\ MaxWait \in Nat /\ MaxWait <= Minute
        /\ Capacity(k) = PerMin[k] * Minute /\ Capacity(k) \in Nat
    BY <1>1, CapacityType DEF Capacity
  <1>3. b.tokens \in Nat /\ b.updated \in Nat
    BY <1>1, <1>2 DEF Shape, TypeOK
  <1>4. Spent \in Int
    BY <1>1, <1>2, TimesPlus DEF Spent
  <1>5. Spent + b.tokens <= PerMin[k] * Minute + PerMin[k] * (b.updated + floor)
    <2>1. b.updated - watch.since + watch.rewound = b.updated + floor
      BY <1>1, <1>3
    <2> QED BY <1>2, <2>1 DEF Amortised, Inflow
  <1>6. \A time \in Int : b.updated + Minute <= time => Spent <= Inflow(time)
    <2> SUFFICES ASSUME NEW time \in Int, b.updated + Minute <= time
                 PROVE  Spent <= Inflow(time)
      OBVIOUS
    <2>1. /\ b.updated + floor \in Int /\ time + floor \in Int
          /\ (b.updated + floor) + Minute <= time + floor
      BY <1>1, <1>2, <1>3
    <2>2. Spent <= PerMin[k] * (time + floor)
      BY <1>2, <1>3, <1>4, <1>5, <2>1, RefilledMeanwhile
    <2>3. time - watch.since + watch.rewound = time + floor
      BY <1>1
    <2> QED BY <2>2, <2>3 DEF Inflow
  <1>7. b.updated + Minute <= clock - Minute /\ b.updated + Minute <= now - MaxWait
    BY <1>1, <1>2, <1>3
  <1> QED BY <1>1, <1>2, <1>6, <1>7

\* Before a check spends, what it works on obeys the bound.
LEMMA OldAmortised ==
    ASSUME Shape, Amortised, NEW r \in Callers, Take(r), Watched(r), watch.count > 0
    PROVE  Spent + Old(r).tokens <= Capacity(watch.key) + Inflow(Old(r).updated)
  <1> DEFINE k == watch.key
             c == request[r].clock
             floor == watch.rewound - watch.since
  <1>1. /\ k = request[r].key /\ k \in Keys /\ c \in Nat /\ c <= now
        /\ now - c <= MaxWait /\ now \in Nat /\ floor \in Int /\ watch.count \in Nat
        /\ watch.since \in Nat /\ watch.rewound \in Nat /\ watch # NotYet
    BY FoundIs DEF Take, Watched, Shape, TypeOK
  <1>2. PerMin[k] \in Nat /\ Minute \in Nat /\ MaxWait \in Nat /\ Capacity(k) \in Nat
    BY <1>1, CapacityType
  <1>3. \A x, y \in Int : x <= y => Inflow(x) <= Inflow(y)
    <2> SUFFICES ASSUME NEW x \in Int, NEW y \in Int, x <= y PROVE Inflow(x) <= Inflow(y)
      OBVIOUS
    <2>1. /\ x - watch.since + watch.rewound \in Int /\ y - watch.since + watch.rewound \in Int
          /\ x - watch.since + watch.rewound <= y - watch.since + watch.rewound
      BY <1>1
    <2> QED BY <1>2, <2>1, TimesMonotone DEF Inflow
  <1>4. Spent \in Int /\ \A x \in Int : Inflow(x) \in Int
    BY <1>1, <1>2, TimesPlus DEF Spent, Inflow
  <1>5. CASE Swept(c)[k] # Absent
    <2>1. Old(r) = bucket[k] /\ bucket[k] # Absent
      BY <1>1, <1>5, FoundIs DEF Take
    <2> QED BY <1>1, <2>1 DEF Amortised
  <1>6. CASE Swept(c)[k] = Absent
    <2>1. Old(r).tokens = Capacity(k) /\ Old(r).updated = c
      BY <1>1, <1>6, FoundIs DEF Take
    <2>2. Spent <= Inflow(c)
      <3>1. CASE bucket[k] = Absent
        <4>1. Spent <= Inflow(now - MaxWait)
          BY <1>1, <3>1 DEF Amortised
        <4>2. Inflow(now - MaxWait) <= Inflow(c)
          BY <1>1, <1>2, <1>3
        <4> QED BY <1>1, <1>2, <1>4, <4>1, <4>2
      <3>2. CASE bucket[k] # Absent
        <4>1. bucket[k].updated + 2 * Minute <= c
          BY <1>1, <1>6, <3>2, SweptIs
        <4>2. Spent <= Inflow(c - Minute)
          BY <1>1, <3>2, <4>1, SweptAmortised
        <4>3. Inflow(c - Minute) <= Inflow(c)
          BY <1>1, <1>2, <1>3
        <4> QED BY <1>1, <1>2, <1>4, <4>2, <4>3
      <3> QED BY <3>1, <3>2
    <2> QED BY <1>1, <1>2, <1>4, <2>1, <2>2
  <1> QED BY <1>5, <1>6

\* Checks of the watched key.
LEMMA WatchedTakeAmortised ==
    ASSUME Shape, Amortised, NEW r \in Callers, Take(r), Watched(r)
    PROVE  Amortised'
  <1> DEFINE k == watch.key
             c == request[r].clock
             n == PerMin[k]
             old == Old(r).updated
             back == Since(old, c)
             gain == Since(c, old)
             floor == watch.rewound - watch.since
  <1> SUFFICES ASSUME watch'.count > 0
               PROVE  Spent' + bucket'[k].tokens
                         <= Capacity(k) + n * (c - watch'.since + watch'.rewound)
    <2>1. watch'.key = k
      BY WatchAfterTake DEF Watched
    <2>2. bucket'[k] # Absent /\ bucket'[k].updated = c
      <3>1. /\ bucket'[request[r].key] = [tokens |-> Left(r), updated |-> c]
            /\ bucket'[request[r].key] # Absent
        BY LeftIs
      <3> QED BY <3>1 DEF Watched
    <2> QED BY <2>1, <2>2 DEF Amortised, Capacity, Inflow
  <1>1. /\ k = request[r].key /\ k \in Keys /\ c \in Nat /\ watch # NotYet
        /\ old \in Nat /\ Old(r).tokens \in 0..Capacity(k)
        /\ Found(r) \in 0..Capacity(k) /\ Found(r) <= Old(r).tokens + gain * n
    BY FoundIs DEF Take, Watched
  <1>2. /\ watch.count \in Nat /\ watch.since \in Nat /\ watch.rewound \in Nat /\ floor \in Int
    BY <1>1 DEF Shape, TypeOK
  <1>3. /\ n \in Nat /\ Minute \in Nat /\ Capacity(k) \in Nat
    BY <1>1, CapacityType
  <1>4. back \in Nat /\ gain \in Nat /\ c + back = old + gain
    BY <1>1 DEF Since
  <1>5. bucket'[k].tokens = Left(r)
    <2>1. bucket'[request[r].key] = [tokens |-> Left(r), updated |-> c]
      BY LeftIs
    <2> QED BY <1>1, <2>1
  <1>6. /\ watch'.key = k /\ watch'.since = watch.since /\ watch'.rewound = watch.rewound + back
        /\ watch'.count = IF Admitted(r) /\ c >= watch.since
                          THEN watch.count + 1 ELSE watch.count
    BY <1>1, WatchAfterTake
  <1> HIDE DEF back, gain
  <1>7. c - watch'.since + watch'.rewound = c + back + floor
    BY <1>1, <1>2, <1>4, <1>6
  <1>8. Spent' = watch'.count * Minute
    BY DEF Spent
  <1>9. CASE watch.count = 0
    <2>1. Admitted(r) /\ c >= watch.since /\ watch'.count = 1
      BY <1>2, <1>6, <1>9
    <2>2. Spent' + Left(r) = Found(r)
      BY <1>1, <1>3, <1>8, <2>1 DEF Left
    <2>3. c + back + floor \in Int /\ 0 <= c + back + floor
      BY <1>1, <1>2, <1>4, <2>1
    <2>4. n * 0 <= n * (c + back + floor) /\ n * (c + back + floor) \in Int
      BY <1>3, <2>3, TimesMonotone, TimesPlus
    <2> QED BY <1>1, <1>3, <1>5, <1>7, <2>2, <2>4
  <1>10. CASE watch.count > 0
    <2>1. Spent + Old(r).tokens <= Capacity(k) + n * (old + floor)
      <3>1. Inflow(old) = n * (old - watch.since + watch.rewound)
        BY DEF Inflow
      <3>2. old - watch.since + watch.rewound = old + floor
        BY <1>1, <1>2
      <3> QED BY <1>10, <3>1, <3>2, OldAmortised
    <2>2. n * (old + floor) + n * gain = n * (c + back + floor)
      <3>1. n * ((old + floor) + gain) = n * (old + floor) + n * gain
        BY <1>1, <1>2, <1>3, <1>4, TimesPlus
      <3>2. (old + floor) + gain = c + back + floor
        BY <1>1, <1>2, <1>4
      <3> QED BY <3>1, <3>2
    <2>3. /\ n * (old + floor) \in Int /\ n * gain \in Int /\ gain * n = n * gain
          /\ Spent \in Int /\ watch.count * Minute \in Int
      BY <1>1, <1>2, <1>3, <1>4, TimesPlus DEF Spent
    <2>4. Spent' + Left(r) <= Spent + Found(r) /\ Spent' + Left(r) \in Int
      <3>1. (watch.count + 1) * Minute = watch.count * Minute + 1 * Minute
        BY <1>2, <1>3, TimesPlus
      <3>2. CASE Admitted(r) /\ c >= watch.since
        <4>1. Spent' = Spent + Minute /\ Left(r) = Found(r) - Minute
          BY <1>3, <1>6, <1>8, <3>1, <3>2 DEF Spent, Left
        <4> QED BY <1>1, <1>3, <2>3, <4>1
      <3>3. CASE ~(Admitted(r) /\ c >= watch.since)
        <4>1. Spent' = Spent
          BY <1>6, <1>8, <3>3 DEF Spent
        <4>2. Left(r) <= Found(r) /\ Left(r) \in Int
          BY <1>1, <1>3 DEF Left
        <4> QED BY <1>1, <1>3, <2>3, <4>1, <4>2
      <3> QED BY <3>2, <3>3
    <2>5. Spent + Found(r) <= Capacity(k) + (n * (old + floor) + n * gain)
      BY <1>1, <1>3, <2>1, <2>3
    <2>6. /\ Spent + Found(r) \in Int
          /\ Capacity(k) + (n * (old + floor) + n * gain) \in Int
      BY <1>1, <1>3, <2>3
    <2>7. Spent' + Left(r) <= Capacity(k) + (n * (old + floor) + n * gain)
      BY <2>4, <2>5, <2>6
    <2> QED BY <1>5, <1>7, <2>2, <2>7
  <1> QED BY <1>2, <1>9, <1>10

LEMMA TakeAmortised ==
    ASSUME Shape, Amortised, NEW r \in Callers, Take(r)
    PROVE  Amortised'
  <1> DEFINE k == watch.key
             c == request[r].clock
  <1>1. CASE Watched(r)
    BY <1>1, WatchedTakeAmortised
  <1>2. CASE ~Watched(r)
    <2> SUFFICES ASSUME watch # NotYet, watch.count > 0
                 PROVE  IF bucket'[k] = Absent THEN Spent <= Inflow(now - MaxWait)
                        ELSE Spent + bucket'[k].tokens
                                <= Capacity(k) + Inflow(bucket'[k].updated)
      <3>1. watch' = watch /\ now' = now
        BY <1>2, WatchAfterTake DEF Take
      <3> QED BY <3>1 DEF Amortised, Spent, Inflow, Capacity
    <2>1. k \in Keys \ {request[r].key} /\ c \in Nat /\ c <= now
      BY <1>2, FoundIs DEF Shape, TypeOK, Watched, Take
    <2>2. bucket'[k] = Swept(c)[k]
      BY <2>1, LeftIs
    <2>3. CASE Swept(c)[k] = bucket[k]
      BY <2>2, <2>3 DEF Amortised
    <2>4. CASE Swept(c)[k] # bucket[k]
      <3>1. Swept(c)[k] = Absent /\ bucket[k] # Absent /\ bucket[k].updated + 2 * Minute <= c
        BY <2>1, <2>4, SweptIs
      <3> QED BY <2>1, <2>2, <3>1, SweptAmortised
    <2> QED BY <2>3, <2>4
  <1> QED BY <1>1, <1>2

-----------------------------------------------------------------------------
(* Retry-After.                                                            *)

\* A bucket has a token at a time if the refill until then covers what is
\* missing.
LEMMA EnoughIs ==
    ASSUME NEW k \in Keys, PerMin[k] # 0, NEW b \in [tokens : Int, updated : Nat],
           NEW time \in Nat
    PROVE  Refilled(k, b, time) >= Minute
              <=> PerMin[k] * Since(time, b.updated) >= Minute - b.tokens
  <1>1. /\ PerMin[k] \in Nat /\ Minute \in Nat /\ Capacity(k) \in Nat /\ Capacity(k) >= Minute
    BY CapacityType
  <1>2. Since(time, b.updated) \in Nat
    BY DEF Since
  <1>3. /\ Since(time, b.updated) * PerMin[k] = PerMin[k] * Since(time, b.updated)
        /\ PerMin[k] * Since(time, b.updated) \in Int
    BY <1>1, <1>2, TimesPlus
  <1> QED BY <1>1, <1>3 DEF Refilled, AtMost

\* A refused check leaves the token that was promised in place.
LEMMA RefusalKeepsPromise ==
    ASSUME Shape, NEW r \in Callers, Take(r), ~Admitted(r),
           NEW time \in Nat, Refilled(request[r].key, Old(r), time) >= Minute
    PROVE  Refilled(request[r].key, [tokens |-> Found(r), updated |-> request[r].clock], time)
              >= Minute
  <1> DEFINE k == request[r].key
             c == request[r].clock
             n == PerMin[k]
             u == Old(r).updated
             t == Old(r).tokens
             before == Since(time, u)
             gain == Since(c, u)
             after == Since(time, c)
  <1>1. /\ k \in Keys /\ n # 0 /\ c \in Nat /\ u \in Nat /\ t \in 0..Capacity(k)
        /\ Found(r) \in 0..Capacity(k)
        /\ Found(r) = Capacity(k) \/ Found(r) = t + gain * n
        /\ Old(r) \in [tokens : Int, updated : Nat]
    <2>1. Old(r) \in [tokens : Int, updated : Nat]
      <3>1. Capacity(k) \in Nat /\ k \in Keys /\ c \in Nat
        BY FoundIs, CapacityType DEF Take
      <3> QED BY <3>1, FoundIs DEF Take, Shape, TypeOK
    <2> QED BY <2>1, FoundIs DEF Take
  <1>2. n \in Nat /\ Minute \in Nat /\ Capacity(k) \in Nat /\ Capacity(k) >= Minute
    BY <1>1, CapacityType
  <1>3. before \in Nat /\ gain \in Nat /\ after \in Nat
    BY <1>1 DEF Since
  <1>4. before > gain => after >= before - gain
    BY <1>1 DEF Since
  <1>5. [tokens |-> Found(r), updated |-> c] \in [tokens : Int, updated : Nat]
    BY <1>1, <1>2
  <1>6. n * before >= Minute - t
    BY <1>1, EnoughIs
  <1>7. SUFFICES n * after >= Minute - Found(r)
    BY <1>1, <1>5, EnoughIs
  <1> HIDE DEF before, gain, after, n
  <1>8. /\ n * before \in Int /\ n * gain \in Int /\ n * after \in Int /\ gain * n = n * gain
        /\ n * (before - gain) = n * before - n * gain
    BY <1>2, <1>3, TimesPlus
  <1>9. Found(r) = t + n * gain /\ t + n * gain < Minute
    BY <1>1, <1>2, <1>8 DEF Admitted
  <1>10. before > gain
    <2> SUFFICES ASSUME before <= gain PROVE FALSE
      BY <1>3
    <2>1. n * before <= n * gain
      BY <1>2, <1>3, TimesMonotone
    <2> QED BY <1>1, <1>2, <1>6, <1>8, <1>9, <2>1
  <1>11. n * (before - gain) <= n * after
    BY <1>2, <1>3, <1>4, <1>10, TimesMonotone
  <1> QED BY <1>1, <1>2, <1>6, <1>8, <1>9, <1>11

\* At the time a refused request is told, one token is back.
LEMMA ToldIsEnough ==
    ASSUME Shape, NEW r \in Callers, Take(r), ~Admitted(r)
    PROVE  /\ Told(r) \in Nat
           /\ Refilled(request[r].key, [tokens |-> Found(r), updated |-> request[r].clock],
                       Told(r)) >= Minute
  <1> DEFINE k == request[r].key
             c == request[r].clock
             n == PerMin[k]
             wait == RetryAfter(k, Found(r))
  <1>1. k \in Keys /\ n # 0 /\ c \in Nat /\ Found(r) \in 0..Capacity(k)
    BY FoundIs DEF Take
  <1>2. n \in Nat /\ Minute \in Nat /\ Second \in Nat /\ Second > 0 /\ Capacity(k) \in Nat
    BY <1>1, CapacityType
  <1>3. Minute - Found(r) \in Int /\ Minute - Found(r) > 0
    BY <1>1, <1>2 DEF Admitted
  <1>4. n * Second \in Nat /\ n * Second > 0
    <2>1. n * 1 <= n * Second
      BY <1>2, TimesMonotone
    <2> QED BY <1>1, <1>2, <2>1, TimesPlus
  <1>5. wait \in Nat /\ (n * Second) * wait >= Minute - Found(r)
    <2>1. wait = (Minute - Found(r) + n * Second - 1) \div (n * Second)
      BY DEF RetryAfter
    <2> HIDE DEF wait, n
    <2> QED BY <1>3, <1>4, <2>1, RoundedUp
  <1>6. Told(r) = c + wait * Second
    BY DEF Told
  <1> HIDE DEF wait
  <1>7. wait * Second \in Nat
    <2>1. Second * 0 <= Second * wait
      BY <1>2, <1>5, TimesMonotone
    <2>2. wait * Second = Second * wait /\ Second * wait \in Int
      BY <1>2, <1>5, TimesPlus
    <2> QED BY <1>2, <2>1, <2>2
  <1>8. Told(r) \in Nat /\ Since(Told(r), c) = wait * Second
    BY <1>1, <1>6, <1>7 DEF Since
  <1>9. n * (wait * Second) = (n * Second) * wait
    <2> HIDE DEF n
    <2> QED BY <1>2, <1>5, Z3
  <1>10. [tokens |-> Found(r), updated |-> c] \in [tokens : Int, updated : Nat]
    BY <1>1, <1>2
  <1> QED BY <1>1, <1>5, <1>8, <1>9, <1>10, EnoughIs

LEMMA TakeHonest ==
    ASSUME Shape, RetryAfterHonest, NEW r \in Callers, Take(r)
    PROVE  RetryAfterHonest'
  <1> DEFINE k == watch.key
             c == request[r].clock
  <1> SUFFICES ASSUME promise' # NotYet
               PROVE  Available(watch.key, promise)' >= Minute
    BY DEF RetryAfterHonest
  <1>1. promise \in Nat \cup {NotYet} /\ (promise # NotYet => watch # NotYet)
    BY DEF Shape, TypeOK
  <1>2. CASE ~Watched(r)
    <2>1. promise' = promise /\ watch' = watch
      BY <1>2 DEF Take
    <2>2. /\ k \in Keys \ {request[r].key} /\ PerMin[k] # 0 /\ c \in Nat /\ c <= now
          /\ Available(k, promise) >= Minute
      BY <1>1, <1>2, <2>1, FoundIs DEF Shape, TypeOK, Watched, Take, RetryAfterHonest
    <2>3. bucket'[k] = Swept(c)[k]
      BY <2>2, LeftIs
    <2>4. CASE Swept(c)[k] = bucket[k]
      BY <2>1, <2>2, <2>3, <2>4 DEF Available, Refilled, Capacity
    <2>5. CASE Swept(c)[k] = Absent
      BY <2>1, <2>2, <2>3, <2>5, CapacityType DEF Available, Capacity
    <2> QED BY <2>2, <2>4, <2>5, SweptIs
  <1>3. CASE Watched(r)
    <2>1. ~Admitted(r) /\ k = request[r].key /\ watch'.key = k /\ watch # NotYet
      BY <1>3, WatchAfterTake DEF Take, Watched
    <2>2. bucket'[k] = [tokens |-> Found(r), updated |-> c] /\ bucket'[k] # Absent
      BY <2>1, LeftIs DEF Left
    <2>3. SUFFICES Refilled(k, [tokens |-> Found(r), updated |-> c], promise') >= Minute
      BY <2>1, <2>2 DEF Available, Refilled, Capacity
    <2>4. Told(r) \in Nat
          /\ Refilled(k, [tokens |-> Found(r), updated |-> c], Told(r)) >= Minute
      BY <2>1, ToldIsEnough
    <2>5. promise' = Told(r) \/ (promise # NotYet /\ promise' = promise)
      BY <1>1, <1>3, <2>1, <2>4 DEF Take, AtMost
    <2>6. CASE promise # NotYet /\ promise' = promise
      <3>1. Available(k, promise) >= Minute /\ promise \in Nat
        BY <1>1, <2>6 DEF RetryAfterHonest
      <3>2. Swept(c)[k] # Absent /\ Old(r) = bucket[k] /\ bucket[k] # Absent
        <4> SUFFICES ASSUME Swept(c)[k] = Absent PROVE FALSE
          BY <2>1, FoundIs DEF Take
        <4>1. /\ k \in Keys /\ PerMin[k] # 0 /\ c \in Nat
              /\ Old(r) = [tokens |-> Capacity(k), updated |-> c]
              /\ \/ Found(r) = Capacity(k)
                 \/ Found(r) = Old(r).tokens + Since(c, Old(r).updated) * PerMin[k]
          BY <2>1, FoundIs DEF Take
        <4>2. PerMin[k] \in Nat /\ Capacity(k) \in Nat /\ Capacity(k) >= Minute /\ Minute \in Nat
          BY <4>1, CapacityType
        <4>3. Found(r) = Capacity(k)
          BY <4>1, <4>2 DEF Since
        <4> QED BY <2>1, <4>2, <4>3 DEF Admitted
      <3>3. Refilled(k, Old(r), promise) >= Minute
        BY <3>1, <3>2 DEF Available
      <3> QED BY <2>1, <2>6, <3>1, <3>3, RefusalKeepsPromise
    <2> QED BY <2>4, <2>5, <2>6
  <1> QED BY <1>2, <1>3

-----------------------------------------------------------------------------
(* The other steps of the limiter, and the theorem.                        *)

LEMMA InitInv == LimiterInit => LimiterInv
  BY LimiterAssumption DEF LimiterInit, LimiterInv, Shape, TypeOK, Amortised, RetryAfterHonest

\* Steps that change neither buckets nor the history.
LEMMA QuietSteps ==
    ASSUME LimiterInv, Shape', now' \in Nat, now' >= now,
           bucket' = bucket, promise' = promise, watch' = watch
    PROVE  LimiterInv'
  <1>1. RetryAfterHonest'
    BY DEF LimiterInv, RetryAfterHonest, Available, Refilled, Capacity
  <1>2. Amortised'
    <2> SUFFICES ASSUME watch # NotYet, watch.count > 0, bucket[watch.key] = Absent
                 PROVE  Spent <= Inflow(now' - MaxWait)
      BY DEF LimiterInv, Amortised, Spent, Inflow, Capacity
    <2>1. /\ now \in Nat /\ watch.key \in Keys /\ watch.since \in Nat /\ watch.rewound \in Nat
          /\ watch.count \in Nat
      BY DEF LimiterInv, Shape, TypeOK
    <2>2. PerMin[watch.key] \in Nat /\ MaxWait \in Nat /\ Minute \in Nat
      BY <2>1, CapacityType
    <2>3. Inflow(now - MaxWait) <= Inflow(now' - MaxWait)
      BY <2>1, <2>2, TimesMonotone DEF Inflow
    <2>4. Spent \in Int /\ Inflow(now - MaxWait) \in Int /\ Inflow(now' - MaxWait) \in Int
      BY <2>1, <2>2, TimesPlus DEF Inflow, Spent
    <2>5. Spent <= Inflow(now - MaxWait)
      BY DEF LimiterInv, Amortised
    <2> QED BY <2>3, <2>4, <2>5
  <1> QED BY <1>1, <1>2 DEF LimiterInv

LEMMA NextInv == LimiterInv /\ [LimiterNext]_limiterVars => LimiterInv'
  <1> SUFFICES ASSUME LimiterInv, [LimiterNext]_limiterVars PROVE LimiterInv'
    OBVIOUS
  <1> USE DEF LimiterInv
  <1>1. ASSUME NEW r \in Callers, NEW k \in Keys, Arrive(r, k) PROVE LimiterInv'
    <2>1. now \in Nat /\ MaxWait \in Nat
      BY LimiterAssumption DEF Shape, TypeOK
    <2>2. Shape'
      BY <1>1, <2>1 DEF Arrive, Shape, TypeOK, Capacity
    <2> QED BY <1>1, <2>1, <2>2, QuietSteps DEF Arrive
  <1>2. ASSUME NEW r \in Callers, Pass(r) PROVE LimiterInv'
    <2>1. Shape'
      BY <1>2 DEF Pass, Shape, TypeOK, Capacity
    <2> QED BY <1>2, <2>1, QuietSteps DEF Pass, Shape, TypeOK
  <1>3. ASSUME NEW r \in Callers, Take(r) PROVE LimiterInv'
    BY <1>3, TakeShape, TakeAmortised, TakeHonest
  <1>4. CASE Tick
    <2>1. now \in Nat /\ now' = now + 1 /\ MaxWait \in Nat
      BY <1>4, LimiterAssumption DEF Tick, Shape, TypeOK
    <2>2. \A q \in Callers : request'[q] # Idle =>
             request'[q].clock <= now' /\ now' - request'[q].clock <= MaxWait
      BY <1>4, <2>1 DEF Tick, Shape, TypeOK
    <2>3. \A k \in Keys : bucket'[k] # Absent =>
             bucket'[k].tokens \in 0..Capacity(k) /\ bucket'[k].updated <= now'
      BY <1>4, <2>1 DEF Tick, Shape, TypeOK
    <2>4. TypeOK'
      BY <1>4, <2>1 DEF Tick, Shape, TypeOK
    <2>5. watch' # NotYet => watch'.since <= now' /\ PerMin[watch'.key] # 0
      BY <1>4, <2>1 DEF Tick, Shape, TypeOK
    <2>6. Shape'
      BY <1>4, <2>2, <2>3, <2>4, <2>5 DEF Tick, Shape, Capacity
    <2> QED BY <1>4, <2>1, <2>6, QuietSteps DEF Tick
  <1>5. ASSUME NEW k \in Keys, Watch(k) PROVE LimiterInv'
    <2>1. watch' \in [key : Keys, since : Nat, count : Nat, rewound : Nat]
      BY <1>5 DEF Watch, Shape, TypeOK
    <2>2. Shape'
      BY <1>5, <2>1 DEF Watch, Shape, TypeOK, Capacity
    <2>3. Amortised' /\ RetryAfterHonest'
      BY <1>5 DEF Watch, Amortised, RetryAfterHonest, Shape
    <2> QED BY <2>2, <2>3
  <1>6. CASE UNCHANGED limiterVars
    <2>1. Shape'
      BY <1>6 DEF limiterVars, Shape, TypeOK, Capacity
    <2> QED BY <1>6, <2>1, QuietSteps DEF limiterVars, Shape, TypeOK
  <1> QED BY <1>1, <1>2, <1>3, <1>4, <1>5, <1>6 DEF LimiterNext

\* The bound follows from the amortised one.
LEMMA InvBudget == LimiterInv => AdmittedWithinBudget
  <1> SUFFICES ASSUME LimiterInv, watch # NotYet
               PROVE  Spent <= Capacity(watch.key) + Inflow(now)
    BY DEF AdmittedWithinBudget, Spent, Inflow
  <1> USE DEF LimiterInv
  <1> DEFINE k == watch.key
  <1>1. /\ now \in Nat /\ k \in Keys /\ watch.since \in Nat /\ watch.rewound \in Nat
        /\ watch.count \in Nat /\ watch.since <= now
    BY DEF Shape, TypeOK
  <1>2. PerMin[k] \in Nat /\ MaxWait \in Nat /\ Minute \in Nat /\ Capacity(k) \in Nat
    BY <1>1, CapacityType
  <1>3. Spent \in Int /\ \A x \in Int : Inflow(x) \in Int
    BY <1>1, <1>2, TimesPlus DEF Inflow, Spent
  <1>4. \A x \in Int : x <= now => Inflow(x) <= Inflow(now)
    <2> SUFFICES ASSUME NEW x \in Int, x <= now PROVE Inflow(x) <= Inflow(now)
      OBVIOUS
    <2>1. /\ x - watch.since + watch.rewound <= now - watch.since + watch.rewound
          /\ x - watch.since + watch.rewound \in Int /\ now - watch.since + watch.rewound \in Int
      BY <1>1
    <2> QED BY <1>2, <2>1, TimesMonotone DEF Inflow
  <1>5. CASE watch.count = 0
    <2>1. Spent = 0
      BY <1>2, <1>5 DEF Spent
    <2>2. PerMin[k] * 0 <= Inflow(now)
      BY <1>1, <1>2, TimesMonotone DEF Inflow
    <2> QED BY <1>1, <1>2, <1>3, <2>1, <2>2
  <1>6. CASE watch.count > 0 /\ bucket[k] = Absent
    <2>1. Spent <= Inflow(now - MaxWait) /\ Inflow(now - MaxWait) <= Inflow(now)
      BY <1>1, <1>2, <1>4, <1>6 DEF Amortised
    <2> QED BY <1>1, <1>2, <1>3, <2>1
  <1>7. CASE watch.count > 0 /\ bucket[k] # Absent
    <2>1. bucket[k].tokens \in Nat /\ bucket[k].updated \in Nat /\ bucket[k].updated <= now
      BY <1>1, <1>2, <1>7 DEF Shape, TypeOK
    <2>2. Spent + bucket[k].tokens <= Capacity(k) + Inflow(bucket[k].updated)
      BY <1>7 DEF Amortised
    <2>3. Inflow(bucket[k].updated) <= Inflow(now)
      BY <1>4, <2>1
    <2> QED BY <1>1, <1>2, <1>3, <2>1, <2>2, <2>3
  <1> QED BY <1>1, <1>5, <1>6, <1>7

\* For every budget, any number of clients and concurrent requests and any
\* window: at most the budget and the rate for its length are admitted, plus
\* the refill of the ticks a late request moved the bucket's clock back.
THEOREM BudgetKept == LimiterSpec => []AdmittedWithinBudget
  BY InitInv, NextInv, InvBudget, PTL DEF LimiterSpec

\* The time in Retry-After is kept: the token is there at that time unless
\* another request was admitted in between.
THEOREM RetryAfterKept == LimiterSpec => []RetryAfterHonest
  <1>1. LimiterInv => RetryAfterHonest
    BY DEF LimiterInv
  <1> QED BY InitInv, NextInv, <1>1, PTL DEF LimiterSpec
=============================================================================
