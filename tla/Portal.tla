------------------------------- MODULE Portal -------------------------------
(***************************************************************************)
(* The customer side of the portal (src/portal.rs): customer links and the *)
(* accept and reject of one quotation, over the projection that the        *)
(* mutation log feeds, beside devices that edit the quotation.             *)
(*                                                                         *)
(* A decision and a device's edit both push a mutation that replaces the   *)
(* whole payload (fold_mutation), so each writes back what it read of the  *)
(* other's fields.  Of the payload the customer and the two decision       *)
(* fields are kept: decided holds "accept" when accepted_on is set and     *)
(* "reject" when rejected_on is.  Devices edit other fields than these.    *)
(* Accountant links and the pages only read.                               *)
(***************************************************************************)
EXTENDS FiniteSets

CONSTANTS
    Customers,   \* customers of the company, one portal link each
    Requests,    \* portal requests that may run at the same time
    Devices,     \* devices that edit the quotation
    Nobody       \* the party of an idle handler

Verbs == {"accept", "reject"}

\* What an idle handler has read.
NoQuotation == [customer |-> Nobody, decided |-> {}]

ASSUME CustomersAssumption == Nobody \notin Customers

VARIABLES
    links,       \* portal_links of kind customer
    quote,       \* company_documents: the quotation
    logged,      \* portal mutations on the log: portal-{quotation}-{verb}
    copy,        \* per device, the quotation as it last had it
    stage,       \* per handler, where it is
    party, verb, \* the link's customer, and what is asked
    base         \* the quotation it read

handlerVars == <<stage, party, verb, base>>
portalVars == <<links, quote, logged, copy, handlerVars>>

-----------------------------------------------------------------------------
create_portal_link(c) ==
    /\ links[c] = "none"
    /\ links' = [links EXCEPT ![c] = "live"]
    /\ UNCHANGED <<quote, logged, copy, handlerVars>>

revoke_portal_link(c) ==
    /\ links[c] # "none"
    /\ links' = [links EXCEPT ![c] = "revoked"]
    /\ UNCHANGED <<quote, logged, copy, handlerVars>>

\* Time passes expires_at.
ExpirePortalLink(c) ==
    /\ links[c] = "live"
    /\ links' = [links EXCEPT ![c] = "expired"]
    /\ UNCHANGED <<quote, logged, copy, handlerVars>>

-----------------------------------------------------------------------------
(* quote_action.                                                           *)

\* Mutant: the fields of the payload go over the stored ones, which stay.
fold_mutationMutant(payload) ==
    quote' = [payload EXCEPT !.decided = @ \cup quote.decided]

\* A mutation's payload becomes the projection's payload as a whole.
fold_mutation(payload) == quote' = payload

Proceed(h, phase) == stage' = [stage EXCEPT ![h] = phase] /\ UNCHANGED <<party, verb, base>>

\* POST /portal/{token}/quotations/{id}/accept or /reject with c's token.
Request(h, c, v) ==
    /\ stage[h] = "idle" /\ links[c] # "none"
    /\ stage' = [stage EXCEPT ![h] = "link"]
    /\ party' = [party EXCEPT ![h] = c]
    /\ verb' = [verb EXCEPT ![h] = v]
    /\ UNCHANGED <<links, quote, logged, copy, base>>

\* An answer, or a connection lost at an await: the handler is gone.
End(h) ==
    /\ stage' = [stage EXCEPT ![h] = "idle"]
    /\ party' = [party EXCEPT ![h] = Nobody]
    /\ verb' = [verb EXCEPT ![h] = "none"]
    /\ base' = [base EXCEPT ![h] = NoQuotation]

resolve_link(h) ==
    /\ stage[h] = "link"
    /\ \/ links[party[h]] # "live" /\ End(h)
       \/ links[party[h]] = "live" /\ Proceed(h, "quotation")
    /\ UNCHANGED <<links, quote, logged, copy>>

\* Someone else's quotation is a 404.
Foreign(h) == quote.customer # party[h]

\* The opposing field is already set: 409.
Opposed(h) == Verbs \ {verb[h]} \subseteq quote.decided

\* The decision was made before, and its repeat is answered at once.
Repeated(h) == verb[h] \in quote.decided

\* company_document, and the guards on what it shows.
ReadQuotation(h) ==
    /\ stage[h] = "quotation"
    /\ \/ (Foreign(h) \/ Opposed(h) \/ Repeated(h)) /\ End(h)
       \/ /\ ~Foreign(h) /\ ~Opposed(h) /\ ~Repeated(h)
          /\ stage' = [stage EXCEPT ![h] = "push"]
          /\ base' = [base EXCEPT ![h] = quote]
          /\ UNCHANGED <<party, verb>>
    /\ UNCHANGED <<links, quote, logged, copy>>

\* Mutant: every decision gets an id of its own.
KnownMutant(h) == FALSE

\* The log has the mutation id portal-{quotation}-{verb}, and skips it.
Known(h) == verb[h] \in logged

\* push_mutations: the payload as it was read, stamped.
PushDecision(h) ==
    /\ stage[h] = "push"
    /\ logged' = logged \cup {verb[h]}
    /\ fold_mutation(IF Known(h) THEN quote
                     ELSE [base[h] EXCEPT !.decided = @ \cup {verb[h]}])
    /\ Proceed(h, "told")
    /\ UNCHANGED <<links, copy>>

\* The audit row, then the answer.
TellCustomer(h) ==
    /\ stage[h] = "told"
    /\ End(h)
    /\ UNCHANGED <<links, quote, logged, copy>>

DropRequest(h) ==
    /\ stage[h] # "idle"
    /\ End(h)
    /\ UNCHANGED <<links, quote, logged, copy>>

-----------------------------------------------------------------------------
(* Devices.                                                                *)

Pull(d) ==
    /\ copy' = [copy EXCEPT ![d] = quote]
    /\ UNCHANGED <<links, quote, logged, handlerVars>>

\* An edit of the copy the device has, its customer included, is pushed.
Edit(d, c) ==
    /\ fold_mutation([copy[d] EXCEPT !.customer = c])
    /\ copy' = [copy EXCEPT ![d] = quote']
    /\ UNCHANGED <<links, logged, handlerVars>>

-----------------------------------------------------------------------------
PortalInit ==
    /\ links = [c \in Customers |-> "none"]
    /\ quote \in [customer : Customers, decided : {{}}]
    /\ logged = {}
    /\ copy = [d \in Devices |-> quote]
    /\ stage = [h \in Requests |-> "idle"]
    /\ party = [h \in Requests |-> Nobody]
    /\ verb = [h \in Requests |-> "none"]
    /\ base = [h \in Requests |-> NoQuotation]

PortalNext ==
    \/ \E c \in Customers : create_portal_link(c) \/ revoke_portal_link(c) \/ ExpirePortalLink(c)
    \/ \E h \in Requests, c \in Customers, v \in Verbs : Request(h, c, v)
    \/ \E h \in Requests : \/ resolve_link(h) \/ ReadQuotation(h) \/ PushDecision(h)
                           \/ TellCustomer(h) \/ DropRequest(h)
    \/ \E d \in Devices, c \in Customers : Pull(d) \/ Edit(d, c)

PortalSpec == PortalInit /\ [][PortalNext]_portalVars

-----------------------------------------------------------------------------
(* What makes the decisions correct.                                       *)

\* The quotation never reads as accepted and rejected at once, nor does a
\* copy of it: neither for two requests that both read it undecided, nor for a
\* request and a device that pushes an old copy.  The decision pushed last
\* takes the place of the other one, because fold_mutation replaces the whole
\* payload by one that was read undecided.
OneDecision ==
    \A q \in {quote} \cup {copy[d] : d \in Devices} : q.decided # Verbs

\* A request that takes the opposite decision off the quotation is the only
\* one that ever does: the decision it overrules is the only one the log had,
\* and its own fills the log.  So the portal turns a decision round at most
\* once, however requests cross, and however often devices bring back a copy
\* without the decision, or with the overruled one (the mutation ids of
\* quote_action, of which the log takes each once).
OverruledOnce ==
    [][\A h \in Requests :
          /\ stage[h] = "push" /\ stage'[h] = "told" /\ quote' # quote
          /\ Opposed(h)
          => logged = quote.decided /\ logged' = Verbs]_portalVars
=============================================================================
