----------------------------- MODULE Payments ------------------------------
(***************************************************************************)
(* apps/payments over apps/orders: charge attempts, the gateways behind    *)
(* them, and the webhooks that gateways send, which arrive in any order,   *)
(* late, more than once, or not at all.                                    *)
(*                                                                         *)
(* handle_webhook is one transaction that locks the order row before it    *)
(* looks at it; create_payment reads nothing of the order that another     *)
(* transaction changes; expire_pending_payments is one UPDATE.  So each is *)
(* one action.  The gateways are outside the repository: they are modelled *)
(* by the events the providers' parse_webhook functions know.              *)
(***************************************************************************)
EXTENDS Orders, Sequences

CONSTANTS
  Providers,    \* the providers buyers choose, of REGISTRY
  MaxPayments,  \* bound on the number of Payment rows
  MaxInflight,  \* bound on the webhooks underway at one time
  Deadlocks     \* whether a transition can be the victim of a database deadlock

ASSUME PaymentsAssumption ==
  /\ Providers \subseteq {"stripe", "paypal", "click", "payme", "manual"}
  /\ MaxPayments \in Nat /\ MaxInflight \in Nat
  /\ Deadlocks \in BOOLEAN

VARIABLES
  payments,          \* Payment rows in the order of their creation
  payment_provider,  \* Order.payment_provider, set together with payment_reference
  charges,           \* the gateways' view of the charge of each Payment
  inflight           \* webhooks the gateways still want to deliver

paymentVars == <<payments, payment_provider, charges, inflight>>
allVars == <<on_hand, reserved, active, moved, status, items, sold, stamped,
             payments, payment_provider, charges, inflight>>

PaymentStatus == {"pending", "authorized", "captured", "failed", "cancelled", "refunded"}

\* A charge is refused (create_charge failed), open, authorized or approved by
\* the buyer, captured, denied after the approval, closed without money, or
\* returned to the buyer.
ChargeStates ==
  {"refused", "open", "authorized", "approved", "captured", "denied", "closed", "returned"}

\* The charges a gateway has at some time announced as paid.  The shop takes
\* PayPal's event about the buyer's approval for such an announcement.
Announced == {"approved", "captured", "denied", "returned"}

---------------------------------------------------------------------------
(* create_charge of each provider: how it may end (every provider but the  *)
(* manual one may refuse: not configured, declined, unreachable), what the *)
(* order then keeps as its payment_reference, and which of the order's     *)
(* names the provider gives to the gateway for use in its webhooks.        *)

StripeCharge ==
  [ends |-> {"open", "refused"}, reference |-> "session id", name |-> "order id"]

PayPalCharge ==
  [ends |-> {"open", "refused"}, reference |-> "PayPal order id", name |-> "order id"]

ClickCharge ==
  [ends |-> {"open", "refused"}, reference |-> "order number", name |-> "order number"]

PaymeCharge ==
  [ends |-> {"open", "refused"}, reference |-> "order id", name |-> "order id"]

ManualCharge ==
  [ends |-> {"open"}, reference |-> "manual", name |-> "order id"]

Charge ==
  [stripe |-> StripeCharge, paypal |-> PayPalCharge, click |-> ClickCharge,
   payme |-> PaymeCharge, manual |-> ManualCharge]

---------------------------------------------------------------------------
(* parse_webhook of each provider: the new_status of an event, "" if none.  *)

StripeStatus ==
  [completed |-> "captured", payment_failed |-> "failed", expired |-> "failed",
   refunded |-> "refunded"]

PayPalStatus ==
  [approved |-> "captured", completed |-> "captured", denied |-> "failed",
   reversed |-> "failed", refunded |-> "refunded", other |-> ""]

PrepareIsCapture == [prepare |-> "captured", complete |-> "captured", other |-> ""]

ClickStatus == [prepare |-> "authorized", complete |-> "captured", other |-> ""]

PaymeStatus ==
  [Create |-> "authorized", Perform |-> "captured", Cancel |-> "cancelled", Check |-> ""]

NewStatus(provider, type) ==
  CASE provider = "stripe" -> StripeStatus[type]
    [] provider = "paypal" -> PayPalStatus[type]
    [] provider = "click"  -> ClickStatus[type]
    [] provider = "payme"  -> PaymeStatus[type]

\* What a gateway does with a charge, <<from, event it sends, to>>.  A declined
\* card leaves a Stripe session open for another try; Payme cancels a performed
\* transaction to give the money back.
GatewayMoves ==
  [stripe |-> {<<"open", "completed", "captured">>, <<"open", "payment_failed", "open">>,
               <<"open", "expired", "closed">>, <<"captured", "refunded", "returned">>},
   paypal |-> {<<"open", "other", "open">>, <<"open", "approved", "approved">>,
               <<"approved", "completed", "captured">>, <<"approved", "denied", "denied">>,
               <<"captured", "reversed", "returned">>,
               <<"captured", "refunded", "returned">>},
   click  |-> {<<"open", "prepare", "authorized">>, <<"authorized", "other", "authorized">>,
               <<"authorized", "complete", "captured">>},
   payme  |-> {<<"open", "Check", "open">>, <<"open", "Create", "authorized">>,
               <<"authorized", "Perform", "captured">>, <<"authorized", "Cancel", "closed">>,
               <<"captured", "Cancel", "returned">>},
   manual |-> {}]

PaymentsInit ==
  /\ OrdersInit
  /\ payments = <<>>
  /\ payment_provider = [o \in Orders |-> ""]
  /\ charges = <<>>
  /\ inflight = {}

---------------------------------------------------------------------------
(* Operations                                                              *)

\* create_payment, for an order in any status.
CreatePayment(o, provider) ==
  /\ status[o] # NoStatus
  /\ Len(payments) < MaxPayments
  /\ \E end \in Charge[provider].ends :
       LET opened == end = "open" IN
       /\ payments' = Append(payments,
               [order |-> o, provider |-> provider,
                status |-> IF opened THEN "pending" ELSE "failed"])
       /\ charges' = Append(charges, end)
       /\ payment_provider' =
            IF opened THEN [payment_provider EXCEPT ![o] = provider] ELSE payment_provider
  /\ UNCHANGED inflight
  /\ UNCHANGED vars

\* The gateway works on a charge and sends an event about it.
GatewayStep(p) ==
  /\ Cardinality(inflight) < MaxInflight
  /\ \E move \in GatewayMoves[payments[p].provider] :
       /\ charges[p] = move[1]
       /\ charges' = [charges EXCEPT ![p] = move[3]]
       /\ inflight' = inflight \cup {[payment |-> p, type |-> move[2]]}
  /\ UNCHANGED <<payments, payment_provider>>
  /\ UNCHANGED vars

MatchedByReference(m) ==
  payment_provider[payments[m.payment].order] = payments[m.payment].provider

\* handle_webhook looks for an order of that id, then for one with that payment
\* reference: the order number Click sends is a reference only while Click is
\* the provider tried last.
Matched(m) ==
  LET p == payments[m.payment]
      name == Charge[p.provider].name
  IN  name = "order id" \/ name = Charge[payment_provider[p.order]].reference

\* Events that are not about the checkout itself need not carry the order:
\* metadata and purchase_units belong to the checkout.
MayOmitOrder(m) ==
  \/ payments[m.payment].provider = "stripe" /\ m.type \in {"payment_failed", "refunded"}
  \/ payments[m.payment].provider = "paypal" /\ m.type \notin {"approved", "other"}

MarkVerbatim(o, provider, new) ==
  payments' = [i \in DOMAIN payments |->
    IF payments[i].order = o /\ payments[i].provider = provider
    THEN [payments[i] EXCEPT !.status = new]
    ELSE payments[i]]

\* The final UPDATE of handle_webhook: every attempt of this order with this
\* provider takes the new status.
MarkPayments(o, provider, new) ==
  payments' = [i \in DOMAIN payments |->
    IF payments[i].order = o /\ payments[i].provider = provider
    THEN [payments[i] EXCEPT !.status = IF new = "" THEN "pending" ELSE new]
    ELSE payments[i]]

\* The branches of handle_webhook on new_status.  A transition to PAID that
\* raises is undone to its savepoint and logged; the webhook goes on.
CaptureOrder(o) ==
  \/ PayOrder(o)
  \/ /\ ~CanTransition(o, "paid") \/ ~CanCommit(items[o]) \/ Deadlocks
     /\ UNCHANGED vars

CancelUnlessRefused(o) ==
  \/ CancelOrder(o)
  \/ ~CanTransition(o, "cancelled") /\ UNCHANGED vars

FailOrder(o) ==
  \/ status[o] = "pending" /\ CancelOrder(o)
  \/ status[o] # "pending" /\ UNCHANGED vars

RefundSwallowingErrors(o) ==
  \/ RefundOrder(o)
  \/ ~CanTransition(o, "refunded") /\ UNCHANGED vars

\* A refund of an order that cannot be refunded raises, and the whole webhook
\* is rolled back and answered with an error.
RefundBranch(o) == RefundOrder(o)

ApplyWebhook(o, new) ==
  \/ new = "captured" /\ CaptureOrder(o)
  \/ new \in {"failed", "cancelled"} /\ FailOrder(o)
  \/ new = "refunded" /\ RefundBranch(o)
  \/ new \in {"", "authorized"} /\ UNCHANGED vars

\* WebhookView.post with handle_webhook.  A webhook that was answered with
\* success may still come again; one that failed stays to be retried.
Deliver(m) ==
  LET p == payments[m.payment] IN
  /\ inflight' \in {inflight, inflight \ {m}}
  /\ \/ /\ ~Matched(m) \/ MayOmitOrder(m)
        /\ UNCHANGED payments
        /\ UNCHANGED vars
     \/ /\ Matched(m)
        /\ ApplyWebhook(p.order, NewStatus(p.provider, m.type))
        /\ MarkPayments(p.order, p.provider, NewStatus(p.provider, m.type))
  /\ UNCHANGED <<payment_provider, charges>>

\* expire_pending_payments: the pending payments created before the cutoff.
ExpirePendingPayments ==
  /\ \E cutoff \in DOMAIN payments :
       /\ \E i \in 1..cutoff : payments[i].status = "pending"
       /\ payments' = [i \in DOMAIN payments |->
            IF i <= cutoff /\ payments[i].status = "pending"
            THEN [payments[i] EXCEPT !.status = "failed"] ELSE payments[i]]
  /\ UNCHANGED <<payment_provider, charges, inflight>>
  /\ UNCHANGED vars

OrderStep ==
  /\ \/ \E o \in Orders, b \in Baskets : CreateOrder(o, b)
     \/ \E o \in Orders : CancelByUser(o)
     \/ \E o \in Orders, new \in Status : FulfilOrder(o, new)
     \/ StaffStock
  /\ UNCHANGED paymentVars

PaymentsNext ==
  \/ OrderStep
  \/ \E o \in Orders, provider \in Providers : CreatePayment(o, provider)
  \/ \E p \in DOMAIN payments : GatewayStep(p)
  \/ \E m \in inflight : Deliver(m)
  \/ ExpirePendingPayments

PaymentsSpec == PaymentsInit /\ [][PaymentsNext]_allVars

\* Every type of event a provider sends.
EventTypes == {move[2] : move \in UNION {GatewayMoves[q] : q \in Providers}}

\* Gateways deliver a webhook until it is answered with success.
FairPaymentsSpec ==
  /\ PaymentsSpec
  /\ \A p \in 1..MaxPayments, type \in EventTypes :
       WF_allVars([payment |-> p, type |-> type] \in inflight
                  /\ Deliver([payment |-> p, type |-> type]))

---------------------------------------------------------------------------
(* Properties                                                              *)

PaymentsTypeOK ==
  /\ OrdersTypeOK
  /\ payments \in Seq([order : Orders, provider : Providers, status : PaymentStatus])
  /\ payment_provider \in [Orders -> Providers \cup {""}]
  /\ charges \in Seq(ChargeStates)
  /\ Len(charges) = Len(payments)
  /\ inflight \subseteq [payment : DOMAIN payments, type : EventTypes]

\* An order counts as paid only if a gateway has announced a charge made for
\* that very order, whatever webhooks come late, twice or out of order
\* (handle_webhook; matching by order id and by payment reference).
PaidOnlyIfAnnounced ==
  \A o \in Orders :
    "paid" \in stamped[o] =>
      \E i \in DOMAIN payments : payments[i].order = o /\ charges[i] \in Announced

\* A refunded payment belongs to a refunded order: the two are written in one
\* transaction or not at all (the refunded branch of handle_webhook).
RefundedTogether ==
  \A i \in DOMAIN payments :
    payments[i].status = "refunded" => status[payments[i].order] = "refunded"

\* A late failure or cancellation notice never takes away a paid order: an
\* order that has been paid is never cancelled, unless someone asks for it
\* (the PENDING test before the failed branch of handle_webhook).
PaidIsNotCancelled ==
  \A o \in Orders : ~CancelledLate(o)

\* "Each Payment represents a charge attempt for an order": a payment that
\* says captured is one whose own charge was announced as paid (payments/models.py:3).
PaymentTellsItsCharge ==
  \A i \in DOMAIN payments :
    payments[i].status = "captured" => charges[i] \in Announced

\* Money that a gateway has captured does not go unnoticed: the order leaves
\* PENDING, because the webhook is delivered and nothing makes its transition
\* fail (the captured branch of handle_webhook, which swallows failures).
CaptureIsNoticed ==
  \A p \in 1..MaxPayments :
    (p \in DOMAIN payments /\ charges[p] = "captured")
      ~> (p \in DOMAIN payments /\ status[payments[p].order] # "pending")
=============================================================================
