--------------------------- MODULE PaymentsProofs ---------------------------
(***************************************************************************)
(* Proofs about Payments for any number of orders, attempts and webhooks   *)
(* underway, with every provider: gateways and webhooks use orders as      *)
(* their buyers and staff do, so what OrdersProofs shows holds under any   *)
(* delivery of webhooks; orders are paid only for charges a gateway has    *)
(* announced; and a refunded payment belongs to a refunded order.          *)
(***************************************************************************)
EXTENDS Payments, OrdersProofs, SequenceTheorems

Attempt == [order : Orders, provider : Providers, status : PaymentStatus]

\* Every webhook underway is about an attempt, and of a type its provider sends.
SentByProvider ==
  \A m \in inflight :
    /\ m \in [payment : DOMAIN payments, type : EventTypes]
    /\ \E move \in GatewayMoves[payments[m.payment].provider] : move[2] = m.type

\* A webhook the code takes for a capture is about a charge that was announced:
\* what PaidOnlyIfAnnounced needs to be inductive.
CapturesAreAnnounced ==
  \A m \in inflight :
    NewStatus(payments[m.payment].provider, m.type) = "captured" =>
      charges[m.payment] \in Announced

Attempts ==
  /\ payments \in Seq(Attempt)
  /\ payment_provider \in [Orders -> Providers \cup {""}]
  /\ charges \in Seq(ChargeStates)
  /\ Len(charges) = Len(payments)
  /\ SentByProvider
  /\ CapturesAreAnnounced

---------------------------------------------------------------------------
(* Gateways and providers                                                  *)

\* What a gateway's move may do: it keeps an announcement announced, and an
\* event whose new_status is "captured" announces.
LEMMA GatewayTable ==
  ASSUME NEW q \in Providers, NEW move \in GatewayMoves[q]
  PROVE  /\ move[3] \in ChargeStates
         /\ move[2] \in EventTypes
         /\ NewStatus(q, move[2]) \in PaymentStatus \cup {""}
         /\ move[1] \in Announced => move[3] \in Announced
         /\ NewStatus(q, move[2]) = "captured" => move[3] \in Announced
<1>1. q \in {"stripe", "paypal", "click", "payme", "manual"}
  BY PaymentsAssumption
<1>2. move[2] \in EventTypes
  BY DEF EventTypes
<1>3. CASE q = "stripe"
  <2>1. GatewayMoves["stripe"] =
           {<<"open", "completed", "captured">>,
            <<"open", "payment_failed", "open">>,
            <<"open", "expired", "closed">>,
            <<"captured", "refunded", "returned">>}
    BY DEF GatewayMoves
  <2>2. /\ StripeStatus["completed"] = "captured"
        /\ StripeStatus["payment_failed"] = "failed"
        /\ StripeStatus["expired"] = "failed"
        /\ StripeStatus["refunded"] = "refunded"
    BY DEF StripeStatus
  <2>3. NewStatus(q, move[2]) = StripeStatus[move[2]]
    BY <1>3 DEF NewStatus
  <2>4. move \in GatewayMoves["stripe"]
    BY <1>3
  <2>5. \/ move[1] = "open" /\ move[2] = "completed" /\ move[3] = "captured"
        \/ move[1] = "open" /\ move[2] = "payment_failed" /\ move[3] = "open"
        \/ move[1] = "open" /\ move[2] = "expired" /\ move[3] = "closed"
        \/ move[1] = "captured" /\ move[2] = "refunded" /\ move[3] = "returned"
    BY <2>1, <2>4
  <2> QED
    BY <1>2, <2>2, <2>3, <2>5 DEF PaymentStatus, ChargeStates, Announced
<1>4. CASE q = "paypal"
  <2>1. GatewayMoves["paypal"] =
           {<<"open", "other", "open">>,
            <<"open", "approved", "approved">>,
            <<"approved", "completed", "captured">>,
            <<"approved", "denied", "denied">>,
            <<"captured", "reversed", "returned">>,
            <<"captured", "refunded", "returned">>}
    BY DEF GatewayMoves
  <2>2. /\ PayPalStatus["other"] = ""
        /\ PayPalStatus["approved"] = "captured"
        /\ PayPalStatus["completed"] = "captured"
        /\ PayPalStatus["denied"] = "failed"
        /\ PayPalStatus["reversed"] = "failed"
        /\ PayPalStatus["refunded"] = "refunded"
    BY DEF PayPalStatus
  <2>3. NewStatus(q, move[2]) = PayPalStatus[move[2]]
    BY <1>4 DEF NewStatus
  <2>4. move \in GatewayMoves["paypal"]
    BY <1>4
  <2>5. \/ move[1] = "open" /\ move[2] = "other" /\ move[3] = "open"
        \/ move[1] = "open" /\ move[2] = "approved" /\ move[3] = "approved"
        \/ move[1] = "approved" /\ move[2] = "completed" /\ move[3] = "captured"
        \/ move[1] = "approved" /\ move[2] = "denied" /\ move[3] = "denied"
        \/ move[1] = "captured" /\ move[2] = "reversed" /\ move[3] = "returned"
        \/ move[1] = "captured" /\ move[2] = "refunded" /\ move[3] = "returned"
    BY <2>1, <2>4
  <2> QED
    BY <1>2, <2>2, <2>3, <2>5 DEF PaymentStatus, ChargeStates, Announced
<1>5. CASE q = "click"
  <2>1. GatewayMoves["click"] =
           {<<"open", "prepare", "authorized">>,
            <<"authorized", "other", "authorized">>,
            <<"authorized", "complete", "captured">>}
    BY DEF GatewayMoves
  <2>2. /\ ClickStatus["prepare"] = "authorized"
        /\ ClickStatus["other"] = ""
        /\ ClickStatus["complete"] = "captured"
    BY DEF ClickStatus
  <2>3. NewStatus(q, move[2]) = ClickStatus[move[2]]
    BY <1>5 DEF NewStatus
  <2>4. move \in GatewayMoves["click"]
    BY <1>5
  <2>5. \/ move[1] = "open" /\ move[2] = "prepare" /\ move[3] = "authorized"
        \/ move[1] = "authorized" /\ move[2] = "other" /\ move[3] = "authorized"
        \/ move[1] = "authorized" /\ move[2] = "complete" /\ move[3] = "captured"
    BY <2>1, <2>4
  <2> QED
    BY <1>2, <2>2, <2>3, <2>5 DEF PaymentStatus, ChargeStates, Announced
<1>6. CASE q = "payme"
  <2>1. GatewayMoves["payme"] =
           {<<"open", "Check", "open">>,
            <<"open", "Create", "authorized">>,
            <<"authorized", "Perform", "captured">>,
            <<"authorized", "Cancel", "closed">>,
            <<"captured", "Cancel", "returned">>}
    BY DEF GatewayMoves
  <2>2. /\ PaymeStatus["Check"] = ""
        /\ PaymeStatus["Create"] = "authorized"
        /\ PaymeStatus["Perform"] = "captured"
        /\ PaymeStatus["Cancel"] = "cancelled"
    BY DEF PaymeStatus
  <2>3. NewStatus(q, move[2]) = PaymeStatus[move[2]]
    BY <1>6 DEF NewStatus
  <2>4. move \in GatewayMoves["payme"]
    BY <1>6
  <2>5. \/ move[1] = "open" /\ move[2] = "Check" /\ move[3] = "open"
        \/ move[1] = "open" /\ move[2] = "Create" /\ move[3] = "authorized"
        \/ move[1] = "authorized" /\ move[2] = "Perform" /\ move[3] = "captured"
        \/ move[1] = "authorized" /\ move[2] = "Cancel" /\ move[3] = "closed"
        \/ move[1] = "captured" /\ move[2] = "Cancel" /\ move[3] = "returned"
    BY <2>1, <2>4
  <2> QED
    BY <1>2, <2>2, <2>3, <2>5 DEF PaymentStatus, ChargeStates, Announced
<1>7. CASE q = "manual"
  BY <1>7 DEF GatewayMoves
<1> QED
  BY <1>1, <1>3, <1>4, <1>5, <1>6, <1>7

\* The attempts and charges go by the same numbers.
LEMMA SameNumbers ==
  ASSUME Attempts
  PROVE  /\ Len(payments) \in Nat
         /\ DOMAIN payments = 1..Len(payments)
         /\ DOMAIN charges = 1..Len(payments)
         /\ \A i \in DOMAIN payments : payments[i] \in Attempt /\ charges[i] \in ChargeStates
<1>1. /\ Len(payments) \in Nat /\ DOMAIN payments = 1..Len(payments)
      /\ payments \in [1..Len(payments) -> Attempt]
  BY LenProperties DEF Attempts
<1>2. /\ DOMAIN charges = 1..Len(charges)
      /\ charges \in [1..Len(charges) -> ChargeStates]
  BY LenProperties DEF Attempts
<1> QED
  BY <1>1, <1>2 DEF Attempts

\* A row added at the end changes no other.
LEMMA AddedRow ==
  ASSUME NEW S, NEW rows \in Seq(S), NEW row \in S, NEW new, new = Append(rows, row)
  PROVE  /\ new \in Seq(S)
         /\ Len(new) = Len(rows) + 1
         /\ DOMAIN new = 1..(Len(rows) + 1)
         /\ \A i \in 1..Len(rows) : new[i] = rows[i]
         /\ new[Len(rows) + 1] = row
<1>1. /\ new \in Seq(S)
      /\ Len(new) = Len(rows) + 1
      /\ \A i \in 1..Len(rows) : new[i] = rows[i]
      /\ new[Len(rows) + 1] = row
  BY AppendProperties, Zenon
<1>2. DOMAIN new = 1..Len(new)
  BY <1>1, LenProperties, Zenon
<1> QED
  BY <1>1, <1>2, Zenon

\* A row rewritten changes no other.
LEMMA ChangedRow ==
  ASSUME NEW S, NEW rows \in Seq(S), NEW i \in 1..Len(rows), NEW e \in S,
         NEW new, new = [rows EXCEPT ![i] = e]
  PROVE  /\ new \in Seq(S)
         /\ Len(new) = Len(rows)
         /\ \A j \in 1..Len(rows) : new[j] = IF j = i THEN e ELSE rows[j]
<1>1. DOMAIN rows = 1..Len(rows)
  BY LenProperties
<1> QED
  BY <1>1, ExceptSeq

\* Rows rewritten in place are still a sequence of the same length.
LEMMA RewrittenRows ==
  ASSUME NEW S, NEW rows \in Seq(S), NEW new \in [DOMAIN rows -> S]
  PROVE  new \in Seq(S) /\ Len(new) = Len(rows) /\ DOMAIN new = DOMAIN rows
<1>1. Len(rows) \in Nat /\ DOMAIN rows = 1..Len(rows)
  BY LenProperties
<1>2. new \in [1..Len(rows) -> S]
  BY <1>1
<1>3. new \in Seq(S)
  BY <1>1, <1>2, SeqDef
<1>4. Len(new) = Len(rows)
  BY <1>1, <1>2
<1> QED
  BY <1>1, <1>2, <1>3, <1>4

---------------------------------------------------------------------------
(* Attempts is an invariant, whatever orders do.                           *)

\* Rewriting the status of attempts touches neither their order nor their provider.
LEMMA StatusesRewritten ==
  ASSUME Attempts,
         payments' \in [DOMAIN payments -> Attempt],
         \A i \in DOMAIN payments :
           payments'[i].order = payments[i].order /\ payments'[i].provider = payments[i].provider,
         inflight' \subseteq inflight,
         UNCHANGED <<payment_provider, charges>>
  PROVE  Attempts'
<1>1. /\ payments' \in Seq(Attempt) /\ Len(payments') = Len(payments)
      /\ DOMAIN payments' = DOMAIN payments
  BY RewrittenRows DEF Attempts
<1>2. SentByProvider'
  BY <1>1 DEF Attempts, SentByProvider
<1>3. CapturesAreAnnounced'
  BY <1>1 DEF Attempts, SentByProvider, CapturesAreAnnounced
<1> QED
  BY <1>1, <1>2, <1>3 DEF Attempts

\* create_payment adds one attempt, pending or failed, with its charge.
LEMMA CreateAddsAttempt ==
  ASSUME Attempts, NEW o \in Orders, NEW provider \in Providers, CreatePayment(o, provider)
  PROVE  /\ payments' \in Seq(Attempt) /\ charges' \in Seq(ChargeStates)
         /\ Len(charges') = Len(payments')
         /\ DOMAIN payments \subseteq DOMAIN payments'
         /\ \A i \in DOMAIN payments : payments'[i] = payments[i] /\ charges'[i] = charges[i]
         /\ \A i \in DOMAIN payments' :
              i \in DOMAIN payments \/ payments'[i].status \in {"pending", "failed"}
         /\ payment_provider' \in [Orders -> Providers \cup {""}]
         /\ inflight' = inflight
<1>1. PICK end \in Charge[provider].ends :
        /\ payments' = Append(payments,
                [order |-> o, provider |-> provider,
                 status |-> IF end = "open" THEN "pending" ELSE "failed"])
        /\ charges' = Append(charges, end)
        /\ payment_provider' = IF end = "open"
             THEN [payment_provider EXCEPT ![o] = provider] ELSE payment_provider
        /\ inflight' = inflight
  BY DEF CreatePayment
<1>2. end \in ChargeStates
  <2>1. provider \in {"stripe", "paypal", "click", "payme", "manual"}
    BY PaymentsAssumption
  <2>2. /\ Charge["stripe"].ends = {"open", "refused"}
        /\ Charge["paypal"].ends = {"open", "refused"}
        /\ Charge["click"].ends = {"open", "refused"}
        /\ Charge["payme"].ends = {"open", "refused"}
        /\ Charge["manual"].ends = {"open"}
    BY DEF Charge, StripeCharge, PayPalCharge, ClickCharge, PaymeCharge, ManualCharge
  <2> QED
    BY <2>1, <2>2 DEF ChargeStates
<1> DEFINE row == [order |-> o, provider |-> provider,
                   status |-> IF end = "open" THEN "pending" ELSE "failed"]
<1>3. row \in Attempt
  BY DEF Attempt, PaymentStatus
<1> HIDE DEF row
<1>4. /\ payments' \in Seq(Attempt) /\ Len(payments') = Len(payments) + 1
      /\ DOMAIN payments' = 1..(Len(payments) + 1)
      /\ \A i \in 1..Len(payments) : payments'[i] = payments[i]
      /\ payments'[Len(payments) + 1] = row
  <2>1. payments \in Seq(Attempt)
    BY DEF Attempts
  <2>2. payments' = Append(payments, row)
    BY <1>1 DEF row
  <2> QED
    BY <1>3, <2>1, <2>2, AddedRow
<1>5. /\ charges' \in Seq(ChargeStates) /\ Len(charges') = Len(charges) + 1
      /\ \A i \in 1..Len(charges) : charges'[i] = charges[i]
  <2>1. charges \in Seq(ChargeStates)
    BY DEF Attempts
  <2>2. charges' = Append(charges, end)
    BY <1>1
  <2> QED
    BY <1>2, <2>1, <2>2, AddedRow
<1>6. Len(payments) \in Nat /\ DOMAIN payments = 1..Len(payments) /\ Len(charges) = Len(payments)
  BY SameNumbers DEF Attempts
<1>7. payments'[Len(payments) + 1] = row /\ row.status \in {"pending", "failed"}
  BY <1>4 DEF row
<1>8. payment_provider' \in [Orders -> Providers \cup {""}]
  BY <1>1 DEF Attempts
<1>9. DOMAIN payments' = DOMAIN payments \cup {Len(payments) + 1}
  BY <1>4, <1>6
<1> QED
  BY <1>1, <1>4, <1>5, <1>6, <1>7, <1>8, <1>9

\* create_payment.
LEMMA CreateKeepsAttempts ==
  ASSUME Attempts, NEW o \in Orders, NEW provider \in Providers, CreatePayment(o, provider)
  PROVE  Attempts'
<1>1. /\ payments' \in Seq(Attempt) /\ charges' \in Seq(ChargeStates)
      /\ Len(charges') = Len(payments')
      /\ DOMAIN payments \subseteq DOMAIN payments'
      /\ \A i \in DOMAIN payments : payments'[i] = payments[i] /\ charges'[i] = charges[i]
      /\ payment_provider' \in [Orders -> Providers \cup {""}]
      /\ inflight' = inflight
  BY CreateAddsAttempt
<1>2. SentByProvider'
  BY <1>1 DEF Attempts, SentByProvider
<1>3. CapturesAreAnnounced'
  BY <1>1 DEF Attempts, SentByProvider, CapturesAreAnnounced
<1> QED
  BY <1>1, <1>2, <1>3 DEF Attempts

\* A gateway works on a charge and sends an event.
LEMMA GatewayKeepsAttempts ==
  ASSUME Attempts, NEW p \in DOMAIN payments, GatewayStep(p)
  PROVE  Attempts'
<1> DEFINE q == payments[p].provider
<1>1. PICK move \in GatewayMoves[q] :
        /\ charges[p] = move[1]
        /\ charges' = [charges EXCEPT ![p] = move[3]]
        /\ inflight' = inflight \cup {[payment |-> p, type |-> move[2]]}
        /\ UNCHANGED <<payments, payment_provider>>
  BY DEF GatewayStep
<1>2. q \in Providers
  BY SameNumbers DEF Attempt
<1>3. /\ move[3] \in ChargeStates /\ move[2] \in EventTypes
      /\ move[1] \in Announced => move[3] \in Announced
      /\ NewStatus(q, move[2]) = "captured" => move[3] \in Announced
  BY <1>2, GatewayTable
<1>4. p \in 1..Len(charges)
  BY SameNumbers DEF Attempts
<1>5. /\ charges' \in Seq(ChargeStates) /\ Len(charges') = Len(charges)
      /\ \A j \in 1..Len(charges) : charges'[j] = IF j = p THEN move[3] ELSE charges[j]
  <2>1. charges \in Seq(ChargeStates)
    BY DEF Attempts
  <2>2. charges' = [charges EXCEPT ![p] = move[3]] /\ move[3] \in ChargeStates
    BY <1>1, <1>3
  <2> QED
    BY <1>4, <2>1, <2>2, ChangedRow
<1>6. SentByProvider'
  <2> SUFFICES ASSUME NEW m \in inflight'
               PROVE  /\ m \in [payment : DOMAIN payments, type : EventTypes]
                      /\ \E to \in GatewayMoves[payments[m.payment].provider] : to[2] = m.type
    BY <1>1 DEF SentByProvider
  <2>1. CASE m = [payment |-> p, type |-> move[2]]
    <3>1. m \in [payment : DOMAIN payments, type : EventTypes]
      BY <1>3, <2>1
    <3>2. m.payment = p /\ m.type = move[2]
      BY <2>1
    <3> QED
      BY <3>1, <3>2
  <2>2. CASE m \in inflight
    BY <2>2 DEF Attempts, SentByProvider
  <2> QED
    BY <1>1, <2>1, <2>2
<1>7. CapturesAreAnnounced'
  <2> SUFFICES ASSUME NEW m \in inflight',
                      NewStatus(payments[m.payment].provider, m.type) = "captured"
               PROVE  charges'[m.payment] \in Announced
    BY <1>1 DEF CapturesAreAnnounced
  <2>1. CASE m = [payment |-> p, type |-> move[2]]
    BY <2>1, <1>3, <1>4, <1>5
  <2>2. CASE m \in inflight
    <3>1. charges[m.payment] \in Announced
      BY <2>2 DEF Attempts, CapturesAreAnnounced
    <3>2. m.payment \in 1..Len(charges)
      BY <2>2, SameNumbers DEF Attempts, SentByProvider
    <3> QED
      BY <1>1, <1>3, <1>5, <3>1, <3>2
  <2> QED
    BY <1>1, <2>1, <2>2
<1> QED
  BY <1>1, <1>5, <1>6, <1>7 DEF Attempts

\* What a webhook is about, and what it says.
LEMMA WebhookFits ==
  ASSUME Attempts, NEW m \in inflight
  PROVE  /\ m.payment \in DOMAIN payments
         /\ payments[m.payment].order \in Orders
         /\ NewStatus(payments[m.payment].provider, m.type) \in PaymentStatus \cup {""}
<1>1. m.payment \in DOMAIN payments
  BY DEF Attempts, SentByProvider
<1>2. payments[m.payment].order \in Orders /\ payments[m.payment].provider \in Providers
  BY <1>1, SameNumbers DEF Attempt
<1>3. PICK move \in GatewayMoves[payments[m.payment].provider] : move[2] = m.type
  BY DEF Attempts, SentByProvider
<1> QED
  BY <1>1, <1>2, <1>3, GatewayTable

\* handle_webhook.
LEMMA DeliverKeepsAttempts ==
  ASSUME Attempts, NEW m \in inflight, Deliver(m)
  PROVE  Attempts'
<1> DEFINE p == payments[m.payment]
           new == NewStatus(p.provider, m.type)
<1>1. inflight' \subseteq inflight /\ UNCHANGED <<payment_provider, charges>>
  BY DEF Deliver
<1>2. CASE UNCHANGED payments
  <2>1. payments' \in [DOMAIN payments -> Attempt]
    BY <1>2, SameNumbers, LenProperties DEF Attempts
  <2> QED
    BY <1>1, <1>2, <2>1, StatusesRewritten
<1>3. CASE MarkPayments(p.order, p.provider, new)
  <2>1. new \in PaymentStatus \cup {""}
    BY WebhookFits
  <2>2. payments' = [i \in DOMAIN payments |->
          IF payments[i].order = p.order /\ payments[i].provider = p.provider
          THEN [payments[i] EXCEPT !.status = IF new = "" THEN "pending" ELSE new]
          ELSE payments[i]]
    BY <1>3 DEF MarkPayments
  <2>3. \A i \in DOMAIN payments : payments[i] \in Attempt
    BY SameNumbers
  <2>4. (IF new = "" THEN "pending" ELSE new) \in PaymentStatus
    BY <2>1 DEF PaymentStatus
  <2> HIDE DEF new, p
  <2>5. \A i \in DOMAIN payments :
          /\ payments'[i] \in Attempt
          /\ payments'[i].order = payments[i].order
          /\ payments'[i].provider = payments[i].provider
    BY <2>2, <2>3, <2>4 DEF Attempt
  <2>6. payments' \in [DOMAIN payments -> Attempt]
    BY <2>2, <2>5
  <2> QED
    BY <1>1, <2>5, <2>6, StatusesRewritten
<1> QED
  BY <1>2, <1>3 DEF Deliver

\* expire_pending_payments.
LEMMA ExpireKeepsAttempts ==
  ASSUME Attempts, ExpirePendingPayments
  PROVE  Attempts'
<1>1. PICK cutoff \in DOMAIN payments :
        payments' = [i \in DOMAIN payments |->
          IF i <= cutoff /\ payments[i].status = "pending"
          THEN [payments[i] EXCEPT !.status = "failed"] ELSE payments[i]]
  BY DEF ExpirePendingPayments
<1>2. \A i \in DOMAIN payments : payments[i] \in Attempt
  BY SameNumbers
<1>3. \A i \in DOMAIN payments :
        /\ payments'[i] \in Attempt
        /\ payments'[i].order = payments[i].order
        /\ payments'[i].provider = payments[i].provider
  BY <1>1, <1>2 DEF Attempt, PaymentStatus
<1>4. payments' \in [DOMAIN payments -> Attempt]
  BY <1>1, <1>3
<1>5. inflight' = inflight /\ UNCHANGED <<payment_provider, charges>>
  BY DEF ExpirePendingPayments
<1> QED
  BY <1>3, <1>4, <1>5, StatusesRewritten

\* Attempts and webhooks stay well made, and captures announced (handle_webhook).
THEOREM AttemptsInvariant == PaymentsSpec => []Attempts
<1>1. PaymentsInit => Attempts
  <2> SUFFICES ASSUME PaymentsInit PROVE Attempts
    OBVIOUS
  <2>1. /\ payments = <<>> /\ charges = <<>> /\ inflight = {}
        /\ payment_provider = [o \in Orders |-> ""]
    BY DEF PaymentsInit
  <2>2. payments \in Seq(Attempt) /\ charges \in Seq(ChargeStates) /\ Len(charges) = Len(payments)
    BY <2>1, EmptySeq
  <2> QED
    BY <2>1, <2>2 DEF Attempts, SentByProvider, CapturesAreAnnounced
<1>2. Attempts /\ [PaymentsNext]_allVars => Attempts'
  <2> SUFFICES ASSUME Attempts, [PaymentsNext]_allVars PROVE Attempts'
    OBVIOUS
  <2>1. ASSUME UNCHANGED paymentVars PROVE Attempts'
    BY <2>1 DEF paymentVars, Attempts, SentByProvider, CapturesAreAnnounced
  <2>2. CASE OrderStep
    BY <2>1, <2>2 DEF OrderStep
  <2>3. ASSUME NEW o \in Orders, NEW provider \in Providers, CreatePayment(o, provider)
        PROVE  Attempts'
    BY <2>3, CreateKeepsAttempts
  <2>4. ASSUME NEW p \in DOMAIN payments, GatewayStep(p) PROVE Attempts'
    BY <2>4, GatewayKeepsAttempts
  <2>5. ASSUME NEW m \in inflight, Deliver(m) PROVE Attempts'
    BY <2>5, DeliverKeepsAttempts
  <2>6. CASE ExpirePendingPayments
    BY <2>6, ExpireKeepsAttempts
  <2>7. CASE UNCHANGED allVars
    BY <2>1, <2>7 DEF allVars, paymentVars
  <2> QED
    BY <2>2, <2>3, <2>4, <2>5, <2>6, <2>7 DEF PaymentsNext
<1> QED
  BY <1>1, <1>2, PTL DEF PaymentsSpec

---------------------------------------------------------------------------
(* Webhooks use orders as buyers and staff do.                             *)

\* What handle_webhook does to the order it is about.
LEMMA WebhookIsTransition ==
  ASSUME Attempts, NEW m \in inflight, Deliver(m)
  PROVE  LET o == payments[m.payment].order
             new == NewStatus(payments[m.payment].provider, m.type)
         IN  \/ new = "captured" /\ PayOrder(o)
             \/ CancelByUser(o)
             \/ new = "refunded" /\ RefundOrder(o)
             \/ UNCHANGED vars
BY DEF Deliver, ApplyWebhook, CaptureOrder, FailOrder, RefundBranch, CancelByUser

\* Every step of the payments is a step of the orders or leaves them alone.
LEMMA StepOfOrders ==
  ASSUME Attempts, [PaymentsNext]_allVars
  PROVE  [OrdersNext]_vars
<1>1. CASE OrderStep
  BY <1>1 DEF OrderStep, OrdersNext
<1>2. ASSUME NEW o \in Orders, NEW provider \in Providers, CreatePayment(o, provider)
      PROVE  UNCHANGED vars
  BY <1>2 DEF CreatePayment
<1>3. ASSUME NEW p \in DOMAIN payments, GatewayStep(p) PROVE UNCHANGED vars
  BY <1>3 DEF GatewayStep
<1>4. ASSUME NEW m \in inflight, Deliver(m) PROVE [OrdersNext]_vars
  BY <1>4, WebhookIsTransition, WebhookFits DEF OrdersNext
<1>5. CASE ExpirePendingPayments
  BY <1>5 DEF ExpirePendingPayments
<1>6. CASE UNCHANGED allVars
  BY <1>6 DEF allVars, vars
<1> QED
  BY <1>1, <1>2, <1>3, <1>4, <1>5, <1>6 DEF PaymentsNext

\* Whatever webhooks gateways send, late, twice or out of order, they move orders
\* only the way the order component allows: every theorem about OrdersSpec holds.
THEOREM PaymentsUseOrders == PaymentsSpec => OrdersSpec
<1>1. PaymentsInit => OrdersInit
  BY DEF PaymentsInit
<1>2. Attempts /\ [PaymentsNext]_allVars => [OrdersNext]_vars
  BY StepOfOrders
<1> QED
  BY <1>1, <1>2, AttemptsInvariant, PTL DEF PaymentsSpec, OrdersSpec

\* Repeated, reordered and lost webhooks charge an order's stock exactly once.
THEOREM WebhooksChargeOnce == PaymentsSpec => []StockChargedOnce
BY PaymentsUseOrders, ChargedOnce, PTL

\* And they never leave a reservation without its order.
THEOREM WebhooksLeakNothing == PaymentsSpec => []NoLeakedReservation
BY PaymentsUseOrders, NoLeak, PTL

\* The order component keeps its contract whatever gateways send.
THEOREM WebhooksKeepContract == PaymentsSpec => KeepsContract
BY PaymentsUseOrders, OrdersKeepContract

\* A captured payment can be carried out as long as nobody cancels a paid order
\* and staff only add stock: commit_sale has what it needs.
THEOREM CapturesFindTheirStock ==
  ASSUME LateCancels = {}, Deltas \subseteq Nat
  PROVE  PaymentsSpec => []EveryPendingOrderCanBePaid
BY PaymentsUseOrders, PendingOrdersCanBePaid, PTL

\* The tables of apps/payments keep their types under any number of webhooks.
THEOREM PaymentsTypeCorrect == PaymentsSpec => []PaymentsTypeOK
<1>1. Attempts /\ OrdersTypeOK => PaymentsTypeOK
  BY DEF Attempts, SentByProvider, PaymentsTypeOK, Attempt
<1> QED
  BY <1>1, AttemptsInvariant, PaymentsUseOrders, OrdersTypeCorrect, PTL

---------------------------------------------------------------------------
(* Orders and the money behind them                                        *)

\* An order gets stamped as paid only by a webhook the code takes for its capture.
LEMMA WebhookPays ==
  ASSUME Attempts, Charged, [PaymentsNext]_allVars,
         NEW o \in Orders, "paid" \in stamped'[o], "paid" \notin stamped[o]
  PROVE  \E m \in inflight :
           /\ payments[m.payment].order = o
           /\ NewStatus(payments[m.payment].provider, m.type) = "captured"
<1>1. stamped \in [Orders -> SUBSET {"paid", "cancelled", "refunded"}]
  BY DEF Charged, OrdersTypeOK
<1>2. ~(UNCHANGED stamped)
  OBVIOUS
<1>3. ASSUME NEW x \in Orders, CancelByUser(x) \/ RefundOrder(x) PROVE FALSE
  <2>1. \/ stamped' = [stamped EXCEPT ![x] = @ \cup {"cancelled"}]
        \/ stamped' = [stamped EXCEPT ![x] = @ \cup {"refunded"}]
    BY <1>3 DEF CancelByUser, CancelOrder, RefundOrder
  <2> QED
    BY <1>1, <2>1
<1>4. CASE OrderStep
  <2>1. ASSUME NEW x \in Orders, NEW b \in Baskets, CreateOrder(x, b) PROVE FALSE
    BY <1>2, <2>1 DEF CreateOrder
  <2>2. ASSUME NEW x \in Orders, NEW new \in Status, FulfilOrder(x, new) PROVE FALSE
    BY <1>2, <2>2 DEF FulfilOrder
  <2>3. CASE StaffStock
    BY <1>2, <2>3 DEF StaffStock, orderVars
  <2> QED
    BY <1>3, <1>4, <2>1, <2>2, <2>3 DEF OrderStep
<1>5. ASSUME NEW m \in inflight, Deliver(m)
      PROVE  /\ payments[m.payment].order = o
             /\ NewStatus(payments[m.payment].provider, m.type) = "captured"
  <2> DEFINE x == payments[m.payment].order
             new == NewStatus(payments[m.payment].provider, m.type)
  <2>1. x \in Orders
    BY <1>5, WebhookFits
  <2>2. \/ new = "captured" /\ PayOrder(x)
        \/ CancelByUser(x)
        \/ new = "refunded" /\ RefundOrder(x)
        \/ UNCHANGED vars
    BY <1>5, WebhookIsTransition
  <2> HIDE DEF x, new
  <2>3. new = "captured" /\ PayOrder(x)
    BY <1>2, <1>3, <2>1, <2>2 DEF vars
  <2>4. stamped' = [stamped EXCEPT ![x] = @ \cup {"paid"}]
    BY <2>3 DEF PayOrder
  <2>5. x = o
    BY <1>1, <2>1, <2>4
  <2> QED
    BY <2>3, <2>5 DEF x, new
<1>6. ASSUME UNCHANGED vars PROVE FALSE
  BY <1>2, <1>6 DEF vars
<1>7. ASSUME NEW x \in Orders, NEW provider \in Providers, CreatePayment(x, provider)
      PROVE  FALSE
  BY <1>6, <1>7 DEF CreatePayment
<1>8. ASSUME NEW p \in DOMAIN payments, GatewayStep(p) PROVE FALSE
  BY <1>6, <1>8 DEF GatewayStep
<1>9. CASE ExpirePendingPayments
  BY <1>6, <1>9 DEF ExpirePendingPayments
<1>10. CASE UNCHANGED allVars
  BY <1>2, <1>10 DEF allVars
<1> QED
  BY <1>4, <1>5, <1>7, <1>8, <1>9, <1>10 DEF PaymentsNext

\* Attempts and announcements only add up.
LEMMA AnnouncementsStay ==
  ASSUME Attempts, [PaymentsNext]_allVars
  PROVE  \A i \in DOMAIN payments :
           /\ i \in DOMAIN payments'
           /\ payments'[i].order = payments[i].order
           /\ charges[i] \in Announced => charges'[i] \in Announced
<1> SUFFICES ASSUME NEW i \in DOMAIN payments
             PROVE  /\ i \in DOMAIN payments'
                    /\ payments'[i].order = payments[i].order
                    /\ charges[i] \in Announced => charges'[i] \in Announced
  OBVIOUS
<1>1. ASSUME UNCHANGED <<payments, charges>>
      PROVE  /\ i \in DOMAIN payments'
             /\ payments'[i].order = payments[i].order
             /\ charges[i] \in Announced => charges'[i] \in Announced
  BY <1>1
<1>2. CASE OrderStep
  BY <1>1, <1>2 DEF OrderStep, paymentVars
<1>3. ASSUME NEW o \in Orders, NEW provider \in Providers, CreatePayment(o, provider)
      PROVE  /\ i \in DOMAIN payments'
             /\ payments'[i] = payments[i]
             /\ charges'[i] = charges[i]
  BY <1>3, CreateAddsAttempt
<1>4. ASSUME NEW p \in DOMAIN payments, GatewayStep(p)
      PROVE  /\ payments' = payments
             /\ charges[i] \in Announced => charges'[i] \in Announced
  <2>1. PICK move \in GatewayMoves[payments[p].provider] :
          /\ charges[p] = move[1]
          /\ charges' = [charges EXCEPT ![p] = move[3]]
          /\ payments' = payments
    BY <1>4 DEF GatewayStep
  <2>2. payments[p].provider \in Providers
    BY SameNumbers DEF Attempt
  <2>3. move[1] \in Announced => move[3] \in Announced
    BY <2>2, GatewayTable
  <2>4. i \in DOMAIN charges /\ p \in DOMAIN charges
    BY SameNumbers
  <2> QED
    BY <2>1, <2>3, <2>4
<1>5. ASSUME NEW m \in inflight, Deliver(m)
      PROVE  /\ i \in DOMAIN payments'
             /\ payments'[i].order = payments[i].order
             /\ charges' = charges
  BY <1>5, SameNumbers DEF Deliver, MarkPayments, Attempt
<1>6. CASE ExpirePendingPayments
  BY <1>6, SameNumbers DEF ExpirePendingPayments, Attempt
<1>7. CASE UNCHANGED allVars
  BY <1>1, <1>7 DEF allVars
<1> QED
  BY <1>2, <1>3, <1>4, <1>5, <1>6, <1>7 DEF PaymentsNext

\* No order is paid without an announced charge of its own, for any number of
\* attempts with any providers and any webhooks about them.
THEOREM PaidIfAnnounced == PaymentsSpec => []PaidOnlyIfAnnounced
<1>1. PaymentsInit => PaidOnlyIfAnnounced
  BY DEF PaymentsInit, OrdersInit, PaidOnlyIfAnnounced
<1>2. Attempts /\ Charged /\ PaidOnlyIfAnnounced /\ [PaymentsNext]_allVars => PaidOnlyIfAnnounced'
  <2> SUFFICES ASSUME Attempts, Charged, PaidOnlyIfAnnounced, [PaymentsNext]_allVars,
                      NEW o \in Orders, "paid" \in stamped'[o]
               PROVE  \E i \in DOMAIN payments' :
                        payments'[i].order = o /\ charges'[i] \in Announced
    BY DEF PaidOnlyIfAnnounced
  <2>1. \E i \in DOMAIN payments : payments[i].order = o /\ charges[i] \in Announced
    <3>1. CASE "paid" \in stamped[o]
      BY <3>1 DEF PaidOnlyIfAnnounced
    <3>2. CASE "paid" \notin stamped[o]
      <4>1. PICK m \in inflight :
              /\ payments[m.payment].order = o
              /\ NewStatus(payments[m.payment].provider, m.type) = "captured"
        BY <3>2, WebhookPays
      <4>2. m.payment \in DOMAIN payments
        BY WebhookFits
      <4>3. charges[m.payment] \in Announced
        BY <4>1 DEF Attempts, CapturesAreAnnounced
      <4> QED
        BY <4>1, <4>2, <4>3
    <3> QED
      BY <3>1, <3>2
  <2> QED
    BY <2>1, AnnouncementsStay
<1> QED
  BY <1>1, <1>2, AttemptsInvariant, PaymentsUseOrders, ChargedInvariant, PTL DEF PaymentsSpec

---------------------------------------------------------------------------
(* Refunds                                                                 *)

\* REFUNDED is final.
LEMMA RefundedStays ==
  ASSUME Charged, [OrdersNext]_vars, NEW o \in Orders, status[o] = "refunded"
  PROVE  status'[o] = "refunded"
<1>1. status \in [Orders -> Status \cup {NoStatus}]
  BY DEF Charged, OrdersTypeOK
<1>2. ASSUME NEW new \in Status, CanTransition(o, new) PROVE FALSE
  BY <1>2 DEF CanTransition, AllowedTransitions
<1>3. ASSUME NEW x \in Orders, NEW new \in Status, CanTransition(x, new),
             status' = [status EXCEPT ![x] = new]
      PROVE  status'[o] = "refunded"
  BY <1>1, <1>2, <1>3
<1>4. ASSUME NEW x \in Orders, NEW b \in Baskets, CreateOrder(x, b) PROVE status'[o] = "refunded"
  BY <1>1, <1>4 DEF CreateOrder, NoStatus
<1>5. ASSUME NEW x \in Orders, PayOrder(x) \/ CancelByUser(x) \/ RefundOrder(x)
      PROVE  status'[o] = "refunded"
  BY <1>3, <1>5 DEF PayOrder, CancelByUser, CancelOrder, RefundOrder, Status
<1>6. ASSUME NEW x \in Orders, NEW new \in Status, FulfilOrder(x, new)
      PROVE  status'[o] = "refunded"
  BY <1>3, <1>6 DEF FulfilOrder
<1>7. CASE StaffStock
  BY <1>7 DEF StaffStock, orderVars
<1>8. CASE UNCHANGED vars
  BY <1>8 DEF vars
<1> QED
  BY <1>4, <1>5, <1>6, <1>7, <1>8 DEF OrdersNext

\* Where a refunded payment comes from: it was refunded before, or the order it
\* belongs to is refunded in this very step.
LEMMA RefundIsRecorded ==
  ASSUME Attempts, Charged, [PaymentsNext]_allVars,
         NEW i \in DOMAIN payments', payments'[i].status = "refunded"
  PROVE  \/ /\ i \in DOMAIN payments
            /\ payments[i].status = "refunded"
            /\ payments'[i].order = payments[i].order
         \/ status'[payments'[i].order] = "refunded"
<1> DEFINE Before == /\ i \in DOMAIN payments
                     /\ payments[i].status = "refunded"
                     /\ payments'[i].order = payments[i].order
<1>1. ASSUME UNCHANGED payments PROVE Before
  BY <1>1
<1>2. CASE OrderStep
  BY <1>1, <1>2 DEF OrderStep, paymentVars
<1>3. ASSUME NEW o \in Orders, NEW provider \in Providers, CreatePayment(o, provider)
      PROVE  Before
  <2>1. i \in DOMAIN payments \/ payments'[i].status \in {"pending", "failed"}
    BY <1>3, CreateAddsAttempt
  <2>2. i \in DOMAIN payments => payments'[i] = payments[i]
    BY <1>3, CreateAddsAttempt
  <2> QED
    BY <2>1, <2>2
<1>4. ASSUME NEW p \in DOMAIN payments, GatewayStep(p) PROVE Before
  BY <1>1, <1>4 DEF GatewayStep
<1>5. ASSUME NEW m \in inflight, Deliver(m)
      PROVE  Before \/ status'[payments'[i].order] = "refunded"
  <2> DEFINE o == payments[m.payment].order
             q == payments[m.payment].provider
             new == NewStatus(q, m.type)
  <2>1. \/ UNCHANGED payments
        \/ MarkPayments(o, q, new) /\ (new = "refunded" => RefundOrder(o))
    BY <1>5 DEF Deliver, ApplyWebhook, RefundBranch
  <2>2. o \in Orders
    BY WebhookFits
  <2>3. \A j \in DOMAIN payments : payments[j] \in Attempt
    BY SameNumbers
  <2> HIDE DEF o, q, new
  <2>4. CASE MarkPayments(o, q, new) /\ (new = "refunded" => RefundOrder(o))
    <3>1. payments' = [j \in DOMAIN payments |->
            IF payments[j].order = o /\ payments[j].provider = q
            THEN [payments[j] EXCEPT !.status = IF new = "" THEN "pending" ELSE new]
            ELSE payments[j]]
      BY <2>4 DEF MarkPayments
    <3>2. i \in DOMAIN payments
      BY <3>1
    <3>3. CASE payments[i].order = o /\ payments[i].provider = q
      <4>1. /\ payments'[i].order = o
            /\ payments'[i].status = IF new = "" THEN "pending" ELSE new
        BY <2>3, <3>1, <3>2, <3>3 DEF Attempt
      <4>2. RefundOrder(o)
        BY <2>4, <4>1
      <4> QED
        BY <2>2, <4>1, <4>2 DEF RefundOrder, Charged, OrdersTypeOK
    <3>4. CASE ~(payments[i].order = o /\ payments[i].provider = q)
      BY <3>1, <3>2, <3>4
    <3> QED
      BY <3>3, <3>4
  <2> QED
    BY <1>1, <2>1, <2>4
<1>6. CASE ExpirePendingPayments
  <2>1. PICK cutoff \in DOMAIN payments :
          payments' = [j \in DOMAIN payments |->
            IF j <= cutoff /\ payments[j].status = "pending"
            THEN [payments[j] EXCEPT !.status = "failed"] ELSE payments[j]]
    BY <1>6 DEF ExpirePendingPayments
  <2>2. i \in DOMAIN payments
    BY <2>1
  <2>3. payments[i] \in Attempt
    BY <2>2, SameNumbers
  <2> QED
    BY <2>1, <2>2, <2>3 DEF Attempt
<1>7. CASE UNCHANGED allVars
  BY <1>1, <1>7 DEF allVars
<1> QED
  BY <1>2, <1>3, <1>4, <1>5, <1>6, <1>7 DEF PaymentsNext

\* A refunded payment always belongs to a refunded order.
THEOREM RefundsTogether == PaymentsSpec => []RefundedTogether
<1>1. PaymentsInit => RefundedTogether
  <2> SUFFICES ASSUME PaymentsInit PROVE RefundedTogether
    OBVIOUS
  <2>1. payments = <<>>
    BY DEF PaymentsInit
  <2> QED
    BY <2>1 DEF RefundedTogether
<1>2. Attempts /\ Charged /\ RefundedTogether /\ [PaymentsNext]_allVars => RefundedTogether'
  <2> SUFFICES ASSUME Attempts, Charged, RefundedTogether, [PaymentsNext]_allVars,
                      NEW i \in DOMAIN payments', payments'[i].status = "refunded"
               PROVE  status'[payments'[i].order] = "refunded"
    BY DEF RefundedTogether
  <2>1. CASE status'[payments'[i].order] = "refunded"
    BY <2>1
  <2>2. CASE /\ i \in DOMAIN payments
             /\ payments[i].status = "refunded"
             /\ payments'[i].order = payments[i].order
    <3>1. payments[i].order \in Orders
      BY <2>2, SameNumbers DEF Attempt
    <3>2. status[payments[i].order] = "refunded"
      BY <2>2 DEF RefundedTogether
    <3> QED
      BY <2>2, <3>1, <3>2, StepOfOrders, RefundedStays
  <2> QED
    BY <2>1, <2>2, RefundIsRecorded
<1> QED
  BY <1>1, <1>2, AttemptsInvariant, PaymentsUseOrders, ChargedInvariant, PTL DEF PaymentsSpec

---------------------------------------------------------------------------
(* Late notices of failure                                                 *)

\* PENDING is the only status whose orders buyers cancel here, and a pending
\* order has no stamp.
LEMMA NobodyCancelsLate ==
  ASSUME LateCancels = {}, Charged, PaidIsNotCancelled, [OrdersNext]_vars
  PROVE  PaidIsNotCancelled'
<1>1. stamped \in [Orders -> SUBSET {"paid", "cancelled", "refunded"}]
  BY DEF Charged, OrdersTypeOK
<1>2. ASSUME UNCHANGED stamped PROVE PaidIsNotCancelled'
  BY <1>2 DEF PaidIsNotCancelled, CancelledLate
<1>3. ASSUME NEW o \in Orders, NEW b \in Baskets, CreateOrder(o, b) PROVE PaidIsNotCancelled'
  BY <1>2, <1>3 DEF CreateOrder
<1>4. ASSUME NEW o \in Orders, PayOrder(o) PROVE PaidIsNotCancelled'
  <2>1. stamped[o] = {}
    BY <1>4, PaySells DEF Charged, Charges, History, OrdersPlaced
  <2>2. stamped' = [stamped EXCEPT ![o] = @ \cup {"paid"}]
    BY <1>4 DEF PayOrder
  <2> QED
    BY <1>1, <2>1, <2>2 DEF PaidIsNotCancelled, CancelledLate
<1>5. ASSUME NEW o \in Orders, CancelByUser(o) PROVE PaidIsNotCancelled'
  <2>1. stamped[o] = {}
    BY <1>5 DEF CancelByUser, Charged, History, OrdersPlaced
  <2>2. stamped' = [stamped EXCEPT ![o] = @ \cup {"cancelled"}]
    BY <1>5 DEF CancelByUser, CancelOrder
  <2> QED
    BY <1>1, <2>1, <2>2 DEF PaidIsNotCancelled, CancelledLate
<1>6. ASSUME NEW o \in Orders, RefundOrder(o) PROVE PaidIsNotCancelled'
  BY <1>1, <1>6 DEF RefundOrder, PaidIsNotCancelled, CancelledLate
<1>7. ASSUME NEW o \in Orders, NEW new \in Status, FulfilOrder(o, new)
      PROVE  PaidIsNotCancelled'
  BY <1>2, <1>7 DEF FulfilOrder
<1>8. CASE StaffStock
  BY <1>2, <1>8 DEF StaffStock, orderVars
<1>9. CASE UNCHANGED vars
  BY <1>2, <1>9 DEF vars
<1> QED
  BY <1>3, <1>4, <1>5, <1>6, <1>7, <1>8, <1>9 DEF OrdersNext

\* Unless someone asks for it, no order that was paid is ever cancelled, however
\* late a failure or an expiry is announced.
THEOREM PaidStaysPaid ==
  ASSUME LateCancels = {}
  PROVE  PaymentsSpec => []PaidIsNotCancelled
<1>1. OrdersInit => PaidIsNotCancelled
  BY DEF OrdersInit, PaidIsNotCancelled, CancelledLate
<1>2. Charged /\ PaidIsNotCancelled /\ [OrdersNext]_vars => PaidIsNotCancelled'
  BY NobodyCancelsLate
<1> QED
  BY <1>1, <1>2, PaymentsUseOrders, ChargedInvariant, PTL DEF OrdersSpec
=============================================================================
