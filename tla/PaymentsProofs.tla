--------------------------- MODULE PaymentsProofs ---------------------------
(* Theorems about Payments, for any customers, jobs, keys, amounts, gateway ids, *)
(* request slots and bounds.                                                     *)
EXTENDS Payments, FiniteSets, FiniteSetTheorems, TLAPS

-----------------------------------------------------------------------------
(* The inductive invariant *)

\* The job's own customer has an authorized payment for it.
IsPaid(j) ==
    \E k \in DOMAIN payments :
        /\ payments[k].jobId = j
        /\ payments[k].customerId = jobs[j].customerId
        /\ payments[k].status # "INITIATED"
        /\ ledger[payments[k].gtx].status = "AUTHORIZED"

\* What a request remembers is still so: an authorize request is the job's own
\* customer's, knows what the gateway made for it, and confirms a job that is paid;
\* the others hold a payment for which the gateway did what they will write down.
RequestOK(q) ==
    /\ q.pc \in {"authorizing", "saving"} => jobs[q.job].customerId = q.customer
    /\ q.pc = "saving" =>
         /\ q.gtx \in DOMAIN ledger
         /\ ledger[q.gtx].key = q.key /\ ledger[q.gtx].amount = q.amount
         /\ q.result = "AUTHORIZED" => ledger[q.gtx].status = "AUTHORIZED"
    /\ q.pc = "confirming" => IsPaid(q.job)
    /\ q.pc \in {"capturing", "captured", "refunding", "recording", "marking"} =>
         q.key \in DOMAIN payments
    /\ q.pc = "captured" => ledger[payments[q.key].gtx].captures > 0
    /\ q.pc \in {"recording", "marking"} => ledger[payments[q.key].gtx].refunded > 0

RequestsOK == \A r \in Requests : RequestOK(req[r])

\* The units of money the gateway has returned for the payment of key k.
RefundUnits(k) == 1..ledger[payments[k].gtx].refunded

\* The requests about to create a Refund row for the payment of key k.
Recording(k) == {r \in Requests : req[r].pc = "recording" /\ req[r].key = k}

\* Each unit is claimed once: by a Refund row, by one request that will create a row,
\* or, when that request has died, by nobody.
Accounted(k) ==
    \E booked \in SUBSET RefundUnits(k), due \in [Requests -> SUBSET RefundUnits(k)] :
        /\ Cardinality(booked) = refunds[k]
        /\ \A r \in Recording(k) : /\ Cardinality(due[r]) = req[r].amount
                                   /\ due[r] \cap booked = {}
        /\ \A r, s \in Recording(k) : r # s => due[r] \cap due[s] = {}

RefundsAccounted ==
    /\ \A k \in DOMAIN payments : Accounted(k)
    /\ \A k \in Keys \ DOMAIN payments : refunds[k] = 0

IInv == /\ TypeOK
        /\ RequestsOK
        /\ PaymentAtGateway
        /\ ConfirmedJobIsPaid
        /\ StatusFollowsGateway
        /\ RefundsAccounted

-----------------------------------------------------------------------------
(* Requests *)

Request == {Idle} \cup AuthorizeRequest \cup MoneyRequest \cup WebhookRequest

\* What a request remembers, by how far it is.
LEMMA RequestKinds ==
    ASSUME NEW q \in Request
    PROVE  /\ q.pc = "authorizing" =>
                /\ q.customer \in Customers /\ q.job \in Jobs
                /\ q.key \in Keys /\ q.amount \in Amounts
           /\ q.pc = "saving" =>
                /\ q.customer \in Customers /\ q.job \in Jobs
                /\ q.key \in Keys /\ q.amount \in Amounts
                /\ q.gtx \in GtxIds /\ q.result \in AuthResults
           /\ q.pc = "confirming" => q.job \in Jobs
           /\ q.pc \in {"capturing", "captured", "marking"} =>
                q \in [pc : {"capturing", "captured", "marking"}, key : Keys]
           /\ q.pc \in {"refunding", "recording"} =>
                q \in [pc : {"refunding", "recording"}, key : Keys, amount : Amounts]
           /\ q.pc = "recordingEvent" => q.event \in EventIds
BY DEF Request, Idle, AuthorizeRequest, MoneyRequest, WebhookRequest

\* Requests other than the one that takes the step stay as they are.
LEMMA BecomesOne ==
    ASSUME TypeOK, NEW r \in Requests, NEW q \in Request, Becomes(r, q)
    PROVE  /\ req' \in [Requests -> Request]
           /\ req'[r] = q
           /\ \A s \in Requests : s # r => req'[s] = req[s]
BY DEF TypeOK, Becomes, Request

LEMMA IdleOK == Idle \in Request /\ Idle.pc = "idle" /\ RequestOK(Idle)
BY DEF Idle, Request, RequestOK

-----------------------------------------------------------------------------
(* The tables only grow *)

\* Owners of jobs, and all of a payment and of a transaction but how far it is, are
\* fixed; what is authorized stays so, and captures and refunds add up.
Grows ==
    /\ \A j \in Jobs : jobs'[j].customerId = jobs[j].customerId
    /\ \A k \in DOMAIN payments :
         /\ k \in DOMAIN payments'
         /\ payments'[k].customerId = payments[k].customerId
         /\ payments'[k].jobId = payments[k].jobId
         /\ payments'[k].gtx = payments[k].gtx
         /\ payments'[k].amount = payments[k].amount
         /\ payments[k].status # "INITIATED" => payments'[k].status # "INITIATED"
    /\ \A g \in DOMAIN ledger :
         /\ g \in DOMAIN ledger'
         /\ ledger'[g].key = ledger[g].key
         /\ ledger'[g].amount = ledger[g].amount
         /\ ledger[g].status = "AUTHORIZED" => ledger'[g].status = "AUTHORIZED"
         /\ ledger[g].captures > 0 => ledger'[g].captures > 0
         /\ ledger[g].refunded > 0 => ledger'[g].refunded > 0

\* A paid job stays paid.
LEMMA PaidStays ==
    ASSUME IInv, Grows, NEW j \in Jobs, IsPaid(j)
    PROVE  IsPaid(j)'
BY DEF IInv, Grows, PaymentAtGateway, IsPaid

\* What a request remembers stays so.
LEMMA RequestStaysOK ==
    ASSUME IInv, Grows, NEW r \in Requests, RequestOK(req[r]), req'[r] = req[r]
    PROVE  RequestOK(req[r])'
<1>1. req[r] \in Request
  BY DEF IInv, TypeOK, Request
<1>2. req[r].pc = "confirming" => IsPaid(req[r].job)'
  <2> SUFFICES ASSUME req[r].pc = "confirming" PROVE IsPaid(req[r].job)'
    OBVIOUS
  <2>1. req[r].job \in Jobs /\ IsPaid(req[r].job)
    BY <1>1, RequestKinds DEF RequestOK
  <2> QED BY <2>1, PaidStays
<1> QED BY <1>1, <1>2, RequestKinds DEF RequestOK, IInv, Grows, PaymentAtGateway

\* Confirmed jobs stay paid, and those confirmed now are.
LEMMA ConfirmedStaysPaid ==
    ASSUME IInv, Grows,
           \A j \in Jobs : jobs'[j].status = "CONFIRMED" => jobs[j].status = "CONFIRMED" \/ IsPaid(j)
    PROVE  ConfirmedJobIsPaid'
<1> SUFFICES ASSUME NEW j \in Jobs, jobs'[j].status = "CONFIRMED"
             PROVE  IsPaid(j)'
  BY DEF ConfirmedJobIsPaid, IsPaid
<1>1. IsPaid(j)
  BY DEF IInv, ConfirmedJobIsPaid, IsPaid
<1> QED BY <1>1, PaidStays

\* The claims on a payment hold on while its Refund rows do not change, the gateway
\* returns no less, and nobody new is about to record.
LEMMA AccountsKept ==
    ASSUME IInv, NEW k \in DOMAIN payments,
           refunds'[k] = refunds[k],
           RefundUnits(k) \subseteq RefundUnits(k)',
           \A r \in Requests : req'[r].pc = "recording" => req'[r] = req[r]
    PROVE  Accounted(k)'
<1>1. PICK booked \in SUBSET RefundUnits(k), due \in [Requests -> SUBSET RefundUnits(k)] :
        /\ Cardinality(booked) = refunds[k]
        /\ \A r \in Recording(k) : /\ Cardinality(due[r]) = req[r].amount
                                   /\ due[r] \cap booked = {}
        /\ \A r, s \in Recording(k) : r # s => due[r] \cap due[s] = {}
  BY DEF IInv, RefundsAccounted, Accounted
<1>2. /\ booked \in SUBSET RefundUnits(k)'
      /\ due \in [Requests -> SUBSET RefundUnits(k)']
  OBVIOUS
<1>3. \A r \in Recording(k)' : r \in Recording(k) /\ req'[r] = req[r]
  BY DEF Recording
<1> QED BY <1>1, <1>2, <1>3 DEF Accounted

\* The parts of TypeOK that an action may touch.
LEMMA Types ==
    ASSUME TypeOK
    PROVE  /\ req \in [Requests -> Request]
           /\ \A j \in Jobs : jobs[j] \in JobRow
           /\ \A k \in DOMAIN payments : k \in Keys /\ payments[k] \in PaymentRow
           /\ \A g \in DOMAIN ledger : g \in GtxIds /\ ledger[g] \in LedgerRow
           /\ \A k \in Keys : refunds[k] \in Nat
BY DEF TypeOK, Request

-----------------------------------------------------------------------------
(* The invariant is inductive *)

LEMMA InitInv == Init => IInv
<1> SUFFICES ASSUME Init PROVE IInv
    OBVIOUS
<1>1. DOMAIN payments = {} /\ DOMAIN ledger = {}
  BY DEF Init
<1>2. \A r \in Requests : req[r] = Idle
  BY DEF Init
<1>3. TypeOK
  <2>1. jobs \in [Jobs -> JobRow]
    BY DEF Init, JobRow
  <2>2. req \in [Requests -> {Idle} \cup AuthorizeRequest \cup MoneyRequest \cup WebhookRequest]
    BY DEF Init
  <2>3. refunds \in [Keys -> Nat] /\ events \subseteq EventIds
    BY DEF Init
  <2>4. payments \in [DOMAIN payments -> PaymentRow] /\ ledger \in [DOMAIN ledger -> LedgerRow]
    BY <1>1 DEF Init
  <2> QED BY <1>1, <2>1, <2>2, <2>3, <2>4 DEF TypeOK
<1>4. RequestsOK
  BY <1>2, IdleOK DEF RequestsOK
<1>5. PaymentAtGateway /\ StatusFollowsGateway
  BY <1>1 DEF PaymentAtGateway, StatusFollowsGateway
<1>6. ConfirmedJobIsPaid
  BY DEF Init, ConfirmedJobIsPaid
<1>7. RefundsAccounted
  BY <1>1 DEF Init, RefundsAccounted
<1> QED BY <1>3, <1>4, <1>5, <1>6, <1>7 DEF IInv

\* A step that only moves a request on, not to where it will record a refund.
LEMMA QuietStep ==
    ASSUME IInv, NEW r \in Requests, NEW q \in Request, RequestOK(q), q.pc # "recording",
           Becomes(r, q), UNCHANGED <<jobs, payments, refunds, ledger>>, events' \subseteq EventIds
    PROVE  IInv'
<1>0. TypeOK
  BY DEF IInv
<1>1. /\ req' \in [Requests -> Request] /\ req'[r] = q
      /\ \A s \in Requests : s # r => req'[s] = req[s]
  BY <1>0, BecomesOne
<1>2. TypeOK'
  BY <1>0, <1>1 DEF TypeOK, Request
<1>3. Grows
  BY DEF Grows
<1>4. RequestsOK'
  <2>1. RequestOK(req[r])'
    BY <1>1 DEF RequestOK, IsPaid
  <2>2. ASSUME NEW s \in Requests, s # r PROVE RequestOK(req[s])'
    BY <1>1, <1>3, <2>2, RequestStaysOK DEF IInv, RequestsOK
  <2> QED BY <2>1, <2>2 DEF RequestsOK
<1>5. PaymentAtGateway' /\ StatusFollowsGateway' /\ ConfirmedJobIsPaid'
  BY DEF IInv, PaymentAtGateway, StatusFollowsGateway, ConfirmedJobIsPaid
<1>6. RefundsAccounted'
  <2>1. \A s \in Requests : req'[s].pc = "recording" => req'[s] = req[s]
    BY <1>1
  <2>2. ASSUME NEW k \in DOMAIN payments PROVE Accounted(k)'
    <3>1. RefundUnits(k) = RefundUnits(k)'
      BY DEF RefundUnits
    <3> QED BY <2>1, <3>1, AccountsKept
  <2> QED BY <2>2 DEF IInv, RefundsAccounted
<1> QED BY <1>2, <1>4, <1>5, <1>6 DEF IInv

\* The reads, the record of an event, and a request that dies.
LEMMA QuietSteps ==
    ASSUME IInv, NEW r \in Requests,
           \/ \E c \in Customers, j \in Jobs, k \in Keys, a \in Amounts : AuthorizeRead(r, c, j, k, a)
           \/ \E k \in Keys : CaptureRead(r, k)
           \/ \E k \in Keys, a \in Amounts : RefundRead(r, k, a)
           \/ \E e \in EventIds : WebhookRead(r, e)
           \/ WebhookRecord(r)
           \/ RequestFails(r)
    PROVE  IInv'
<1>0. TypeOK /\ req[r] \in Request
  BY DEF IInv, TypeOK, Request
<1>1. ASSUME NEW c \in Customers, NEW j \in Jobs, NEW k \in Keys, NEW a \in Amounts,
             AuthorizeRead(r, c, j, k, a)
      PROVE  IInv'
  <2> DEFINE q == [pc |-> "authorizing", customer |-> c, job |-> j, key |-> k, amount |-> a]
  <2>1. q \in Request /\ RequestOK(q)
    BY <1>1 DEF Request, AuthorizeRequest, RequestOK, AuthorizeRead
  <2> QED BY <1>0, <1>1, <2>1, QuietStep DEF AuthorizeRead, TypeOK
<1>2. ASSUME NEW k \in Keys, CaptureRead(r, k)
      PROVE  IInv'
  <2> DEFINE q == [pc |-> "capturing", key |-> k]
  <2>1. q \in Request /\ RequestOK(q)
    BY <1>2 DEF Request, MoneyRequest, RequestOK, CaptureRead
  <2> QED BY <1>0, <1>2, <2>1, QuietStep DEF CaptureRead, TypeOK
<1>3. ASSUME NEW k \in Keys, NEW a \in Amounts, RefundRead(r, k, a)
      PROVE  IInv'
  <2> DEFINE q == [pc |-> "refunding", key |-> k, amount |-> a]
  <2>1. q \in Request /\ RequestOK(q)
    BY <1>3 DEF Request, MoneyRequest, RequestOK, RefundRead
  <2> QED BY <1>0, <1>3, <2>1, QuietStep DEF RefundRead, TypeOK
<1>4. ASSUME NEW e \in EventIds, WebhookRead(r, e)
      PROVE  IInv'
  <2> DEFINE q == [pc |-> "recordingEvent", event |-> e]
  <2>1. q \in Request /\ RequestOK(q)
    BY DEF Request, WebhookRequest, RequestOK
  <2> QED BY <1>0, <1>4, <2>1, QuietStep DEF WebhookRead, TypeOK
<1>5. CASE WebhookRecord(r)
  <2>1. req[r].event \in EventIds
    BY <1>0, <1>5, RequestKinds DEF WebhookRecord
  <2> QED BY <1>0, <1>5, <2>1, IdleOK, QuietStep DEF WebhookRecord, TypeOK
<1>6. CASE RequestFails(r)
  BY <1>0, <1>6, IdleOK, QuietStep DEF RequestFails, TypeOK
<1> QED BY <1>1, <1>2, <1>3, <1>4, <1>5, <1>6

\* gateway.authorize: nobody knows the new transaction but the request.
LEMMA AuthorizeGatewayInv ==
    ASSUME IInv, NEW r \in Requests, AuthorizeGateway(r)
    PROVE  IInv'
<1>0. PICK q \in Request : q = req[r] /\ q.pc = "authorizing" /\ TypeOK
  BY DEF IInv, TypeOK, Request, AuthorizeGateway
<1>1. PICK g \in GtxIds \ DOMAIN ledger, status \in AuthResults :
        /\ ledger' = Insert(ledger, g, [key |-> q.key, amount |-> q.amount, status |-> status,
                                         captures |-> 0, refunded |-> 0])
        /\ Becomes(r, [pc |-> "saving", customer |-> q.customer, job |-> q.job,
                       key |-> q.key, amount |-> q.amount, gtx |-> g, result |-> status])
        /\ UNCHANGED <<jobs, payments, refunds, events>>
  BY <1>0 DEF AuthorizeGateway
<1> DEFINE row == [key |-> q.key, amount |-> q.amount, status |-> status,
                   captures |-> 0, refunded |-> 0]
           next == [pc |-> "saving", customer |-> q.customer, job |-> q.job,
                    key |-> q.key, amount |-> q.amount, gtx |-> g, result |-> status]
<1>2. row \in LedgerRow
  BY <1>0, RequestKinds, PaymentsAssumption DEF LedgerRow
<1>3. /\ DOMAIN ledger' = DOMAIN ledger \cup {g} /\ ledger'[g] = row
      /\ \A x \in DOMAIN ledger : ledger'[x] = ledger[x]
      /\ ledger' \in [DOMAIN ledger' -> LedgerRow]
  BY <1>0, <1>1, <1>2 DEF TypeOK, Insert
<1>4. next \in Request
  BY <1>0, RequestKinds DEF Request, AuthorizeRequest
<1>5. /\ req' \in [Requests -> Request] /\ req'[r] = next
      /\ \A s \in Requests : s # r => req'[s] = req[s]
  BY <1>0, <1>1, <1>4, BecomesOne
<1>6. TypeOK'
  BY <1>0, <1>1, <1>3, <1>5 DEF TypeOK, Request
<1>7. Grows
  BY <1>1, <1>3 DEF Grows
<1>8. RequestsOK'
  <2>1. RequestOK(req[r])'
    <3>1. jobs[q.job].customerId = q.customer
      BY <1>0 DEF IInv, RequestsOK, RequestOK
    <3> QED BY <1>1, <1>3, <1>5, <3>1 DEF RequestOK
  <2>2. ASSUME NEW s \in Requests, s # r PROVE RequestOK(req[s])'
    BY <1>5, <1>7, <2>2, RequestStaysOK DEF IInv, RequestsOK
  <2> QED BY <2>1, <2>2 DEF RequestsOK
<1>9. PaymentAtGateway' /\ StatusFollowsGateway'
  BY <1>1, <1>3 DEF IInv, PaymentAtGateway, StatusFollowsGateway
<1>10. ConfirmedJobIsPaid'
  BY <1>1, <1>7, ConfirmedStaysPaid
<1>11. RefundsAccounted'
  <2>1. \A s \in Requests : req'[s].pc = "recording" => req'[s] = req[s]
    BY <1>5
  <2>2. ASSUME NEW k \in DOMAIN payments PROVE Accounted(k)'
    <3>1. RefundUnits(k) = RefundUnits(k)'
      BY <1>1, <1>3 DEF RefundUnits, IInv, PaymentAtGateway
    <3> QED BY <1>1, <2>1, <3>1, AccountsKept
  <2> QED BY <1>1, <2>2 DEF IInv, RefundsAccounted
<1> QED BY <1>6, <1>8, <1>9, <1>10, <1>11 DEF IInv

\* payment.create: the new row stands for the transaction made for the request.
LEMMA AuthorizeSaveInv ==
    ASSUME IInv, NEW r \in Requests, AuthorizeSave(r)
    PROVE  IInv'
<1>0. PICK q \in Request : q = req[r] /\ q.pc = "saving" /\ TypeOK
  BY DEF IInv, TypeOK, Request, AuthorizeSave
<1> DEFINE ok == q.result = "AUTHORIZED"
           row == [customerId |-> q.customer, jobId |-> q.job, gtx |-> q.gtx,
                   amount |-> q.amount, status |-> IF ok THEN "AUTHORIZED" ELSE "INITIATED"]
           next == IF ok THEN [pc |-> "confirming", job |-> q.job] ELSE Idle
<1>1. CASE q.key \in DOMAIN payments
  BY <1>0, <1>1, IdleOK, QuietStep DEF AuthorizeSave, TypeOK
<1>2. CASE q.key \notin DOMAIN payments
  <2>1. /\ payments' = Insert(payments, q.key, row) /\ Becomes(r, next)
        /\ UNCHANGED <<jobs, refunds, events, ledger>>
    BY <1>0, <1>2 DEF AuthorizeSave
  <2>2. row \in PaymentRow /\ next \in Request /\ q.key \in Keys
    <3>1. row \in PaymentRow /\ q.key \in Keys
      BY <1>0, RequestKinds DEF PaymentRow
    <3>2. next \in Request
      BY <1>0, RequestKinds DEF Request, AuthorizeRequest
    <3> QED BY <3>1, <3>2
  <2>3. /\ DOMAIN payments' = DOMAIN payments \cup {q.key} /\ payments'[q.key] = row
        /\ \A k \in DOMAIN payments : payments'[k] = payments[k]
        /\ payments' \in [DOMAIN payments' -> PaymentRow]
    BY <1>0, <1>2, <2>1, <2>2 DEF TypeOK, Insert
  <2>4. /\ req' \in [Requests -> Request] /\ req'[r] = next
        /\ \A s \in Requests : s # r => req'[s] = req[s]
    BY <1>0, <2>1, <2>2, BecomesOne
  <2>5. TypeOK'
    BY <1>0, <2>1, <2>2, <2>3, <2>4 DEF TypeOK, Request
  <2>6. Grows
    BY <2>1, <2>3 DEF Grows
  <2>7. /\ jobs[q.job].customerId = q.customer /\ q.gtx \in DOMAIN ledger
        /\ ledger[q.gtx].key = q.key /\ ledger[q.gtx].amount = q.amount
        /\ ok => ledger[q.gtx].status = "AUTHORIZED"
    BY <1>0 DEF IInv, RequestsOK, RequestOK
  <2>8. RequestsOK'
    <3>1. RequestOK(req[r])'
      <4>1. CASE ok
        <5>1. IsPaid(q.job)'
          BY <2>1, <2>3, <2>7, <4>1 DEF IsPaid
        <5>2. req'[r] = [pc |-> "confirming", job |-> q.job]
          BY <2>4, <4>1
        <5>3. req'[r].pc = "confirming" /\ req'[r].job = q.job
          BY <5>2
        <5> QED BY <5>1, <5>3 DEF RequestOK, IsPaid
      <4>2. CASE ~ok
        BY <2>4, <4>2, IdleOK DEF RequestOK
      <4> QED BY <4>1, <4>2
    <3>2. ASSUME NEW s \in Requests, s # r PROVE RequestOK(req[s])'
      BY <2>4, <2>6, <3>2, RequestStaysOK DEF IInv, RequestsOK
    <3> QED BY <3>1, <3>2 DEF RequestsOK
  <2>9. PaymentAtGateway' /\ StatusFollowsGateway'
    <3>1. ASSUME NEW k \in DOMAIN payments, k # q.key
          PROVE  payments'[k] = payments[k] /\ ledger' = ledger
      BY <2>1, <2>3
    <3>2. PaymentAtGateway'
      BY <2>1, <2>3, <2>7, <3>1 DEF IInv, PaymentAtGateway
    <3>3. StatusFollowsGateway'
      BY <2>1, <2>3, <3>1 DEF IInv, StatusFollowsGateway
    <3> QED BY <3>2, <3>3
  <2>10. ConfirmedJobIsPaid'
    BY <2>1, <2>6, ConfirmedStaysPaid
  <2>11. RefundsAccounted'
    <3>1. \A s \in Requests : req'[s].pc = "recording" => req'[s] = req[s]
      BY <2>4 DEF Idle
    <3>2. ASSUME NEW k \in DOMAIN payments PROVE Accounted(k)'
      <4>1. RefundUnits(k) = RefundUnits(k)'
        BY <2>1, <2>3 DEF RefundUnits
      <4> QED BY <2>1, <3>1, <4>1, AccountsKept
    <3>3. Accounted(q.key)'
      <4>1. Recording(q.key)' = {}
        <5> SUFFICES ASSUME NEW s \in Requests, req'[s].pc = "recording", req'[s].key = q.key
                     PROVE  FALSE
          BY <2>1 DEF Recording
        <5>1. req[s].pc = "recording" /\ req[s].key = q.key
          BY <3>1
        <5> QED BY <1>2, <5>1 DEF IInv, RequestsOK, RequestOK
      <4>2. refunds'[q.key] = 0
        BY <1>2, <2>1, <2>2 DEF IInv, RefundsAccounted
      <4>3. Cardinality({}) = 0
        BY FS_EmptySet
      <4> DEFINE none == [s \in Requests |-> {}]
      <4>4. none \in [Requests -> SUBSET RefundUnits(q.key)'] /\ {} \in SUBSET RefundUnits(q.key)'
        OBVIOUS
      <4> QED BY <4>1, <4>2, <4>3, <4>4 DEF Accounted
    <3> QED BY <2>1, <2>3, <3>2, <3>3 DEF IInv, RefundsAccounted
  <2> QED BY <2>5, <2>8, <2>9, <2>10, <2>11 DEF IInv
<1> QED BY <1>1, <1>2

\* job.update: the job the request confirms is paid.
LEMMA AuthorizeConfirmInv ==
    ASSUME IInv, NEW r \in Requests, AuthorizeConfirm(r)
    PROVE  IInv'
<1>0. PICK j \in Jobs : j = req[r].job /\ IsPaid(j) /\ TypeOK
  <2>1. req[r] \in Request /\ RequestOK(req[r]) /\ req[r].pc = "confirming" /\ TypeOK
    BY DEF IInv, TypeOK, Request, RequestsOK, AuthorizeConfirm
  <2> QED BY <2>1, RequestKinds DEF RequestOK
<1>1. /\ jobs' = [jobs EXCEPT ![j].status = "CONFIRMED"] /\ Becomes(r, Idle)
      /\ UNCHANGED <<payments, refunds, events, ledger>>
  BY <1>0 DEF AuthorizeConfirm
<1>2. /\ jobs' \in [Jobs -> JobRow]
      /\ \A x \in Jobs : jobs'[x].customerId = jobs[x].customerId
      /\ \A x \in Jobs : x # j => jobs'[x] = jobs[x]
  <2>1. jobs \in [Jobs -> JobRow] /\ jobs[j] \in JobRow
    BY <1>0 DEF TypeOK
  <2>2. /\ [jobs[j] EXCEPT !.status = "CONFIRMED"] \in JobRow
        /\ [jobs[j] EXCEPT !.status = "CONFIRMED"].customerId = jobs[j].customerId
    BY <2>1 DEF JobRow
  <2>3. jobs' = [jobs EXCEPT ![j] = [jobs[j] EXCEPT !.status = "CONFIRMED"]]
    BY <1>1
  <2> QED BY <2>1, <2>2, <2>3
<1>3. /\ req' \in [Requests -> Request] /\ req'[r] = Idle
      /\ \A s \in Requests : s # r => req'[s] = req[s]
  BY <1>0, <1>1, IdleOK, BecomesOne
<1>4. TypeOK'
  BY <1>0, <1>1, <1>2, <1>3 DEF TypeOK, Request
<1>5. Grows
  BY <1>1, <1>2 DEF Grows
<1>6. RequestsOK'
  <2>1. RequestOK(req[r])'
    BY <1>3, IdleOK DEF RequestOK
  <2>2. ASSUME NEW s \in Requests, s # r PROVE RequestOK(req[s])'
    BY <1>3, <1>5, <2>2, RequestStaysOK DEF IInv, RequestsOK
  <2> QED BY <2>1, <2>2 DEF RequestsOK
<1>7. PaymentAtGateway' /\ StatusFollowsGateway'
  BY <1>1 DEF IInv, PaymentAtGateway, StatusFollowsGateway
<1>8. ConfirmedJobIsPaid'
  BY <1>0, <1>2, <1>5, ConfirmedStaysPaid
<1>9. RefundsAccounted'
  <2>1. \A s \in Requests : req'[s].pc = "recording" => req'[s] = req[s]
    BY <1>3, IdleOK
  <2>2. ASSUME NEW k \in DOMAIN payments PROVE Accounted(k)'
    <3>1. RefundUnits(k) = RefundUnits(k)'
      BY <1>1 DEF RefundUnits
    <3> QED BY <1>1, <2>1, <3>1, AccountsKept
  <2> QED BY <1>1, <2>2 DEF IInv, RefundsAccounted
<1> QED BY <1>4, <1>6, <1>7, <1>8, <1>9 DEF IInv

\* A transaction at the gateway goes on: authorized, captured or refunded.
LEMMA LedgerStep ==
    ASSUME IInv, NEW g \in DOMAIN ledger, NEW row \in LedgerRow,
           ledger' = [ledger EXCEPT ![g] = row],
           row.key = ledger[g].key, row.amount = ledger[g].amount,
           ledger[g].status = "AUTHORIZED" => row.status = "AUTHORIZED",
           ledger[g].captures <= row.captures, ledger[g].refunded <= row.refunded,
           UNCHANGED <<jobs, payments, refunds, events>>
    PROVE  /\ DOMAIN ledger' = DOMAIN ledger
           /\ ledger' \in [DOMAIN ledger' -> LedgerRow]
           /\ \A x \in DOMAIN ledger : ledger'[x] = IF x = g THEN row ELSE ledger[x]
           /\ \A k \in DOMAIN payments : RefundUnits(k) \subseteq RefundUnits(k)'
           /\ Grows /\ PaymentAtGateway' /\ StatusFollowsGateway' /\ ConfirmedJobIsPaid'
<1>0. TypeOK
  BY DEF IInv
<1>1. /\ DOMAIN ledger' = DOMAIN ledger
      /\ ledger' \in [DOMAIN ledger' -> LedgerRow]
      /\ \A x \in DOMAIN ledger : ledger'[x] = IF x = g THEN row ELSE ledger[x]
  BY <1>0 DEF TypeOK
<1>2. \A x \in DOMAIN ledger :
        /\ {ledger[x].captures, ledger[x].refunded} \subseteq Nat
        /\ {ledger'[x].captures, ledger'[x].refunded} \subseteq Nat
        /\ ledger[x].captures <= ledger'[x].captures
        /\ ledger[x].refunded <= ledger'[x].refunded
  BY <1>0, <1>1, Types DEF LedgerRow
<1>3. Grows
  BY <1>1, <1>2 DEF Grows
<1>4. PaymentAtGateway'
  BY <1>1 DEF IInv, PaymentAtGateway
<1>5. \A k \in DOMAIN payments : RefundUnits(k) \subseteq RefundUnits(k)'
  BY <1>2 DEF IInv, PaymentAtGateway, RefundUnits
<1>6. StatusFollowsGateway'
  BY <1>2 DEF IInv, PaymentAtGateway, StatusFollowsGateway
<1>7. ConfirmedJobIsPaid'
  BY <1>3, ConfirmedStaysPaid
<1> QED BY <1>1, <1>3, <1>4, <1>5, <1>6, <1>7

\* External: a PENDING transaction is authorized.
LEMMA GatewayAuthorizesInv ==
    ASSUME IInv, NEW g \in DOMAIN ledger, GatewayAuthorizes(g)
    PROVE  IInv'
<1>0. TypeOK /\ ledger[g] \in LedgerRow
  BY Types DEF IInv
<1> DEFINE row == [ledger[g] EXCEPT !.status = "AUTHORIZED"]
<1>1. /\ row \in LedgerRow /\ row.key = ledger[g].key /\ row.amount = ledger[g].amount
      /\ row.status = "AUTHORIZED"
      /\ ledger[g].captures <= row.captures /\ ledger[g].refunded <= row.refunded
  BY <1>0 DEF LedgerRow
<1>2. ledger' = [ledger EXCEPT ![g] = row] /\ UNCHANGED <<jobs, payments, refunds, events, req>>
  BY DEF GatewayAuthorizes
<1> HIDE DEF row
<1>3. /\ DOMAIN ledger' = DOMAIN ledger
      /\ ledger' \in [DOMAIN ledger' -> LedgerRow]
      /\ \A k \in DOMAIN payments : RefundUnits(k) \subseteq RefundUnits(k)'
      /\ Grows /\ PaymentAtGateway' /\ StatusFollowsGateway' /\ ConfirmedJobIsPaid'
  BY <1>1, <1>2, LedgerStep
<1>4. TypeOK'
  BY <1>0, <1>2, <1>3 DEF TypeOK
<1>5. RequestsOK'
  BY <1>2, <1>3, RequestStaysOK DEF IInv, RequestsOK
<1>6. RefundsAccounted'
  <2>1. ASSUME NEW k \in DOMAIN payments PROVE Accounted(k)'
    BY <1>2, <1>3, AccountsKept
  <2> QED BY <1>2, <2>1 DEF IInv, RefundsAccounted
<1> QED BY <1>3, <1>4, <1>5, <1>6 DEF IInv

\* gateway.capture
LEMMA CaptureGatewayInv ==
    ASSUME IInv, NEW r \in Requests, CaptureGateway(r)
    PROVE  IInv'
<1>0. PICK q \in Request : q = req[r] /\ q.pc = "capturing" /\ TypeOK /\ RequestOK(q)
  BY DEF IInv, TypeOK, Request, RequestsOK, CaptureGateway
<1>1. q.key \in DOMAIN payments /\ q \in [pc : {"capturing", "captured", "marking"}, key : Keys]
  BY <1>0, RequestKinds DEF RequestOK
<1>2. PICK g \in DOMAIN ledger : g = payments[q.key].gtx /\ ledger[g] \in LedgerRow
  BY <1>0, <1>1, Types DEF IInv, PaymentAtGateway
<1> DEFINE row == [ledger[g] EXCEPT !.captures = @ + 1]
           next == [q EXCEPT !.pc = "captured"]
<1>3. /\ row \in LedgerRow /\ row.key = ledger[g].key /\ row.amount = ledger[g].amount
      /\ row.status = ledger[g].status /\ row.captures > 0
      /\ ledger[g].captures <= row.captures /\ ledger[g].refunded <= row.refunded
  BY <1>2 DEF LedgerRow
<1>4. next \in Request /\ next.pc = "captured" /\ next.key = q.key
  BY <1>1 DEF Request, MoneyRequest
<1>5. /\ ledger' = [ledger EXCEPT ![g] = row] /\ Becomes(r, next)
      /\ UNCHANGED <<jobs, payments, refunds, events>>
  BY <1>0, <1>2 DEF CaptureGateway
<1> HIDE DEF row, next
<1>6. /\ DOMAIN ledger' = DOMAIN ledger
      /\ ledger' \in [DOMAIN ledger' -> LedgerRow]
      /\ \A x \in DOMAIN ledger : ledger'[x] = IF x = g THEN row ELSE ledger[x]
      /\ \A k \in DOMAIN payments : RefundUnits(k) \subseteq RefundUnits(k)'
      /\ Grows /\ PaymentAtGateway' /\ StatusFollowsGateway' /\ ConfirmedJobIsPaid'
  BY <1>3, <1>5, LedgerStep
<1>7. /\ req' \in [Requests -> Request] /\ req'[r] = next
      /\ \A s \in Requests : s # r => req'[s] = req[s]
  BY <1>0, <1>4, <1>5, BecomesOne
<1>8. TypeOK'
  BY <1>0, <1>5, <1>6, <1>7 DEF TypeOK, Request
<1>9. RequestsOK'
  <2>1. RequestOK(req[r])'
    BY <1>1, <1>2, <1>3, <1>4, <1>5, <1>6, <1>7 DEF RequestOK
  <2>2. ASSUME NEW s \in Requests, s # r PROVE RequestOK(req[s])'
    BY <1>6, <1>7, <2>2, RequestStaysOK DEF IInv, RequestsOK
  <2> QED BY <2>1, <2>2 DEF RequestsOK
<1>10. RefundsAccounted'
  <2>1. \A s \in Requests : req'[s].pc = "recording" => req'[s] = req[s]
    BY <1>4, <1>7
  <2>2. ASSUME NEW k \in DOMAIN payments PROVE Accounted(k)'
    BY <1>5, <1>6, <2>1, AccountsKept
  <2> QED BY <1>5, <2>2 DEF IInv, RefundsAccounted
<1> QED BY <1>6, <1>8, <1>9, <1>10 DEF IInv

\* payment.update of captureJobPayment and of processRefund: the gateway has done
\* what the new status says.
LEMMA PaymentUpdateInv ==
    ASSUME IInv, NEW r \in Requests, CaptureSave(r) \/ RefundMark(r)
    PROVE  IInv'
<1>0. PICK q \in Request : q = req[r] /\ q.pc \in {"captured", "marking"} /\ TypeOK /\ RequestOK(q)
  BY DEF IInv, TypeOK, Request, RequestsOK, CaptureSave, RefundMark
<1>1. PICK k0 \in DOMAIN payments : k0 = q.key /\ payments[k0] \in PaymentRow
  BY <1>0, Types DEF RequestOK
<1>2. PICK status \in {"CAPTURED", "REFUNDED"} :
        /\ payments' = [payments EXCEPT ![k0].status = status]
        /\ status = "CAPTURED" => ledger[payments[k0].gtx].captures > 0
        /\ status = "REFUNDED" => ledger[payments[k0].gtx].refunded > 0
  BY <1>0, <1>1 DEF CaptureSave, RefundMark, RequestOK
<1>3. Becomes(r, Idle) /\ UNCHANGED <<jobs, refunds, events, ledger>>
  BY DEF CaptureSave, RefundMark
<1>4. /\ DOMAIN payments' = DOMAIN payments
      /\ payments' \in [DOMAIN payments' -> PaymentRow]
      /\ payments'[k0].status = status
      /\ \A k \in DOMAIN payments :
           /\ payments'[k].customerId = payments[k].customerId
           /\ payments'[k].jobId = payments[k].jobId
           /\ payments'[k].gtx = payments[k].gtx
           /\ payments'[k].amount = payments[k].amount
           /\ k # k0 => payments'[k].status = payments[k].status
  <2>1. /\ [payments[k0] EXCEPT !.status = status] \in PaymentRow
        /\ [payments[k0] EXCEPT !.status = status].customerId = payments[k0].customerId
        /\ [payments[k0] EXCEPT !.status = status].jobId = payments[k0].jobId
        /\ [payments[k0] EXCEPT !.status = status].gtx = payments[k0].gtx
        /\ [payments[k0] EXCEPT !.status = status].amount = payments[k0].amount
        /\ [payments[k0] EXCEPT !.status = status].status = status
    BY <1>1 DEF PaymentRow
  <2>2. payments' = [payments EXCEPT ![k0] = [payments[k0] EXCEPT !.status = status]]
    BY <1>2
  <2>3. payments \in [DOMAIN payments -> PaymentRow]
    BY <1>0 DEF TypeOK
  <2> QED BY <2>1, <2>2, <2>3
<1>5. /\ req' \in [Requests -> Request] /\ req'[r] = Idle
      /\ \A s \in Requests : s # r => req'[s] = req[s]
  BY <1>0, <1>3, IdleOK, BecomesOne
<1>6. TypeOK'
  BY <1>0, <1>3, <1>4, <1>5 DEF TypeOK, Request
<1>7. Grows
  BY <1>3, <1>4 DEF Grows
<1>8. RequestsOK'
  <2>1. RequestOK(req[r])'
    BY <1>5, IdleOK DEF RequestOK
  <2>2. ASSUME NEW s \in Requests, s # r PROVE RequestOK(req[s])'
    BY <1>5, <1>7, <2>2, RequestStaysOK DEF IInv, RequestsOK
  <2> QED BY <2>1, <2>2 DEF RequestsOK
<1>9. PaymentAtGateway'
  BY <1>3, <1>4 DEF IInv, PaymentAtGateway
<1>10. StatusFollowsGateway'
  BY <1>2, <1>3, <1>4 DEF IInv, StatusFollowsGateway
<1>11. ConfirmedJobIsPaid'
  BY <1>3, <1>7, ConfirmedStaysPaid
<1>12. RefundsAccounted'
  <2>1. \A s \in Requests : req'[s].pc = "recording" => req'[s] = req[s]
    BY <1>5, IdleOK
  <2>2. ASSUME NEW k \in DOMAIN payments PROVE Accounted(k)'
    <3>1. RefundUnits(k) = RefundUnits(k)'
      BY <1>3, <1>4 DEF RefundUnits
    <3> QED BY <1>3, <2>1, <3>1, AccountsKept
  <2> QED BY <1>3, <1>4, <2>2 DEF IInv, RefundsAccounted
<1> QED BY <1>6, <1>8, <1>9, <1>10, <1>11, <1>12 DEF IInv

\* gateway.refund: the units returned now are claimed by the request, and by nobody
\* else.
LEMMA RefundGatewayInv ==
    ASSUME IInv, NEW r \in Requests, RefundGateway(r)
    PROVE  IInv'
<1>0. PICK q \in Request : q = req[r] /\ q.pc = "refunding" /\ TypeOK /\ RequestOK(q)
  BY DEF IInv, TypeOK, Request, RequestsOK, RefundGateway
<1>1. /\ q.key \in DOMAIN payments
      /\ q \in [pc : {"refunding", "recording"}, key : Keys, amount : Amounts]
      /\ q.amount \in Nat \ {0}
  BY <1>0, RequestKinds, PaymentsAssumption DEF RequestOK
<1>2. PICK g \in DOMAIN ledger : g = payments[q.key].gtx /\ ledger[g] \in LedgerRow
  BY <1>0, <1>1, Types DEF IInv, PaymentAtGateway
<1>3. PICK n \in Nat : n = ledger[g].refunded
  BY <1>2 DEF LedgerRow
<1> DEFINE row == [ledger[g] EXCEPT !.refunded = @ + q.amount]
           next == [q EXCEPT !.pc = "recording"]
<1>4. /\ row \in LedgerRow /\ row.key = ledger[g].key /\ row.amount = ledger[g].amount
      /\ row.status = ledger[g].status /\ row.refunded = n + q.amount
      /\ ledger[g].captures <= row.captures /\ ledger[g].refunded <= row.refunded
  BY <1>1, <1>2, <1>3 DEF LedgerRow
<1>5. next \in Request /\ next.pc = "recording" /\ next.key = q.key /\ next.amount = q.amount
  BY <1>1 DEF Request, MoneyRequest
<1>6. /\ ledger' = [ledger EXCEPT ![g] = row] /\ Becomes(r, next)
      /\ UNCHANGED <<jobs, payments, refunds, events>>
  BY <1>0, <1>2 DEF RefundGateway
<1> HIDE DEF row, next
<1>7. /\ DOMAIN ledger' = DOMAIN ledger
      /\ ledger' \in [DOMAIN ledger' -> LedgerRow]
      /\ \A x \in DOMAIN ledger : ledger'[x] = IF x = g THEN row ELSE ledger[x]
      /\ \A k \in DOMAIN payments : RefundUnits(k) \subseteq RefundUnits(k)'
      /\ Grows /\ PaymentAtGateway' /\ StatusFollowsGateway' /\ ConfirmedJobIsPaid'
  BY <1>4, <1>6, LedgerStep
<1>8. /\ req' \in [Requests -> Request] /\ req'[r] = next
      /\ \A s \in Requests : s # r => req'[s] = req[s]
  BY <1>0, <1>5, <1>6, BecomesOne
<1>9. TypeOK'
  BY <1>0, <1>6, <1>7, <1>8 DEF TypeOK, Request
<1>10. RequestsOK'
  <2>1. RequestOK(req[r])'
    BY <1>1, <1>2, <1>4, <1>5, <1>6, <1>7, <1>8 DEF RequestOK
  <2>2. ASSUME NEW s \in Requests, s # r PROVE RequestOK(req[s])'
    BY <1>7, <1>8, <2>2, RequestStaysOK DEF IInv, RequestsOK
  <2> QED BY <2>1, <2>2 DEF RequestsOK
<1>11. RefundsAccounted'
  <2>1. ASSUME NEW k \in DOMAIN payments, k # q.key PROVE Accounted(k)'
    <3>1. PICK booked \in SUBSET RefundUnits(k), due \in [Requests -> SUBSET RefundUnits(k)] :
            /\ Cardinality(booked) = refunds[k]
            /\ \A s \in Recording(k) : /\ Cardinality(due[s]) = req[s].amount
                                       /\ due[s] \cap booked = {}
            /\ \A s, u \in Recording(k) : s # u => due[s] \cap due[u] = {}
      BY DEF IInv, RefundsAccounted, Accounted
    <3>2. /\ booked \in SUBSET RefundUnits(k)'
          /\ due \in [Requests -> SUBSET RefundUnits(k)']
      BY <1>7
    <3>3. \A s \in Recording(k)' : s \in Recording(k) /\ req'[s] = req[s]
      BY <1>5, <1>8, <2>1 DEF Recording
    <3>4. refunds'[k] = refunds[k]
      BY <1>6
    <3> QED BY <3>1, <3>2, <3>3, <3>4 DEF Accounted
  <2>2. Accounted(q.key)'
    <3> DEFINE k == q.key
               units == n + 1..n + q.amount
    <3>1. PICK booked \in SUBSET RefundUnits(k), due \in [Requests -> SUBSET RefundUnits(k)] :
            /\ Cardinality(booked) = refunds[k]
            /\ \A s \in Recording(k) : /\ Cardinality(due[s]) = req[s].amount
                                       /\ due[s] \cap booked = {}
            /\ \A s, u \in Recording(k) : s # u => due[s] \cap due[u] = {}
      BY <1>1 DEF IInv, RefundsAccounted, Accounted
    <3>2. RefundUnits(k) = 1..n /\ RefundUnits(k)' = 1..n + q.amount
      BY <1>1, <1>2, <1>3, <1>4, <1>6, <1>7 DEF RefundUnits
    <3>3. Cardinality(units) = q.amount
      BY <1>1, <1>3, FS_Interval
    <3>4. units \in SUBSET RefundUnits(k)' /\ units \cap RefundUnits(k) = {}
      BY <1>1, <1>3, <3>2
    <3> HIDE DEF units
    <3> DEFINE due2 == [due EXCEPT ![r] = units]
    <3>5. due2 \in [Requests -> SUBSET RefundUnits(k)'] /\ booked \in SUBSET RefundUnits(k)'
      BY <1>1, <1>7, <3>4
    <3>6. /\ due2[r] = units
          /\ \A s \in Requests : s # r => due2[s] = due[s] /\ due2[s] \cap units = {}
      BY <3>4
    <3> HIDE DEF due2
    <3>7. \A s \in Recording(k)' : s # r => s \in Recording(k) /\ req'[s] = req[s]
      BY <1>8 DEF Recording
    <3>8. req'[r].amount = q.amount /\ refunds' = refunds /\ booked \cap units = {}
      BY <1>5, <1>6, <1>8, <3>4
    <3>9. \A s \in Recording(k)' : /\ Cardinality(due2[s]) = req'[s].amount
                                   /\ due2[s] \cap booked = {}
      <4> SUFFICES ASSUME NEW s \in Recording(k)'
                   PROVE  Cardinality(due2[s]) = req'[s].amount /\ due2[s] \cap booked = {}
        OBVIOUS
      <4>1. s \in Requests
        BY DEF Recording
      <4>2. CASE s = r
        BY <3>3, <3>6, <3>8, <4>2
      <4>3. CASE s # r
        BY <3>1, <3>6, <3>7, <4>1, <4>3
      <4> QED BY <4>2, <4>3
    <3>10. \A s, u \in Recording(k)' : s # u => due2[s] \cap due2[u] = {}
      <4> SUFFICES ASSUME NEW s \in Recording(k)', NEW u \in Recording(k)', s # u
                   PROVE  due2[s] \cap due2[u] = {}
        OBVIOUS
      <4>1. s \in Requests /\ u \in Requests
        BY DEF Recording
      <4> QED BY <3>1, <3>6, <3>7, <4>1
    <3> QED BY <3>1, <3>5, <3>8, <3>9, <3>10 DEF Accounted
  <2> QED BY <1>6, <2>1, <2>2 DEF IInv, RefundsAccounted
<1> QED BY <1>7, <1>9, <1>10, <1>11 DEF IInv

\* refund.create: the row takes over the units its request claimed.
LEMMA RefundRecordInv ==
    ASSUME IInv, NEW r \in Requests, RefundRecord(r)
    PROVE  IInv'
<1>0. PICK q \in Request : q = req[r] /\ q.pc = "recording" /\ TypeOK /\ RequestOK(q)
  BY DEF IInv, TypeOK, Request, RequestsOK, RefundRecord
<1>1. /\ q.key \in DOMAIN payments /\ q.key \in Keys /\ q.amount \in Nat
      /\ refunds \in [Keys -> Nat]
  BY <1>0, RequestKinds, PaymentsAssumption DEF RequestOK, TypeOK
<1> DEFINE next == [pc |-> "marking", key |-> q.key]
<1>2. next \in Request /\ next.pc = "marking" /\ next.key = q.key
  BY <1>1 DEF Request, MoneyRequest
<1>3. /\ refunds' = [refunds EXCEPT ![q.key] = @ + q.amount] /\ Becomes(r, next)
      /\ UNCHANGED <<jobs, payments, events, ledger>>
  BY <1>0 DEF RefundRecord
<1> HIDE DEF next
<1>4. /\ req' \in [Requests -> Request] /\ req'[r] = next
      /\ \A s \in Requests : s # r => req'[s] = req[s]
  BY <1>0, <1>2, <1>3, BecomesOne
<1>5. /\ refunds' \in [Keys -> Nat] /\ refunds'[q.key] = refunds[q.key] + q.amount
      /\ \A k \in Keys : k # q.key => refunds'[k] = refunds[k]
  BY <1>1, <1>3
<1>6. TypeOK'
  BY <1>0, <1>3, <1>4, <1>5 DEF TypeOK, Request
<1>7. Grows
  BY <1>3 DEF Grows
<1>8. RequestsOK'
  <2>1. RequestOK(req[r])'
    BY <1>0, <1>2, <1>3, <1>4 DEF RequestOK
  <2>2. ASSUME NEW s \in Requests, s # r PROVE RequestOK(req[s])'
    BY <1>4, <1>7, <2>2, RequestStaysOK DEF IInv, RequestsOK
  <2> QED BY <2>1, <2>2 DEF RequestsOK
<1>9. PaymentAtGateway' /\ StatusFollowsGateway' /\ ConfirmedJobIsPaid'
  BY <1>3 DEF IInv, PaymentAtGateway, StatusFollowsGateway, ConfirmedJobIsPaid
<1>10. RefundsAccounted'
  <2>1. \A s \in Requests : req'[s].pc = "recording" => s # r /\ req'[s] = req[s]
    BY <1>2, <1>4
  <2>2. \A k \in DOMAIN payments : RefundUnits(k)' = RefundUnits(k) /\ k \in Keys
    BY <1>0, <1>3 DEF RefundUnits, TypeOK
  <2>3. ASSUME NEW k \in DOMAIN payments, k # q.key PROVE Accounted(k)'
    BY <1>5, <2>1, <2>2, <2>3, AccountsKept
  <2>4. Accounted(q.key)'
    <3> DEFINE k == q.key
    <3>1. PICK booked \in SUBSET RefundUnits(k), due \in [Requests -> SUBSET RefundUnits(k)] :
            /\ Cardinality(booked) = refunds[k]
            /\ \A s \in Recording(k) : /\ Cardinality(due[s]) = req[s].amount
                                       /\ due[s] \cap booked = {}
            /\ \A s, u \in Recording(k) : s # u => due[s] \cap due[u] = {}
      BY <1>1 DEF IInv, RefundsAccounted, Accounted
    <3>2. r \in Recording(k)
      BY <1>0 DEF Recording
    <3>3. Cardinality(due[r]) = q.amount /\ due[r] \cap booked = {}
      BY <1>0, <3>1, <3>2
    <3>4. IsFiniteSet(booked) /\ IsFiniteSet(due[r])
      <4>1. ledger[payments[k].gtx].refunded \in Nat
        BY <1>0, <1>1, Types DEF IInv, PaymentAtGateway, LedgerRow
      <4>2. IsFiniteSet(RefundUnits(k))
        BY <4>1, FS_Interval DEF RefundUnits
      <4> QED BY <3>1, <4>2, FS_Subset
    <3>5. Cardinality(booked \cup due[r]) = refunds'[k]
      <4>1. Cardinality(booked \cup due[r])
              = Cardinality(booked) + Cardinality(due[r]) - Cardinality(booked \cap due[r])
        BY <3>4, FS_Union
      <4>2. booked \cap due[r] = {}
        BY <3>3
      <4>3. Cardinality(booked \cap due[r]) = 0
        BY <4>2, FS_EmptySet
      <4> QED BY <1>1, <1>5, <3>1, <3>3, <4>1, <4>3
    <3>6. \A s \in Recording(k)' : s \in Recording(k) /\ s # r /\ req'[s] = req[s]
      BY <2>1 DEF Recording
    <3>7. /\ booked \cup due[r] \in SUBSET RefundUnits(k)'
          /\ due \in [Requests -> SUBSET RefundUnits(k)']
      BY <1>1, <2>2
    <3>8. \A s \in Recording(k)' : /\ Cardinality(due[s]) = req'[s].amount
                                   /\ due[s] \cap (booked \cup due[r]) = {}
      BY <3>1, <3>2, <3>6
    <3>9. \A s, u \in Recording(k)' : s # u => due[s] \cap due[u] = {}
      BY <3>1, <3>6
    <3> HIDE DEF k
    <3>10. Accounted(k)'
      BY <3>5, <3>7, <3>8, <3>9 DEF Accounted
    <3> QED BY <3>10 DEF k
  <2>5. \A k \in Keys \ DOMAIN payments : refunds'[k] = 0
    BY <1>1, <1>5 DEF IInv, RefundsAccounted
  <2> QED BY <1>3, <2>3, <2>4, <2>5 DEF RefundsAccounted
<1> QED BY <1>6, <1>8, <1>9, <1>10 DEF IInv

LEMMA NextInv == IInv /\ [Next]_vars => IInv'
<1> SUFFICES ASSUME IInv, [Next]_vars PROVE IInv'
    OBVIOUS
<1>1. ASSUME NEW r \in Requests,
             \/ \E c \in Customers, j \in Jobs, k \in Keys, a \in Amounts : AuthorizeRead(r, c, j, k, a)
             \/ \E k \in Keys : CaptureRead(r, k)
             \/ \E k \in Keys, a \in Amounts : RefundRead(r, k, a)
             \/ \E e \in EventIds : WebhookRead(r, e)
             \/ WebhookRecord(r)
             \/ RequestFails(r)
      PROVE  IInv'
  BY <1>1, QuietSteps
<1>2. ASSUME NEW r \in Requests,
             AuthorizeGateway(r) \/ AuthorizeSave(r) \/ AuthorizeConfirm(r)
      PROVE  IInv'
  BY <1>2, AuthorizeGatewayInv, AuthorizeSaveInv, AuthorizeConfirmInv
<1>3. ASSUME NEW r \in Requests,
             CaptureGateway(r) \/ CaptureSave(r) \/ RefundMark(r)
      PROVE  IInv'
  BY <1>3, CaptureGatewayInv, PaymentUpdateInv
<1>4. ASSUME NEW r \in Requests, RefundGateway(r) \/ RefundRecord(r)
      PROVE  IInv'
  BY <1>4, RefundGatewayInv, RefundRecordInv
<1>5. ASSUME NEW g \in DOMAIN ledger, GatewayAuthorizes(g)
      PROVE  IInv'
  BY <1>5, GatewayAuthorizesInv
<1>6. CASE UNCHANGED vars
  <2>1. TypeOK' /\ PaymentAtGateway' /\ StatusFollowsGateway' /\ ConfirmedJobIsPaid'
    BY <1>6 DEF IInv, vars, TypeOK, PaymentAtGateway, StatusFollowsGateway, ConfirmedJobIsPaid
  <2>2. RequestsOK'
    BY <1>6 DEF IInv, vars, RequestsOK, RequestOK, IsPaid
  <2>3. RefundsAccounted'
    <3>1. ASSUME NEW k \in DOMAIN payments PROVE Accounted(k)'
      <4>1. RefundUnits(k) = RefundUnits(k)' /\ req' = req /\ refunds' = refunds
        BY <1>6 DEF vars, RefundUnits
      <4> QED BY <4>1, AccountsKept
    <3> QED BY <1>6, <3>1 DEF IInv, vars, RefundsAccounted
  <2> QED BY <2>1, <2>2, <2>3 DEF IInv
<1> QED BY <1>1, <1>2, <1>3, <1>4, <1>5, <1>6 DEF Next

-----------------------------------------------------------------------------
(* The theorems *)

LEMMA Invariance == Spec => []IInv
BY InitInv, NextInv, PTL DEF Spec

\* Rows, requests in flight and the gateway's ledger are of their types.
THEOREM TypeCorrectness == Spec => []TypeOK
<1>1. IInv => TypeOK
  BY DEF IInv
<1> QED BY Invariance, <1>1, PTL

\* Every payment row stands for a gateway transaction of its own, made for its key and
\* amount; AUTHORIZED is never written ahead of the gateway.
THEOREM PaymentsAtGateway == Spec => []PaymentAtGateway
<1>1. IInv => PaymentAtGateway
  BY DEF IInv
<1> QED BY Invariance, <1>1, PTL

\* A job is confirmed only if its own customer has an authorized payment for it,
\* however authorize, capture, refund and failures interleave.
THEOREM ConfirmedJobsArePaid == Spec => []ConfirmedJobIsPaid
<1>1. IInv => ConfirmedJobIsPaid
  BY DEF IInv
<1> QED BY Invariance, <1>1, PTL

\* CAPTURED and REFUNDED are written only after the gateway did it.
THEOREM StatusesFollowGateway == Spec => []StatusFollowsGateway
<1>1. IInv => StatusFollowsGateway
  BY DEF IInv
<1> QED BY Invariance, <1>1, PTL

\* The Refund rows of a payment never add up to more than the gateway has returned:
\* they are counted in units of money, no unit of which two rows claim.
THEOREM RefundsAreReturned == Spec => []RefundsWereMade
<1>1. IInv => RefundsWereMade
  <2> SUFFICES ASSUME IInv, NEW k \in DOMAIN payments
               PROVE  refunds[k] <= ledger[payments[k].gtx].refunded
    BY DEF RefundsWereMade
  <2>1. PICK booked \in SUBSET RefundUnits(k) : Cardinality(booked) = refunds[k]
    BY DEF IInv, RefundsAccounted, Accounted
  <2>2. PICK n \in Nat : n = ledger[payments[k].gtx].refunded
    BY Types DEF IInv, PaymentAtGateway, LedgerRow
  <2>3. IsFiniteSet(1..n) /\ Cardinality(1..n) = n
    BY FS_Interval
  <2>4. Cardinality(booked) <= Cardinality(1..n)
    BY <2>1, <2>2, <2>3, FS_Subset DEF RefundUnits
  <2> QED BY <2>1, <2>2, <2>3, <2>4
<1> QED BY Invariance, <1>1, PTL

\* What one step may do to the row of payment k.
SettlesForward(k) ==
    /\ k \in DOMAIN payments'
    /\ [payments'[k] EXCEPT !.status = payments[k].status] = payments[k]
    /\ payments[k].status = payments'[k].status
         \/ payments'[k].status \in {"CAPTURED", "REFUNDED"}

\* A payment row keeps customer, job, amount and transaction for good, and its status
\* only moves to CAPTURED or REFUNDED, whatever request writes it.
THEOREM PaymentsSettleForward == Spec => PaymentIsSettledForward
<1>1. IInv /\ [Next]_vars => [\A k \in DOMAIN payments : SettlesForward(k)]_vars
  <2> SUFFICES ASSUME IInv, Next, NEW k \in DOMAIN payments PROVE SettlesForward(k)
    OBVIOUS
  <2>0. TypeOK /\ payments[k] \in PaymentRow
    BY Types DEF IInv
  <2>1. CASE payments' = payments
    BY <2>0, <2>1 DEF SettlesForward, PaymentRow
  <2>2. ASSUME NEW r \in Requests, AuthorizeSave(r)
        PROVE  SettlesForward(k)
    <3>1. k \in DOMAIN payments' /\ payments'[k] = payments[k]
      BY <2>2 DEF AuthorizeSave, Insert
    <3> QED BY <2>0, <3>1 DEF SettlesForward, PaymentRow
  <2>3. ASSUME NEW r \in Requests, CaptureSave(r) \/ RefundMark(r)
        PROVE  SettlesForward(k)
    <3>1. PICK status \in {"CAPTURED", "REFUNDED"} :
            payments' = [payments EXCEPT ![req[r].key].status = status]
      BY <2>3 DEF CaptureSave, RefundMark
    <3>2. k \in DOMAIN payments'
      BY <3>1
    <3>3. payments'[k] = payments[k] \/ payments'[k] = [payments[k] EXCEPT !.status = status]
      BY <3>1
    <3> QED BY <2>0, <3>2, <3>3 DEF SettlesForward, PaymentRow
  <2> QED BY <2>1, <2>2, <2>3 DEF Next, AuthorizeRead, AuthorizeGateway, AuthorizeConfirm,
             CaptureRead, CaptureGateway, RefundRead, RefundGateway, RefundRecord, WebhookRead,
             WebhookRecord, GatewayAuthorizes, RequestFails
<1>2. PaymentIsSettledForward <=> [][\A k \in DOMAIN payments : SettlesForward(k)]_vars
  BY DEF PaymentIsSettledForward, SettlesForward
<1> QED BY Invariance, <1>1, <1>2, PTL DEF Spec

=============================================================================
