------------------------------ MODULE Payments ------------------------------
(***************************************************************************)
(* SafePay: PaymentsService.authorizeJobPayment, captureJobPayment,        *)
(* processRefund and handleWebhook.  None of them opens a transaction: a   *)
(* handler is a chain of single statements and gateway calls with an await *)
(* between any two, at which other requests run and the process may die.   *)
(*                                                                         *)
(* The gateway is external.  Its ledger is modelled from MockPaymentGateway *)
(* (the one PaymentsModule installs), which makes a new transaction for    *)
(* every authorize call, whatever its idempotency key; the statuses it may *)
(* answer come from the PaymentGateway interface.  Capture and refund do   *)
(* what they are asked or throw, like the mock's.                          *)
(*                                                                         *)
(* Bounds: Keys, GtxIds, EventIds, MaxRefunded, MaxCaptures.               *)
(***************************************************************************)
EXTENDS Integers

CONSTANTS
    Customers,   \* authenticated users with role CUSTOMER
    Jobs,        \* jobs that exist; no code of the API creates one
    Keys,        \* idempotency keys clients send; Payment.idempotencyKey is unique
    Amounts,     \* amounts in minor units
    GtxIds,      \* gateway transaction ids the gateway may return
    EventIds,    \* gateway event ids
    Requests,    \* slots of concurrently handled requests
    AuthResults, \* statuses authorize may answer
    MaxRefunded, \* bound on what is refunded of one gateway transaction
    MaxCaptures  \* bound on the captures of one gateway transaction

ASSUME PaymentsAssumption ==
    /\ Amounts \subseteq Nat \ {0}
    /\ AuthResults \subseteq {"AUTHORIZED", "PENDING", "FAILED"}
    /\ {MaxRefunded, MaxCaptures} \subseteq Nat

VARIABLES
    jobs,     \* Job table: owner and status
    payments, \* Payment table, by idempotencyKey
    refunds,  \* Refund table: what its COMPLETED rows of each payment add up to
    events,   \* PaymentWebhookEvent table, by gatewayEventId; every row has
              \* isProcessed set
    ledger,   \* external: the gateway's transactions
    req       \* what each request in flight remembers across its awaits

vars == <<jobs, payments, refunds, events, ledger, req>>

-----------------------------------------------------------------------------
(* Rows *)

JobRow == [customerId : Customers, status : {"PENDING_PAYMENT", "CONFIRMED"}]

PaymentRow == [customerId : Customers, jobId : Jobs, gtx : GtxIds, amount : Amounts,
               status : {"INITIATED", "AUTHORIZED", "CAPTURED", "REFUNDED"}]

LedgerRow == [key : Keys, amount : Amounts, status : {"AUTHORIZED", "PENDING", "FAILED"},
              captures : Nat, refunded : Nat]

Idle == [pc |-> "idle"]
\* authorizing: checks passed; saving: gateway has answered; confirming: row saved.
AuthorizeRequest ==
    [pc : {"authorizing"}, customer : Customers, job : Jobs, key : Keys, amount : Amounts]
      \cup [pc : {"saving"}, customer : Customers, job : Jobs, key : Keys, amount : Amounts,
               gtx : GtxIds, result : AuthResults]
      \cup [pc : {"confirming"}, job : Jobs]
\* capturing, refunding: row read; captured, recording: gateway has answered;
\* marking: Refund row created.
MoneyRequest ==
    [pc : {"capturing", "captured", "marking"}, key : Keys]
      \cup [pc : {"refunding", "recording"}, key : Keys, amount : Amounts]
WebhookRequest == [pc : {"recordingEvent"}, event : EventIds]

TypeOK ==
    /\ jobs \in [Jobs -> JobRow]
    /\ DOMAIN payments \subseteq Keys
    /\ payments \in [DOMAIN payments -> PaymentRow]
    /\ refunds \in [Keys -> Nat]
    /\ events \subseteq EventIds
    /\ DOMAIN ledger \subseteq GtxIds
    /\ ledger \in [DOMAIN ledger -> LedgerRow]
    /\ req \in [Requests -> {Idle} \cup AuthorizeRequest \cup MoneyRequest \cup WebhookRequest]

Insert(table, key, row) ==
    [x \in DOMAIN table \cup {key} |-> IF x = key THEN row ELSE table[x]]

\* Request r goes on to its next await, or is answered (Idle).
Becomes(r, q) == req' = [req EXCEPT ![r] = q]

-----------------------------------------------------------------------------
(* authorizeJobPayment *)

Init ==
    /\ jobs \in [Jobs -> [customerId : Customers, status : {"PENDING_PAYMENT"}]]
    /\ payments = [k \in {} |-> 0]
    /\ refunds = [k \in Keys |-> 0]
    /\ events = {}
    /\ ledger = [g \in {} |-> 0]
    /\ req = [r \in Requests |-> Idle]

\* Mutant of AuthorizeRead: the owner of the job is not compared.
AuthorizeReadAnyOwner(r, c, j, k, a) ==
    /\ req[r] = Idle
    /\ k \notin DOMAIN payments
    /\ Becomes(r, [pc |-> "authorizing", customer |-> c, job |-> j, key |-> k, amount |-> a])
    /\ UNCHANGED <<jobs, payments, refunds, events, ledger>>

\* The two reads and their checks.  A key that already has a payment is answered
\* with that payment and changes nothing.
AuthorizeRead(r, c, j, k, a) ==
    /\ req[r] = Idle
    /\ k \notin DOMAIN payments
    /\ jobs[j].customerId = c
    /\ Becomes(r, [pc |-> "authorizing", customer |-> c, job |-> j, key |-> k, amount |-> a])
    /\ UNCHANGED <<jobs, payments, refunds, events, ledger>>

\* gateway.authorize: a new transaction at the gateway.
AuthorizeGateway(r) ==
    LET q == req[r] IN
    /\ q.pc = "authorizing"
    /\ \E g \in GtxIds \ DOMAIN ledger, status \in AuthResults :
         /\ ledger' = Insert(ledger, g, [key |-> q.key, amount |-> q.amount, status |-> status,
                                         captures |-> 0, refunded |-> 0])
         /\ Becomes(r, [pc |-> "saving", customer |-> q.customer, job |-> q.job,
                        key |-> q.key, amount |-> q.amount, gtx |-> g, result |-> status])
    /\ UNCHANGED <<jobs, payments, refunds, events>>

\* Mutant of AuthorizeSave: every answer of the gateway counts as authorized.
AuthorizeSaveOptimistic(r) ==
    LET q == req[r] IN
    /\ q.pc = "saving"
    /\ q.key \notin DOMAIN payments
    /\ payments' = Insert(payments, q.key,
                     [customerId |-> q.customer, jobId |-> q.job, gtx |-> q.gtx,
                      amount |-> q.amount, status |-> "AUTHORIZED"])
    /\ Becomes(r, [pc |-> "confirming", job |-> q.job])
    /\ UNCHANGED <<jobs, refunds, events, ledger>>

\* Mutant of AuthorizeSave: payment.upsert instead of payment.create.
AuthorizeSaveUpsert(r) ==
    LET q == req[r]
        ok == q.result = "AUTHORIZED"
    IN  /\ q.pc = "saving"
        /\ payments' = Insert(payments, q.key,
                         [customerId |-> q.customer, jobId |-> q.job, gtx |-> q.gtx,
                          amount |-> q.amount,
                          status |-> IF ok THEN "AUTHORIZED" ELSE "INITIATED"])
        /\ Becomes(r, IF ok THEN [pc |-> "confirming", job |-> q.job] ELSE Idle)
        /\ UNCHANGED <<jobs, refunds, events, ledger>>

\* payment.create; a request with the same key that was faster makes it fail on
\* the unique index, and the request ends with an error.
AuthorizeSave(r) ==
    LET q == req[r]
        ok == q.result = "AUTHORIZED"
    IN  /\ q.pc = "saving"
        /\ \/ /\ q.key \in DOMAIN payments
              /\ Becomes(r, Idle)
              /\ UNCHANGED payments
           \/ /\ q.key \notin DOMAIN payments
              /\ payments' = Insert(payments, q.key,
                               [customerId |-> q.customer, jobId |-> q.job, gtx |-> q.gtx,
                                amount |-> q.amount,
                                status |-> IF ok THEN "AUTHORIZED" ELSE "INITIATED"])
              /\ Becomes(r, IF ok THEN [pc |-> "confirming", job |-> q.job] ELSE Idle)
        /\ UNCHANGED <<jobs, refunds, events, ledger>>

\* job.update, whatever the job's status.
AuthorizeConfirm(r) ==
    /\ req[r].pc = "confirming"
    /\ jobs' = [jobs EXCEPT ![req[r].job].status = "CONFIRMED"]
    /\ Becomes(r, Idle)
    /\ UNCHANGED <<payments, refunds, events, ledger>>

-----------------------------------------------------------------------------
(* captureJobPayment, processRefund *)

\* Mutant of CaptureRead: the row is written without the gateway.
CaptureReadThenSave(r, k) ==
    /\ req[r] = Idle
    /\ k \in DOMAIN payments
    /\ payments[k].status # "CAPTURED"
    /\ Becomes(r, [pc |-> "captured", key |-> k])
    /\ UNCHANGED <<jobs, payments, refunds, events, ledger>>

\* The row and the check that it is not CAPTURED yet.
CaptureRead(r, k) ==
    /\ req[r] = Idle
    /\ k \in DOMAIN payments
    /\ payments[k].status # "CAPTURED"
    /\ Becomes(r, [pc |-> "capturing", key |-> k])
    /\ UNCHANGED <<jobs, payments, refunds, events, ledger>>

\* gateway.capture
CaptureGateway(r) ==
    LET g == payments[req[r].key].gtx IN
    /\ req[r].pc = "capturing"
    /\ ledger[g].captures < MaxCaptures
    /\ ledger' = [ledger EXCEPT ![g].captures = @ + 1]
    /\ Becomes(r, [req[r] EXCEPT !.pc = "captured"])
    /\ UNCHANGED <<jobs, payments, refunds, events>>

\* payment.update, whatever the payment's status has become.
CaptureSave(r) ==
    /\ req[r].pc = "captured"
    /\ payments' = [payments EXCEPT ![req[r].key].status = "CAPTURED"]
    /\ Becomes(r, Idle)
    /\ UNCHANGED <<jobs, refunds, events, ledger>>

\* Mutant of RefundRead: the Refund row is created before the gateway is asked.
RefundReadThenRecord(r, k, a) ==
    /\ req[r] = Idle
    /\ k \in DOMAIN payments
    /\ Becomes(r, [pc |-> "recording", key |-> k, amount |-> a])
    /\ UNCHANGED <<jobs, payments, refunds, events, ledger>>

\* processRefund reads the payment and checks neither its status nor the amount.
RefundRead(r, k, a) ==
    /\ req[r] = Idle
    /\ k \in DOMAIN payments
    /\ Becomes(r, [pc |-> "refunding", key |-> k, amount |-> a])
    /\ UNCHANGED <<jobs, payments, refunds, events, ledger>>

\* gateway.refund
RefundGateway(r) ==
    LET g == payments[req[r].key].gtx IN
    /\ req[r].pc = "refunding"
    /\ ledger[g].refunded + req[r].amount <= MaxRefunded
    /\ ledger' = [ledger EXCEPT ![g].refunded = @ + req[r].amount]
    /\ Becomes(r, [req[r] EXCEPT !.pc = "recording"])
    /\ UNCHANGED <<jobs, payments, refunds, events>>

\* Mutant of RefundRecord: the row holds the amount as a debit.
RefundRecordDebit(r) ==
    /\ req[r].pc = "recording"
    /\ refunds' = [refunds EXCEPT ![req[r].key] = @ - req[r].amount]
    /\ Becomes(r, [pc |-> "marking", key |-> req[r].key])
    /\ UNCHANGED <<jobs, payments, events, ledger>>

\* refund.create
RefundRecord(r) ==
    /\ req[r].pc = "recording"
    /\ refunds' = [refunds EXCEPT ![req[r].key] = @ + req[r].amount]
    /\ Becomes(r, [pc |-> "marking", key |-> req[r].key])
    /\ UNCHANGED <<jobs, payments, events, ledger>>

\* payment.update
RefundMark(r) ==
    /\ req[r].pc = "marking"
    /\ payments' = [payments EXCEPT ![req[r].key].status = "REFUNDED"]
    /\ Becomes(r, Idle)
    /\ UNCHANGED <<jobs, refunds, events, ledger>>

-----------------------------------------------------------------------------
(* handleWebhook, failures *)

\* The signature check and the lookup of the event; a recorded one is answered as
\* a duplicate.  Neither looks at the payment the event is about.
WebhookRead(r, e) ==
    /\ req[r] = Idle
    /\ e \notin events
    /\ Becomes(r, [pc |-> "recordingEvent", event |-> e])
    /\ UNCHANGED <<jobs, payments, refunds, events, ledger>>

\* paymentWebhookEvent.create, which fails on the unique index if the event was
\* recorded meanwhile.  It is stored as processed; no payment is touched.
WebhookRecord(r) ==
    /\ req[r].pc = "recordingEvent"
    /\ req[r].event \notin events
    /\ events' = events \cup {req[r].event}
    /\ Becomes(r, Idle)
    /\ UNCHANGED <<jobs, payments, refunds, ledger>>

\* External: the customer completes a PENDING authorization at the gateway.
GatewayAuthorizes(g) ==
    /\ ledger[g].status = "PENDING"
    /\ ledger' = [ledger EXCEPT ![g].status = "AUTHORIZED"]
    /\ UNCHANGED <<jobs, payments, refunds, events, req>>

\* External: a statement or gateway call fails, or the process dies, between two
\* awaits of r; what r has done so far stays.
RequestFails(r) ==
    /\ req[r] # Idle
    /\ Becomes(r, Idle)
    /\ UNCHANGED <<jobs, payments, refunds, events, ledger>>

Next ==
    \/ \E r \in Requests, c \in Customers, j \in Jobs, k \in Keys, a \in Amounts :
         AuthorizeRead(r, c, j, k, a)
    \/ \E r \in Requests : AuthorizeGateway(r)
    \/ \E r \in Requests : AuthorizeSave(r)
    \/ \E r \in Requests : AuthorizeConfirm(r)
    \/ \E r \in Requests, k \in Keys : CaptureRead(r, k)
    \/ \E r \in Requests : CaptureGateway(r)
    \/ \E r \in Requests : CaptureSave(r)
    \/ \E r \in Requests, k \in Keys, a \in Amounts : RefundRead(r, k, a)
    \/ \E r \in Requests : RefundGateway(r)
    \/ \E r \in Requests : RefundRecord(r)
    \/ \E r \in Requests : RefundMark(r)
    \/ \E r \in Requests, e \in EventIds : WebhookRead(r, e)
    \/ \E r \in Requests : WebhookRecord(r)
    \/ \E g \in DOMAIN ledger : GatewayAuthorizes(g)
    \/ \E r \in Requests : RequestFails(r)

Spec == Init /\ [][Next]_vars

-----------------------------------------------------------------------------
(* Properties *)

\* Every payment stands for one transaction the gateway made for its key and
\* amount, and two payments never for the same one.
PaymentAtGateway ==
    \A k \in DOMAIN payments :
        LET g == payments[k].gtx IN
        /\ g \in DOMAIN ledger
        /\ ledger[g].key = k
        /\ ledger[g].amount = payments[k].amount
        /\ payments[k].status = "AUTHORIZED" => ledger[g].status = "AUTHORIZED"

\* A job is confirmed, and its details revealed, only after its own customer has
\* an authorized payment for it; no failure between the steps reverses them.
ConfirmedJobIsPaid ==
    \A j \in Jobs :
        jobs[j].status = "CONFIRMED" =>
            \E k \in DOMAIN payments :
                /\ payments[k].jobId = j
                /\ payments[k].customerId = jobs[j].customerId
                /\ payments[k].status # "INITIATED"
                /\ ledger[payments[k].gtx].status = "AUTHORIZED"

\* CAPTURED and REFUNDED say that the gateway did capture, did refund, if it does
\* so whenever it does not throw (the code ignores the status it answers).
StatusFollowsGateway ==
    \A k \in DOMAIN payments :
        LET g == payments[k].gtx IN
        /\ payments[k].status = "CAPTURED" => ledger[g].captures > 0
        /\ payments[k].status = "REFUNDED" => ledger[g].refunded > 0

\* The Refund table never records money the gateway has not returned, also when
\* refunds of one payment race and some of them die half way.
RefundsWereMade ==
    \A k \in DOMAIN payments : refunds[k] <= ledger[payments[k].gtx].refunded

\* A payment row, once written, keeps customer, job, amount and transaction, and
\* its status never returns to a stage before the authorization.
PaymentIsSettledForward ==
    [][\A k \in DOMAIN payments :
         /\ k \in DOMAIN payments'
         /\ [payments'[k] EXCEPT !.status = payments[k].status] = payments[k]
         /\ payments[k].status = payments'[k].status
              \/ payments'[k].status \in {"CAPTURED", "REFUNDED"}]_vars

-----------------------------------------------------------------------------
(* Claims of the repository that the code does not keep *)

\* "idempotency keys": requests with one key make one authorization at the gateway.
OneAuthorizationPerKey ==
    \A g, h \in DOMAIN ledger : ledger[g].key = ledger[h].key => g = h

\* "AUTHORIZED ... Full address and proxy communication are now unlocked": once
\* nobody is at work, the job of an authorized payment is confirmed.
AuthorizedMeansConfirmed ==
    (\A r \in Requests : req[r] = Idle) =>
        \A k \in DOMAIN payments :
            payments[k].status = "AUTHORIZED" => jobs[payments[k].jobId].status = "CONFIRMED"

=============================================================================
