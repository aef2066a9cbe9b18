# Verification of the Edda API

TLA+ models, TLC runs and TLAPS proofs for the parts of Edda (a marketplace for
home services: NestJS API over MySQL, Flutter app, Next.js dashboard) that keep
state other parts rely on. Paths are relative to the repository; `auth.service.ts`
is `src/apps/api/src/modules/auth/auth.service.ts`, `payments.service.ts` is
`src/apps/api/src/modules/payments/payments.service.ts`.

## 1. Inventory

| Component | State | Operations | What is hard about it |
|---|---|---|---|
| Refresh-token sessions (`auth.service.ts` 793-1037) | `RefreshToken` rows in families, audit log | open a session, refresh (rotate or detect reuse), logout, revoke all | the row is read outside the transaction that acts on it |
| One-time codes (56-361) | `OtpCode`, `OtpRateLimit`, `OnboardingToken` | `sendOtp`, `verifyRegistrationOtp` | SMS sent between two transactions; late, failed or lost outcomes; clock read before the row lock |
| Accounts (366-788) | `User`, `TechnicianProfile`, `OnboardingToken` | two OTP registrations, password registration, login | races for one phone or national id; bcrypt between check and use; roll-back of a spent token |
| SafePay (`payments.service.ts`) | `Payment`, `Refund`, `PaymentWebhookEvent`, `Job.status`; the gateway's ledger outside | authorize, capture, refund, webhook | no transaction anywhere: chains of single statements and gateway calls |
| CEQUENS provider (`auth/sms/cequens-sms.provider.ts`) | token cache of a singleton | `sendOtp` with sign-in and one retry | cache shared by concurrent sends, timeouts |
| Chat scan and chat gateway (`anti-circumvention.service.ts`, `chat.gateway.ts`) | `lastIndex` of shared regular expressions; log rows | scan, then broadcast | state kept between messages; reordering across the await |
| Mobile session client (`dio_client.dart`, `auth_repository.dart`, `auth_controller.dart`) | tokens in secure storage, the refresh future, `AuthState` | request, 401 and refresh, retry, login, logout, start-up | queued interceptors, refresh racing logout, retry inside the handler |
| Everything else | none of its own | guards, storage adapters, health, static pages | see section 7 |

Interactions. A verified code gives an onboarding token, which a registration
spends in the transaction that creates the account; registration and login end by
opening a session. `sendOtp` depends on the SMS provider only for success or
failure and how long that takes. The mobile client is the main caller of refresh
and logout. Payments depend on accounts only for the authenticated customer, and on
jobs for their owner. All API requests run concurrently on one event loop per
process, and several processes may share the database: the unit of atomicity is a
database transaction, or a single statement.

What makes each component correct:
* Sessions: a family belongs to one user; a wiped or logged-out token never comes
  back; a session with no usable token is over; only genuine reuse wipes a family.
* Codes: one acceptable code per phone and purpose; used at most once, for at most
  one onboarding token; cooldown and hourly limit hold.
* Accounts: a token is spent exactly when it made an account; no registration takes
  an account over; suspension stops sign-in.
* Payments: the tables never claim money the gateway has not moved; a job is
  confirmed only by its own customer's authorized payment; one authorization per
  idempotency key.
* Chat: a blocked message is on record before anyone sees that it was blocked; the
  order of a conversation is kept but for such notices; a text with a number is flagged.
* Mobile client: no false alarm of token reuse; a session left by logout is not shown
  again; what is stored is of one session; every call ends.
* SMS provider: a rejected token is not kept for later sends; a retry never delivers
  a message twice; every send is answered, and "sent" only of a delivered message.

The hazards behind these, each at its line, are listed in `PROJECT.json`.

## 2. Modules

Each module is parameterised by `CONSTANTS`, its actions bear the names of the
operations, and an operation is cut into as many actions as it has awaits at which
other requests can change what it read. What a request remembers across its awaits
is a record in `req`, one slot per concurrent request; `RequestFails` frees a slot
at any await and stands for a rolled-back transaction, a failing statement and the
death of the process alike. A transaction is one step: its first statement locks
what it changes, and an error in it undoes all of it.

**RefreshTokens** - `tokens` is the table (a function whose domain is the set of
primary keys), `audit` the log rows about sessions. `RefreshRead` is the lookup of
`refreshToken` with its checks in the code's order (verifier, revocation, expiry),
`RefreshReuse` and `RefreshRotate` are the two transactions; `LogoutRead` and
`LogoutCommit` likewise. The rotation writes by primary key whatever has become of
the row, as `auth.service.ts` 864 does. Verifiers are abstracted to whether the
presented one matches.

**OtpLifecycle** - `otps` is the `OtpCode` table in order of creation, `bucket` the
rate-limit row of each phone, `sending` the calls that await the provider.
`SendOtp` is the first transaction (`Charge` and `MaySend` are its bucket
arithmetic, `lastSentAt = 0` is `new Date(0)`), `SettleSent`, `SettleFailed` and
`SendLost` its three continuations. Verification is one transaction:
`VerifySucceeds` when the conditional update hits exactly one row, `VerifyFails`
otherwise, both with rows that hit and are consumed. Handlers read the clock before
their transaction; `Readings` are the values such a reading may have.

**Accounts** - `users`, `profiles`, `onboarding`, and a counter of sessions per
phone. The OTP registrations are one action each, since any error rolls everything
back; `register` and `login` are cut at bcrypt. Profiles and codes are reduced to
what uniqueness, roles and suspension need.

**Payments** - four tables, the job's status, and `ledger`, the gateway's view,
modelled from `mock-payment.gateway.ts` (the installed gateway: a new transaction
for each authorize call) with the statuses of `payment-gateway.interface.ts` for
authorize. The `Refund` table is kept as the sum per payment. A webhook only adds
to `events`, as `handleWebhook` does.

**SmsDelivery** - what `ISmsProvider` promises its callers, and all that
`sendOtp` relies on: a pending send is answered "sent", only if delivered, or
"failed", which promises nothing; no message is delivered twice.

**CequensSms** - implements SmsDelivery. `cachedToken` and `tokenExpiry` are the
fields of the singleton, `send` the calls in progress with the await each has
reached. `SendOtp` runs to the first fetch (with the cached token, or signing in
after clearing the cache), `SignInAnswered`, `SignInRead`, `Answered`, `BodyRead`
resume after an await, `Unauthorized` is the 401 branch with its retry, `FetchFails`
a network failure or the abort. The gateway is external: it issues tokens that
expire or are revoked, and takes, declines or rejects a request, also one that the
send has given up on. `issued[t]` is the expiry of token `t`; tokens carry a readable
`exp` or not (`jwt`), which decides whether the code knows it.

**ChatScan** - `sent` are the calls of `handleSendMessage` in the order they were
made, `log` the messages with a row, `received` what each client has seen, `rooms` the
socket.io rooms. A text is a sequence of parts, and `lastIndex` counts parts: `Matches`
and `IndexAfter` are `test()` of a global regular expression, `Test` the loop over the
two patterns with its `break`. A clean message is scanned and emitted in one step,
because only microtasks lie between; a suspicious one goes on after `CreateLog`. Who
sends, and the log row's other columns, are left out: nothing in the code reads them.

**MobileSession** - `call` holds the calls in progress with the await each has reached:
a sign-in or other public request, a logout, or any request behind `DioClient.dio`
(in the app only logout so far; `test/dio_refresh_test.dart` makes the others).
`stored` is the secure storage, written key by key (`SaveAccess`, `SaveRefresh`,
`SaveRole`) and cleared at once, `shown` and `isLoading` are `AuthState`, `boot` is
`checkInitialAuth`. `errors` is the error queue of dio's `QueuedInterceptorsWrapper`:
`Fails` enters it, `EndOfError` is what happens when `handler.resolve` or `handler.next`
returns: the next error is handed to `onError` in that very call, before the `finally`
block resets `_refreshFuture`. The error of a retry queues behind the `onError` that
awaits it, so that call is `stuck`, and everything that fails afterwards waits behind
it. The API accepts or rejects an access token freely (it may have expired, the user may
be suspended); of refresh tokens it knows family and revocation. The guard of `Begin` is
`app_router.dart` 15-25 and `login_screen.dart` 85.

`MC...` modules add the symmetry sets and the texts for TLC. A `...Proofs` module beside
each component's holds its theorems; `BoundedSets` holds the two lemmas they share, on
`Min` and `Max` of sets of numbers. Definitions commented as mutants are deliberately
wrong versions of the definition that follows them; putting one in its place makes TLC
report the property that `PROJECT.json` names for it.

## 3. Runs

| Run | Result | What it shows |
|---|---|---|
| `RefreshTokens.cfg` | holds, 0.5 M states | ownership, replacement chains, genuine reuse, final logout, closed sessions, tokens only ever revoked |
| `SweptFamily.cfg` | violated | a refresh in flight puts a live token into a family just swept, against the tests of reuse detection and revoke-all |
| `OtpLifecycle.cfg` | holds, 0.5 M states | single active code, single use, dead codes stay dead; rate limits with a provider faster than the cooldown |
| `OtpHourlyLimit.cfg` | violated | a failed delivery restarts the hourly count, against "5/hr rate limits" |
| `Accounts.cfg` | holds, 0.3 M states | tokens and accounts correspond, no takeover, suspended users get no new session |
| `Payments.cfg` | holds, 2.7 M states | rows agree with the gateway's ledger, whatever dies half way |
| `PaymentIdempotency.cfg` | violated | one idempotency key, two authorizations |
| `PaymentCrash.cfg` | violated | authorized payment, unconfirmed job, and a retry that does not repair it |
| `CequensSms.cfg` | holds, 0.45 M states | sound cache, foreseen expiry, every send answered, refinement of SmsDelivery with its liveness |
| `MobileSession.cfg` | holds, 0.4 M states | refresh tokens presented once, logout final on screen and in storage, fresh retries, every call ends unless a retry fails |
| `ChatScan.cfg` | holds, 0.6 M states | notices follow their rows, only notices are late, no two contacts missed in a row |
| `ChatPhoneNumbers.cfg` | violated | the same number sent twice is flagged once |

A violated run checks one statement of the repository's docs, comments or tests that
the code does not keep; `PROJECT.json` quotes it under `findings`.

Bounds, and why they are enough to meet the cases that matter:
* RefreshTokens: two users (crossing families), two requests (every overlap is one
  of a pair), three tokens and two families (a chain of two rotations, or a rotation
  beside a second session), `TokenLife` 1 with two ticks (issued, expiring, expired).
* OtpLifecycle: one phone (rows of different phones share nothing), two codes (right
  and wrong guess; equal codes of two rows), three rows (so that an old settlement
  meets two newer ones), `Cooldown` 2 < `OtpLife` 3 so that codes overlap, one
  provider faster and one slower than the cooldown, `Lag` 1. `MaxAttempts` 1 with
  `MaxTries` 2 guesses crosses the attempt limit.
* Accounts: two phones, one national id to fight for, three tokens (two for one
  phone), two requests. The runs have `OtpEnabled = TRUE`; disabling it removes actions.
* Payments: two customers (owner and stranger), one job, two keys and transactions,
  two amounts, two requests, two units refundable. An authorization that answers
  FAILED is treated by the code like PENDING and never becomes authorized, so the
  run leaves it out.
* CequensSms: two sends (who invalidate each other's cache and sign in over each
  other), three tokens (each send signs in, one of them again after a 401),
  `TokenLife` 2 with `Margin` = `Timeout` = 1 and three ticks, so that a token is
  fresh, within the margin and expired, and the margin is as tight as it may be.
* MobileSession: two calls at once (a refresh beside a logout, a second 401 behind the
  first, a sign-in beside a late answer), two token pairs (a sign-in and its refresh, or
  two sign-ins), one kill. A third simultaneous 401, which refreshes again, needs three
  calls and is out of reach with the liveness property.
* ChatScan: three messages (one to set `lastIndex`, one to miss, one to show that the
  next is caught), two clients in one conversation (`lastIndex` is shared by all
  conversations, so one is the worst case), texts with a number first or second, a
  spelled number alone or before a number, a keyword, and none; one restart.

Fairness. CequensSms and MobileSession have liveness properties. MobileSession assumes
weak fairness of the start-up check and of each call's steps: storage operations end,
and an HTTP call ends with `connectTimeout` or `receiveTimeout` (15 s) at the latest,
which is why the step that answers it may always answer with an error. CequensSms assumes weak fairness of
`FetchFails`, justified by the abort timer of `fetchWithTimeout`, and of `BodyRead`,
justified by the body limit of Node's HTTP client (an answer ends, or fails to); it
assumes nothing of the gateway. The other modules assume no fairness: their
properties are safety and action properties, and the system may stop at any point. `CHECK_DEADLOCK FALSE` is set because clocks, ids
and row counts are bounded, so every run ends in states without successor.

## 4. Reading the conditional properties

`CooldownBetweenSent` and `WindowIsCounted` hold only if the provider answers within
the cooldown (`dispatchLimit < Cooldown`): a failure recorded later resets
`lastSentAt` under a newer reservation. The run contains slow providers as well, for
which only the other five properties are claimed. The provider's 10 s abort timer ends at
the response headers, so the code does not guarantee the condition: CequensSms shows
that every send is answered, not when.

`ExpiryIsForeseen` speaks of tokens that tell their expiry; others are reused until
a 401. It needs `Timeout <= Margin` (10 s and 30 s in the code).

`SuspendedGetsNoSession` excuses the logins that read the user before the suspension,
since `login` tests the status it read before bcrypt.

`ReuseIsExplained` excuses two cases the code cannot tell: a logout whose answer is
still to come while the same token is refreshed, and a kill between the API's rotation
and the writes of `saveTokens`. `CallsEnd` excuses a retry that failed: from then on no
error is delivered until the app is started again. `LogoutHolds` and
`StoredSessionIsOne` speak of runs in which no sign-in began beside another call or
the start-up check; otherwise a late refresh, or the check, mixes two sessions. All three
exceptions are true of the code.

`RetryIsFresh` has that exception too, which only the attempt to prove it brought to
light: two token pairs, the bound of the run, are one too few to see it. With three, a
user signs in again beside a call that is refreshing; the 401 of a request of the new
session joins the refresh of the old one, and its retry, over which `onRequest` attaches
what it finds in storage, goes out with the new session's token that was just rejected.
Likewise a request of the old session is retried with the new user's token. Without such
a sign-in the retry carries the token its refresh brought, which is what the property
says (and more than that it differs from the one rejected: a call may be rejected with
the very token its shared refresh had given before).

`LogoutHolds` is about the app. At the API a session may outlive its logout: when the
access token has expired, the interceptor first rotates the refresh token that the
logout is about to name.

`OnlyNoticesAreLate` says nothing of notices among themselves, `NoticeIsLogged` nothing
of rows without a notice: `create` may commit and fail.

`StatusFollowsGateway` and `RefundsWereMade` rely on a gateway that does what it is
asked or throws: `captureResult.status` is never looked at.

## 5. Proofs

`RefreshTokensProofs.tla` proves for all users, ids, request slots and bounds, from
`LifeAssumption` (`TokenLife` and `MaxTime` are naturals) and `NoneAssumption` (NULL
is no token id):

* `SessionInvariant`: `Spec => []IInv`, the inductive invariant. Besides the checked
  invariants it says what requests in flight may rely on (`RequestsHoldTokens`: the
  token they read still exists, and for the reuse branch is still revoked) and that
  no token outlives one issued now (`ExpiryBound`). The first is needed because the
  reuse and rotation transactions act on the remembered token; the second because
  the replacement of a token must live at least as long as the token.
* `TypeCorrectness`, `OneOwner`, `ChainsAreSound`, `GenuineReuse`, `FinalLogout`: the
  five invariants of the run, from `IInv`.
* `TokensAreOnlyRevoked`, `ClosedForGood`: the two action properties. The argument
  for the second: a step adds a row only to a family with no rows or to that of a
  request about to rotate, a request becomes about to rotate only by reading a usable
  token, and no row becomes usable again.

The steps that revoke (reuse, logout, revoke all) share `RevokingStepInv`; the steps
that leave the tables alone share `QuietStepInv`. The two steps that add a row have a
lemma each.

`CequensSmsProofs.tla` proves for any sends, tokens and times, from
`CequensAssumption` (naturals, `Timeout` in `1..Margin`, null is no token):

* `Invariance`: `Spec => []IInv`. Besides the checked invariants, `MessagesInOrder`
  ties the await of a send to what became of its request (a send that signs in again
  has a request that was rejected, so nothing of it was delivered), `TokensInOrder`
  says that a token whose sign-in body is still to be read is known to its send alone,
  which is why caching it late cannot restore a rejected one, and `PostsInTime` that
  a message waited for was posted no longer than `Timeout` ago, with a cached token
  good for more than `Margin`.
* `TypeCorrectness`, `CacheSoundness`, `ExpiryForesight`: the invariants of the run.
* `DeliveryRefinement`: the safety part of `ImplementsDelivery`, one case per action.

`ChatScanProofs.tla` proves for any clients, conversations, texts and bounds, from
`ChatAssumption` (texts are sequences of parts):

* `NoticesLogged`, `NoticesOnlyLate`: the two invariants of the run, from an inductive
  invariant that adds `HandlersOK` (a call past `create` has its row, a clean one is
  done at once, what clients have received was sent). The order follows because a clean
  message is emitted as the newest of all (`EmitAppends`).
* `MissesIsolated`, from `MemoryIsOfAMatch`: one of the patterns has `lastIndex` other
  than 0 only if a phone pattern matched in the message scanned last.

`PaymentsProofs.tla` proves for any customers, jobs, keys, amounts, gateway ids and
request slots, from `PaymentsAssumption` (amounts are positive, bounds are naturals):

* `Invariance`: `Spec => []IInv`. `RequestsOK` says what a request remembers across its
  awaits and that it is still so: the gateway's answer to it stands in the ledger, the
  job it is about to confirm is paid, the refund it is about to record was made.
  `Grows` is the reason: nothing that requests remember is ever taken back, so every
  step of one request leaves what the others remember true.
* `PaymentsAtGateway`, `ConfirmedJobsArePaid`, `StatusesFollowGateway`: by that.
* `RefundsAreReturned`: `refunds[k] <= refunded` is not inductive, because a request that
  is about to write its row has already been paid out, and any number of them may be, or
  may have died. `RefundsAccounted` counts in units of money: each unit the gateway
  returned is claimed by the rows written, by one request in flight, or by nobody. So the
  sum over requests is a family of disjoint sets, and no induction over them is needed.
* `PaymentsSettleForward`: the action property.

`AccountsProofs.tla` proves for any phones, ids and request slots, from
`AccountsAssumption`:

* `SpentTokensMadeAccounts`, `TechniciansAreProfiled`: from `IInv`, in which
  `OneTokenSpent` names the spent token of an account where the property counts them. It
  is inductive because a token is spent only with the insertion of a user whose phone
  is not there yet (`ConsumeSpends`).
* `AccountsAreKept`, `SuspendedKeptOut`: the action properties, one case per action.

`OtpLifecycleProofs.tla` proves for any phones, codes, limits and bounds, from
`OtpAssumption`:

* `OneActive`, `ConsumedWereValid`, `TokensAreEarned`, from `ActiveIsUnique` (the codes
  that are acceptable now, without counting) and `SendingIsPending` (a message on its way
  is of a row neither settled nor consumed). `DeadCodesStayDead` needs them as well.
* `SendsAreSpaced`, `WindowsAreCounted`, for a provider that answers within the
  cooldown. The invariant `PromptSends` counts the rows whose message was sent or *may
  still be* (`Charged`): a message on its way is charged, and a failure takes the charge
  back. Then the next send is a cooldown behind every charged row, either by `lastSentAt`
  or, after a failure has set that to 0, because the provider was prompt
  (`NextIsSpaced`): all charged rows but the last are a cooldown old
  (`OldRowsAreSpaced`). Neither property is inductive without the messages on their way.

`MobileSessionProofs.tla` proves for any number of calls, tokens and kills, from
`MobileAssumption` (null is no token and no call, bounds are naturals):

* `Invariance`: `Spec => []IInv`. `OneInOnError` is dio's queue: at most one call is
  between the begin and the end of `onError`, and it is the head of `errors`.
  `UnstoredIsUnused` and `StoredIsUsable` follow every refresh token from the API's
  answer to storage and back: one about to be stored is in nobody else's hands, and a
  stored one that is revoked was presented by the one call in `onError`, unless its
  session was logged out or the app killed. `Orderly` holds while no sign-in ran beside
  other calls: a sign-in is alone, what was left by logout is neither stored nor
  shown, a role is stored with the tokens of its session and everything a refresh is
  bringing is of it too, and what a retry finds in storage is its answer or nothing.
* `NoFalseAlarm`, `LogoutIsForGood`, `OneSessionIsStored`, `RetriesAreFresh`: the
  properties of the run but `CallsEnd`.
* The lemmas behind them: `ErrorReturns` and `Bystanders` say what the end of one
  `onError` does to all calls at once (some end, one goes on), `QuietInv` covers the
  steps that store nothing, `LocalKeeps` those that read or write storage.

Every safety property of the runs that hold, invariants and action properties, is a
theorem. Only model-checked are the liveness properties (`SendIsAnswered`, `CallsEnd`, the
fairness in `ImplementsDelivery`), which are out of the prover's reach, and that the
statements of the violated runs fail. Counting is proved by naming (one token, disjoint
units) or with the library's facts on finite sets, never by induction over data.

The inductive invariants were checked by TLC before they were proved, on the instances
of section 3; that of MobileSession also with three tokens and no kill, and for a part of
its states with three calls.

## 6. Plan

Done: the modules above, their runs, and the proofs of their safety properties. Next:

1. **SignUp** - a small abstract specification (a phone is unverified, verified or
   owned by an account, and never goes back) that Accounts implements; the abstract
   view of a session (open, closed) implemented by RefreshTokens; both with proofs.
2. MobileSession over RefreshTokens itself, in place of its reduced API, and with
   `onboardingToken`.

Stays with TLC: liveness under fairness, and what needs induction over data.

## 7. Not modelled

* Cryptography (hashes, HMACs, JWT signatures, bcrypt): abstracted to its answer.
* Phone normalization: the models take normalized phones.
* Access tokens: stateless; they outlive a revoked session by up to 15 minutes by design.
* `registerDeviceToken`: one upsert that nothing reads.
* `jobs.gateway.ts`, storage adapters, health, filters, interceptors, throttling:
  no state of their own, or pure I/O.
* Jobs, offers, store orders, change orders, disputes, wallets, settlements: the schema
  has their tables and the docs their lifecycle, but no code of the API operates on
  them, so there is nothing to translate.
* The dashboard and the app's screens: static or presentational.
