---------------------------- MODULE OtpLifecycle ----------------------------
(***************************************************************************)
(* One-time codes: AuthService.sendOtp and verifyRegistrationOtp over the  *)
(* OtpCode, OtpRateLimit and OnboardingToken tables, with OTP_ENABLED set. *)
(*                                                                         *)
(* sendOtp reserves a code in one transaction (serialised per phone by     *)
(* SELECT ... FOR UPDATE on the rate-limit row), sends the SMS outside any *)
(* transaction, then records what the provider said; verification is one   *)
(* transaction.  Both read the clock before they open the transaction, at  *)
(* most Lag units earlier than it runs.                                    *)
(*                                                                         *)
(* Bounds: MaxOtps rows, MaxTime on the clock, MaxTries on attempts (which *)
(* the code increments without limit).                                     *)
(***************************************************************************)
EXTENDS Integers, Sequences, FiniteSets, FiniteSetsExt

CONSTANTS
    Phones,         \* normalized phone numbers
    Codes,          \* the codes randomInt may draw; two OTPs may share one
    Cooldown,       \* otp.cooldownSeconds, in clock units
    OtpLife,        \* otp.expirationSeconds
    OnboardingLife, \* 15 minutes
    Hour,           \* 3600 seconds
    HourlyLimit,    \* otp.hourlyRateLimit
    MaxAttempts,    \* otp.maxAttempts
    Lag,            \* between a handler's new Date() and its transaction
    DispatchLimits, \* how long the SMS provider may take at most, one of these
    MaxOtps, MaxTime, MaxTries

ASSUME OtpAssumption ==
    /\ {OtpLife, OnboardingLife, Hour, Lag, MaxTime} \subseteq Nat
    /\ {Cooldown, HourlyLimit, MaxAttempts} \subseteq Nat \ {0}
    /\ DispatchLimits \subseteq Nat
    /\ Lag < Cooldown

VARIABLES
    now,        \* the clock; 0 is new Date(0)
    otps,       \* OtpCode rows in the order of createdAt
    bucket,     \* OtpRateLimit row of each phone
    sending,    \* rows whose sendOtp call awaits the provider
    onboarding, \* OnboardingToken rows, in order of creation
    registered, \* phones that have a User row
    dispatchLimit \* the bound on the provider's answers, fixed from the start

\* The tables and what is in flight, all that a step of the code may change.
tables == <<otps, bucket, sending, onboarding, registered>>
vars == <<now, tables, dispatchLimit>>

-----------------------------------------------------------------------------
(* Rows *)

Purposes == {"LOGIN", "REGISTRATION"}

\* requestedAt is the new Date() of the sendOtp call, from which the code
\* computes the expiresAt of the row.
OtpRow == [phone : Phones, purpose : Purposes, code : Codes, requestedAt : Nat,
           status : {"PENDING", "SENT", "FAILED"}, expiresAt : Nat,
           attempts : Nat, consumed : BOOLEAN]

BucketRow == [lastSentAt : Nat, hourlyCount : Nat, windowStart : Nat]

TypeOK ==
    /\ now \in Nat
    /\ otps \in Seq(OtpRow)
    /\ bucket \in [Phones -> BucketRow]
    /\ sending \subseteq DOMAIN otps
    /\ onboarding \in Seq([phone : Phones, expiresAt : Nat])
    /\ registered \subseteq Phones
    /\ dispatchLimit \in DispatchLimits

\* The readings of the clock a transaction that runs now may work with.
Readings == {at \in 1..now : now - at <= Lag}

\* Mutant of ActiveAt: a code whose SMS is not confirmed yet is overlooked.
ActiveSentAt(p, purpose, at) ==
    {i \in DOMAIN otps : /\ otps[i].phone = p
                         /\ otps[i].purpose = purpose
                         /\ ~otps[i].consumed
                         /\ otps[i].status = "SENT"
                         /\ otps[i].expiresAt > at}

\* Unconsumed rows of phone p that a handler holding the reading `at' takes
\* for unexpired.
ActiveAt(p, purpose, at) ==
    {i \in DOMAIN otps : /\ otps[i].phone = p
                         /\ otps[i].purpose = purpose
                         /\ ~otps[i].consumed
                         /\ otps[i].expiresAt > at}

-----------------------------------------------------------------------------
(* Operations *)

Init ==
    /\ now = 1
    /\ otps = <<>>
    /\ bucket = [p \in Phones |-> [lastSentAt |-> 0, hourlyCount |-> 0, windowStart |-> 0]]
    /\ sending = {}
    /\ onboarding = <<>>
    /\ registered = {}
    /\ dispatchLimit \in DispatchLimits

\* Mutant of Charge: a fresh window is opened backwards from the send.
ChargeBackwards(b, at) ==
    IF b.lastSentAt = 0 \/ at - b.windowStart > Hour
      THEN [lastSentAt |-> at, hourlyCount |-> 1, windowStart |-> at - Hour]
      ELSE [lastSentAt |-> at, hourlyCount |-> b.hourlyCount + 1,
            windowStart |-> b.windowStart]

\* The rate-limit check of sendOtp.  A bucket whose lastSentAt is new Date(0),
\* because it was just inserted or because the last send failed, starts afresh.
Charge(b, at) ==
    IF b.lastSentAt = 0 \/ at - b.windowStart > Hour
      THEN [lastSentAt |-> at, hourlyCount |-> 1, windowStart |-> at]
      ELSE [lastSentAt |-> at, hourlyCount |-> b.hourlyCount + 1,
            windowStart |-> b.windowStart]

\* Mutants of MaySend: no cooldown; one message too many in the window.
MaySendAtOnce(b, at) ==
    b.lastSentAt > 0 => at - b.windowStart > Hour \/ b.hourlyCount < HourlyLimit
MaySendOneMore(b, at) ==
    b.lastSentAt > 0 => /\ at - b.lastSentAt >= Cooldown
                        /\ at - b.windowStart > Hour \/ b.hourlyCount <= HourlyLimit

MaySend(b, at) ==
    b.lastSentAt > 0 => /\ at - b.lastSentAt >= Cooldown
                        /\ at - b.windowStart > Hour \/ b.hourlyCount < HourlyLimit

\* sendOtp, its first transaction: charge the bucket, expire the codes of this
\* phone and purpose that are still active, reserve a new one.
SendOtp(p, purpose, code, at) ==
    /\ Len(otps) < MaxOtps
    /\ MaySend(bucket[p], at)
    /\ bucket' = [bucket EXCEPT ![p] = Charge(@, at)]
    /\ otps' = Append([i \in DOMAIN otps |->
                         IF i \in ActiveAt(p, purpose, at)
                           THEN [otps[i] EXCEPT !.expiresAt = at] ELSE otps[i]],
                      [phone |-> p, purpose |-> purpose, code |-> code,
                       requestedAt |-> at, status |-> "PENDING",
                       expiresAt |-> at + OtpLife, attempts |-> 0,
                       consumed |-> FALSE])
    /\ sending' = sending \cup {Len(otps) + 1}
    /\ UNCHANGED <<now, onboarding, registered, dispatchLimit>>

\* Mutant of SettleSent: the code's life starts when the SMS is confirmed.
SettleSentAfresh(i) ==
    /\ i \in sending
    /\ otps' = [otps EXCEPT ![i].status = "SENT", ![i].expiresAt = now + OtpLife]
    /\ sending' = sending \ {i}
    /\ UNCHANGED <<now, bucket, onboarding, registered, dispatchLimit>>

\* sendOtp, after the provider accepted the message.
SettleSent(i) ==
    /\ i \in sending
    /\ otps' = [otps EXCEPT ![i].status = "SENT"]
    /\ sending' = sending \ {i}
    /\ UNCHANGED <<now, bucket, onboarding, registered, dispatchLimit>>

\* sendOtp, after the provider failed, threw or timed out: one transaction.
SettleFailed(i) ==
    /\ i \in sending
    /\ otps' = [otps EXCEPT ![i].status = "FAILED"]
    /\ bucket' = [bucket EXCEPT ![otps[i].phone].lastSentAt = 0]
    /\ sending' = sending \ {i}
    /\ UNCHANGED <<now, onboarding, registered, dispatchLimit>>

\* External: the process dies, or the write of the outcome fails, while the
\* message is on its way.  The row stays PENDING.
SendLost(i) ==
    /\ i \in sending
    /\ sending' = sending \ {i}
    /\ UNCHANGED <<now, otps, bucket, onboarding, registered, dispatchLimit>>

\* Mutant of Hits: neither delivery nor the number of attempts is asked for.
HitsUnchecked(p, code, at) ==
    {i \in ActiveAt(p, "REGISTRATION", at) : otps[i].code = code}

\* Rows the conditional UPDATE of verifyRegistrationOtp marks consumed.
Hits(p, code, at) ==
    {i \in ActiveAt(p, "REGISTRATION", at) : /\ otps[i].status = "SENT"
                                             /\ otps[i].attempts < MaxAttempts
                                             /\ otps[i].code = code}

\* Mutant of Consume: the matching code is found but not consumed.
ConsumeNothing(S) == otps

Consume(S) == [i \in DOMAIN otps |-> IF i \in S THEN [otps[i] EXCEPT !.consumed = TRUE]
                                               ELSE otps[i]]

\* verifyRegistrationOtp when the UPDATE hit exactly one row.
VerifySucceeds(p, code, at) ==
    /\ Cardinality(Hits(p, code, at)) = 1
    /\ otps' = Consume(Hits(p, code, at))
    /\ onboarding' = IF p \in registered THEN onboarding
                     ELSE Append(onboarding, [phone |-> p, expiresAt |-> at + OnboardingLife])
    /\ UNCHANGED <<now, bucket, sending, registered, dispatchLimit>>

\* verifyRegistrationOtp otherwise: an attempt is counted against the latest
\* active code, if there is one, and committed.
VerifyFails(p, code, at) ==
    LET hits == Hits(p, code, at)
        open == {i \in ActiveAt(p, "REGISTRATION", at) \ hits : otps[i].status = "SENT"}
    IN  /\ Cardinality(hits) # 1
        /\ hits \cup open # {}
        /\ \A i \in open : otps[i].attempts < MaxTries
        /\ otps' = [i \in DOMAIN otps |->
                      IF open # {} /\ i = Max(open)
                        THEN [otps[i] EXCEPT !.attempts = @ + 1]
                        ELSE Consume(hits)[i]]
        /\ UNCHANGED <<now, bucket, sending, onboarding, registered, dispatchLimit>>

\* External: a User row for the phone appears (see Registration).
Register(p) ==
    /\ p \notin registered
    /\ registered' = registered \cup {p}
    /\ UNCHANGED <<now, otps, bucket, sending, onboarding, dispatchLimit>>

\* External: time passes.  CEQUENS requests are aborted after 10 s, four at most
\* per message, but the timer stops at the response headers: a body that stalls
\* can take longer than the cooldown.  Hence both kinds of limit.
Tick ==
    /\ now < MaxTime
    /\ \A i \in sending : now < otps[i].requestedAt + dispatchLimit
    /\ now' = now + 1
    /\ UNCHANGED <<tables, dispatchLimit>>

Next ==
    \/ \E p \in Phones, purpose \in Purposes, code \in Codes, at \in Readings :
         SendOtp(p, purpose, code, at)
    \/ \E i \in sending : SettleSent(i)
    \/ \E i \in sending : SettleFailed(i)
    \/ \E i \in sending : SendLost(i)
    \/ \E p \in Phones, code \in Codes, at \in Readings : VerifySucceeds(p, code, at)
    \/ \E p \in Phones, code \in Codes, at \in Readings : VerifyFails(p, code, at)
    \/ \E p \in Phones : Register(p)
    \/ Tick

Spec == Init /\ [][Next]_vars

-----------------------------------------------------------------------------
(* Properties *)

\* At most one code per phone and purpose can still be accepted: a new one
\* expires the older ones, also those whose SMS is confirmed only later.
OneActiveOtp ==
    \A p \in Phones, purpose \in Purposes : Cardinality(ActiveAt(p, purpose, now)) <= 1

\* A consumed code was confirmed as sent and not exhausted by wrong guesses, and
\* no later settlement or guess makes it otherwise.
ConsumedWasValid ==
    \A i \in DOMAIN otps :
        otps[i].consumed => /\ otps[i].status = "SENT"
                            /\ otps[i].attempts < MaxAttempts
                            /\ i \notin sending

\* A phone never holds more onboarding tokens than REGISTRATION codes it consumed.
TokenPerConsumedOtp ==
    \A p \in Phones :
        Cardinality({k \in DOMAIN onboarding : onboarding[k].phone = p})
          <= Cardinality({i \in DOMAIN otps : /\ otps[i].phone = p
                                              /\ otps[i].purpose = "REGISTRATION"
                                              /\ otps[i].consumed})

SentOtps(p) == {i \in DOMAIN otps : otps[i].phone = p /\ otps[i].status = "SENT"}

\* With a provider that answers within the cooldown, codes sent to one phone were
\* requested a cooldown apart, up to Lag, although the failure of one send lifts
\* the cooldown for the next.
CooldownBetweenSent ==
    dispatchLimit < Cooldown => \A p \in Phones : \A i, j \in SentOtps(p) :
        i < j => otps[j].requestedAt - otps[i].requestedAt >= Cooldown - Lag

\* With such a provider, hourlyCount accounts for every code sent since windowStart
\* and stays within the limit.
WindowIsCounted ==
    dispatchLimit < Cooldown => \A p \in Phones :
        /\ Cardinality({i \in SentOtps(p) : otps[i].requestedAt >= bucket[p].windowStart})
             <= bucket[p].hourlyCount
        /\ bucket[p].hourlyCount <= HourlyLimit

\* A code, once consumed, failed or expired by a newer one, never comes back:
\* neither a late settlement nor a racing verification makes it acceptable.
DeadOtpStaysDead ==
    [][\A i \in DOMAIN otps :
         (otps[i].consumed \/ otps[i].status = "FAILED" \/ otps[i].expiresAt <= now)
           => (otps'[i].consumed \/ otps'[i].status = "FAILED" \/ otps'[i].expiresAt <= now')]_vars

-----------------------------------------------------------------------------
(* A claim of the repository that the code does not keep *)

\* "5/hr rate limits": at most HourlyLimit codes are sent to a phone in an hour.
HourlyLimitHolds ==
    \A p \in Phones : \A i \in SentOtps(p) :
        Cardinality({j \in SentOtps(p) :
                       otps[j].requestedAt - otps[i].requestedAt \in 0..Hour}) <= HourlyLimit

=============================================================================
