------------------------- MODULE OtpLifecycleProofs -------------------------
(* Theorems about OtpLifecycle, for any phones, codes, periods, limits and bounds. *)
EXTENDS OtpLifecycle, BoundedSets, FiniteSetTheorems, TLAPS

-----------------------------------------------------------------------------
(* The inductive invariant *)

\* A message on its way is of a row that is neither settled nor consumed.
SendingIsPending == \A i \in sending : otps[i].status = "PENDING" /\ ~otps[i].consumed

\* OneActiveOtp without counting.
ActiveIsUnique ==
    \A p \in Phones, purpose \in Purposes : \A i, j \in ActiveAt(p, purpose, now) : i = j

\* Rows of phone p whose message was sent, or may still be.
Charged(p) ==
    {i \in DOMAIN otps : otps[i].phone = p /\ (otps[i].status = "SENT" \/ i \in sending)}

\* The next send of phone p is a cooldown behind its charged rows: by lastSentAt, or,
\* once a failure has set that back to 0, because a cooldown has passed.
NextIsSpaced(p) ==
    \A i \in Charged(p) :
        IF bucket[p].lastSentAt = 0 THEN now >= otps[i].requestedAt + Cooldown
                                    ELSE bucket[p].lastSentAt >= otps[i].requestedAt

\* A cooldown has passed since each charged row that is not the phone's last one.
OldRowsAreSpaced(p) ==
    \A i \in Charged(p) : \A k \in DOMAIN otps :
        otps[k].phone = p /\ i < k => now >= otps[i].requestedAt + Cooldown

ChargedAreSpaced(p) ==
    \A i, j \in Charged(p) : i < j => otps[j].requestedAt - otps[i].requestedAt >= Cooldown - Lag

\* The provider answers within the cooldown.
SendingIsRecent(p) ==
    \A i \in Charged(p) \cap sending : now < otps[i].requestedAt + Cooldown

\* The charged rows of the current window.
InWindow(p) == {i \in Charged(p) : otps[i].requestedAt >= bucket[p].windowStart}

WindowIsBounded(p) ==
    /\ Cardinality(InWindow(p)) <= bucket[p].hourlyCount
    /\ bucket[p].hourlyCount <= HourlyLimit

PromptSends ==
    dispatchLimit < Cooldown =>
        \A p \in Phones : /\ NextIsSpaced(p) /\ OldRowsAreSpaced(p) /\ ChargedAreSpaced(p)
                          /\ SendingIsRecent(p) /\ WindowIsBounded(p)

IInv == /\ TypeOK
        /\ SendingIsPending
        /\ ActiveIsUnique
        /\ ConsumedWasValid
        /\ TokenPerConsumedOtp
        /\ PromptSends

-----------------------------------------------------------------------------
(* Rows *)

\* Rows are numbered from 1, and there are finitely many.
LEMMA Rows ==
    ASSUME TypeOK
    PROVE  /\ Len(otps) \in Nat /\ DOMAIN otps = 1..Len(otps)
           /\ IsFiniteSet(DOMAIN otps)
           /\ \A i \in DOMAIN otps : i \in Nat /\ otps[i] \in OtpRow
           /\ \A p \in Phones : bucket[p] \in BucketRow
<1>1. otps \in Seq(OtpRow)
  BY DEF TypeOK
<1>2. Len(otps) \in Nat /\ DOMAIN otps = 1..Len(otps)
  BY <1>1
<1>3. IsFiniteSet(1..Len(otps))
  BY <1>2, FS_Interval
<1> QED BY <1>1, <1>2, <1>3 DEF TypeOK

-----------------------------------------------------------------------------
(* What the operations do to the rows *)

\* What every row keeps from its creation on.
RowsKept(S) ==
    \A i \in S : /\ otps'[i].phone = otps[i].phone
                 /\ otps'[i].purpose = otps[i].purpose
                 /\ otps'[i].requestedAt = otps[i].requestedAt

\* sendOtp adds row n and expires the active ones of its phone and purpose.
RowAdded(p, purpose, at, n) ==
    /\ n \in Nat /\ n \notin DOMAIN otps /\ \A i \in DOMAIN otps : i < n
    /\ otps' \in Seq(OtpRow) /\ DOMAIN otps' = DOMAIN otps \cup {n}
    /\ otps'[n].phone = p /\ otps'[n].purpose = purpose
    /\ otps'[n].requestedAt = at /\ otps'[n].status = "PENDING" /\ ~otps'[n].consumed
    /\ RowsKept(DOMAIN otps)
    /\ \A i \in DOMAIN otps :
         /\ otps'[i].status = otps[i].status
         /\ otps'[i].attempts = otps[i].attempts
         /\ otps'[i].consumed = otps[i].consumed
         /\ otps'[i].expiresAt = IF i \in ActiveAt(p, purpose, at) THEN at ELSE otps[i].expiresAt

\* The number of the row that sendOtp adds.
NextRow == Len(otps) + 1

LEMMA SendRows ==
    ASSUME TypeOK, NEW p \in Phones, NEW purpose \in Purposes, NEW code \in Codes,
           NEW at \in Readings, SendOtp(p, purpose, code, at)
    PROVE  /\ at \in Nat /\ 1 <= at /\ at <= now /\ now - at <= Lag
           /\ RowAdded(p, purpose, at, NextRow)
<1> DEFINE new == [phone |-> p, purpose |-> purpose, code |-> code,
                   requestedAt |-> at, status |-> "PENDING",
                   expiresAt |-> at + OtpLife, attempts |-> 0, consumed |-> FALSE]
           mid == [i \in DOMAIN otps |-> IF i \in ActiveAt(p, purpose, at)
                                           THEN [otps[i] EXCEPT !.expiresAt = at] ELSE otps[i]]
<1>1. at \in Nat /\ 1 <= at /\ at <= now /\ now - at <= Lag
  BY DEF Readings, TypeOK
<1>2. new \in OtpRow
  BY <1>1, OtpAssumption DEF OtpRow
<1>3. /\ Len(otps) \in Nat /\ DOMAIN otps = 1..Len(otps)
      /\ \A i \in DOMAIN otps : i \in Nat /\ otps[i] \in OtpRow
  BY Rows
<1>4. \A i \in DOMAIN otps :
        /\ mid[i] \in OtpRow
        /\ mid[i].phone = otps[i].phone /\ mid[i].purpose = otps[i].purpose
        /\ mid[i].requestedAt = otps[i].requestedAt /\ mid[i].status = otps[i].status
        /\ mid[i].attempts = otps[i].attempts /\ mid[i].consumed = otps[i].consumed
        /\ mid[i].expiresAt = IF i \in ActiveAt(p, purpose, at) THEN at ELSE otps[i].expiresAt
  BY <1>1, <1>3 DEF OtpRow
<1>5. DOMAIN mid = 1..Len(otps) /\ mid = [i \in 1..Len(otps) |-> mid[i]]
  BY <1>3
<1>6. otps' = Append(mid, new)
  BY DEF SendOtp
<1> HIDE DEF mid
<1>7. mid \in Seq(OtpRow) /\ Len(mid) = Len(otps)
  BY <1>3, <1>4, <1>5
<1>8. /\ otps' \in Seq(OtpRow) /\ DOMAIN otps' = DOMAIN otps \cup {NextRow}
      /\ otps'[NextRow] = new /\ \A i \in DOMAIN otps : otps'[i] = mid[i]
      /\ NextRow \in Nat /\ NextRow \notin DOMAIN otps /\ \A i \in DOMAIN otps : i < NextRow
  BY <1>2, <1>3, <1>6, <1>7 DEF NextRow
<1> QED BY <1>1, <1>4, <1>8 DEF RowAdded, RowsKept

\* A settlement changes the status of its row alone.
LEMMA SettleRows ==
    ASSUME TypeOK, NEW i \in DOMAIN otps, NEW status \in {"SENT", "FAILED"},
           otps' = [otps EXCEPT ![i].status = status]
    PROVE  /\ otps' \in Seq(OtpRow) /\ DOMAIN otps' = DOMAIN otps
           /\ RowsKept(DOMAIN otps)
           /\ \A k \in DOMAIN otps :
                /\ otps'[k].status = IF k = i THEN status ELSE otps[k].status
                /\ otps'[k].attempts = otps[k].attempts
                /\ otps'[k].consumed = otps[k].consumed
                /\ otps'[k].expiresAt = otps[k].expiresAt
<1> DEFINE row == [otps[i] EXCEPT !.status = status]
<1>1. otps \in Seq(OtpRow) /\ otps[i] \in OtpRow
  BY Rows DEF TypeOK
<1>2. /\ row \in OtpRow /\ row.status = status
      /\ row.phone = otps[i].phone /\ row.purpose = otps[i].purpose
      /\ row.requestedAt = otps[i].requestedAt /\ row.attempts = otps[i].attempts
      /\ row.consumed = otps[i].consumed /\ row.expiresAt = otps[i].expiresAt
  BY <1>1 DEF OtpRow
<1>3. otps' = [otps EXCEPT ![i] = row]
  OBVIOUS
<1> HIDE DEF row
<1>4. /\ otps' \in Seq(OtpRow) /\ DOMAIN otps' = DOMAIN otps
      /\ \A k \in DOMAIN otps : otps'[k] = IF k = i THEN row ELSE otps[k]
  BY <1>1, <1>2, <1>3
<1> QED BY <1>2, <1>4 DEF RowsKept

\* What a verification may do to a row: consume it if it was sent and not exhausted,
\* or count an attempt if it is not consumed.
VerifiedRow(old, new) ==
    /\ new \in OtpRow
    /\ new.phone = old.phone /\ new.purpose = old.purpose
    /\ new.requestedAt = old.requestedAt /\ new.status = old.status
    /\ new.expiresAt = old.expiresAt
    /\ old.consumed => new.consumed
    /\ new.consumed => /\ new.attempts = old.attempts
                       /\ old.consumed \/ (old.status = "SENT" /\ old.attempts < MaxAttempts)

\* Consuming the hits.
LEMMA ConsumeRows ==
    ASSUME TypeOK, NEW p, NEW code, NEW at, NEW i \in DOMAIN otps
    PROVE  /\ VerifiedRow(otps[i], Consume(Hits(p, code, at))[i])
           /\ i \in Hits(p, code, at) => Consume(Hits(p, code, at))[i].consumed
           /\ i \notin Hits(p, code, at) => Consume(Hits(p, code, at))[i] = otps[i]
<1>1. otps[i] \in OtpRow
  BY Rows
<1>2. CASE i \in Hits(p, code, at)
  <2>1. Consume(Hits(p, code, at))[i] = [otps[i] EXCEPT !.consumed = TRUE]
    BY <1>2 DEF Consume
  <2>2. otps[i].status = "SENT" /\ otps[i].attempts < MaxAttempts
    BY <1>2 DEF Hits
  <2> QED BY <1>1, <1>2, <2>1, <2>2 DEF VerifiedRow, OtpRow
<1>3. CASE i \notin Hits(p, code, at)
  <2>1. Consume(Hits(p, code, at))[i] = otps[i]
    BY <1>3 DEF Consume
  <2> QED BY <1>1, <1>3, <2>1 DEF VerifiedRow, OtpRow
<1> QED BY <1>2, <1>3

\* A verification keeps the rows, and does to each what VerifiedRow says.
LEMMA VerifyRows ==
    ASSUME TypeOK, NEW p, NEW code, NEW at, VerifySucceeds(p, code, at) \/ VerifyFails(p, code, at)
    PROVE  /\ otps' \in Seq(OtpRow) /\ DOMAIN otps' = DOMAIN otps
           /\ \A i \in DOMAIN otps : VerifiedRow(otps[i], otps'[i])
<1>0. Len(otps) \in Nat /\ DOMAIN otps = 1..Len(otps)
  BY Rows
<1>1. SUFFICES /\ otps' = [i \in DOMAIN otps |-> otps'[i]]
               /\ \A i \in DOMAIN otps : VerifiedRow(otps[i], otps'[i])
  <2> SUFFICES ASSUME otps' = [i \in DOMAIN otps |-> otps'[i]],
                      \A i \in DOMAIN otps : VerifiedRow(otps[i], otps'[i])
               PROVE  otps' \in Seq(OtpRow) /\ DOMAIN otps' = DOMAIN otps
    OBVIOUS
  <2>1. \A i \in DOMAIN otps : otps'[i] \in OtpRow
    BY DEF VerifiedRow
  <2> QED BY <1>0, <2>1
<1>2. CASE VerifySucceeds(p, code, at)
  <2>1. otps' = Consume(Hits(p, code, at))
    BY <1>2 DEF VerifySucceeds
  <2>2. otps' = [i \in DOMAIN otps |-> otps'[i]]
    BY <2>1 DEF Consume
  <2> QED BY <2>1, <2>2, ConsumeRows
<1>3. CASE VerifyFails(p, code, at)
  <2> DEFINE hits == Hits(p, code, at)
             open == {i \in ActiveAt(p, "REGISTRATION", at) \ hits : otps[i].status = "SENT"}
  <2>1. otps' = [i \in DOMAIN otps |->
                   IF open # {} /\ i = Max(open)
                     THEN [otps[i] EXCEPT !.attempts = @ + 1]
                     ELSE Consume(hits)[i]]
    BY <1>3 DEF VerifyFails
  <2>2. open \in SUBSET Nat /\ \A i \in open : i <= Len(otps)
    BY <1>0 DEF ActiveAt
  <2>3. \A i \in open : ~otps[i].consumed /\ i \notin hits
    BY DEF ActiveAt
  <2>4. open # {} => Max(open) \in open
    BY <1>0, <2>2, MaxIsIn
  <2> HIDE DEF hits, open
  <2>5. ASSUME NEW i \in DOMAIN otps PROVE VerifiedRow(otps[i], otps'[i])
    <3>1. CASE open # {} /\ i = Max(open)
      <4>1. otps'[i] = [otps[i] EXCEPT !.attempts = @ + 1] /\ ~otps[i].consumed
        BY <2>1, <2>3, <2>4, <3>1
      <4>2. otps[i] \in OtpRow
        BY Rows
      <4> QED BY <4>1, <4>2 DEF VerifiedRow, OtpRow
    <3>2. CASE ~(open # {} /\ i = Max(open))
      <4>1. otps'[i] = Consume(hits)[i]
        BY <2>1, <3>2
      <4> QED BY <4>1, ConsumeRows DEF hits
    <3> QED BY <3>1, <3>2
  <2>6. otps' = [i \in DOMAIN otps |-> otps'[i]]
    BY <2>1
  <2> QED BY <2>5, <2>6
<1> QED BY <1>2, <1>3

-----------------------------------------------------------------------------
(* What steps that add no row preserve *)

\* The prompt-send facts survive a step that adds no row and charges nothing new; the
\* clock may advance, but not past the provider's limit, and a bucket's lastSentAt may
\* be set back once a cooldown has passed since every row still charged to it.
LEMMA CalmPrompt ==
    ASSUME IInv, RowsKept(DOMAIN otps), DOMAIN otps' = DOMAIN otps,
           dispatchLimit' = dispatchLimit, now' \in Nat, now <= now',
           \A p \in Phones : Charged(p)' \subseteq Charged(p), sending' \subseteq sending,
           \A p \in Phones : /\ bucket'[p].windowStart = bucket[p].windowStart
                             /\ bucket'[p].hourlyCount = bucket[p].hourlyCount,
           dispatchLimit < Cooldown =>
             \A p \in Phones :
               /\ \A i \in Charged(p) \cap sending' : now' < otps[i].requestedAt + Cooldown
               /\ \/ bucket'[p].lastSentAt = bucket[p].lastSentAt
                  \/ \A i \in Charged(p)' : now' >= otps[i].requestedAt + Cooldown
                                            /\ bucket'[p].lastSentAt = 0
    PROVE  PromptSends'
<1> SUFFICES ASSUME dispatchLimit < Cooldown, NEW p \in Phones
             PROVE  /\ NextIsSpaced(p)' /\ OldRowsAreSpaced(p)' /\ ChargedAreSpaced(p)'
                    /\ SendingIsRecent(p)' /\ WindowIsBounded(p)'
  BY DEF PromptSends
<1>0. /\ NextIsSpaced(p) /\ OldRowsAreSpaced(p) /\ ChargedAreSpaced(p)
      /\ SendingIsRecent(p) /\ WindowIsBounded(p) /\ TypeOK
  BY DEF IInv, PromptSends
<1>1. /\ now \in Nat /\ Cooldown \in Nat
      /\ \A i \in Charged(p) : i \in DOMAIN otps /\ otps[i].requestedAt \in Nat
                                 /\ otps'[i].requestedAt = otps[i].requestedAt
      /\ \A i \in DOMAIN otps : otps'[i].phone = otps[i].phone
  BY <1>0, Rows, OtpAssumption DEF TypeOK, Charged, OtpRow, RowsKept
<1>2. Charged(p)' \subseteq Charged(p)
  OBVIOUS
<1>3. NextIsSpaced(p)'
  <2>1. CASE bucket'[p].lastSentAt = bucket[p].lastSentAt
    BY <1>0, <1>1, <1>2, <2>1 DEF NextIsSpaced
  <2>2. CASE \A i \in Charged(p)' : now' >= otps[i].requestedAt + Cooldown
                                     /\ bucket'[p].lastSentAt = 0
    BY <1>1, <1>2, <2>2 DEF NextIsSpaced
  <2> QED BY <2>1, <2>2
<1>4. OldRowsAreSpaced(p)'
  BY <1>0, <1>1, <1>2 DEF OldRowsAreSpaced
<1>5. ChargedAreSpaced(p)'
  BY <1>0, <1>1, <1>2 DEF ChargedAreSpaced
<1>6. SendingIsRecent(p)'
  BY <1>1, <1>2 DEF SendingIsRecent
<1>7. WindowIsBounded(p)'
  <2>1. InWindow(p)' \in SUBSET InWindow(p)
    BY <1>1, <1>2 DEF InWindow
  <2>2. IsFiniteSet(InWindow(p)) /\ InWindow(p) \in SUBSET DOMAIN otps
    <3>1. InWindow(p) \in SUBSET DOMAIN otps
      BY DEF InWindow, Charged
    <3> QED BY <1>0, <3>1, Rows, FS_Subset
  <2>3. Cardinality(InWindow(p)') <= Cardinality(InWindow(p))
    BY <2>1, <2>2, FS_Subset
  <2>4. Cardinality(InWindow(p)') \in Nat /\ Cardinality(InWindow(p)) \in Nat
    BY <2>1, <2>2, FS_Subset, FS_CardinalityType
  <2>5. bucket[p].hourlyCount \in Nat
    BY <1>0, Rows DEF BucketRow
  <2> QED BY <1>0, <2>3, <2>4, <2>5 DEF WindowIsBounded
<1> QED BY <1>3, <1>4, <1>5, <1>6, <1>7

\* No code becomes active again while rows are kept and time goes on.
LEMMA CalmActive ==
    ASSUME IInv, RowsKept(DOMAIN otps), DOMAIN otps' = DOMAIN otps, now' \in Nat, now <= now',
           \A i \in DOMAIN otps : /\ otps[i].consumed => otps'[i].consumed
                                  /\ otps'[i].expiresAt = otps[i].expiresAt
    PROVE  ActiveIsUnique'
<1>0. now \in Nat /\ \A i \in DOMAIN otps : otps[i].expiresAt \in Nat
  BY Rows DEF IInv, TypeOK, OtpRow
<1>1. ASSUME NEW p \in Phones, NEW purpose \in Purposes
      PROVE  ActiveAt(p, purpose, now)' \subseteq ActiveAt(p, purpose, now)
  BY <1>0 DEF ActiveAt, RowsKept
<1> QED BY <1>1 DEF IInv, ActiveIsUnique

\* The onboarding tokens of a phone, and the codes it consumed to register.
Tokens(p) == {k \in DOMAIN onboarding : onboarding[k].phone = p}
Used(p) == {i \in DOMAIN otps : /\ otps[i].phone = p
                                /\ otps[i].purpose = "REGISTRATION"
                                /\ otps[i].consumed}

LEMMA UsedIsFinite ==
    ASSUME TypeOK, NEW p
    PROVE  /\ IsFiniteSet(Used(p)) /\ Cardinality(Used(p)) \in Nat
           /\ IsFiniteSet(Tokens(p)) /\ Cardinality(Tokens(p)) \in Nat
<1>1. Used(p) \in SUBSET DOMAIN otps /\ Tokens(p) \in SUBSET DOMAIN onboarding
  BY DEF Used, Tokens
<1>2. Len(onboarding) \in Nat /\ DOMAIN onboarding = 1..Len(onboarding)
  BY DEF TypeOK
<1>3. IsFiniteSet(DOMAIN otps) /\ IsFiniteSet(DOMAIN onboarding)
  BY <1>2, Rows, FS_Interval
<1> QED BY <1>1, <1>3, FS_Subset, FS_CardinalityType

\* No token is issued and no row loses its mark.
LEMMA CalmTokens ==
    ASSUME IInv, TypeOK', RowsKept(DOMAIN otps), DOMAIN otps \subseteq DOMAIN otps',
           onboarding' = onboarding,
           \A i \in DOMAIN otps : otps[i].consumed => otps'[i].consumed
    PROVE  TokenPerConsumedOtp'
<1> SUFFICES ASSUME NEW p \in Phones
             PROVE  Cardinality(Tokens(p)') <= Cardinality(Used(p)')
  BY DEF TokenPerConsumedOtp, Tokens, Used
<1>1. Tokens(p)' = Tokens(p)
  BY DEF Tokens
<1>2. Used(p) \in SUBSET (Used(p)')
  BY DEF Used, RowsKept
<1>3. /\ Cardinality(Used(p)) \in Nat /\ Cardinality(Tokens(p)) \in Nat
      /\ IsFiniteSet(Used(p)') /\ Cardinality(Used(p)') \in Nat
  <2>1. IsFiniteSet(Used(p)')
    <3>1. Used(p)' \in SUBSET DOMAIN otps'
      BY DEF Used
    <3>2. IsFiniteSet(DOMAIN otps')
      <4>1. Len(otps') \in Nat /\ DOMAIN otps' = 1..Len(otps')
        BY DEF TypeOK
      <4> QED BY <4>1, FS_Interval
    <3> QED BY <3>1, <3>2, FS_Subset
  <2> QED BY <2>1, UsedIsFinite, FS_CardinalityType DEF IInv
<1>4. Cardinality(Used(p)) <= Cardinality(Used(p)')
  BY <1>2, <1>3, FS_Subset
<1>5. Cardinality(Tokens(p)) <= Cardinality(Used(p))
  BY DEF IInv, TokenPerConsumedOtp, Tokens, Used
<1> QED BY <1>1, <1>3, <1>4, <1>5

-----------------------------------------------------------------------------
(* The invariant is inductive *)

LEMMA InitInv == Init => IInv
<1> SUFFICES ASSUME Init PROVE IInv
  OBVIOUS
<1>1. otps = <<>> /\ DOMAIN otps = {} /\ onboarding = <<>> /\ DOMAIN onboarding = {} /\ sending = {}
  BY DEF Init
<1>2. Cardinality({}) = 0
  BY FS_EmptySet
<1>3. TypeOK
  BY <1>1 DEF Init, TypeOK, BucketRow
<1>4. SendingIsPending /\ ActiveIsUnique /\ ConsumedWasValid
  BY <1>1 DEF SendingIsPending, ActiveIsUnique, ActiveAt, ConsumedWasValid
<1>5. TokenPerConsumedOtp
  <2> SUFFICES ASSUME NEW p \in Phones
               PROVE  Cardinality(Tokens(p)) <= Cardinality(Used(p))
    BY DEF TokenPerConsumedOtp, Tokens, Used
  <2>1. Tokens(p) = {} /\ Used(p) = {}
    BY <1>1 DEF Tokens, Used
  <2> QED BY <1>2, <2>1
<1>6. PromptSends
  <2> SUFFICES ASSUME NEW p \in Phones
               PROVE  /\ NextIsSpaced(p) /\ OldRowsAreSpaced(p) /\ ChargedAreSpaced(p)
                      /\ SendingIsRecent(p) /\ WindowIsBounded(p)
    BY DEF PromptSends
  <2>1. Charged(p) = {} /\ InWindow(p) = {}
    BY <1>1 DEF Charged, InWindow
  <2>2. bucket[p].hourlyCount = 0 /\ HourlyLimit \in Nat
    BY OtpAssumption DEF Init
  <2> QED BY <1>2, <2>1, <2>2 DEF NextIsSpaced, OldRowsAreSpaced, ChargedAreSpaced,
                                  SendingIsRecent, WindowIsBounded
<1> QED BY <1>3, <1>4, <1>5, <1>6 DEF IInv

\* The facts about rows that a settlement leaves, whichever the outcome.
LEMMA SettleKeeps ==
    ASSUME IInv, NEW i \in sending, NEW status \in {"SENT", "FAILED"},
           otps' = [otps EXCEPT ![i].status = status], sending' = sending \ {i},
           UNCHANGED <<now, onboarding, dispatchLimit>>, TypeOK'
    PROVE  /\ SendingIsPending' /\ ActiveIsUnique' /\ ConsumedWasValid' /\ TokenPerConsumedOtp'
           /\ RowsKept(DOMAIN otps) /\ DOMAIN otps' = DOMAIN otps
           /\ \A p \in Phones : Charged(p)' \subseteq Charged(p)
           /\ status = "FAILED" => \A p \in Phones : i \notin Charged(p)'
<1>0. i \in DOMAIN otps /\ TypeOK
  BY DEF IInv, TypeOK
<1>1. /\ DOMAIN otps' = DOMAIN otps /\ RowsKept(DOMAIN otps)
      /\ \A k \in DOMAIN otps :
           /\ otps'[k].status = IF k = i THEN status ELSE otps[k].status
           /\ otps'[k].attempts = otps[k].attempts
           /\ otps'[k].consumed = otps[k].consumed
           /\ otps'[k].expiresAt = otps[k].expiresAt
  BY <1>0, SettleRows
<1>2. sending \subseteq DOMAIN otps /\ SendingIsPending /\ ConsumedWasValid /\ now \in Nat
  BY DEF IInv, TypeOK
<1>3. SendingIsPending'
  BY <1>1, <1>2 DEF SendingIsPending
<1>4. ActiveIsUnique'
  <2>1. now' \in Nat /\ now <= now'
    BY <1>2
  <2> QED BY <1>1, <2>1, CalmActive
<1>5. ConsumedWasValid'
  BY <1>1, <1>2 DEF ConsumedWasValid, SendingIsPending
<1>6. TokenPerConsumedOtp'
  BY <1>1, CalmTokens
<1>7. \A p \in Phones : Charged(p)' \subseteq Charged(p)
  BY <1>1, <1>2 DEF Charged, RowsKept
<1>8. status = "FAILED" => \A p \in Phones : i \notin Charged(p)'
  BY <1>0, <1>1 DEF Charged
<1> QED BY <1>1, <1>3, <1>4, <1>5, <1>6, <1>7, <1>8

LEMMA SettleSentInv == ASSUME IInv, NEW i \in sending, SettleSent(i) PROVE IInv'
<1>1. /\ otps' = [otps EXCEPT ![i].status = "SENT"] /\ sending' = sending \ {i}
      /\ UNCHANGED <<now, bucket, onboarding, registered, dispatchLimit>>
  BY DEF SettleSent
<1>2. TypeOK /\ i \in DOMAIN otps
  BY DEF IInv, TypeOK
<1>3. TypeOK'
  <2>1. otps' \in Seq(OtpRow) /\ DOMAIN otps' = DOMAIN otps
    BY <1>1, <1>2, SettleRows
  <2> QED BY <1>1, <1>2, <2>1 DEF TypeOK
<1>4. /\ SendingIsPending' /\ ActiveIsUnique' /\ ConsumedWasValid' /\ TokenPerConsumedOtp'
      /\ RowsKept(DOMAIN otps) /\ DOMAIN otps' = DOMAIN otps
      /\ \A p \in Phones : Charged(p)' \subseteq Charged(p)
  BY <1>1, <1>3, SettleKeeps
<1>5. PromptSends'
  <2>1. now' \in Nat /\ now <= now' /\ sending' \subseteq sending
    BY <1>1, <1>2 DEF TypeOK
  <2>2. dispatchLimit < Cooldown => \A p \in Phones :
          \A k \in Charged(p) \cap sending' : now' < otps[k].requestedAt + Cooldown
    BY <1>1 DEF IInv, PromptSends, SendingIsRecent
  <2> QED BY <1>1, <1>4, <2>1, <2>2, CalmPrompt
<1> QED BY <1>3, <1>4, <1>5 DEF IInv

\* The failed row was the last one charged, so what stays charged is a cooldown old.
LEMMA SettleFailedInv == ASSUME IInv, NEW i \in sending, SettleFailed(i) PROVE IInv'
<1>1. /\ otps' = [otps EXCEPT ![i].status = "FAILED"] /\ sending' = sending \ {i}
      /\ bucket' = [bucket EXCEPT ![otps[i].phone].lastSentAt = 0]
      /\ UNCHANGED <<now, onboarding, registered, dispatchLimit>>
  BY DEF SettleFailed
<1>2. TypeOK /\ i \in DOMAIN otps /\ sending \subseteq DOMAIN otps /\ now \in Nat
  BY DEF IInv, TypeOK
<1>3. PICK q \in Phones : q = otps[i].phone
  BY <1>2, Rows DEF OtpRow
<1>4. /\ bucket' \in [Phones -> BucketRow]
      /\ \A p \in Phones : /\ bucket'[p].windowStart = bucket[p].windowStart
                           /\ bucket'[p].hourlyCount = bucket[p].hourlyCount
                           /\ p # q => bucket'[p].lastSentAt = bucket[p].lastSentAt
                           /\ p = q => bucket'[p].lastSentAt = 0
  <2> DEFINE b == [bucket[q] EXCEPT !.lastSentAt = 0]
  <2>1. bucket \in [Phones -> BucketRow] /\ bucket' = [bucket EXCEPT ![q] = b]
    BY <1>1, <1>2, <1>3 DEF TypeOK
  <2>2. /\ b \in BucketRow /\ b.lastSentAt = 0 /\ b.windowStart = bucket[q].windowStart
        /\ b.hourlyCount = bucket[q].hourlyCount
    BY <1>2, Rows DEF BucketRow
  <2> HIDE DEF b
  <2> QED BY <2>1, <2>2
<1>5. TypeOK'
  <2>1. otps' \in Seq(OtpRow) /\ DOMAIN otps' = DOMAIN otps
    BY <1>1, <1>2, SettleRows
  <2> QED BY <1>1, <1>2, <1>4, <2>1 DEF TypeOK
<1>6. /\ SendingIsPending' /\ ActiveIsUnique' /\ ConsumedWasValid' /\ TokenPerConsumedOtp'
      /\ RowsKept(DOMAIN otps) /\ DOMAIN otps' = DOMAIN otps
      /\ \A p \in Phones : Charged(p)' \subseteq Charged(p) /\ i \notin Charged(p)'
  BY <1>1, <1>5, SettleKeeps
<1>7. PromptSends'
  <2>1. now' \in Nat /\ now <= now' /\ sending' \subseteq sending
    BY <1>1, <1>2
  <2>2. ASSUME dispatchLimit < Cooldown, NEW p \in Phones
        PROVE  \A k \in Charged(p) \cap sending' : now' < otps[k].requestedAt + Cooldown
    BY <1>1, <2>2 DEF IInv, PromptSends, SendingIsRecent
  <2>3. ASSUME dispatchLimit < Cooldown, NEW k \in Charged(q)'
        PROVE  now' >= otps[k].requestedAt + Cooldown
    <3>1. OldRowsAreSpaced(q) /\ SendingIsRecent(q)
      BY <2>3 DEF IInv, PromptSends
    <3>2. k \in Charged(q) /\ k # i /\ i \in Charged(q) \cap sending
      BY <1>2, <1>3, <1>6, <2>3 DEF Charged
    <3>3. /\ i \in Nat /\ k \in Nat /\ k \in DOMAIN otps /\ otps[k].phone = q
          /\ otps[i].requestedAt \in Nat /\ Cooldown \in Nat
      BY <1>2, <3>2, Rows, OtpAssumption DEF Charged, OtpRow
    <3>4. ~ (i < k)
      <4>1. now < otps[i].requestedAt + Cooldown
        BY <3>1, <3>2 DEF SendingIsRecent
      <4>2. i < k => now >= otps[i].requestedAt + Cooldown
        BY <3>1, <3>2, <3>3 DEF OldRowsAreSpaced
      <4> QED BY <1>2, <3>3, <4>1, <4>2
    <3>5. k < i
      BY <3>2, <3>3, <3>4
    <3>6. now >= otps[k].requestedAt + Cooldown
      BY <1>2, <1>3, <3>1, <3>2, <3>5 DEF OldRowsAreSpaced
    <3> QED BY <1>1, <3>6
  <2>4. dispatchLimit < Cooldown => \A p \in Phones :
          \/ bucket'[p].lastSentAt = bucket[p].lastSentAt
          \/ \A k \in Charged(p)' : now' >= otps[k].requestedAt + Cooldown
                                    /\ bucket'[p].lastSentAt = 0
    <3> SUFFICES ASSUME dispatchLimit < Cooldown, NEW p \in Phones
                 PROVE  \/ bucket'[p].lastSentAt = bucket[p].lastSentAt
                        \/ \A k \in Charged(p)' : now' >= otps[k].requestedAt + Cooldown
                                                  /\ bucket'[p].lastSentAt = 0
      OBVIOUS
    <3>1. CASE p # q
      BY <1>4, <3>1
    <3>2. CASE p = q
      <4>1. \A k \in Charged(p)' : now' >= otps[k].requestedAt + Cooldown
        BY <2>3, <3>2
      <4> QED BY <1>4, <3>2, <4>1
    <3> QED BY <3>1, <3>2
  <2> QED BY <1>1, <1>6, <2>1, <2>2, <2>4, CalmPrompt
<1> QED BY <1>5, <1>6, <1>7 DEF IInv

\* A step that leaves the rows, the buckets and the tokens alone: a send is lost, a
\* user registers, time passes within the provider's limit.
LEMMA QuietInv ==
    ASSUME IInv, UNCHANGED <<otps, bucket, onboarding, dispatchLimit>>,
           sending' \subseteq sending, registered' \subseteq Phones, now' \in Nat, now <= now',
           dispatchLimit < Cooldown =>
             \A i \in sending' : now' < otps[i].requestedAt + Cooldown
    PROVE  IInv'
<1>1. TypeOK'
  BY DEF IInv, TypeOK
<1>2. RowsKept(DOMAIN otps) /\ DOMAIN otps' = DOMAIN otps
  BY DEF RowsKept
<1>3. SendingIsPending'
  BY DEF IInv, SendingIsPending
<1>4. ActiveIsUnique'
  BY <1>2, CalmActive
<1>5. ConsumedWasValid'
  BY DEF IInv, ConsumedWasValid
<1>6. TokenPerConsumedOtp'
  BY <1>1, <1>2, CalmTokens
<1>7. PromptSends'
  <2>1. \A p \in Phones : Charged(p)' \subseteq Charged(p)
    BY DEF Charged
  <2> QED BY <1>2, <2>1, CalmPrompt
<1> QED BY <1>1, <1>3, <1>4, <1>5, <1>6, <1>7 DEF IInv

\* A message on its way belongs to a charged row of its phone.
LEMMA SendingIsCharged ==
    ASSUME IInv, NEW i \in sending
    PROVE  /\ i \in DOMAIN otps /\ otps[i].requestedAt \in Nat
           /\ dispatchLimit < Cooldown => now < otps[i].requestedAt + Cooldown
<1>1. i \in DOMAIN otps /\ otps[i] \in OtpRow
  BY Rows DEF IInv, TypeOK
<1>2. PICK q \in Phones : q = otps[i].phone
  BY <1>1 DEF OtpRow
<1>3. i \in Charged(q) \cap sending
  BY <1>1, <1>2 DEF Charged
<1> QED BY <1>1, <1>3 DEF IInv, PromptSends, SendingIsRecent, OtpRow

LEMMA SendLostInv == ASSUME IInv, NEW i \in sending, SendLost(i) PROVE IInv'
<1>1. /\ UNCHANGED <<now, otps, bucket, onboarding, registered, dispatchLimit>>
      /\ sending' \subseteq sending
  BY DEF SendLost
<1>2. now \in Nat /\ registered \subseteq Phones
  BY DEF IInv, TypeOK
<1> QED BY <1>1, <1>2, SendingIsCharged, QuietInv

LEMMA RegisterInv == ASSUME IInv, NEW p \in Phones, Register(p) PROVE IInv'
<1>1. /\ UNCHANGED <<now, otps, bucket, sending, onboarding, dispatchLimit>>
      /\ registered' = registered \cup {p}
  BY DEF Register
<1>2. now \in Nat /\ registered \subseteq Phones
  BY DEF IInv, TypeOK
<1> QED BY <1>1, <1>2, SendingIsCharged, QuietInv

LEMMA TickInv == ASSUME IInv, Tick PROVE IInv'
<1>1. /\ UNCHANGED <<otps, bucket, sending, onboarding, registered, dispatchLimit>>
      /\ now' = now + 1
      /\ \A i \in sending : now < otps[i].requestedAt + dispatchLimit
  BY DEF Tick, tables
<1>2. now \in Nat /\ registered \subseteq Phones /\ dispatchLimit \in Nat /\ Cooldown \in Nat
  BY OtpAssumption DEF IInv, TypeOK
<1>3. ASSUME dispatchLimit < Cooldown, NEW i \in sending'
      PROVE  now' < otps[i].requestedAt + Cooldown
  <2>1. otps[i].requestedAt \in Nat /\ now < otps[i].requestedAt + dispatchLimit
    BY <1>1, <1>3, SendingIsCharged
  <2> QED BY <1>1, <1>2, <1>3, <2>1
<1> QED BY <1>1, <1>2, <1>3, QuietInv

LEMMA StutterInv == ASSUME IInv, UNCHANGED vars PROVE IInv'
<1>1. UNCHANGED <<now, otps, bucket, sending, onboarding, registered, dispatchLimit>>
  BY DEF vars, tables
<1>2. now \in Nat /\ registered \subseteq Phones
  BY DEF IInv, TypeOK
<1> QED BY <1>1, <1>2, SendingIsCharged, QuietInv

\* What both outcomes of a verification leave, but for the tokens.
LEMMA VerifyKeeps ==
    ASSUME IInv, NEW p, NEW code, NEW at, VerifySucceeds(p, code, at) \/ VerifyFails(p, code, at)
    PROVE  /\ otps' \in Seq(OtpRow) /\ DOMAIN otps' = DOMAIN otps /\ RowsKept(DOMAIN otps)
           /\ SendingIsPending' /\ ActiveIsUnique' /\ ConsumedWasValid' /\ PromptSends'
           /\ \A i \in DOMAIN otps : otps[i].consumed => otps'[i].consumed
<1>0. TypeOK
  BY DEF IInv
<1>1. /\ otps' \in Seq(OtpRow) /\ DOMAIN otps' = DOMAIN otps
      /\ \A i \in DOMAIN otps : VerifiedRow(otps[i], otps'[i])
  BY <1>0, VerifyRows
<1>2. UNCHANGED <<now, bucket, sending, registered, dispatchLimit>>
  BY DEF VerifySucceeds, VerifyFails
<1>3. RowsKept(DOMAIN otps) /\ \A i \in DOMAIN otps : otps[i].consumed => otps'[i].consumed
  BY <1>1 DEF RowsKept, VerifiedRow
<1>4. sending \subseteq DOMAIN otps /\ now \in Nat /\ SendingIsPending /\ ConsumedWasValid
  BY <1>0 DEF IInv, TypeOK
<1>5. SendingIsPending'
  BY <1>1, <1>2, <1>4 DEF SendingIsPending, VerifiedRow
<1>6. ActiveIsUnique'
  <2>1. \A i \in DOMAIN otps : otps'[i].expiresAt = otps[i].expiresAt
    BY <1>1 DEF VerifiedRow
  <2>2. now' \in Nat /\ now <= now'
    BY <1>2, <1>4
  <2> QED BY <1>1, <1>3, <2>1, <2>2, CalmActive
<1>7. ConsumedWasValid'
  <2> SUFFICES ASSUME NEW i \in DOMAIN otps, otps'[i].consumed
               PROVE  otps'[i].status = "SENT" /\ otps'[i].attempts < MaxAttempts /\ i \notin sending
    BY <1>1, <1>2 DEF ConsumedWasValid
  <2>1. /\ otps'[i].attempts = otps[i].attempts /\ otps'[i].status = otps[i].status
        /\ otps[i].consumed \/ (otps[i].status = "SENT" /\ otps[i].attempts < MaxAttempts)
    BY <1>1 DEF VerifiedRow
  <2> QED BY <1>4, <2>1 DEF ConsumedWasValid, SendingIsPending
<1>8. PromptSends'
  <2>1. \A q \in Phones : Charged(q)' \subseteq Charged(q)
    BY <1>1, <1>2 DEF Charged, VerifiedRow
  <2>2. now' \in Nat /\ now <= now' /\ sending' \subseteq sending
    BY <1>2, <1>4
  <2>3. dispatchLimit < Cooldown => \A q \in Phones :
          \A i \in Charged(q) \cap sending' : now' < otps[i].requestedAt + Cooldown
    BY <1>2, SendingIsCharged
  <2> QED BY <1>1, <1>2, <1>3, <2>1, <2>2, <2>3, CalmPrompt
<1> QED BY <1>1, <1>3, <1>5, <1>6, <1>7, <1>8

LEMMA VerifyFailsInv ==
    ASSUME IInv, NEW p \in Phones, NEW code \in Codes, NEW at \in Readings, VerifyFails(p, code, at)
    PROVE  IInv'
<1>1. /\ otps' \in Seq(OtpRow) /\ DOMAIN otps' = DOMAIN otps /\ RowsKept(DOMAIN otps)
      /\ SendingIsPending' /\ ActiveIsUnique' /\ ConsumedWasValid' /\ PromptSends'
      /\ \A i \in DOMAIN otps : otps[i].consumed => otps'[i].consumed
  BY VerifyKeeps
<1>2. UNCHANGED <<now, bucket, sending, onboarding, registered, dispatchLimit>>
  BY DEF VerifyFails
<1>3. TypeOK'
  BY <1>1, <1>2 DEF IInv, TypeOK
<1>4. TokenPerConsumedOtp'
  BY <1>1, <1>2, <1>3, CalmTokens
<1> QED BY <1>1, <1>3, <1>4 DEF IInv

\* The one row that is hit pays for the token.
LEMMA VerifySucceedsInv ==
    ASSUME IInv, NEW p \in Phones, NEW code \in Codes, NEW at \in Readings,
           VerifySucceeds(p, code, at)
    PROVE  IInv'
<1>1. /\ otps' \in Seq(OtpRow) /\ DOMAIN otps' = DOMAIN otps /\ RowsKept(DOMAIN otps)
      /\ SendingIsPending' /\ ActiveIsUnique' /\ ConsumedWasValid' /\ PromptSends'
      /\ \A i \in DOMAIN otps : otps[i].consumed => otps'[i].consumed
  BY VerifyKeeps
<1>2. /\ UNCHANGED <<now, bucket, sending, registered, dispatchLimit>>
      /\ otps' = Consume(Hits(p, code, at)) /\ Cardinality(Hits(p, code, at)) = 1
  BY DEF VerifySucceeds
<1> DEFINE token == [phone |-> p, expiresAt |-> at + OnboardingLife]
<1>3. onboarding' = onboarding \/ onboarding' = Append(onboarding, token)
  BY DEF VerifySucceeds
<1>4. TypeOK /\ onboarding \in Seq([phone : Phones, expiresAt : Nat])
  BY DEF IInv, TypeOK
<1>5. CASE onboarding' = onboarding
  <2>1. TypeOK'
    BY <1>1, <1>2, <1>5 DEF IInv, TypeOK
  <2>2. TokenPerConsumedOtp'
    BY <1>1, <1>5, <2>1, CalmTokens
  <2> QED BY <1>1, <2>1, <2>2 DEF IInv
<1>6. CASE onboarding' = Append(onboarding, token)
  <2>1. PICK x : x \in Hits(p, code, at)
    <3>1. Hits(p, code, at) # {}
      BY <1>2, FS_EmptySet
    <3> QED BY <3>1
  <2>2. x \in DOMAIN otps /\ otps[x].phone = p /\ otps[x].purpose = "REGISTRATION" /\ ~otps[x].consumed
    BY <2>1 DEF Hits, ActiveAt
  <2>3. otps'[x].consumed
    BY <1>2, <1>4, <2>1, <2>2, ConsumeRows
  <2>4. token \in [phone : Phones, expiresAt : Nat]
    <3>1. at \in Nat /\ OnboardingLife \in Nat
      BY <1>4, OtpAssumption DEF Readings, TypeOK
    <3> QED BY <3>1
  <2>5. TypeOK'
    BY <1>1, <1>2, <1>4, <1>6, <2>4 DEF TypeOK
  <2>6. ASSUME NEW q \in Phones PROVE Cardinality(Tokens(q)') <= Cardinality(Used(q)')
    <3> DEFINE n == Len(onboarding) + 1
    <3>1. /\ Len(onboarding) \in Nat /\ DOMAIN onboarding' = DOMAIN onboarding \cup {n}
          /\ n \notin DOMAIN onboarding /\ onboarding'[n].phone = p
          /\ \A k \in DOMAIN onboarding : onboarding'[k] = onboarding[k]
      BY <1>4, <1>6, <2>4
    <3> HIDE DEF n
    <3>2. Cardinality(Tokens(q)) <= Cardinality(Used(q))
      BY DEF IInv, TokenPerConsumedOtp, Tokens, Used
    <3>3. /\ IsFiniteSet(Used(q)) /\ Cardinality(Used(q)) \in Nat
          /\ IsFiniteSet(Tokens(q)) /\ Cardinality(Tokens(q)) \in Nat
      BY <1>4, UsedIsFinite
    <3>4. IsFiniteSet(Used(q)')
      <4>1. Used(q)' \in SUBSET DOMAIN otps
        BY <1>1 DEF Used
      <4> QED BY <1>4, <4>1, Rows, FS_Subset
    <3>5. Cardinality(Used(q)') \in Nat
      BY <3>4, FS_CardinalityType
    <3>6. CASE q = p
      <4>1. Tokens(q)' = Tokens(q) \cup {n} /\ n \notin Tokens(q)
        BY <3>1, <3>6 DEF Tokens
      <4>2. Cardinality(Tokens(q)') = Cardinality(Tokens(q)) + 1
        BY <3>3, <4>1, FS_AddElement
      <4>3. Used(q) \cup {x} \in SUBSET (Used(q)') /\ x \notin Used(q)
        BY <1>1, <2>2, <2>3, <3>6 DEF Used, RowsKept
      <4>4. Cardinality(Used(q) \cup {x}) = Cardinality(Used(q)) + 1
        BY <3>3, <4>3, FS_AddElement
      <4>5. Cardinality(Used(q) \cup {x}) <= Cardinality(Used(q)')
        BY <3>4, <4>3, FS_Subset
      <4> QED BY <3>2, <3>3, <3>5, <4>2, <4>4, <4>5
    <3>7. CASE q # p
      <4>1. Tokens(q)' = Tokens(q)
        BY <3>1, <3>7 DEF Tokens
      <4>2. Used(q) \in SUBSET (Used(q)')
        BY <1>1 DEF Used, RowsKept
      <4>3. Cardinality(Used(q)) <= Cardinality(Used(q)')
        BY <3>4, <4>2, FS_Subset
      <4> QED BY <3>2, <3>3, <3>5, <4>1, <4>3
    <3> QED BY <3>6, <3>7
  <2>7. TokenPerConsumedOtp'
    BY <2>6 DEF TokenPerConsumedOtp, Tokens, Used
  <2> QED BY <1>1, <2>5, <2>7 DEF IInv
<1> QED BY <1>3, <1>5, <1>6

\* The clock readings and periods as numbers.
LEMMA Periods ==
    ASSUME TypeOK
    PROVE  /\ now \in Nat /\ Cooldown \in Nat /\ Lag \in Nat /\ Hour \in Nat
           /\ HourlyLimit \in Nat /\ HourlyLimit >= 1 /\ Lag < Cooldown
BY OtpAssumption DEF TypeOK

\* A send that the rate limit admits is a cooldown behind the charged rows of its phone.
LEMMA NewRowIsSpaced ==
    ASSUME IInv, dispatchLimit < Cooldown, NEW p \in Phones, NEW at \in Readings,
           MaySend(bucket[p], at), NEW i \in Charged(p)
    PROVE  /\ i \in DOMAIN otps /\ otps[i].requestedAt \in Nat
           /\ now >= otps[i].requestedAt + Cooldown
           /\ at - otps[i].requestedAt >= Cooldown - Lag
           /\ at > otps[i].requestedAt
<1>1. TypeOK /\ NextIsSpaced(p)
  BY DEF IInv, PromptSends
<1>2. /\ i \in DOMAIN otps /\ otps[i].requestedAt \in Nat /\ bucket[p].lastSentAt \in Nat
      /\ at \in Nat /\ at <= now /\ now - at <= Lag
      /\ now \in Nat /\ Cooldown \in Nat /\ Lag \in Nat /\ Lag < Cooldown
  BY <1>1, Rows, Periods DEF Charged, OtpRow, BucketRow, Readings
<1>3. CASE bucket[p].lastSentAt = 0
  <2>1. now >= otps[i].requestedAt + Cooldown
    BY <1>1, <1>3 DEF NextIsSpaced
  <2> QED BY <1>2, <2>1
<1>4. CASE bucket[p].lastSentAt > 0
  <2>1. at - bucket[p].lastSentAt >= Cooldown
    BY <1>4 DEF MaySend
  <2>2. bucket[p].lastSentAt >= otps[i].requestedAt
    BY <1>1, <1>2, <1>4 DEF NextIsSpaced
  <2> QED BY <1>2, <2>1, <2>2
<1> QED BY <1>2, <1>3, <1>4

\* The window of a phone to which a row is added.
LEMMA WindowGrows ==
    ASSUME IInv, dispatchLimit < Cooldown, NEW p \in Phones, NEW at \in Readings, NEW n,
           n \notin DOMAIN otps, MaySend(bucket[p], at),
           Charged(p)' = Charged(p) \cup {n}, RowsKept(DOMAIN otps),
           bucket'[p] = Charge(bucket[p], at)
    PROVE  WindowIsBounded(p)'
<1>1. TypeOK /\ WindowIsBounded(p) /\ bucket[p] \in BucketRow /\ IsFiniteSet(DOMAIN otps)
  BY Rows DEF IInv, PromptSends
<1>2. at \in Nat /\ HourlyLimit \in Nat /\ HourlyLimit >= 1
  BY <1>1, Periods DEF Readings
<1>3. \A i \in Charged(p) : i \in DOMAIN otps /\ otps'[i].requestedAt = otps[i].requestedAt
  BY DEF Charged, RowsKept
<1>4. CASE bucket[p].lastSentAt = 0 \/ at - bucket[p].windowStart > Hour
  <2>1. bucket'[p].windowStart = at /\ bucket'[p].hourlyCount = 1
    BY <1>4 DEF Charge
  <2>2. InWindow(p)' \in SUBSET {n}
    <3>1. \A i \in Charged(p) : ~ (otps'[i].requestedAt >= at)
      BY <1>2, <1>3, NewRowIsSpaced
    <3> QED BY <2>1, <3>1 DEF InWindow
  <2>3. Cardinality({n}) = 1 /\ IsFiniteSet({n})
    BY FS_Singleton
  <2>4. Cardinality(InWindow(p)') <= Cardinality({n})
    BY <2>2, <2>3, FS_Subset
  <2> QED BY <1>2, <2>1, <2>3, <2>4 DEF WindowIsBounded
<1>5. CASE ~ (bucket[p].lastSentAt = 0 \/ at - bucket[p].windowStart > Hour)
  <2>1. /\ bucket'[p].windowStart = bucket[p].windowStart
        /\ bucket'[p].hourlyCount = bucket[p].hourlyCount + 1
    BY <1>5 DEF Charge
  <2>2. bucket[p].hourlyCount < HourlyLimit
    BY <1>1, <1>5 DEF MaySend, BucketRow
  <2>3. InWindow(p)' \in SUBSET (InWindow(p) \cup {n})
    BY <1>3, <2>1 DEF InWindow
  <2>4. InWindow(p) \in SUBSET DOMAIN otps
    BY <1>3 DEF InWindow
  <2>5. IsFiniteSet(InWindow(p)) /\ n \notin InWindow(p)
    BY <1>1, <2>4, FS_Subset
  <2>6. /\ IsFiniteSet(InWindow(p) \cup {n})
        /\ Cardinality(InWindow(p) \cup {n}) = Cardinality(InWindow(p)) + 1
    BY <2>5, FS_AddElement
  <2>7. /\ Cardinality(InWindow(p)') <= Cardinality(InWindow(p)) + 1
        /\ Cardinality(InWindow(p)') \in Nat /\ Cardinality(InWindow(p)) \in Nat
    BY <2>3, <2>5, <2>6, FS_Subset, FS_CardinalityType
  <2>8. bucket[p].hourlyCount \in Nat
    BY <1>1 DEF BucketRow
  <2> QED BY <1>1, <1>2, <2>1, <2>2, <2>7, <2>8 DEF WindowIsBounded
<1> QED BY <1>4, <1>5

LEMMA SendOtpInv ==
    ASSUME IInv, NEW p \in Phones, NEW purpose \in Purposes, NEW code \in Codes,
           NEW at \in Readings, SendOtp(p, purpose, code, at)
    PROVE  IInv'
<1>0. PICK n : n = NextRow
  OBVIOUS
<1>a. TypeOK
  BY DEF IInv
<1>b. /\ at \in Nat /\ 1 <= at /\ at <= now /\ now - at <= Lag
      /\ RowAdded(p, purpose, at, n)
  BY <1>0, <1>a, SendRows
<1>1. /\ at \in Nat /\ 1 <= at /\ at <= now /\ now - at <= Lag
      /\ n \in Nat /\ n \notin DOMAIN otps /\ \A i \in DOMAIN otps : i < n
      /\ otps' \in Seq(OtpRow) /\ DOMAIN otps' = DOMAIN otps \cup {n}
      /\ otps'[n].phone = p /\ otps'[n].purpose = purpose
      /\ otps'[n].requestedAt = at /\ otps'[n].status = "PENDING" /\ ~otps'[n].consumed
      /\ RowsKept(DOMAIN otps)
      /\ \A i \in DOMAIN otps :
           /\ otps'[i].status = otps[i].status
           /\ otps'[i].attempts = otps[i].attempts
           /\ otps'[i].consumed = otps[i].consumed
           /\ otps'[i].expiresAt = IF i \in ActiveAt(p, purpose, at) THEN at
                                                                     ELSE otps[i].expiresAt
  BY <1>b DEF RowAdded
<1>2. /\ bucket' = [bucket EXCEPT ![p] = Charge(bucket[p], at)] /\ MaySend(bucket[p], at)
      /\ sending' = sending \cup {n}
      /\ UNCHANGED <<now, onboarding, registered, dispatchLimit>>
  BY <1>0 DEF SendOtp, NextRow
<1>3. /\ TypeOK /\ sending \subseteq DOMAIN otps /\ now \in Nat
      /\ \A i \in DOMAIN otps : i \in Nat /\ otps[i] \in OtpRow
  BY Rows DEF IInv, TypeOK
<1>5. TypeOK'
  <2>1. Charge(bucket[p], at) \in BucketRow
    <3>1. bucket[p] \in BucketRow
      BY <1>3, Rows
    <3> QED BY <1>1, <3>1 DEF Charge, BucketRow
  <2>2. bucket' \in [Phones -> BucketRow]
    BY <1>2, <1>3, <2>1 DEF TypeOK
  <2>3. sending' \subseteq DOMAIN otps'
    BY <1>1, <1>2, <1>3
  <2> QED BY <1>1, <1>2, <1>3, <2>2, <2>3 DEF TypeOK
<1>6. SendingIsPending'
  BY <1>1, <1>2, <1>3 DEF IInv, SendingIsPending
<1>7. ActiveIsUnique'
  <2> SUFFICES ASSUME NEW q \in Phones, NEW u \in Purposes,
                      NEW i \in ActiveAt(q, u, now)', NEW j \in ActiveAt(q, u, now)'
               PROVE  i = j
    BY DEF ActiveIsUnique
  \* An old row that is still active was so before, and is not of this phone and purpose.
  <2>1. ASSUME NEW k \in ActiveAt(q, u, now)', k \in DOMAIN otps
        PROVE  k \in ActiveAt(q, u, now) /\ ~ (q = p /\ u = purpose)
    <3>1. /\ otps'[k].phone = q /\ otps'[k].purpose = u /\ ~otps'[k].consumed
          /\ otps'[k].expiresAt > now
      BY <1>2, <2>1 DEF ActiveAt
    <3>2. otps[k].phone = q /\ otps[k].purpose = u /\ ~otps[k].consumed
      BY <1>1, <2>1, <3>1 DEF RowsKept
    <3>3. k \notin ActiveAt(p, purpose, at)
      <4>1. SUFFICES ASSUME k \in ActiveAt(p, purpose, at) PROVE FALSE
        OBVIOUS
      <4>2. otps'[k].expiresAt = at
        BY <1>1, <2>1, <4>1
      <4> QED BY <1>1, <1>3, <3>1, <4>2
    <3>4. otps'[k].expiresAt = otps[k].expiresAt /\ otps[k].expiresAt \in Nat
      BY <1>1, <1>3, <2>1, <3>3 DEF OtpRow
    <3>5. k \in ActiveAt(q, u, now)
      BY <2>1, <3>1, <3>2, <3>4 DEF ActiveAt
    <3>6. otps[k].expiresAt > at
      BY <1>1, <1>3, <3>1, <3>4
    <3>7. ~ (q = p /\ u = purpose)
      BY <2>1, <3>2, <3>3, <3>6 DEF ActiveAt
    <3> QED BY <3>5, <3>7
  <2>2. \A k \in ActiveAt(q, u, now)' : k \notin DOMAIN otps => k = n /\ q = p /\ u = purpose
    BY <1>1 DEF ActiveAt
  <2>3. \A k, l \in ActiveAt(q, u, now) : k = l
    BY DEF IInv, ActiveIsUnique
  <2> QED BY <2>1, <2>2, <2>3
<1>8. ConsumedWasValid'
  BY <1>1, <1>2, <1>3 DEF IInv, ConsumedWasValid
<1>9. TokenPerConsumedOtp'
  <2>1. DOMAIN otps \subseteq DOMAIN otps' /\ \A i \in DOMAIN otps : otps[i].consumed => otps'[i].consumed
    BY <1>1
  <2> QED BY <1>1, <1>2, <1>5, <2>1, CalmTokens
<1>10. PromptSends'
  <2> SUFFICES ASSUME dispatchLimit < Cooldown, NEW q \in Phones
               PROVE  /\ NextIsSpaced(q)' /\ OldRowsAreSpaced(q)' /\ ChargedAreSpaced(q)'
                      /\ SendingIsRecent(q)' /\ WindowIsBounded(q)'
    BY <1>2 DEF PromptSends
  <2>0. /\ NextIsSpaced(q) /\ OldRowsAreSpaced(q) /\ ChargedAreSpaced(q)
        /\ SendingIsRecent(q) /\ WindowIsBounded(q)
    BY DEF IInv, PromptSends
  <2>1. Charged(q)' = IF q = p THEN Charged(q) \cup {n} ELSE Charged(q)
    BY <1>1, <1>2, <1>3 DEF Charged, RowsKept
  <2>2. /\ now' = now /\ \A i \in Charged(q) : i \in DOMAIN otps /\ i \in Nat /\ i < n
    BY <1>1, <1>2, <1>3 DEF Charged
  <2>3. /\ \A i \in Charged(q) : otps'[i].requestedAt = otps[i].requestedAt /\ otps[i].requestedAt \in Nat
        /\ \A i \in DOMAIN otps : otps'[i].phone = otps[i].phone
    BY <1>1, <1>3, <2>2 DEF RowsKept, OtpRow
  <2>4. CASE q # p
    <3>1. Charged(q)' = Charged(q) /\ bucket'[q] = bucket[q]
      BY <1>2, <1>3, <2>1, <2>4 DEF TypeOK
    <3>2. NextIsSpaced(q)'
      BY <2>0, <2>2, <2>3, <3>1 DEF NextIsSpaced
    <3>3. OldRowsAreSpaced(q)'
      <4>1. \A k \in DOMAIN otps' : otps'[k].phone = q => k \in DOMAIN otps /\ otps[k].phone = q
        BY <1>1, <2>3, <2>4
      <4> QED BY <2>0, <2>2, <2>3, <3>1, <4>1 DEF OldRowsAreSpaced
    <3>4. ChargedAreSpaced(q)'
      BY <2>0, <2>3, <3>1 DEF ChargedAreSpaced
    <3>5. SendingIsRecent(q)'
      BY <1>2, <2>0, <2>2, <2>3, <3>1, <1>1 DEF SendingIsRecent
    <3>6. WindowIsBounded(q)'
      <4>1. InWindow(q)' = InWindow(q)
        BY <2>3, <3>1 DEF InWindow
      <4> QED BY <2>0, <3>1, <4>1 DEF WindowIsBounded
    <3> QED BY <3>2, <3>3, <3>4, <3>5, <3>6
  <2>5. CASE q = p
    <3>1. Charged(p)' = Charged(p) \cup {n}
      BY <2>1, <2>5
    <3>2. bucket'[p] = Charge(bucket[p], at)
      BY <1>2, <1>3 DEF TypeOK
    <3>3. \A i \in Charged(p) : /\ now >= otps'[i].requestedAt + Cooldown
                                /\ at - otps'[i].requestedAt >= Cooldown - Lag
                                /\ at > otps'[i].requestedAt
      BY <1>2, <2>3, <2>5, NewRowIsSpaced
    <3>4. NextIsSpaced(p)'
      <4>1. bucket'[p].lastSentAt = at
        BY <3>2 DEF Charge
      <4>2. \A i \in Charged(p)' : at >= otps'[i].requestedAt
        BY <1>1, <2>3, <2>5, <3>1, <3>3
      <4> QED BY <1>1, <4>1, <4>2 DEF NextIsSpaced
    <3>5. OldRowsAreSpaced(p)'
      <4> SUFFICES ASSUME NEW i \in Charged(p)', NEW k \in DOMAIN otps', i < k
                   PROVE  now >= otps'[i].requestedAt + Cooldown
        BY <2>2 DEF OldRowsAreSpaced
      <4>1. i # n
        BY <1>1
      <4> QED BY <3>1, <3>3, <4>1
    <3>6. ChargedAreSpaced(p)'
      <4> SUFFICES ASSUME NEW i \in Charged(p)', NEW j \in Charged(p)', i < j
                   PROVE  otps'[j].requestedAt - otps'[i].requestedAt >= Cooldown - Lag
        BY DEF ChargedAreSpaced
      <4>1. i \in Charged(p)
        <5>1. j \in DOMAIN otps \cup {n}
          BY <2>2, <2>5, <3>1
        <5> QED BY <1>1, <3>1, <5>1
      <4>2. CASE j = n
        BY <1>1, <3>3, <4>1, <4>2
      <4>3. CASE j \in Charged(p)
        BY <2>0, <2>3, <2>5, <4>1, <4>3 DEF ChargedAreSpaced
      <4> QED BY <3>1, <4>2, <4>3
    <3>7. SendingIsRecent(p)'
      <4>1. now < otps'[n].requestedAt + Cooldown
        BY <1>1, <1>3, Periods
      <4>2. \A i \in Charged(p) \cap sending : now < otps'[i].requestedAt + Cooldown
        BY <2>0, <2>3, <2>5 DEF SendingIsRecent
      <4>3. Charged(p)' \cap sending' \subseteq (Charged(p) \cap sending) \cup {n}
        BY <1>2, <3>1
      <4> QED BY <2>2, <4>1, <4>2, <4>3 DEF SendingIsRecent
    <3>8. WindowIsBounded(p)'
      BY <1>1, <1>2, <3>1, <3>2, WindowGrows
    <3> QED BY <2>5, <3>4, <3>5, <3>6, <3>7, <3>8
  <2> QED BY <2>4, <2>5
<1> QED BY <1>5, <1>6, <1>7, <1>8, <1>9, <1>10 DEF IInv

LEMMA NextInv == IInv /\ [Next]_vars => IInv'
<1> SUFFICES ASSUME IInv, [Next]_vars PROVE IInv'
  OBVIOUS
<1>1. ASSUME NEW p \in Phones, NEW purpose \in Purposes, NEW code \in Codes,
             NEW at \in Readings, SendOtp(p, purpose, code, at)
      PROVE  IInv'
  BY <1>1, SendOtpInv
<1>2. ASSUME NEW i \in sending, SettleSent(i) PROVE IInv'
  BY <1>2, SettleSentInv
<1>3. ASSUME NEW i \in sending, SettleFailed(i) PROVE IInv'
  BY <1>3, SettleFailedInv
<1>4. ASSUME NEW i \in sending, SendLost(i) PROVE IInv'
  BY <1>4, SendLostInv
<1>5. ASSUME NEW p \in Phones, NEW code \in Codes, NEW at \in Readings,
             VerifySucceeds(p, code, at)
      PROVE  IInv'
  BY <1>5, VerifySucceedsInv
<1>6. ASSUME NEW p \in Phones, NEW code \in Codes, NEW at \in Readings, VerifyFails(p, code, at)
      PROVE  IInv'
  BY <1>6, VerifyFailsInv
<1>7. ASSUME NEW p \in Phones, Register(p) PROVE IInv'
  BY <1>7, RegisterInv
<1>8. CASE Tick
  BY <1>8, TickInv
<1>9. CASE UNCHANGED vars
  BY <1>9, StutterInv
<1> QED BY <1>1, <1>2, <1>3, <1>4, <1>5, <1>6, <1>7, <1>8, <1>9 DEF Next

LEMMA Invariance == Spec => []IInv
BY InitInv, NextInv, PTL DEF Spec

-----------------------------------------------------------------------------
(* Theorems *)

\* Clock, rows, buckets and tokens keep their types whatever sendOtp, verification and
\* the provider do, and in whichever order.
THEOREM TypeCorrectness == Spec => []TypeOK
<1>1. IInv => TypeOK
  BY DEF IInv
<1> QED BY <1>1, Invariance, PTL

\* sendOtp never leaves two codes of a phone and purpose that a verification could take,
\* however late the provider confirms the older one.
THEOREM OneActive == Spec => []OneActiveOtp
<1>1. IInv => OneActiveOtp
  <2> SUFFICES ASSUME IInv, NEW p \in Phones, NEW purpose \in Purposes
               PROVE  Cardinality(ActiveAt(p, purpose, now)) <= 1
    BY DEF OneActiveOtp
  <2> DEFINE A == ActiveAt(p, purpose, now)
  <2>1. \A i, j \in A : i = j
    BY DEF IInv, ActiveIsUnique
  <2> HIDE DEF A
  <2>2. CASE A = {}
    <3>1. Cardinality(A) = 0
      BY <2>2, FS_EmptySet
    <3> QED BY <3>1 DEF A
  <2>3. CASE A # {}
    <3>1. PICK x \in A : A = {x}
      BY <2>1, <2>3
    <3>2. Cardinality(A) = 1
      BY <3>1, FS_Singleton
    <3> QED BY <3>2 DEF A
  <2> QED BY <2>2, <2>3
<1> QED BY <1>1, Invariance, PTL

\* verifyRegistrationOtp consumes confirmed codes with attempts left, and what happens
\* to the row afterwards does not change that.
THEOREM ConsumedWereValid == Spec => []ConsumedWasValid
<1>1. IInv => ConsumedWasValid
  BY DEF IInv
<1> QED BY <1>1, Invariance, PTL

\* Every onboarding token of a phone is paid for with a REGISTRATION code of its own.
THEOREM TokensAreEarned == Spec => []TokenPerConsumedOtp
<1>1. IInv => TokenPerConsumedOtp
  BY DEF IInv
<1> QED BY <1>1, Invariance, PTL

\* A message that was sent is charged.
LEMMA SentIsCharged == \A p : SentOtps(p) \subseteq Charged(p)
BY DEF SentOtps, Charged

\* If the provider answers within the cooldown, sendOtp keeps the messages of a phone
\* a cooldown apart, up to Lag, failures in between included.
THEOREM SendsAreSpaced == Spec => []CooldownBetweenSent
<1>1. IInv => CooldownBetweenSent
  BY SentIsCharged DEF IInv, PromptSends, ChargedAreSpaced, CooldownBetweenSent
<1> QED BY <1>1, Invariance, PTL

\* With such a provider hourlyCount covers every message of the window and stays within
\* the hourly limit.
THEOREM WindowsAreCounted == Spec => []WindowIsCounted
<1>1. IInv => WindowIsCounted
  <2> SUFFICES ASSUME IInv, dispatchLimit < Cooldown, NEW p \in Phones
               PROVE  /\ Cardinality({i \in SentOtps(p) : otps[i].requestedAt >= bucket[p].windowStart})
                           <= bucket[p].hourlyCount
                      /\ bucket[p].hourlyCount <= HourlyLimit
    BY DEF WindowIsCounted
  <2> DEFINE S == {i \in SentOtps(p) : otps[i].requestedAt >= bucket[p].windowStart}
  <2>1. TypeOK /\ WindowIsBounded(p)
    BY DEF IInv, PromptSends
  <2>2. S \in SUBSET InWindow(p) /\ InWindow(p) \in SUBSET DOMAIN otps
    BY SentIsCharged DEF InWindow, Charged
  <2> HIDE DEF S
  <2>3. IsFiniteSet(InWindow(p))
    BY <2>1, <2>2, Rows, FS_Subset
  <2>4. /\ Cardinality(S) <= Cardinality(InWindow(p))
        /\ Cardinality(S) \in Nat /\ Cardinality(InWindow(p)) \in Nat
    BY <2>2, <2>3, FS_Subset, FS_CardinalityType
  <2>5. bucket[p].hourlyCount \in Nat
    BY <2>1, Rows DEF BucketRow
  <2>6. Cardinality(S) <= bucket[p].hourlyCount /\ bucket[p].hourlyCount <= HourlyLimit
    BY <2>1, <2>4, <2>5 DEF WindowIsBounded
  <2> QED BY <2>6 DEF S
<1> QED BY <1>1, Invariance, PTL

\* A code that no longer counts.
Dead(row, time) == row.consumed \/ row.status = "FAILED" \/ row.expiresAt <= time

\* What a step does to a row that is kept, as far as Dead is concerned: a row that failed
\* is not on its way, so no settlement can undo that.
RowDecays(i) ==
    /\ otps[i].consumed => otps'[i].consumed
    /\ otps[i].status = "FAILED" => otps'[i].status = "FAILED"
    /\ otps'[i].expiresAt \in Nat /\ otps'[i].expiresAt <= otps[i].expiresAt

LEMMA StepDecays ==
    ASSUME IInv, [Next]_vars, NEW i \in DOMAIN otps
    PROVE  RowDecays(i) /\ now <= now' /\ now' \in Nat
<1>0. TypeOK /\ now \in Nat /\ otps[i] \in OtpRow /\ otps[i].expiresAt \in Nat
  BY Rows DEF IInv, TypeOK, OtpRow
<1>1. ASSUME NEW p \in Phones, NEW purpose \in Purposes, NEW code \in Codes,
             NEW at \in Readings, SendOtp(p, purpose, code, at)
      PROVE  RowDecays(i) /\ now' = now
  <2>1. /\ at \in Nat /\ otps'[i].status = otps[i].status /\ otps'[i].consumed = otps[i].consumed
        /\ otps'[i].expiresAt = IF i \in ActiveAt(p, purpose, at) THEN at ELSE otps[i].expiresAt
    BY <1>0, <1>1, SendRows DEF RowAdded
  <2>2. i \in ActiveAt(p, purpose, at) => otps[i].expiresAt > at
    BY DEF ActiveAt
  <2>3. now' = now
    BY <1>1 DEF SendOtp
  <2> QED BY <1>0, <2>1, <2>2, <2>3 DEF RowDecays
<1>2. ASSUME NEW k \in sending, SettleSent(k) \/ SettleFailed(k)
      PROVE  RowDecays(i) /\ now' = now
  <2>1. PICK status \in {"SENT", "FAILED"} : otps' = [otps EXCEPT ![k].status = status]
    BY <1>2 DEF SettleSent, SettleFailed
  <2>2. k \in DOMAIN otps /\ otps[k].status = "PENDING"
    BY DEF IInv, TypeOK, SendingIsPending
  <2>3. /\ otps'[i].status = IF i = k THEN status ELSE otps[i].status
        /\ otps'[i].consumed = otps[i].consumed /\ otps'[i].expiresAt = otps[i].expiresAt
    BY <1>0, <2>1, <2>2, SettleRows
  <2>4. now' = now
    BY <1>2 DEF SettleSent, SettleFailed
  <2> QED BY <1>0, <2>2, <2>3, <2>4 DEF RowDecays
<1>3. ASSUME NEW p \in Phones, NEW code \in Codes, NEW at \in Readings,
             VerifySucceeds(p, code, at) \/ VerifyFails(p, code, at)
      PROVE  RowDecays(i) /\ now' = now
  <2>1. VerifiedRow(otps[i], otps'[i])
    BY <1>0, <1>3, VerifyRows
  <2>2. now' = now
    BY <1>3 DEF VerifySucceeds, VerifyFails
  <2> QED BY <1>0, <2>1, <2>2 DEF RowDecays, VerifiedRow
<1>4. ASSUME otps' = otps PROVE RowDecays(i)
  BY <1>0, <1>4 DEF RowDecays
<1>5. ASSUME \/ \E k \in sending : SendLost(k)
             \/ \E p \in Phones : Register(p)
             \/ UNCHANGED vars
      PROVE  otps' = otps /\ now' = now
  BY <1>5 DEF SendLost, Register, vars, tables
<1>6. ASSUME Tick PROVE otps' = otps /\ now' = now + 1
  BY <1>6 DEF Tick, tables
<1> QED BY <1>0, <1>1, <1>2, <1>3, <1>4, <1>5, <1>6 DEF Next

\* Nothing revives a code: not a settlement that comes late, nor a verification that
\* read the clock earlier, nor the expiry written by a newer send.
THEOREM DeadCodesStayDead == Spec => DeadOtpStaysDead
<1>1. IInv /\ [Next]_vars => [\A i \in DOMAIN otps : Dead(otps[i], now) => Dead(otps'[i], now')]_vars
  <2> SUFFICES ASSUME IInv, [Next]_vars, NEW i \in DOMAIN otps, Dead(otps[i], now)
               PROVE  Dead(otps'[i], now')
    OBVIOUS
  <2>1. RowDecays(i) /\ now <= now' /\ now' \in Nat
    BY StepDecays
  <2>2. now \in Nat /\ otps[i].expiresAt \in Nat
    BY Rows DEF IInv, TypeOK, OtpRow
  <2> QED BY <2>1, <2>2 DEF RowDecays, Dead
<1>2. DeadOtpStaysDead <=> [][\A i \in DOMAIN otps : Dead(otps[i], now) => Dead(otps'[i], now')]_vars
  BY DEF DeadOtpStaysDead, Dead
<1> QED BY <1>1, <1>2, Invariance, PTL DEF Spec

=============================================================================
