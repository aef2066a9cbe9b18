-------------------------- MODULE CequensSmsProofs --------------------------
(* Theorems about CequensSms for any sends, tokens, times and bounds. *)
EXTENDS CequensSms, TLAPS

-----------------------------------------------------------------------------
(* The inductive invariant *)

\* What a send awaits agrees with what became of its latest request, and a
\* message is delivered at most once.
MessagesInOrder ==
    \A s \in Sends :
        /\ send[s].pc = "idle" => message[s] = "none"
        /\ send[s].pc \in {"signing", "signed"} => message[s] \in {"none", "unauthorized"}
        /\ send[s].pc = "posting" => message[s] # "none"
        /\ send[s].pc = "confirming" => message[s] \in {"taken", "declined"}
        /\ send[s].pc = "sent" => message[s] = "taken"
        /\ delivered[s] = IF message[s] = "taken" THEN 1 ELSE 0

\* A token signed for but not yet read is known to its send alone.
TokensInOrder ==
    /\ cachedToken # None => cachedToken \in DOMAIN issued
    /\ refused \subseteq DOMAIN issued
    /\ \A s \in Sends :
         /\ send[s].token # None => send[s].token \in DOMAIN issued
         /\ send[s].pc \in {"signed", "posting"} => send[s].token # None
         /\ message[s] = "request" => send[s].token # None
         /\ send[s].pc = "signed" =>
              /\ send[s].token \notin refused
              /\ send[s].token # cachedToken
              /\ \A r \in Sends \ {s} : send[r].token # send[s].token

\* The abort timer bounds how long ago a message still waited for was posted, and
\* a token from the cache was good for longer than that.
PostsInTime ==
    \A s \in Sends : send[s].pc = "posting" =>
        /\ now <= send[s].since + Timeout
        /\ send[s].cached /\ jwt => send[s].since + Margin < issued[send[s].token]

IInv == /\ TypeOK
        /\ CacheIsSound
        /\ ExpiryIsForeseen
        /\ MessagesInOrder
        /\ TokensInOrder
        /\ PostsInTime

-----------------------------------------------------------------------------
(* The invariant is inductive: one lemma per action *)

\* Nothing is sent, cached or issued at first.
LEMMA InitInv == Init => IInv
<1> SUFFICES ASSUME Init PROVE IInv
    OBVIOUS
<1>1. TypeOK
    BY CequensAssumption DEF Init, TypeOK, SendState
<1> QED
    BY <1>1 DEF Init, IInv, CacheIsSound, ExpiryIsForeseen, MessagesInOrder,
                TokensInOrder, PostsInTime

\* What the type invariant says of the values that arithmetic is done with.
LEMMA TypeFacts ==
    ASSUME TypeOK
    PROVE  /\ now \in Nat
           /\ DOMAIN issued = 1..Len(issued)
           /\ Len(issued) \in Nat
           /\ \A t \in DOMAIN issued : issued[t] \in Nat
           /\ \A s \in Sends : send[s].since \in Nat
           /\ {Timeout, Margin, TokenLife, MaxTokens} \subseteq Nat
           /\ Timeout <= Margin
           /\ None \notin DOMAIN issued
BY CequensAssumption DEF TypeOK, SendState

\* A send is well formed after it goes on.
LEMMA GoesTyped ==
    ASSUME TypeOK, NEW s \in Sends, NEW pc, Goes(s, pc),
           pc \in {"idle", "signing", "signed", "posting", "confirming", "sent", "failed"}
    PROVE  send' \in [Sends -> SendState]
<1>1. send[s] \in SendState
    BY DEF TypeOK
<1>2. [send[s] EXCEPT !.pc = pc, !.since = 0] \in SendState
    BY <1>1 DEF SendState
<1> QED BY <1>2 DEF Goes, TypeOK

\* A send is well formed after it signs in.
LEMMA SignInTyped ==
    ASSUME TypeOK, NEW s \in Sends, NEW isRetry \in BOOLEAN, SignIn(s, isRetry)
    PROVE  send' \in [Sends -> SendState]
<1>1. send[s] \in SendState
    BY DEF TypeOK
<1>2. [send[s] EXCEPT !.pc = "signing", !.isRetry = isRetry, !.since = now] \in SendState
    BY <1>1 DEF SendState, TypeOK
<1> QED BY <1>2 DEF SignIn, TypeOK

\* A send is well formed after it posts its message.
LEMMA PostTyped ==
    ASSUME TypeOK, NEW s \in Sends, NEW token \in Tokens, NEW cached \in BOOLEAN,
           Post(s, token, cached)
    PROVE  send' \in [Sends -> SendState]
<1>1. send[s] \in SendState
    BY DEF TypeOK
<1>2. [send[s] EXCEPT !.pc = "posting", !.token = token,
                      !.cached = cached, !.since = now] \in SendState
    BY <1>1 DEF SendState, TypeOK
<1> QED BY <1>2 DEF Post, TypeOK

\* The first step of a send takes the cached token or clears the cache to sign in.
LEMMA SendOtpInv ==
    ASSUME IInv, NEW s \in Sends, SendOtp(s) PROVE IInv'
<1> USE CequensAssumption DEF IInv, SendOtp, cache, gateway
<1>2. CASE /\ CacheUsable /\ Post(s, cachedToken, TRUE)
           /\ UNCHANGED <<cache, jwt, issued, revoked, delivered>>
    <2>1. CacheIsSound'
        BY <1>2 DEF CacheIsSound, Expiry
    <2>2. MessagesInOrder'
        BY <1>2 DEF TypeOK, SendState, MessagesInOrder, Post
    <2>3. TokensInOrder'
        BY <1>2 DEF TypeOK, SendState, TokensInOrder, Post, CacheUsable
    <2>4. PostsInTime'
        BY <1>2 DEF TypeOK, SendState, PostsInTime, Post, CacheUsable, CacheIsSound, Expiry, TokensInOrder
    <2>5. ExpiryIsForeseen'
        BY <1>2 DEF TypeOK, SendState, ExpiryIsForeseen, Post
    <2>6. TypeOK'
        <3>1. cachedToken \in Tokens
            BY <1>2 DEF CacheUsable, TypeOK
        <3>2. send' \in [Sends -> SendState]
            BY <1>2, <3>1, PostTyped
        <3>3. message' \in [Sends -> {"none", "request", "taken", "declined", "unauthorized"}]
            BY <1>2 DEF TypeOK, Post
        <3> QED BY <1>2, <3>2, <3>3 DEF TypeOK
    <2> QED BY <2>1, <2>2, <2>3, <2>4, <2>5, <2>6
<1>3. CASE SignIn(s, FALSE) /\ UNCHANGED <<refused, gateway>>
    <2>1. CacheIsSound'
        BY <1>3 DEF CacheIsSound, SignIn, SetCache
    <2>2. MessagesInOrder'
        BY <1>3 DEF TypeOK, SendState, MessagesInOrder, SignIn
    <2>3. TokensInOrder'
        BY <1>3 DEF TypeOK, SendState, TokensInOrder, SignIn, SetCache
    <2>4. PostsInTime'
        BY <1>3 DEF TypeOK, SendState, PostsInTime, SignIn
    <2>5. ExpiryIsForeseen'
        BY <1>3 DEF TypeOK, SendState, ExpiryIsForeseen, SignIn
    <2>6. TypeOK'
        <3>1. send' \in [Sends -> SendState]
            BY <1>3, SignInTyped
        <3> QED BY <1>3, <3>1 DEF TypeOK, SignIn, SetCache
    <2> QED BY <2>1, <2>2, <2>3, <2>4, <2>5, <2>6
<1> QED BY <1>2, <1>3

\* The gateway numbers a new token, which nobody else holds.
LEMMA SignInAnsweredInv ==
    ASSUME IInv, NEW s \in Sends, SignInAnswered(s) PROVE IInv'
<1> USE DEF IInv, SignInAnswered, cache
<1>1. /\ issued' \in Seq(Nat)
      /\ DOMAIN issued' = 1..(Len(issued) + 1)
      /\ Len(issued') = Len(issued) + 1
      /\ \A t \in DOMAIN issued : issued'[t] = issued[t]
    BY TypeFacts DEF TypeOK
<1>2. send' \in [Sends -> SendState]
    <2>1. send[s] \in SendState
        BY DEF TypeOK
    <2>2. Len(issued) + 1 \in Tokens
        BY TypeFacts DEF Tokens
    <2>3. [send[s] EXCEPT !.pc = "signed", !.token = Len(issued) + 1, !.since = 0] \in SendState
        BY <2>1, <2>2 DEF SendState
    <2> QED BY <2>3 DEF TypeOK
<1>3. TypeOK'
    <2>1. DOMAIN issued \subseteq DOMAIN issued' /\ Len(issued') <= MaxTokens
        BY TypeFacts, <1>1
    <2> QED BY <1>1, <1>2, <2>1 DEF TypeOK
<1>4. /\ send'[s].token = Len(issued) + 1
      /\ send'[s].pc = "signed"
      /\ \A r \in Sends \ {s} : send'[r] = send[r]
    BY DEF TypeOK, SendState
<1>5. Len(issued) + 1 \notin DOMAIN issued
    BY TypeFacts
<1>6. CacheIsSound'
    BY TypeFacts, <1>1 DEF CacheIsSound, Expiry, TokensInOrder
<1>7. ExpiryIsForeseen'
    BY DEF ExpiryIsForeseen, TypeOK, SendState
<1>8. MessagesInOrder'
    BY DEF MessagesInOrder, TypeOK, SendState
<1>9. TokensInOrder'
    <2>1. \A r \in Sends \ {s} : send[r].token # Len(issued) + 1
        BY TypeFacts, <1>5, CequensAssumption DEF TokensInOrder
    <2>2. Len(issued) + 1 # None /\ Len(issued) + 1 # cachedToken
        BY TypeFacts, <1>5, CequensAssumption DEF TokensInOrder
    <2>3. DOMAIN issued \subseteq DOMAIN issued' /\ Len(issued) + 1 \in DOMAIN issued'
        BY TypeFacts, <1>1
    <2>4. TokensInOrder /\ UNCHANGED <<message, cachedToken, refused>>
        OBVIOUS
    <2> HIDE DEF IInv, SignInAnswered, cache
    <2>5. /\ cachedToken' # None => cachedToken' \in DOMAIN issued'
          /\ refused' \subseteq DOMAIN issued'
        BY <2>3, <2>4 DEF TokensInOrder
    <2>6. ASSUME NEW r \in Sends
          PROVE  /\ send'[r].token # None => send'[r].token \in DOMAIN issued'
                 /\ send'[r].pc \in {"signed", "posting"} => send'[r].token # None
                 /\ message'[r] = "request" => send'[r].token # None
        <3>1. CASE r = s
            BY <1>4, <2>2, <2>3, <3>1
        <3>2. CASE r # s
            <4>1. send'[r] = send[r] /\ message'[r] = message[r]
                BY <1>4, <2>4, <3>2
            <4> QED BY <2>3, <2>4, <4>1 DEF TokensInOrder
        <3> QED BY <3>1, <3>2
    <2>7. ASSUME NEW r \in Sends, send'[r].pc = "signed"
          PROVE  /\ send'[r].token \notin refused'
                 /\ send'[r].token # cachedToken'
                 /\ \A q \in Sends \ {r} : send'[q].token # send'[r].token
        <3>1. CASE r = s
            <4>1. Len(issued) + 1 \notin refused'
                BY <1>5, <2>4 DEF TokensInOrder
            <4>2. \A q \in Sends \ {s} : send'[q].token # Len(issued) + 1
                BY <1>4, <2>1
            <4> QED BY <1>4, <2>2, <2>4, <3>1, <4>1, <4>2
        <3>2. CASE r # s
            <4>1. send'[r] = send[r]
                BY <1>4, <3>2
            <4>2. /\ send[r].token \notin refused
                  /\ send[r].token # cachedToken
                  /\ \A q \in Sends \ {r} : send[q].token # send[r].token
                BY <2>4, <2>7, <4>1 DEF TokensInOrder
            <4>3. \A q \in Sends \ {r} : send'[q].token # send[r].token
                BY <1>4, <2>1, <3>2, <4>2
            <4> QED BY <2>4, <4>1, <4>2, <4>3
        <3> QED BY <3>1, <3>2
    <2> QED BY <2>5, <2>6, <2>7 DEF TokensInOrder
<1>10. PostsInTime'
    <2>1. ASSUME NEW r \in Sends, send'[r].pc = "posting"
          PROVE  send'[r] = send[r] /\ send[r].token \in DOMAIN issued
        BY <1>4, <2>1 DEF TokensInOrder
    <2> QED BY <1>1, <2>1 DEF PostsInTime
<1> QED BY <1>3, <1>6, <1>7, <1>8, <1>9, <1>10

\* The token read is cached: no send was ever told that it is rejected.
LEMMA SignInReadInv ==
    ASSUME IInv, NEW s \in Sends, SignInRead(s) PROVE IInv'
<1> DEFINE t == send[s].token
<1> USE DEF IInv, SignInRead, SetCache, Post
<1>1. t \in DOMAIN issued /\ t \notin refused /\ t \in Tokens
    BY DEF TokensInOrder, TypeOK, SendState
<1>2. send' \in [Sends -> SendState]
    BY <1>1, PostTyped
<1>3. TypeOK'
    BY TypeFacts, <1>1, <1>2 DEF TypeOK, Expiry
<1>4. CacheIsSound'
    BY <1>1, TypeFacts DEF CacheIsSound, Expiry
<1>5. ExpiryIsForeseen'
    BY DEF ExpiryIsForeseen, TypeOK, SendState
<1>6. MessagesInOrder'
    BY DEF MessagesInOrder, TypeOK, SendState
<1>7. TokensInOrder'
    BY TypeFacts, <1>1 DEF TokensInOrder, TypeOK, SendState
<1>8. PostsInTime'
    BY TypeFacts DEF PostsInTime, TypeOK, SendState
<1> QED BY <1>3, <1>4, <1>5, <1>6, <1>7, <1>8

\* A send that only moves on, or is over, and holds no request of its own any more.
LEMMA GoesInv ==
    ASSUME IInv, NEW s \in Sends, NEW pc \in {"confirming", "sent", "failed"},
           pc = "confirming" => message[s] \in {"taken", "declined"},
           pc = "sent" => message[s] = "taken",
           Goes(s, pc), UNCHANGED <<now, cache, gateway>>
    PROVE  IInv'
<1> USE DEF IInv, Goes, cache, gateway
<1>1. send' \in [Sends -> SendState]
    BY GoesTyped
<1>2. TypeOK'
    BY <1>1 DEF TypeOK
<1>3. CacheIsSound'
    BY DEF CacheIsSound, Expiry
<1>4. ExpiryIsForeseen'
    BY DEF ExpiryIsForeseen, TypeOK, SendState
<1>5. MessagesInOrder'
    BY DEF MessagesInOrder, TypeOK, SendState
<1>6. TokensInOrder'
    BY DEF TokensInOrder, TypeOK, SendState
<1>7. PostsInTime'
    BY DEF PostsInTime, TypeOK, SendState
<1> QED BY <1>2, <1>3, <1>4, <1>5, <1>6, <1>7

\* A rejected token leaves the cache, and no send is about to cache it again.
LEMMA UnauthorizedInv ==
    ASSUME IInv, NEW s \in Sends, Unauthorized(s) PROVE IInv'
<1> USE DEF IInv, Unauthorized, Goes, SignIn, SetCache, gateway
<1>1. send[s].token \in DOMAIN issued
    BY DEF TokensInOrder
<1>2. cachedToken' = None /\ tokenExpiry' = None
    OBVIOUS
<1>3. send' \in [Sends -> SendState]
    BY GoesTyped, SignInTyped
<1>4. \A r \in Sends : /\ send'[r].token = send[r].token
                       /\ r # s => send'[r] = send[r]
    BY DEF TypeOK, SendState
<1>5. send'[s].pc \in {"failed", "signing"}
    BY DEF TypeOK, SendState
<1>6. TypeOK'
    <2>1. cachedToken' \in Tokens \cup {None} /\ tokenExpiry' \in Nat \cup {None}
        BY <1>2
    <2>2. refused' \subseteq DOMAIN issued
        BY <1>1 DEF TypeOK
    <2> QED BY <1>3, <2>1, <2>2 DEF TypeOK
<1>7. CacheIsSound'
    BY <1>2 DEF CacheIsSound
<1>8. ExpiryIsForeseen'
    BY <1>4, <1>5 DEF ExpiryIsForeseen
<1>9. MessagesInOrder'
    BY <1>4, <1>5 DEF MessagesInOrder
<1>10. TokensInOrder'
    <2>1. TokensInOrder /\ UNCHANGED <<issued, message>> /\ refused' = refused \cup {send[s].token}
        OBVIOUS
    <2> HIDE DEF IInv, Unauthorized, Goes, SignIn, SetCache, gateway
    <2>2. refused' \subseteq DOMAIN issued'
        BY <1>1, <2>1 DEF TokensInOrder
    <2>3. ASSUME NEW r \in Sends
          PROVE  /\ send'[r].token # None => send'[r].token \in DOMAIN issued'
                 /\ send'[r].pc \in {"signed", "posting"} => send'[r].token # None
                 /\ message'[r] = "request" => send'[r].token # None
        <3>1. /\ send'[r].token = send[r].token
              /\ send'[r].pc \in {"signed", "posting"} => send[r].pc \in {"signed", "posting"}
            BY <1>4, <1>5
        <3> QED BY <2>1, <3>1 DEF TokensInOrder
    <2>4. ASSUME NEW r \in Sends, send'[r].pc = "signed"
          PROVE  /\ send'[r].token \notin refused'
                 /\ send'[r].token # cachedToken'
                 /\ \A q \in Sends \ {r} : send'[q].token # send'[r].token
        <3>1. r # s /\ send[r].pc = "signed" /\ send'[r].token = send[r].token
            BY <1>4, <1>5, <2>4
        <3>2. /\ send[r].token \notin refused
              /\ send[r].token # None
              /\ \A q \in Sends \ {r} : send[q].token # send[r].token
            BY <2>1, <3>1 DEF TokensInOrder
        <3>3. send[s].token # send[r].token
            BY <3>1, <3>2
        <3>4. \A q \in Sends \ {r} : send'[q].token # send'[r].token
            BY <1>4, <3>1, <3>2
        <3> QED BY <1>2, <2>1, <3>1, <3>2, <3>3, <3>4
    <2>5. cachedToken' = None
        BY <1>2
    <2> QED BY <2>2, <2>3, <2>4, <2>5 DEF TokensInOrder
<1>11. PostsInTime'
    BY <1>4, <1>5 DEF PostsInTime
<1> QED BY <1>6, <1>7, <1>8, <1>9, <1>10, <1>11

\* The gateway takes or declines a request, whose send may have given up on it.
LEMMA AcceptedInv ==
    ASSUME IInv, NEW s \in Sends, GatewayTakes(s) \/ GatewayDeclines(s) PROVE IInv'
<1> USE DEF IInv, GatewayTakes, GatewayDeclines, Handle, cache
<1>1. TypeOK'
    <2>1. message' \in [Sends -> {"none", "request", "taken", "declined", "unauthorized"}]
        BY DEF TypeOK
    <2>2. delivered' \in [Sends -> Nat]
        BY DEF TypeOK
    <2>3. UNCHANGED <<now, send, cachedToken, tokenExpiry, jwt, issued, revoked, refused>>
        OBVIOUS
    <2> QED BY <2>1, <2>2, <2>3 DEF TypeOK
<1>2. CacheIsSound'
    BY DEF CacheIsSound, Expiry
<1>3. ExpiryIsForeseen'
    BY DEF ExpiryIsForeseen, TypeOK
<1>4. MessagesInOrder'
    BY DEF MessagesInOrder, TypeOK
<1>5. TokensInOrder'
    BY DEF TokensInOrder, TypeOK
<1>6. PostsInTime'
    BY DEF PostsInTime
<1> QED BY <1>1, <1>2, <1>3, <1>4, <1>5, <1>6

\* A token the gateway rejects while a send waits has been revoked if the send took
\* it from the cache and its expiry was known: it cannot have expired yet.
LEMMA GatewayRejectsInv ==
    ASSUME IInv, NEW s \in Sends, GatewayRejects(s) PROVE IInv'
<1> DEFINE t == send[s].token
<1> USE DEF IInv, GatewayRejects, Handle, cache
<1>1. t \in DOMAIN issued
    BY DEF TokensInOrder
<1>2. revoked \subseteq revoked' /\ revoked' \subseteq revoked \cup {t}
    OBVIOUS
<1>3. TypeOK'
    BY <1>1, <1>2 DEF TypeOK
<1>4. CacheIsSound'
    BY DEF CacheIsSound, Expiry
<1>5. ASSUME send[s].pc = "posting", send[s].cached, jwt PROVE t \in revoked'
    <2>1. now < issued[t]
        BY TypeFacts, <1>1, <1>5 DEF PostsInTime
    <2> QED BY <2>1 DEF Accepts
<1>6. ExpiryIsForeseen'
    BY <1>2, <1>5 DEF ExpiryIsForeseen, TypeOK
<1>7. MessagesInOrder'
    BY DEF MessagesInOrder, TypeOK
<1>8. TokensInOrder'
    BY DEF TokensInOrder, TypeOK
<1>9. PostsInTime'
    BY DEF PostsInTime
<1> QED BY <1>3, <1>4, <1>6, <1>7, <1>8, <1>9

\* Time passes only as far as the abort timer of every fetch allows.
LEMMA TickInv == ASSUME IInv, Tick PROVE IInv'
<1> USE DEF IInv, Tick, cache, gateway
<1>1. TypeOK'
    BY DEF TypeOK
<1>2. CacheIsSound'
    BY DEF CacheIsSound, Expiry
<1>3. ExpiryIsForeseen' /\ MessagesInOrder' /\ TokensInOrder'
    BY DEF ExpiryIsForeseen, MessagesInOrder, TokensInOrder
<1>4. PostsInTime'
    BY TypeFacts DEF PostsInTime
<1> QED BY <1>1, <1>2, <1>3, <1>4

\* Every step preserves the invariant.
LEMMA NextInv == IInv /\ [Next]_vars => IInv'
<1> SUFFICES ASSUME IInv, [Next]_vars PROVE IInv'
    OBVIOUS
<1>1. CASE Tick
    BY <1>1, TickInv
<1>2. ASSUME NEW s \in Sends, SendStep(s) PROVE IInv'
    <2>1. CASE SendOtp(s)           BY <2>1, SendOtpInv
    <2>2. CASE SignInAnswered(s)    BY <2>2, SignInAnsweredInv
    <2>3. CASE SignInRead(s)        BY <2>3, SignInReadInv
    <2>4. CASE Answered(s)          BY <2>4, GoesInv DEF Answered
    <2>5. CASE Unauthorized(s)      BY <2>5, UnauthorizedInv
    <2>6. CASE FetchFails(s)        BY <2>6, GoesInv DEF FetchFails
    <2>7. CASE BodyRead(s)          BY <2>7, GoesInv DEF BodyRead
    <2>8. CASE GatewayTakes(s) \/ GatewayDeclines(s)
        BY <2>8, AcceptedInv
    <2>9. CASE GatewayRejects(s)    BY <2>9, GatewayRejectsInv
    <2> QED BY <1>2, <2>1, <2>2, <2>3, <2>4, <2>5, <2>6, <2>7, <2>8, <2>9 DEF SendStep
<1>3. CASE UNCHANGED vars
    BY <1>3 DEF IInv, vars, cache, gateway, TypeOK, CacheIsSound, Expiry, ExpiryIsForeseen,
                MessagesInOrder, TokensInOrder, PostsInTime
<1> QED BY <1>1, <1>2, <1>3 DEF Next

-----------------------------------------------------------------------------
(* Theorems *)

\* The invariant holds in every reachable state.
LEMMA Invariance == Spec => []IInv
BY InitInv, NextInv, PTL DEF Spec

\* The type invariant of the provider.
THEOREM TypeCorrectness == Spec => []TypeOK
<1>1. IInv => TypeOK
    BY DEF IInv
<1> QED BY <1>1, Invariance, PTL

\* However the sends that share the cache interleave, it never holds a token that
\* one of them was told is rejected, nor the expiry of another token.
THEOREM CacheSoundness == Spec => []CacheIsSound
<1>1. IInv => CacheIsSound
    BY DEF IInv
<1> QED BY <1>1, Invariance, PTL

\* A cached token of known expiry is rejected only if the gateway revoked it, for
\* every margin at least as long as the abort timer.
THEOREM ExpiryForesight == Spec => []ExpiryIsForeseen
<1>1. IInv => ExpiryIsForeseen
    BY DEF IInv
<1> QED BY <1>1, Invariance, PTL

-----------------------------------------------------------------------------
(* The provider implements SmsDelivery *)

\* Every step of a send is a step of the promise, or invisible to its caller.
LEMMA SendRefines ==
    ASSUME IInv, NEW s \in Sends, SendStep(s)
    PROVE  [Delivery!Next]_Delivery!vars
<1> USE DEF IInv
<1>1. CASE SendOtp(s)
    <2>1. /\ send[s].pc = "idle"
          /\ send'[s].pc \in {"posting", "signing"}
          /\ \A r \in Sends \ {s} : send'[r] = send[r]
          /\ delivered' = delivered
        BY <1>1 DEF SendOtp, Post, SignIn, TypeOK, SendState, gateway
    <2>2. Status[s] = "idle" /\ Status' = [Status EXCEPT ![s] = "pending"]
        BY <2>1 DEF Status
    <2>3. Delivery!Request(s)
        BY <2>1, <2>2 DEF Delivery!Request
    <2> QED BY <2>3 DEF Delivery!Next
<1>2. CASE SignInAnswered(s) \/ SignInRead(s) \/ Answered(s)
    <2>1. /\ send[s].pc \in {"signing", "signed", "posting"}
          /\ send'[s].pc \in {"signed", "posting", "confirming"}
          /\ \A r \in Sends \ {s} : send'[r] = send[r]
          /\ delivered' = delivered
        BY <1>2 DEF SignInAnswered, SignInRead, Answered, Goes, Post, TypeOK, SendState, gateway
    <2>2. Status' = Status
        BY <2>1 DEF Status
    <2> QED BY <2>1, <2>2 DEF Delivery!vars
<1>3. CASE Unauthorized(s) \/ FetchFails(s)
    <2>1. /\ send[s].pc \in {"signing", "posting"}
          /\ send'[s].pc \in {"signing", "failed"}
          /\ \A r \in Sends \ {s} : send'[r] = send[r]
          /\ delivered' = delivered
        BY <1>3 DEF Unauthorized, FetchFails, Goes, SignIn, TypeOK, SendState, gateway
    <2>2. CASE send'[s].pc = "signing"
        <3>1. Status' = Status
            BY <2>1, <2>2 DEF Status
        <3> QED BY <2>1, <3>1 DEF Delivery!vars
    <2>3. CASE send'[s].pc = "failed"
        <3>1. Status[s] = "pending" /\ Status' = [Status EXCEPT ![s] = "failed"]
            BY <2>1, <2>3 DEF Status
        <3>2. Delivery!Fail(s)
            BY <2>1, <3>1 DEF Delivery!Fail, Delivery!Answer
        <3> QED BY <3>2 DEF Delivery!Next
    <2> QED BY <2>1, <2>2, <2>3
<1>4. CASE BodyRead(s)
    <2>1. /\ send[s].pc \in {"signed", "confirming"}
          /\ send'[s].pc \in {"sent", "failed"}
          /\ send'[s].pc = "sent" => message[s] = "taken"
          /\ \A r \in Sends \ {s} : send'[r] = send[r]
          /\ delivered' = delivered
        BY <1>4 DEF BodyRead, Goes, TypeOK, SendState, gateway
    <2>2. Status[s] = "pending" /\ Status' = [Status EXCEPT ![s] = send'[s].pc]
        BY <2>1 DEF Status
    <2>3. send'[s].pc = "sent" => delivered[s] = 1
        BY <2>1 DEF MessagesInOrder
    <2>4. Delivery!Confirm(s) \/ Delivery!Fail(s)
        BY <2>1, <2>2, <2>3 DEF Delivery!Confirm, Delivery!Fail, Delivery!Answer
    <2> QED BY <2>4 DEF Delivery!Next
<1>5. CASE GatewayTakes(s)
    <2>1. /\ message[s] = "request"
          /\ send' = send
          /\ delivered' = [delivered EXCEPT ![s] = delivered[s] + 1]
        BY <1>5 DEF GatewayTakes, Handle
    <2>2. delivered[s] = 0 /\ delivered' = [delivered EXCEPT ![s] = 1]
        <3>1. delivered[s] = 0
            BY <2>1 DEF MessagesInOrder
        <3>2. delivered[s] + 1 = 1
            BY <3>1
        <3> QED BY <2>1, <3>1, <3>2
    <2>3. send[s].pc \in {"posting", "failed"}
        BY <2>1 DEF MessagesInOrder, TypeOK, SendState
    <2>4. Status[s] \in {"pending", "failed"} /\ Status' = Status
        BY <2>1, <2>3 DEF Status
    <2>5. Delivery!Deliver(s)
        BY <2>2, <2>4 DEF Delivery!Deliver
    <2> QED BY <2>5 DEF Delivery!Next
<1>6. CASE GatewayDeclines(s) \/ GatewayRejects(s)
    <2>1. UNCHANGED <<send, delivered>>
        BY <1>6 DEF GatewayDeclines, GatewayRejects, Handle
    <2> QED BY <2>1 DEF Delivery!vars, Status
<1> QED BY <1>1, <1>2, <1>3, <1>4, <1>5, <1>6 DEF SendStep

\* The safety part of ImplementsDelivery: whatever the gateway does and however
\* sends interleave, no message is delivered twice and "sent" means delivered.
THEOREM DeliveryRefinement == Spec => Delivery!Init /\ [][Delivery!Next]_Delivery!vars
<1>1. Init => Delivery!Init
    BY DEF Init, Delivery!Init, Status
<1>2. IInv /\ [Next]_vars => [Delivery!Next]_Delivery!vars
    <2>1. ASSUME Tick \/ UNCHANGED vars
          PROVE  UNCHANGED Delivery!vars
        BY <2>1 DEF Tick, vars, gateway, Delivery!vars, Status
    <2> QED BY <2>1, SendRefines DEF Next
<1> QED BY <1>1, <1>2, Invariance, PTL DEF Spec

=============================================================================
