----------------------------- MODULE CequensSms -----------------------------
(***************************************************************************)
(* CequensSmsProvider, one object per process: sendOtp, dispatchWithRetry  *)
(* and getAccessToken.  Any number of sends run at once and share the      *)
(* cached token and its expiry; every fetch and every response.json() is   *)
(* an await at which another send runs.  Between the return of             *)
(* getAccessToken and the fetch that follows nothing shared is touched, so *)
(* they are one step.  The credentials are configured.                     *)
(*                                                                         *)
(* fetchWithTimeout aborts a fetch whose headers have not come after       *)
(* timeoutMs; reading the body afterwards is bounded only by the limit of  *)
(* the HTTP client of Node.  An aborted request may still be handled.      *)
(*                                                                         *)
(* Bounds: Sends, MaxTokens, MaxTime.                                      *)
(***************************************************************************)
EXTENDS Integers, Sequences

CONSTANTS
    Sends,     \* calls of sendOtp
    MaxTokens, \* how many tokens the gateway may issue, numbered in that order
    None,      \* null
    TokenLife, \* how long the gateway accepts a token
    Margin,    \* 30 s before its expiry the token is not reused
    Timeout,   \* timeoutMs, 10 s
    MaxTime

ASSUME CequensAssumption ==
    /\ {MaxTokens, TokenLife, Margin, Timeout, MaxTime} \subseteq Nat
    /\ Timeout \in 1..Margin
    /\ None \notin Nat

VARIABLES
    now,         \* the clock
    cachedToken, tokenExpiry,
    send,        \* what each send remembers across its awaits
    jwt,         \* external: whether the tokens are JWTs that tell their expiry
    issued,      \* external: the expiry of each token issued
    revoked,     \* external: tokens the gateway stopped accepting before that
    message,     \* external: what the gateway did with the latest request of a send
    delivered,   \* external: messages delivered for each send
    refused      \* history: tokens the code was told are rejected (401)

cache == <<cachedToken, tokenExpiry, refused>>
gateway == <<jwt, issued, revoked, message, delivered>>
vars == <<now, send, cache, gateway>>

-----------------------------------------------------------------------------
Tokens == 1..MaxTokens

\* signing, posting: fetch awaited since `since'; signed, confirming: headers are
\* in, response.json() awaited.  cached: the token was taken from the cache.
SendState == [pc : {"idle", "signing", "signed", "posting", "confirming", "sent", "failed"},
              token : Tokens \cup {None}, cached : BOOLEAN, isRetry : BOOLEAN, since : Nat]

TypeOK ==
    /\ now \in Nat
    /\ cachedToken \in Tokens \cup {None}
    /\ tokenExpiry \in Nat \cup {None}
    /\ send \in [Sends -> SendState]
    /\ issued \in Seq(Nat)
    /\ Len(issued) <= MaxTokens
    /\ jwt \in BOOLEAN
    /\ revoked \subseteq DOMAIN issued
    /\ message \in [Sends -> {"none", "request", "taken", "declined", "unauthorized"}]
    /\ delivered \in [Sends -> Nat]
    /\ refused \subseteq DOMAIN issued

\* The gateway accepts token t now.
Accepts(t) == t \notin revoked /\ now < issued[t]

\* Mutant of Expiry: the time that remains is kept instead of the instant.
ExpiryRemaining(t) == IF jwt THEN issued[t] - now ELSE None

\* getJwtExpiry
Expiry(t) == IF jwt THEN issued[t] ELSE None

SetCache(token, expiry) == cachedToken' = token /\ tokenExpiry' = expiry

\* The send goes on, no fetch of its own pending.
Goes(s, pc) == send' = [send EXCEPT ![s].pc = pc, ![s].since = 0]

Init ==
    /\ now = 0
    /\ cachedToken = None /\ tokenExpiry = None
    /\ send = [s \in Sends |-> [pc |-> "idle", token |-> None, cached |-> FALSE,
                                isRetry |-> FALSE, since |-> 0]]
    /\ jwt \in BOOLEAN
    /\ issued = <<>>
    /\ revoked = {}
    /\ message = [s \in Sends |-> "none"]
    /\ delivered = [s \in Sends |-> 0]
    /\ refused = {}

-----------------------------------------------------------------------------
(* The provider *)

\* Mutant of CacheUsable: the token is reused up to its expiry.
CacheUsableToTheEnd ==
    /\ cachedToken # None
    /\ tokenExpiry # None => now < tokenExpiry

\* getAccessToken: a cached token without known expiry is reused for ever.
CacheUsable ==
    /\ cachedToken # None
    /\ tokenExpiry # None => now < tokenExpiry - Margin

\* dispatchWithRetry, its fetch of smsUrl.
Post(s, token, cached) ==
    /\ send' = [send EXCEPT ![s].pc = "posting", ![s].token = token,
                            ![s].cached = cached, ![s].since = now]
    /\ message' = [message EXCEPT ![s] = "request"]

\* getAccessToken, its fetch of authUrl, after the cache is cleared for everyone.
SignIn(s, isRetry) ==
    /\ SetCache(None, None)
    /\ send' = [send EXCEPT ![s].pc = "signing", ![s].isRetry = isRetry, ![s].since = now]

\* sendOtp up to its first await.
SendOtp(s) ==
    /\ send[s].pc = "idle"
    /\ \/ /\ CacheUsable
          /\ Post(s, cachedToken, TRUE)
          /\ UNCHANGED <<cache, jwt, issued, revoked, delivered>>
       \/ /\ ~CacheUsable
          /\ SignIn(s, FALSE)
          /\ UNCHANGED <<refused, gateway>>
    /\ UNCHANGED now

\* Sign-in: the gateway has issued a token, and the headers of its answer are in.
SignInAnswered(s) ==
    /\ send[s].pc = "signing"
    /\ Len(issued) < MaxTokens
    /\ issued' = Append(issued, now + TokenLife)
    /\ send' = [send EXCEPT ![s].pc = "signed", ![s].token = Len(issued) + 1, ![s].since = 0]
    /\ UNCHANGED <<now, cache, jwt, revoked, message, delivered>>

\* Sign-in: the body is in.  The token is cached, over whatever another send has
\* cached meanwhile, and used.
SignInRead(s) ==
    LET t == send[s].token IN
    /\ send[s].pc = "signed"
    /\ SetCache(t, Expiry(t))
    /\ Post(s, t, FALSE)
    /\ UNCHANGED <<now, refused, jwt, issued, revoked, delivered>>

\* dispatchWithRetry: the headers of the answer to the message are in, and not 401.
Answered(s) ==
    /\ send[s].pc = "posting"
    /\ message[s] \in {"taken", "declined"}
    /\ Goes(s, "confirming")
    /\ UNCHANGED <<now, cache, gateway>>

\* Mutant of Unauthorized: a send that gives up leaves the cache as it is.
UnauthorizedKeepingCache(s) ==
    /\ send[s].pc = "posting"
    /\ message[s] = "unauthorized"
    /\ refused' = refused \cup {send[s].token}
    /\ IF send[s].isRetry THEN Goes(s, "failed") /\ UNCHANGED <<cachedToken, tokenExpiry>>
                          ELSE SignIn(s, TRUE)
    /\ UNCHANGED <<now, gateway>>

\* dispatchWithRetry: 401.  The cache is cleared, whichever token it holds by now;
\* the first time, the send signs in and tries again.
Unauthorized(s) ==
    /\ send[s].pc = "posting"
    /\ message[s] = "unauthorized"
    /\ refused' = refused \cup {send[s].token}
    /\ IF send[s].isRetry THEN SetCache(None, None) /\ Goes(s, "failed")
                          ELSE SignIn(s, TRUE)
    /\ UNCHANGED <<now, gateway>>

\* Mutant of FetchFails: the message is posted with the plain fetch, without a timer.
FetchFailsAtSignInOnly(s) ==
    /\ send[s].pc = "signing"
    /\ Goes(s, "failed")
    /\ UNCHANGED <<now, cache, gateway>>

\* Mutant of FetchFails: the single retry is spent on a network failure as well.
FetchFailsAndRetries(s) ==
    /\ send[s].pc \in {"signing", "posting"}
    /\ IF send[s].isRetry THEN Goes(s, "failed") /\ UNCHANGED cache
                          ELSE SignIn(s, TRUE) /\ UNCHANGED refused
    /\ UNCHANGED <<now, gateway>>

\* fetchWithTimeout throws: network failure, or the abort after Timeout.
FetchFails(s) ==
    /\ send[s].pc \in {"signing", "posting"}
    /\ Goes(s, "failed")
    /\ UNCHANGED <<now, cache, gateway>>

\* The body of the answer to the message is in: confirmed, or anything else (not
\* JSON, another replyCode, no SentSMSIDs), as also for a sign-in.
BodyRead(s) ==
    /\ send[s].pc \in {"signed", "confirming"}
    /\ \/ send[s].pc = "confirming" /\ message[s] = "taken" /\ Goes(s, "sent")
       \/ Goes(s, "failed")
    /\ UNCHANGED <<now, cache, gateway>>

-----------------------------------------------------------------------------
(* The gateway, external *)

\* A request is handled also when the send has given up waiting for it.
Handle(s, answer) ==
    /\ message[s] = "request"
    /\ message' = [message EXCEPT ![s] = answer]
    /\ UNCHANGED <<now, send, cache, jwt, issued>>

GatewayTakes(s) ==
    /\ Handle(s, "taken")
    /\ Accepts(send[s].token)
    /\ delivered' = [delivered EXCEPT ![s] = @ + 1]
    /\ UNCHANGED revoked

GatewayDeclines(s) ==
    /\ Handle(s, "declined")
    /\ Accepts(send[s].token)
    /\ UNCHANGED <<revoked, delivered>>

\* The token has expired, or was revoked at some time before this request.
GatewayRejects(s) ==
    LET t == send[s].token IN
    /\ Handle(s, "unauthorized")
    /\ revoked' = IF Accepts(t) THEN revoked \cup {t} ELSE revoked
    /\ UNCHANGED delivered

\* Time passes; the abort timer fires when it is due.
Tick ==
    /\ now < MaxTime
    /\ \A s \in Sends : send[s].pc \in {"signing", "posting"} => now < send[s].since + Timeout
    /\ now' = now + 1
    /\ UNCHANGED <<send, cache, gateway>>

SendStep(s) ==
    \/ SendOtp(s)
    \/ SignInAnswered(s)
    \/ SignInRead(s)
    \/ Answered(s)
    \/ Unauthorized(s)
    \/ FetchFails(s)
    \/ BodyRead(s)
    \/ GatewayTakes(s)
    \/ GatewayDeclines(s)
    \/ GatewayRejects(s)

Next ==
    \/ \E s \in Sends : SendStep(s)
    \/ Tick

\* The abort timer ends every fetch, the HTTP client's own limit every body.  That
\* the gateway answers is not assumed.
Fairness == \A s \in Sends : WF_vars(FetchFails(s)) /\ WF_vars(BodyRead(s))

Spec == Init /\ [][Next]_vars /\ Fairness

-----------------------------------------------------------------------------
(* Properties *)

\* The cache never holds a token the code was told is rejected, and the expiry
\* cached is that of the token cached, though several sends sign in at once.
CacheIsSound ==
    /\ cachedToken = None => tokenExpiry = None
    /\ cachedToken # None =>
         /\ cachedToken \notin refused
         /\ tokenExpiry = Expiry(cachedToken)

\* A token from the cache whose expiry is known does not expire on the way: if a
\* send still waiting is told it is rejected, the gateway has revoked it.
ExpiryIsForeseen ==
    \A s \in Sends :
        LET t == send[s].token IN
        /\ send[s].pc = "posting"
        /\ message[s] = "unauthorized"
        /\ send[s].cached
        /\ jwt
        => t \in revoked

\* Every send is answered in the end, also by a gateway that never answers.
SendIsAnswered ==
    \A s \in Sends : send[s].pc # "idle" ~> send[s].pc \in {"sent", "failed"}

\* What the caller of each send knows.
Status == [s \in Sends |-> IF send[s].pc \in {"idle", "sent", "failed"} THEN send[s].pc
                                                                      ELSE "pending"]

Delivery == INSTANCE SmsDelivery WITH status <- Status

\* The provider keeps the promises of ISmsProvider to its callers: no message is
\* delivered twice, although a send is retried, and "sent" means delivered.
ImplementsDelivery == Delivery!Spec

=============================================================================
