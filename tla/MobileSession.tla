---------------------------- MODULE MobileSession ----------------------------
(***************************************************************************)
(* The session of the mobile app: DioClient with its queued interceptors   *)
(* and single-flight refresh, AuthRepository, AuthController and the       *)
(* secure storage.  Dart runs one step at a time, from await to await:     *)
(* every storage operation and every HTTP call lets other steps run.       *)
(*                                                                         *)
(* QueuedInterceptorsWrapper of dio is external: it hands errors to        *)
(* onError one at a time, the next one in the very call of handler.next or *)
(* handler.resolve that ends the one before.  The API is reduced to what   *)
(* the app sees: refresh tokens are single-use, and a second use wipes the *)
(* family (RefreshTokens has the detail).                                  *)
(*                                                                         *)
(* Token n stands for the pair of access and refresh token issued as n-th; *)
(* the session, its user and role are named by the token of its sign-in.   *)
(* The API may reject any access token: it has expired, or the user is not *)
(* active.  An answer reaches the app, or is lost, in the step in which    *)
(* the API gives it: its delay is the step of the app that comes next.     *)
(*                                                                         *)
(* Bounds: Calls, MaxTokens, MaxKills.                                     *)
(***************************************************************************)
EXTENDS Naturals, Sequences, FiniteSetsExt

CONSTANTS
    Calls,     \* calls of AuthRepository or of the API that run at once
    MaxTokens, \* how many token pairs the API issues
    None,      \* null
    MaxKills   \* how often the app is killed and started again

ASSUME MobileAssumption == {MaxTokens, MaxKills} \subseteq Nat /\ None \notin Nat \cup Calls

VARIABLES
    stored,        \* secure storage: access token, refresh token, role
    shown,         \* AuthState: whose role it shows as authenticated, or None
    isLoading,     \* AuthState
    boot,          \* how far checkInitialAuth is
    call,
    errors,        \* external: the error queue of dio, its head in onError
    refreshFuture, \* the call whose refresh _refreshFuture holds, or None
    family,        \* API: the session of each token pair issued
    revoked,       \* API: refresh tokens that are revoked
    kills,
    excused,       \* history: sessions logged out, or refreshed when the app was killed
    left,          \* history: sessions that AuthController.logout left
    raced          \* history: whether a sign-in ran beside another call or the start-up

api == <<family, revoked>>
history == <<excused, left, raced>>
client == <<stored, shown, isLoading, boot, call, errors, refreshFuture>>
vars == <<client, api, kills, history>>

-----------------------------------------------------------------------------
Tokens == 1..MaxTokens
Maybe == Tokens \cup {None}

\* public: sign-in, registration, OTP; protected: any other request but logout.
\* body: the refresh token a logout sends, the token pair a sign-in was given.
\* presented, new: the refresh token sent by _executeTokenRefresh, and its answer.
CallState == [
    kind : {"none", "public", "protected", "logout"},
    pc : {"idle", "ready", "sent", "queued", "queued401", "refreshing", "presented", "answered",
          "newRefresh", "retry", "failing", "stuck", "saveAccess", "saveRefresh", "saveRole",
          "enter", "clear", "leave"},
    access : Maybe, body : Maybe, presented : Maybe, new : Maybe, retried : BOOLEAN]

Idle == [kind |-> "none", pc |-> "idle", access |-> None, body |-> None, presented |-> None,
         new |-> None, retried |-> FALSE]

TypeOK ==
    /\ stored \in [access : Maybe, refresh : Maybe, role : Maybe]
    /\ shown \in Maybe
    /\ isLoading \in BOOLEAN
    /\ boot \in [pc : {"access", "role", "done"}, access : Maybe]
    /\ call \in [Calls -> CallState]
    /\ \A c \in Calls : call[c].pc = "presented" => call[c].presented # None
    /\ errors \in Seq(Calls)
    /\ refreshFuture \in Calls \cup {None}
    /\ family \in Seq(Tokens)
    /\ revoked \subseteq DOMAIN family
    /\ kills \in 0..MaxKills
    /\ {excused, left} \subseteq SUBSET Tokens
    /\ raced \in BOOLEAN

\* Storage after clearAll.
Cleared == [access |-> None, refresh |-> None, role |-> None]
StartUp == [pc |-> "access", access |-> None]

Init ==
    /\ stored = Cleared
    /\ shown = None /\ isLoading = FALSE
    /\ boot = StartUp
    /\ call = [c \in Calls |-> Idle]
    /\ errors = <<>> /\ refreshFuture = None
    /\ family = <<>> /\ revoked = {}
    /\ kills = 0
    /\ excused = {} /\ left = {}
    /\ raced = FALSE

Becomes(c, state) == call' = [call EXCEPT ![c] = state]
Moves(c, pc) == call' = [call EXCEPT ![c].pc = pc]
Busy(kinds) == {c \in Calls : call[c].kind \in kinds}

\* isLoading ends with the call that set it.
Loaded == isLoading' = (isLoading /\ \A c \in Busy({"public"}) : call'[c].kind = "public")

\* What a call does once the HTTP call has returned, or thrown.
Ended(c) == IF call[c].kind = "logout" THEN [call[c] EXCEPT !.pc = "clear"] ELSE Idle

-----------------------------------------------------------------------------
(* AuthController and AuthRepository *)

\* checkInitialAuth, its two reads.
BootAccess ==
    /\ boot.pc = "access"
    /\ boot' = [pc |-> "role", access |-> stored.access]
    /\ UNCHANGED <<stored, shown, isLoading, call, errors, refreshFuture, api, kills, history>>

BootRole ==
    /\ boot.pc = "role"
    /\ boot' = [pc |-> "done", access |-> None]
    /\ shown' = IF boot.access # None /\ stored.role # None THEN stored.role ELSE shown
    /\ UNCHANGED <<stored, isLoading, call, errors, refreshFuture, api, kills, history>>

\* The router shows the screens of a user who is authenticated, or else the
\* login screen, which takes no input while isLoading.
Begin(c, kind) ==
    /\ call[c] = Idle
    /\ IF kind = "public" THEN shown = None /\ ~isLoading ELSE shown # None
    /\ Becomes(c, [Idle EXCEPT
           !.kind = kind,
           !.body = IF kind = "logout" THEN stored.refresh ELSE None,
           !.pc = IF kind = "logout" /\ stored.refresh = None THEN "clear" ELSE "ready"])
    /\ isLoading' = (isLoading \/ kind = "public")
    /\ raced' = \/ raced
                \/ kind = "public" /\ (boot.pc # "done" \/ \E d \in Calls : call[d] # Idle)
                \/ kind # "public" /\ Busy({"public"}) # {}
    /\ UNCHANGED <<stored, shown, boot, errors, refreshFuture, api, kills, excused, left>>

\* Mutant of SaveRefresh: the refresh stores the role again.
SaveRefreshAndRole(c) ==
    /\ call[c].pc \in {"newRefresh", "saveRefresh"}
    /\ LET t == IF call[c].pc = "newRefresh" THEN call[c].new ELSE call[c].body IN
       stored' = [stored EXCEPT !.refresh = t, !.role = family[t]]
    /\ Moves(c, IF call[c].pc = "newRefresh" THEN "retry" ELSE "saveRole")
    /\ UNCHANGED <<shown, isLoading, boot, errors, refreshFuture, api, kills, history>>

\* Mutant of SaveAccess: the refresh gives its answer before it has stored it.
SaveAccessLater(c) ==
    /\ call[c].pc \in {"saveAccess", "answered"}
    /\ IF call[c].pc = "saveAccess"
         THEN stored' = [stored EXCEPT !.access = call[c].body] /\ Moves(c, "saveRefresh")
         ELSE Moves(c, "retry") /\ UNCHANGED stored
    /\ UNCHANGED <<shown, isLoading, boot, errors, refreshFuture, api, kills, history>>

\* saveTokens, for a sign-in or a refresh: two writes.
SaveAccess(c) ==
    /\ call[c].pc \in {"saveAccess", "answered"}
    /\ IF call[c].pc = "saveAccess"
         THEN stored' = [stored EXCEPT !.access = call[c].body] /\ Moves(c, "saveRefresh")
         ELSE stored' = [stored EXCEPT !.access = call[c].new] /\ Moves(c, "newRefresh")
    /\ UNCHANGED <<shown, isLoading, boot, errors, refreshFuture, api, kills, history>>

SaveRefresh(c) ==
    /\ call[c].pc \in {"newRefresh", "saveRefresh"}
    /\ IF call[c].pc = "saveRefresh"
         THEN stored' = [stored EXCEPT !.refresh = call[c].body] /\ Moves(c, "saveRole")
         ELSE /\ stored' = [stored EXCEPT !.refresh = call[c].new]
              /\ Becomes(c, [call[c] EXCEPT !.pc = "retry", !.presented = None])
    /\ UNCHANGED <<shown, isLoading, boot, errors, refreshFuture, api, kills, history>>

SaveRole(c) ==
    /\ call[c].pc = "saveRole"
    /\ stored' = [stored EXCEPT !.role = call[c].body]
    /\ Moves(c, "enter")
    /\ UNCHANGED <<shown, isLoading, boot, errors, refreshFuture, api, kills, history>>

\* loginWithPassword and the like, after the repository has returned.
Enter(c) ==
    /\ call[c].pc = "enter"
    /\ shown' = call[c].body
    /\ Becomes(c, Idle)
    /\ Loaded
    /\ UNCHANGED <<stored, boot, errors, refreshFuture, api, kills, history>>

\* Mutant of LogoutClear: only the tokens are deleted.
LogoutClearTokens(c) ==
    /\ call[c].pc = "clear"
    /\ stored' = [Cleared EXCEPT !.role = stored.role]
    /\ Moves(c, "leave")
    /\ UNCHANGED <<shown, isLoading, boot, errors, refreshFuture, api, kills, history>>

LogoutClear(c) ==
    /\ call[c].pc = "clear"
    /\ stored' = Cleared
    /\ Moves(c, "leave")
    /\ UNCHANGED <<shown, isLoading, boot, errors, refreshFuture, api, kills, history>>

LogoutDone(c) ==
    /\ call[c].pc = "leave"
    /\ shown' = None
    /\ isLoading' = FALSE
    /\ Becomes(c, Idle)
    /\ left' = left \cup ({shown} \ {None})
    /\ UNCHANGED <<stored, boot, errors, refreshFuture, api, kills, excused, raced>>

-----------------------------------------------------------------------------
(* DioClient *)

\* onRequest: the first time, or the retry with the new token, over which the
\* stored access token is attached again.
Send(c) ==
    /\ call[c].pc \in {"ready", "retry"}
    /\ Becomes(c, [call[c] EXCEPT
           !.pc = "sent", !.retried = (call[c].pc = "retry"),
           !.access = IF call[c].kind # "public" /\ stored.access # None THEN stored.access
                                                                        ELSE call[c].new])
    /\ UNCHANGED <<stored, shown, isLoading, boot, errors, refreshFuture, api, kills, history>>

\* onError of call c has returned: the errors behind it that are not 401 are handed
\* on at once, up to a 401, whose onError starts before the finally block of c
\* resets _refreshFuture: it takes the answer c was given, if c asked itself.
EndOfError(c, state) ==
    LET rest == Tail(errors)
        first == Min({i \in 1..Len(rest) + 1 :
                        i <= Len(rest) => call[rest[i]].pc = "queued401"})
        next == SubSeq(rest, first, Len(rest))
    IN
    /\ errors' = next
    /\ call' = [d \in Calls |->
         IF d = c THEN state
         ELSE IF \E i \in 1..first - 1 : d = rest[i] THEN Ended(d)
         ELSE IF next = <<>> \/ d # Head(next) THEN call[d]
         ELSE IF refreshFuture = None THEN [call[d] EXCEPT !.pc = "refreshing"]
         ELSE [call[d] EXCEPT !.new = call[c].new,
                              !.pc = IF call[c].new = None THEN "failing" ELSE "retry"]]
    /\ refreshFuture' = None

\* The HTTP call of c has succeeded; if it was a retry, its onError returns.
Succeeds(c, state) ==
    IF call[c].retried
      THEN EndOfError(c, state)
      ELSE Becomes(c, state) /\ UNCHANGED <<errors, refreshFuture>>

\* Mutant of Fails: without the queue and the shared future.
FailsUnqueued(c, is401) ==
    IF call[c].retried
      THEN Moves(c, "stuck") /\ UNCHANGED <<errors, refreshFuture>>
    ELSE IF is401
      THEN Moves(c, "refreshing") /\ errors' = <<c>> /\ UNCHANGED refreshFuture
    ELSE Becomes(c, Ended(c)) /\ UNCHANGED <<errors, refreshFuture>>

\* The HTTP call of c has failed: its error waits behind those before it.  The
\* error of a retry waits behind the onError that awaits that retry.
Fails(c, is401) ==
    IF call[c].retried
      THEN Moves(c, "stuck") /\ UNCHANGED <<errors, refreshFuture>>
    ELSE IF errors # <<>>
      THEN /\ Moves(c, IF is401 THEN "queued401" ELSE "queued")
           /\ errors' = Append(errors, c)
           /\ UNCHANGED refreshFuture
    ELSE IF is401
      THEN Moves(c, "refreshing") /\ errors' = <<c>> /\ refreshFuture' = c
    ELSE Becomes(c, Ended(c)) /\ UNCHANGED <<errors, refreshFuture>>

\* Mutant of ReadRefresh: without the test for null.
ReadRefreshUnchecked(c) ==
    /\ call[c].pc = "refreshing"
    /\ Becomes(c, [call[c] EXCEPT !.presented = stored.refresh, !.pc = "presented"])
    /\ UNCHANGED <<stored, shown, isLoading, boot, errors, refreshFuture, api, kills, history>>

\* _executeTokenRefresh
ReadRefresh(c) ==
    /\ call[c].pc = "refreshing"
    /\ Becomes(c, [call[c] EXCEPT
           !.presented = stored.refresh,
           !.pc = IF stored.refresh = None THEN "failing" ELSE "presented"])
    /\ UNCHANGED <<stored, shown, isLoading, boot, errors, refreshFuture, api, kills, history>>

\* Mutant of HandleAuthFailure: the error is not handed on.
HandleAuthFailureOnly(c) ==
    /\ call[c].pc = "failing"
    /\ stored' = Cleared
    /\ UNCHANGED <<call, errors, refreshFuture, isLoading, shown, boot, api, kills, history>>

\* _handleAuthFailure; nothing sets onUnauthenticated.
HandleAuthFailure(c) ==
    /\ call[c].pc = "failing"
    /\ stored' = Cleared
    /\ EndOfError(c, Ended(c))
    /\ Loaded
    /\ UNCHANGED <<shown, boot, api, kills, history>>

-----------------------------------------------------------------------------
(* The API and the network *)

Family(f) == {t \in DOMAIN family : family[t] = f}
MayIssue == Len(family) < MaxTokens
NewToken == Len(family) + 1

\* A sign-in, or another public endpoint, which issues no tokens.
ServePublic(c) ==
    /\ call[c].pc = "sent"
    /\ call[c].kind = "public"
    /\ \/ /\ MayIssue
          /\ family' = Append(family, NewToken)
          /\ \/ Succeeds(c, [call[c] EXCEPT !.pc = "saveAccess", !.body = NewToken])
             \/ Fails(c, FALSE)
       \/ /\ Succeeds(c, Idle) \/ \E is401 \in BOOLEAN : Fails(c, is401)
          /\ UNCHANGED family
    /\ Loaded
    /\ UNCHANGED <<stored, shown, boot, revoked, kills, history>>

\* JwtAuthGuard, then the endpoint; logout revokes the token if it is of the user
\* who calls.
ServeProtected(c) ==
    /\ call[c].pc = "sent"
    /\ call[c].kind # "public"
    /\ \/ /\ call[c].access # None
          /\ \/ /\ call[c].kind = "logout"
                /\ revoked' = revoked \cup {call[c].body}
                /\ excused' = excused \cup {family[call[c].body]}
             \/ /\ call[c].kind = "logout" => family[call[c].access] # family[call[c].body]
                /\ UNCHANGED <<revoked, excused>>
          /\ Succeeds(c, Ended(c)) \/ Fails(c, FALSE)
       \/ /\ \E is401 \in BOOLEAN : Fails(c, is401)
          /\ UNCHANGED <<revoked, excused>>
    /\ Loaded
    /\ UNCHANGED <<stored, shown, boot, family, kills, left, raced>>

\* The refresh endpoint, or a failure of the network on the way there or back.
ServeRefresh(c) ==
    LET t == call[c].presented IN
    /\ call[c].pc = "presented"
    /\ \/ /\ t \in revoked
          /\ revoked' = revoked \cup Family(family[t])
          /\ Moves(c, "failing")
          /\ UNCHANGED family
       \/ /\ t \notin revoked
          /\ MayIssue
          /\ family' = Append(family, family[t])
          /\ revoked' = revoked \cup {t}
          /\ \/ Becomes(c, [call[c] EXCEPT !.pc = "answered", !.new = NewToken])
             \/ Moves(c, "failing")
       \/ /\ Moves(c, "failing")
          /\ UNCHANGED <<family, revoked>>
    /\ UNCHANGED <<stored, shown, isLoading, boot, errors, refreshFuture, kills, history>>

\* The app is killed and started again: only the storage is kept.
Kill ==
    /\ kills < MaxKills
    /\ kills' = kills + 1
    /\ excused' = excused \cup {family[call[c].presented] :
                                c \in {d \in Calls : call[d].presented # None}}
    /\ shown' = None /\ isLoading' = FALSE
    /\ boot' = StartUp
    /\ call' = [c \in Calls |-> Idle]
    /\ errors' = <<>> /\ refreshFuture' = None
    /\ UNCHANGED <<stored, api, left, raced>>

Boot == BootAccess \/ BootRole

CallStep(c) ==
    \/ SaveAccess(c) \/ SaveRefresh(c) \/ SaveRole(c) \/ Enter(c)
    \/ LogoutClear(c) \/ LogoutDone(c)
    \/ Send(c) \/ ReadRefresh(c) \/ HandleAuthFailure(c)
    \/ ServePublic(c) \/ ServeProtected(c) \/ ServeRefresh(c)

Next ==
    \/ Boot
    \/ \E c \in Calls : CallStep(c)
    \/ \E c \in Calls, kind \in {"public", "protected", "logout"} : Begin(c, kind)
    \/ Kill

\* Storage operations end, HTTP calls end at the latest with connectTimeout or
\* receiveTimeout.
Fairness == WF_vars(Boot) /\ \A c \in Calls : WF_vars(CallStep(c))

Spec == Init /\ [][Next]_vars /\ Fairness

-----------------------------------------------------------------------------
(* Properties *)

\* The app raises no false alarm of token reuse, for which the API ends the whole
\* session: it sends a refresh token that is revoked only of a session that was
\* logged out meanwhile, or refreshed when the app was killed before it had stored
\* the answer.
ReuseIsExplained ==
    \A c \in Calls :
        call[c].pc = "presented" /\ call[c].presented \in revoked
        => family[call[c].presented] \in excused

\* A request that was rejected is sent again with the very answer of the refresh it
\* joined, unless a sign-in ran beside other calls: the retry's onRequest attaches what
\* it reads from storage, where the new token must be by then, and no other one since.
RetryIsFresh ==
    [][\A c \in Calls :
         /\ ~raced
         /\ call[c].pc = "retry" /\ call'[c].pc = "sent"
         /\ call[c].kind # "public"
         => call'[c].access = call[c].new]_vars

\* A session left by logout is never shown again, though a refresh may store
\* tokens after the logout has cleared them, and the app may be started again,
\* unless a sign-in ran beside other calls.
LogoutHolds == ~raced => shown \notin left

\* The tokens stored and the role stored are of one session, also when the app is
\* killed half way, unless a sign-in ran beside other calls.
StoredSessionIsOne ==
    /\ ~raced
    /\ None \notin {stored.access, stored.refresh, stored.role}
    => \A t \in {stored.access, stored.refresh} : family[t] = stored.role

\* Every call ends, as long as no retry has failed.
CallsEnd ==
    \A c \in Calls :
        call[c].pc # "idle" ~> \/ call[c].pc = "idle"
                              \/ \E d \in Calls : call[d].pc = "stuck"

=============================================================================
