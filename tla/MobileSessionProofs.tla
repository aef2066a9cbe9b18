------------------------ MODULE MobileSessionProofs ------------------------
(* Theorems about MobileSession, for any number of calls, tokens and kills. *)
EXTENDS MobileSession, BoundedSets, TLAPS

-----------------------------------------------------------------------------
(* The inductive invariant *)

Known == DOMAIN family \cup {None}

\* Every token the app holds was issued, and no more were than MaxTokens.
TokensAreKnown ==
    /\ Len(family) <= MaxTokens
    /\ {stored.access, stored.refresh, stored.role, shown} \subseteq Known
    /\ left \subseteq DOMAIN family
    /\ \A c \in Calls : {call[c].body, call[c].presented, call[c].new} \subseteq Known

\* A sign-in saves the token of its own session; a logout at the API and a refresh that
\* was answered hold a token.
CallsAreFormed ==
    \A c \in Calls :
        /\ call[c].pc \in {"saveAccess", "saveRefresh", "saveRole", "enter"} =>
             /\ call[c].kind = "public"
             /\ call[c].body # None
             /\ family[call[c].body] = call[c].body
        /\ call[c].kind = "logout" /\ call[c].pc \notin {"clear", "leave"} => call[c].body # None
        /\ call[c].pc \in {"answered", "newRefresh"} => call[c].new # None

\* onError of call c has begun and not returned.
InOnError(c) ==
    \/ call[c].pc \in {"refreshing", "presented", "answered", "newRefresh", "retry", "failing", "stuck"}
    \/ call[c].pc = "sent" /\ call[c].retried

\* The queue of dio: one onError at a time.
OneInOnError == \A c \in Calls : InOnError(c) => errors # <<>> /\ c = Head(errors)

\* Refresh tokens that calls are about to store.
Unstored(c) ==
    {t \in Known \ {None} :
        \/ call[c].pc \in {"saveAccess", "saveRefresh"} /\ t = call[c].body
        \/ call[c].pc \in {"answered", "newRefresh"} /\ t = call[c].new}

Excused(t) == family[t] \in excused

\* A token that is about to be stored is nowhere else, so nothing but a logout or the
\* end of its family revokes it.
UnstoredIsUnused ==
    \A c \in Calls : \A t \in Unstored(c) :
        /\ t \in revoked => Excused(t)
        /\ t # stored.refresh
        /\ \A d \in Calls : /\ call[d].pc = "presented" => call[d].presented # t
                            /\ d # c => t \notin Unstored(d)

\* A stored refresh token that is revoked is in the hands of the call that presented it.
StoredIsUsable ==
    stored.refresh \in revoked /\ ~Excused(stored.refresh) =>
        \E c \in Calls : /\ call[c].pc \in {"answered", "newRefresh", "failing"}
                         /\ call[c].presented = stored.refresh

\* Unless a sign-in ran beside other calls:

\* a sign-in runs alone, and so does the start-up.
SignInIsAlone ==
    /\ \A c \in Calls : call[c].kind = "public" =>
         boot.pc = "done" /\ shown = None /\ \A d \in Calls \ {c} : call[d] = Idle
    /\ boot.pc # "done" => shown = None /\ \A c \in Calls : call[c] = Idle

\* no session left is stored, shown or signed in to.
LeftIsGone ==
    /\ {stored.role, shown} \cap left = {}
    /\ \A c \in Calls :
         /\ call[c].pc = "leave" => stored.role = None
         /\ call[c].pc \in {"saveAccess", "saveRefresh", "saveRole", "enter"} => call[c].body \notin left

\* a role is stored with the tokens of its session, and what a refresh brings is of it too.
RoleIsOfTokens ==
    stored.role # None =>
        /\ None \notin {stored.access, stored.refresh}
        /\ \A t \in {stored.access, stored.refresh} : family[t] = stored.role
        /\ \A c \in Calls :
             /\ call[c].pc = "presented" => family[call[c].presented] = stored.role
             /\ call[c].pc \in {"answered", "newRefresh"} => family[call[c].new] = stored.role

\* a sign-in has stored what it says, and stores the role into an empty storage.
SignInSaves ==
    /\ \A c \in Calls :
         /\ call[c].pc = "saveRefresh" => stored.access = call[c].body
         /\ call[c].pc = "saveRole" => stored.access = call[c].body /\ stored.refresh = call[c].body
    /\ boot.pc = "done" /\ shown = None /\ stored.role # None =>
         \E c \in Calls : call[c].pc = "enter"
    /\ boot.pc = "role" /\ stored.role # None => boot.access # None

\* what a retry finds stored is the answer it was given.
RetryFindsAnswer ==
    \A c \in Calls : InOnError(c) /\ call[c].pc \in {"newRefresh", "retry", "sent"} =>
        stored.access \in {None, call[c].new}

Orderly == ~raced => /\ SignInIsAlone /\ LeftIsGone /\ RoleIsOfTokens
                     /\ SignInSaves /\ RetryFindsAnswer

IInv == /\ TypeOK /\ TokensAreKnown /\ CallsAreFormed /\ OneInOnError
        /\ ReuseIsExplained /\ UnstoredIsUnused /\ StoredIsUsable
        /\ Orderly

-----------------------------------------------------------------------------
(* What a step does to the calls *)

\* Call c alone changes, to the given state.
Alters(c, state) ==
    /\ call' \in [Calls -> CallState]
    /\ call'[c] = state
    /\ \A d \in Calls : d # c => call'[d] = call[d]

LEMMA BecomesAlters ==
    ASSUME TypeOK, NEW c \in Calls, NEW state \in CallState, Becomes(c, state)
    PROVE  Alters(c, state)
<1>1. call \in [Calls -> CallState] /\ call' = [call EXCEPT ![c] = state]
  BY DEF TypeOK, Becomes
<1> QED BY <1>1 DEF Alters

LEMMA MovesAlters ==
    ASSUME TypeOK, NEW c \in Calls, NEW pc, [call[c] EXCEPT !.pc = pc] \in CallState, Moves(c, pc)
    PROVE  Alters(c, [call[c] EXCEPT !.pc = pc])
<1>1. call' = [call EXCEPT ![c] = [call[c] EXCEPT !.pc = pc]]
  BY DEF Moves
<1> QED BY <1>1, BecomesAlters DEF Becomes

\* The states a call may be moved to.
LEMMA MovedState ==
    ASSUME TypeOK, NEW c \in Calls,
           NEW pc \in {"idle", "ready", "sent", "queued", "queued401", "refreshing", "presented",
                       "answered", "newRefresh", "retry", "failing", "stuck", "saveAccess",
                       "saveRefresh", "saveRole", "enter", "clear", "leave"}
    PROVE  /\ call[c] \in CallState
           /\ [call[c] EXCEPT !.pc = pc] \in CallState
           /\ [call[c] EXCEPT !.pc = pc].pc = pc
           /\ [call[c] EXCEPT !.pc = pc].kind = call[c].kind
           /\ [call[c] EXCEPT !.pc = pc].access = call[c].access
           /\ [call[c] EXCEPT !.pc = pc].body = call[c].body
           /\ [call[c] EXCEPT !.pc = pc].presented = call[c].presented
           /\ [call[c] EXCEPT !.pc = pc].new = call[c].new
           /\ [call[c] EXCEPT !.pc = pc].retried = call[c].retried
<1>1. call[c] \in CallState
  BY DEF TypeOK
<1> QED BY <1>1 DEF CallState

\* Idle, and the state in which a call ends.
LEMMA EndedState ==
    ASSUME TypeOK, NEW c \in Calls
    PROVE  /\ Idle \in CallState /\ Ended(c) \in CallState /\ Ended(c).pc \in {"idle", "clear"}
           /\ \/ Ended(c) = Idle
              \/ /\ call[c].kind = "logout" /\ Ended(c) = [call[c] EXCEPT !.pc = "clear"]
<1>1. Idle \in CallState
  BY DEF Idle, CallState, Maybe
<1>2. [call[c] EXCEPT !.pc = "clear"] \in CallState /\ [call[c] EXCEPT !.pc = "clear"].pc = "clear"
  BY MovedState
<1>3. Idle.pc = "idle"
  BY DEF Idle
<1> QED BY <1>1, <1>2, <1>3 DEF Ended

\* The next error of dio's queue, a 401, goes on after that of c.
Resumed(c, d) ==
    /\ call[d].pc = "queued401" /\ errors' # <<>> /\ d = Head(errors')
    /\ \E pc \in {"refreshing", "retry", "failing"}, new \in {call[d].new, call[c].new} :
         /\ call'[d] = [call[d] EXCEPT !.pc = pc, !.new = new]
         /\ pc = "retry" => new = call[c].new /\ new # None

\* onError of c returns: the errors behind it end, the first 401 among them goes on.
Returns(c, state) ==
    /\ errors' \in Seq(Calls) /\ refreshFuture' = None
    /\ call' \in [Calls -> CallState] /\ call'[c] = state
    /\ \A d \in Calls : d # c => call'[d] = call[d] \/ call'[d] = Ended(d) \/ Resumed(c, d)

LEMMA ErrorReturns ==
    ASSUME TypeOK, NEW c \in Calls, errors # <<>>, NEW state \in CallState, EndOfError(c, state)
    PROVE  Returns(c, state)
<1> DEFINE rest == Tail(errors)
           S == {i \in 1..Len(rest) + 1 : i <= Len(rest) => call[rest[i]].pc = "queued401"}
           first == Min(S)
           next == SubSeq(rest, first, Len(rest))
<1>1. rest \in Seq(Calls) /\ Len(rest) \in Nat
  BY DEF TypeOK
<1> HIDE DEF rest
<1>2. S \in SUBSET Nat /\ Len(rest) + 1 \in S
  BY <1>1
<1>3. first \in S
  BY <1>2, MinIsIn
<1>4. first \in Nat /\ 1 <= first /\ first <= Len(rest) + 1
  BY <1>1, <1>3
<1>5. first <= Len(rest) => call[rest[first]].pc = "queued401"
  BY <1>3
<1> DEFINE After(d) ==
             IF d = c THEN state
             ELSE IF \E i \in 1..first - 1 : d = rest[i] THEN Ended(d)
             ELSE IF next = <<>> \/ d # Head(next) THEN call[d]
             ELSE IF refreshFuture = None THEN [call[d] EXCEPT !.pc = "refreshing"]
             ELSE [call[d] EXCEPT !.new = call[c].new,
                                  !.pc = IF call[c].new = None THEN "failing" ELSE "retry"]
<1>6. errors' = next /\ refreshFuture' = None /\ call' = [d \in Calls |-> After(d)]
  BY DEF EndOfError, rest
<1> HIDE DEF S, first
<1>7. next \in Seq(Calls) /\ (next # <<>> => first <= Len(rest) /\ Head(next) = rest[first])
  BY <1>1, <1>4
<1> HIDE DEF next
<1>8. call'[c] = state
  <2>1. After(c) = state
    OBVIOUS
  <2> HIDE DEF After
  <2> QED BY <1>6, <2>1
<1>9. ASSUME NEW d \in Calls, d # c
      PROVE  call'[d] \in CallState /\ (call'[d] = call[d] \/ call'[d] = Ended(d) \/ Resumed(c, d))
  <2>1. call[d] \in CallState /\ call[c].new \in Maybe /\ Ended(d) \in CallState
    <3>1. call[d] \in CallState /\ call[c] \in CallState
      BY DEF TypeOK
    <3> QED BY <3>1, EndedState DEF CallState
  <2>0. call'[d] = After(d)
    <3> HIDE DEF After
    <3> QED BY <1>6
  <2>2. CASE \E i \in 1..first - 1 : d = rest[i]
    <3>1. After(d) = Ended(d)
      BY <1>9, <2>2
    <3> QED BY <2>0, <2>1, <3>1
  <2>3. CASE /\ ~ (\E i \in 1..first - 1 : d = rest[i])
             /\ next # <<>> /\ d = Head(next)
    <3>1. call[d].pc = "queued401" /\ errors' # <<>> /\ d = Head(errors')
      BY <1>5, <1>6, <1>7, <2>3
    <3>2. call'[d] = IF refreshFuture = None
                       THEN [call[d] EXCEPT !.pc = "refreshing"]
                       ELSE [call[d] EXCEPT !.new = call[c].new,
                                            !.pc = IF call[c].new = None THEN "failing" ELSE "retry"]
      BY <1>9, <2>0, <2>3
    <3>3. CASE refreshFuture = None
      <4>1. call'[d] = [call[d] EXCEPT !.pc = "refreshing"]
        BY <3>2, <3>3
      <4>2. call'[d] = [call[d] EXCEPT !.pc = "refreshing", !.new = call[d].new]
        BY <2>1, <4>1 DEF CallState
      <4>3. call'[d] \in CallState
        BY <2>1, <4>1 DEF CallState
      <4> QED BY <3>1, <4>2, <4>3 DEF Resumed
    <3>4. CASE refreshFuture # None /\ call[c].new = None
      <4>1. call'[d] = [call[d] EXCEPT !.pc = "failing", !.new = call[c].new]
        BY <2>1, <3>2, <3>4 DEF CallState
      <4>2. call'[d] \in CallState
        BY <2>1, <4>1 DEF CallState
      <4> QED BY <3>1, <4>1, <4>2 DEF Resumed
    <3>5. CASE refreshFuture # None /\ call[c].new # None
      <4>1. call'[d] = [call[d] EXCEPT !.pc = "retry", !.new = call[c].new]
        BY <2>1, <3>2, <3>5 DEF CallState
      <4>2. call'[d] \in CallState
        BY <2>1, <4>1 DEF CallState
      <4> QED BY <3>1, <3>5, <4>1, <4>2 DEF Resumed
    <3> QED BY <3>3, <3>4, <3>5
  <2>4. CASE /\ ~ (\E i \in 1..first - 1 : d = rest[i])
             /\ ~ (next # <<>> /\ d = Head(next))
    <3>1. After(d) = call[d]
      BY <1>9, <2>4
    <3> QED BY <2>0, <2>1, <3>1
  <2> QED BY <2>2, <2>3, <2>4
<1>10. call' \in [Calls -> CallState]
  <2>1. call' = [d \in Calls |-> call'[d]]
    <3> HIDE DEF After
    <3> QED BY <1>6
  <2> QED BY <1>8, <1>9, <2>1
<1> QED BY <1>6, <1>7, <1>8, <1>9, <1>10 DEF Returns

-----------------------------------------------------------------------------
(* Calls beside the one that takes the step *)

\* The other calls stay as they are, or are handed on when onError of c returns.
Handed(c) ==
    \A d \in Calls : d # c =>
        \/ call'[d] = call[d]
        \/ InOnError(c) /\ (call'[d] = Ended(d) \/ Resumed(c, d))

\* What that leaves of call d.
Bystander(c, d) ==
    /\ call'[d].kind \in {call[d].kind, "none"}
    /\ call[d] = Idle => call'[d] = Idle
    /\ {call'[d].body, call'[d].presented, call'[d].new}
         \subseteq {None, call[d].body, call[d].presented, call[d].new, call[c].new}
    /\ call'[d].pc \in {"saveAccess", "saveRefresh", "saveRole", "enter", "leave", "presented",
                        "answered", "newRefresh", "sent"} => call'[d] = call[d]
    /\ call'[d].kind = "logout" /\ call'[d].pc \notin {"clear", "leave"} =>
         /\ call[d].kind = "logout" /\ call[d].pc \notin {"clear", "leave"}
         /\ call'[d].body = call[d].body
    /\ InOnError(d) => call'[d] = call[d]
    /\ call'[d].pc = "retry" =>
         call'[d] = call[d] \/ (InOnError(c) /\ call'[d].new = call[c].new)

LEMMA Bystanders ==
    ASSUME TypeOK, OneInOnError, NEW c \in Calls, Handed(c), NEW d \in Calls, d # c
    PROVE  Bystander(c, d)
<1>1. call[d] \in CallState /\ call[c] \in CallState
  BY DEF TypeOK
<1>2. ~ (InOnError(c) /\ InOnError(d))
  BY DEF OneInOnError
<1>3. CASE call'[d] = call[d]
  BY <1>1, <1>3 DEF Bystander
<1>4. CASE InOnError(c) /\ call'[d] = Ended(d)
  <2>1. CASE Ended(d) = Idle
    <3>1. /\ call'[d] = Idle /\ call'[d].kind = "none" /\ call'[d].pc = "idle"
          /\ call'[d].body = None /\ call'[d].presented = None /\ call'[d].new = None
      BY <1>4, <2>1 DEF Idle
    <3> QED BY <1>2, <1>4, <3>1 DEF Bystander
  <2>2. CASE call[d].kind = "logout" /\ Ended(d) = [call[d] EXCEPT !.pc = "clear"]
    <3>1. /\ call'[d].kind = call[d].kind /\ call'[d].pc = "clear"
          /\ call'[d].body = call[d].body /\ call'[d].presented = call[d].presented
          /\ call'[d].new = call[d].new
      BY <1>4, <2>2, MovedState
    <3>2. call[d] # Idle
      BY <2>2 DEF Idle
    <3> QED BY <1>2, <1>4, <3>1, <3>2 DEF Bystander
  <2> QED BY <2>1, <2>2, EndedState
<1>5. CASE InOnError(c) /\ Resumed(c, d)
  <2>1. PICK pc \in {"refreshing", "retry", "failing"}, new \in {call[d].new, call[c].new} :
          /\ call'[d] = [call[d] EXCEPT !.pc = pc, !.new = new]
          /\ pc = "retry" => new = call[c].new
    BY <1>5 DEF Resumed
  <2>2. /\ call'[d].kind = call[d].kind /\ call'[d].pc = pc
        /\ call'[d].body = call[d].body /\ call'[d].presented = call[d].presented
        /\ call'[d].new = new
    BY <1>1, <2>1 DEF CallState
  <2>3. call[d].pc = "queued401"
    BY <1>5 DEF Resumed
  <2>4. call[d] # Idle
    BY <2>3 DEF Idle
  <2> QED BY <1>2, <1>5, <2>1, <2>2, <2>3, <2>4 DEF Bystander
<1> QED BY <1>3, <1>4, <1>5 DEF Handed

\* onError of c has returned: the next one is at the head of the queue.
LEMMA ReturnsHands ==
    ASSUME TypeOK, OneInOnError, NEW c \in Calls, InOnError(c), NEW state \in CallState,
           state.pc \notin {"refreshing", "presented", "answered", "newRefresh", "retry",
                            "failing", "stuck", "sent"},
           Returns(c, state)
    PROVE  Handed(c) /\ OneInOnError'
<1>1. Handed(c)
  BY DEF Returns, Handed
<1>2. ASSUME NEW d \in Calls, InOnError(d)' PROVE errors' # <<>> /\ d = Head(errors')
  <2>1. d # c
    BY <1>2 DEF Returns, InOnError
  <2>2. CASE call'[d] = call[d]
    BY <1>2, <2>1, <2>2 DEF OneInOnError, InOnError
  <2>3. CASE call'[d] = Ended(d)
    <3>1. call'[d].pc \in {"idle", "clear"}
      <4>1. CASE Ended(d) = Idle
        BY <2>3, <4>1 DEF Idle
      <4>2. CASE Ended(d) = [call[d] EXCEPT !.pc = "clear"]
        BY <2>3, <4>2, MovedState
      <4> QED BY <4>1, <4>2, EndedState
    <3> QED BY <1>2, <3>1 DEF InOnError
  <2>4. CASE Resumed(c, d)
    BY <2>4 DEF Resumed
  <2> QED BY <2>1, <2>2, <2>3, <2>4 DEF Returns
<1> QED BY <1>1, <1>2 DEF OneInOnError

\* The states in which an HTTP call that failed leaves c.
FailedState(c, state) ==
    \/ state = Ended(c)
    \/ \E pc \in {"stuck", "queued", "queued401", "refreshing"} :
         state = [call[c] EXCEPT !.pc = pc]

\* What the end of an HTTP call does to the calls and to the error queue.
HttpEnds(c) ==
    /\ call' \in [Calls -> CallState]
    /\ errors' \in Seq(Calls) /\ refreshFuture' \in Calls \cup {None}
    /\ Handed(c) /\ OneInOnError'

LEMMA FailsLeaves ==
    ASSUME TypeOK, OneInOnError, NEW c \in Calls, call[c].pc = "sent", NEW is401, Fails(c, is401)
    PROVE  HttpEnds(c) /\ FailedState(c, call'[c])
<1>0. errors \in Seq(Calls) /\ refreshFuture \in Calls \cup {None}
  BY DEF TypeOK
<1>1. PICK pc \in {"stuck", "queued", "queued401", "refreshing", "ended"} :
        /\ IF pc = "ended" THEN Becomes(c, Ended(c)) ELSE Moves(c, pc)
        /\ pc = "stuck" => call[c].retried /\ UNCHANGED <<errors, refreshFuture>>
        /\ pc \in {"queued", "queued401"} =>
             errors # <<>> /\ errors' = Append(errors, c) /\ UNCHANGED refreshFuture
        /\ pc = "refreshing" => errors = <<>> /\ errors' = <<c>> /\ refreshFuture' = c
        /\ pc = "ended" => UNCHANGED <<errors, refreshFuture>>
  BY DEF Fails
<1>2. CASE pc = "ended"
  <2>1. Alters(c, Ended(c))
    BY <1>1, <1>2, BecomesAlters, EndedState
  <2>2. ~ InOnError(c)'
    <3>1. call'[c].pc \in {"idle", "clear"}
      <4>1. CASE Ended(c) = Idle
        BY <2>1, <4>1 DEF Idle, Alters
      <4>2. CASE Ended(c) = [call[c] EXCEPT !.pc = "clear"]
        BY <2>1, <4>2, MovedState DEF Alters
      <4> QED BY <4>1, <4>2, EndedState
    <3> QED BY <3>1 DEF InOnError
  <2>3. OneInOnError'
    BY <1>1, <1>2, <2>1, <2>2 DEF OneInOnError, InOnError, Alters
  <2> QED BY <1>0, <1>1, <1>2, <2>1, <2>3 DEF HttpEnds, Handed, FailedState, Alters
<1>3. CASE pc # "ended"
  <2>1. /\ Alters(c, [call[c] EXCEPT !.pc = pc])
        /\ [call[c] EXCEPT !.pc = pc].pc = pc /\ [call[c] EXCEPT !.pc = pc].retried = call[c].retried
    <3>1. /\ [call[c] EXCEPT !.pc = pc] \in CallState
          /\ [call[c] EXCEPT !.pc = pc].pc = pc /\ [call[c] EXCEPT !.pc = pc].retried = call[c].retried
      <4>1. call[c] \in CallState
        BY DEF TypeOK
      <4> QED BY <1>3, <4>1 DEF CallState
    <3> QED BY <1>1, <1>3, <3>1, MovesAlters
  <2>2. call'[c].pc = pc /\ \A d \in Calls : d # c => call'[d] = call[d]
    BY <2>1 DEF Alters
  <2>3. OneInOnError'
    <3> SUFFICES ASSUME NEW d \in Calls, InOnError(d)'
                 PROVE  errors' # <<>> /\ d = Head(errors')
      BY DEF OneInOnError
    <3>1. d # c => InOnError(d)
      BY <2>2 DEF InOnError
    <3>2. CASE pc = "stuck"
      <4>1. InOnError(c)
        BY <1>1, <3>2 DEF InOnError
      <4> QED BY <1>1, <3>1, <3>2, <4>1 DEF OneInOnError
    <3>3. CASE pc \in {"queued", "queued401"}
      <4>1. d # c
        BY <2>2, <3>3 DEF InOnError
      <4>2. errors # <<>> /\ d = Head(errors) /\ errors' = Append(errors, c)
        BY <1>1, <3>1, <3>3, <4>1 DEF OneInOnError
      <4> QED BY <1>0, <4>2
    <3>4. CASE pc = "refreshing"
      <4>1. d = c
        BY <1>1, <3>1, <3>4 DEF OneInOnError
      <4> QED BY <1>1, <3>4, <4>1
    <3> QED BY <1>3, <3>2, <3>3, <3>4
  <2>4. errors' \in Seq(Calls) /\ refreshFuture' \in Calls \cup {None}
    <3>1. Append(errors, c) \in Seq(Calls) /\ <<c>> \in Seq(Calls)
      BY <1>0
    <3> QED BY <1>0, <1>1, <1>3, <3>1
  <2>5. FailedState(c, call'[c])
    BY <1>3, <2>1 DEF FailedState, Alters
  <2> QED BY <2>1, <2>2, <2>3, <2>4, <2>5 DEF HttpEnds, Handed, Alters
<1> QED BY <1>2, <1>3

LEMMA SucceedsLeaves ==
    ASSUME TypeOK, OneInOnError, NEW c \in Calls, call[c].pc = "sent", NEW state \in CallState,
           state.pc \notin {"refreshing", "presented", "answered", "newRefresh", "retry",
                            "failing", "stuck", "sent"},
           Succeeds(c, state)
    PROVE  HttpEnds(c) /\ call'[c] = state
<1>1. CASE call[c].retried
  <2>1. InOnError(c)
    BY <1>1 DEF InOnError
  <2>2. errors # <<>>
    BY <2>1 DEF OneInOnError
  <2>3. Returns(c, state)
    BY <1>1, <2>2, ErrorReturns DEF Succeeds
  <2>4. Handed(c) /\ OneInOnError'
    BY <2>1, <2>3, ReturnsHands
  <2> QED BY <2>3, <2>4 DEF HttpEnds, Returns
<1>2. CASE ~ call[c].retried
  <2>1. Alters(c, state) /\ UNCHANGED <<errors, refreshFuture>>
    BY <1>2, BecomesAlters DEF Succeeds
  <2>2. ~ InOnError(c)'
    BY <2>1 DEF InOnError, Alters
  <2>3. OneInOnError'
    BY <2>1, <2>2 DEF OneInOnError, InOnError, Alters
  <2> QED BY <2>1, <2>3 DEF HttpEnds, Handed, Alters, TypeOK
<1> QED BY <1>1, <1>2

-----------------------------------------------------------------------------
(* Steps of a call that store nothing *)

\* The API may have issued tokens, and revoked tokens of sessions that are excused.
ApiGrows ==
    /\ Len(family') <= MaxTokens
    /\ \A t \in DOMAIN family : t \in DOMAIN family' /\ family'[t] = family[t]
    /\ \A t \in revoked' : t \in revoked \/ (t \in DOMAIN family /\ family[t] \in excused')
    /\ excused \subseteq excused'

\* What such a step may do to its own call: at most a sign-in is given a token that
\* nobody has, and a call that holds an answer gives it up only as storage is cleared.
QuietCall(c) ==
    /\ call[c] # Idle /\ call[c].pc # "enter"
    /\ {call'[c].body, call'[c].presented, call'[c].new} \subseteq DOMAIN family' \cup {None}
    /\ call'[c].kind \in {call[c].kind, "none"}
    /\ call'[c].kind = "logout" /\ call'[c].pc \notin {"clear", "leave"} => call'[c].body # None
    /\ call'[c].pc \notin {"presented", "answered", "newRefresh", "saveRefresh", "saveRole", "enter"}
    /\ call'[c].pc = "saveAccess" =>
         /\ call'[c].kind = "public"
         /\ call'[c].body \in DOMAIN family' \ DOMAIN family
         /\ family'[call'[c].body] = call'[c].body
         /\ revoked' = revoked
    /\ call'[c].pc = "leave" => stored' = Cleared
    /\ InOnError(c) => \/ stored' = Cleared
                       \/ call[c].pc \in {"sent", "retry"}
                       \/ call[c].pc = "presented" /\ \A d \in Calls \ {c} : call'[d] = call[d]
    /\ ~raced /\ InOnError(c)' /\ call'[c].pc \in {"retry", "sent"} =>
         stored'.access \in {None, call'[c].new}

\* Members of Known are told from None.
LEMMA KnownTokens ==
    ASSUME TypeOK
    PROVE  /\ DOMAIN family \subseteq Nat /\ None \notin DOMAIN family /\ None \notin revoked
           /\ revoked \subseteq DOMAIN family
           /\ \A t \in DOMAIN family : family[t] \in Tokens
           /\ Len(family) \in Nat /\ DOMAIN family = 1..Len(family)
<1>1. family \in Seq(Tokens) /\ revoked \subseteq DOMAIN family
  BY DEF TypeOK
<1>2. Len(family) \in Nat /\ DOMAIN family = 1..Len(family)
  BY <1>1
<1> QED BY <1>1, <1>2, MobileAssumption

LEMMA QuietInv ==
    ASSUME IInv, TypeOK', OneInOnError', NEW c \in Calls, Handed(c), QuietCall(c), ApiGrows,
           UNCHANGED <<shown, boot, left, raced>>, stored' = stored \/ stored' = Cleared
    PROVE  IInv'
<1>0. TypeOK /\ TokensAreKnown /\ CallsAreFormed /\ OneInOnError
  BY DEF IInv
<1>1. \A d \in Calls : d # c => Bystander(c, d)
  BY <1>0, Bystanders
<1>2. /\ None \notin DOMAIN family /\ None \notin revoked /\ revoked \subseteq DOMAIN family
      /\ None \notin revoked' /\ None \notin DOMAIN family'
  <2>1. None \notin DOMAIN family /\ None \notin revoked /\ revoked \subseteq DOMAIN family
    BY <1>0, KnownTokens
  <2>2. None \notin revoked' /\ None \notin DOMAIN family'
    <3>1. family' \in Seq(Tokens) /\ revoked' \subseteq DOMAIN family'
      BY DEF TypeOK
    <3>2. Len(family') \in Nat /\ DOMAIN family' = 1..Len(family')
      BY <3>1
    <3> QED BY <3>1, <3>2, MobileAssumption
  <2> QED BY <2>1, <2>2
<1>3. Cleared.access = None /\ Cleared.refresh = None /\ Cleared.role = None
  BY DEF Cleared
<1>4. TokensAreKnown'
  <2>1. Known \subseteq Known'
    BY DEF Known, ApiGrows
  <2>2. {stored'.access, stored'.refresh, stored'.role, shown'} \subseteq Known'
    <3>1. {stored.access, stored.refresh, stored.role, shown} \subseteq Known
      BY <1>0 DEF TokensAreKnown
    <3> QED BY <1>3, <2>1, <3>1 DEF Known
  <2>3. \A d \in Calls : {call'[d].body, call'[d].presented, call'[d].new} \subseteq Known'
    <3> SUFFICES ASSUME NEW d \in Calls
                 PROVE  {call'[d].body, call'[d].presented, call'[d].new} \subseteq Known'
      OBVIOUS
    <3>1. CASE d = c
      BY <3>1 DEF QuietCall, Known
    <3>2. CASE d # c
      <4>1. {call[d].body, call[d].presented, call[d].new, call[c].new} \subseteq Known
        BY <1>0 DEF TokensAreKnown
      <4>2. {call'[d].body, call'[d].presented, call'[d].new} \subseteq Known
        BY <1>1, <3>2, <4>1 DEF Bystander, Known
      <4> QED BY <2>1, <4>2
    <3> QED BY <3>1, <3>2
  <2> QED BY <1>0, <2>2, <2>3 DEF TokensAreKnown, ApiGrows
<1>5. CallsAreFormed'
  <2> SUFFICES ASSUME NEW d \in Calls
               PROVE  /\ call'[d].pc \in {"saveAccess", "saveRefresh", "saveRole", "enter"} =>
                           /\ call'[d].kind = "public"
                           /\ call'[d].body # None
                           /\ family'[call'[d].body] = call'[d].body
                      /\ call'[d].kind = "logout" /\ call'[d].pc \notin {"clear", "leave"} =>
                           call'[d].body # None
                      /\ call'[d].pc \in {"answered", "newRefresh"} => call'[d].new # None
    BY DEF CallsAreFormed
  <2>1. CASE d = c
    BY <1>2, <2>1 DEF QuietCall
  <2>2. CASE d # c
    <3>1. Bystander(c, d)
      BY <1>1, <2>2
    <3>2. call[d].pc \in {"saveAccess", "saveRefresh", "saveRole", "enter"} =>
            call[d].body \in DOMAIN family
      BY <1>0 DEF CallsAreFormed, TokensAreKnown, Known
    <3> QED BY <1>0, <3>1, <3>2 DEF CallsAreFormed, Bystander, ApiGrows
  <2> QED BY <2>1, <2>2
<1>6. ReuseIsExplained'
  <2> SUFFICES ASSUME NEW d \in Calls, call'[d].pc = "presented", call'[d].presented \in revoked'
               PROVE  family'[call'[d].presented] \in excused'
    BY DEF ReuseIsExplained
  <2>1. call'[d] = call[d]
    BY <1>1 DEF QuietCall, Bystander
  <2>2. call[d].presented \in DOMAIN family
    BY <1>0, <1>2, <2>1 DEF TokensAreKnown, Known
  <2>3. call[d].presented \in revoked => family[call[d].presented] \in excused
    BY <2>1 DEF IInv, ReuseIsExplained
  <2> QED BY <2>1, <2>2, <2>3 DEF ApiGrows
<1>7. UnstoredIsUnused'
  <2>1. ASSUME NEW d \in Calls, d # c, NEW t \in Unstored(d)'
        PROVE  t \in Unstored(d) /\ t \in DOMAIN family
    <3>1. \/ call'[d].pc \in {"saveAccess", "saveRefresh"} /\ t = call'[d].body
          \/ call'[d].pc \in {"answered", "newRefresh"} /\ t = call'[d].new
      BY DEF Unstored
    <3>2. call'[d] = call[d]
      BY <1>1, <2>1, <3>1 DEF Bystander
    <3>3. t # None /\ t \in Known
      BY <1>0, <2>1, <3>1, <3>2 DEF TokensAreKnown, Unstored
    <3> QED BY <3>1, <3>2, <3>3 DEF Unstored, Known
  <2>2. ASSUME NEW t \in Unstored(c)'
        PROVE  t \in DOMAIN family' \ DOMAIN family /\ revoked' = revoked
    BY DEF Unstored, QuietCall
  <2>3. stored'.refresh \in {stored.refresh, None} /\ stored.refresh \in Known
    BY <1>0, <1>3 DEF TokensAreKnown
  <2>4. \A d \in Calls : call'[d].pc = "presented" => call'[d] = call[d] /\ call[d].presented \in Known
    BY <1>0, <1>1 DEF QuietCall, Bystander, TokensAreKnown
  <2> SUFFICES ASSUME NEW d \in Calls, NEW t \in Unstored(d)'
               PROVE  /\ t \in revoked' => family'[t] \in excused'
                      /\ t # stored'.refresh
                      /\ \A e \in Calls : /\ call'[e].pc = "presented" => call'[e].presented # t
                                          /\ e # d => t \notin Unstored(e)'
    BY DEF UnstoredIsUnused, Excused
  <2>5. CASE d = c
    <3>1. t \notin DOMAIN family /\ t # None /\ revoked' = revoked
      BY <1>2, <2>2, <2>5
    <3> QED BY <1>2, <2>1, <2>3, <2>4, <2>5, <3>1 DEF Known
  <2>6. CASE d # c
    <3>1. t \in Unstored(d) /\ t \in DOMAIN family
      BY <2>1, <2>6
    <3>2. /\ t \in revoked => family[t] \in excused
          /\ t # stored.refresh
          /\ \A e \in Calls : /\ call[e].pc = "presented" => call[e].presented # t
                              /\ e # d => t \notin Unstored(e)
      BY <3>1 DEF IInv, UnstoredIsUnused, Excused
    <3>3. t \in revoked' => family'[t] \in excused'
      BY <3>1, <3>2 DEF ApiGrows
    <3>4. \A e \in Calls : e # d => t \notin Unstored(e)'
      BY <2>1, <2>2, <3>1, <3>2
    <3> QED BY <1>2, <2>3, <2>4, <3>1, <3>2, <3>3, <3>4
  <2> QED BY <2>5, <2>6
<1>8. StoredIsUsable'
  <2> SUFFICES ASSUME stored'.refresh \in revoked', family'[stored'.refresh] \notin excused'
               PROVE  \E d \in Calls : /\ call'[d].pc \in {"answered", "newRefresh", "failing"}
                                       /\ call'[d].presented = stored'.refresh
    BY DEF StoredIsUsable, Excused
  <2>1. stored' = stored /\ stored' # Cleared
    BY <1>2, <1>3
  <2>2. stored.refresh \in revoked /\ ~Excused(stored.refresh)
    BY <1>2, <2>1 DEF ApiGrows, Excused
  <2>3. PICK d \in Calls : /\ call[d].pc \in {"answered", "newRefresh", "failing"}
                           /\ call[d].presented = stored.refresh
    BY <2>2 DEF IInv, StoredIsUsable
  <2>4. InOnError(d) /\ d # c
    BY <2>1, <2>3 DEF InOnError, QuietCall
  <2> QED BY <1>1, <2>1, <2>3, <2>4 DEF Bystander
<1>9. Orderly'
  <2> SUFFICES ASSUME ~raced
               PROVE  /\ SignInIsAlone' /\ LeftIsGone' /\ RoleIsOfTokens'
                      /\ SignInSaves' /\ RetryFindsAnswer'
    BY DEF Orderly
  <2>0. SignInIsAlone /\ LeftIsGone /\ RoleIsOfTokens /\ SignInSaves /\ RetryFindsAnswer
    BY DEF IInv, Orderly
  <2>1. \A d \in Calls : d # c => call[d].kind # "public"
    BY <2>0 DEF SignInIsAlone, QuietCall
  <2>2. \A d \in Calls : call'[d].pc \in {"saveRefresh", "saveRole", "enter"} => FALSE
    BY <1>0, <1>1, <2>1 DEF Bystander, QuietCall, CallsAreFormed
  <2>3. \A d \in Calls : call[d].pc = "enter" => FALSE
    BY <1>0, <2>1 DEF QuietCall, CallsAreFormed
  <2>4. SignInIsAlone'
    <3>1. boot.pc = "done"
      BY <2>0 DEF SignInIsAlone, QuietCall
    <3>2. ASSUME NEW d \in Calls, call'[d].kind = "public"
          PROVE  shown = None /\ \A e \in Calls \ {d} : call'[e] = Idle
      <4>1. d = c /\ call[c].kind = "public"
        BY <1>1, <2>1, <3>2 DEF Bystander, QuietCall
      <4> QED BY <1>1, <2>0, <4>1 DEF SignInIsAlone, Bystander
    <3> QED BY <3>1, <3>2 DEF SignInIsAlone
  <2>5. LeftIsGone'
    <3>1. {stored'.role, shown'} \cap left' = {}
      BY <1>0, <1>2, <1>3, <2>0 DEF LeftIsGone, TokensAreKnown
    <3>2. ASSUME NEW d \in Calls, call'[d].pc = "leave" PROVE stored'.role = None
      BY <1>1, <1>3, <2>0, <3>2 DEF LeftIsGone, Bystander, QuietCall
    <3>3. ASSUME NEW d \in Calls,
                 call'[d].pc \in {"saveAccess", "saveRefresh", "saveRole", "enter"}
          PROVE  call'[d].body \notin left'
      <4>1. CASE d = c
        BY <1>0, <3>3, <4>1 DEF QuietCall, TokensAreKnown
      <4>2. CASE d # c
        BY <1>1, <2>0, <3>3, <4>2 DEF LeftIsGone, Bystander
      <4> QED BY <4>1, <4>2
    <3> QED BY <3>1, <3>2, <3>3 DEF LeftIsGone
  <2>6. RoleIsOfTokens'
    <3> SUFFICES ASSUME stored'.role # None PROVE RoleIsOfTokens'
      BY DEF RoleIsOfTokens
    <3>1. stored' = stored
      BY <1>3
    <3>2. \A t \in {stored.access, stored.refresh} :
            t # None /\ family[t] = stored.role /\ family'[t] = stored.role
      BY <1>0, <2>0, <3>1 DEF RoleIsOfTokens, TokensAreKnown, Known, ApiGrows
    <3>3. ASSUME NEW d \in Calls, call'[d].pc \in {"presented", "answered", "newRefresh"}
          PROVE  /\ call'[d].pc = "presented" => family'[call'[d].presented] = stored.role
                 /\ call'[d].pc \in {"answered", "newRefresh"} => family'[call'[d].new] = stored.role
      <4>1. call'[d] = call[d]
        BY <1>1, <3>3 DEF Bystander, QuietCall
      <4>2. /\ call[d].pc = "presented" => call[d].presented \in DOMAIN family
            /\ call[d].pc \in {"answered", "newRefresh"} => call[d].new \in DOMAIN family
        BY <1>0 DEF TokensAreKnown, CallsAreFormed, TypeOK, Known
      <4> QED BY <2>0, <3>1, <3>3, <4>1, <4>2 DEF RoleIsOfTokens, ApiGrows
    <3> QED BY <3>1, <3>2, <3>3 DEF RoleIsOfTokens
  <2>7. SignInSaves'
    <3>1. boot.pc = "done" /\ shown = None => stored'.role = None
      BY <1>3, <2>0, <2>3 DEF SignInSaves
    <3>2. boot.pc = "role" /\ stored'.role # None => boot.access # None
      BY <1>3, <2>0 DEF SignInSaves
    <3> QED BY <2>2, <3>1, <3>2 DEF SignInSaves
  <2>8. RetryFindsAnswer'
    <3> SUFFICES ASSUME NEW d \in Calls, InOnError(d)', call'[d].pc \in {"newRefresh", "retry", "sent"}
                 PROVE  stored'.access \in {None, call'[d].new}
      BY DEF RetryFindsAnswer
    <3>1. CASE d = c
      BY <3>1 DEF QuietCall
    <3>2. CASE call'[d] = call[d]
      <4>1. InOnError(d)
        BY <3>2 DEF InOnError
      <4>2. stored.access \in {None, call[d].new}
        BY <2>0, <3>2, <4>1 DEF RetryFindsAnswer
      <4> QED BY <1>3, <3>2, <4>2
    <3>3. CASE d # c /\ call'[d] # call[d]
      <4>1. InOnError(c) /\ call'[d].new = call[c].new
        BY <1>1, <3>3 DEF Bystander
      <4>2. stored' = Cleared \/ call[c].pc \in {"sent", "retry"}
        BY <3>3, <4>1 DEF QuietCall
      <4>3. stored' = Cleared \/ stored.access \in {None, call[c].new}
        BY <2>0, <4>1, <4>2 DEF RetryFindsAnswer
      <4> QED BY <1>3, <4>1, <4>3
    <3> QED BY <3>1, <3>2, <3>3
  <2> QED BY <2>4, <2>5, <2>6, <2>7, <2>8
<1> QED BY <1>4, <1>5, <1>6, <1>7, <1>8, <1>9 DEF IInv

LEMMA QuietTyped ==
    ASSUME TypeOK, OneInOnError, NEW c \in Calls, Handed(c),
           call' \in [Calls -> CallState], call'[c].pc # "presented",
           errors' \in Seq(Calls), refreshFuture' \in Calls \cup {None},
           stored' = stored \/ stored' = Cleared, isLoading' \in BOOLEAN,
           UNCHANGED <<shown, boot, kills, left, raced>>,
           family' \in Seq(Tokens), revoked' \subseteq DOMAIN family', excused' \subseteq Tokens
    PROVE  TypeOK'
<1>1. Cleared \in [access : Maybe, refresh : Maybe, role : Maybe]
  BY DEF Cleared, Maybe
<1>2. stored' \in [access : Maybe, refresh : Maybe, role : Maybe]
  BY <1>1 DEF TypeOK
<1>3. \A d \in Calls : call'[d].pc = "presented" => call'[d].presented # None
  <2>1. \A d \in Calls : d # c => Bystander(c, d)
    BY Bystanders
  <2> QED BY <2>1 DEF Bystander, TypeOK
<1> QED BY <1>2, <1>3 DEF TypeOK

\* A call whose HTTP call has failed, or that has ended, keeps what it held.
LEMMA FailedIsQuiet ==
    ASSUME IInv, NEW c \in Calls, FailedState(c, call'[c]), ApiGrows,
           call[c].pc = "sent" \/ (call[c].pc = "failing" /\ stored' = Cleared)
    PROVE  QuietCall(c)
<1>0. TypeOK /\ TokensAreKnown /\ CallsAreFormed /\ call[c] \in CallState
  BY DEF IInv, TypeOK
<1>1. call[c] # Idle /\ (call[c].kind = "logout" => call[c].body # None)
  BY <1>0 DEF Idle, CallsAreFormed
<1>2. {call[c].body, call[c].presented, call[c].new} \subseteq DOMAIN family' \cup {None}
  BY <1>0 DEF TokensAreKnown, Known, ApiGrows
<1>3. CASE call'[c] = Idle
  BY <1>1, <1>3 DEF Idle, QuietCall, InOnError
<1>4. CASE call'[c] = [call[c] EXCEPT !.pc = "clear"]
  <2>1. /\ call'[c].pc = "clear" /\ call'[c].kind = call[c].kind /\ call'[c].body = call[c].body
        /\ call'[c].presented = call[c].presented /\ call'[c].new = call[c].new
    BY <1>0, <1>4, MovedState
  <2> QED BY <1>1, <1>2, <2>1 DEF QuietCall, InOnError
<1>5. CASE \E pc \in {"stuck", "queued", "queued401", "refreshing"} :
             call'[c] = [call[c] EXCEPT !.pc = pc]
  <2>1. PICK pc \in {"stuck", "queued", "queued401", "refreshing"} :
          call'[c] = [call[c] EXCEPT !.pc = pc]
    BY <1>5
  <2>2. /\ call'[c].pc = pc /\ call'[c].kind = call[c].kind /\ call'[c].body = call[c].body
        /\ call'[c].presented = call[c].presented /\ call'[c].new = call[c].new
    BY <1>0, <2>1 DEF CallState
  <2> QED BY <1>1, <1>2, <2>2 DEF QuietCall, InOnError
<1> QED BY <1>0, <1>3, <1>4, <1>5, EndedState DEF FailedState

\* Nothing about the API changes.
LEMMA ApiStays ==
    ASSUME IInv, UNCHANGED <<family, revoked, excused>>
    PROVE  /\ ApiGrows /\ family' \in Seq(Tokens) /\ revoked' \subseteq DOMAIN family'
           /\ excused' \subseteq Tokens
BY DEF IInv, TypeOK, TokensAreKnown, ApiGrows

LEMMA SendInv == ASSUME IInv, NEW c \in Calls, Send(c) PROVE IInv'
<1>0. TypeOK /\ TokensAreKnown /\ CallsAreFormed /\ OneInOnError /\ call[c] \in CallState
  BY DEF IInv, TypeOK
<1> DEFINE access == IF call[c].kind # "public" /\ stored.access # None THEN stored.access
                                                                       ELSE call[c].new
           state == [call[c] EXCEPT !.pc = "sent", !.retried = (call[c].pc = "retry"),
                                    !.access = access]
<1>1. /\ call[c].pc \in {"ready", "retry"} /\ Becomes(c, state)
      /\ UNCHANGED <<stored, shown, isLoading, boot, errors, refreshFuture, api, kills, history>>
  BY DEF Send
<1>2. access \in Maybe
  BY <1>0 DEF TypeOK, CallState
<1> HIDE DEF access
<1>3. /\ state \in CallState /\ state.pc = "sent" /\ state.retried = (call[c].pc = "retry")
      /\ state.kind = call[c].kind /\ state.body = call[c].body
      /\ state.presented = call[c].presented /\ state.new = call[c].new
  BY <1>0, <1>2 DEF CallState
<1> HIDE DEF state
<1>4. Alters(c, state)
  BY <1>0, <1>1, <1>3, BecomesAlters
<1>5. UNCHANGED <<family, revoked, excused, left, raced>>
  BY <1>1 DEF api, history
<1>6. ApiGrows /\ family' \in Seq(Tokens) /\ revoked' \subseteq DOMAIN family' /\ excused' \subseteq Tokens
  BY <1>5, ApiStays
<1>7. Handed(c)
  BY <1>4 DEF Alters, Handed
<1>8. OneInOnError'
  <2>1. InOnError(c)' => InOnError(c)
    BY <1>3, <1>4 DEF InOnError, Alters
  <2> QED BY <1>0, <1>1, <1>4, <2>1 DEF OneInOnError, InOnError, Alters
<1>9. TypeOK'
  BY <1>0, <1>1, <1>3, <1>4, <1>5, <1>6, <1>7, QuietTyped DEF Alters, TypeOK
<1>10. QuietCall(c)
  <2>1. call[c] # Idle /\ (call[c].kind = "logout" => call[c].body # None)
    BY <1>0, <1>1 DEF Idle, CallsAreFormed
  <2>2. {call[c].body, call[c].presented, call[c].new} \subseteq DOMAIN family' \cup {None}
    BY <1>0, <1>5 DEF TokensAreKnown, Known
  <2>3. InOnError(c)' /\ ~raced => stored.access \in {None, call[c].new}
    <3>1. InOnError(c)' => call[c].pc = "retry" /\ InOnError(c)
      BY <1>3, <1>4 DEF InOnError, Alters
    <3> QED BY <3>1 DEF IInv, Orderly, RetryFindsAnswer
  <2>4. InOnError(c) => call[c].pc = "retry"
    BY <1>1 DEF InOnError
  <2>5. /\ call'[c].pc = "sent" /\ call'[c].kind = call[c].kind /\ call'[c].body = call[c].body
        /\ call'[c].presented = call[c].presented /\ call'[c].new = call[c].new
        /\ stored' = stored /\ call[c].pc # "enter"
    BY <1>1, <1>3, <1>4 DEF Alters
  <2> QED BY <2>1, <2>2, <2>3, <2>4, <2>5 DEF QuietCall
<1> QED BY <1>1, <1>5, <1>6, <1>7, <1>8, <1>9, <1>10, QuietInv

LEMMA HandleAuthFailureInv == ASSUME IInv, NEW c \in Calls, HandleAuthFailure(c) PROVE IInv'
<1>0. TypeOK /\ OneInOnError
  BY DEF IInv
<1>1. /\ call[c].pc = "failing" /\ stored' = Cleared /\ EndOfError(c, Ended(c)) /\ Loaded
      /\ UNCHANGED <<shown, boot, kills, family, revoked, excused, left, raced>>
  BY DEF HandleAuthFailure, api, history
<1>2. InOnError(c) /\ errors # <<>>
  BY <1>0, <1>1 DEF InOnError, OneInOnError
<1>3. Ended(c) \in CallState /\ Ended(c).pc \in {"idle", "clear"}
  BY <1>0, EndedState
<1>4. Returns(c, Ended(c))
  BY <1>0, <1>1, <1>2, <1>3, ErrorReturns
<1>5. Handed(c) /\ OneInOnError'
  BY <1>0, <1>2, <1>3, <1>4, ReturnsHands
<1>6. ApiGrows /\ family' \in Seq(Tokens) /\ revoked' \subseteq DOMAIN family' /\ excused' \subseteq Tokens
  BY <1>1, ApiStays
<1>7. isLoading' \in BOOLEAN
  BY <1>1 DEF Loaded
<1>8. TypeOK'
  BY <1>0, <1>1, <1>3, <1>4, <1>5, <1>6, <1>7, QuietTyped DEF Returns
<1>9. QuietCall(c)
  BY <1>1, <1>4, <1>6, FailedIsQuiet DEF FailedState, Returns
<1> QED BY <1>1, <1>5, <1>6, <1>8, <1>9, QuietInv

LEMMA LogoutClearInv == ASSUME IInv, NEW c \in Calls, LogoutClear(c) PROVE IInv'
<1>0. TypeOK /\ TokensAreKnown /\ OneInOnError
  BY DEF IInv
<1>1. /\ call[c].pc = "clear" /\ stored' = Cleared /\ Moves(c, "leave")
      /\ UNCHANGED <<shown, isLoading, boot, errors, refreshFuture, kills>>
      /\ UNCHANGED <<family, revoked, excused, left, raced>>
  BY DEF LogoutClear, api, history
<1>2. /\ Alters(c, [call[c] EXCEPT !.pc = "leave"])
      /\ call'[c].pc = "leave" /\ call'[c].kind = call[c].kind /\ call'[c].body = call[c].body
      /\ call'[c].presented = call[c].presented /\ call'[c].new = call[c].new
  <2>1. /\ [call[c] EXCEPT !.pc = "leave"] \in CallState
        /\ [call[c] EXCEPT !.pc = "leave"].pc = "leave"
        /\ [call[c] EXCEPT !.pc = "leave"].kind = call[c].kind
        /\ [call[c] EXCEPT !.pc = "leave"].body = call[c].body
        /\ [call[c] EXCEPT !.pc = "leave"].presented = call[c].presented
        /\ [call[c] EXCEPT !.pc = "leave"].new = call[c].new
    BY <1>0, MovedState
  <2>2. Alters(c, [call[c] EXCEPT !.pc = "leave"])
    BY <1>0, <1>1, <2>1, MovesAlters
  <2> QED BY <2>1, <2>2 DEF Alters
<1>3. ApiGrows /\ family' \in Seq(Tokens) /\ revoked' \subseteq DOMAIN family' /\ excused' \subseteq Tokens
  BY <1>1, ApiStays
<1>4. Handed(c)
  BY <1>2 DEF Alters, Handed
<1>5. OneInOnError'
  BY <1>0, <1>1, <1>2 DEF OneInOnError, InOnError, Alters
<1>6. TypeOK'
  BY <1>0, <1>1, <1>2, <1>3, <1>4, QuietTyped DEF Alters, TypeOK
<1>7. QuietCall(c)
  <2>1. {call[c].body, call[c].presented, call[c].new} \subseteq DOMAIN family' \cup {None}
    BY <1>0, <1>1 DEF TokensAreKnown, Known
  <2> QED BY <1>1, <1>2, <2>1 DEF QuietCall, InOnError, Idle
<1> QED BY <1>1, <1>3, <1>4, <1>5, <1>6, <1>7, QuietInv

\* A token that the API issues is new.
LEMMA NewTokenIsNew ==
    ASSUME IInv, MayIssue, NEW f \in Tokens, family' = Append(family, f)
    PROVE  /\ NewToken \in Tokens /\ NewToken \notin DOMAIN family /\ NewToken # None
           /\ family' \in Seq(Tokens) /\ DOMAIN family' = DOMAIN family \cup {NewToken}
           /\ family'[NewToken] = f /\ \A t \in DOMAIN family : family'[t] = family[t]
           /\ Len(family') <= MaxTokens
<1>1. TypeOK /\ family \in Seq(Tokens)
  BY DEF IInv, TypeOK
<1>2. Len(family) \in Nat /\ DOMAIN family = 1..Len(family) /\ Len(family) < MaxTokens
      /\ None \notin Nat /\ MaxTokens \in Nat
  BY <1>1, MobileAssumption DEF MayIssue
<1> QED BY <1>1, <1>2 DEF NewToken, Tokens

LEMMA ServeProtectedInv == ASSUME IInv, NEW c \in Calls, ServeProtected(c) PROVE IInv'
<1>0. TypeOK /\ CallsAreFormed /\ TokensAreKnown /\ OneInOnError
  BY DEF IInv
<1>1. /\ call[c].pc = "sent" /\ Loaded
      /\ UNCHANGED <<stored, shown, boot, family, kills, left, raced>>
      /\ \/ Succeeds(c, Ended(c))
         \/ \E is401 \in BOOLEAN : Fails(c, is401)
      /\ \/ /\ call[c].kind = "logout"
            /\ revoked' = revoked \cup {call[c].body}
            /\ excused' = excused \cup {family[call[c].body]}
         \/ UNCHANGED <<revoked, excused>>
  BY DEF ServeProtected
<1>2. /\ ApiGrows /\ family' \in Seq(Tokens) /\ revoked' \subseteq DOMAIN family'
      /\ excused' \subseteq Tokens
  <2>1. CASE UNCHANGED <<revoked, excused>>
    BY <1>1, <2>1, ApiStays
  <2>2. CASE /\ call[c].kind = "logout"
             /\ revoked' = revoked \cup {call[c].body}
             /\ excused' = excused \cup {family[call[c].body]}
    <3>1. call[c].body \in DOMAIN family
      BY <1>0, <1>1, <2>2 DEF CallsAreFormed, TokensAreKnown, Known
    <3>2. family \in Seq(Tokens) /\ family[call[c].body] \in Tokens /\ Len(family) <= MaxTokens
          /\ revoked \subseteq DOMAIN family /\ excused \subseteq Tokens
      BY <1>0, <3>1 DEF TypeOK, TokensAreKnown
    <3> QED BY <1>1, <2>2, <3>1, <3>2 DEF ApiGrows
  <2> QED BY <1>1, <2>1, <2>2
<1>3. HttpEnds(c) /\ FailedState(c, call'[c])
  <2>1. CASE Succeeds(c, Ended(c))
    <3>1. Ended(c) \in CallState /\ Ended(c).pc \in {"idle", "clear"}
      BY <1>0, EndedState
    <3> QED BY <1>0, <1>1, <2>1, <3>1, SucceedsLeaves DEF FailedState
  <2>2. CASE \E is401 \in BOOLEAN : Fails(c, is401)
    BY <1>0, <1>1, <2>2, FailsLeaves
  <2> QED BY <1>1, <2>1, <2>2
<1>4. QuietCall(c)
  BY <1>1, <1>2, <1>3, FailedIsQuiet
<1>5. isLoading' \in BOOLEAN
  BY <1>1 DEF Loaded
<1>6. TypeOK'
  BY <1>0, <1>1, <1>2, <1>3, <1>4, <1>5, QuietTyped DEF HttpEnds, QuietCall
<1> QED BY <1>1, <1>2, <1>3, <1>4, <1>6, QuietInv DEF HttpEnds

LEMMA ServePublicInv == ASSUME IInv, NEW c \in Calls, ServePublic(c) PROVE IInv'
<1>0. TypeOK /\ CallsAreFormed /\ TokensAreKnown /\ OneInOnError /\ call[c] \in CallState
  BY DEF IInv, TypeOK
<1> DEFINE state == [call[c] EXCEPT !.pc = "saveAccess", !.body = NewToken]
<1>1. /\ call[c].pc = "sent" /\ call[c].kind = "public" /\ Loaded
      /\ UNCHANGED <<stored, shown, boot, revoked, kills, excused, left, raced>>
      /\ \/ MayIssue /\ family' = Append(family, NewToken)
         \/ UNCHANGED family
      /\ \/ MayIssue /\ family' = Append(family, NewToken) /\ Succeeds(c, state)
         \/ Succeeds(c, Idle)
         \/ \E is401 \in BOOLEAN : Fails(c, is401)
  BY DEF ServePublic, history
<1>2. /\ ApiGrows /\ family' \in Seq(Tokens) /\ revoked' \subseteq DOMAIN family'
      /\ excused' \subseteq Tokens
  <2>1. CASE UNCHANGED family
    BY <1>1, <2>1, ApiStays
  <2>2. CASE MayIssue /\ family' = Append(family, NewToken)
    <3>1. NewToken \in Tokens
      <4>1. Len(family) \in Nat /\ Len(family) < MaxTokens /\ MaxTokens \in Nat
        BY <1>0, <2>2, KnownTokens, MobileAssumption DEF MayIssue
      <4> QED BY <4>1 DEF NewToken, Tokens
    <3>2. /\ family' \in Seq(Tokens) /\ DOMAIN family' = DOMAIN family \cup {NewToken}
          /\ \A t \in DOMAIN family : family'[t] = family[t]
          /\ Len(family') <= MaxTokens
      BY <2>2, <3>1, NewTokenIsNew
    <3>3. revoked \subseteq DOMAIN family /\ excused \subseteq Tokens
      BY <1>0 DEF TypeOK
    <3> QED BY <1>1, <3>2, <3>3 DEF ApiGrows
  <2> QED BY <1>1, <2>1, <2>2
<1>3. HttpEnds(c) /\ QuietCall(c)
  <2>1. CASE MayIssue /\ family' = Append(family, NewToken) /\ Succeeds(c, state)
    <3>1. /\ NewToken \in Tokens /\ NewToken \notin DOMAIN family
          /\ DOMAIN family' = DOMAIN family \cup {NewToken} /\ family'[NewToken] = NewToken
      <4>1. Len(family) \in Nat /\ Len(family) < MaxTokens /\ MaxTokens \in Nat
        BY <1>0, <2>1, KnownTokens, MobileAssumption DEF MayIssue
      <4>2. NewToken \in Tokens
        BY <4>1 DEF NewToken, Tokens
      <4> QED BY <2>1, <4>2, NewTokenIsNew
    <3>2. /\ state \in CallState /\ state.pc = "saveAccess" /\ state.body = NewToken
          /\ state.kind = "public" /\ state.presented = call[c].presented /\ state.new = call[c].new
      BY <1>0, <1>1, <3>1 DEF CallState, Maybe
    <3> HIDE DEF state
    <3>3. HttpEnds(c) /\ call'[c] = state
      BY <1>0, <1>1, <2>1, <3>2, SucceedsLeaves
    <3>4. {call[c].presented, call[c].new} \subseteq DOMAIN family' \cup {None}
      BY <1>0, <1>2 DEF TokensAreKnown, Known, ApiGrows
    <3>5. call[c] # Idle
      BY <1>1 DEF Idle
    <3>6. QuietCall(c)
      BY <1>1, <3>1, <3>2, <3>3, <3>4, <3>5 DEF QuietCall
    <3> QED BY <3>3, <3>6
  <2>2. CASE Succeeds(c, Idle)
    <3>1. Idle = Ended(c)
      BY <1>1 DEF Ended
    <3>2. Idle \in CallState /\ Idle.pc = "idle"
      BY <1>0, EndedState DEF Idle
    <3>3. HttpEnds(c) /\ call'[c] = Idle
      BY <1>0, <1>1, <2>2, <3>2, SucceedsLeaves
    <3> QED BY <1>1, <1>2, <3>1, <3>3, FailedIsQuiet DEF FailedState
  <2>3. CASE \E is401 \in BOOLEAN : Fails(c, is401)
    <3>1. HttpEnds(c) /\ FailedState(c, call'[c])
      BY <1>0, <1>1, <2>3, FailsLeaves
    <3> QED BY <1>1, <1>2, <3>1, FailedIsQuiet
  <2> QED BY <1>1, <2>1, <2>2, <2>3
<1>4. isLoading' \in BOOLEAN
  BY <1>1 DEF Loaded
<1>5. TypeOK'
  BY <1>0, <1>1, <1>2, <1>3, <1>4, QuietTyped DEF HttpEnds, QuietCall
<1> QED BY <1>1, <1>2, <1>3, <1>5, QuietInv DEF HttpEnds

-----------------------------------------------------------------------------
(* Steps of a call that read or write the storage *)

\* What such a step does to its own call and the storage: the refresh token stored next
\* is one the call held for that, a presented one is read from storage, and the answer
\* of a refresh is given up for the storage alone.
LocalCall(c) ==
    /\ {stored'.access, stored'.refresh, stored'.role, shown'} \subseteq Known
    /\ left' \subseteq DOMAIN family
    /\ {call'[c].body, call'[c].presented, call'[c].new} \subseteq Known
    /\ call'[c].pc \in {"saveAccess", "saveRefresh", "saveRole", "enter"} =>
         /\ call'[c].kind = "public"
         /\ call'[c].body # None
         /\ family[call'[c].body] = call'[c].body
    /\ call'[c].kind = "logout" /\ call'[c].pc \notin {"clear", "leave"} => call'[c].body # None
    /\ call'[c].pc \in {"answered", "newRefresh"} => call'[c].new # None
    /\ InOnError(c)' => InOnError(c)
    /\ call'[c].pc = "presented" =>
         call[c].pc = "refreshing" /\ call'[c].presented = stored.refresh
    /\ Unstored(c)' \subseteq Unstored(c)
    /\ \/ /\ stored'.refresh = stored.refresh
          /\ call[c].pc \in {"answered", "newRefresh", "failing"} =>
               /\ call'[c].pc \in {"answered", "newRefresh", "failing"}
               /\ call'[c].presented = call[c].presented
       \/ stored'.refresh \in Unstored(c) /\ Unstored(c)' = {}

LEMMA LocalKeeps ==
    ASSUME IInv, TypeOK', NEW c \in Calls, NEW state, Alters(c, state), LocalCall(c),
           UNCHANGED <<family, revoked, excused, errors>>
    PROVE  /\ TokensAreKnown' /\ CallsAreFormed' /\ OneInOnError' /\ ReuseIsExplained'
           /\ UnstoredIsUnused' /\ StoredIsUsable'
<1>0. TypeOK /\ TokensAreKnown /\ CallsAreFormed /\ OneInOnError
  BY DEF IInv
<1>1. \A d \in Calls : d # c => call'[d] = call[d]
  BY DEF Alters
<1>2. Known' = Known /\ \A d \in Calls : d # c => Unstored(d)' = Unstored(d)
  BY <1>1 DEF Known, Unstored
<1>3. TokensAreKnown'
  BY <1>0, <1>1, <1>2 DEF TokensAreKnown, LocalCall
<1>4. CallsAreFormed'
  BY <1>0, <1>1 DEF CallsAreFormed, LocalCall
<1>5. OneInOnError'
  BY <1>0, <1>1 DEF OneInOnError, LocalCall, InOnError
<1>6. ReuseIsExplained'
  <2> SUFFICES ASSUME NEW d \in Calls, call'[d].pc = "presented", call'[d].presented \in revoked
               PROVE  family[call'[d].presented] \in excused
    BY DEF ReuseIsExplained
  <2>1. CASE d # c
    BY <1>1, <2>1 DEF IInv, ReuseIsExplained
  <2>2. CASE d = c
    <3>1. call[c].pc = "refreshing" /\ call'[c].presented = stored.refresh
      BY <2>2 DEF LocalCall
    <3>2. \A e \in Calls : call[e].pc \notin {"answered", "newRefresh", "failing"}
      BY <1>0, <3>1 DEF OneInOnError, InOnError
    <3> QED BY <2>2, <3>1, <3>2 DEF IInv, StoredIsUsable, Excused
  <2> QED BY <2>1, <2>2
<1>7. UnstoredIsUnused'
  <2> SUFFICES ASSUME NEW d \in Calls, NEW t \in Unstored(d)'
               PROVE  /\ t \in revoked => family[t] \in excused
                      /\ t # stored'.refresh
                      /\ \A e \in Calls : /\ call'[e].pc = "presented" => call'[e].presented # t
                                          /\ e # d => t \notin Unstored(e)'
    BY DEF UnstoredIsUnused, Excused
  <2>1. t \in Unstored(d) /\ \A e \in Calls : Unstored(e)' \subseteq Unstored(e)
    BY <1>2 DEF LocalCall
  <2>2. /\ t \in revoked => family[t] \in excused
        /\ t # stored.refresh
        /\ \A e \in Calls : /\ call[e].pc = "presented" => call[e].presented # t
                            /\ e # d => t \notin Unstored(e)
    BY <2>1 DEF IInv, UnstoredIsUnused, Excused
  <2>3. t # stored'.refresh
    <3>1. CASE stored'.refresh \in Unstored(c) /\ Unstored(c)' = {}
      BY <2>1, <2>2, <3>1
    <3> QED BY <2>2, <3>1 DEF LocalCall
  <2>4. \A e \in Calls : call'[e].pc = "presented" => call'[e].presented # t
    BY <1>1, <2>2 DEF LocalCall
  <2> QED BY <2>1, <2>2, <2>3, <2>4
<1>8. StoredIsUsable'
  <2> SUFFICES ASSUME stored'.refresh \in revoked, family[stored'.refresh] \notin excused
               PROVE  \E d \in Calls : /\ call'[d].pc \in {"answered", "newRefresh", "failing"}
                                       /\ call'[d].presented = stored'.refresh
    BY DEF StoredIsUsable, Excused
  <2>1. stored'.refresh \notin Unstored(c)
    BY DEF IInv, UnstoredIsUnused, Excused
  <2>2. stored'.refresh = stored.refresh
    BY <2>1 DEF LocalCall
  <2>3. PICK d \in Calls : /\ call[d].pc \in {"answered", "newRefresh", "failing"}
                           /\ call[d].presented = stored.refresh
    BY <2>2 DEF IInv, StoredIsUsable, Excused
  <2> QED BY <1>1, <2>1, <2>2, <2>3 DEF LocalCall
<1> QED BY <1>3, <1>4, <1>5, <1>6, <1>7, <1>8

\* A call that was not idle starts no sign-in, so a sign-in stays alone.
LEMMA AloneStays ==
    ASSUME SignInIsAlone, NEW c \in Calls, NEW state, Alters(c, state), call[c] # Idle,
           state.kind \in {call[c].kind, "none"}, boot' = boot,
           shown' \in {shown, None} \/ (call[c].kind = "public" /\ state.kind = "none")
    PROVE  SignInIsAlone'
<1>1. boot.pc = "done"
  BY DEF SignInIsAlone
<1>2. ASSUME NEW d \in Calls, call'[d].kind = "public"
      PROVE  shown' = None /\ \A e \in Calls \ {d} : call'[e] = Idle
  <2>1. call[d].kind = "public"
    BY <1>2 DEF Alters
  <2>2. shown = None /\ \A e \in Calls \ {d} : call[e] = Idle
    BY <2>1 DEF SignInIsAlone
  <2>3. d = c
    BY <2>2
  <2> QED BY <1>2, <2>2, <2>3 DEF Alters
<1> QED BY <1>1, <1>2 DEF SignInIsAlone

LEMMA ReadRefreshInv == ASSUME IInv, NEW c \in Calls, ReadRefresh(c) PROVE IInv'
<1>0. TypeOK /\ TokensAreKnown /\ CallsAreFormed /\ OneInOnError /\ call[c] \in CallState
  BY DEF IInv, TypeOK
<1> DEFINE pc == IF stored.refresh = None THEN "failing" ELSE "presented"
           state == [call[c] EXCEPT !.presented = stored.refresh, !.pc = pc]
<1>1. /\ call[c].pc = "refreshing" /\ Becomes(c, state)
      /\ UNCHANGED <<stored, shown, isLoading, boot, errors, refreshFuture, kills>>
      /\ UNCHANGED <<family, revoked, excused, left, raced>>
  BY DEF ReadRefresh, api, history
<1>2. /\ state \in CallState /\ state.pc = pc /\ state.presented = stored.refresh
      /\ state.kind = call[c].kind /\ state.body = call[c].body /\ state.new = call[c].new
  BY <1>0 DEF CallState, TypeOK
<1> HIDE DEF state
<1>3. Alters(c, state)
  BY <1>0, <1>1, <1>2, BecomesAlters
<1>4. /\ call'[c].pc = pc /\ call'[c].presented = stored.refresh
      /\ call'[c].kind = call[c].kind /\ call'[c].body = call[c].body /\ call'[c].new = call[c].new
      /\ \A d \in Calls : d # c => call'[d] = call[d]
  BY <1>2, <1>3 DEF Alters
<1>5. TypeOK'
  BY <1>0, <1>1, <1>3, <1>4 DEF TypeOK, Alters
<1>6. LocalCall(c)
  <2>1. InOnError(c)
    BY <1>1 DEF InOnError
  <2>2. Unstored(c)' = {}
    BY <1>4 DEF Unstored
  <2> QED BY <1>0, <1>1, <1>4, <2>1, <2>2 DEF LocalCall, TokensAreKnown, CallsAreFormed, Known
<1>7. /\ TokensAreKnown' /\ CallsAreFormed' /\ OneInOnError' /\ ReuseIsExplained'
      /\ UnstoredIsUnused' /\ StoredIsUsable'
  BY <1>1, <1>3, <1>5, <1>6, LocalKeeps
<1>8. Orderly'
  <2> SUFFICES ASSUME ~raced
               PROVE  /\ SignInIsAlone' /\ LeftIsGone' /\ RoleIsOfTokens'
                      /\ SignInSaves' /\ RetryFindsAnswer'
    BY <1>1 DEF Orderly
  <2>0. SignInIsAlone /\ LeftIsGone /\ RoleIsOfTokens /\ SignInSaves /\ RetryFindsAnswer
    BY DEF IInv, Orderly
  <2>1. SignInIsAlone'
    <3>1. call[c] # Idle
      BY <1>1 DEF Idle
    <3> QED BY <1>1, <1>2, <1>3, <2>0, <3>1, AloneStays
  <2>2. LeftIsGone'
    BY <1>1, <1>4, <2>0 DEF LeftIsGone
  <2>3. RoleIsOfTokens'
    BY <1>1, <1>4, <2>0 DEF RoleIsOfTokens
  <2>4. SignInSaves'
    BY <1>1, <1>4, <2>0 DEF SignInSaves
  <2>5. RetryFindsAnswer'
    BY <1>1, <1>4, <2>0 DEF RetryFindsAnswer, InOnError
  <2> QED BY <2>1, <2>2, <2>3, <2>4, <2>5
<1> QED BY <1>5, <1>7, <1>8 DEF IInv


\* What Moves does to the fields of the call.
LEMMA MovesFields ==
    ASSUME TypeOK, NEW c \in Calls,
           NEW pc \in {"idle", "ready", "sent", "queued", "queued401", "refreshing", "presented",
                       "answered", "newRefresh", "retry", "failing", "stuck", "saveAccess",
                       "saveRefresh", "saveRole", "enter", "clear", "leave"},
           Moves(c, pc)
    PROVE  /\ Alters(c, [call[c] EXCEPT !.pc = pc]) /\ [call[c] EXCEPT !.pc = pc].kind = call[c].kind
           /\ call'[c].pc = pc /\ call'[c].kind = call[c].kind /\ call'[c].body = call[c].body
           /\ call'[c].presented = call[c].presented /\ call'[c].new = call[c].new
           /\ call' \in [Calls -> CallState]
           /\ \A d \in Calls : d # c => call'[d] = call[d]
<1>1. /\ [call[c] EXCEPT !.pc = pc] \in CallState
      /\ [call[c] EXCEPT !.pc = pc].pc = pc
      /\ [call[c] EXCEPT !.pc = pc].kind = call[c].kind
      /\ [call[c] EXCEPT !.pc = pc].body = call[c].body
      /\ [call[c] EXCEPT !.pc = pc].presented = call[c].presented
      /\ [call[c] EXCEPT !.pc = pc].new = call[c].new
  <2>1. call[c] \in CallState
    BY DEF TypeOK
  <2> QED BY <2>1 DEF CallState
<1>2. Alters(c, [call[c] EXCEPT !.pc = pc])
  BY <1>1, MovesAlters
<1> QED BY <1>1, <1>2 DEF Alters

\* What a sign-in that is alone finds.
LEMMA AloneFinds ==
    ASSUME IInv, ~raced, NEW c \in Calls, call[c].kind = "public"
    PROVE  /\ boot.pc = "done" /\ shown = None
           /\ \A d \in Calls : d # c => call[d] = Idle /\ call[d].kind = "none" /\ call[d].pc = "idle"
           /\ call[c].pc # "enter" => stored.role = None
<1>1. SignInIsAlone /\ SignInSaves
  BY DEF IInv, Orderly
<1>2. /\ boot.pc = "done" /\ shown = None
      /\ \A d \in Calls : d # c => call[d] = Idle
  BY <1>1 DEF SignInIsAlone
<1>3. \A d \in Calls : d # c => call[d].kind = "none" /\ call[d].pc = "idle"
  BY <1>2 DEF Idle
<1> QED BY <1>1, <1>2, <1>3 DEF SignInSaves

\* The rest of the invariant, for a step of a sign-in or of a refresh.
LEMMA LocalOrderly ==
    ASSUME IInv, TypeOK', NEW c \in Calls, NEW state, Alters(c, state), LocalCall(c),
           UNCHANGED <<family, revoked, excused, errors>>, raced' = raced,
           ~raced => /\ SignInIsAlone' /\ LeftIsGone' /\ RoleIsOfTokens'
                     /\ SignInSaves' /\ RetryFindsAnswer'
    PROVE  IInv'
BY LocalKeeps DEF IInv, Orderly

LEMMA SaveAccessOfSignIn ==
    ASSUME IInv, NEW c \in Calls, SaveAccess(c), call[c].pc = "saveAccess" PROVE IInv'
<1>0. TypeOK /\ TokensAreKnown /\ CallsAreFormed /\ OneInOnError
  BY DEF IInv
<1>1. /\ stored' = [stored EXCEPT !.access = call[c].body] /\ Moves(c, "saveRefresh")
      /\ UNCHANGED <<shown, isLoading, boot, errors, refreshFuture, kills>>
      /\ UNCHANGED <<family, revoked, excused, left, raced>>
  BY DEF SaveAccess, api, history
<1>2. /\ call[c].kind = "public" /\ call[c].body # None /\ call[c].body \in Known
      /\ call[c].body \in Maybe /\ family[call[c].body] = call[c].body
  BY <1>0 DEF CallsAreFormed, TokensAreKnown, TypeOK, CallState
<1>3. /\ stored'.access = call[c].body /\ stored'.refresh = stored.refresh
      /\ stored'.role = stored.role
      /\ stored' \in [access : Maybe, refresh : Maybe, role : Maybe]
  BY <1>0, <1>1, <1>2 DEF TypeOK
<1>4. /\ Alters(c, [call[c] EXCEPT !.pc = "saveRefresh"])
      /\ [call[c] EXCEPT !.pc = "saveRefresh"].kind = call[c].kind
      /\ call'[c].pc = "saveRefresh" /\ call'[c].kind = call[c].kind /\ call'[c].body = call[c].body
      /\ call'[c].presented = call[c].presented /\ call'[c].new = call[c].new
      /\ call' \in [Calls -> CallState]
      /\ \A d \in Calls : d # c => call'[d] = call[d]
  BY <1>0, <1>1, MovesFields
<1>5. TypeOK'
  BY <1>0, <1>1, <1>3, <1>4 DEF TypeOK
<1>6. LocalCall(c)
  <2>1. Unstored(c)' \subseteq Unstored(c)
    BY <1>1, <1>4 DEF Unstored, Known
  <2>2. ~ InOnError(c)'
    BY <1>4 DEF InOnError
  <2> QED BY <1>0, <1>1, <1>2, <1>3, <1>4, <2>1, <2>2 DEF LocalCall, TokensAreKnown
<1>7. ASSUME ~raced
      PROVE  SignInIsAlone' /\ LeftIsGone' /\ RoleIsOfTokens' /\ SignInSaves' /\ RetryFindsAnswer'
  <2>0. SignInIsAlone /\ LeftIsGone
    BY <1>7 DEF IInv, Orderly
  <2>1. /\ boot.pc = "done" /\ shown = None /\ stored.role = None
        /\ \A d \in Calls : d # c => call[d] = Idle /\ call[d].kind = "none" /\ call[d].pc = "idle"
    BY <1>2, <1>7, AloneFinds
  <2>2. SignInIsAlone'
    BY <1>1, <1>4, <2>1 DEF SignInIsAlone
  <2>3. LeftIsGone'
    BY <1>1, <1>3, <1>4, <2>0, <2>1 DEF LeftIsGone
  <2>4. RoleIsOfTokens'
    BY <1>3, <2>1 DEF RoleIsOfTokens
  <2>5. SignInSaves'
    BY <1>1, <1>3, <1>4, <2>1 DEF SignInSaves
  <2>6. RetryFindsAnswer'
    BY <1>4, <2>1 DEF RetryFindsAnswer
  <2> QED BY <2>2, <2>3, <2>4, <2>5, <2>6
<1> QED BY <1>1, <1>4, <1>5, <1>6, <1>7, LocalOrderly

LEMMA SaveAccessOfRefresh ==
    ASSUME IInv, NEW c \in Calls, SaveAccess(c), call[c].pc = "answered" PROVE IInv'
<1>0. TypeOK /\ TokensAreKnown /\ CallsAreFormed /\ OneInOnError
  BY DEF IInv
<1>1. /\ stored' = [stored EXCEPT !.access = call[c].new] /\ Moves(c, "newRefresh")
      /\ UNCHANGED <<shown, isLoading, boot, errors, refreshFuture, kills>>
      /\ UNCHANGED <<family, revoked, excused, left, raced>>
  BY DEF SaveAccess, api, history
<1>2. call[c].new # None /\ call[c].new \in Known /\ call[c].new \in Maybe
  BY <1>0 DEF CallsAreFormed, TokensAreKnown, TypeOK, CallState
<1>3. /\ stored'.access = call[c].new /\ stored'.refresh = stored.refresh
      /\ stored'.role = stored.role
      /\ stored' \in [access : Maybe, refresh : Maybe, role : Maybe]
  BY <1>0, <1>1, <1>2 DEF TypeOK
<1>4. /\ Alters(c, [call[c] EXCEPT !.pc = "newRefresh"])
      /\ [call[c] EXCEPT !.pc = "newRefresh"].kind = call[c].kind
      /\ call'[c].pc = "newRefresh" /\ call'[c].kind = call[c].kind /\ call'[c].body = call[c].body
      /\ call'[c].presented = call[c].presented /\ call'[c].new = call[c].new
      /\ call' \in [Calls -> CallState]
      /\ \A d \in Calls : d # c => call'[d] = call[d]
  BY <1>0, <1>1, MovesFields
<1>5. TypeOK'
  BY <1>0, <1>1, <1>3, <1>4 DEF TypeOK
<1>6. LocalCall(c)
  <2>1. Unstored(c)' \subseteq Unstored(c)
    BY <1>1, <1>4 DEF Unstored, Known
  <2>2. InOnError(c)
    BY DEF InOnError
  <2> QED BY <1>0, <1>1, <1>2, <1>3, <1>4, <2>1, <2>2 DEF LocalCall, TokensAreKnown, CallsAreFormed
<1>7. ASSUME ~raced
      PROVE  SignInIsAlone' /\ LeftIsGone' /\ RoleIsOfTokens' /\ SignInSaves' /\ RetryFindsAnswer'
  <2>0. SignInIsAlone /\ LeftIsGone /\ RoleIsOfTokens /\ SignInSaves
    BY <1>7 DEF IInv, Orderly
  <2>1. call[c] # Idle
    BY DEF Idle
  <2>2. SignInIsAlone'
    BY <1>1, <1>4, <2>0, <2>1, AloneStays
  <2>3. LeftIsGone'
    BY <1>1, <1>3, <1>4, <2>0 DEF LeftIsGone
  <2>4. RoleIsOfTokens'
    BY <1>1, <1>2, <1>3, <1>4, <2>0 DEF RoleIsOfTokens
  <2>5. SignInSaves'
    <3>1. \A d \in Calls : d # c => call[d].pc \notin {"saveRefresh", "saveRole"}
      BY <1>0, <2>0, <2>1 DEF SignInIsAlone, CallsAreFormed
    <3>2. boot.pc = "done"
      BY <2>0, <2>1 DEF SignInIsAlone
    <3> QED BY <1>1, <1>3, <1>4, <2>0, <3>1, <3>2 DEF SignInSaves
  <2>6. RetryFindsAnswer'
    <3> SUFFICES ASSUME NEW d \in Calls, InOnError(d)' PROVE stored'.access \in {None, call'[d].new}
      BY DEF RetryFindsAnswer
    <3>1. InOnError(d) /\ InOnError(c)
      BY <1>4 DEF InOnError
    <3>2. d = c
      BY <1>0, <3>1 DEF OneInOnError
    <3> QED BY <1>3, <1>4, <3>2
  <2> QED BY <2>2, <2>3, <2>4, <2>5, <2>6
<1> QED BY <1>1, <1>4, <1>5, <1>6, <1>7, LocalOrderly

LEMMA SaveAccessInv == ASSUME IInv, NEW c \in Calls, SaveAccess(c) PROVE IInv'
BY SaveAccessOfSignIn, SaveAccessOfRefresh DEF SaveAccess

LEMMA SaveRefreshOfSignIn ==
    ASSUME IInv, NEW c \in Calls, SaveRefresh(c), call[c].pc = "saveRefresh" PROVE IInv'
<1>0. TypeOK /\ TokensAreKnown /\ CallsAreFormed /\ OneInOnError
  BY DEF IInv
<1>1. /\ stored' = [stored EXCEPT !.refresh = call[c].body] /\ Moves(c, "saveRole")
      /\ UNCHANGED <<shown, isLoading, boot, errors, refreshFuture, kills>>
      /\ UNCHANGED <<family, revoked, excused, left, raced>>
  BY DEF SaveRefresh, api, history
<1>2. /\ call[c].kind = "public" /\ call[c].body # None /\ call[c].body \in Known
      /\ call[c].body \in Maybe /\ family[call[c].body] = call[c].body
  BY <1>0 DEF CallsAreFormed, TokensAreKnown, TypeOK, CallState
<1>3. /\ stored'.access = stored.access /\ stored'.refresh = call[c].body
      /\ stored'.role = stored.role
      /\ stored' \in [access : Maybe, refresh : Maybe, role : Maybe]
  BY <1>0, <1>1, <1>2 DEF TypeOK
<1>4. /\ Alters(c, [call[c] EXCEPT !.pc = "saveRole"])
      /\ call'[c].pc = "saveRole" /\ call'[c].kind = call[c].kind /\ call'[c].body = call[c].body
      /\ call'[c].presented = call[c].presented /\ call'[c].new = call[c].new
      /\ call' \in [Calls -> CallState]
      /\ \A d \in Calls : d # c => call'[d] = call[d]
  BY <1>0, <1>1, MovesFields
<1>5. TypeOK'
  BY <1>0, <1>1, <1>3, <1>4 DEF TypeOK
<1>6. LocalCall(c)
  <2>1. Unstored(c)' = {} /\ call[c].body \in Unstored(c)
    BY <1>2, <1>4 DEF Unstored
  <2>2. ~ InOnError(c)'
    BY <1>4 DEF InOnError
  <2> QED BY <1>0, <1>1, <1>2, <1>3, <1>4, <2>1, <2>2 DEF LocalCall, TokensAreKnown
<1>7. ASSUME ~raced
      PROVE  SignInIsAlone' /\ LeftIsGone' /\ RoleIsOfTokens' /\ SignInSaves' /\ RetryFindsAnswer'
  <2>0. SignInIsAlone /\ LeftIsGone /\ SignInSaves
    BY <1>7 DEF IInv, Orderly
  <2>1. /\ boot.pc = "done" /\ shown = None /\ stored.role = None
        /\ \A d \in Calls : d # c => call[d] = Idle /\ call[d].kind = "none" /\ call[d].pc = "idle"
    BY <1>2, <1>7, AloneFinds
  <2>2. SignInIsAlone'
    BY <1>1, <1>4, <2>1 DEF SignInIsAlone
  <2>3. LeftIsGone'
    BY <1>1, <1>3, <1>4, <2>0, <2>1 DEF LeftIsGone
  <2>4. RoleIsOfTokens'
    BY <1>3, <2>1 DEF RoleIsOfTokens
  <2>5. SignInSaves'
    BY <1>1, <1>3, <1>4, <2>0, <2>1 DEF SignInSaves
  <2>6. RetryFindsAnswer'
    BY <1>4, <2>1 DEF RetryFindsAnswer
  <2> QED BY <2>2, <2>3, <2>4, <2>5, <2>6
<1> QED BY <1>1, <1>4, <1>5, <1>6, <1>7, LocalOrderly

LEMMA SaveRefreshOfRefresh ==
    ASSUME IInv, NEW c \in Calls, SaveRefresh(c), call[c].pc = "newRefresh" PROVE IInv'
<1>0. TypeOK /\ TokensAreKnown /\ CallsAreFormed /\ OneInOnError /\ call[c] \in CallState
  BY DEF IInv, TypeOK
<1> DEFINE state == [call[c] EXCEPT !.pc = "retry", !.presented = None]
<1>1. /\ stored' = [stored EXCEPT !.refresh = call[c].new] /\ Becomes(c, state)
      /\ UNCHANGED <<shown, isLoading, boot, errors, refreshFuture, kills>>
      /\ UNCHANGED <<family, revoked, excused, left, raced>>
  BY DEF SaveRefresh, api, history
<1>2. call[c].new # None /\ call[c].new \in Known /\ call[c].new \in Maybe
  BY <1>0 DEF CallsAreFormed, TokensAreKnown, CallState
<1>3. /\ stored'.access = stored.access /\ stored'.refresh = call[c].new
      /\ stored'.role = stored.role
      /\ stored' \in [access : Maybe, refresh : Maybe, role : Maybe]
  BY <1>0, <1>1, <1>2 DEF TypeOK
<1>4. /\ state \in CallState /\ state.pc = "retry" /\ state.presented = None
      /\ state.kind = call[c].kind /\ state.body = call[c].body /\ state.new = call[c].new
  BY <1>0 DEF CallState, Maybe
<1> HIDE DEF state
<1>5. Alters(c, state)
  BY <1>0, <1>1, <1>4, BecomesAlters
<1>6. /\ call'[c].pc = "retry" /\ call'[c].kind = call[c].kind /\ call'[c].body = call[c].body
      /\ call'[c].presented = None /\ call'[c].new = call[c].new
      /\ call' \in [Calls -> CallState]
      /\ \A d \in Calls : d # c => call'[d] = call[d]
  BY <1>4, <1>5 DEF Alters
<1>7. TypeOK'
  BY <1>0, <1>1, <1>3, <1>6 DEF TypeOK
<1>8. LocalCall(c)
  <2>1. Unstored(c)' = {} /\ call[c].new \in Unstored(c)
    BY <1>2, <1>6 DEF Unstored
  <2>2. InOnError(c)
    BY DEF InOnError
  <2> QED BY <1>0, <1>1, <1>2, <1>3, <1>6, <2>1, <2>2
       DEF LocalCall, TokensAreKnown, CallsAreFormed, Known
<1>9. ASSUME ~raced
      PROVE  SignInIsAlone' /\ LeftIsGone' /\ RoleIsOfTokens' /\ SignInSaves' /\ RetryFindsAnswer'
  <2>0. SignInIsAlone /\ LeftIsGone /\ RoleIsOfTokens /\ SignInSaves /\ RetryFindsAnswer
    BY <1>9 DEF IInv, Orderly
  <2>1. call[c] # Idle
    BY DEF Idle
  <2>2. SignInIsAlone'
    BY <1>1, <1>4, <1>5, <2>0, <2>1, AloneStays
  <2>3. LeftIsGone'
    BY <1>1, <1>3, <1>6, <2>0 DEF LeftIsGone
  <2>4. RoleIsOfTokens'
    BY <1>1, <1>2, <1>3, <1>6, <2>0 DEF RoleIsOfTokens
  <2>5. SignInSaves'
    <3>1. \A d \in Calls : d # c => call[d].pc \notin {"saveRefresh", "saveRole"}
      BY <1>0, <2>0, <2>1 DEF SignInIsAlone, CallsAreFormed
    <3>2. boot.pc = "done"
      BY <2>0, <2>1 DEF SignInIsAlone
    <3> QED BY <1>1, <1>3, <1>6, <2>0, <3>1, <3>2 DEF SignInSaves
  <2>6. RetryFindsAnswer'
    <3> SUFFICES ASSUME NEW d \in Calls, InOnError(d)' PROVE stored'.access \in {None, call'[d].new}
      BY DEF RetryFindsAnswer
    <3>1. InOnError(d) /\ InOnError(c)
      BY <1>6 DEF InOnError
    <3>2. d = c
      BY <1>0, <3>1 DEF OneInOnError
    <3>3. stored.access \in {None, call[c].new}
      BY <2>0, <3>1 DEF RetryFindsAnswer
    <3> QED BY <1>3, <1>6, <3>2, <3>3
  <2> QED BY <2>2, <2>3, <2>4, <2>5, <2>6
<1> QED BY <1>1, <1>5, <1>7, <1>8, <1>9, LocalOrderly

LEMMA SaveRefreshInv == ASSUME IInv, NEW c \in Calls, SaveRefresh(c) PROVE IInv'
BY SaveRefreshOfSignIn, SaveRefreshOfRefresh DEF SaveRefresh

LEMMA SaveRoleInv == ASSUME IInv, NEW c \in Calls, SaveRole(c) PROVE IInv'
<1>0. TypeOK /\ TokensAreKnown /\ CallsAreFormed /\ OneInOnError
  BY DEF IInv
<1>1. /\ call[c].pc = "saveRole"
      /\ stored' = [stored EXCEPT !.role = call[c].body] /\ Moves(c, "enter")
      /\ UNCHANGED <<shown, isLoading, boot, errors, refreshFuture, kills>>
      /\ UNCHANGED <<family, revoked, excused, left, raced>>
  BY DEF SaveRole, api, history
<1>2. /\ call[c].kind = "public" /\ call[c].body # None /\ call[c].body \in Known
      /\ call[c].body \in Maybe /\ family[call[c].body] = call[c].body
  BY <1>0, <1>1 DEF CallsAreFormed, TokensAreKnown, TypeOK, CallState
<1>3. /\ stored'.access = stored.access /\ stored'.refresh = stored.refresh
      /\ stored'.role = call[c].body
      /\ stored' \in [access : Maybe, refresh : Maybe, role : Maybe]
  BY <1>0, <1>1, <1>2 DEF TypeOK
<1>4. /\ Alters(c, [call[c] EXCEPT !.pc = "enter"])
      /\ call'[c].pc = "enter" /\ call'[c].kind = call[c].kind /\ call'[c].body = call[c].body
      /\ call'[c].presented = call[c].presented /\ call'[c].new = call[c].new
      /\ call' \in [Calls -> CallState]
      /\ \A d \in Calls : d # c => call'[d] = call[d]
  BY <1>0, <1>1, MovesFields
<1>5. TypeOK'
  BY <1>0, <1>1, <1>3, <1>4 DEF TypeOK
<1>6. LocalCall(c)
  <2>1. Unstored(c)' = {}
    BY <1>4 DEF Unstored
  <2>2. ~ InOnError(c)'
    BY <1>4 DEF InOnError
  <2> QED BY <1>0, <1>1, <1>2, <1>3, <1>4, <2>1, <2>2 DEF LocalCall, TokensAreKnown
<1>7. ASSUME ~raced
      PROVE  SignInIsAlone' /\ LeftIsGone' /\ RoleIsOfTokens' /\ SignInSaves' /\ RetryFindsAnswer'
  <2>0. SignInIsAlone /\ LeftIsGone /\ SignInSaves
    BY <1>7 DEF IInv, Orderly
  <2>1. /\ boot.pc = "done" /\ shown = None
        /\ \A d \in Calls : d # c => call[d] = Idle /\ call[d].kind = "none" /\ call[d].pc = "idle"
    BY <1>2, <1>7, AloneFinds
  <2>2. SignInIsAlone'
    BY <1>1, <1>4, <2>1 DEF SignInIsAlone
  <2>3. LeftIsGone'
    BY <1>1, <1>3, <1>4, <2>0, <2>1 DEF LeftIsGone
  <2>4. RoleIsOfTokens'
    <3>1. stored.access = call[c].body /\ stored.refresh = call[c].body
      BY <1>1, <2>0 DEF SignInSaves
    <3> QED BY <1>1, <1>2, <1>3, <1>4, <2>1, <3>1 DEF RoleIsOfTokens
  <2>5. SignInSaves'
    BY <1>1, <1>3, <1>4, <2>1 DEF SignInSaves
  <2>6. RetryFindsAnswer'
    BY <1>4, <2>1 DEF RetryFindsAnswer
  <2> QED BY <2>2, <2>3, <2>4, <2>5, <2>6
<1> QED BY <1>1, <1>4, <1>5, <1>6, <1>7, LocalOrderly

LEMMA EnterInv == ASSUME IInv, NEW c \in Calls, Enter(c) PROVE IInv'
<1>0. TypeOK /\ TokensAreKnown /\ CallsAreFormed /\ OneInOnError
  BY DEF IInv
<1>1. /\ call[c].pc = "enter" /\ shown' = call[c].body /\ Becomes(c, Idle) /\ Loaded
      /\ UNCHANGED <<stored, boot, errors, refreshFuture, kills>>
      /\ UNCHANGED <<family, revoked, excused, left, raced>>
  BY DEF Enter, api, history
<1>2. /\ call[c].kind = "public" /\ call[c].body # None /\ call[c].body \in Known
      /\ call[c].body \in Maybe
  BY <1>0, <1>1 DEF CallsAreFormed, TokensAreKnown, TypeOK, CallState
<1>3. Alters(c, Idle)
  BY <1>0, <1>1, BecomesAlters, EndedState
<1>4. /\ call'[c] = Idle /\ call'[c].pc = "idle" /\ call'[c].kind = "none" /\ call'[c].body = None
      /\ call'[c].presented = None /\ call'[c].new = None
      /\ call' \in [Calls -> CallState]
      /\ \A d \in Calls : d # c => call'[d] = call[d]
  BY <1>3 DEF Alters, Idle
<1>5. TypeOK'
  <2>1. isLoading' \in BOOLEAN
    BY <1>1 DEF Loaded
  <2> QED BY <1>0, <1>1, <1>2, <1>4, <2>1 DEF TypeOK
<1>6. LocalCall(c)
  <2>1. Unstored(c)' = {}
    BY <1>4 DEF Unstored
  <2>2. ~ InOnError(c)'
    BY <1>4 DEF InOnError
  <2> QED BY <1>0, <1>1, <1>2, <1>4, <2>1, <2>2 DEF LocalCall, TokensAreKnown, Known
<1>7. ASSUME ~raced
      PROVE  SignInIsAlone' /\ LeftIsGone' /\ RoleIsOfTokens' /\ SignInSaves' /\ RetryFindsAnswer'
  <2>0. SignInIsAlone /\ LeftIsGone /\ SignInSaves /\ RoleIsOfTokens
    BY <1>7 DEF IInv, Orderly
  <2>1. /\ boot.pc = "done" /\ shown = None
        /\ \A d \in Calls : d # c => call[d] = Idle /\ call[d].kind = "none" /\ call[d].pc = "idle"
    BY <1>2, <1>7, AloneFinds
  <2>2. SignInIsAlone'
    BY <1>1, <1>4, <2>1 DEF SignInIsAlone
  <2>3. LeftIsGone'
    BY <1>1, <1>4, <2>0, <2>1 DEF LeftIsGone
  <2>4. RoleIsOfTokens'
    BY <1>1, <1>4, <2>0, <2>1 DEF RoleIsOfTokens
  <2>5. SignInSaves'
    BY <1>1, <1>2, <1>4, <2>1 DEF SignInSaves
  <2>6. RetryFindsAnswer'
    BY <1>4, <2>1 DEF RetryFindsAnswer
  <2> QED BY <2>2, <2>3, <2>4, <2>5, <2>6
<1> QED BY <1>1, <1>3, <1>5, <1>6, <1>7, LocalOrderly

LEMMA LogoutDoneInv == ASSUME IInv, NEW c \in Calls, LogoutDone(c) PROVE IInv'
<1>0. TypeOK /\ TokensAreKnown /\ CallsAreFormed /\ OneInOnError
  BY DEF IInv
<1>1. /\ call[c].pc = "leave" /\ shown' = None /\ isLoading' = FALSE /\ Becomes(c, Idle)
      /\ left' = left \cup ({shown} \ {None})
      /\ UNCHANGED <<stored, boot, errors, refreshFuture, kills>>
      /\ UNCHANGED <<family, revoked, excused, raced>>
  BY DEF LogoutDone, api
<1>2. Alters(c, Idle)
  BY <1>0, <1>1, BecomesAlters, EndedState
<1>3. /\ call'[c] = Idle /\ call'[c].pc = "idle" /\ call'[c].kind = "none" /\ call'[c].body = None
      /\ call'[c].presented = None /\ call'[c].new = None
      /\ call' \in [Calls -> CallState]
      /\ \A d \in Calls : d # c => call'[d] = call[d]
  BY <1>2 DEF Alters, Idle
<1>4. left' \subseteq DOMAIN family /\ left' \subseteq Tokens
  BY <1>0, <1>1 DEF TokensAreKnown, Known, TypeOK, Maybe
<1>5. TypeOK'
  BY <1>0, <1>1, <1>3, <1>4 DEF TypeOK, Maybe
<1>6. LocalCall(c)
  <2>1. Unstored(c)' = {}
    BY <1>3 DEF Unstored
  <2>2. ~ InOnError(c)'
    BY <1>3 DEF InOnError
  <2> QED BY <1>0, <1>1, <1>3, <1>4, <2>1, <2>2 DEF LocalCall, TokensAreKnown, Known
<1>7. ASSUME ~raced
      PROVE  SignInIsAlone' /\ LeftIsGone' /\ RoleIsOfTokens' /\ SignInSaves' /\ RetryFindsAnswer'
  <2>0. SignInIsAlone /\ LeftIsGone /\ SignInSaves /\ RoleIsOfTokens /\ RetryFindsAnswer
    BY <1>7 DEF IInv, Orderly
  <2>1. call[c] # Idle /\ Idle.kind = "none"
    BY <1>1 DEF Idle
  <2>2. stored.role = None /\ None \notin left'
    <3>1. None \notin DOMAIN family
      BY <1>0, KnownTokens
    <3> QED BY <1>1, <1>4, <2>0, <3>1 DEF LeftIsGone
  <2>3. \A d \in Calls : d # c => call[d].kind # "public"
    BY <2>0, <2>1 DEF SignInIsAlone
  <2>4. \A d \in Calls : call'[d].pc \notin {"saveAccess", "saveRefresh", "saveRole", "enter"}
    BY <1>0, <1>3, <2>3 DEF CallsAreFormed
  <2>5. SignInIsAlone'
    BY <1>1, <1>2, <2>0, <2>1, AloneStays
  <2>6. LeftIsGone'
    BY <1>1, <2>2, <2>4 DEF LeftIsGone
  <2>7. RoleIsOfTokens'
    BY <1>1, <2>2 DEF RoleIsOfTokens
  <2>8. SignInSaves'
    BY <1>1, <2>2, <2>4 DEF SignInSaves
  <2>9. RetryFindsAnswer'
    BY <1>1, <1>3, <2>0 DEF RetryFindsAnswer, InOnError
  <2> QED BY <2>5, <2>6, <2>7, <2>8, <2>9
<1> QED BY <1>1, <1>2, <1>5, <1>6, <1>7, LocalOrderly

-----------------------------------------------------------------------------
(* Steps of the refresh endpoint, the router and the start-up *)

\* A refresh that is not answered leaves its call failing.
LEMMA RefreshFails ==
    ASSUME IInv, NEW c \in Calls, call[c].pc = "presented", Moves(c, "failing"),
           UNCHANGED <<stored, shown, isLoading, boot, errors, refreshFuture, kills>>,
           UNCHANGED <<family, excused, left, raced>>,
           \A t \in revoked' : t \in revoked \/ (t \in DOMAIN family /\ family[t] \in excused)
    PROVE  IInv'
<1>0. TypeOK /\ TokensAreKnown /\ CallsAreFormed /\ OneInOnError
  BY DEF IInv
<1>1. /\ Alters(c, [call[c] EXCEPT !.pc = "failing"])
      /\ call'[c].pc = "failing" /\ call'[c].kind = call[c].kind /\ call'[c].body = call[c].body
      /\ call'[c].presented = call[c].presented /\ call'[c].new = call[c].new
      /\ call' \in [Calls -> CallState]
      /\ \A d \in Calls : d # c => call'[d] = call[d]
  BY <1>0, MovesFields
<1>2. ApiGrows /\ family' \in Seq(Tokens) /\ revoked' \subseteq DOMAIN family' /\ excused' \subseteq Tokens
  BY <1>0 DEF TypeOK, TokensAreKnown, ApiGrows
<1>3. Handed(c)
  BY <1>1 DEF Handed
<1>4. OneInOnError'
  <2>1. InOnError(c)
    BY DEF InOnError
  <2> QED BY <1>0, <1>1, <2>1 DEF OneInOnError, InOnError
<1>5. TypeOK'
  BY <1>0, <1>1, <1>2, <1>3, QuietTyped DEF TypeOK
<1>6. QuietCall(c)
  <2>1. call[c] # Idle /\ (call[c].kind = "logout" => call[c].body # None)
    BY <1>0 DEF Idle, CallsAreFormed
  <2>2. {call[c].body, call[c].presented, call[c].new} \subseteq DOMAIN family' \cup {None}
    BY <1>0 DEF TokensAreKnown, Known
  <2> QED BY <1>1, <2>1, <2>2 DEF QuietCall, InOnError
<1> QED BY <1>2, <1>3, <1>4, <1>5, <1>6, QuietInv

\* What the API issues to a refresh.
RefreshIssued(c) ==
    /\ call[c].pc = "presented"
    /\ call[c].presented \notin revoked
    /\ MayIssue
    /\ family' = Append(family, family[call[c].presented])
    /\ revoked' = revoked \cup {call[c].presented}
    /\ UNCHANGED <<stored, shown, isLoading, boot, errors, refreshFuture, kills, excused, left, raced>>

\* The token that was presented is revoked, and its answer is in the hands of the call
\* that presented it, or lost.
LEMMA IssuedInv ==
    ASSUME IInv, NEW c \in Calls, RefreshIssued(c), NEW state \in CallState, Alters(c, state),
           state.kind = call[c].kind, state.body = call[c].body,
           state.presented = call[c].presented,
           \/ state.pc = "answered" /\ state.new = NewToken
           \/ state.pc = "failing" /\ state.new = call[c].new
    PROVE  IInv'
<1>0. TypeOK /\ TokensAreKnown /\ CallsAreFormed /\ OneInOnError
  BY DEF IInv
<1> DEFINE t == call[c].presented
           n == NewToken
<1>1. /\ call[c].pc = "presented" /\ t \notin revoked /\ MayIssue
      /\ family' = Append(family, family[t]) /\ revoked' = revoked \cup {t}
      /\ UNCHANGED <<stored, shown, isLoading, boot, errors, refreshFuture, kills>>
      /\ UNCHANGED <<excused, left, raced>>
  BY DEF RefreshIssued
<1>2. t \in DOMAIN family /\ family[t] \in Tokens
  <2>1. t # None /\ t \in Known
    BY <1>0, <1>1 DEF TypeOK, TokensAreKnown
  <2> QED BY <1>0, <2>1, KnownTokens DEF Known
<1>3. /\ n \in Tokens /\ n \notin DOMAIN family /\ n # None
      /\ family' \in Seq(Tokens) /\ DOMAIN family' = DOMAIN family \cup {n}
      /\ family'[n] = family[t] /\ \A u \in DOMAIN family : family'[u] = family[u]
      /\ Len(family') <= MaxTokens
  BY <1>1, <1>2, NewTokenIsNew
<1> HIDE DEF n
<1>4. /\ call'[c].kind = call[c].kind /\ call'[c].body = call[c].body
      /\ call'[c].presented = t
      /\ \/ call'[c].pc = "answered" /\ call'[c].new = n
         \/ call'[c].pc = "failing" /\ call'[c].new = call[c].new
      /\ call' \in [Calls -> CallState]
      /\ \A d \in Calls : d # c => call'[d] = call[d]
  BY DEF Alters, n
<1> HIDE DEF t
<1>5. /\ InOnError(c) /\ \A d \in Calls : InOnError(d)' <=> InOnError(d)
      /\ \A d \in Calls : InOnError(d) => d = c
  <2>1. InOnError(c) /\ InOnError(c)'
    BY <1>1, <1>4 DEF InOnError
  <2>2. \A d \in Calls : d # c => (InOnError(d)' <=> InOnError(d))
    BY <1>4 DEF InOnError
  <2>3. \A d \in Calls : InOnError(d) => d = c
    BY <1>0, <2>1 DEF OneInOnError
  <2> QED BY <2>1, <2>2, <2>3
<1>6. /\ None \notin DOMAIN family /\ None \notin revoked /\ revoked \subseteq DOMAIN family
      /\ Known' = Known \cup {n} /\ n \notin Known
  BY <1>0, <1>3, KnownTokens DEF Known
<1>7. TypeOK'
  <2>1. \A d \in Calls : call'[d].pc = "presented" => call'[d].presented # None
    BY <1>0, <1>4 DEF TypeOK
  <2>2. revoked' \subseteq DOMAIN family'
    BY <1>1, <1>2, <1>3, <1>6
  <2> QED BY <1>0, <1>1, <1>3, <1>4, <2>1, <2>2 DEF TypeOK
<1>8. TokensAreKnown'
  <2>1. Len(family') <= MaxTokens /\ left' \subseteq DOMAIN family'
        /\ {stored'.access, stored'.refresh, stored'.role, shown'} \subseteq Known'
    BY <1>0, <1>1, <1>3, <1>6 DEF TokensAreKnown
  <2>2. \A d \in Calls : {call'[d].body, call'[d].presented, call'[d].new} \subseteq Known'
    <3>1. \A d \in Calls : {call[d].body, call[d].presented, call[d].new} \subseteq Known
      BY <1>0 DEF TokensAreKnown
    <3>2. {call'[c].body, call'[c].presented, call'[c].new} \subseteq Known'
      BY <1>4, <1>6, <3>1 DEF t
    <3> QED BY <1>4, <1>6, <3>1, <3>2
  <2> QED BY <2>1, <2>2 DEF TokensAreKnown
<1>9. \A d \in Calls : d # c /\ call[d].pc \in {"saveAccess", "saveRefresh", "saveRole", "enter"} =>
        call[d].body \in DOMAIN family
  BY <1>0 DEF CallsAreFormed, TokensAreKnown, Known
<1>10. CallsAreFormed'
  <2> SUFFICES ASSUME NEW d \in Calls
               PROVE  /\ call'[d].pc \in {"saveAccess", "saveRefresh", "saveRole", "enter"} =>
                           /\ call'[d].kind = "public"
                           /\ call'[d].body # None
                           /\ family'[call'[d].body] = call'[d].body
                      /\ call'[d].kind = "logout" /\ call'[d].pc \notin {"clear", "leave"} =>
                           call'[d].body # None
                      /\ call'[d].pc \in {"answered", "newRefresh"} => call'[d].new # None
    BY DEF CallsAreFormed
  <2>1. CASE d = c
    BY <1>0, <1>1, <1>3, <1>4, <2>1 DEF CallsAreFormed
  <2>2. CASE d # c
    BY <1>0, <1>3, <1>4, <1>9, <2>2 DEF CallsAreFormed
  <2> QED BY <2>1, <2>2
<1>11. OneInOnError'
  BY <1>0, <1>1, <1>5 DEF OneInOnError
<1>12. \A d \in Calls : d # c =>
         call'[d].pc \notin {"presented", "answered", "newRefresh", "failing"}
  BY <1>4, <1>5 DEF InOnError
<1>13. ReuseIsExplained'
  BY <1>4, <1>12 DEF ReuseIsExplained
<1>14. UnstoredIsUnused'
  <2>1. ASSUME NEW d \in Calls, d # c, NEW u \in Unstored(d)'
        PROVE  u \in Unstored(d) /\ u \in DOMAIN family
    <3>1. call'[d] = call[d] /\ call[d].body \in Known /\ call[d].new \in Known
      BY <1>0, <1>4, <2>1 DEF TokensAreKnown
    <3> QED BY <3>1 DEF Unstored, Known
  <2>2. \A u \in Unstored(c)' : u = n
    BY <1>4 DEF Unstored
  <2> SUFFICES ASSUME NEW d \in Calls, NEW u \in Unstored(d)'
               PROVE  /\ u \in revoked' => family'[u] \in excused'
                      /\ u # stored'.refresh
                      /\ \A e \in Calls : /\ call'[e].pc = "presented" => call'[e].presented # u
                                          /\ e # d => u \notin Unstored(e)'
    BY DEF UnstoredIsUnused, Excused
  <2>3. \A e \in Calls : call'[e].pc # "presented"
    BY <1>4, <1>12
  <2>4. CASE d = c
    <3>1. u = n
      BY <2>2, <2>4
    <3>2. u \notin revoked' /\ u # stored'.refresh
      BY <1>0, <1>1, <1>2, <1>3, <1>6, <3>1 DEF TokensAreKnown
    <3> QED BY <1>3, <2>1, <2>3, <2>4, <3>1, <3>2
  <2>5. CASE d # c
    <3>1. u \in Unstored(d) /\ u \in DOMAIN family
      BY <2>1, <2>5
    <3>2. /\ u \in revoked => family[u] \in excused
          /\ u # stored.refresh /\ t # u
          /\ \A e \in Calls : e # d => u \notin Unstored(e)
      BY <1>1, <3>1 DEF IInv, UnstoredIsUnused, Excused, t
    <3>3. u \in revoked' => family'[u] \in excused'
      BY <1>1, <1>3, <3>1, <3>2
    <3>4. \A e \in Calls : e # d => u \notin Unstored(e)'
      BY <1>3, <2>1, <2>2, <3>1, <3>2
    <3> QED BY <1>1, <2>3, <3>2, <3>3, <3>4
  <2> QED BY <2>4, <2>5
<1>15. StoredIsUsable'
  <2> SUFFICES ASSUME stored'.refresh \in revoked', family'[stored'.refresh] \notin excused'
               PROVE  \E d \in Calls : /\ call'[d].pc \in {"answered", "newRefresh", "failing"}
                                       /\ call'[d].presented = stored'.refresh
    BY DEF StoredIsUsable, Excused
  <2>1. CASE stored.refresh = t
    BY <1>1, <1>4, <2>1
  <2>2. CASE stored.refresh # t
    <3>1. stored.refresh \in revoked /\ ~Excused(stored.refresh)
      BY <1>1, <1>3, <1>6, <2>2 DEF Excused
    <3>2. PICK d \in Calls : call[d].pc \in {"answered", "newRefresh", "failing"}
      BY <3>1 DEF IInv, StoredIsUsable
    <3>3. d = c
      BY <1>5, <3>2 DEF InOnError
    <3> QED BY <1>1, <3>2, <3>3
  <2> QED BY <2>1, <2>2
<1>16. Orderly'
  <2> SUFFICES ASSUME ~raced
               PROVE  /\ SignInIsAlone' /\ LeftIsGone' /\ RoleIsOfTokens'
                      /\ SignInSaves' /\ RetryFindsAnswer'
    BY <1>1 DEF Orderly
  <2>0. SignInIsAlone /\ LeftIsGone /\ RoleIsOfTokens /\ SignInSaves /\ RetryFindsAnswer
    BY DEF IInv, Orderly
  <2>1. SignInIsAlone'
    <3>1. call[c] # Idle
      BY <1>1 DEF Idle
    <3> QED BY <1>1, <2>0, <3>1, AloneStays
  <2>2. LeftIsGone'
    BY <1>1, <1>4, <2>0 DEF LeftIsGone
  <2>3. RoleIsOfTokens'
    <3> SUFFICES ASSUME stored.role # None PROVE RoleIsOfTokens'
      BY <1>1 DEF RoleIsOfTokens
    <3>1. \A u \in {stored.access, stored.refresh} : u \in DOMAIN family /\ family[u] = stored.role
      BY <1>0, <2>0 DEF RoleIsOfTokens, TokensAreKnown, Known
    <3>2. family[t] = stored.role
      BY <1>1, <2>0 DEF RoleIsOfTokens, t
    <3>3. None \notin {stored.access, stored.refresh}
      BY <2>0 DEF RoleIsOfTokens
    <3> QED BY <1>1, <1>3, <1>4, <1>12, <3>1, <3>2, <3>3 DEF RoleIsOfTokens
  <2>4. SignInSaves'
    BY <1>1, <1>4, <2>0 DEF SignInSaves
  <2>5. RetryFindsAnswer'
    BY <1>4, <1>5 DEF RetryFindsAnswer
  <2> QED BY <2>1, <2>2, <2>3, <2>4, <2>5
<1> QED BY <1>7, <1>8, <1>10, <1>11, <1>13, <1>14, <1>15, <1>16 DEF IInv

LEMMA ServeRefreshInv == ASSUME IInv, NEW c \in Calls, ServeRefresh(c) PROVE IInv'
<1>0. TypeOK /\ call[c] \in CallState
  BY DEF IInv, TypeOK
<1> DEFINE answered == [call[c] EXCEPT !.pc = "answered", !.new = NewToken]
<1>1. /\ call[c].pc = "presented"
      /\ UNCHANGED <<stored, shown, isLoading, boot, errors, refreshFuture, kills>>
      /\ UNCHANGED <<excused, left, raced>>
  BY DEF ServeRefresh, history
<1>2. CASE /\ call[c].presented \in revoked
           /\ revoked' = revoked \cup Family(family[call[c].presented])
           /\ Moves(c, "failing") /\ UNCHANGED family
  <2>1. family[call[c].presented] \in excused
    BY <1>1, <1>2 DEF IInv, ReuseIsExplained
  <2>2. \A t \in revoked' : t \in revoked \/ (t \in DOMAIN family /\ family[t] \in excused)
    BY <1>2, <2>1 DEF Family
  <2> QED BY <1>1, <1>2, <2>2, RefreshFails
<1>3. CASE RefreshIssued(c) /\ Becomes(c, answered)
  <2>1. NewToken \in Maybe
    <3>1. Len(family) \in Nat /\ Len(family) < MaxTokens /\ MaxTokens \in Nat
      BY <1>0, <1>3, KnownTokens, MobileAssumption DEF MayIssue, RefreshIssued
    <3> QED BY <3>1 DEF NewToken, Tokens, Maybe
  <2>2. /\ answered \in CallState /\ answered.kind = call[c].kind /\ answered.body = call[c].body
        /\ answered.presented = call[c].presented
        /\ answered.pc = "answered" /\ answered.new = NewToken
    BY <1>0, <2>1 DEF CallState
  <2> HIDE DEF answered
  <2>3. Alters(c, answered)
    BY <1>0, <1>3, <2>2, BecomesAlters
  <2> QED BY <1>3, <2>2, <2>3, IssuedInv
<1>4. CASE RefreshIssued(c) /\ Moves(c, "failing")
  <2> DEFINE failing == [call[c] EXCEPT !.pc = "failing"]
  <2>1. /\ failing \in CallState /\ failing.kind = call[c].kind /\ failing.body = call[c].body
        /\ failing.presented = call[c].presented
        /\ failing.pc = "failing" /\ failing.new = call[c].new
    BY <1>0 DEF CallState
  <2>2. Alters(c, failing)
    BY <1>0, <1>4, MovesFields
  <2> HIDE DEF failing
  <2> QED BY <1>4, <2>1, <2>2, IssuedInv
<1>5. CASE Moves(c, "failing") /\ UNCHANGED <<family, revoked>>
  BY <1>1, <1>5, RefreshFails
<1> QED
  <2>1. \/ /\ call[c].presented \in revoked
           /\ revoked' = revoked \cup Family(family[call[c].presented])
           /\ Moves(c, "failing") /\ UNCHANGED family
        \/ /\ call[c].presented \notin revoked /\ MayIssue
           /\ family' = Append(family, family[call[c].presented])
           /\ revoked' = revoked \cup {call[c].presented}
           /\ Becomes(c, answered) \/ Moves(c, "failing")
        \/ Moves(c, "failing") /\ UNCHANGED <<family, revoked>>
    BY DEF ServeRefresh
  <2> QED BY <1>1, <1>2, <1>3, <1>4, <1>5, <2>1 DEF RefreshIssued

LEMMA BeginInv ==
    ASSUME IInv, NEW c \in Calls, NEW kind \in {"public", "protected", "logout"}, Begin(c, kind)
    PROVE  IInv'
<1>0. TypeOK /\ TokensAreKnown /\ CallsAreFormed /\ OneInOnError
  BY DEF IInv
<1> DEFINE state == [Idle EXCEPT
             !.kind = kind,
             !.body = IF kind = "logout" THEN stored.refresh ELSE None,
             !.pc = IF kind = "logout" /\ stored.refresh = None THEN "clear" ELSE "ready"]
<1>1. /\ call[c] = Idle
      /\ IF kind = "public" THEN shown = None /\ ~isLoading ELSE shown # None
      /\ Becomes(c, state)
      /\ isLoading' = (isLoading \/ kind = "public")
      /\ raced' = \/ raced
                  \/ kind = "public" /\ (boot.pc # "done" \/ \E d \in Calls : call[d] # Idle)
                  \/ kind # "public" /\ Busy({"public"}) # {}
      /\ UNCHANGED <<stored, shown, boot, errors, refreshFuture, kills>>
      /\ UNCHANGED <<family, revoked, excused, left>>
  BY DEF Begin, api
<1>2. stored.refresh \in Maybe /\ stored.refresh \in Known /\ None \in Known
  BY <1>0 DEF TypeOK, TokensAreKnown, Known
<1>3. /\ state \in CallState /\ state.kind = kind /\ state.pc \in {"clear", "ready"}
      /\ state.body \in {None, stored.refresh}
      /\ state.presented = None /\ state.new = None /\ state.retried = FALSE
      /\ kind = "logout" /\ state.pc # "clear" => state.body # None
  BY <1>2 DEF CallState, Idle, Maybe
<1> HIDE DEF state
<1>4. Alters(c, state)
  BY <1>0, <1>1, <1>3, BecomesAlters
<1>5. /\ call'[c] = state /\ call' \in [Calls -> CallState]
      /\ \A d \in Calls : d # c => call'[d] = call[d]
  BY <1>4 DEF Alters
<1>6. /\ Idle.kind = "none" /\ Idle.pc = "idle"
  BY DEF Idle
<1>7. TypeOK'
  <2>1. isLoading' \in BOOLEAN /\ raced' \in BOOLEAN
    BY <1>0, <1>1 DEF TypeOK
  <2> QED BY <1>0, <1>1, <1>3, <1>5, <2>1 DEF TypeOK
<1>8. LocalCall(c)
  <2>1. Unstored(c)' = {}
    BY <1>3, <1>5 DEF Unstored
  <2>2. ~ InOnError(c)'
    BY <1>3, <1>5 DEF InOnError
  <2> QED BY <1>0, <1>1, <1>2, <1>3, <1>5, <1>6, <2>1, <2>2 DEF LocalCall, TokensAreKnown
<1>9. /\ TokensAreKnown' /\ CallsAreFormed' /\ OneInOnError' /\ ReuseIsExplained'
      /\ UnstoredIsUnused' /\ StoredIsUsable'
  BY <1>1, <1>4, <1>7, <1>8, LocalKeeps
<1>10. Orderly'
  <2> SUFFICES ASSUME ~raced'
               PROVE  /\ SignInIsAlone' /\ LeftIsGone' /\ RoleIsOfTokens'
                      /\ SignInSaves' /\ RetryFindsAnswer'
    BY DEF Orderly
  <2>0. SignInIsAlone /\ LeftIsGone /\ RoleIsOfTokens /\ SignInSaves /\ RetryFindsAnswer
    BY <1>1 DEF IInv, Orderly
  <2>1. /\ kind = "public" => boot.pc = "done" /\ \A d \in Calls : call[d] = Idle
        /\ kind # "public" => \A d \in Calls : call[d].kind # "public"
    BY <1>1 DEF Busy
  <2>2. boot.pc = "done"
    BY <1>1, <2>0, <2>1 DEF SignInIsAlone
  <2>3. SignInIsAlone'
    <3>1. CASE kind = "public"
      BY <1>1, <1>5, <1>6, <2>1, <2>2, <3>1 DEF SignInIsAlone
    <3>2. CASE kind # "public"
      <4>1. \A d \in Calls : call'[d].kind # "public"
        BY <1>3, <1>5, <2>1, <3>2
      <4> QED BY <1>1, <2>2, <4>1 DEF SignInIsAlone
    <3> QED BY <3>1, <3>2
  <2>4. LeftIsGone'
    BY <1>1, <1>3, <1>5, <2>0 DEF LeftIsGone
  <2>5. RoleIsOfTokens'
    BY <1>1, <1>3, <1>5, <2>0 DEF RoleIsOfTokens
  <2>6. SignInSaves'
    BY <1>1, <1>3, <1>5, <1>6, <2>0 DEF SignInSaves
  <2>7. RetryFindsAnswer'
    BY <1>1, <1>3, <1>5, <2>0 DEF RetryFindsAnswer, InOnError
  <2> QED BY <2>3, <2>4, <2>5, <2>6, <2>7
<1> QED BY <1>7, <1>9, <1>10 DEF IInv

\* The start-up shows nothing before its last step, and nothing else runs beside it.
LEMMA BootInv == ASSUME IInv, Boot PROVE IInv'
<1>0. TypeOK /\ TokensAreKnown /\ CallsAreFormed /\ OneInOnError
  BY DEF IInv
<1>1. /\ UNCHANGED <<stored, isLoading, call, errors, refreshFuture, kills>>
      /\ UNCHANGED <<family, revoked, excused, left, raced>>
      /\ boot.pc # "done"
      /\ \/ /\ boot.pc = "access" /\ boot' = [pc |-> "role", access |-> stored.access]
            /\ shown' = shown
         \/ /\ boot.pc = "role" /\ boot' = [pc |-> "done", access |-> None]
            /\ shown' = IF boot.access # None /\ stored.role # None THEN stored.role ELSE shown
  BY DEF Boot, BootAccess, BootRole, api, history
<1>2. TypeOK'
  <2>1. boot' \in [pc : {"access", "role", "done"}, access : Maybe]
    <3>1. stored.access \in Maybe /\ None \in Maybe
      BY <1>0 DEF TypeOK, Maybe
    <3> QED BY <1>1, <3>1
  <2>2. shown' \in Maybe
    BY <1>0, <1>1 DEF TypeOK
  <2> QED BY <1>0, <1>1, <2>1, <2>2 DEF TypeOK
<1>3. TokensAreKnown'
  BY <1>0, <1>1 DEF TokensAreKnown, Known
<1>4. CallsAreFormed' /\ OneInOnError'
  BY <1>0, <1>1 DEF CallsAreFormed, OneInOnError, InOnError
<1>5. ReuseIsExplained' /\ StoredIsUsable'
  BY <1>1 DEF IInv, ReuseIsExplained, StoredIsUsable, Excused
<1>6. UnstoredIsUnused'
  <2>1. \A d \in Calls : Unstored(d)' = Unstored(d)
    BY <1>1 DEF Unstored, Known
  <2>2. \A t : Excused(t)' = Excused(t)
    BY <1>1 DEF Excused
  <2> QED BY <1>1, <2>1, <2>2 DEF IInv, UnstoredIsUnused
<1>7. Orderly'
  <2> SUFFICES ASSUME ~raced
               PROVE  /\ SignInIsAlone' /\ LeftIsGone' /\ RoleIsOfTokens'
                      /\ SignInSaves' /\ RetryFindsAnswer'
    BY <1>1 DEF Orderly
  <2>0. SignInIsAlone /\ LeftIsGone /\ RoleIsOfTokens /\ SignInSaves /\ RetryFindsAnswer
    BY DEF IInv, Orderly
  <2>1. /\ shown = None
        /\ \A c \in Calls : call[c] = Idle /\ call[c].kind = "none" /\ call[c].pc = "idle"
    <3>1. shown = None /\ \A c \in Calls : call[c] = Idle
      BY <1>1, <2>0 DEF SignInIsAlone
    <3>2. Idle.kind = "none" /\ Idle.pc = "idle"
      BY DEF Idle
    <3> QED BY <3>1, <3>2
  <2>2. SignInIsAlone'
    BY <1>1, <2>1 DEF SignInIsAlone
  <2>3. LeftIsGone'
    BY <1>1, <2>0, <2>1 DEF LeftIsGone
  <2>4. RoleIsOfTokens'
    BY <1>1, <2>0 DEF RoleIsOfTokens
  <2>5. SignInSaves'
    <3>1. CASE boot.pc = "access"
      BY <1>1, <2>0, <2>1, <3>1 DEF SignInSaves, RoleIsOfTokens
    <3>2. CASE boot.pc = "role"
      BY <1>1, <2>0, <2>1, <3>2 DEF SignInSaves
    <3> QED BY <1>1, <3>1, <3>2
  <2>6. RetryFindsAnswer'
    BY <1>1, <2>1 DEF RetryFindsAnswer
  <2> QED BY <2>2, <2>3, <2>4, <2>5, <2>6
<1> QED BY <1>2, <1>3, <1>4, <1>5, <1>6, <1>7 DEF IInv

LEMMA KillInv == ASSUME IInv, Kill PROVE IInv'
<1>0. TypeOK /\ TokensAreKnown
  BY DEF IInv
<1>1. /\ kills < MaxKills /\ kills' = kills + 1
      /\ excused' = excused \cup {family[call[c].presented] :
                                  c \in {d \in Calls : call[d].presented # None}}
      /\ shown' = None /\ isLoading' = FALSE /\ boot' = StartUp
      /\ call' = [c \in Calls |-> Idle]
      /\ errors' = <<>> /\ refreshFuture' = None
      /\ UNCHANGED <<stored, family, revoked, left, raced>>
  BY DEF Kill, api
<1>2. Idle \in CallState
  BY <1>0, EndedState DEF Idle, CallState, Maybe
<1>3. \A c \in Calls : /\ call'[c] = Idle /\ call'[c].pc = "idle" /\ call'[c].kind = "none"
                       /\ call'[c].body = None /\ call'[c].presented = None /\ call'[c].new = None
  BY <1>1 DEF Idle
<1>4. excused' \subseteq Tokens
  <2>1. \A c \in Calls : call[c].presented # None => family[call[c].presented] \in Tokens
    BY <1>0, KnownTokens DEF TokensAreKnown, Known
  <2> QED BY <1>0, <1>1, <2>1 DEF TypeOK
<1>5. TypeOK'
  <2>1. kills' \in 0..MaxKills
    BY <1>0, <1>1, MobileAssumption DEF TypeOK
  <2>2. boot' \in [pc : {"access", "role", "done"}, access : Maybe]
    BY <1>1 DEF StartUp, Maybe
  <2>3. errors' \in Seq(Calls)
    BY <1>1
  <2> QED BY <1>0, <1>1, <1>2, <1>3, <1>4, <2>1, <2>2, <2>3 DEF TypeOK, Maybe
<1>6. TokensAreKnown'
  BY <1>0, <1>1, <1>3 DEF TokensAreKnown, Known
<1>7. CallsAreFormed' /\ OneInOnError' /\ ReuseIsExplained'
  BY <1>3 DEF CallsAreFormed, OneInOnError, InOnError, ReuseIsExplained
<1>8. UnstoredIsUnused'
  BY <1>3 DEF UnstoredIsUnused, Unstored
<1>9. StoredIsUsable'
  <2> SUFFICES ASSUME stored.refresh \in revoked, family[stored.refresh] \notin excused'
               PROVE  FALSE
    BY <1>1 DEF StoredIsUsable, Excused
  <2>1. PICK c \in Calls : call[c].presented = stored.refresh
    BY <1>1 DEF IInv, StoredIsUsable, Excused
  <2>2. stored.refresh # None
    BY <1>0, KnownTokens
  <2> QED BY <1>1, <2>1, <2>2
<1>10. Orderly'
  <2> SUFFICES ASSUME ~raced
               PROVE  /\ SignInIsAlone' /\ LeftIsGone' /\ RoleIsOfTokens'
                      /\ SignInSaves' /\ RetryFindsAnswer'
    BY <1>1 DEF Orderly
  <2>0. LeftIsGone /\ RoleIsOfTokens
    BY DEF IInv, Orderly
  <2>1. boot'.pc = "access"
    BY <1>1 DEF StartUp
  <2>2. None \notin left
    BY <1>0, KnownTokens DEF TokensAreKnown
  <2>3. SignInIsAlone' /\ SignInSaves' /\ RetryFindsAnswer'
    BY <1>1, <1>3, <2>1 DEF SignInIsAlone, SignInSaves, RetryFindsAnswer
  <2>4. LeftIsGone'
    BY <1>1, <1>3, <2>0, <2>2 DEF LeftIsGone
  <2>5. RoleIsOfTokens'
    BY <1>1, <1>3, <2>0 DEF RoleIsOfTokens
  <2> QED BY <2>3, <2>4, <2>5
<1> QED BY <1>5, <1>6, <1>7, <1>8, <1>9, <1>10 DEF IInv

-----------------------------------------------------------------------------
(* The theorems *)

LEMMA InitInv == ASSUME Init PROVE IInv
<1>1. /\ stored = Cleared /\ shown = None /\ isLoading = FALSE /\ boot = StartUp
      /\ call = [c \in Calls |-> Idle] /\ errors = <<>> /\ refreshFuture = None
      /\ family = <<>> /\ revoked = {} /\ kills = 0 /\ excused = {} /\ left = {} /\ raced = FALSE
  BY DEF Init
<1>2. Idle \in CallState /\ Cleared \in [access : Maybe, refresh : Maybe, role : Maybe]
  BY DEF Idle, CallState, Cleared, Maybe
<1>3. \A c \in Calls : /\ call[c] = Idle /\ call[c].pc = "idle" /\ call[c].kind = "none"
                       /\ call[c].body = None /\ call[c].presented = None /\ call[c].new = None
  BY <1>1 DEF Idle
<1>4. stored.access = None /\ stored.refresh = None /\ stored.role = None /\ boot.pc = "access"
  BY <1>1 DEF Cleared, StartUp
<1>5. TypeOK
  <2>1. errors \in Seq(Calls) /\ family \in Seq(Tokens)
    BY <1>1
  <2>2. kills \in 0..MaxKills
    BY <1>1, MobileAssumption
  <2>3. boot \in [pc : {"access", "role", "done"}, access : Maybe]
    BY <1>1 DEF StartUp, Maybe
  <2> QED BY <1>1, <1>2, <1>3, <2>1, <2>2, <2>3 DEF TypeOK, Maybe
<1>6. TokensAreKnown
  <2>1. Len(family) <= MaxTokens
    BY <1>1, MobileAssumption
  <2> QED BY <1>1, <1>3, <1>4, <2>1 DEF TokensAreKnown, Known
<1>7. CallsAreFormed /\ OneInOnError /\ ReuseIsExplained
  BY <1>3 DEF CallsAreFormed, OneInOnError, InOnError, ReuseIsExplained
<1>8. UnstoredIsUnused /\ StoredIsUsable
  BY <1>1, <1>3 DEF UnstoredIsUnused, Unstored, StoredIsUsable
<1>9. SignInIsAlone /\ LeftIsGone /\ RoleIsOfTokens /\ SignInSaves /\ RetryFindsAnswer
  BY <1>1, <1>3, <1>4
     DEF SignInIsAlone, LeftIsGone, RoleIsOfTokens, SignInSaves, RetryFindsAnswer
<1> QED BY <1>5, <1>6, <1>7, <1>8, <1>9 DEF IInv, Orderly

LEMMA StutterInv == ASSUME IInv, UNCHANGED vars PROVE IInv'
<1>1. UNCHANGED <<stored, shown, isLoading, boot, call, errors, refreshFuture, family, revoked,
                  kills, excused, left, raced>>
  BY DEF vars, client, api, history
<1>2. TypeOK' /\ TokensAreKnown'
  BY <1>1 DEF IInv, TypeOK, TokensAreKnown, Known
<1>3. CallsAreFormed' /\ OneInOnError' /\ ReuseIsExplained' /\ StoredIsUsable'
  BY <1>1 DEF IInv, CallsAreFormed, OneInOnError, InOnError, ReuseIsExplained, StoredIsUsable, Excused
<1>4. UnstoredIsUnused'
  <2>1. \A d \in Calls : Unstored(d)' = Unstored(d)
    BY <1>1 DEF Unstored, Known
  <2>2. \A t : Excused(t)' = Excused(t)
    BY <1>1 DEF Excused
  <2> QED BY <1>1, <2>1, <2>2 DEF IInv, UnstoredIsUnused
<1>5. Orderly'
  <2> SUFFICES ASSUME ~raced
               PROVE  /\ SignInIsAlone' /\ LeftIsGone' /\ RoleIsOfTokens'
                      /\ SignInSaves' /\ RetryFindsAnswer'
    BY <1>1 DEF Orderly
  <2>0. SignInIsAlone /\ LeftIsGone /\ RoleIsOfTokens /\ SignInSaves /\ RetryFindsAnswer
    BY DEF IInv, Orderly
  <2>1. SignInIsAlone' /\ LeftIsGone'
    BY <1>1, <2>0 DEF SignInIsAlone, LeftIsGone
  <2>2. RoleIsOfTokens' /\ SignInSaves' /\ RetryFindsAnswer'
    BY <1>1, <2>0 DEF RoleIsOfTokens, SignInSaves, RetryFindsAnswer, InOnError
  <2> QED BY <2>1, <2>2
<1> QED BY <1>2, <1>3, <1>4, <1>5 DEF IInv

LEMMA NextInv == IInv /\ [Next]_vars => IInv'
<1> SUFFICES ASSUME IInv, [Next]_vars PROVE IInv'
  OBVIOUS
<1>1. CASE Boot
  BY <1>1, BootInv
<1>2. ASSUME NEW c \in Calls, CallStep(c) PROVE IInv'
  BY <1>2, SaveAccessInv, SaveRefreshInv, SaveRoleInv, EnterInv, LogoutClearInv, LogoutDoneInv,
     SendInv, ReadRefreshInv, HandleAuthFailureInv, ServePublicInv, ServeProtectedInv,
     ServeRefreshInv DEF CallStep
<1>3. ASSUME NEW c \in Calls, NEW kind \in {"public", "protected", "logout"}, Begin(c, kind)
      PROVE  IInv'
  BY <1>3, BeginInv
<1>4. CASE Kill
  BY <1>4, KillInv
<1>5. CASE UNCHANGED vars
  BY <1>5, StutterInv
<1> QED BY <1>1, <1>2, <1>3, <1>4, <1>5 DEF Next

LEMMA Invariance == Spec => []IInv
BY InitInv, NextInv, PTL DEF Spec

\* Every variable keeps its type, whatever the app, the API and the network do.
THEOREM TypeCorrectness == Spec => []TypeOK
<1>1. IInv => TypeOK
  BY DEF IInv
<1> QED BY <1>1, Invariance, PTL

\* The app never sends a refresh token that is revoked, except of a session that was
\* logged out or that it was killed in: storage and the queue of errors keep two
\* refreshes from presenting one token.
THEOREM NoFalseAlarm == Spec => []ReuseIsExplained
<1>1. IInv => ReuseIsExplained
  BY DEF IInv
<1> QED BY <1>1, Invariance, PTL

\* A session that logout has left stays left, also when a refresh that was under way
\* stores its tokens after the logout has cleared them, or the app is started again.
THEOREM LogoutIsForGood == Spec => []LogoutHolds
<1>1. IInv => LogoutHolds
  BY DEF IInv, Orderly, LeftIsGone, LogoutHolds
<1> QED BY <1>1, Invariance, PTL

\* saveTokens and the role write of a sign-in, in three steps, and the two of a refresh
\* never leave a role with the tokens of another session.
THEOREM OneSessionIsStored == Spec => []StoredSessionIsOne
<1>1. IInv => StoredSessionIsOne
  BY DEF IInv, Orderly, RoleIsOfTokens, StoredSessionIsOne
<1> QED BY <1>1, Invariance, PTL

\* No step of one call sends the request of another.
LEMMA StepHands == ASSUME IInv, NEW c \in Calls, CallStep(c) PROVE Handed(c)
<1>0. TypeOK /\ OneInOnError /\ call \in [Calls -> CallState] /\ call[c] \in CallState
  BY DEF IInv, TypeOK
<1>1. ASSUME (\E pc : Moves(c, pc)) \/ (\E state : Becomes(c, state))
      PROVE  Handed(c)
  <2>1. \A d \in Calls : d # c => call'[d] = call[d]
    BY <1>0, <1>1 DEF Moves, Becomes
  <2> QED BY <2>1 DEF Handed
<1>2. CASE SaveAccess(c) \/ SaveRefresh(c) \/ SaveRole(c) \/ Enter(c) \/ LogoutClear(c)
           \/ LogoutDone(c) \/ Send(c) \/ ReadRefresh(c) \/ ServeRefresh(c)
  BY <1>1, <1>2 DEF SaveAccess, SaveRefresh, SaveRole, Enter, LogoutClear, LogoutDone, Send,
                    ReadRefresh, ServeRefresh
<1>3. CASE HandleAuthFailure(c)
  <2>1. InOnError(c) /\ errors # <<>>
    BY <1>0, <1>3 DEF HandleAuthFailure, InOnError, OneInOnError
  <2>2. Ended(c) \in CallState /\ Ended(c).pc \in {"idle", "clear"}
    BY <1>0, EndedState
  <2>3. Returns(c, Ended(c))
    BY <1>0, <1>3, <2>1, <2>2, ErrorReturns DEF HandleAuthFailure
  <2> QED BY <1>0, <2>1, <2>2, <2>3, ReturnsHands
<1>4. ASSUME call[c].pc = "sent", \E is401 \in BOOLEAN : Fails(c, is401) PROVE Handed(c)
  BY <1>0, <1>4, FailsLeaves DEF HttpEnds
<1>5. CASE ServeProtected(c)
  <2>1. call[c].pc = "sent"
        /\ (Succeeds(c, Ended(c)) \/ \E is401 \in BOOLEAN : Fails(c, is401))
    BY <1>5 DEF ServeProtected
  <2>2. Ended(c) \in CallState /\ Ended(c).pc \in {"idle", "clear"}
    BY <1>0, EndedState
  <2> QED BY <1>0, <1>4, <2>1, <2>2, SucceedsLeaves DEF HttpEnds
<1>6. CASE ServePublic(c)
  <2> DEFINE state == [call[c] EXCEPT !.pc = "saveAccess", !.body = NewToken]
  <2>1. /\ call[c].pc = "sent"
        /\ \/ MayIssue /\ Succeeds(c, state)
           \/ Succeeds(c, Idle)
           \/ \E is401 \in BOOLEAN : Fails(c, is401)
    BY <1>6 DEF ServePublic
  <2>2. CASE MayIssue /\ Succeeds(c, state)
    <3>1. NewToken \in Maybe
      <4>1. Len(family) \in Nat /\ Len(family) < MaxTokens /\ MaxTokens \in Nat
        BY <1>0, <2>2, KnownTokens, MobileAssumption DEF MayIssue
      <4> QED BY <4>1 DEF NewToken, Tokens, Maybe
    <3>2. state \in CallState /\ state.pc = "saveAccess"
      BY <1>0, <3>1 DEF CallState
    <3> HIDE DEF state
    <3> QED BY <1>0, <2>1, <2>2, <3>2, SucceedsLeaves DEF HttpEnds
  <2>3. CASE Succeeds(c, Idle)
    <3>1. Idle \in CallState /\ Idle.pc = "idle"
      BY <1>0, EndedState DEF Idle
    <3> QED BY <1>0, <2>1, <2>3, <3>1, SucceedsLeaves DEF HttpEnds
  <2> QED BY <1>4, <2>1, <2>2, <2>3
<1> QED BY <1>2, <1>3, <1>5, <1>6 DEF CallStep

\* What a step may do to a call whose rejected request is to be sent again.
RetriedFresh(c) ==
    /\ ~raced
    /\ call[c].pc = "retry" /\ call'[c].pc = "sent"
    /\ call[c].kind # "public"
    => call'[c].access = call[c].new

\* A request that was rejected goes out again with the very token its refresh brought.
THEOREM RetriesAreFresh == Spec => RetryIsFresh
<1>1. IInv /\ [Next]_vars => [\A c \in Calls : RetriedFresh(c)]_vars
  <2> SUFFICES ASSUME IInv, Next, NEW c \in Calls, ~raced, call[c].pc = "retry",
                      call'[c].pc = "sent", call[c].kind # "public"
               PROVE  call'[c].access = call[c].new
    BY DEF RetriedFresh
  <2>0. TypeOK /\ OneInOnError /\ call \in [Calls -> CallState] /\ call[c] \in CallState
    BY DEF IInv, TypeOK
  <2>1. CASE Boot
    BY <2>1 DEF Boot, BootAccess, BootRole
  <2>2. ASSUME NEW d \in Calls, CallStep(d), d # c PROVE FALSE
    <3>1. Bystander(d, c)
      BY <2>0, <2>2, StepHands, Bystanders
    <3> QED BY <3>1 DEF Bystander
  <2>3. CASE CallStep(c)
    <3>1. Send(c)
      BY <2>3 DEF CallStep, SaveAccess, SaveRefresh, SaveRole, Enter, LogoutClear, LogoutDone,
                  ReadRefresh, HandleAuthFailure, ServePublic, ServeProtected, ServeRefresh
    <3>2. call'[c].access = IF stored.access # None THEN stored.access ELSE call[c].new
      BY <2>0, <3>1 DEF Send, Becomes, CallState
    <3>3. stored.access \in {None, call[c].new}
      BY DEF IInv, Orderly, RetryFindsAnswer, InOnError
    <3> QED BY <3>2, <3>3
  <2>4. ASSUME NEW d \in Calls, NEW kind \in {"public", "protected", "logout"}, Begin(d, kind)
        PROVE  FALSE
    <3>1. call[d].pc = "idle"
      BY <2>4 DEF Begin, Idle
    <3> QED BY <2>0, <2>4, <3>1 DEF Begin, Becomes
  <2>5. CASE Kill
    BY <2>5 DEF Kill, Idle
  <2> QED BY <2>1, <2>2, <2>3, <2>4, <2>5 DEF Next
<1>2. RetryIsFresh <=> [][\A c \in Calls : RetriedFresh(c)]_vars
  BY PTL DEF RetryIsFresh, RetriedFresh
<1> QED BY <1>1, <1>2, Invariance, PTL DEF Spec
=============================================================================
