------------------------ MODULE RefreshTokensProofs ------------------------
(* Theorems about RefreshTokens for all users, ids, request slots and bounds. *)
EXTENDS RefreshTokens, TLAPS

-----------------------------------------------------------------------------
(* The inductive invariant *)

\* Every in-flight request holds an issued token; one about to wipe a family
\* holds a revoked one and has shown its verifier.
RequestsHoldTokens ==
    \A r \in Requests :
        req[r] # Idle => /\ req[r].token \in DOMAIN tokens
                         /\ req[r].pc = "reuse" => /\ req[r].verified
                                                   /\ tokens[req[r].token].isRevoked

\* No token outlives one issued now.
ExpiryBound == \A t \in DOMAIN tokens : tokens[t].expiresAt <= now + TokenLife

IInv == /\ TypeOK
        /\ FamilyHasOneOwner
        /\ ReplacementChain
        /\ RequestsHoldTokens
        /\ LogoutIsFinal
        /\ ExpiryBound

-----------------------------------------------------------------------------
(* What the operations do to the table *)

\* Revoke keeps the table's type and keys, and changes isRevoked alone: to TRUE
\* on S, not at all elsewhere.
LEMMA RevokeRows ==
    ASSUME TypeOK, NEW S
    PROVE  /\ Revoke(S) \in [DOMAIN tokens -> TokenRow]
           /\ DOMAIN Revoke(S) = DOMAIN tokens
           /\ \A t \in DOMAIN tokens :
                /\ Revoke(S)[t].userId = tokens[t].userId
                /\ Revoke(S)[t].familyId = tokens[t].familyId
                /\ Revoke(S)[t].expiresAt = tokens[t].expiresAt
                /\ Revoke(S)[t].replacedByTokenId = tokens[t].replacedByTokenId
                /\ tokens[t].isRevoked => Revoke(S)[t].isRevoked
                /\ t \in S => Revoke(S)[t].isRevoked
BY DEF TypeOK, Revoke, TokenRow

\* A row just created is a row.
LEMMA NewRowType ==
    ASSUME TypeOK, NEW u \in Users, NEW f \in Families
    PROVE  NewRow(u, f) \in TokenRow
BY LifeAssumption DEF TypeOK, NewRow, TokenRow

\* The rows of a family are rows of the table, and of that family.
LEMMA FamilyTokensOf ==
    ASSUME NEW f, NEW t
    PROVE  t \in FamilyTokens(f) <=> t \in DOMAIN tokens /\ tokens[t].familyId = f
BY DEF FamilyTokens

\* A step that only revokes tokens of S, and adds a row to the audit log that is
\* not a LOGOUT of a token outside S, keeps the parts of the invariant about the
\* table and the log.
LEMMA RevokePreserves ==
    ASSUME IInv, NEW S, tokens' = Revoke(S), now' = now
    PROVE  /\ FamilyHasOneOwner'
           /\ ReplacementChain'
           /\ ExpiryBound'
           /\ \A r \in Requests : req[r] # Idle =>
                /\ req[r].token \in DOMAIN tokens'
                /\ req[r].pc = "reuse" => /\ req[r].verified
                                          /\ tokens'[req[r].token].isRevoked
           /\ \A e \in audit : e.action = "LOGOUT" =>
                /\ e.entityId \in DOMAIN tokens'
                /\ tokens'[e.entityId].isRevoked
<1> USE DEF IInv
<1>1. FamilyHasOneOwner'
  BY RevokeRows DEF FamilyHasOneOwner
<1>2. ReplacementChain'
  BY RevokeRows DEF ReplacementChain
<1>3. ExpiryBound'
  BY RevokeRows DEF ExpiryBound
<1>4. \A r \in Requests : req[r] # Idle =>
        /\ req[r].token \in DOMAIN tokens'
        /\ req[r].pc = "reuse" => /\ req[r].verified
                                  /\ tokens'[req[r].token].isRevoked
  BY RevokeRows DEF RequestsHoldTokens
<1>5. \A e \in audit : e.action = "LOGOUT" =>
        /\ e.entityId \in DOMAIN tokens'
        /\ tokens'[e.entityId].isRevoked
  BY RevokeRows DEF LogoutIsFinal
<1> QED BY <1>1, <1>2, <1>3, <1>4, <1>5

\* A request that is not idle is a refresh or a logout.
LEMMA RequestKinds ==
    ASSUME TypeOK, NEW r \in Requests
    PROVE  /\ req[r].pc \in {"reuse", "rotate", "logout"} => req[r] # Idle
           /\ req[r].pc \in {"reuse", "rotate"} => req[r] \in RefreshRequest
           /\ req[r].pc = "logout" => req[r] \in LogoutRequest
BY DEF TypeOK, RefreshRequest, LogoutRequest, Idle

\* Freeing a request slot keeps the requests well-typed.
LEMMA RespondType ==
    ASSUME TypeOK, NEW r \in Requests, Respond(r)
    PROVE  /\ req' \in [Requests -> {Idle} \cup RefreshRequest \cup LogoutRequest]
           /\ \A q \in Requests : req'[q] # Idle => req'[q] = req[q]
BY DEF TypeOK, Respond

-----------------------------------------------------------------------------
(* The invariant is inductive *)

\* The empty database satisfies the invariant.
LEMMA InitInv == Init => IInv
<1> SUFFICES ASSUME Init PROVE IInv
  OBVIOUS
<1>1. DOMAIN tokens = {}
  BY DEF Init
<1>2. TypeOK
  BY <1>1 DEF Init, TypeOK
<1>3. FamilyHasOneOwner /\ ReplacementChain /\ ExpiryBound
  BY <1>1 DEF FamilyHasOneOwner, ReplacementChain, ExpiryBound
<1>4. RequestsHoldTokens /\ LogoutIsFinal
  BY DEF Init, RequestsHoldTokens, LogoutIsFinal
<1> QED BY <1>2, <1>3, <1>4 DEF IInv

\* A new session starts a family of its own.
LEMMA OpenSessionInv ==
    ASSUME IInv, NEW u \in Users, OpenSession(u)
    PROVE  IInv'
<1> USE DEF IInv
<1>1. PICK t \in TokenIds \ DOMAIN tokens, f \in Families :
        /\ FamilyTokens(f) = {}
        /\ tokens' = [x \in DOMAIN tokens \cup {t} |->
                        IF x = t THEN NewRow(u, f) ELSE tokens[x]]
        /\ UNCHANGED <<now, audit, req>>
  BY DEF OpenSession
<1>2. NewRow(u, f) \in TokenRow
  BY NewRowType
<1>3. /\ DOMAIN tokens' = DOMAIN tokens \cup {t}
      /\ tokens'[t] = NewRow(u, f)
      /\ \A x \in DOMAIN tokens : tokens'[x] = tokens[x]
  BY <1>1
<1>4. \A x \in DOMAIN tokens : tokens[x].familyId # f
  BY <1>1, FamilyTokensOf
<1>5. TypeOK'
  BY <1>1, <1>2, <1>3 DEF TypeOK
<1>6. FamilyHasOneOwner'
  BY <1>3, <1>4 DEF FamilyHasOneOwner, NewRow
<1>7. ReplacementChain'
  BY <1>3 DEF ReplacementChain, NewRow
<1>8. RequestsHoldTokens'
  BY <1>1, <1>3 DEF RequestsHoldTokens
<1>9. LogoutIsFinal'
  BY <1>1, <1>3 DEF LogoutIsFinal
<1>10. ExpiryBound'
  BY <1>1, <1>3, LifeAssumption DEF ExpiryBound, NewRow, TypeOK
<1> QED BY <1>5, <1>6, <1>7, <1>8, <1>9, <1>10

\* A rotation adds the new token to the family, for the owner, of the token it
\* replaces, whatever happened to that token since it was read.
LEMMA RefreshRotateInv ==
    ASSUME IInv, NEW r \in Requests, RefreshRotate(r)
    PROVE  IInv'
<1> USE DEF IInv
<1> DEFINE old == req[r].token
<1>1. PICK t \in TokenIds \ DOMAIN tokens :
        tokens' = [x \in DOMAIN tokens \cup {t} |->
                      IF x = t
                        THEN NewRow(tokens[old].userId, tokens[old].familyId)
                      ELSE IF x = old
                        THEN [tokens[old] EXCEPT !.isRevoked = TRUE,
                                                 !.replacedByTokenId = t]
                      ELSE tokens[x]]
  BY DEF RefreshRotate
<1>2. Respond(r) /\ UNCHANGED <<now, audit>> /\ req[r].pc = "rotate"
  BY DEF RefreshRotate
<1>3. old \in DOMAIN tokens
  BY <1>2, RequestKinds DEF RequestsHoldTokens
<1>4. tokens[old] \in TokenRow
  BY <1>3 DEF TypeOK
<1>5. tokens[old].userId \in Users /\ tokens[old].familyId \in Families
  BY <1>4 DEF TokenRow
<1>6. NewRow(tokens[old].userId, tokens[old].familyId) \in TokenRow
  BY <1>5, NewRowType
<1>7. /\ DOMAIN tokens' = DOMAIN tokens \cup {t}
      /\ tokens'[t] = NewRow(tokens[old].userId, tokens[old].familyId)
      /\ tokens'[old] = [tokens[old] EXCEPT !.isRevoked = TRUE,
                                            !.replacedByTokenId = t]
      /\ \A x \in DOMAIN tokens \ {old} : tokens'[x] = tokens[x]
  BY <1>1, <1>3
<1>8. tokens'[old] \in TokenRow
  BY <1>4, <1>7 DEF TokenRow
<1>9. /\ tokens'[old].isRevoked = TRUE
      /\ tokens'[old].replacedByTokenId = t
      /\ tokens'[old].userId = tokens[old].userId
      /\ tokens'[old].familyId = tokens[old].familyId
      /\ tokens'[old].expiresAt = tokens[old].expiresAt
  BY <1>4, <1>7 DEF TokenRow
<1>10. TypeOK'
  <2>1. tokens' \in [DOMAIN tokens' -> TokenRow] /\ DOMAIN tokens' \subseteq TokenIds
    <3>1. \A x \in DOMAIN tokens' : tokens'[x] \in TokenRow
      BY <1>6, <1>7, <1>8 DEF TypeOK
    <3>2. tokens' = [x \in DOMAIN tokens' |-> tokens'[x]]
      BY <1>1, <1>7
    <3> QED BY <1>7, <3>1, <3>2 DEF TypeOK
  <2> QED BY <1>2, <2>1, RespondType DEF TypeOK
<1>11. FamilyHasOneOwner'
  <2>1. \A x \in DOMAIN tokens : /\ tokens'[x].userId = tokens[x].userId
                                 /\ tokens'[x].familyId = tokens[x].familyId
    BY <1>7, <1>9
  <2>2. /\ tokens'[t].userId = tokens[old].userId
        /\ tokens'[t].familyId = tokens[old].familyId
    BY <1>7 DEF NewRow
  <2> QED BY <1>3, <1>7, <2>1, <2>2 DEF FamilyHasOneOwner
<1>12. ReplacementChain'
  <2>1. tokens'[t].replacedByTokenId = None
    BY <1>7 DEF NewRow
  <2>2. /\ t # old
        /\ tokens'[t].familyId = tokens[old].familyId
        /\ tokens'[t].expiresAt = now + TokenLife
    BY <1>3, <1>7 DEF NewRow
  <2>3. tokens[old].expiresAt <= now + TokenLife
    BY <1>3 DEF ExpiryBound
  <2>4. now + TokenLife \in Int /\ tokens[old].expiresAt \in Int
    BY <1>4, LifeAssumption DEF TypeOK, TokenRow
  <2>5. ASSUME NEW x \in DOMAIN tokens \ {old},
               tokens'[x].replacedByTokenId # None
        PROVE  LET s == tokens'[x].replacedByTokenId IN
               /\ s \in DOMAIN tokens' \ {x}
               /\ tokens'[x].isRevoked
               /\ tokens'[s].familyId = tokens'[x].familyId
               /\ tokens'[s].expiresAt >= tokens'[x].expiresAt
    <3>1. tokens'[x] = tokens[x]
      BY <1>7
    <3>2. LET s == tokens[x].replacedByTokenId IN
          /\ s \in DOMAIN tokens \ {x}
          /\ tokens[x].isRevoked
          /\ tokens[s].familyId = tokens[x].familyId
          /\ tokens[s].expiresAt >= tokens[x].expiresAt
      BY <2>5, <3>1 DEF ReplacementChain
    <3>3. \A s \in DOMAIN tokens : /\ tokens'[s].familyId = tokens[s].familyId
                                   /\ tokens'[s].expiresAt = tokens[s].expiresAt
      BY <1>7, <1>9
    <3> QED BY <1>7, <3>1, <3>2, <3>3
  <2>6. LET s == tokens'[old].replacedByTokenId IN
               /\ s \in DOMAIN tokens' \ {old}
               /\ tokens'[old].isRevoked
               /\ tokens'[s].familyId = tokens'[old].familyId
               /\ tokens'[s].expiresAt >= tokens'[old].expiresAt
    BY <1>7, <1>9, <2>2, <2>3, <2>4
  <2> QED BY <1>7, <2>1, <2>5, <2>6 DEF ReplacementChain
<1>13. RequestsHoldTokens'
  <2>1. SUFFICES ASSUME NEW q \in Requests, req'[q] # Idle
        PROVE  /\ req'[q].token \in DOMAIN tokens'
               /\ req'[q].pc = "reuse" => /\ req'[q].verified
                                          /\ tokens'[req'[q].token].isRevoked
    BY DEF RequestsHoldTokens
  <2>2. req'[q] = req[q]
    BY <1>2, <2>1, RespondType
  <2>3. /\ req[q].token \in DOMAIN tokens
        /\ req[q].pc = "reuse" => /\ req[q].verified
                                  /\ tokens[req[q].token].isRevoked
    BY <2>1, <2>2 DEF RequestsHoldTokens
  <2> QED BY <1>7, <1>9, <2>2, <2>3
<1>14. LogoutIsFinal'
  BY <1>2, <1>7, <1>9 DEF LogoutIsFinal
<1>15. ExpiryBound'
  <2>1. tokens'[t].expiresAt = now + TokenLife /\ now + TokenLife \in Int
    BY <1>7, LifeAssumption DEF NewRow, TypeOK
  <2>2. \A x \in DOMAIN tokens : /\ tokens'[x].expiresAt = tokens[x].expiresAt
                                 /\ tokens[x].expiresAt <= now + TokenLife
    BY <1>7, <1>9 DEF ExpiryBound
  <2> QED BY <1>2, <1>7, <2>1, <2>2 DEF ExpiryBound
<1> QED BY <1>10, <1>11, <1>12, <1>13, <1>14, <1>15

\* A step that revokes tokens, logs a row whose LOGOUT, if it is one, is of a
\* token it revokes, and answers at most one request keeps the invariant.
LEMMA RevokingStepInv ==
    ASSUME IInv, NEW S, NEW action, NEW id,
           tokens' = Revoke(S), now' = now, Log(action, id),
           [action |-> action, entityId |-> id] \in AuditRow,
           action = "LOGOUT" => id \in S /\ id \in DOMAIN tokens,
           \/ req' = req
           \/ \E r \in Requests : Respond(r)
    PROVE  IInv'
<1> USE DEF IInv
<1>1. /\ req' \in [Requests -> {Idle} \cup RefreshRequest \cup LogoutRequest]
      /\ \A q \in Requests : req'[q] # Idle => req'[q] = req[q]
  BY RespondType DEF TypeOK
<1>2. TypeOK'
  BY <1>1, RevokeRows DEF TypeOK, Log
<1>3. RequestsHoldTokens'
  <2>1. SUFFICES ASSUME NEW q \in Requests, req'[q] # Idle
        PROVE  /\ req'[q].token \in DOMAIN tokens'
               /\ req'[q].pc = "reuse" => /\ req'[q].verified
                                          /\ tokens'[req'[q].token].isRevoked
    BY DEF RequestsHoldTokens
  <2>2. req'[q] = req[q]
    BY <1>1, <2>1
  <2> QED BY <2>1, <2>2, RevokePreserves
<1>4. LogoutIsFinal'
  <2>1. SUFFICES ASSUME NEW e \in audit', e.action = "LOGOUT"
        PROVE  e.entityId \in DOMAIN tokens' /\ tokens'[e.entityId].isRevoked
    BY DEF LogoutIsFinal
  <2>2. CASE e \in audit
    BY <2>1, <2>2, RevokePreserves
  <2>3. CASE e = [action |-> action, entityId |-> id]
    BY <2>1, <2>3, RevokeRows
  <2> QED BY <2>2, <2>3 DEF Log
<1> QED BY <1>2, <1>3, <1>4, RevokePreserves

\* The three operations that revoke.
LEMMA RefreshReuseInv ==
    ASSUME IInv, NEW r \in Requests, RefreshReuse(r)
    PROVE  IInv'
<1> DEFINE f == tokens[req[r].token].familyId
<1>1. /\ tokens' = Revoke(FamilyTokens(f))
      /\ Log("REFRESH_TOKEN_REUSE_DETECTED", f)
      /\ now' = now
      /\ Respond(r)
      /\ req[r].pc = "reuse"
  BY DEF RefreshReuse
<1>2. req[r].token \in DOMAIN tokens
  BY <1>1, RequestKinds DEF IInv, RequestsHoldTokens
<1>3. f \in Families
  BY <1>2 DEF IInv, TypeOK, TokenRow
<1>4. [action |-> "REFRESH_TOKEN_REUSE_DETECTED", entityId |-> f] \in AuditRow
  BY <1>3 DEF AuditRow
<1> HIDE DEF f
<1> QED BY <1>1, <1>4, RevokingStepInv

\* Logout revokes the token it logs.
LEMMA LogoutCommitInv ==
    ASSUME IInv, NEW r \in Requests, LogoutCommit(r)
    PROVE  IInv'
<1> DEFINE t == req[r].token
<1>1. /\ tokens' = Revoke({t})
      /\ Log("LOGOUT", t)
      /\ now' = now
      /\ Respond(r)
      /\ req[r].pc = "logout"
  BY DEF LogoutCommit
<1>2. t \in DOMAIN tokens
  BY <1>1, RequestKinds DEF IInv, RequestsHoldTokens
<1>3. [action |-> "LOGOUT", entityId |-> t] \in AuditRow
  BY <1>2 DEF AuditRow, IInv, TypeOK
<1> HIDE DEF t
<1> QED BY <1>1, <1>2, <1>3, RevokingStepInv

\* Revoking all sessions of a user logs no LOGOUT.
LEMMA RevokeAllSessionsInv ==
    ASSUME IInv, NEW u \in Users, RevokeAllSessions(u)
    PROVE  IInv'
<1> DEFINE S == {t \in DOMAIN tokens : tokens[t].userId = u}
<1>1. /\ tokens' = Revoke(S)
      /\ Log("REVOKE_ALL_SESSIONS", u)
      /\ UNCHANGED <<now, req>>
  BY DEF RevokeAllSessions
<1>2. [action |-> "REVOKE_ALL_SESSIONS", entityId |-> u] \in AuditRow
  BY DEF AuditRow
<1> HIDE DEF S
<1> QED BY <1>1, <1>2, RevokingStepInv

\* A step that changes neither table nor log, and lets the clock only advance,
\* keeps the invariant if it keeps the requests in order.
LEMMA QuietStepInv ==
    ASSUME IInv, tokens' = tokens, audit' = audit, now' \in Nat, now <= now',
           req' \in [Requests -> {Idle} \cup RefreshRequest \cup LogoutRequest],
           RequestsHoldTokens'
    PROVE  IInv'
<1> USE DEF IInv
<1>1. TypeOK'
  BY DEF TypeOK
<1>2. FamilyHasOneOwner' /\ ReplacementChain' /\ LogoutIsFinal'
  BY DEF FamilyHasOneOwner, ReplacementChain, LogoutIsFinal
<1>3. ExpiryBound'
  <2>1. \A t \in DOMAIN tokens : tokens[t].expiresAt \in Nat
    BY DEF TypeOK, TokenRow
  <2> QED BY <2>1, LifeAssumption DEF ExpiryBound, TypeOK
<1> QED BY <1>1, <1>2, <1>3

\* The reads remember an issued token, a revoked one if the branch is "reuse".
LEMMA ReadsInv ==
    ASSUME IInv, NEW r \in Requests, NEW t \in TokenIds, NEW ok \in BOOLEAN,
           RefreshRead(r, t, ok) \/ \E u \in Users : LogoutRead(r, u, t, ok)
    PROVE  IInv'
<1> DEFINE New == req'[r]
<1>1. /\ UNCHANGED <<now, tokens, audit>>
      /\ t \in DOMAIN tokens
      /\ req' = [req EXCEPT ![r] = New]
      /\ \/ New = [pc |-> "reuse", token |-> t, verified |-> TRUE] /\ tokens[t].isRevoked
         \/ New = [pc |-> "rotate", token |-> t, verified |-> TRUE]
         \/ New = [pc |-> "logout", token |-> t]
  BY DEF RefreshRead, LogoutRead, IInv, TypeOK
<1> HIDE DEF New
<1>2. New \in RefreshRequest \cup LogoutRequest
  <2>1. /\ [pc |-> "reuse", token |-> t, verified |-> TRUE] \in RefreshRequest
        /\ [pc |-> "rotate", token |-> t, verified |-> TRUE] \in RefreshRequest
        /\ [pc |-> "logout", token |-> t] \in LogoutRequest
    BY DEF RefreshRequest, LogoutRequest
  <2> QED BY <1>1, <2>1
<1>3. New.token = t /\ (New.pc = "reuse" => New.verified /\ tokens[t].isRevoked)
  BY <1>1
<1>4. req' \in [Requests -> {Idle} \cup RefreshRequest \cup LogoutRequest]
  BY <1>1, <1>2 DEF IInv, TypeOK
<1>5. RequestsHoldTokens'
  BY <1>1, <1>3 DEF IInv, TypeOK, RequestsHoldTokens
<1> QED BY <1>1, <1>4, <1>5, QuietStepInv DEF IInv, TypeOK

\* A request that fails frees its slot and does nothing else.
LEMMA RequestFailsInv ==
    ASSUME IInv, NEW r \in Requests, RequestFails(r)
    PROVE  IInv'
<1>1. Respond(r) /\ UNCHANGED <<now, tokens, audit>>
  BY DEF RequestFails
<1>2. RequestsHoldTokens'
  BY <1>1, RespondType DEF IInv, RequestsHoldTokens
<1> QED BY <1>1, <1>2, RespondType, QuietStepInv DEF IInv, TypeOK

\* Time may pass: the bound on expiry only widens.
LEMMA TickInv == ASSUME IInv, Tick PROVE IInv'
<1>1. RequestsHoldTokens'
  BY DEF Tick, IInv, RequestsHoldTokens
<1> QED BY <1>1, QuietStepInv DEF Tick, IInv, TypeOK

\* Every step keeps the invariant.
LEMMA NextInv == IInv /\ [Next]_vars => IInv'
<1> SUFFICES ASSUME IInv, [Next]_vars PROVE IInv'
  OBVIOUS
<1>1. ASSUME NEW u \in Users, OpenSession(u) PROVE IInv'
  BY <1>1, OpenSessionInv
<1>2. ASSUME NEW u \in Users, RevokeAllSessions(u) PROVE IInv'
  BY <1>2, RevokeAllSessionsInv
<1>3. ASSUME NEW r \in Requests, RequestStep(r) PROVE IInv'
  BY <1>3, ReadsInv, RefreshReuseInv, RefreshRotateInv, LogoutCommitInv,
     RequestFailsInv DEF RequestStep
<1>4. CASE Tick
  BY <1>4, TickInv
<1>5. CASE UNCHANGED vars
  <2>1. RequestsHoldTokens'
    BY <1>5 DEF vars, IInv, RequestsHoldTokens
  <2> QED BY <1>5, <2>1, QuietStepInv DEF vars, IInv, TypeOK
<1> QED BY <1>1, <1>2, <1>3, <1>4, <1>5 DEF Next

\* The invariant holds in every reachable state.
THEOREM SessionInvariant == Spec => []IInv
BY InitInv, NextInv, PTL DEF Spec

-----------------------------------------------------------------------------
(* Theorems *)

\* The variables keep their types.
THEOREM TypeCorrectness == Spec => []TypeOK
<1>1. IInv => TypeOK
  BY DEF IInv
<1> QED BY <1>1, SessionInvariant, PTL

\* Reuse detection and rotation never cross from one user to another.
THEOREM OneOwner == Spec => []FamilyHasOneOwner
<1>1. IInv => FamilyHasOneOwner
  BY DEF IInv
<1> QED BY <1>1, SessionInvariant, PTL

\* replacedByTokenId always leads to an issued token of the same session.
THEOREM ChainsAreSound == Spec => []ReplacementChain
<1>1. IInv => ReplacementChain
  BY DEF IInv
<1> QED BY <1>1, SessionInvariant, PTL

\* A session is wiped only after a revoked token of it was shown.
THEOREM GenuineReuse == Spec => []ReuseIsGenuine
<1>1. IInv => ReuseIsGenuine
  BY RequestKinds DEF IInv, RequestsHoldTokens, ReuseIsGenuine
<1> QED BY <1>1, SessionInvariant, PTL

\* A logged-out token is revoked for good.
THEOREM FinalLogout == Spec => []LogoutIsFinal
<1>1. IInv => LogoutIsFinal
  BY DEF IInv
<1> QED BY <1>1, SessionInvariant, PTL

-----------------------------------------------------------------------------
(* What a step may do *)

\* Rows are kept, with their owner, family and expiry, and stay revoked.
RowsKept ==
    \A t \in DOMAIN tokens :
        /\ t \in DOMAIN tokens'
        /\ tokens[t].isRevoked => tokens'[t].isRevoked
        /\ tokens'[t].userId = tokens[t].userId
        /\ tokens'[t].familyId = tokens[t].familyId
        /\ tokens'[t].expiresAt = tokens[t].expiresAt

\* A row is added to a family that is new or that a request may rotate.
NewRowsAllowed ==
    \A t \in DOMAIN tokens' \ DOMAIN tokens :
        \/ FamilyTokens(tokens'[t].familyId) = {}
        \/ \E r \in Requests : MayRotate(r, tokens'[t].familyId)

\* A request that may rotate could before, or has just read a usable token.
RotatorsRead ==
    \A r \in Requests :
        req'[r].pc = "rotate" => \/ req'[r] = req[r]
                                \/ /\ req'[r].token \in DOMAIN tokens
                                   /\ Usable(req'[r].token)

\* Revoking keeps the rows and adds none.
LEMMA RevokingRows ==
    ASSUME IInv, NEW S, tokens' = Revoke(S)
    PROVE  RowsKept /\ NewRowsAllowed
BY RevokeRows DEF IInv, RowsKept, NewRowsAllowed

\* A new session keeps the rows and adds one that begins a family.
LEMMA OpenSessionRows ==
    ASSUME IInv, NEW u \in Users, OpenSession(u)
    PROVE  RowsKept /\ NewRowsAllowed
<1>1. PICK t \in TokenIds \ DOMAIN tokens, f \in Families :
        /\ FamilyTokens(f) = {}
        /\ tokens' = [x \in DOMAIN tokens \cup {t} |->
                        IF x = t THEN NewRow(u, f) ELSE tokens[x]]
  BY DEF OpenSession
<1>2. tokens'[t].familyId = f
  BY <1>1 DEF NewRow
<1> QED BY <1>1, <1>2 DEF RowsKept, NewRowsAllowed

\* A rotation keeps the rows and adds one to the family it rotates in.
LEMMA RefreshRotateRows ==
    ASSUME IInv, NEW r \in Requests, RefreshRotate(r)
    PROVE  RowsKept /\ NewRowsAllowed
<1> DEFINE old == req[r].token
<1>1. PICK t \in TokenIds \ DOMAIN tokens :
        tokens' = [x \in DOMAIN tokens \cup {t} |->
                      IF x = t
                        THEN NewRow(tokens[old].userId, tokens[old].familyId)
                      ELSE IF x = old
                        THEN [tokens[old] EXCEPT !.isRevoked = TRUE,
                                                 !.replacedByTokenId = t]
                      ELSE tokens[x]]
  BY DEF RefreshRotate
<1>2. req[r].pc = "rotate" /\ old \in DOMAIN tokens
  BY RequestKinds DEF RefreshRotate, IInv, RequestsHoldTokens
<1>3. tokens[old] \in TokenRow
  BY <1>2 DEF IInv, TypeOK
<1>4. tokens'[t].familyId = tokens[old].familyId
  BY <1>1, <1>2 DEF NewRow
<1>5. tokens'[old] = [tokens[old] EXCEPT !.isRevoked = TRUE,
                                        !.replacedByTokenId = t]
  BY <1>1, <1>2
<1>6. RowsKept
  BY <1>1, <1>2, <1>3, <1>5 DEF RowsKept, TokenRow
<1>7. MayRotate(r, tokens'[t].familyId)
  BY <1>2, <1>4 DEF MayRotate
<1> QED BY <1>1, <1>6, <1>7 DEF NewRowsAllowed

\* A step that leaves the table alone keeps the rows and adds none.
LEMMA SameRows ==
    ASSUME tokens' = tokens
    PROVE  RowsKept /\ NewRowsAllowed
BY DEF RowsKept, NewRowsAllowed

\* Every step keeps the rows and adds only allowed ones.
LEMMA StepRows ==
    ASSUME IInv, [Next]_vars
    PROVE  RowsKept /\ NewRowsAllowed
<1>1. ASSUME NEW u \in Users, OpenSession(u) PROVE RowsKept /\ NewRowsAllowed
  BY <1>1, OpenSessionRows
<1>2. ASSUME NEW u \in Users, RevokeAllSessions(u) PROVE RowsKept /\ NewRowsAllowed
  BY <1>2, RevokingRows DEF RevokeAllSessions
<1>3. ASSUME NEW r \in Requests, RequestStep(r) PROVE RowsKept /\ NewRowsAllowed
  <2>1. CASE RefreshRotate(r)
    BY <2>1, RefreshRotateRows
  <2>2. CASE RefreshReuse(r)
    BY <2>2, RevokingRows DEF RefreshReuse
  <2>3. CASE LogoutCommit(r)
    BY <2>3, RevokingRows DEF LogoutCommit
  <2>4. CASE tokens' = tokens
    BY <2>4, SameRows
  <2> QED BY <1>3, <2>1, <2>2, <2>3, <2>4
          DEF RequestStep, RefreshRead, LogoutRead, RequestFails
<1>4. CASE Tick \/ UNCHANGED vars
  BY <1>4, SameRows DEF Tick, vars
<1> QED BY <1>1, <1>2, <1>3, <1>4 DEF Next

\* Only a read of a usable token makes a request that may rotate.
LEMMA StepRotators ==
    ASSUME IInv, [Next]_vars
    PROVE  RotatorsRead
<1>1. CASE req' = req
  BY <1>1 DEF RotatorsRead
<1>2. ASSUME NEW r \in Requests, Respond(r) PROVE RotatorsRead
  BY <1>2, RespondType DEF IInv, RotatorsRead, Idle
<1>3. ASSUME NEW r \in Requests, NEW t \in TokenIds, NEW ok \in BOOLEAN,
             RefreshRead(r, t, ok)
      PROVE  RotatorsRead
  BY <1>3 DEF RefreshRead, RotatorsRead, Usable, Live, IInv, TypeOK
<1>4. ASSUME NEW r \in Requests, NEW u \in Users, NEW t \in TokenIds,
             NEW ok \in BOOLEAN, LogoutRead(r, u, t, ok)
      PROVE  RotatorsRead
  BY <1>4 DEF LogoutRead, RotatorsRead, IInv, TypeOK
<1> QED BY <1>1, <1>2, <1>3, <1>4
        DEF Next, RequestStep, OpenSession, RevokeAllSessions, RefreshReuse,
            RefreshRotate, LogoutCommit, RequestFails, Tick, vars

\* The clock does not go back.
LEMMA StepClock == ASSUME IInv, [Next]_vars PROVE now' \in Nat /\ now <= now'
<1>1. CASE now' = now
  BY <1>1 DEF IInv, TypeOK
<1>2. CASE Tick
  BY <1>2 DEF Tick, IInv, TypeOK
<1>3. ASSUME NEW r \in Requests, RequestStep(r) PROVE now' = now
  BY <1>3 DEF RequestStep, RefreshRead, RefreshReuse, RefreshRotate, LogoutRead,
              LogoutCommit, RequestFails
<1>4. ASSUME NEW u \in Users, OpenSession(u) \/ RevokeAllSessions(u) PROVE now' = now
  BY <1>4 DEF OpenSession, RevokeAllSessions
<1> QED BY <1>1, <1>2, <1>3, <1>4 DEF Next, vars

\* Tokens are never deleted, given back, moved or prolonged.
THEOREM TokensAreOnlyRevoked == Spec => TokensOnlyRevoked
<1>1. IInv /\ [Next]_vars => RowsKept
  BY StepRows
<1>2. RowsKept =>
        \A t \in DOMAIN tokens :
         /\ t \in DOMAIN tokens'
         /\ tokens[t].isRevoked => tokens'[t].isRevoked
         /\ tokens'[t].userId = tokens[t].userId
         /\ tokens'[t].familyId = tokens[t].familyId
         /\ tokens'[t].expiresAt = tokens[t].expiresAt
  BY DEF RowsKept
<1> QED BY <1>1, <1>2, SessionInvariant, PTL DEF Spec, TokensOnlyRevoked

\* One step cannot reopen a closed session.
LEMMA ClosedStep ==
    ASSUME IInv, [Next]_vars, NEW f \in Families, Closed(f)
    PROVE  Closed(f)'
<1>1. RowsKept /\ NewRowsAllowed /\ RotatorsRead /\ now' \in Nat /\ now <= now'
  BY StepRows, StepRotators, StepClock
<1>2. IInv'
  BY NextInv
<1>3. FamilyTokens(f)' # {}
  BY <1>1 DEF Closed, FamilyTokens, RowsKept
<1>4. ASSUME NEW t \in FamilyTokens(f)' PROVE ~Usable(t)'
  <2>1. t \in DOMAIN tokens' /\ tokens'[t].familyId = f
    BY DEF FamilyTokens
  <2>2. t \in DOMAIN tokens
    BY <1>1, <2>1 DEF NewRowsAllowed, Closed
  <2>3. t \in FamilyTokens(f) /\ ~Usable(t)
    BY <1>1, <2>1, <2>2 DEF RowsKept, FamilyTokens, Closed
  <2>4. tokens[t].expiresAt \in Nat /\ now \in Nat
    BY <2>2 DEF IInv, TypeOK, TokenRow
  <2> QED BY <1>1, <2>2, <2>3, <2>4 DEF RowsKept, Usable, Live
<1>5. ASSUME NEW r \in Requests, MayRotate(r, f)' PROVE FALSE
  <2>1. req'[r].pc = "rotate" /\ tokens'[req'[r].token].familyId = f
    BY <1>5 DEF MayRotate
  <2>2. CASE req'[r] = req[r]
    <3>1. req[r].token \in DOMAIN tokens
      BY <2>1, <2>2, RequestKinds DEF IInv, RequestsHoldTokens
    <3> QED BY <1>1, <2>1, <2>2, <3>1 DEF RowsKept, Closed, MayRotate
  <2>3. CASE req'[r].token \in DOMAIN tokens /\ Usable(req'[r].token)
    BY <1>1, <2>1, <2>3 DEF RowsKept, Closed, FamilyTokens
  <2> QED BY <1>1, <2>1, <2>2, <2>3 DEF RotatorsRead
<1> QED BY <1>3, <1>4, <1>5 DEF Closed

\* No sequence of operations reopens a closed session.
THEOREM ClosedForGood == Spec => ClosedFamilyStaysClosed
<1>1. IInv /\ [Next]_vars => \A f \in Families : Closed(f) => Closed(f)'
  BY ClosedStep
<1> QED BY <1>1, SessionInvariant, PTL DEF Spec, ClosedFamilyStaysClosed

=============================================================================
