--------------------------- MODULE RefreshTokens ---------------------------
(***************************************************************************)
(* Refresh-token sessions of the API: AuthService.generateSessionTokens,   *)
(* refreshToken, logout and revokeAllSessions over the RefreshToken table. *)
(*                                                                         *)
(* A request is cut where the code awaits the database.  refreshToken and  *)
(* logout read the row OUTSIDE their transaction, so other requests commit *)
(* between that read and the transaction that acts on it; a transaction is *)
(* one atomic step (its first statement locks the rows it changes).        *)
(* Several API requests (the set Requests) are in flight at once.          *)
(*                                                                         *)
(* Bounds: the sets TokenIds and Families (the uuids still to be drawn)    *)
(* and MaxTime.  A clock unit stands for TokenLife-th of the 7 days.       *)
(***************************************************************************)
EXTENDS Integers, FiniteSets

CONSTANTS
    Users,      \* users, by id
    TokenIds,   \* refresh-token ids crypto.randomUUID() may return
    Families,   \* family ids crypto.randomUUID() may return
    Requests,   \* slots of concurrently handled API requests
    None,       \* SQL NULL
    TokenLife,  \* 7 days, in clock units
    MaxTime     \* bound on the clock

ASSUME LifeAssumption == TokenLife \in Nat /\ MaxTime \in Nat
ASSUME NoneAssumption == None \notin TokenIds

VARIABLES
    now,     \* the clock, new Date()
    tokens,  \* RefreshToken table: its DOMAIN is the set of primary keys
    audit,   \* AuditLog rows that concern sessions
    req      \* what each request in flight remembers across its awaits

vars == <<now, tokens, audit, req>>

-----------------------------------------------------------------------------
(* Rows and requests *)

TokenRow == [userId : Users, familyId : Families, isRevoked : BOOLEAN,
             replacedByTokenId : TokenIds \cup {None}, expiresAt : Nat]

AuditRow ==
    [action : {"REFRESH_TOKEN_REUSE_DETECTED"}, entityId : Families]
      \cup [action : {"LOGOUT"}, entityId : TokenIds]
      \cup [action : {"REVOKE_ALL_SESSIONS"}, entityId : Users]

Idle == [pc |-> "idle"]

\* The branch a request took on the row it read; its transaction is still to
\* run.  verified: the verifier it presented matches the row's hash.
RefreshRequest == [pc : {"reuse", "rotate"}, token : TokenIds, verified : BOOLEAN]
LogoutRequest == [pc : {"logout"}, token : TokenIds]

TypeOK ==
    /\ now \in Nat
    /\ DOMAIN tokens \subseteq TokenIds
    /\ tokens \in [DOMAIN tokens -> TokenRow]
    /\ audit \subseteq AuditRow
    /\ req \in [Requests -> {Idle} \cup RefreshRequest \cup LogoutRequest]

FamilyTokens(f) == {t \in DOMAIN tokens : tokens[t].familyId = f}

NewRow(u, f) == [userId |-> u, familyId |-> f, isRevoked |-> FALSE,
                 replacedByTokenId |-> None, expiresAt |-> now + TokenLife]

\* Mutant of Revoke: tokens are revoked by ending their life, the flag is forgotten.
RevokeByExpiry(S) == [t \in DOMAIN tokens |->
                        IF t \in S THEN [tokens[t] EXCEPT !.expiresAt = now]
                                   ELSE tokens[t]]

\* The table after the rows in S are revoked.
Revoke(S) == [t \in DOMAIN tokens |->
                IF t \in S THEN [tokens[t] EXCEPT !.isRevoked = TRUE]
                           ELSE tokens[t]]

\* Mutant of Log: the audit row does not say what it is about.
LogAnonymously(action, id) == audit' = audit \cup {[action |-> action, entityId |-> None]}

Log(action, id) == audit' = audit \cup {[action |-> action, entityId |-> id]}

Respond(r) == req' = [req EXCEPT ![r] = Idle]

-----------------------------------------------------------------------------
(* Operations *)

Init ==
    /\ now = 0
    /\ tokens = [t \in {} |-> None]
    /\ audit = {}
    /\ req = [r \in Requests |-> Idle]

\* Mutant of OpenSession: the family id is chosen without regard to other users.
OpenSessionInAnyFamily(u) ==
    \E t \in TokenIds \ DOMAIN tokens, f \in Families :
        /\ tokens' = [x \in DOMAIN tokens \cup {t} |->
                        IF x = t THEN NewRow(u, f) ELSE tokens[x]]
        /\ UNCHANGED <<now, audit, req>>

\* generateSessionTokens, the last step of the transactions of login,
\* register, registerCustomer and registerTechnician: a token in a new family.
OpenSession(u) ==
    \E t \in TokenIds \ DOMAIN tokens, f \in Families :
        /\ FamilyTokens(f) = {}
        /\ tokens' = [x \in DOMAIN tokens \cup {t} |->
                        IF x = t THEN NewRow(u, f) ELSE tokens[x]]
        /\ UNCHANGED <<now, audit, req>>

\* Mutant of RefreshRead: revocation is looked at before the verifier.
RefreshReadRevokedFirst(r, t, ok) ==
    /\ req[r] = Idle
    /\ t \in DOMAIN tokens
    /\ \/ /\ tokens[t].isRevoked
          /\ req' = [req EXCEPT ![r] = [pc |-> "reuse", token |-> t, verified |-> ok]]
       \/ /\ ~tokens[t].isRevoked /\ ok
          /\ ~(tokens[t].expiresAt < now)
          /\ req' = [req EXCEPT ![r] = [pc |-> "rotate", token |-> t, verified |-> ok]]
    /\ UNCHANGED <<now, tokens, audit>>

\* Mutant of RefreshRead: the expiry is not looked at.
RefreshReadExpired(r, t, ok) ==
    /\ req[r] = Idle
    /\ t \in DOMAIN tokens
    /\ ok
    /\ req' = [req EXCEPT ![r] = [pc |-> IF tokens[t].isRevoked THEN "reuse" ELSE "rotate",
                                  token |-> t, verified |-> ok]]
    /\ UNCHANGED <<now, tokens, audit>>

\* refreshToken: findUnique, outside any transaction, and the checks on the row
\* it returned, in their order: verifier, revocation, expiry.  The three 401
\* answers (no row, wrong verifier, expired) change nothing.  The checks run
\* synchronously after the read; a clock that moves on meanwhile can only turn
\* a rotation into the 401 that RequestFails covers.
RefreshRead(r, t, ok) ==
    /\ req[r] = Idle
    /\ t \in DOMAIN tokens
    /\ ok
    /\ \/ /\ tokens[t].isRevoked
          /\ req' = [req EXCEPT ![r] = [pc |-> "reuse", token |-> t, verified |-> ok]]
       \/ /\ ~tokens[t].isRevoked
          /\ ~(tokens[t].expiresAt < now)
          /\ req' = [req EXCEPT ![r] = [pc |-> "rotate", token |-> t, verified |-> ok]]
    /\ UNCHANGED <<now, tokens, audit>>

\* refreshToken: the transaction of the reuse branch, committed before the
\* 401 is thrown.
RefreshReuse(r) ==
    /\ req[r].pc = "reuse"
    /\ LET f == tokens[req[r].token].familyId IN
         /\ tokens' = Revoke(FamilyTokens(f))
         /\ Log("REFRESH_TOKEN_REUSE_DETECTED", f)
    /\ Respond(r)
    /\ UNCHANGED now

\* Mutant of RefreshRotate: the old row is linked to its successor but not revoked.
RefreshRotateWithoutRevoking(r) ==
    /\ req[r].pc = "rotate"
    /\ \E t \in TokenIds \ DOMAIN tokens :
         LET old == req[r].token IN
         tokens' = [x \in DOMAIN tokens \cup {t} |->
                      IF x = t
                        THEN NewRow(tokens[old].userId, tokens[old].familyId)
                      ELSE IF x = old
                        THEN [tokens[old] EXCEPT !.replacedByTokenId = t]
                      ELSE tokens[x]]
    /\ Respond(r)
    /\ UNCHANGED <<now, audit>>

\* refreshToken: the rotation transaction.  The update of the old row is by
\* primary key alone, whatever has become of the row since it was read.
RefreshRotate(r) ==
    /\ req[r].pc = "rotate"
    /\ \E t \in TokenIds \ DOMAIN tokens :
         LET old == req[r].token IN
         tokens' = [x \in DOMAIN tokens \cup {t} |->
                      IF x = t
                        THEN NewRow(tokens[old].userId, tokens[old].familyId)
                      ELSE IF x = old
                        THEN [tokens[old] EXCEPT !.isRevoked = TRUE,
                                                 !.replacedByTokenId = t]
                      ELSE tokens[x]]
    /\ Respond(r)
    /\ UNCHANGED <<now, audit>>

\* logout by the authenticated user u: findUnique, outside the transaction.
\* An unknown or foreign token, or a wrong verifier, is answered with success
\* at once and changes nothing.
LogoutRead(r, u, t, ok) ==
    /\ req[r] = Idle
    /\ t \in DOMAIN tokens
    /\ tokens[t].userId = u
    /\ ok
    /\ req' = [req EXCEPT ![r] = [pc |-> "logout", token |-> t]]
    /\ UNCHANGED <<now, tokens, audit>>

\* logout: the transaction; the one token presented is revoked.
LogoutCommit(r) ==
    /\ req[r].pc = "logout"
    /\ tokens' = Revoke({req[r].token})
    /\ Log("LOGOUT", req[r].token)
    /\ Respond(r)
    /\ UNCHANGED now

\* revokeAllSessions by the authenticated user u: one transaction.
RevokeAllSessions(u) ==
    /\ tokens' = Revoke({t \in DOMAIN tokens : tokens[t].userId = u})
    /\ Log("REVOKE_ALL_SESSIONS", u)
    /\ UNCHANGED <<now, req>>

\* External: the transaction is rolled back (deadlock, timeout, lost
\* connection) or the process dies between two awaits; the request is gone.
RequestFails(r) ==
    /\ req[r] # Idle
    /\ Respond(r)
    /\ UNCHANGED <<now, tokens, audit>>

\* External: time passes.
Tick ==
    /\ now < MaxTime
    /\ now' = now + 1
    /\ UNCHANGED <<tokens, audit, req>>

RequestStep(r) ==
    \/ \E t \in TokenIds, ok \in BOOLEAN : RefreshRead(r, t, ok)
    \/ RefreshReuse(r)
    \/ RefreshRotate(r)
    \/ \E u \in Users, t \in TokenIds, ok \in BOOLEAN : LogoutRead(r, u, t, ok)
    \/ LogoutCommit(r)
    \/ RequestFails(r)

Next ==
    \/ \E u \in Users : OpenSession(u) \/ RevokeAllSessions(u)
    \/ \E r \in Requests : RequestStep(r)
    \/ Tick

Spec == Init /\ [][Next]_vars

-----------------------------------------------------------------------------
(* Properties *)

Live(t) == ~tokens[t].isRevoked
Usable(t) == Live(t) /\ ~(tokens[t].expiresAt < now)

\* Request r read a token of family f while it was live, with its verifier,
\* and may still rotate it.
MayRotate(r, f) ==
    /\ req[r].pc = "rotate"
    /\ tokens[req[r].token].familyId = f

\* A session that nobody can continue: it has begun, none of its tokens is
\* usable and no request in flight may still rotate one of them.
Closed(f) ==
    /\ FamilyTokens(f) # {}
    /\ \A t \in FamilyTokens(f) : ~Usable(t)
    /\ \A r \in Requests : ~MayRotate(r, f)

\* All tokens of a family belong to one user: reuse detection and rotation,
\* which go by familyId alone, never cross from one user to another.
FamilyHasOneOwner ==
    \A s, t \in DOMAIN tokens :
        tokens[s].familyId = tokens[t].familyId
            => tokens[s].userId = tokens[t].userId

\* replacedByTokenId leads from a revoked token to an issued token of the same
\* session that lives at least as long, and never to the token itself.
ReplacementChain ==
    \A t \in DOMAIN tokens :
        LET s == tokens[t].replacedByTokenId IN
        s # None => /\ s \in DOMAIN tokens \ {t}
                    /\ tokens[t].isRevoked
                    /\ tokens[s].familyId = tokens[t].familyId
                    /\ tokens[s].expiresAt >= tokens[t].expiresAt

\* A family is wiped only on genuine reuse: the request about to wipe it has
\* shown the verifier of a token of that family that is revoked, also now.
ReuseIsGenuine ==
    \A r \in Requests :
        req[r].pc = "reuse" => /\ req[r].verified
                              /\ req[r].token \in DOMAIN tokens
                              /\ tokens[req[r].token].isRevoked

\* A token that was logged out stays logged out, although refresh requests that
\* read it before the logout still write to its row.
LogoutIsFinal ==
    \A e \in audit :
        e.action = "LOGOUT" => /\ e.entityId \in DOMAIN tokens
                              /\ tokens[e.entityId].isRevoked

\* No sequence of refreshes, logouts and expiries brings a closed session back:
\* a token is added to a family only from a token that was usable when read.
ClosedFamilyStaysClosed ==
    [][\A f \in Families : Closed(f) => Closed(f)']_vars

\* No operation deletes a token, gives a revoked one back or moves one to
\* another user, family or expiry.
TokensOnlyRevoked ==
    [][\A t \in DOMAIN tokens :
         /\ t \in DOMAIN tokens'
         /\ tokens[t].isRevoked => tokens'[t].isRevoked
         /\ tokens'[t].userId = tokens[t].userId
         /\ tokens'[t].familyId = tokens[t].familyId
         /\ tokens'[t].expiresAt = tokens[t].expiresAt]_vars

-----------------------------------------------------------------------------
(* A claim of the repository that the code does not keep *)

\* "Verify all tokens in that family are now revoked!", "Revoke all active sessions
\* across all devices": a family swept by reuse detection or by its owner's
\* revokeAllSessions, all of whose tokens are revoked, has no live token again.
SweptFamilyStaysRevoked ==
    [][\A f \in Families :
         /\ FamilyTokens(f) # {}
         /\ \A t \in FamilyTokens(f) :
              /\ ~Live(t)
              /\ \E e \in audit : \/ e.action = "REFRESH_TOKEN_REUSE_DETECTED" /\ e.entityId = f
                                  \/ e.action = "REVOKE_ALL_SESSIONS"
                                       /\ e.entityId = tokens[t].userId
         => \A t \in FamilyTokens(f)' : ~Live(t)']_vars

=============================================================================
