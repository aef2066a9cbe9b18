------------------------------ MODULE Accounts ------------------------------
(***************************************************************************)
(* Accounts: AuthService.registerCustomer, registerTechnician, register    *)
(* and login over the User, TechnicianProfile and OnboardingToken tables.  *)
(*                                                                         *)
(* registerCustomer and registerTechnician are one transaction each, whose *)
(* every error rolls all of it back, the consumption of the onboarding     *)
(* token included.  register and login read the user, await bcrypt and     *)
(* only then open their transaction.  All four end by opening a session    *)
(* (generateSessionTokens, see RefreshTokens), here the counter sessions.  *)
(* A User row is created together with its wallet, which nothing else in   *)
(* the code touches.  No code suspends a user; an administrator does it in *)
(* the database.                                                           *)
(*                                                                         *)
(* Bounds: Jtis, MaxTime, MaxSessions per phone.                           *)
(***************************************************************************)
EXTENDS Integers, FiniteSets

CONSTANTS
    Phones,       \* normalized phone numbers; User.phone is unique
    NationalIds,  \* technicians' national ids, by fingerprint
    Jtis,         \* onboarding tokens crypto.randomUUID() may return
    Requests,     \* slots of concurrently handled register and login requests
    None,         \* SQL NULL
    OtpEnabled,   \* otp.enabled
    TokenLife,    \* 15 minutes, in clock units
    Lag,          \* between a handler's new Date() and its transaction
    MaxTime, MaxSessions

ASSUME AccountsAssumption ==
    /\ {TokenLife, Lag, MaxTime, MaxSessions} \subseteq Nat
    /\ OtpEnabled \in BOOLEAN
    /\ None \notin NationalIds

VARIABLES
    now,        \* the clock
    onboarding, \* OnboardingToken table, by jti
    users,      \* User table, by phone
    profiles,   \* TechnicianProfile table, by the phone of its user
    sessions,   \* sessions opened for each phone
    req         \* register and login requests across their await of bcrypt

vars == <<now, onboarding, users, profiles, sessions, req>>

-----------------------------------------------------------------------------
(* Rows *)

OnboardingRow == [phone : Phones, expiresAt : Nat, consumed : BOOLEAN]

\* password: passwordHash is not NULL.
UserRow == [role : {"CUSTOMER", "TECHNICIAN"}, password : BOOLEAN,
            status : {"ACTIVE", "SUSPENDED"}]

ProfileRow == [nationalId : NationalIds \cup {None},
               kycStatus : {"PENDING_REVIEW", "NOT_SUBMITTED"}]

Idle == [pc |-> "idle"]
RegisterRequest == [pc : {"hashing"}, phone : Phones, role : {"CUSTOMER", "TECHNICIAN"}]
LoginRequest == [pc : {"comparing"}, phone : Phones, seenStatus : {"ACTIVE", "SUSPENDED"}]

TypeOK ==
    /\ now \in Nat
    /\ DOMAIN onboarding \subseteq Jtis
    /\ onboarding \in [DOMAIN onboarding -> OnboardingRow]
    /\ DOMAIN users \subseteq Phones
    /\ users \in [DOMAIN users -> UserRow]
    /\ DOMAIN profiles \subseteq DOMAIN users
    /\ profiles \in [DOMAIN profiles -> ProfileRow]
    /\ sessions \in [Phones -> Nat]
    /\ req \in [Requests -> {Idle} \cup RegisterRequest \cup LoginRequest]

\* The table with a row added, or replaced.
Insert(table, key, row) ==
    [x \in DOMAIN table \cup {key} |-> IF x = key THEN row ELSE table[x]]

Readings == {at \in 0..now : now - at <= Lag}

OpenSession(p) ==
    /\ sessions[p] < MaxSessions
    /\ sessions' = [sessions EXCEPT ![p] = @ + 1]

\* Mutants of CreateUser: no status is set; the role is left at its default.
CreateUserWithoutStatus(p, role, password) ==
    users' = Insert(users, p, [role |-> role, password |-> password, status |-> None])
CreateUserWithoutRole(p, role, password) ==
    users' = Insert(users, p, [role |-> "CUSTOMER", password |-> password, status |-> "ACTIVE"])

CreateUser(p, role, password) ==
    users' = Insert(users, p, [role |-> role, password |-> password, status |-> "ACTIVE"])

-----------------------------------------------------------------------------
(* Operations *)

Init ==
    /\ now = 0
    /\ onboarding = [j \in {} |-> None]
    /\ users = [p \in {} |-> None]
    /\ profiles = [p \in {} |-> None]
    /\ sessions = [p \in Phones |-> 0]
    /\ req = [r \in Requests |-> Idle]

\* verifyRegistrationOtp accepted a code of a phone without account and issued
\* an onboarding token (see OtpLifecycle).
IssueOnboarding(p, at) ==
    /\ OtpEnabled
    /\ p \notin DOMAIN users
    /\ \E j \in Jtis \ DOMAIN onboarding :
         onboarding' = Insert(onboarding, j, [phone |-> p, expiresAt |-> at + TokenLife,
                                              consumed |-> FALSE])
    /\ UNCHANGED <<now, users, profiles, sessions, req>>

\* Mutant of ConsumeOnboarding: the phone is not looked up again.
ConsumeOnboardingBlindly(j, at) ==
    /\ OtpEnabled
    /\ ~onboarding[j].consumed
    /\ onboarding[j].expiresAt > at
    /\ onboarding' = [onboarding EXCEPT ![j].consumed = TRUE]

\* The conditional UPDATE both OTP registrations begin with, and the lookup of
\* the phone: the token is spent in the transaction that creates the account.
ConsumeOnboarding(j, at) ==
    /\ OtpEnabled
    /\ ~onboarding[j].consumed
    /\ onboarding[j].expiresAt > at
    /\ onboarding[j].phone \notin DOMAIN users
    /\ onboarding' = [onboarding EXCEPT ![j].consumed = TRUE]

\* registerCustomer, its transaction when it commits.
RegisterCustomer(j, at) ==
    LET p == onboarding[j].phone IN
    /\ ConsumeOnboarding(j, at)
    /\ CreateUser(p, "CUSTOMER", FALSE)
    /\ OpenSession(p)
    /\ UNCHANGED <<now, profiles, req>>

\* registerTechnician, its transaction when it commits.
RegisterTechnician(j, id, at) ==
    LET p == onboarding[j].phone IN
    /\ ConsumeOnboarding(j, at)
    /\ \A q \in DOMAIN profiles : profiles[q].nationalId # id
    /\ CreateUser(p, "TECHNICIAN", FALSE)
    /\ profiles' = Insert(profiles, p, [nationalId |-> id, kycStatus |-> "PENDING_REVIEW"])
    /\ OpenSession(p)
    /\ UNCHANGED <<now, req>>

\* register with a password: the check outside the transaction, then bcrypt.
RegisterRead(r, p, role) ==
    /\ req[r] = Idle
    /\ p \notin DOMAIN users
    /\ req' = [req EXCEPT ![r] = [pc |-> "hashing", phone |-> p, role |-> role]]
    /\ UNCHANGED <<now, onboarding, users, profiles, sessions>>

\* Mutant of RegisterCommit: the check before bcrypt is trusted (an upsert).
RegisterCommitStale(r) ==
    LET p == req[r].phone IN
    /\ req[r].pc = "hashing"
    /\ CreateUser(p, req[r].role, TRUE)
    /\ profiles' = IF req[r].role = "TECHNICIAN"
                     THEN Insert(profiles, p, [nationalId |-> None, kycStatus |-> "NOT_SUBMITTED"])
                     ELSE profiles
    /\ OpenSession(p)
    /\ req' = [req EXCEPT ![r] = Idle]
    /\ UNCHANGED <<now, onboarding>>

\* register, its transaction when the check inside it passes.
RegisterCommit(r) ==
    LET p == req[r].phone IN
    /\ req[r].pc = "hashing"
    /\ p \notin DOMAIN users
    /\ CreateUser(p, req[r].role, TRUE)
    /\ profiles' = IF req[r].role = "TECHNICIAN"
                     THEN Insert(profiles, p, [nationalId |-> None, kycStatus |-> "NOT_SUBMITTED"])
                     ELSE profiles
    /\ OpenSession(p)
    /\ req' = [req EXCEPT ![r] = Idle]
    /\ UNCHANGED <<now, onboarding>>

\* login with the right password: the user is read, then bcrypt compares.
LoginRead(r, p) ==
    /\ req[r] = Idle
    /\ p \in DOMAIN users
    /\ users[p].password
    /\ req' = [req EXCEPT ![r] = [pc |-> "comparing", phone |-> p,
                                  seenStatus |-> users[p].status]]
    /\ UNCHANGED <<now, onboarding, users, profiles, sessions>>

\* Mutant of LoginCommit: the status is not tested.
LoginCommitUnchecked(r) ==
    /\ req[r].pc = "comparing"
    /\ OpenSession(req[r].phone)
    /\ req' = [req EXCEPT ![r] = Idle]
    /\ UNCHANGED <<now, onboarding, users, profiles>>

\* login, its transaction; the status tested is the one read before bcrypt.
LoginCommit(r) ==
    /\ req[r].pc = "comparing"
    /\ req[r].seenStatus # "SUSPENDED"
    /\ OpenSession(req[r].phone)
    /\ req' = [req EXCEPT ![r] = Idle]
    /\ UNCHANGED <<now, onboarding, users, profiles>>

\* A request ends without effect: wrong password, suspended account, duplicate
\* phone found by the transaction, rollback or crash.
RequestFails(r) ==
    /\ req[r] # Idle
    /\ req' = [req EXCEPT ![r] = Idle]
    /\ UNCHANGED <<now, onboarding, users, profiles, sessions>>

\* External: an administrator suspends a user or lifts the suspension.
SetStatus(p, status) ==
    /\ p \in DOMAIN users
    /\ users[p].status # status
    /\ users' = [users EXCEPT ![p].status = status]
    /\ UNCHANGED <<now, onboarding, profiles, sessions, req>>

\* External: time passes.
Tick ==
    /\ now < MaxTime
    /\ now' = now + 1
    /\ UNCHANGED <<onboarding, users, profiles, sessions, req>>

Next ==
    \/ \E p \in Phones, at \in Readings : IssueOnboarding(p, at)
    \/ \E j \in DOMAIN onboarding, at \in Readings : RegisterCustomer(j, at)
    \/ \E j \in DOMAIN onboarding, id \in NationalIds, at \in Readings :
         RegisterTechnician(j, id, at)
    \/ \E r \in Requests, p \in Phones, role \in {"CUSTOMER", "TECHNICIAN"} :
         RegisterRead(r, p, role)
    \/ \E r \in Requests : RegisterCommit(r)
    \/ \E r \in Requests, p \in Phones : LoginRead(r, p)
    \/ \E r \in Requests : LoginCommit(r)
    \/ \E r \in Requests : RequestFails(r)
    \/ \E p \in Phones, status \in {"ACTIVE", "SUSPENDED"} : SetStatus(p, status)
    \/ Tick

Spec == Init /\ [][Next]_vars

-----------------------------------------------------------------------------
(* Properties *)

\* An onboarding token is spent exactly when it created the account of its
\* phone: one spent token per account made by OTP, none for an account made
\* with a password, whatever requests raced for the phone.
SpentTokenMadeAccount ==
    \A p \in Phones :
        LET spent == {j \in DOMAIN onboarding : onboarding[j].phone = p /\ onboarding[j].consumed}
        IN  IF p \in DOMAIN users /\ ~users[p].password
              THEN Cardinality(spent) = 1
              ELSE spent = {}

\* Technicians, and only they, have a profile, and no two share a national id.
TechniciansHaveProfiles ==
    /\ DOMAIN profiles = {p \in DOMAIN users : users[p].role = "TECHNICIAN"}
    /\ \A p, q \in DOMAIN profiles :
         profiles[p].nationalId = profiles[q].nationalId /\ p # q
           => profiles[p].nationalId = None

\* A second registration never takes over an account: role, kind of credential
\* and national id stay as the first registration set them.
NoTakeover ==
    [][\A p \in DOMAIN users :
         /\ p \in DOMAIN users'
         /\ users'[p].role = users[p].role
         /\ users'[p].password = users[p].password
         /\ p \in DOMAIN profiles => p \in DOMAIN profiles' /\ profiles'[p] = profiles[p]]_vars

\* A login in flight that read p as active.
ActiveLogin(p) == \E r \in Requests : /\ req[r].pc = "comparing"
                                      /\ req[r].phone = p
                                      /\ req[r].seenStatus = "ACTIVE"

\* Once the logins that read the user before the suspension are answered, a
\* suspended user gets no session by any way of signing in.
SuspendedGetsNoSession ==
    [][\A p \in DOMAIN users :
         users[p].status = "SUSPENDED" /\ ~ActiveLogin(p)
           => /\ sessions'[p] = sessions[p]
              /\ ActiveLogin(p)' => users'[p].status = "ACTIVE"]_vars

=============================================================================
