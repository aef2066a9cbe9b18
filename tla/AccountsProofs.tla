--------------------------- MODULE AccountsProofs ---------------------------
(* Theorems about Accounts, for any phones, ids, request slots and bounds. *)
EXTENDS Accounts, FiniteSetTheorems, TLAPS

-----------------------------------------------------------------------------
(* The inductive invariant *)

Spent(p) == {j \in DOMAIN onboarding : onboarding[j].phone = p /\ onboarding[j].consumed}

MadeByOtp(p) == p \in DOMAIN users /\ ~users[p].password

\* SpentTokenMadeAccount with the spent token named instead of counted.
OneTokenSpent ==
    \A p \in Phones : /\ MadeByOtp(p) => \E j \in DOMAIN onboarding : Spent(p) = {j}
                      /\ ~MadeByOtp(p) => Spent(p) = {}

IInv == TypeOK /\ TechniciansHaveProfiles /\ OneTokenSpent

-----------------------------------------------------------------------------
(* Rows and requests *)

Request == {Idle} \cup RegisterRequest \cup LoginRequest

LEMMA RequestKinds ==
    ASSUME TypeOK, NEW r \in Requests
    PROVE  /\ req[r].pc = "hashing" => req[r] \in RegisterRequest
           /\ req[r].pc = "comparing" => req[r] \in LoginRequest
BY DEF TypeOK, Idle, RegisterRequest, LoginRequest

\* The row of a new account has the role, credential and status it is made with.
LEMMA NewUser ==
    ASSUME TypeOK, NEW p \in Phones, NEW role \in {"CUSTOMER", "TECHNICIAN"},
           NEW password \in BOOLEAN, p \notin DOMAIN users, CreateUser(p, role, password)
    PROVE  /\ DOMAIN users' = DOMAIN users \cup {p}
           /\ users' \in [DOMAIN users' -> UserRow]
           /\ DOMAIN users' \subseteq Phones
           /\ \A q \in DOMAIN users : users'[q] = users[q]
           /\ users'[p].role = role /\ users'[p].password = password
BY DEF TypeOK, CreateUser, Insert, UserRow

LEMMA SessionsTyped ==
    ASSUME TypeOK, NEW p \in Phones, OpenSession(p)
    PROVE  /\ sessions' \in [Phones -> Nat]
           /\ \A q \in Phones : q # p => sessions'[q] = sessions[q]
BY DEF TypeOK, OpenSession

\* ConsumeOnboarding spends one token, of a phone that has no account.
LEMMA ConsumeSpends ==
    ASSUME IInv, NEW j \in DOMAIN onboarding, NEW at, NEW p \in Phones,
           p = onboarding[j].phone, ConsumeOnboarding(j, at)
    PROVE  /\ DOMAIN onboarding' = DOMAIN onboarding
           /\ onboarding' \in [DOMAIN onboarding' -> OnboardingRow]
           /\ p \notin DOMAIN users
           /\ Spent(p)' = {j}
           /\ \A q \in Phones : q # p => Spent(q)' = Spent(q)
<1>0. onboarding \in [DOMAIN onboarding -> OnboardingRow] /\ onboarding[j] \in OnboardingRow
  BY DEF IInv, TypeOK
<1> DEFINE row == [onboarding[j] EXCEPT !.consumed = TRUE]
<1>1. row \in OnboardingRow /\ row.phone = p /\ row.consumed
  BY <1>0 DEF OnboardingRow
<1>2. onboarding' = [onboarding EXCEPT ![j] = row] /\ p \notin DOMAIN users
  BY DEF ConsumeOnboarding
<1> HIDE DEF row
<1>3. /\ DOMAIN onboarding' = DOMAIN onboarding
      /\ onboarding' \in [DOMAIN onboarding' -> OnboardingRow]
      /\ \A x \in DOMAIN onboarding : onboarding'[x] = IF x = j THEN row ELSE onboarding[x]
  BY <1>0, <1>1, <1>2
<1>4. Spent(p) = {}
  BY <1>2 DEF IInv, OneTokenSpent, MadeByOtp
<1>5. Spent(p)' = {j}
  BY <1>1, <1>3, <1>4 DEF Spent
<1>6. \A q \in Phones : q # p => Spent(q)' = Spent(q)
  BY <1>1, <1>3 DEF Spent
<1> QED BY <1>2, <1>3, <1>5, <1>6

-----------------------------------------------------------------------------
(* The invariant is inductive *)

LEMMA InitInv == Init => IInv
<1> SUFFICES ASSUME Init PROVE IInv
    OBVIOUS
<1>1. DOMAIN onboarding = {} /\ DOMAIN users = {} /\ DOMAIN profiles = {}
  BY DEF Init
<1>2. TypeOK
  BY <1>1 DEF Init, TypeOK
<1>3. TechniciansHaveProfiles /\ OneTokenSpent
  BY <1>1 DEF TechniciansHaveProfiles, OneTokenSpent, MadeByOtp, Spent
<1> QED BY <1>2, <1>3 DEF IInv

\* A new onboarding token is not spent.
LEMMA IssueOnboardingInv ==
    ASSUME IInv, NEW p \in Phones, NEW at \in Readings, IssueOnboarding(p, at)
    PROVE  IInv'
<1>1. PICK j \in Jtis \ DOMAIN onboarding :
        onboarding' = Insert(onboarding, j, [phone |-> p, expiresAt |-> at + TokenLife,
                                             consumed |-> FALSE])
  BY DEF IssueOnboarding
<1> DEFINE row == [phone |-> p, expiresAt |-> at + TokenLife, consumed |-> FALSE]
<1>2. row \in OnboardingRow /\ ~row.consumed
  BY AccountsAssumption DEF OnboardingRow, Readings, IInv, TypeOK
<1> HIDE DEF row
<1>3. /\ DOMAIN onboarding' = DOMAIN onboarding \cup {j}
      /\ onboarding'[j] = row /\ \A x \in DOMAIN onboarding : onboarding'[x] = onboarding[x]
  BY <1>1 DEF Insert, row
<1>4. /\ DOMAIN onboarding' \subseteq Jtis
      /\ onboarding' \in [DOMAIN onboarding' -> OnboardingRow]
  <2>1. onboarding' = [x \in DOMAIN onboarding' |-> onboarding'[x]]
    BY <1>1 DEF Insert
  <2> QED BY <1>2, <1>3, <2>1 DEF IInv, TypeOK
<1>5. \A q \in Phones : Spent(q)' = Spent(q)
  BY <1>2, <1>3 DEF Spent
<1>6. UNCHANGED <<now, users, profiles, sessions, req>>
  BY DEF IssueOnboarding
<1>7. OneTokenSpent'
  BY <1>3, <1>5, <1>6 DEF IInv, OneTokenSpent, MadeByOtp
<1> QED BY <1>4, <1>6, <1>7 DEF IInv, TypeOK, TechniciansHaveProfiles

LEMMA RegisterCustomerInv ==
    ASSUME IInv, NEW j \in DOMAIN onboarding, NEW at, RegisterCustomer(j, at)
    PROVE  IInv'
<1>0. TypeOK /\ now' = now /\ profiles' = profiles /\ req' = req
  BY DEF IInv, RegisterCustomer
<1>1. PICK p \in Phones : p = onboarding[j].phone
  BY <1>0 DEF TypeOK, OnboardingRow
<1>2. /\ DOMAIN onboarding' = DOMAIN onboarding
      /\ onboarding' \in [DOMAIN onboarding' -> OnboardingRow]
      /\ p \notin DOMAIN users
      /\ Spent(p)' = {j}
      /\ \A q \in Phones : q # p => Spent(q)' = Spent(q)
  BY <1>1, ConsumeSpends DEF RegisterCustomer
<1>3. /\ DOMAIN users' = DOMAIN users \cup {p}
      /\ users' \in [DOMAIN users' -> UserRow] /\ DOMAIN users' \subseteq Phones
      /\ \A q \in DOMAIN users : users'[q] = users[q]
      /\ users'[p].role = "CUSTOMER" /\ users'[p].password = FALSE
  BY <1>0, <1>1, <1>2, NewUser DEF RegisterCustomer
<1>4. sessions' \in [Phones -> Nat]
  BY <1>0, <1>1, SessionsTyped DEF RegisterCustomer
<1>5. TypeOK'
  BY <1>0, <1>2, <1>3, <1>4 DEF TypeOK
<1>6. TechniciansHaveProfiles'
  BY <1>0, <1>2, <1>3 DEF IInv, TechniciansHaveProfiles
<1>7. OneTokenSpent'
  BY <1>2, <1>3 DEF IInv, OneTokenSpent, MadeByOtp
<1> QED BY <1>5, <1>6, <1>7 DEF IInv

LEMMA RegisterTechnicianInv ==
    ASSUME IInv, NEW j \in DOMAIN onboarding, NEW id \in NationalIds, NEW at,
           RegisterTechnician(j, id, at)
    PROVE  IInv'
<1>0. TypeOK /\ now' = now /\ req' = req
  BY DEF IInv, RegisterTechnician
<1>1. PICK p \in Phones : p = onboarding[j].phone
  BY <1>0 DEF TypeOK, OnboardingRow
<1>2. /\ DOMAIN onboarding' = DOMAIN onboarding
      /\ onboarding' \in [DOMAIN onboarding' -> OnboardingRow]
      /\ p \notin DOMAIN users
      /\ Spent(p)' = {j}
      /\ \A q \in Phones : q # p => Spent(q)' = Spent(q)
  BY <1>1, ConsumeSpends DEF RegisterTechnician
<1>3. /\ DOMAIN users' = DOMAIN users \cup {p}
      /\ users' \in [DOMAIN users' -> UserRow] /\ DOMAIN users' \subseteq Phones
      /\ \A q \in DOMAIN users : users'[q] = users[q]
      /\ users'[p].role = "TECHNICIAN" /\ users'[p].password = FALSE
  BY <1>0, <1>1, <1>2, NewUser DEF RegisterTechnician
<1>4. sessions' \in [Phones -> Nat]
  BY <1>0, <1>1, SessionsTyped DEF RegisterTechnician
<1>5. /\ DOMAIN profiles' = DOMAIN profiles \cup {p}
      /\ profiles' \in [DOMAIN profiles' -> ProfileRow]
      /\ profiles'[p].nationalId = id
      /\ \A q \in DOMAIN profiles : profiles'[q] = profiles[q] /\ q # p
                                      /\ profiles[q].nationalId # id
  BY <1>0, <1>1, <1>2 DEF RegisterTechnician, Insert, TypeOK, ProfileRow
<1>6. TypeOK'
  BY <1>0, <1>2, <1>3, <1>4, <1>5 DEF TypeOK
<1>7. TechniciansHaveProfiles'
  BY <1>2, <1>3, <1>5 DEF IInv, TechniciansHaveProfiles
<1>8. OneTokenSpent'
  BY <1>2, <1>3 DEF IInv, OneTokenSpent, MadeByOtp
<1> QED BY <1>6, <1>7, <1>8 DEF IInv

\* An account made with a password spends no token.
LEMMA RegisterCommitInv ==
    ASSUME IInv, NEW r \in Requests, RegisterCommit(r)
    PROVE  IInv'
<1>0. TypeOK /\ req[r] \in RegisterRequest
  BY RequestKinds DEF IInv, RegisterCommit
<1>1. PICK p \in Phones, role \in {"CUSTOMER", "TECHNICIAN"} :
        p = req[r].phone /\ role = req[r].role
  BY <1>0 DEF RegisterRequest
<1>2. p \notin DOMAIN users /\ CreateUser(p, role, TRUE)
  BY <1>1 DEF RegisterCommit
<1>3. /\ DOMAIN users' = DOMAIN users \cup {p}
      /\ users' \in [DOMAIN users' -> UserRow] /\ DOMAIN users' \subseteq Phones
      /\ \A q \in DOMAIN users : users'[q] = users[q]
      /\ users'[p].role = role /\ users'[p].password
  BY <1>0, <1>1, <1>2, NewUser
<1>4. sessions' \in [Phones -> Nat]
  BY <1>0, <1>1, SessionsTyped DEF RegisterCommit
<1>5. now' = now /\ onboarding' = onboarding /\ req' = [req EXCEPT ![r] = Idle]
  BY DEF RegisterCommit
<1>6. /\ DOMAIN profiles' = DOMAIN profiles \cup {x \in {p} : role = "TECHNICIAN"}
      /\ profiles' \in [DOMAIN profiles' -> ProfileRow]
      /\ p \in DOMAIN profiles' => profiles'[p].nationalId = None
      /\ \A q \in DOMAIN profiles : profiles'[q] = profiles[q] /\ q # p
  <2>1. CASE role = "TECHNICIAN"
    <3>1. profiles' = Insert(profiles, p, [nationalId |-> None, kycStatus |-> "NOT_SUBMITTED"])
      BY <1>1, <2>1 DEF RegisterCommit
    <3> QED BY <1>0, <1>2, <2>1, <3>1 DEF Insert, TypeOK, ProfileRow
  <2>2. CASE role # "TECHNICIAN"
    <3>1. profiles' = profiles
      BY <1>1, <2>2 DEF RegisterCommit
    <3> QED BY <1>0, <1>2, <2>2, <3>1 DEF TypeOK
  <2> QED BY <2>1, <2>2
<1>7. TypeOK'
  BY <1>0, <1>3, <1>4, <1>5, <1>6 DEF TypeOK
<1>8. TechniciansHaveProfiles'
  BY <1>2, <1>3, <1>6 DEF IInv, TechniciansHaveProfiles
<1>9. OneTokenSpent'
  <2>1. \A q \in Phones : Spent(q)' = Spent(q) /\ (MadeByOtp(q)' <=> MadeByOtp(q))
    BY <1>2, <1>3, <1>5 DEF Spent, MadeByOtp
  <2> QED BY <1>5, <2>1 DEF IInv, OneTokenSpent
<1> QED BY <1>7, <1>8, <1>9 DEF IInv

\* A step that leaves tokens, users and profiles alone.
LEMMA QuietStep ==
    ASSUME IInv, UNCHANGED <<onboarding, users, profiles>>,
           now' \in Nat, sessions' \in [Phones -> Nat], req' \in [Requests -> Request]
    PROVE  IInv'
<1>1. TypeOK'
  BY DEF IInv, TypeOK, Request
<1>2. TechniciansHaveProfiles' /\ OneTokenSpent'
  BY DEF IInv, TechniciansHaveProfiles, OneTokenSpent, MadeByOtp, Spent
<1> QED BY <1>1, <1>2 DEF IInv

LEMMA QuietSteps ==
    ASSUME IInv,
           \/ \E r \in Requests, p \in Phones, role \in {"CUSTOMER", "TECHNICIAN"} :
                RegisterRead(r, p, role)
           \/ \E r \in Requests, p \in Phones : LoginRead(r, p)
           \/ \E r \in Requests : LoginCommit(r)
           \/ \E r \in Requests : RequestFails(r)
           \/ Tick
           \/ UNCHANGED vars
    PROVE  IInv'
<1>0. /\ TypeOK /\ now \in Nat /\ sessions \in [Phones -> Nat]
      /\ req \in [Requests -> Request]
  BY DEF IInv, TypeOK, Request
<1>1. ASSUME NEW r \in Requests, NEW p \in Phones, NEW role \in {"CUSTOMER", "TECHNICIAN"},
             RegisterRead(r, p, role)
      PROVE  IInv'
  <2>1. [pc |-> "hashing", phone |-> p, role |-> role] \in Request
    BY DEF Request, RegisterRequest
  <2>2. req' \in [Requests -> Request]
    BY <1>0, <1>1, <2>1 DEF RegisterRead
  <2> QED BY <1>0, <1>1, <2>2, QuietStep DEF RegisterRead
<1>2. ASSUME NEW r \in Requests, NEW p \in Phones, LoginRead(r, p)
      PROVE  IInv'
  <2>1. [pc |-> "comparing", phone |-> p, seenStatus |-> users[p].status] \in Request
    BY <1>0, <1>2 DEF Request, LoginRequest, LoginRead, TypeOK, UserRow
  <2>2. req' \in [Requests -> Request]
    BY <1>0, <1>2, <2>1 DEF LoginRead
  <2> QED BY <1>0, <1>2, <2>2, QuietStep DEF LoginRead
<1>3. ASSUME NEW r \in Requests, LoginCommit(r)
      PROVE  IInv'
  <2>1. req[r].phone \in Phones
    BY <1>0, <1>3, RequestKinds DEF LoginCommit, LoginRequest
  <2>2. sessions' \in [Phones -> Nat]
    BY <1>0, <1>3, <2>1, SessionsTyped DEF LoginCommit
  <2>3. req' \in [Requests -> Request]
    BY <1>0, <1>3 DEF LoginCommit, Request
  <2> QED BY <1>0, <1>3, <2>2, <2>3, QuietStep DEF LoginCommit
<1>4. ASSUME NEW r \in Requests, RequestFails(r)
      PROVE  IInv'
  <2>1. req' \in [Requests -> Request]
    BY <1>0, <1>4 DEF RequestFails, Request
  <2> QED BY <1>0, <1>4, <2>1, QuietStep DEF RequestFails
<1>5. CASE Tick
  BY <1>0, <1>5, QuietStep DEF Tick
<1>6. CASE UNCHANGED vars
  BY <1>0, <1>6, QuietStep DEF vars
<1> QED BY <1>1, <1>2, <1>3, <1>4, <1>5, <1>6

\* An administrator changes the status of an account, nothing else.
LEMMA SetStatusInv ==
    ASSUME IInv, NEW p \in Phones, NEW status \in {"ACTIVE", "SUSPENDED"}, SetStatus(p, status)
    PROVE  IInv'
<1>0. TypeOK /\ users[p] \in UserRow /\ p \in DOMAIN users
  BY DEF IInv, TypeOK, SetStatus
<1> DEFINE row == [users[p] EXCEPT !.status = status]
<1>1. row \in UserRow /\ row.role = users[p].role /\ row.password = users[p].password
  BY <1>0 DEF UserRow
<1>2. users' = [users EXCEPT ![p] = row] /\ UNCHANGED <<now, onboarding, profiles, sessions, req>>
  BY DEF SetStatus
<1> HIDE DEF row
<1>3. /\ DOMAIN users' = DOMAIN users /\ users' \in [DOMAIN users' -> UserRow]
      /\ \A q \in DOMAIN users : /\ users'[q].role = users[q].role
                                 /\ users'[q].password = users[q].password
  BY <1>0, <1>1, <1>2 DEF TypeOK
<1>4. TypeOK'
  BY <1>0, <1>2, <1>3 DEF TypeOK
<1>5. TechniciansHaveProfiles'
  BY <1>2, <1>3 DEF IInv, TechniciansHaveProfiles
<1>6. OneTokenSpent'
  <2>1. \A q \in Phones : Spent(q)' = Spent(q) /\ (MadeByOtp(q)' <=> MadeByOtp(q))
    BY <1>2, <1>3 DEF Spent, MadeByOtp
  <2> QED BY <1>2, <2>1 DEF IInv, OneTokenSpent
<1> QED BY <1>4, <1>5, <1>6 DEF IInv

LEMMA NextInv == IInv /\ [Next]_vars => IInv'
<1> SUFFICES ASSUME IInv, [Next]_vars PROVE IInv'
    OBVIOUS
<1>1. ASSUME NEW p \in Phones, NEW at \in Readings, IssueOnboarding(p, at) PROVE IInv'
  BY <1>1, IssueOnboardingInv
<1>2. ASSUME NEW j \in DOMAIN onboarding, NEW at \in Readings, RegisterCustomer(j, at) PROVE IInv'
  BY <1>2, RegisterCustomerInv
<1>3. ASSUME NEW j \in DOMAIN onboarding, NEW id \in NationalIds, NEW at \in Readings,
             RegisterTechnician(j, id, at)
      PROVE  IInv'
  BY <1>3, RegisterTechnicianInv
<1>4. ASSUME NEW r \in Requests, RegisterCommit(r) PROVE IInv'
  BY <1>4, RegisterCommitInv
<1>5. ASSUME NEW p \in Phones, NEW status \in {"ACTIVE", "SUSPENDED"}, SetStatus(p, status)
      PROVE  IInv'
  BY <1>5, SetStatusInv
<1> QED BY <1>1, <1>2, <1>3, <1>4, <1>5, QuietSteps DEF Next

-----------------------------------------------------------------------------
(* The theorems *)

LEMMA Invariance == Spec => []IInv
BY InitInv, NextInv, PTL DEF Spec

\* The tables and the requests in flight are of their types; every profile has a user.
THEOREM TypeCorrectness == Spec => []TypeOK
<1>1. IInv => TypeOK
  BY DEF IInv
<1> QED BY Invariance, <1>1, PTL

\* However registrations race for a phone, its account spent exactly one onboarding
\* token if it was made by OTP, and none if it was made with a password.
THEOREM SpentTokensMadeAccounts == Spec => []SpentTokenMadeAccount
<1>1. IInv => SpentTokenMadeAccount
  <2> SUFFICES ASSUME IInv, NEW p \in Phones
               PROVE  IF p \in DOMAIN users /\ ~users[p].password
                        THEN Cardinality(Spent(p)) = 1
                        ELSE Spent(p) = {}
    BY DEF SpentTokenMadeAccount, Spent
  <2>1. CASE MadeByOtp(p)
    <3>1. PICK j : Spent(p) = {j}
      BY <2>1 DEF IInv, OneTokenSpent
    <3>2. Cardinality(Spent(p)) = 1
      BY <3>1, FS_Singleton
    <3> QED BY <2>1, <3>2 DEF MadeByOtp
  <2>2. CASE ~MadeByOtp(p)
    BY <2>2 DEF IInv, OneTokenSpent, MadeByOtp
  <2> QED BY <2>1, <2>2
<1> QED BY Invariance, <1>1, PTL

\* Technicians, and only they, have a profile, and national ids are not shared.
THEOREM TechniciansAreProfiled == Spec => []TechniciansHaveProfiles
<1>1. IInv => TechniciansHaveProfiles
  BY DEF IInv
<1> QED BY Invariance, <1>1, PTL

\* What no step changes of the account of p.
KeepsAccount(p) ==
    /\ p \in DOMAIN users'
    /\ users'[p].role = users[p].role
    /\ users'[p].password = users[p].password
    /\ p \in DOMAIN profiles => p \in DOMAIN profiles' /\ profiles'[p] = profiles[p]

\* No registration, raced or late, changes role, credential or profile of an account.
THEOREM AccountsAreKept == Spec => NoTakeover
<1>1. IInv /\ [Next]_vars => [\A p \in DOMAIN users : KeepsAccount(p)]_vars
  <2> SUFFICES ASSUME IInv, Next, NEW p \in DOMAIN users PROVE KeepsAccount(p)
    OBVIOUS
  <2>0. TypeOK /\ users[p] \in UserRow /\ DOMAIN profiles \subseteq DOMAIN users
    BY DEF IInv, TypeOK
  <2>1. CASE UNCHANGED <<users, profiles>>
    BY <2>1 DEF KeepsAccount
  <2>2. ASSUME NEW j \in DOMAIN onboarding, NEW at, RegisterCustomer(j, at)
        PROVE  KeepsAccount(p)
    BY <2>2 DEF RegisterCustomer, ConsumeOnboarding, CreateUser, Insert, KeepsAccount
  <2>3. ASSUME NEW j \in DOMAIN onboarding, NEW id, NEW at, RegisterTechnician(j, id, at)
        PROVE  KeepsAccount(p)
    BY <2>0, <2>3 DEF RegisterTechnician, ConsumeOnboarding, CreateUser, Insert, KeepsAccount
  <2>4. ASSUME NEW r \in Requests, RegisterCommit(r)
        PROVE  KeepsAccount(p)
    BY <2>0, <2>4 DEF RegisterCommit, CreateUser, Insert, KeepsAccount
  <2>5. ASSUME NEW q \in Phones, NEW status, SetStatus(q, status)
        PROVE  KeepsAccount(p)
    <3>1. users'[p] = users[p] \/ users'[p] = [users[p] EXCEPT !.status = status]
      BY <2>5 DEF SetStatus
    <3>2. p \in DOMAIN users' /\ profiles' = profiles
      BY <2>5 DEF SetStatus
    <3> QED BY <2>0, <3>1, <3>2 DEF KeepsAccount, UserRow
  <2> QED BY <2>1, <2>2, <2>3, <2>4, <2>5 DEF Next, IssueOnboarding, RegisterRead, LoginRead,
             LoginCommit, RequestFails, Tick
<1>2. NoTakeover <=> [][\A p \in DOMAIN users : KeepsAccount(p)]_vars
  BY DEF NoTakeover, KeepsAccount
<1> QED BY Invariance, <1>1, <1>2, PTL DEF Spec

\* A step gives p no session, and no login that could still give it one.
KeptOut(p) ==
    /\ sessions'[p] = sessions[p]
    /\ ActiveLogin(p)' => users'[p].status = "ACTIVE"

\* Once the logins that read it as active are answered, no way of signing in gives a
\* suspended account a session.
THEOREM SuspendedKeptOut == Spec => SuspendedGetsNoSession
<1>1. IInv /\ [Next]_vars =>
        [\A p \in DOMAIN users : users[p].status = "SUSPENDED" /\ ~ActiveLogin(p) => KeptOut(p)]_vars
  <2> SUFFICES ASSUME IInv, Next, NEW p \in DOMAIN users,
                      users[p].status = "SUSPENDED", ~ActiveLogin(p)
               PROVE  KeptOut(p)
    OBVIOUS
  <2>0. TypeOK /\ p \in Phones
    BY DEF IInv, TypeOK
  <2>1. CASE UNCHANGED <<sessions, req>>
    BY <2>1 DEF KeptOut, ActiveLogin
  <2>2. ASSUME NEW q \in Phones, q \notin DOMAIN users, OpenSession(q)
        PROVE  sessions'[p] = sessions[p]
    BY <2>0, <2>2, SessionsTyped
  <2>3. ASSUME NEW r \in Requests, req' = [req EXCEPT ![r] = Idle]
        PROVE  ~ActiveLogin(p)'
    BY <2>0, <2>3 DEF ActiveLogin, Idle, TypeOK
  <2>4. ASSUME NEW j \in DOMAIN onboarding, NEW at, OpenSession(onboarding[j].phone),
               ConsumeOnboarding(j, at), UNCHANGED req
        PROVE  KeptOut(p)
    <3>1. onboarding[j].phone \in Phones /\ onboarding[j].phone \notin DOMAIN users
      BY <2>0, <2>4 DEF TypeOK, OnboardingRow, ConsumeOnboarding
    <3> QED BY <2>2, <2>4, <3>1 DEF KeptOut, ActiveLogin
  <2>5. ASSUME NEW r \in Requests, RegisterCommit(r)
        PROVE  KeptOut(p)
    <3>1. req[r].phone \in Phones
      BY <2>0, <2>5, RequestKinds DEF RegisterCommit, RegisterRequest
    <3>2. sessions'[p] = sessions[p]
      BY <2>2, <2>5, <3>1 DEF RegisterCommit
    <3> QED BY <2>3, <2>5, <3>2 DEF RegisterCommit, KeptOut
  <2>6. ASSUME NEW r \in Requests, LoginCommit(r)
        PROVE  KeptOut(p)
    <3>1. req[r] \in LoginRequest
      BY <2>0, <2>6, RequestKinds DEF LoginCommit
    <3>2. req[r].phone \in Phones /\ req[r].phone # p
      BY <2>6, <3>1 DEF LoginCommit, LoginRequest, ActiveLogin
    <3>3. sessions'[p] = sessions[p]
      BY <2>0, <2>6, <3>2, SessionsTyped DEF LoginCommit
    <3> QED BY <2>3, <2>6, <3>3 DEF LoginCommit, KeptOut
  <2>7. ASSUME NEW r \in Requests, NEW q \in Phones, NEW role, RegisterRead(r, q, role)
        PROVE  KeptOut(p)
    BY <2>0, <2>7 DEF RegisterRead, KeptOut, ActiveLogin, TypeOK
  <2>8. ASSUME NEW r \in Requests, NEW q \in Phones, LoginRead(r, q)
        PROVE  KeptOut(p)
    BY <2>0, <2>8 DEF LoginRead, KeptOut, ActiveLogin, TypeOK
  <2>9. ASSUME NEW r \in Requests, RequestFails(r)
        PROVE  KeptOut(p)
    BY <2>3, <2>9 DEF RequestFails, KeptOut
  <2> QED BY <2>1, <2>4, <2>5, <2>6, <2>7, <2>8, <2>9 DEF Next, IssueOnboarding, RegisterCustomer,
             RegisterTechnician, SetStatus, Tick
<1>2. SuspendedGetsNoSession <=>
        [][\A p \in DOMAIN users : users[p].status = "SUSPENDED" /\ ~ActiveLogin(p) => KeptOut(p)]_vars
  BY DEF SuspendedGetsNoSession, KeptOut
<1> QED BY Invariance, <1>1, <1>2, PTL DEF Spec

=============================================================================
