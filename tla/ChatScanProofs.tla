--------------------------- MODULE ChatScanProofs ---------------------------
(* Theorems about ChatScan, for any clients, conversations and texts. *)
EXTENDS ChatScan, BoundedSets, TLAPS

\* What the global patterns remember: one of them skips something only after a
\* message in which a phone pattern matched.
MemoryIsOfAMatch ==
    (\E p \in Patterns : lastIndex[p] # 0) => lastReason = "PHONE_NUMBER_DETECTED"

\* The calls of handleSendMessage, and of what each client has received.
HandlersOK ==
    /\ sent \in Seq(Message)
    /\ received \in [Clients -> Seq(DOMAIN sent)]
    /\ \A m \in DOMAIN sent : sent[m].pc = "logged" => m \in log
    /\ \A m \in DOMAIN sent : sent[m].reason = Undefined => sent[m].pc = "done"

IInv == MemoryIsOfAMatch /\ HandlersOK /\ NoticeIsLogged /\ OnlyNoticesAreLate

\* A pattern that skips nothing matches a text that has its part.
LEMMA FreshPatternMatches ==
    ASSUME NEW p \in Patterns, NEW text \in Seq(Parts), lastIndex[p] = 0, HasPart(text, p)
    PROVE  Matches(p, text) # {}
BY DEF HasPart, Matches

\* The scan of a text: its reason is one of those that a message may have.
LEMMA ReasonIsTyped ==
    ASSUME NEW text
    PROVE  DetectedReason(text) \in Reasons \cup {Undefined}
BY DEF DetectedReason, Reasons

\* A phone pattern skips something of the next text only if one has matched in this.
LEMMA ScanRemembersMatch ==
    ASSUME NEW text, Test(text), MemoryIsOfAMatch,
           \E p \in Patterns : lastIndex'[p] # 0
    PROVE  DetectedReason(text) = "PHONE_NUMBER_DETECTED"
<1>1. CASE Matches("phone", text) # {}
  BY <1>1 DEF DetectedReason, Patterns
<1>2. CASE Matches("phone", text) = {}
  <2>1. lastIndex'["phone"] = 0 /\ lastIndex'["spelled"] = IndexAfter("spelled", text)
    BY <1>2 DEF Test, IndexAfter
  <2>2. Matches("spelled", text) # {}
    BY <2>1 DEF Patterns, IndexAfter
  <2> QED BY <2>2 DEF DetectedReason, Patterns
<1> QED BY <1>1, <1>2

\* A text with a contact gets through only when a pattern skipped something.
LEMMA MissNeedsMemory ==
    ASSUME NEW text \in Seq(Parts), MemoryIsOfAMatch,
           HasContact(text), DetectedReason(text) = Undefined
    PROVE  lastReason = "PHONE_NUMBER_DETECTED"
<1>1. /\ \A p \in Patterns : Matches(p, text) = {}
      /\ ~HasPart(text, "keyword")
  BY DEF DetectedReason, Undefined
<1>2. PICK p \in Patterns : HasPart(text, p)
  BY <1>1 DEF HasContact, Parts
<1>3. lastIndex[p] # 0
  BY <1>1, <1>2, FreshPatternMatches
<1> QED BY <1>3 DEF MemoryIsOfAMatch

-----------------------------------------------------------------------------
(* The invariant is inductive *)

LEMMA InitInv == Init => IInv
<1> SUFFICES ASSUME Init PROVE IInv
    OBVIOUS
<1>1. MemoryIsOfAMatch
  BY DEF Init, Start, MemoryIsOfAMatch
<1>2. HandlersOK
  BY DEF Init, HandlersOK
<1>3. NoticeIsLogged
  BY DEF Init, NoticeIsLogged
<1>4. OnlyNoticesAreLate
  BY DEF Init, OnlyNoticesAreLate
<1> QED BY <1>1, <1>2, <1>3, <1>4 DEF IInv

\* s is r, or r with m behind it.
Appended(r, s, m) ==
    \A i, j \in DOMAIN s : i < j =>
        /\ i \in DOMAIN r /\ s[i] = r[i]
        /\ s[j] = m \/ (j \in DOMAIN r /\ s[j] = r[j])

\* A broadcast of message m adds it at the end of what some clients have received,
\* and of nothing else.
LEMMA EmitAppends ==
    ASSUME NEW m \in Nat, NEW conv, NEW S, m \in S,
           received \in [Clients -> Seq(S)],
           Emit(m, conv)
    PROVE  /\ received' \in [Clients -> Seq(S)]
           /\ \A c \in Clients : \A i \in DOMAIN received'[c] :
                  \/ received'[c][i] = m
                  \/ i \in DOMAIN received[c] /\ received'[c][i] = received[c][i]
           /\ \A c \in Clients : Appended(received[c], received'[c], m)
<1>1. SUFFICES ASSUME NEW c \in Clients
               PROVE  /\ received'[c] \in Seq(S)
                      /\ \A i \in DOMAIN received'[c] :
                           \/ received'[c][i] = m
                           \/ i \in DOMAIN received[c] /\ received'[c][i] = received[c][i]
                      /\ Appended(received[c], received'[c], m)
  BY DEF Emit
<1>2. received[c] \in Seq(S)
  OBVIOUS
<1>3. CASE received'[c] = Append(received[c], m)
  BY <1>2, <1>3 DEF Appended
<1>4. CASE received'[c] = received[c]
  BY <1>2, <1>4 DEF Appended
<1> QED BY <1>3, <1>4 DEF Emit

\* A new call of handleSendMessage changes nothing of the calls before it.
LEMMA SendMessageInv ==
    ASSUME IInv, NEW conv \in Conversations, NEW text \in Texts, SendMessage(conv, text)
    PROVE  IInv'
<1> DEFINE reason == DetectedReason(text)
           new == [conv |-> conv, text |-> text, reason |-> reason,
                   pc |-> IF reason = Undefined THEN "done" ELSE "logging"]
<1> USE DEF IInv
<1>1. sent \in Seq(Message) /\ new \in Message
  BY ReasonIsTyped DEF HandlersOK, Message
<1>2. /\ sent' = Append(sent, new) /\ log' = log
      /\ lastReason' = reason /\ Test(text)
  BY DEF SendMessage
<1>3. /\ sent' \in Seq(Message)
      /\ DOMAIN sent' = DOMAIN sent \cup {Len(sent) + 1}
      /\ \A m \in DOMAIN sent : sent'[m] = sent[m]
      /\ sent'[Len(sent) + 1] = new /\ Len(sent) + 1 \notin DOMAIN sent
  BY <1>1, <1>2
<1>4. MemoryIsOfAMatch'
  BY <1>2, ScanRemembersMatch DEF MemoryIsOfAMatch
<1>5. /\ received' \in [Clients -> Seq(DOMAIN sent')]
      /\ \A c \in Clients : Appended(received[c], received'[c], Len(sent) + 1)
      /\ \A c \in Clients : \A i \in DOMAIN received'[c] :
           \/ reason = Undefined /\ received'[c][i] = Len(sent) + 1
           \/ i \in DOMAIN received[c] /\ received'[c][i] = received[c][i]
  <2>1. received \in [Clients -> Seq(DOMAIN sent')]
    BY <1>3 DEF HandlersOK
  <2>2. CASE reason = Undefined
    <3>1. Emit(Len(sent) + 1, conv) /\ Len(sent) + 1 \in Nat /\ Len(sent) + 1 \in DOMAIN sent'
      BY <1>1, <1>3, <2>2 DEF SendMessage
    <3> QED BY <2>1, <2>2, <3>1, EmitAppends
  <2>3. CASE reason # Undefined
    <3>1. received' = received
      BY <2>3 DEF SendMessage
    <3> QED BY <2>1, <3>1 DEF Appended
  <2> QED BY <2>2, <2>3
<1>6. HandlersOK'
  <2>1. \A m \in DOMAIN sent' : sent'[m].pc = "logged" => m \in log'
    BY <1>2, <1>3 DEF HandlersOK
  <2>2. \A m \in DOMAIN sent' : sent'[m].reason = Undefined => sent'[m].pc = "done"
    BY <1>3 DEF HandlersOK
  <2> QED BY <1>3, <1>5, <2>1, <2>2 DEF HandlersOK
<1>7. NoticeIsLogged'
  <2> SUFFICES ASSUME NEW c \in Clients, NEW i \in DOMAIN received'[c],
                      sent'[received'[c][i]].reason # Undefined
               PROVE  received'[c][i] \in log'
    BY DEF NoticeIsLogged
  <2>1. received'[c][i] # Len(sent) + 1 \/ reason # Undefined
    BY <1>3
  <2>2. i \in DOMAIN received[c] /\ received'[c][i] = received[c][i]
    BY <1>5, <2>1
  <2>3. received[c][i] \in DOMAIN sent
    BY <2>2 DEF HandlersOK
  <2> QED BY <1>2, <1>3, <2>2, <2>3 DEF NoticeIsLogged
<1>8. OnlyNoticesAreLate'
  <2> SUFFICES ASSUME NEW c \in Clients, NEW i \in DOMAIN received'[c], NEW j \in DOMAIN received'[c],
                      i < j, received'[c][j] < received'[c][i]
               PROVE  sent'[received'[c][j]].reason # Undefined
    BY DEF OnlyNoticesAreLate
  <2>1. i \in DOMAIN received[c] /\ received'[c][i] = received[c][i]
    BY <1>5 DEF Appended
  <2>2. received[c][i] \in 1..Len(sent)
    BY <1>1, <2>1 DEF HandlersOK
  <2>3. received'[c][j] # Len(sent) + 1
    BY <1>1, <2>1, <2>2
  <2>4. j \in DOMAIN received[c] /\ received'[c][j] = received[c][j]
    BY <1>5, <2>3 DEF Appended
  <2>5. received[c][j] \in DOMAIN sent
    BY <2>4 DEF HandlersOK
  <2> QED BY <1>3, <2>1, <2>4, <2>5 DEF OnlyNoticesAreLate
<1> QED BY <1>4, <1>6, <1>7, <1>8

\* A step of a call already made changes how far the call is; a row may be added.
LEMMA CallStepInv ==
    ASSUME IInv, NEW m \in DOMAIN sent, CreateLog(m) \/ EmitNotice(m) \/ CreateFails(m)
    PROVE  IInv'
<1> USE DEF IInv
<1>1. PICK pc \in {"logged", "done", "failed"} :
           /\ sent' = [sent EXCEPT ![m].pc = pc]
           /\ pc = "logged" => m \in log'
           /\ sent[m].pc # "done"
  <2>1. CASE CreateLog(m)
    BY <2>1 DEF CreateLog
  <2>2. CASE EmitNotice(m)
    BY <2>2 DEF EmitNotice
  <2>3. CASE CreateFails(m)
    BY <2>3 DEF CreateFails
  <2> QED BY <2>1, <2>2, <2>3
<1>2. /\ sent' \in Seq(Message) /\ DOMAIN sent' = DOMAIN sent
      /\ \A n \in DOMAIN sent : sent'[n].reason = sent[n].reason
      /\ \A n \in DOMAIN sent : sent'[n].pc = IF n = m THEN pc ELSE sent[n].pc
  <2>1. sent \in Seq(Message) /\ sent[m] \in Message
    BY DEF HandlersOK
  <2>2. /\ [sent[m] EXCEPT !.pc = pc] \in Message
        /\ [sent[m] EXCEPT !.pc = pc].reason = sent[m].reason
        /\ [sent[m] EXCEPT !.pc = pc].pc = pc
    BY <2>1 DEF Message
  <2>3. sent' = [sent EXCEPT ![m] = [sent[m] EXCEPT !.pc = pc]]
    BY <1>1
  <2> QED BY <2>1, <2>2, <2>3
<1>3. MemoryIsOfAMatch'
  BY DEF MemoryIsOfAMatch, CreateLog, EmitNotice, CreateFails
<1>4. log \subseteq log' /\ (pc = "logged" => m \in log')
  BY <1>1 DEF CreateLog, EmitNotice, CreateFails
<1>5. /\ received' \in [Clients -> Seq(DOMAIN sent')]
      /\ NoticeIsLogged' /\ OnlyNoticesAreLate'
  <2>1. CASE EmitNotice(m)
    <3>1. m \in log /\ m \in Nat /\ Emit(m, sent[m].conv) /\ sent[m].reason # Undefined
      BY <2>1 DEF HandlersOK, EmitNotice
    <3>2. /\ received' \in [Clients -> Seq(DOMAIN sent)]
          /\ \A c \in Clients : \A i \in DOMAIN received'[c] :
               \/ received'[c][i] = m
               \/ i \in DOMAIN received[c] /\ received'[c][i] = received[c][i]
          /\ \A c \in Clients : Appended(received[c], received'[c], m)
      BY <3>1, EmitAppends DEF HandlersOK
    <3>3. \A c \in Clients : \A i \in DOMAIN received[c] : received[c][i] \in DOMAIN sent
      BY DEF HandlersOK
    <3>4. NoticeIsLogged'
      <4> SUFFICES ASSUME NEW c \in Clients, NEW i \in DOMAIN received'[c],
                          sent'[received'[c][i]].reason # Undefined, received'[c][i] # m
                   PROVE  received'[c][i] \in log'
        BY <1>4, <3>1 DEF NoticeIsLogged
      <4>1. i \in DOMAIN received[c] /\ received'[c][i] = received[c][i]
        BY <3>2
      <4> QED BY <1>2, <1>4, <3>3, <4>1 DEF NoticeIsLogged
    <3>5. OnlyNoticesAreLate'
      <4> SUFFICES ASSUME NEW c \in Clients, NEW i \in DOMAIN received'[c], NEW j \in DOMAIN received'[c],
                          i < j, received'[c][j] < received'[c][i], received'[c][j] # m
                   PROVE  sent'[received'[c][j]].reason # Undefined
        BY <1>2, <3>1 DEF OnlyNoticesAreLate
      <4>1. /\ i \in DOMAIN received[c] /\ received'[c][i] = received[c][i]
            /\ j \in DOMAIN received[c] /\ received'[c][j] = received[c][j]
        BY <3>2 DEF Appended
      <4> QED BY <1>2, <3>3, <4>1 DEF OnlyNoticesAreLate
    <3> QED BY <1>2, <3>2, <3>4, <3>5
  <2>2. CASE received' = received
    <3>1. \A c \in Clients : \A i \in DOMAIN received[c] : received[c][i] \in DOMAIN sent
      BY DEF HandlersOK
    <3>2. received' \in [Clients -> Seq(DOMAIN sent')]
      BY <1>2, <2>2 DEF HandlersOK
    <3>3. NoticeIsLogged'
      BY <1>2, <1>4, <2>2, <3>1 DEF NoticeIsLogged
    <3>4. OnlyNoticesAreLate'
      BY <1>2, <2>2, <3>1 DEF OnlyNoticesAreLate
    <3> QED BY <3>2, <3>3, <3>4
  <2> QED BY <2>1, <2>2 DEF CreateLog, CreateFails
<1>6. HandlersOK'
  BY <1>1, <1>2, <1>4, <1>5 DEF HandlersOK
<1> QED BY <1>3, <1>5, <1>6

\* A restart ends the calls under way and the memory of the patterns.
LEMMA RestartInv ==
    ASSUME IInv, Restart
    PROVE  IInv'
<1> USE DEF IInv
<1>1. /\ sent' \in Seq(Message) /\ DOMAIN sent' = DOMAIN sent
      /\ \A n \in DOMAIN sent :
           /\ sent'[n].reason = sent[n].reason /\ sent'[n].pc # "logged"
           /\ sent[n].pc = "done" => sent'[n].pc = "done"
  <2>1. sent \in Seq(Message) /\ DOMAIN sent = 1..Len(sent) /\ Len(sent) \in Nat
    BY DEF HandlersOK
  <2>2. ASSUME NEW n \in DOMAIN sent
        PROVE  /\ sent'[n] \in Message
               /\ sent'[n].reason = sent[n].reason /\ sent'[n].pc # "logged"
               /\ sent[n].pc = "done" => sent'[n].pc = "done"
    <3>1. sent[n] \in Message
      BY <2>1
    <3>2. CASE sent[n].pc = "done"
      BY <3>1, <3>2 DEF Restart
    <3>3. CASE sent[n].pc # "done"
      <4>1. sent'[n] = [sent[n] EXCEPT !.pc = "failed"]
        BY <3>3 DEF Restart
      <4> QED BY <3>1, <3>3, <4>1 DEF Message
    <3> QED BY <3>2, <3>3
  <2>3. DOMAIN sent' = 1..Len(sent) /\ sent' = [n \in 1..Len(sent) |-> sent'[n]]
    BY <2>1 DEF Restart
  <2> QED BY <2>1, <2>2, <2>3
<1>2. MemoryIsOfAMatch'
  BY DEF MemoryIsOfAMatch, Restart, Start
<1>3. received' = received /\ log' = log
  BY DEF Restart
<1>4. \A c \in Clients : \A i \in DOMAIN received[c] : received[c][i] \in DOMAIN sent
  BY DEF HandlersOK
<1>5. HandlersOK' /\ NoticeIsLogged' /\ OnlyNoticesAreLate'
  BY <1>1, <1>3, <1>4 DEF HandlersOK, NoticeIsLogged, OnlyNoticesAreLate
<1> QED BY <1>2, <1>5

LEMMA NextInv == IInv /\ [Next]_vars => IInv'
<1> SUFFICES ASSUME IInv, [Next]_vars PROVE IInv'
    OBVIOUS
<1>1. ASSUME NEW conv \in Conversations, NEW text \in Texts, SendMessage(conv, text)
      PROVE  IInv'
  BY <1>1, SendMessageInv
<1>2. ASSUME NEW m \in DOMAIN sent, CreateLog(m) \/ EmitNotice(m) \/ CreateFails(m)
      PROVE  IInv'
  BY <1>2, CallStepInv
<1>3. CASE UNCHANGED <<lastIndex, sent, log, received, lastReason>>
  BY <1>3 DEF IInv, MemoryIsOfAMatch, HandlersOK, NoticeIsLogged, OnlyNoticesAreLate
<1>4. CASE Restart
  BY <1>4, RestartInv
<1> QED BY <1>1, <1>2, <1>3, <1>4 DEF Next, vars, HandleJoinRoom, HandleDisconnect

-----------------------------------------------------------------------------
(* The theorems *)

\* Whatever fails or restarts, a client sees a notice only when its row is in the
\* database.
THEOREM NoticesLogged == Spec => []NoticeIsLogged
<1>1. IInv => NoticeIsLogged
  BY DEF IInv
<1> QED BY InitInv, NextInv, <1>1, PTL DEF Spec

\* What a client sees late, after a message sent later, is a notice.
THEOREM NoticesOnlyLate == Spec => []OnlyNoticesAreLate
<1>1. IInv => OnlyNoticesAreLate
  BY DEF IInv
<1> QED BY InitInv, NextInv, <1>1, PTL DEF Spec

\* A message with a contact gets through only right after a message in which a phone
\* pattern matched.
THEOREM MissesIsolated == Spec => MissesAreIsolated
<1>1. IInv /\ [Next]_vars =>
        [\A m \in DOMAIN sent' \ DOMAIN sent :
           /\ HasContact(sent'[m].text)
           /\ sent'[m].reason = Undefined
           => lastReason = "PHONE_NUMBER_DETECTED"]_vars
  <2> SUFFICES ASSUME IInv, [Next]_vars, NEW m \in DOMAIN sent' \ DOMAIN sent,
                      HasContact(sent'[m].text), sent'[m].reason = Undefined
               PROVE  lastReason = "PHONE_NUMBER_DETECTED"
      OBVIOUS
  <2>1. sent \in Seq(Message)
    BY DEF IInv, HandlersOK
  <2>2. ASSUME NEW conv \in Conversations, NEW text \in Texts, SendMessage(conv, text)
        PROVE  lastReason = "PHONE_NUMBER_DETECTED"
    <3>1. sent'[m].text = text /\ sent'[m].reason = DetectedReason(text)
      BY <2>1, <2>2 DEF SendMessage
    <3>2. text \in Seq(Parts)
      BY ChatAssumption
    <3> QED BY <3>1, <3>2, MissNeedsMemory DEF IInv
  <2>3. DOMAIN sent' = DOMAIN sent \/ \E conv \in Conversations, text \in Texts : SendMessage(conv, text)
    BY <2>1 DEF Next, vars, CreateLog, EmitNotice, CreateFails, HandleJoinRoom, HandleDisconnect, Restart
  <2> QED BY <2>2, <2>3
<1> QED BY InitInv, NextInv, <1>1, PTL DEF Spec, MissesAreIsolated

-----------------------------------------------------------------------------
(* Type correctness *)

\* Where a pattern goes on is a place in the text, or its start.
LEMMA IndexIsTyped ==
    ASSUME NEW p \in Patterns, lastIndex \in [Patterns -> Nat], NEW text \in Seq(Parts)
    PROVE  IndexAfter(p, text) \in Nat
<1>1. Matches(p, text) \in SUBSET Nat
  BY DEF Matches
<1> QED BY <1>1, MinIsIn DEF IndexAfter

\* Given the invariant, a step keeps what TypeOK says of the rest.
LEMMA NextTyped == IInv /\ TypeOK /\ IInv' /\ [Next]_vars => TypeOK'
<1> SUFFICES ASSUME IInv, TypeOK, IInv', [Next]_vars PROVE TypeOK'
    OBVIOUS
<1>1. HandlersOK /\ HandlersOK'
  BY DEF IInv
<1>2. CASE \E conv \in Conversations, text \in Texts : SendMessage(conv, text)
  <2>1. PICK conv \in Conversations, text \in Texts : SendMessage(conv, text)
    BY <1>2
  <2>2. text \in Seq(Parts)
    BY ChatAssumption
  <2>3. lastIndex \in [Patterns -> Nat]
    BY DEF TypeOK
  <2>4. IndexAfter("phone", text) \in Nat /\ IndexAfter("spelled", text) \in Nat
    BY <2>2, <2>3, IndexIsTyped DEF Patterns
  <2>5. lastIndex' \in [Patterns -> Nat]
    <3>1. /\ lastIndex' = [phone |-> lastIndex'["phone"], spelled |-> lastIndex'["spelled"]]
          /\ lastIndex'["phone"] \in Nat /\ lastIndex'["spelled"] \in Nat
      BY <2>1, <2>3, <2>4 DEF SendMessage, Test, Patterns
    <3> QED BY <3>1 DEF Patterns
  <2>6. DOMAIN sent \subseteq DOMAIN sent'
    BY <1>1, <2>1 DEF HandlersOK, SendMessage
  <2>7. lastReason' \in Reasons \cup {Undefined}
    BY <2>1, ReasonIsTyped DEF SendMessage
  <2>8. UNCHANGED <<rooms, log, restarts>>
    BY <2>1 DEF SendMessage
  <2> QED BY <1>1, <2>5, <2>6, <2>7, <2>8 DEF TypeOK, HandlersOK
<1>3. CASE \E m \in DOMAIN sent : CreateLog(m) \/ EmitNotice(m) \/ CreateFails(m)
  <2>1. DOMAIN sent' = DOMAIN sent /\ log' \subseteq DOMAIN sent
    BY <1>3 DEF CreateLog, EmitNotice, CreateFails, TypeOK
  <2>2. UNCHANGED <<lastIndex, rooms, restarts, lastReason>>
    BY <1>3 DEF CreateLog, EmitNotice, CreateFails
  <2> QED BY <1>1, <2>1, <2>2 DEF TypeOK, HandlersOK
<1>4. CASE \/ \E c \in Clients, conv \in Conversations : HandleJoinRoom(c, conv)
           \/ \E c \in Clients : HandleDisconnect(c)
           \/ UNCHANGED vars
  <2>1. rooms' \in [Conversations -> SUBSET Clients]
    BY <1>4 DEF HandleJoinRoom, HandleDisconnect, TypeOK, vars
  <2>2. UNCHANGED <<lastIndex, sent, log, restarts, lastReason>>
    BY <1>4 DEF HandleJoinRoom, HandleDisconnect, vars
  <2> QED BY <1>1, <2>1, <2>2 DEF TypeOK, HandlersOK
<1>5. CASE Restart
  <2>1. DOMAIN sent' = DOMAIN sent /\ UNCHANGED log
    BY <1>5 DEF Restart
  <2>2. lastIndex' \in [Patterns -> Nat] /\ rooms' \in [Conversations -> SUBSET Clients]
    BY <1>5 DEF Restart, Start
  <2>3. restarts' \in 0..MaxRestarts /\ lastReason' \in Reasons \cup {Undefined}
    BY <1>5, ChatAssumption DEF Restart, TypeOK
  <2> QED BY <1>1, <2>1, <2>2, <2>3 DEF TypeOK, HandlersOK
<1> QED BY <1>2, <1>3, <1>4, <1>5 DEF Next

\* What the gateway, the service and the clients hold is of its type; a pattern's
\* lastIndex in particular never leaves the numbers, whatever text it meets.
THEOREM TypeCorrectness == Spec => []TypeOK
<1>1. Init => TypeOK
  BY ChatAssumption DEF Init, TypeOK, Start
<1>2. IInv /\ TypeOK /\ [Next]_vars => IInv' /\ TypeOK'
  BY NextInv, NextTyped
<1> QED BY InitInv, <1>1, <1>2, PTL DEF Spec

=============================================================================
