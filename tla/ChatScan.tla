------------------------------ MODULE ChatScan ------------------------------
(***************************************************************************)
(* The chat: ChatGateway and the scan of AntiCircumventionService before   *)
(* every broadcast.  One process serves all conversations.  A clean        *)
(* message is scanned and sent to its room with no other event between;    *)
(* a suspicious one waits for its row in the database.                     *)
(*                                                                         *)
(* A text is a sequence of parts: what one of the two phone patterns, or   *)
(* a payment keyword, matches, or anything else.  The phone patterns are   *)
(* global regular expressions kept in the service: test() starts where     *)
(* lastIndex says and leaves it after the match, or at 0 (ECMAScript).     *)
(* socket.io and the database are external.                                *)
(*                                                                         *)
(* Bounds: Texts, MaxMessages, MaxRestarts.                                *)
(***************************************************************************)
EXTENDS Naturals, Sequences, FiniteSetsExt

CONSTANTS
    Clients,       \* sockets
    Conversations,
    Texts,         \* what may be sent
    MaxMessages,
    MaxRestarts

Patterns == {"phone", "spelled"} \* phonePatterns, in this order
Parts == Patterns \cup {"keyword", "plain"}
Reasons == {"PHONE_NUMBER_DETECTED", "EXTERNAL_PAYMENT_REQUEST"}

ASSUME ChatAssumption == Texts \subseteq Seq(Parts) /\ {MaxMessages, MaxRestarts} \subseteq Nat

VARIABLES
    lastIndex, \* of each phone pattern: how many parts test() will skip
    rooms,     \* external: the sockets that joined conv_...
    sent,      \* the calls of handleSendMessage, in the order they were made
    log,       \* external: chatAntiCircumventionLog, the messages it has a row of
    received,  \* external: the new_message events at each client
    restarts,
    lastReason \* history: the detectedReason of the last scan of this process

vars == <<lastIndex, rooms, sent, log, received, restarts, lastReason>>

\* detectedReason is undefined for a clean message.
Undefined == "undefined"
Message == [conv : Conversations, text : Texts, reason : Reasons \cup {Undefined},
            pc : {"logging", "logged", "done", "failed"}]

TypeOK ==
    /\ lastIndex \in [Patterns -> Nat]
    /\ rooms \in [Conversations -> SUBSET Clients]
    /\ sent \in Seq(Message)
    /\ \A m \in DOMAIN sent : sent[m].reason = Undefined => sent[m].pc = "done"
    /\ log \subseteq DOMAIN sent
    /\ received \in [Clients -> Seq(DOMAIN sent)]
    /\ restarts \in 0..MaxRestarts
    /\ lastReason \in Reasons \cup {Undefined}

Start == [p \in Patterns |-> 0]

Init ==
    /\ lastIndex = Start
    /\ rooms = [k \in Conversations |-> {}]
    /\ sent = <<>> /\ log = {}
    /\ received = [c \in Clients |-> <<>>]
    /\ restarts = 0
    /\ lastReason = Undefined

-----------------------------------------------------------------------------
(* AntiCircumventionService.scanChatMessage *)

Matches(p, text) == {i \in lastIndex[p] + 1..Len(text) : text[i] = p}
IndexAfter(p, text) == IF Matches(p, text) = {} THEN 0 ELSE Min(Matches(p, text))
HasPart(text, part) == \E i \in DOMAIN text : text[i] = part

\* The second pattern is tested only if the first does not match.
Test(text) ==
    lastIndex' = [phone |-> IndexAfter("phone", text),
                  spelled |-> IF Matches("phone", text) # {} THEN lastIndex["spelled"]
                                                             ELSE IndexAfter("spelled", text)]

\* Mutant of DetectedReason: the loop ends with the first pattern.
DetectedReasonFirst(text) ==
    CASE Matches("phone", text) # {} -> "PHONE_NUMBER_DETECTED"
      [] OTHER -> IF HasPart(text, "keyword") THEN "EXTERNAL_PAYMENT_REQUEST" ELSE Undefined

DetectedReason(text) ==
    CASE \E p \in Patterns : Matches(p, text) # {} -> "PHONE_NUMBER_DETECTED"
      [] OTHER -> IF HasPart(text, "keyword") THEN "EXTERNAL_PAYMENT_REQUEST" ELSE Undefined

-----------------------------------------------------------------------------
(* ChatGateway *)

\* server.to(conv_...).emit: to the sockets in the room now.
Emit(m, conv) ==
    received' = [c \in Clients |-> IF c \in rooms[conv] THEN Append(received[c], m)
                                                        ELSE received[c]]

\* Mutant of SendMessage: every message gets a row, and waits for it.
SendAndLog(conv, text) ==
    /\ Len(sent) < MaxMessages
    /\ sent' = Append(sent, [conv |-> conv, text |-> text, reason |-> DetectedReason(text),
                             pc |-> "logging"])
    /\ lastReason' = DetectedReason(text)
    /\ Test(text)
    /\ UNCHANGED <<received, rooms, log, restarts>>

\* handleSendMessage up to the first await that lets other events run.
SendMessage(conv, text) ==
    LET reason == DetectedReason(text) IN
    /\ Len(sent) < MaxMessages
    /\ sent' = Append(sent, [conv |-> conv, text |-> text, reason |-> reason,
                             pc |-> IF reason = Undefined THEN "done" ELSE "logging"])
    /\ IF reason = Undefined THEN Emit(Len(sent) + 1, conv) ELSE UNCHANGED received
    /\ lastReason' = reason
    /\ Test(text)
    /\ UNCHANGED <<rooms, log, restarts>>

\* external: the row is in the database.
CreateLog(m) ==
    /\ sent[m].pc = "logging"
    /\ sent' = [sent EXCEPT ![m].pc = "logged"]
    /\ log' = log \cup {m}
    /\ UNCHANGED <<lastIndex, rooms, received, restarts, lastReason>>

\* Mutant of EmitNotice: create is not awaited.
EmitNoticeAtOnce(m) ==
    /\ sent[m].pc \in {"logging", "logged"}
    /\ sent' = [sent EXCEPT ![m].pc = "done"]
    /\ Emit(m, sent[m].conv)
    /\ UNCHANGED <<lastIndex, rooms, log, restarts, lastReason>>

\* handleSendMessage after create: the notice instead of the text.
EmitNotice(m) ==
    /\ sent[m].pc = "logged"
    /\ sent' = [sent EXCEPT ![m].pc = "done"]
    /\ Emit(m, sent[m].conv)
    /\ UNCHANGED <<lastIndex, rooms, log, restarts, lastReason>>

\* create throws, before or after the commit, and the handler with it.
CreateFails(m) ==
    /\ sent[m].pc \in {"logging", "logged"}
    /\ sent' = [sent EXCEPT ![m].pc = "failed"]
    /\ UNCHANGED <<lastIndex, rooms, log, received, restarts, lastReason>>

HandleJoinRoom(c, conv) ==
    /\ rooms' = [rooms EXCEPT ![conv] = @ \cup {c}]
    /\ UNCHANGED <<lastIndex, sent, log, received, restarts, lastReason>>

HandleDisconnect(c) ==
    /\ rooms' = [k \in Conversations |-> rooms[k] \ {c}]
    /\ UNCHANGED <<lastIndex, sent, log, received, restarts, lastReason>>

\* The process dies and is started again: all sockets close, no handler goes on.
Restart ==
    /\ restarts < MaxRestarts
    /\ restarts' = restarts + 1
    /\ lastIndex' = Start /\ lastReason' = Undefined
    /\ rooms' = [k \in Conversations |-> {}]
    /\ sent' = [m \in DOMAIN sent |->
                  IF sent[m].pc = "done" THEN sent[m] ELSE [sent[m] EXCEPT !.pc = "failed"]]
    /\ UNCHANGED <<log, received>>

Next ==
    \/ \E conv \in Conversations, text \in Texts : SendMessage(conv, text)
    \/ \E m \in DOMAIN sent : CreateLog(m) \/ EmitNotice(m) \/ CreateFails(m)
    \/ \E c \in Clients, conv \in Conversations : HandleJoinRoom(c, conv)
    \/ \E c \in Clients : HandleDisconnect(c)
    \/ Restart

Spec == Init /\ [][Next]_vars

-----------------------------------------------------------------------------
(* Properties *)

\* A client sees the notice of a blocked message only when the row for the
\* administrators is in the database, whatever fails or restarts.
NoticeIsLogged ==
    \A c \in Clients : \A i \in DOMAIN received[c] :
        LET m == received[c][i] IN sent[m].reason # Undefined => m \in log

\* A client sees the messages of a conversation in the order they were sent, but
\* for notices, which wait for the database: what comes after a message that was
\* sent later is a notice.
OnlyNoticesAreLate ==
    \A c \in Clients : \A i, j \in DOMAIN received[c] :
        i < j /\ received[c][j] < received[c][i] => sent[received[c][j]].reason # Undefined

HasContact(text) == \E part \in Parts \ {"plain"} : HasPart(text, part)

\* The memory of the global patterns never hides two contacts in a row: a message
\* with a contact gets through only right after a message in which a phone pattern
\* matched, so never as the first of a process, nor after a clean one.
MissesAreIsolated ==
    [][\A m \in DOMAIN sent' \ DOMAIN sent :
         /\ HasContact(sent'[m].text)
         /\ sent'[m].reason = Undefined
         => lastReason = "PHONE_NUMBER_DETECTED"]_vars

\* What the service is tested for: a text with a mobile number in it is flagged.
NumbersAreFlagged ==
    \A m \in DOMAIN sent : HasPart(sent[m].text, "phone") => sent[m].reason # Undefined

=============================================================================
