---------------------------- MODULE SmsDelivery ----------------------------
(***************************************************************************)
(* What ISmsProvider.sendOtp promises its caller: every send is answered,  *)
(* an answer "sent" means the message reached the recipient, and no        *)
(* message reaches it twice.  An answer "failed" promises nothing: the     *)
(* message may have been delivered, or still be.                           *)
(***************************************************************************)
EXTENDS Naturals

CONSTANT Sends \* calls of sendOtp

VARIABLES
    status,   \* what the caller of each send knows
    delivered \* how often the message of each send was delivered

vars == <<status, delivered>>

Init ==
    /\ status = [s \in Sends |-> "idle"]
    /\ delivered = [s \in Sends |-> 0]

Answer(s, answer) ==
    /\ status[s] = "pending"
    /\ status' = [status EXCEPT ![s] = answer]
    /\ UNCHANGED delivered

Request(s) ==
    /\ status[s] = "idle"
    /\ status' = [status EXCEPT ![s] = "pending"]
    /\ UNCHANGED delivered

Deliver(s) ==
    /\ status[s] \in {"pending", "failed"}
    /\ delivered[s] = 0
    /\ delivered' = [delivered EXCEPT ![s] = 1]
    /\ UNCHANGED status

Confirm(s) == delivered[s] = 1 /\ Answer(s, "sent")
Fail(s) == Answer(s, "failed")

Next == \E s \in Sends : Request(s) \/ Deliver(s) \/ Confirm(s) \/ Fail(s)

Spec == Init /\ [][Next]_vars /\ \A s \in Sends : WF_vars(Confirm(s) \/ Fail(s))

=============================================================================
