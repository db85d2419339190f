---------------------------- MODULE ReplyChannel ----------------------------
(***************************************************************************)
(* What the desk promises of an admin's reply to a message in the admin    *)
(* chat: it reaches the author of that message or nobody, the admin is     *)
(* told "sent" only after it did, and only such a reply is kept in the     *)
(* history of the ticket.                                                  *)
(***************************************************************************)
CONSTANTS Users, Messages, Replies, Author, None

VARIABLES
    answers,   \* the user's message a reply answers, None if it answers none
    received,  \* pairs of a reply and a user who got it
    verdict,   \* what the admin is told of a reply
    recorded   \* the replies in the history

vars == <<answers, received, verdict, recorded>>

Verdict == {"none", "sent", "undelivered", "unknown", "input"}

Init ==
    /\ answers = [r \in Replies |-> None]
    /\ received = {}
    /\ verdict = [r \in Replies |-> "none"]
    /\ recorded = {}

\* An admin replies; the reply may be turned down, or taken for something else, at once.
Reply(r, m, v) ==
    /\ answers[r] = None
    /\ verdict[r] = "none"
    /\ answers' = [answers EXCEPT ![r] = m]
    /\ verdict' = [verdict EXCEPT ![r] = v]
    /\ UNCHANGED <<received, recorded>>

Deliver(r) ==
    /\ answers[r] # None
    /\ verdict[r] = "none"
    /\ received' = received \cup {<<r, Author[answers[r]]>>}
    /\ UNCHANGED <<answers, recorded>>
    /\ \/ UNCHANGED verdict
       \/ verdict' = [verdict EXCEPT ![r] = "undelivered"]

TellSent(r) ==
    /\ answers[r] # None
    /\ verdict[r] = "none"
    /\ <<r, Author[answers[r]]>> \in received
    /\ verdict' = [verdict EXCEPT ![r] = "sent"]
    /\ UNCHANGED <<answers, received, recorded>>

TellUndelivered(r) ==
    /\ answers[r] # None
    /\ verdict[r] = "none"
    /\ verdict' = [verdict EXCEPT ![r] = "undelivered"]
    /\ UNCHANGED <<answers, received, recorded>>

Record(r) ==
    /\ verdict[r] = "sent"
    /\ recorded' = recorded \cup {r}
    /\ UNCHANGED <<answers, received, verdict>>

Next ==
    \E r \in Replies :
        \/ \E m \in Messages \cup {None}, v \in {"none", "unknown", "input"} : Reply(r, m, v)
        \/ Deliver(r) \/ TellSent(r) \/ TellUndelivered(r) \/ Record(r)

Spec == Init /\ [][Next]_vars

=============================================================================
