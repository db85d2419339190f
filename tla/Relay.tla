------------------------------- MODULE Relay --------------------------------
(***************************************************************************)
(* What connects the two chats: a user's message is posted in the admin    *)
(* chat under a header, and a row of ticket_messages remembers which post  *)
(* is a copy of which message.  By that row a reply of an admin finds its  *)
(* user, and a reaction the message it is mirrored on.                     *)
(*                                                                         *)
(* Handlers run concurrently; a row is seen by others after the commit at  *)
(* the end of its handler.  Sends go through send_with_retry.              *)
(*                                                                         *)
(* Whether a user's message is relayed at all, and what it does to its     *)
(* ticket, is in Conversation.tla: a message is here an element of         *)
(* Messages that is relayed, and its ticket is one of its author's, as     *)
(* get_open_ticket finds it by the author.                                 *)
(***************************************************************************)
EXTENDS Naturals, Sequences

CONSTANTS
    Users,      \* users with a private chat
    Messages,   \* messages they send, each relayed once
    Author,     \* the author of a message
    Admins,     \* admins
    Replies,    \* messages admins send as a reply to some post
    Reactions,  \* reactions admins put on some post
    Attempts,   \* stop_after_attempt of send_with_retry
    None        \* no message, no reaction

ASSUME RelayAssumption ==
    /\ Author \in [Messages -> Users]
    /\ Attempts \in Nat \ {0}
    /\ Replies \cap Reactions = {}
    /\ None \notin Messages \cup Reactions

VARIABLES
    chat,     \* the posts of the admin chat; a post's message id is its place
    rows,     \* committed rows: <<admin_chat_message_id, the user's message>>
    waiting,  \* admins one of whose flows waits for a text
    inbox,    \* pairs of a reply and a user whose chat got it
    face,     \* the reaction shown on a user's message
    history,  \* replies with a committed row
    relay,    \* the handler of each user's message
    task      \* the handlers of replies and reactions

vars == <<chat, rows, waiting, inbox, face, history, relay, task>>

-----------------------------------------------------------------------------
Post == [kind: {"header", "copy"}, msg: Messages]

Header(m) == [kind |-> "header", msg |-> m]
CopyOf(m) == [kind |-> "copy", msg |-> m]

\* The handler of a user's message: where it is and the id of its copy.
RelayTask == [pc: {"new", "header", "copied", "over"}, copy: Nat]

Verdict == {"none", "sent", "undelivered", "unknown", "input"}

\* The handler of a reply or a reaction: the post it was put on, the message found by
\* the row, the failed attempts to send, and what the admin is told in the end.
Task == [pc: {"new", "send", "resend", "record", "commit", "over"}, post: Nat,
         msg: Messages \cup {None}, tries: 0 .. Attempts - 1, verdict: Verdict]

TypeOK ==
    /\ chat \in Seq(Post)
    /\ rows \subseteq Nat \X Messages
    /\ waiting \subseteq Admins
    /\ inbox \subseteq Replies \X Users
    /\ face \in [Messages -> Reactions \cup {None}]
    /\ history \subseteq Replies
    /\ relay \in [Messages -> RelayTask]
    /\ task \in [Replies \cup Reactions -> Task]

Init ==
    /\ chat = << >>
    /\ rows = {}
    /\ waiting = {}
    /\ inbox = {}
    /\ face = [m \in Messages |-> None]
    /\ history = {}
    /\ relay = [m \in Messages |-> [pc |-> "new", copy |-> 0]]
    /\ task = [x \in Replies \cup Reactions |->
                  [pc |-> "new", post |-> 0, msg |-> None, tries |-> 0, verdict |-> "none"]]

user == <<inbox, face>>
ofAdmins == <<waiting, history>>

-----------------------------------------------------------------------------
(* A user's message (relay_to_admin in messages.py).                        *)

PostHeader(m) ==
    /\ relay[m].pc = "new"
    /\ chat' = Append(chat, Header(m))
    /\ relay' = [relay EXCEPT ![m].pc = "header"]
    /\ UNCHANGED <<rows, user, ofAdmins, task>>

\* copy_to returns the id of the copy; its keyboard follows.
PostCopy(m) ==
    /\ relay[m].pc = "header"
    /\ chat' = Append(chat, CopyOf(m))
    /\ relay' = [relay EXCEPT ![m] = [pc |-> "copied", copy |-> Len(chat) + 1]]
    /\ UNCHANGED <<rows, user, ofAdmins, task>>

\* Mutant: the row is given the id of the newest post.
CommitRelayNewest(m) ==
    /\ relay[m].pc = "copied"
    /\ rows' = rows \cup {<<Len(chat), m>>}
    /\ relay' = [relay EXCEPT ![m].pc = "over"]
    /\ UNCHANGED <<chat, user, ofAdmins, task>>

\* save_user_message, and the commit at the end of the handler.
CommitRelay(m) ==
    /\ relay[m].pc = "copied"
    /\ rows' = rows \cup {<<relay[m].copy, m>>}
    /\ relay' = [relay EXCEPT ![m].pc = "over"]
    /\ UNCHANGED <<chat, user, ofAdmins, task>>

\* Telegram refuses, or any await raises: no row, but the posts stay.
FailRelay(m) ==
    /\ relay[m].pc \in {"header", "copied"}
    /\ relay' = [relay EXCEPT ![m].pc = "over"]
    /\ UNCHANGED <<chat, rows, user, ofAdmins, task>>

-----------------------------------------------------------------------------
(* send_with_retry (queue.py), with which replies and reactions are sent.   *)

Sending(x) == task[x].pc \in {"send", "resend"}

\* The chat of the message's author gets a reply, the message itself a reaction.
Arrives(x) ==
    \/ x \in Replies /\ inbox' = inbox \cup {<<x, Author[task[x].msg]>>} /\ UNCHANGED face
    \/ x \in Reactions /\ face' = [face EXCEPT ![task[x].msg] = x] /\ UNCHANGED inbox

\* A handler that gives up: a reply is told to be undelivered, a reaction is dropped.
GivesUp(x) == task' = [task EXCEPT ![x].pc = "over", ![x].verdict = "undelivered"]

CallReturns(x) ==
    /\ Sending(x)
    /\ Arrives(x)
    /\ \/ x \in Replies /\ task' = [task EXCEPT ![x].pc = "record"]
       \/ x \in Reactions /\ task' = [task EXCEPT ![x].pc = "over", ![x].verdict = "sent"]
    /\ UNCHANGED <<chat, rows, ofAdmins, relay>>

\* Mutant: one attempt too many.
NetworkErrorOnceMore(x) ==
    /\ Sending(x)
    /\ Arrives(x) \/ UNCHANGED user
    /\ \/ task[x].tries = Attempts /\ GivesUp(x)
       \/ /\ task[x].tries < Attempts
          /\ task' = [task EXCEPT ![x].pc = "send", ![x].tries = @ + 1]
    /\ UNCHANGED <<chat, rows, ofAdmins, relay>>

\* TelegramNetworkError: the call may have arrived all the same; tried again after a
\* pause, but for the last attempt.
NetworkError(x) ==
    /\ Sending(x)
    /\ Arrives(x) \/ UNCHANGED user
    /\ \/ task[x].tries + 1 = Attempts /\ GivesUp(x)
       \/ /\ task[x].tries + 1 < Attempts
          /\ task' = [task EXCEPT ![x].pc = "send", ![x].tries = @ + 1]
    /\ UNCHANGED <<chat, rows, ofAdmins, relay>>

\* TelegramRetryAfter: one more call, outside the handler of the exception.
FloodControl(x) ==
    /\ task[x].pc = "send"
    /\ task' = [task EXCEPT ![x].pc = "resend"]
    /\ UNCHANGED <<chat, rows, user, ofAdmins, relay>>

\* The user blocked the bot, the call is refused, or it meets flood control again.
\* (The header a voice message sends before itself may have arrived.)
Refused(x) ==
    /\ Sending(x)
    /\ GivesUp(x)
    /\ UNCHANGED <<chat, rows, user, ofAdmins, relay>>

-----------------------------------------------------------------------------
(* An admin's reply (reply.py) and the flows that wait for a text.          *)

\* A flow of admin a asks for an amount, a reason, a date, ...; /cancel ends it.
FlowWaits(a) ==
    /\ a \notin waiting
    /\ waiting' = waiting \cup {a}
    /\ UNCHANGED <<chat, rows, user, history, relay, task>>

CancelFlow(a) ==
    /\ a \in waiting
    /\ waiting' = waiting \ {a}
    /\ UNCHANGED <<chat, rows, user, history, relay, task>>

\* Mutant: a header stands for the copy that follows it.
FoundOrHeader(i) == {m \in Messages : <<i, m>> \in rows \/ <<i + 1, m>> \in rows}

\* find_message_by_admin_chat_id
Found(i) == {m \in Messages : <<i, m>> \in rows}

Begin(x, i, m, pc, verdict) ==
    /\ task[x].pc = "new"
    /\ task' = [task EXCEPT ![x] = [@ EXCEPT !.pc = pc, !.post = i, !.msg = m,
                                             !.verdict = verdict]]

\* IsTicketReply finds the row of the post.
ReplyToTicket(x, i) ==
    /\ \E m \in Found(i) : Begin(x, i, m, "send", "none")
    /\ UNCHANGED <<chat, rows, user, ofAdmins, relay>>

\* It finds none and the text answers what the admin's flow has asked; a text the flow
\* cannot use leaves it waiting.
ReplyToFlow(x, a, i) ==
    /\ Found(i) = {}
    /\ a \in waiting
    /\ Begin(x, i, None, "over", "input")
    /\ waiting' \in {waiting, waiting \ {a}}
    /\ UNCHANGED <<chat, rows, user, history, relay>>

\* Or nothing waits for it: admin_reply_to_unknown_message.
ReplyToUnknown(x, a, i) ==
    /\ Found(i) = {}
    /\ a \notin waiting
    /\ Begin(x, i, None, "over", "unknown")
    /\ UNCHANGED <<chat, rows, user, ofAdmins, relay>>

\* save_admin_message and the new status are flushed, then the admin is told.
TellSent(x) ==
    /\ task[x].pc = "record"
    /\ task' = [task EXCEPT ![x].pc = "commit", ![x].verdict = "sent"]
    /\ UNCHANGED <<chat, rows, user, ofAdmins, relay>>

CommitReply(x) ==
    /\ task[x].pc = "commit"
    /\ history' = history \cup {x}
    /\ task' = [task EXCEPT ![x].pc = "over"]
    /\ UNCHANGED <<chat, rows, user, waiting, relay>>

\* A restart, or an await that raises once the reply is sent: rolled back.
FailTask(x) ==
    /\ task[x].pc \notin {"new", "over"}
    /\ task' = [task EXCEPT ![x].pc = "over"]
    /\ UNCHANGED <<chat, rows, user, ofAdmins, relay>>

-----------------------------------------------------------------------------
(* An admin's reaction (reaction.py).                                       *)

React(x, i) ==
    /\ \/ \E m \in Found(i) : Begin(x, i, m, "send", "none")
       \/ Found(i) = {} /\ Begin(x, i, None, "over", "none")
    /\ UNCHANGED <<chat, rows, user, ofAdmins, relay>>

-----------------------------------------------------------------------------
RelayStep(m) == PostHeader(m) \/ PostCopy(m) \/ CommitRelay(m) \/ FailRelay(m)

Send(x) == CallReturns(x) \/ NetworkError(x) \/ FloodControl(x) \/ Refused(x)

Reply(x) ==
    \/ \E i \in 1 .. Len(chat) :
          \/ ReplyToTicket(x, i)
          \/ \E a \in Admins : ReplyToFlow(x, a, i) \/ ReplyToUnknown(x, a, i)
    \/ TellSent(x) \/ CommitReply(x)

Next ==
    \/ \E m \in Messages : RelayStep(m)
    \/ \E a \in Admins : FlowWaits(a) \/ CancelFlow(a)
    \/ \E x \in Replies : Reply(x)
    \/ \E x \in Reactions, i \in 1 .. Len(chat) : React(x, i)
    \/ \E x \in Replies \cup Reactions : Send(x) \/ FailTask(x)

Spec == Init /\ [][Next]_vars

-----------------------------------------------------------------------------
(* Properties.                                                              *)

\* A reply reaches the author of the message whose copy it was put on, or nobody; the
\* admin is told it was sent, and the history keeps it, only after it arrived.  What
\* it was put on is read from the chat, whatever the rows say.
Answered(r) ==
    LET i == task[r].post IN
    IF i # 0 /\ chat[i].kind = "copy" THEN chat[i].msg ELSE None

Channel == INSTANCE ReplyChannel WITH
    answers  <- [r \in Replies |-> Answered(r)],
    received <- inbox,
    verdict  <- [r \in Replies |-> task[r].verdict],
    recorded <- history

ImplementsChannel == Channel!Spec

\* A reaction is shown only on the message whose copy it was put on.
ReactionsMirrorCopies ==
    \A m \in Messages : face[m] # None => chat[task[face[m]].post] = CopyOf(m)

=============================================================================
