---------------------------- MODULE RelayProofs -----------------------------
(***************************************************************************)
(* Theorems about Relay, for any number of users, messages, admins,        *)
(* replies and reactions: its typing, that a reaction is shown on the      *)
(* message whose copy it was put on, and that replies implement            *)
(* ReplyChannel.                                                           *)
(*                                                                         *)
(* All of it rests on RowsAreCopies: what the database says of a post is   *)
(* what the chat shows.  The chat only grows, so what a handler has found  *)
(* stays true while it sends.                                              *)
(***************************************************************************)
EXTENDS Relay, TLAPS

Posts == 1 .. Len(chat)

\* A row names a post that is the copy of its message.
RowsAreCopies ==
    \A i \in Nat, m \in Messages : <<i, m>> \in rows => i \in Posts /\ chat[i] = CopyOf(m)

\* A relay that is to commit knows the id of its copy.
RelayKnowsCopy(m) ==
    relay[m].pc = "copied" => relay[m].copy \in Posts /\ chat[relay[m].copy] = CopyOf(m)

\* What a handler of a reply or a reaction knows at each of its steps.
TaskKnowsPost(x) ==
    /\ task[x].pc = "new" =>
          task[x].post = 0 /\ task[x].msg = None /\ task[x].verdict = "none"
    /\ task[x].pc # "new" => task[x].post \in Posts
    /\ task[x].pc \in {"send", "resend", "record", "commit"} =>
          task[x].msg \in Messages /\ chat[task[x].post] = CopyOf(task[x].msg)
    /\ task[x].pc \in {"send", "resend", "record"} => task[x].verdict = "none"
    /\ task[x].pc = "commit" => task[x].verdict = "sent"

\* A reply is told to be sent only when it has arrived; reactions are told nothing.
RecordedArrived(x) ==
    task[x].pc \in {"record", "commit"} =>
        x \in Replies /\ <<x, Author[task[x].msg]>> \in inbox

\* A reaction that is shown was put on the copy of the message.
FaceIsMirrored(m) ==
    face[m] # None => task[face[m]].pc # "new" /\ chat[task[face[m]].post] = CopyOf(m)

IInv ==
    /\ TypeOK
    /\ RowsAreCopies
    /\ \A m \in Messages : RelayKnowsCopy(m) /\ FaceIsMirrored(m)
    /\ \A x \in Replies \cup Reactions : TaskKnowsPost(x) /\ RecordedArrived(x)

-----------------------------------------------------------------------------
(* The chat only grows.                                                     *)

LEMMA PostType ==
    ASSUME NEW m \in Messages
    PROVE  Header(m) \in Post /\ CopyOf(m) \in Post /\ CopyOf(m).msg = m /\ CopyOf(m).kind = "copy"
  BY DEF Header, CopyOf, Post

LEMMA AppendKeepsPosts ==
    ASSUME chat \in Seq(Post), NEW p \in Post, chat' = Append(chat, p)
    PROVE  /\ chat' \in Seq(Post)
           /\ Len(chat') = Len(chat) + 1
           /\ chat'[Len(chat) + 1] = p
           /\ \A i \in Posts : i \in Posts' /\ chat'[i] = chat[i]
  BY DEF Posts

\* A step that leaves rows, reactions and handlers alone but for one relay.
LEMMA ChatStepKeeps ==
    ASSUME IInv, TypeOK', UNCHANGED <<inbox, face, task>>,
           \A i \in Posts : i \in Posts' /\ chat'[i] = chat[i],
           \A i \in Nat, m \in Messages :
              <<i, m>> \in rows' /\ <<i, m>> \notin rows => i \in Posts /\ chat[i] = CopyOf(m),
           NEW n \in Messages, RelayKnowsCopy(n)',
           \A m \in Messages \ {n} : relay'[m] = relay[m]
    PROVE  IInv'
  <1>1. RowsAreCopies'
    BY DEF IInv, RowsAreCopies
  <1>2. ASSUME NEW m \in Messages PROVE RelayKnowsCopy(m)'
    BY DEF IInv, RelayKnowsCopy
  <1>3. ASSUME NEW x \in Replies \cup Reactions PROVE TaskKnowsPost(x)' /\ RecordedArrived(x)'
    <2>1. TaskKnowsPost(x) /\ RecordedArrived(x)
      BY DEF IInv
    <2>2. TaskKnowsPost(x)'
      BY <2>1 DEF TaskKnowsPost
    <2> QED
      BY <2>1, <2>2 DEF RecordedArrived
  <1>4. ASSUME NEW m \in Messages PROVE FaceIsMirrored(m)'
    <2>1. CASE face[m] # None
      <3>1. face[m] \in Replies \cup Reactions /\ FaceIsMirrored(m)
        BY <2>1 DEF IInv, TypeOK
      <3>2. task[face[m]].post \in Posts
        BY <2>1, <3>1 DEF IInv, TaskKnowsPost, FaceIsMirrored
      <3> QED
        BY <3>1, <3>2 DEF FaceIsMirrored
    <2>2. CASE face[m] = None
      BY <2>2 DEF FaceIsMirrored
    <2> QED
      BY <2>1, <2>2
  <1> QED
    BY <1>1, <1>2, <1>3, <1>4 DEF IInv

LEMMA PostHeaderKeeps ==
    ASSUME IInv, NEW m \in Messages, PostHeader(m)
    PROVE  IInv'
  <1>1. TypeOK
    BY DEF IInv
  <1>2. relay' \in [Messages -> RelayTask] /\ relay'[m].pc = "header"
    BY <1>1 DEF PostHeader, TypeOK, RelayTask
  <1>3. /\ chat' \in Seq(Post)
        /\ \A i \in Posts : i \in Posts' /\ chat'[i] = chat[i]
    BY <1>1, PostType, AppendKeepsPosts DEF PostHeader, TypeOK
  <1>4. TypeOK'
    BY <1>1, <1>2, <1>3 DEF PostHeader, TypeOK, user, ofAdmins
  <1>5. RelayKnowsCopy(m)'
    BY <1>2 DEF RelayKnowsCopy
  <1>6. \A n \in Messages \ {m} : relay'[n] = relay[n]
    BY <1>1 DEF PostHeader, TypeOK
  <1> QED
    BY <1>3, <1>4, <1>5, <1>6, ChatStepKeeps DEF PostHeader, user, ofAdmins

LEMMA PostCopyKeeps ==
    ASSUME IInv, NEW m \in Messages, PostCopy(m)
    PROVE  IInv'
  <1>1. TypeOK /\ Len(chat) + 1 \in Nat
    BY DEF IInv, TypeOK
  <1>2. /\ relay' \in [Messages -> RelayTask]
        /\ relay'[m].copy = Len(chat) + 1
    BY <1>1 DEF PostCopy, TypeOK, RelayTask
  <1>3. /\ chat' \in Seq(Post)
        /\ Len(chat') = Len(chat) + 1
        /\ chat'[Len(chat) + 1] = CopyOf(m)
        /\ \A i \in Posts : i \in Posts' /\ chat'[i] = chat[i]
    BY <1>1, PostType, AppendKeepsPosts DEF PostCopy, TypeOK
  <1>4. TypeOK'
    BY <1>1, <1>2, <1>3 DEF PostCopy, TypeOK, user, ofAdmins
  <1>5. RelayKnowsCopy(m)'
    BY <1>1, <1>2, <1>3 DEF RelayKnowsCopy, Posts
  <1>6. \A n \in Messages \ {m} : relay'[n] = relay[n]
    BY <1>1 DEF PostCopy, TypeOK
  <1> QED
    BY <1>3, <1>4, <1>5, <1>6, ChatStepKeeps DEF PostCopy, user, ofAdmins

\* The row that is added is that of the copy.
LEMMA CommitRelayKeeps ==
    ASSUME IInv, NEW m \in Messages, CommitRelay(m)
    PROVE  IInv'
  <1>1. TypeOK /\ RelayKnowsCopy(m)
    BY DEF IInv
  <1>2. relay[m].copy \in Posts /\ relay[m].copy \in Nat /\ chat[relay[m].copy] = CopyOf(m)
    BY <1>1 DEF CommitRelay, RelayKnowsCopy, TypeOK, RelayTask
  <1>3. relay' \in [Messages -> RelayTask] /\ relay'[m].pc = "over"
    BY <1>1 DEF CommitRelay, TypeOK, RelayTask
  <1>4. TypeOK'
    BY <1>1, <1>2, <1>3 DEF CommitRelay, TypeOK, user, ofAdmins
  <1>5. RelayKnowsCopy(m)'
    BY <1>3 DEF RelayKnowsCopy
  <1>6. \A n \in Messages \ {m} : relay'[n] = relay[n]
    BY <1>1 DEF CommitRelay, TypeOK
  <1>7. \A i \in Nat, n \in Messages :
           <<i, n>> \in rows' /\ <<i, n>> \notin rows => i \in Posts /\ chat[i] = CopyOf(n)
    BY <1>2 DEF CommitRelay
  <1> QED
    BY <1>4, <1>5, <1>6, <1>7, ChatStepKeeps DEF CommitRelay, user, ofAdmins, Posts

LEMMA FailRelayKeeps ==
    ASSUME IInv, NEW m \in Messages, FailRelay(m)
    PROVE  IInv'
  <1>1. TypeOK
    BY DEF IInv
  <1>2. relay' \in [Messages -> RelayTask] /\ relay'[m].pc = "over"
    BY <1>1 DEF FailRelay, TypeOK, RelayTask
  <1>3. TypeOK'
    BY <1>1, <1>2 DEF FailRelay, TypeOK, user, ofAdmins
  <1>4. RelayKnowsCopy(m)'
    BY <1>2 DEF RelayKnowsCopy
  <1>5. \A n \in Messages \ {m} : relay'[n] = relay[n]
    BY <1>1 DEF FailRelay, TypeOK
  <1> QED
    BY <1>3, <1>4, <1>5, ChatStepKeeps DEF FailRelay, user, ofAdmins, Posts

-----------------------------------------------------------------------------
(* Replies and reactions.                                                   *)

\* A step of one handler of a reply or a reaction.
LEMMA TaskStepKeeps ==
    ASSUME IInv, TypeOK', UNCHANGED <<chat, rows, relay>>, inbox \subseteq inbox',
           NEW x \in Replies \cup Reactions, TaskKnowsPost(x)', RecordedArrived(x)',
           \A y \in (Replies \cup Reactions) \ {x} : task'[y] = task[y],
           task'[x].pc # "new",
           task[x].pc # "new" => task'[x].post = task[x].post,
           \A m \in Messages :
              face'[m] = face[m] \/ (face'[m] = x /\ chat[task'[x].post] = CopyOf(m))
    PROVE  IInv'
  <1>1. RowsAreCopies' /\ \A m \in Messages : RelayKnowsCopy(m)'
    BY DEF IInv, RowsAreCopies, RelayKnowsCopy, Posts
  <1>2. ASSUME NEW y \in Replies \cup Reactions, y # x
        PROVE  TaskKnowsPost(y)' /\ RecordedArrived(y)'
    <2>1. task'[y] = task[y] /\ TaskKnowsPost(y) /\ RecordedArrived(y)
      BY <1>2 DEF IInv
    <2> QED
      BY <2>1 DEF TaskKnowsPost, RecordedArrived, Posts
  <1>3. ASSUME NEW m \in Messages PROVE FaceIsMirrored(m)'
    <2>1. CASE face'[m] = x /\ chat[task'[x].post] = CopyOf(m)
      BY <2>1 DEF FaceIsMirrored
    <2>2. CASE face'[m] = face[m] /\ face[m] # None
      <3>1. face[m] \in Replies \cup Reactions /\ FaceIsMirrored(m)
        BY <2>2 DEF IInv, TypeOK
      <3> QED
        BY <2>2, <3>1 DEF FaceIsMirrored
    <2>3. CASE face'[m] = face[m] /\ face[m] = None
      BY <2>3 DEF FaceIsMirrored
    <2> QED
      BY <2>1, <2>2, <2>3
  <1> QED
    BY <1>1, <1>2, <1>3 DEF IInv

\* What is known of a handler that sends: the message is the one its post is a copy of.
LEMMA SendingFacts ==
    ASSUME IInv, NEW x \in Replies \cup Reactions, Sending(x)
    PROVE  /\ task[x] \in Task /\ task[x].post \in Posts
           /\ task[x].msg \in Messages /\ chat[task[x].post] = CopyOf(task[x].msg)
           /\ task[x].verdict = "none"
           /\ Author[task[x].msg] \in Users
  BY RelayAssumption DEF IInv, Sending, TypeOK, TaskKnowsPost

\* What an arriving call changes.
LEMMA ArrivesFacts ==
    ASSUME IInv, NEW x \in Replies \cup Reactions, Sending(x), Arrives(x)
    PROVE  /\ inbox' \subseteq Replies \X Users /\ inbox \subseteq inbox'
           /\ face' \in [Messages -> Reactions \cup {None}]
           /\ \A m \in Messages :
                 face'[m] = face[m] \/ (face'[m] = x /\ chat[task[x].post] = CopyOf(m))
           /\ x \in Replies => <<x, Author[task[x].msg]>> \in inbox' /\ face' = face
           /\ x \in Reactions => inbox' = inbox
  <1>1. task[x].msg \in Messages /\ chat[task[x].post] = CopyOf(task[x].msg)
        /\ Author[task[x].msg] \in Users
    BY SendingFacts
  <1>2. inbox \subseteq Replies \X Users /\ face \in [Messages -> Reactions \cup {None}]
    BY DEF IInv, TypeOK
  <1>3. Replies \cap Reactions = {}
    BY RelayAssumption
  <1>4. CASE x \in Replies
    <2>1. inbox' = inbox \cup {<<x, Author[task[x].msg]>>} /\ face' = face
      BY <1>3, <1>4 DEF Arrives
    <2>2. <<x, Author[task[x].msg]>> \in Replies \X Users /\ x \notin Reactions
      BY <1>1, <1>3, <1>4
    <2> QED
      BY <1>2, <1>4, <2>1, <2>2
  <1>5. CASE x \in Reactions
    <2>1. face' = [face EXCEPT ![task[x].msg] = x] /\ inbox' = inbox /\ x \notin Replies
      BY <1>3, <1>5 DEF Arrives
    <2>2. face' \in [Messages -> Reactions \cup {None}]
      BY <1>1, <1>2, <1>5, <2>1
    <2>3. \A m \in Messages :
             face'[m] = face[m] \/ (face'[m] = x /\ chat[task[x].post] = CopyOf(m))
      BY <1>1, <1>2, <2>1
    <2> QED
      BY <1>2, <1>5, <2>1, <2>2, <2>3
  <1> QED
    BY <1>4, <1>5

LEMMA CallReturnsKeeps ==
    ASSUME IInv, NEW x \in Replies \cup Reactions, CallReturns(x)
    PROVE  IInv'
  <1>1. Sending(x) /\ Arrives(x) /\ TypeOK
    BY DEF CallReturns, IInv
  <1>2. /\ task[x] \in Task /\ task[x].post \in Posts
        /\ task[x].msg \in Messages /\ chat[task[x].post] = CopyOf(task[x].msg)
        /\ task[x].verdict = "none"
    BY <1>1, SendingFacts
  <1>3. task' \in [Replies \cup Reactions -> Task]
    <2> DEFINE r == [task[x] EXCEPT !.pc = "record"]
               o == [task[x] EXCEPT !.pc = "over", !.verdict = "sent"]
    <2>1. r \in Task /\ o \in Task
      BY <1>2 DEF Task, Verdict
    <2>2. task' = [task EXCEPT ![x] = r] \/ task' = [task EXCEPT ![x] = o]
      BY DEF CallReturns
    <2> QED
      BY <1>1, <2>1, <2>2 DEF TypeOK
  <1>4. TypeOK'
    BY <1>1, <1>3, ArrivesFacts DEF CallReturns, TypeOK, ofAdmins
  <1>5. /\ task'[x].post = task[x].post /\ task'[x].msg = task[x].msg
        /\ \A y \in (Replies \cup Reactions) \ {x} : task'[y] = task[y]
        /\ \/ /\ x \in Replies /\ task'[x].pc = "record" /\ task'[x].verdict = "none"
           \/ /\ x \in Reactions /\ task'[x].pc = "over"
    BY <1>1, <1>2 DEF CallReturns, TypeOK, Task
  <1>6. TaskKnowsPost(x)' /\ RecordedArrived(x)'
    BY <1>1, <1>2, <1>5, ArrivesFacts DEF CallReturns, TaskKnowsPost, RecordedArrived, Posts
  <1>7. /\ UNCHANGED <<chat, rows, relay>> /\ inbox \subseteq inbox'
        /\ \A m \in Messages :
              face'[m] = face[m] \/ (face'[m] = x /\ chat[task'[x].post] = CopyOf(m))
    <2>1. /\ inbox \subseteq inbox'
          /\ \A m \in Messages :
                face'[m] = face[m] \/ (face'[m] = x /\ chat[task[x].post] = CopyOf(m))
      BY <1>1, ArrivesFacts
    <2>2. UNCHANGED <<chat, rows, relay>>
      BY DEF CallReturns
    <2> QED
      BY <1>5, <2>1, <2>2
  <1> QED
    BY <1>4, <1>5, <1>6, <1>7, TaskStepKeeps

LEMMA NetworkErrorKeeps ==
    ASSUME IInv, NEW x \in Replies \cup Reactions, NetworkError(x)
    PROVE  IInv'
  <1>1. Sending(x) /\ TypeOK /\ Attempts \in Nat
    BY RelayAssumption DEF NetworkError, IInv
  <1>2. /\ task[x] \in Task /\ task[x].post \in Posts
        /\ task[x].msg \in Messages /\ chat[task[x].post] = CopyOf(task[x].msg)
        /\ task[x].verdict = "none"
    BY <1>1, SendingFacts
  <1>3. /\ inbox' \subseteq Replies \X Users /\ inbox \subseteq inbox'
        /\ face' \in [Messages -> Reactions \cup {None}]
        /\ \A m \in Messages :
              face'[m] = face[m] \/ (face'[m] = x /\ chat[task[x].post] = CopyOf(m))
    <2>1. CASE Arrives(x)
      BY <1>1, <2>1, ArrivesFacts
    <2>2. CASE UNCHANGED user
      <3>1. inbox' = inbox /\ face' = face
        BY <2>2 DEF user
      <3> QED
        BY <1>1, <3>1 DEF TypeOK
    <2> QED
      BY <2>1, <2>2 DEF NetworkError
  <1>4. task[x].tries \in 0 .. Attempts - 1
    BY <1>2 DEF Task
  <1>5. task' \in [Replies \cup Reactions -> Task]
    <2> DEFINE a == [task[x] EXCEPT !.pc = "send", !.tries = @ + 1]
               o == [task[x] EXCEPT !.pc = "over", !.verdict = "undelivered"]
    <2>1. o \in Task
      BY <1>2 DEF Task, Verdict
    <2>2. task[x].tries + 1 < Attempts => a \in Task
      <3>1. task[x].tries + 1 < Attempts => task[x].tries + 1 \in 0 .. Attempts - 1
        BY <1>1, <1>4
      <3>2. task[x].tries + 1 \in 0 .. Attempts - 1 => a \in Task
        BY <1>2 DEF Task
      <3> QED
        BY <3>1, <3>2
    <2>3. \/ task' = [task EXCEPT ![x] = o]
          \/ task[x].tries + 1 < Attempts /\ task' = [task EXCEPT ![x] = a]
      BY DEF NetworkError, GivesUp
    <2> QED
      BY <1>1, <2>1, <2>2, <2>3 DEF TypeOK
  <1>6. TypeOK'
    BY <1>1, <1>3, <1>5 DEF NetworkError, TypeOK, ofAdmins
  <1>7. /\ task'[x].post = task[x].post /\ task'[x].msg = task[x].msg
        /\ \A y \in (Replies \cup Reactions) \ {x} : task'[y] = task[y]
        /\ \/ task'[x].pc = "send" /\ task'[x].verdict = "none"
           \/ task'[x].pc = "over"
    BY <1>1, <1>2 DEF NetworkError, GivesUp, TypeOK, Task
  <1>8. TaskKnowsPost(x)' /\ RecordedArrived(x)'
    BY <1>2, <1>7 DEF NetworkError, TaskKnowsPost, RecordedArrived, Posts
  <1> QED
    BY <1>3, <1>6, <1>7, <1>8, TaskStepKeeps DEF NetworkError

\* A step of a handler that changes nothing but where it is and what the admin is told.
LEMMA MoveKeeps ==
    ASSUME IInv, NEW x \in Replies \cup Reactions, task[x].pc # "new",
           NEW pc \in {"resend", "commit", "over"}, NEW v \in Verdict,
           task' = [task EXCEPT ![x] = [@ EXCEPT !.pc = pc, !.verdict = v]],
           pc = "resend" => Sending(x) /\ v = "none",
           pc = "commit" => task[x].pc = "record" /\ v = "sent",
           UNCHANGED <<chat, rows, inbox, face, relay, waiting>>,
           history' \subseteq Replies
    PROVE  IInv'
  <1>1. TypeOK /\ task[x] \in Task /\ TaskKnowsPost(x) /\ RecordedArrived(x)
    BY DEF IInv, TypeOK
  <1>2. task' \in [Replies \cup Reactions -> Task]
    BY <1>1 DEF TypeOK, Task
  <1>3. TypeOK'
    BY <1>1, <1>2 DEF TypeOK
  <1>4. /\ task'[x].pc = pc /\ task'[x].verdict = v
        /\ task'[x].post = task[x].post /\ task'[x].msg = task[x].msg
        /\ \A y \in (Replies \cup Reactions) \ {x} : task'[y] = task[y]
    BY <1>1 DEF TypeOK, Task
  <1>5. TaskKnowsPost(x)'
    BY <1>1, <1>4 DEF TaskKnowsPost, Posts, Sending
  <1>6. RecordedArrived(x)'
    BY <1>1, <1>4 DEF RecordedArrived
  <1>7. UNCHANGED <<chat, rows, relay>> /\ inbox' = inbox /\ face' = face
    OBVIOUS
  <1> QED
    BY <1>3, <1>4, <1>5, <1>6, <1>7, TaskStepKeeps

\* The handler that begins has found the message its post is a copy of, or none.
LEMMA BeginKeeps ==
    ASSUME IInv, NEW x \in Replies \cup Reactions, NEW i \in Posts,
           NEW m \in Messages \cup {None}, NEW pc \in {"send", "over"}, NEW v \in Verdict,
           Begin(x, i, m, pc, v),
           pc = "send" => m \in Found(i) /\ v = "none",
           UNCHANGED <<chat, rows, user, history, relay>>, waiting' \subseteq Admins
    PROVE  IInv'
  <1>1. TypeOK /\ task[x] \in Task /\ i \in Nat
    BY DEF IInv, TypeOK, Posts
  <1>2. task' \in [Replies \cup Reactions -> Task]
    BY <1>1 DEF Begin, TypeOK, Task
  <1>3. TypeOK'
    BY <1>1, <1>2 DEF TypeOK, user
  <1>4. /\ task[x].pc = "new"
        /\ task'[x].pc = pc /\ task'[x].post = i /\ task'[x].msg = m /\ task'[x].verdict = v
        /\ \A y \in (Replies \cup Reactions) \ {x} : task'[y] = task[y]
    BY <1>1 DEF Begin, TypeOK, Task
  <1>5. pc = "send" => m \in Messages /\ chat[i] = CopyOf(m)
    BY <1>1 DEF Found, IInv, RowsAreCopies
  <1>6. TaskKnowsPost(x)' /\ RecordedArrived(x)'
    BY <1>4, <1>5 DEF TaskKnowsPost, RecordedArrived, Posts
  <1>7. UNCHANGED <<chat, rows, relay>> /\ inbox' = inbox /\ face' = face
    BY DEF user
  <1> QED
    BY <1>3, <1>4, <1>6, <1>7, TaskStepKeeps

\* Every step of a reply or a reaction.
LEMMA SendKeeps ==
    ASSUME IInv, NEW x \in Replies \cup Reactions, Send(x) \/ FailTask(x)
    PROVE  IInv'
  <1>1. TypeOK /\ task[x] \in Task /\ TaskKnowsPost(x)
    BY DEF IInv, TypeOK
  <1>2. CASE FloodControl(x)
    <2>1. Sending(x) /\ task[x].verdict = "none" /\ task[x].pc # "new"
      BY <1>1, <1>2 DEF FloodControl, Sending, TaskKnowsPost
    <2>2. task' = [task EXCEPT ![x] = [@ EXCEPT !.pc = "resend", !.verdict = "none"]]
      BY <1>1, <1>2, <2>1 DEF FloodControl, Task, TypeOK
    <2> QED
      BY <1>1, <1>2, <2>1, <2>2, MoveKeeps DEF FloodControl, user, ofAdmins, Verdict, TypeOK
  <1>3. CASE Refused(x)
    <2>1. task' = [task EXCEPT ![x] = [@ EXCEPT !.pc = "over", !.verdict = "undelivered"]]
      BY <1>3 DEF Refused, GivesUp
    <2> QED
      BY <1>1, <1>3, <2>1, MoveKeeps DEF Refused, Sending, user, ofAdmins, Verdict, TypeOK
  <1>4. CASE FailTask(x)
    <2>1. task' = [task EXCEPT ![x] = [@ EXCEPT !.pc = "over", !.verdict = task[x].verdict]]
      BY <1>1, <1>4 DEF FailTask, Task, TypeOK
    <2>2. task[x].verdict \in Verdict
      BY <1>1 DEF Task
    <2> QED
      BY <1>1, <1>4, <2>1, <2>2, MoveKeeps DEF FailTask, user, ofAdmins, TypeOK
  <1> QED
    BY <1>2, <1>3, <1>4, CallReturnsKeeps, NetworkErrorKeeps DEF Send

LEMMA ReplyKeeps ==
    ASSUME IInv, NEW x \in Replies, Reply(x)
    PROVE  IInv'
  <1>1. TypeOK /\ task[x] \in Task /\ x \in Replies \cup Reactions
    BY DEF IInv, TypeOK
  <1>2. ASSUME NEW i \in Posts, ReplyToTicket(x, i) PROVE IInv'
    <2>1. PICK m \in Found(i) : Begin(x, i, m, "send", "none")
      BY <1>2 DEF ReplyToTicket
    <2>2. m \in Messages
      BY DEF Found
    <2> QED
      BY <1>1, <1>2, <2>1, <2>2, BeginKeeps DEF ReplyToTicket, ofAdmins, Verdict, TypeOK
  <1>3. ASSUME NEW i \in Posts, NEW a \in Admins,
               ReplyToFlow(x, a, i) \/ ReplyToUnknown(x, a, i)
        PROVE  IInv'
    <2>1. PICK v \in {"input", "unknown"} : Begin(x, i, None, "over", v)
      BY <1>3 DEF ReplyToFlow, ReplyToUnknown
    <2>2. waiting' \subseteq Admins /\ UNCHANGED <<chat, rows, user, history, relay>>
      BY <1>1, <1>3 DEF ReplyToFlow, ReplyToUnknown, ofAdmins, TypeOK
    <2> QED
      BY <1>1, <2>1, <2>2, BeginKeeps DEF Verdict
  <1>4. CASE TellSent(x)
    <2>1. task' = [task EXCEPT ![x] = [@ EXCEPT !.pc = "commit", !.verdict = "sent"]]
      BY <1>4 DEF TellSent
    <2> QED
      BY <1>1, <1>4, <2>1, MoveKeeps DEF TellSent, user, ofAdmins, Verdict, TypeOK
  <1>5. CASE CommitReply(x)
    <2>1. task[x].verdict \in Verdict
      BY <1>1 DEF Task
    <2>2. task' = [task EXCEPT ![x] = [@ EXCEPT !.pc = "over", !.verdict = task[x].verdict]]
      BY <1>1, <1>5 DEF CommitReply, Task, TypeOK
    <2> QED
      BY <1>1, <1>5, <2>1, <2>2, MoveKeeps DEF CommitReply, user, TypeOK
  <1> QED
    BY <1>2, <1>3, <1>4, <1>5 DEF Reply, Posts

LEMMA ReactKeeps ==
    ASSUME IInv, NEW x \in Reactions, NEW i \in Posts, React(x, i)
    PROVE  IInv'
  <1>1. TypeOK /\ x \in Replies \cup Reactions
    BY DEF IInv
  <1>2. waiting' \subseteq Admins /\ UNCHANGED <<chat, rows, user, history, relay>>
    BY <1>1 DEF React, ofAdmins, TypeOK
  <1>3. ASSUME NEW m \in Found(i), Begin(x, i, m, "send", "none") PROVE IInv'
    <2>1. m \in Messages
      BY DEF Found
    <2> QED
      BY <1>1, <1>2, <1>3, <2>1, BeginKeeps DEF Verdict
  <1>4. CASE Begin(x, i, None, "over", "none")
    BY <1>1, <1>2, <1>4, BeginKeeps DEF Verdict
  <1> QED
    BY <1>3, <1>4 DEF React

\* The flows of the admins touch nothing else.
LEMMA StayKeeps ==
    ASSUME IInv, UNCHANGED <<chat, rows, inbox, face, history, relay, task>>,
           waiting' \subseteq Admins
    PROVE  IInv'
  BY DEF IInv, TypeOK, RowsAreCopies, RelayKnowsCopy, FaceIsMirrored, TaskKnowsPost,
     RecordedArrived, Posts

LEMMA FlowKeeps ==
    ASSUME IInv, NEW a \in Admins, FlowWaits(a) \/ CancelFlow(a)
    PROVE  IInv'
  <1>1. waiting \subseteq Admins
    BY DEF IInv, TypeOK
  <1> QED
    BY <1>1, StayKeeps DEF FlowWaits, CancelFlow, user

LEMMA InitInv == Init => IInv
  <1> SUFFICES ASSUME Init PROVE IInv
    OBVIOUS
  <1>1. TypeOK
    BY RelayAssumption DEF Init, TypeOK, RelayTask, Task, Verdict
  <1>2. RowsAreCopies
    BY DEF Init, RowsAreCopies
  <1>3. \A m \in Messages : RelayKnowsCopy(m) /\ FaceIsMirrored(m)
    BY DEF Init, RelayKnowsCopy, FaceIsMirrored
  <1>4. \A x \in Replies \cup Reactions : TaskKnowsPost(x) /\ RecordedArrived(x)
    BY DEF Init, TaskKnowsPost, RecordedArrived
  <1> QED
    BY <1>1, <1>2, <1>3, <1>4 DEF IInv

LEMMA NextInv == IInv /\ [Next]_vars => IInv'
  <1> SUFFICES ASSUME IInv, [Next]_vars PROVE IInv'
    OBVIOUS
  <1>1. CASE UNCHANGED vars
    BY <1>1, StayKeeps DEF vars, IInv, TypeOK
  <1>2. ASSUME NEW m \in Messages, RelayStep(m) PROVE IInv'
    BY <1>2, PostHeaderKeeps, PostCopyKeeps, CommitRelayKeeps, FailRelayKeeps DEF RelayStep
  <1>3. ASSUME NEW a \in Admins, FlowWaits(a) \/ CancelFlow(a) PROVE IInv'
    BY <1>3, FlowKeeps
  <1>4. ASSUME NEW x \in Replies, Reply(x) PROVE IInv'
    BY <1>4, ReplyKeeps
  <1>5. ASSUME NEW x \in Reactions, NEW i \in Posts, React(x, i) PROVE IInv'
    BY <1>5, ReactKeeps
  <1>6. ASSUME NEW x \in Replies \cup Reactions, Send(x) \/ FailTask(x) PROVE IInv'
    BY <1>6, SendKeeps
  <1> QED
    BY <1>1, <1>2, <1>3, <1>4, <1>5, <1>6 DEF Next, Posts

-----------------------------------------------------------------------------
(* The theorems.                                                            *)

\* The inductive invariant: rows name copies, and handlers know their post.
THEOREM Invariance == Spec => []IInv
  BY InitInv, NextInv, PTL DEF Spec

\* The chats, the rows and the handlers are well typed.
THEOREM TypeCorrect == Spec => []TypeOK
  <1>1. IInv => TypeOK
    BY DEF IInv
  <1> QED
    BY <1>1, Invariance, PTL

\* A reaction is shown only on the message whose copy it was put on.
THEOREM ReactionsAreMirrored == Spec => []ReactionsMirrorCopies
  <1>1. IInv => ReactionsMirrorCopies
    BY DEF IInv, FaceIsMirrored, ReactionsMirrorCopies
  <1> QED
    BY <1>1, Invariance, PTL

-----------------------------------------------------------------------------
(* Replies implement ReplyChannel.                                          *)

LEMMA ChannelInit == Init => Channel!Init
  BY DEF Init, Channel!Init, Answered

\* What a handler that sends answers is the message it has found.
LEMMA AnsweredIsFound ==
    ASSUME IInv, NEW r \in Replies, task[r].pc \in {"send", "resend", "record", "commit"}
    PROVE  Answered(r) = task[r].msg /\ task[r].msg \in Messages /\ Answered(r) # None
  <1>1. /\ task[r].post \in Posts /\ task[r].msg \in Messages
        /\ chat[task[r].post] = CopyOf(task[r].msg)
    BY DEF IInv, TaskKnowsPost
  <1>2. task[r].post # 0
    BY <1>1 DEF Posts
  <1> QED
    BY <1>1, <1>2, PostType, RelayAssumption DEF Answered

\* A step in which no post is lost and no reply begins leaves what they answer.
LEMMA AnswersStay ==
    ASSUME IInv, NEW r \in Replies,
           \A i \in Posts : chat'[i] = chat[i],
           task'[r].post = task[r].post
    PROVE  Answered(r)' = Answered(r)
  <1>1. task[r].post = 0 \/ task[r].post \in Posts
    BY DEF IInv, TaskKnowsPost
  <1> QED
    BY <1>1 DEF Answered

\* A step that changes nothing the channel sees.
LEMMA Stutter ==
    ASSUME IInv, \A i \in Posts : chat'[i] = chat[i],
           \A r \in Replies : /\ task'[r].post = task[r].post
                               /\ task'[r].verdict = task[r].verdict,
           inbox' = inbox, history' = history
    PROVE  UNCHANGED Channel!vars
  <1>1. \A r \in Replies : Answered(r)' = Answered(r)
    BY AnswersStay
  <1> QED
    BY <1>1 DEF Channel!vars

\* A reply begins: it is on its way, or turned down, or taken for something else.
LEMMA BeginMaps ==
    ASSUME IInv, NEW r \in Replies, NEW i \in Posts, NEW m, NEW pc,
           NEW v \in {"none", "unknown", "input"}, Begin(r, i, m, pc, v),
           UNCHANGED <<chat, inbox, history>>
    PROVE  Channel!Next
  <1> DEFINE n == IF chat[i].kind = "copy" THEN chat[i].msg ELSE None
  <1>1. /\ task \in [Replies \cup Reactions -> Task] /\ chat[i] \in Post
        /\ task[r].post = 0 /\ task[r].verdict = "none"
    BY DEF IInv, TypeOK, TaskKnowsPost, Begin, Posts
  <1>2. /\ task'[r].post = i /\ task'[r].verdict = v
        /\ \A q \in Replies \ {r} : task'[q] = task[q]
    BY <1>1 DEF Begin, Task
  <1>3. n \in Messages \cup {None}
    BY <1>1 DEF Post
  <1>4. Answered(r) = None /\ Answered(r)' = n
    BY <1>1, <1>2 DEF Answered, Posts
  <1>5. \A q \in Replies \ {r} : Answered(q)' = Answered(q)
    BY <1>2, AnswersStay
  <1>6. Channel!Reply(r, n, v)
    BY <1>1, <1>2, <1>4, <1>5 DEF Channel!Reply
  <1> QED
    BY <1>3, <1>6 DEF Channel!Next

\* A call that arrives, whatever the handler hears of it.
LEMMA ArrivalMaps ==
    ASSUME IInv, NEW r \in Replies, Sending(r), Arrives(r), UNCHANGED <<chat, history>>,
           \A q \in Replies \ {r} : task'[q] = task[q],
           task'[r].post = task[r].post,
           task'[r].verdict \in {"none", "undelivered"}
    PROVE  Channel!Next
  <1>1. task[r].verdict = "none"
    BY SendingFacts
  <1>2. Answered(r) = task[r].msg /\ Answered(r) # None
    BY AnsweredIsFound DEF Sending
  <1>3. \A q \in Replies : Answered(q)' = Answered(q)
    BY AnswersStay
  <1>4. inbox' = inbox \cup {<<r, Author[Answered(r)]>>}
    BY <1>2, RelayAssumption DEF Arrives
  <1>5. Channel!Deliver(r)
    BY <1>1, <1>2, <1>3, <1>4 DEF Channel!Deliver
  <1> QED
    BY <1>5 DEF Channel!Next

\* A handler that gives up without a call that arrived.
LEMMA GivingUpMaps ==
    ASSUME IInv, NEW r \in Replies, Sending(r), GivesUp(r), UNCHANGED <<chat, inbox, history>>
    PROVE  Channel!Next
  <1>1. task[r].verdict = "none" /\ task \in [Replies \cup Reactions -> Task]
    BY SendingFacts DEF IInv, TypeOK
  <1>2. Answered(r) # None
    BY AnsweredIsFound DEF Sending
  <1>3. /\ task'[r].post = task[r].post /\ task'[r].verdict = "undelivered"
        /\ \A q \in Replies \ {r} : task'[q] = task[q]
    BY <1>1 DEF GivesUp, Task
  <1>4. \A q \in Replies : Answered(q)' = Answered(q)
    BY <1>3, AnswersStay
  <1>5. Channel!TellUndelivered(r)
    BY <1>1, <1>2, <1>3, <1>4 DEF Channel!TellUndelivered
  <1> QED
    BY <1>5 DEF Channel!Next

LEMMA TellSentMaps ==
    ASSUME IInv, NEW r \in Replies, TellSent(r)
    PROVE  Channel!Next
  <1>1. /\ task \in [Replies \cup Reactions -> Task] /\ task[r].verdict = "none"
        /\ <<r, Author[task[r].msg]>> \in inbox
    BY DEF IInv, TypeOK, TaskKnowsPost, RecordedArrived, TellSent
  <1>2. Answered(r) = task[r].msg /\ Answered(r) # None
    BY AnsweredIsFound DEF TellSent
  <1>3. /\ task'[r].post = task[r].post /\ task'[r].verdict = "sent"
        /\ \A q \in Replies \ {r} : task'[q] = task[q]
    BY <1>1 DEF TellSent, Task
  <1>4. UNCHANGED <<chat, inbox, history>>
    BY DEF TellSent, user, ofAdmins
  <1>5. \A q \in Replies : Answered(q)' = Answered(q)
    BY <1>3, <1>4, AnswersStay
  <1>6. Channel!TellSent(r)
    BY <1>1, <1>2, <1>3, <1>4, <1>5 DEF Channel!TellSent
  <1> QED
    BY <1>6 DEF Channel!Next

LEMMA CommitReplyMaps ==
    ASSUME IInv, NEW r \in Replies, CommitReply(r)
    PROVE  Channel!Next
  <1>1. task \in [Replies \cup Reactions -> Task] /\ task[r].verdict = "sent"
    BY DEF IInv, TypeOK, TaskKnowsPost, CommitReply
  <1>2. \A q \in Replies : task'[q].post = task[q].post /\ task'[q].verdict = task[q].verdict
    BY <1>1 DEF CommitReply, Task
  <1>3. UNCHANGED <<chat, inbox>> /\ history' = history \cup {r}
    BY DEF CommitReply, user
  <1>4. \A q \in Replies : Answered(q)' = Answered(q)
    BY <1>2, <1>3, AnswersStay
  <1>5. Channel!Record(r)
    BY <1>1, <1>2, <1>3, <1>4 DEF Channel!Record
  <1> QED
    BY <1>5 DEF Channel!Next

\* A step of a reaction's handler is none of the channel.
LEMMA ReactionStutters ==
    ASSUME IInv, NEW x \in Reactions, UNCHANGED <<chat, inbox, history>>,
           \A y \in (Replies \cup Reactions) \ {x} : task'[y] = task[y]
    PROVE  UNCHANGED Channel!vars
  <1>1. \A r \in Replies : r # x
    BY RelayAssumption
  <1> QED
    BY <1>1, Stutter

LEMMA SendMaps ==
    ASSUME IInv, NEW x \in Replies \cup Reactions, Send(x) \/ FailTask(x)
    PROVE  Channel!Next \/ UNCHANGED Channel!vars
  <1>1. task \in [Replies \cup Reactions -> Task]
    BY DEF IInv, TypeOK
  <1>2. /\ UNCHANGED <<chat, history>>
        /\ \A y \in (Replies \cup Reactions) \ {x} : task'[y] = task[y]
        /\ task'[x].post = task[x].post
    BY <1>1 DEF Send, CallReturns, NetworkError, FloodControl, Refused, FailTask, GivesUp,
       ofAdmins, Task
  <1>3. CASE x \in Reactions
    <2>1. inbox' = inbox
      BY <1>3, RelayAssumption DEF Send, CallReturns, NetworkError, FloodControl, Refused,
         FailTask, Arrives, user
    <2> QED
      BY <1>2, <1>3, <2>1, ReactionStutters
  <1>4. CASE x \in Replies
    <2>1. CASE CallReturns(x)
      <3>1. task'[x].verdict = "none" /\ Sending(x) /\ Arrives(x)
        BY <1>1, <1>4, <2>1, SendingFacts, RelayAssumption DEF CallReturns, Task
      <3> QED
        BY <1>2, <1>4, <3>1, ArrivalMaps
    <2>2. CASE NetworkError(x)
      <3>1. Sending(x) /\ task[x].verdict = "none"
        BY <2>2, SendingFacts DEF NetworkError
      <3>2. \/ task'[x].verdict = "undelivered" /\ GivesUp(x)
            \/ task'[x].verdict = "none"
        BY <1>1, <2>2, <3>1 DEF NetworkError, GivesUp, Task
      <3>3. CASE Arrives(x)
        BY <1>2, <1>4, <3>1, <3>2, <3>3, ArrivalMaps
      <3>4. CASE UNCHANGED user /\ GivesUp(x)
        BY <1>2, <1>4, <3>1, <3>4, GivingUpMaps DEF user
      <3>5. CASE UNCHANGED user /\ task'[x].verdict = "none"
        <4>1. inbox' = inbox
          BY <3>5 DEF user
        <4>2. \A r \in Replies : task'[r].post = task[r].post /\ task'[r].verdict = task[r].verdict
          BY <1>2, <3>1, <3>5
        <4> QED
          BY <1>2, <4>1, <4>2, Stutter
      <3> QED
        BY <2>2, <3>2, <3>3, <3>4, <3>5 DEF NetworkError
    <2>3. CASE Refused(x)
      BY <1>2, <1>4, <2>3, GivingUpMaps DEF Refused, user
    <2>4. CASE FloodControl(x) \/ FailTask(x)
      <3>1. inbox' = inbox
        BY <2>4 DEF FloodControl, FailTask, user
      <3>2. \A r \in Replies : task'[r].post = task[r].post /\ task'[r].verdict = task[r].verdict
        BY <1>1, <1>2, <2>4 DEF FloodControl, FailTask, Task
      <3> QED
        BY <1>2, <3>1, <3>2, Stutter
    <2> QED
      BY <2>1, <2>2, <2>3, <2>4 DEF Send
  <1> QED
    BY <1>3, <1>4

LEMMA ReplyMaps ==
    ASSUME IInv, NEW r \in Replies, Reply(r)
    PROVE  Channel!Next
  <1>1. ASSUME NEW i \in Posts, ReplyToTicket(r, i) PROVE Channel!Next
    BY <1>1, BeginMaps DEF ReplyToTicket, user, ofAdmins
  <1>2. ASSUME NEW i \in Posts, NEW a \in Admins,
               ReplyToFlow(r, a, i) \/ ReplyToUnknown(r, a, i)
        PROVE  Channel!Next
    BY <1>2, BeginMaps DEF ReplyToFlow, ReplyToUnknown, user, ofAdmins
  <1> QED
    BY <1>1, <1>2, TellSentMaps, CommitReplyMaps DEF Reply, Posts

LEMMA ChannelNext ==
    IInv /\ [Next]_vars => [Channel!Next]_(Channel!vars)
  <1> SUFFICES ASSUME IInv, [Next]_vars
               PROVE  Channel!Next \/ UNCHANGED Channel!vars
    OBVIOUS
  <1>1. CASE UNCHANGED vars
    BY <1>1, Stutter DEF vars
  <1>2. ASSUME NEW m \in Messages, RelayStep(m) PROVE UNCHANGED Channel!vars
    <2>1. \A i \in Posts : chat'[i] = chat[i]
      BY <1>2, PostType, AppendKeepsPosts
         DEF RelayStep, PostHeader, PostCopy, CommitRelay, FailRelay, IInv, TypeOK
    <2>2. UNCHANGED <<task, inbox, history>>
      BY <1>2 DEF RelayStep, PostHeader, PostCopy, CommitRelay, FailRelay, user, ofAdmins
    <2> QED
      BY <2>1, <2>2, Stutter
  <1>3. ASSUME NEW a \in Admins, FlowWaits(a) \/ CancelFlow(a) PROVE UNCHANGED Channel!vars
    BY <1>3, Stutter DEF FlowWaits, CancelFlow, user
  <1>4. ASSUME NEW x \in Reactions, NEW i \in Posts, React(x, i)
        PROVE  UNCHANGED Channel!vars
    <2>1. \A y \in (Replies \cup Reactions) \ {x} : task'[y] = task[y]
      BY <1>4 DEF React, Begin, IInv, TypeOK
    <2> QED
      BY <1>4, <2>1, ReactionStutters DEF React, user, ofAdmins
  <1> QED
    BY <1>1, <1>2, <1>3, <1>4, ReplyMaps, SendMaps DEF Next, Posts

\* Replies implement ReplyChannel: a reply reaches the author of the message whose copy
\* it was put on or nobody, and "sent" and the history are true.
THEOREM RepliesImplementChannel == Spec => ImplementsChannel
  <1>1. Init => Channel!Init
    BY ChannelInit
  <1>2. IInv /\ [Next]_vars => [Channel!Next]_(Channel!vars)
    BY ChannelNext
  <1> QED
    BY <1>1, <1>2, Invariance, PTL DEF Spec, ImplementsChannel, Channel!Spec

=============================================================================
