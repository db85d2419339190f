----------------------------- MODULE SpamGuard -----------------------------
(***************************************************************************)
(* The spam guard of the relay, in Redis or in the memory of the process,  *)
(* for one user: every key has the user's id in it.  Messages of the user  *)
(* are handled by tasks that overlap: on Redis each command is an await,   *)
(* in memory a check is one step, and a restart empties it.                *)
(*                                                                         *)
(* throttle:last is left out: it is written and read, but both outcomes of *)
(* the comparison return the same.                                         *)
(***************************************************************************)
EXTENDS Naturals, FiniteSets

CONSTANTS
    Messages,   \* messages of the user, each handled once
    Texts,      \* texts and captions, by their digest
    Limit,      \* BURST_LIMIT
    Window,     \* BURST_WINDOW_SECONDS
    DupWindow,  \* DUP_WINDOW_SECONDS
    DupRoom,    \* marks kept in memory before expired ones are collected
    MaxTime,    \* bound: the clock stops here
    Nil        \* no text, no time

ASSUME SpamGuardAssumption ==
    /\ Limit \in Nat \ {0} /\ Window \in Nat /\ DupWindow \in Nat /\ DupRoom \in Nat /\ MaxTime \in Nat
    /\ Nil \notin Texts \cup Nat

VARIABLES
    redis,   \* REDIS_URL is set
    now,     \* the clock
    booted,  \* when the process was started
    count,   \* messages counted under throttle:burst, 0 if there is no key
    since,   \* start of the window: of its expiry (Redis) or of the window itself (memory);
             \* Nil if the key has no expiry
    mark,    \* when each text was last marked, Nil if it never was
    msg      \* the messages

guardVars == <<redis, now, booted, count, since, mark, msg>>

-----------------------------------------------------------------------------
Time == 0..MaxTime

\* came: when its handler began; at: when it was counted; first: it opened a window, which
\* lasts from opened on; marked: when its text was marked.
Msg == [pc: {"new", "incr", "expire", "get", "set", "over", "failed"},
        text: Texts \cup {Nil}, came: Time \cup {Nil}, at: Time \cup {Nil},
        first: BOOLEAN, opened: Time \cup {Nil}, throttled: BOOLEAN,
        dup: BOOLEAN, marked: Time \cup {Nil}]

Unseen == [pc |-> "new", text |-> Nil, came |-> Nil, at |-> Nil, first |-> FALSE,
           opened |-> Nil, throttled |-> FALSE, dup |-> FALSE, marked |-> Nil]

Counted == {m \in Messages : msg[m].at # Nil}

GuardTypeOK ==
    /\ redis \in BOOLEAN
    /\ now \in Time /\ booted \in Time
    /\ count \in 0..Cardinality(Counted)
    /\ since \in Time \cup {Nil}
    /\ mark \in [Texts -> Time \cup {Nil}]
    /\ msg \in [Messages -> Msg]

GuardInit ==
    /\ redis \in BOOLEAN
    /\ now = 0 /\ booted = 0
    /\ count = 0 /\ since = Nil
    /\ mark = [x \in Texts |-> Nil]
    /\ msg = [m \in Messages |-> Unseen]

GuardAt(m, pc) == msg[m].pc = pc

-----------------------------------------------------------------------------
(* On Redis: one step per command.                                          *)

Receive(m, x) ==
    /\ redis
    /\ GuardAt(m, "new")
    /\ msg' = [msg EXCEPT ![m].pc = "incr", ![m].text = x, ![m].came = now]
    /\ UNCHANGED <<redis, now, booted, count, since, mark>>

\* The key of the counter has expired.
BurstOver == since # Nil /\ now >= since + Window

\* Mutant: only messages with a text are throttled.
IncrTextOnly(m) ==
    LET n == IF BurstOver THEN 1 ELSE count + 1 IN
    /\ GuardAt(m, "incr")
    /\ count' = n
    /\ since' = IF BurstOver THEN Nil ELSE since
    /\ msg' = [msg EXCEPT ![m].at = now, ![m].first = (n = 1),
                          ![m].throttled = n > Limit /\ msg[m].text # Nil,
                          ![m].pc = IF n = 1 THEN "expire" ELSE "over"]
    /\ UNCHANGED <<redis, now, booted, mark>>

\* INCR; a message without text is not looked up.
Incr(m) ==
    LET n == IF BurstOver THEN 1 ELSE count + 1 IN
    /\ GuardAt(m, "incr")
    /\ count' = n
    /\ since' = IF BurstOver THEN Nil ELSE since
    /\ msg' = [msg EXCEPT ![m].at = now, ![m].first = (n = 1), ![m].throttled = n > Limit,
                          ![m].pc = CASE n = 1 -> "expire"
                                      [] n > Limit -> "over"
                                      [] OTHER -> IF msg[m].text = Nil THEN "over" ELSE "get"]
    /\ UNCHANGED <<redis, now, booted, mark>>

\* EXPIRE, by the message that INCR has told it is the first.
Expire(m) ==
    /\ GuardAt(m, "expire")
    /\ since' = now
    /\ msg' = [msg EXCEPT ![m].opened = now,
                          ![m].pc = IF msg[m].text = Nil THEN "over" ELSE "get"]
    /\ UNCHANGED <<redis, now, booted, count, mark>>

\* Mutant: a mark expires a moment early.
GetMarkEarly(m) ==
    LET x == msg[m].text IN
    /\ GuardAt(m, "get")
    /\ msg' = [msg EXCEPT ![m].pc = "set",
                          ![m].dup = mark[x] # Nil /\ now + 1 < mark[x] + DupWindow]
    /\ UNCHANGED <<redis, now, booted, count, since, mark>>

GetMark(m) ==
    LET x == msg[m].text IN
    /\ GuardAt(m, "get")
    /\ msg' = [msg EXCEPT ![m].pc = "set",
                          ![m].dup = mark[x] # Nil /\ now < mark[x] + DupWindow]
    /\ UNCHANGED <<redis, now, booted, count, since, mark>>

SetMark(m) ==
    /\ GuardAt(m, "set")
    /\ mark' = [mark EXCEPT ![msg[m].text] = now]
    /\ msg' = [msg EXCEPT ![m].pc = "over", ![m].marked = now]
    /\ UNCHANGED <<redis, now, booted, count, since>>

-----------------------------------------------------------------------------
(* In memory: nothing is awaited, both checks of a message are one step.     *)

Live(x) == mark[x] # Nil /\ now <= mark[x] + DupWindow

\* Mutant: collecting expired marks leaves no place for new ones.
GcDupForGood == [x \in {y \in Texts : Live(y)} |-> mark[x]]

\* Expired marks are collected once there are too many.
GcDup ==
    IF Cardinality({x \in Texts : mark[x] # Nil}) > DupRoom
    THEN [x \in Texts |-> IF Live(x) THEN mark[x] ELSE Nil]
    ELSE mark

\* Mutant: the window is never opened again.
RememberForGood(m, x) ==
    /\ ~redis
    /\ GuardAt(m, "new")
    /\ count' = count + 1
    /\ since' = IF count = 0 THEN now ELSE since
    /\ msg' = [msg EXCEPT ![m] =
          [pc |-> "over", text |-> x, came |-> now, at |-> now, first |-> count = 0,
           opened |-> IF count = 0 THEN now ELSE Nil, throttled |-> count >= Limit,
           dup |-> FALSE, marked |-> Nil]]
    /\ UNCHANGED <<redis, now, booted, mark>>

Remember(m, x) ==
    LET new == count = 0 \/ now > since + Window
        n == IF new THEN 1 ELSE count + 1
        checked == n <= Limit /\ x # Nil
    IN
    /\ ~redis
    /\ GuardAt(m, "new")
    /\ count' = n
    /\ since' = IF new THEN now ELSE since
    /\ mark' = IF checked THEN [GcDup EXCEPT ![x] = now] ELSE mark
    /\ msg' = [msg EXCEPT ![m] =
          [pc |-> "over", text |-> x, came |-> now, at |-> now, first |-> new,
           opened |-> IF new THEN now ELSE Nil, throttled |-> n > Limit,
           dup |-> checked /\ Live(x), marked |-> IF checked THEN now ELSE Nil]]
    /\ UNCHANGED <<redis, now, booted>>

-----------------------------------------------------------------------------
Running == {m \in Messages : msg[m].pc \notin {"new", "over", "failed"}}

\* A command fails or times out: the handler raises, and what it did not do is never done.
Fail(m) ==
    /\ m \in Running
    /\ msg' = [msg EXCEPT ![m].pc = "failed"]
    /\ UNCHANGED <<redis, now, booted, count, since, mark>>

\* The process is restarted: Redis keeps its keys, the memory is gone.
Restart ==
    /\ msg' = [m \in Messages |-> IF m \in Running THEN [msg[m] EXCEPT !.pc = "failed"] ELSE msg[m]]
    /\ booted' = now
    /\ \/ redis /\ UNCHANGED <<count, since, mark>>
       \/ ~redis /\ count' = 0 /\ since' = Nil /\ mark' = [x \in Texts |-> Nil]
    /\ UNCHANGED <<redis, now>>

GuardTick ==
    /\ now < MaxTime
    /\ now' = now + 1
    /\ UNCHANGED <<redis, booted, count, since, mark, msg>>

GuardNext ==
    \/ \E m \in Messages :
        \/ \E x \in Texts \cup {Nil} : Receive(m, x) \/ Remember(m, x)
        \/ Incr(m) \/ Expire(m) \/ GetMark(m) \/ SetMark(m) \/ Fail(m)
    \/ Restart
    \/ GuardTick

GuardSpec == GuardInit /\ [][GuardNext]_guardVars

-----------------------------------------------------------------------------
(* Properties.                                                              *)

\* A message is throttled only if Limit others came before it in a window that was opened
\* less than Window ago, or in one whose expiry was not set yet, which is for good if the
\* message that opened it failed in between.
ThrottledForAReason ==
    \A m \in Messages : msg[m].throttled =>
        \E o \in Counted :
            /\ msg[o].first
            /\ msg[o].opened = Nil \/ msg[m].at <= msg[o].opened + Window
            /\ Limit <= Cardinality({k \in Counted \ {m} : msg[o].at <= msg[k].at /\ msg[k].at <= msg[m].at})

\* The window is fixed, so up to twice the limit gets through around its edge, but never
\* more in any time that is as long as the window, however the handlers overlap.
BurstIsBounded ==
    \A a \in Time :
        Cardinality({m \in Counted : /\ ~msg[m].throttled
                                     /\ a <= msg[m].at /\ msg[m].at < a + Window
                                     /\ redis \/ msg[m].at > booted}) <= 2 * Limit

\* Of equal texts the later one is flagged, unless their handlers overlapped, the window
\* is over or the memory was lost in between.
RepeatIsFlagged ==
    \A k, m \in Messages :
        /\ msg[k].text = msg[m].text
        /\ msg[k].marked # Nil /\ msg[m].marked # Nil
        /\ msg[k].marked < msg[m].came /\ msg[m].marked < msg[k].marked + DupWindow
        /\ redis \/ msg[k].marked > booted
        => msg[m].dup

=============================================================================
