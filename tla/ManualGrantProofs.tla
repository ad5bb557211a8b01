-------------------------- MODULE ManualGrantProofs --------------------------
(***************************************************************************)
(* Theorems about manual grants, for any number of tabs, payloads, clicks, *)
(* checks and troubles, with and without timeouts.  Where a theorem needs  *)
(* one handler at a time per tab, or one tab (Separate), or a consistent   *)
(* host (Consistent), it says so.                                          *)
(***************************************************************************)
EXTENDS ManualGrant, TLAPS, FiniteSetTheorems

-----------------------------------------------------------------------------
(* The invariant *)

\* Handlers overlap in a tab, or there are several tabs, but not both.  The
\* cached version of a tab is safe to use then.
Alone == \A t, u \in Tabs : t = u
Separate == ~Concurrent \/ Alone

\* All calls that the host has served or may still serve.
Tasks == {task[t][k] : t \in Tabs, k \in Kinds}
Calls == Tasks \cup stray

\* Whoever has seen version v of the stored request with the ID id knows what
\* is stored, unless a later version has been stored since.
Knows(s, v, id) == v <= s.version /\ (v = s.version => s.id = id)

\* What the sender of a put knew of the version it expects.  A save was sent
\* when its request or none was stored, and so was a clear.
PutCurrent(c, s) ==
  /\ c.pc = "save" => c.id # None /\ (Knows(s, c.ver, None) \/ Knows(s, c.ver, c.id))
  /\ c.pc \in {"mark", "withdraw", "drop"} => Knows(s, c.ver, c.id)
  /\ c.pc = "clear" /\ Separate => Knows(s, c.ver, None) \/ Knows(s, c.ver, c.id)

\* An answer says what was stored when it was given.
AnswerCurrent(c, s) ==
  /\ c.answer.kind = "found" => Knows(s, c.answer.version, c.answer.id)
  /\ c.answer.kind = "saved" => Knows(s, c.answer.version, PutValue(c))

\* Whoever clears a request has a reason to, and whoever asks for a grant has
\* put it on record.
Justified(c, con, rev, ref, sub) ==
  /\ c.pc = "clear" => c.id \in con
  /\ c.pc \in {"again", "drop"} => c.id \in rev
  /\ c.pc \in {"retract", "withdraw"} \/ c.answer.kind = "rejected" => c.id \in ref
  /\ c.pc = "grant" => c.id \in sub
  /\ c.pc = "asking" => c.id # None

\* The IDs of closed requests.
Closed == confirmed \cup reviewed \cup refused

\* A request that is about to be granted is stored, or has been closed by
\* another tab.
SaveKept(c, s, closed) ==
  Separate /\ c.pc = "save" /\ c.answer.kind = "saved" => s.id = c.id \/ c.id \in closed

CallsGood ==
  \A c \in Calls : /\ PutCurrent(c, store) /\ AnswerCurrent(c, store)
                   /\ Justified(c, confirmed, reviewed, refused, submitted)
                   /\ SaveKept(c, store, Closed)

Busy(c) == c.pc \notin {"idle", "disabled"}

\* One handler at a time in each tab, so that the version which a tab has
\* cached while it awaits a grant is that of the request it has stored.
OneHandler ==
  ~Concurrent =>
    \A t \in Tabs :
      /\ \A j, k \in Kinds : Busy(task[t][j]) /\ Busy(task[t][k]) => j = k
      /\ \A k \in Kinds : task[t][k].pc = "grant" =>
           k = "confirm" /\ Knows(store, version[t], task[t][k].id)

\* Every submitted request is stored or closed.
SubmittedKept == Separate => \A id \in submitted : store.id = id \/ id \in Closed

\* The game gives what was asked for, and a consistent host never what it has
\* rejected.
GrantsAsked == granted \subseteq submitted /\ (Consistent => granted \cap refused = {})

Kept == TypeOK /\ CallsGood /\ OneHandler /\ SubmittedKept /\ GrantsAsked

\* The request of this handler has been stored, and its grant is not settled.
Submitting(c) == c.pc = "grant" \/ (c.pc = "save" /\ c.answer.kind = "saved")

\* Meanwhile nothing but its request can be stored: every earlier save that
\* may still arrive expects a version of the past.
Undisturbed(c, s, late) ==
  s.id \in {c.id, None} /\ \A d \in late : d.pc = "save" => d.ver < s.version

\* Only the confirm handler saves and grants.  If there is one tab only, no
\* request but the submitted one is stored until the grant is settled, so
\* that whichever version the tab has cached meanwhile is safe to clear.
OnePage ==
  /\ \A t \in Tabs, k \in Kinds : task[t][k].pc \in {"save", "grant"} => k = "confirm"
  /\ \A t \in Tabs : version[t] <= store.version
  /\ Alone => \A t \in Tabs : LET c == task[t]["confirm"]
                             IN  Submitting(c) => Undisturbed(c, store, stray)

-----------------------------------------------------------------------------
(* Lemmas about calls and their state *)

\* The stored request stays, or a later version replaces it.
Later(s, next) == next = s \/ next.version = s.version + 1

Stored == [version : Nat, id : Ids \cup {None}]

\* What somebody knows of the stored request does not become wrong.
LEMMA KnowsLater ==
  ASSUME NEW s \in Stored, NEW next \in Stored, Later(s, next),
         NEW v \in Nat, NEW id, Knows(s, v, id)
  PROVE  Knows(next, v, id)
BY DEF Later, Stored, Knows

\* Calls, and the states of a handler that awaits none, are tasks.
LEMMA TaskTypes ==
  /\ Idle \in Task /\ Disabled \in Task
  /\ Idle.pc = "idle" /\ Disabled.pc = "disabled"
  /\ Idle.answer.kind = "none" /\ Disabled.answer.kind = "none"
  /\ \A id \in Ids \cup {None} :
       /\ Asking(id) \in Task /\ Asking(id).pc = "asking" /\ Asking(id).id = id
       /\ Asking(id).answer.kind = "none"
       /\ \A pc \in Awaiting, ver \in Nat :
            /\ Call(pc, id, ver) \in Task
            /\ Call(pc, id, ver).pc = pc /\ Call(pc, id, ver).id = id
            /\ Call(pc, id, ver).ver = ver /\ Call(pc, id, ver).answer.kind = "none"
<1>1. NoAnswer \in Answer /\ NoAnswer.kind = "none"
  BY DEF NoAnswer, Answered, Answer
<1> QED BY <1>1 DEF Idle, Disabled, Asking, Call, Task

\* A call that is sent is a task that awaits its answer.
LEMMA CallTask ==
  ASSUME NEW pc \in Awaiting, NEW id \in Ids \cup {None}, NEW ver \in Nat
  PROVE  /\ Call(pc, id, ver) \in Task
         /\ Call(pc, id, ver).pc = pc /\ Call(pc, id, ver).id = id
         /\ Call(pc, id, ver).ver = ver /\ Call(pc, id, ver).answer.kind = "none"
BY TaskTypes

\* An answer changes nothing else of a task.
LEMMA AnswerTypes ==
  ASSUME NEW c \in Task, NEW a \in Answer
  PROVE  /\ [c EXCEPT !.answer = a] \in Task
         /\ [c EXCEPT !.answer = a].answer = a
         /\ [c EXCEPT !.answer = a].pc = c.pc
         /\ [c EXCEPT !.answer = a].id = c.id
         /\ [c EXCEPT !.answer = a].ver = c.ver
BY DEF Task

\* The kinds of answers that carry no stored request.
LEMMA AnsweredTypes ==
  ASSUME NEW kind \in {"ok", "uncertain", "rejected", "failed"}
  PROVE  Answered(kind) \in Answer /\ Answered(kind).kind = kind
BY DEF Answered, Answer

\* A step of one handler leaves the others as they are.
LEMMA TaskStep ==
  ASSUME TypeOK, NEW t \in Tabs, NEW k \in Kinds, NEW next \in Task, Step(t, k, next)
  PROVE  /\ task' \in [Tabs -> [Kinds -> Task]]
         /\ task'[t][k] = next
         /\ \A u \in Tabs, j \in Kinds : u # t \/ j # k => task'[u][j] = task[u][j]
BY DEF Step, TypeOK

\* An answer is a step of the handler that awaits it.
LEMMA AnswerStep ==
  ASSUME TypeOK, NEW t \in Tabs, NEW k \in Kinds, NEW a, Answers(t, k, a)
  PROVE  Step(t, k, [task[t][k] EXCEPT !.answer = a])
BY DEF Step, Answers, TypeOK

\* Tasks and stray calls have the type of calls.
LEMMA CallTypes ==
  ASSUME TypeOK
  PROVE  /\ \A c \in Calls : c \in Task
         /\ \A t \in Tabs, k \in Kinds : task[t][k] \in Task /\ task[t][k] \in Calls
         /\ store \in Stored
BY DEF TypeOK, Calls, Tasks, Stored

\* What holds of a call goes on to hold when something later is stored and
\* more is on record.
LEMMA GoodLater ==
  ASSUME NEW c \in Task, NEW s \in Stored, NEW next \in Stored, Later(s, next)
  PROVE  /\ PutCurrent(c, s) => PutCurrent(c, next)
         /\ AnswerCurrent(c, s) => AnswerCurrent(c, next)
<1>1. c.ver \in Nat /\ c.answer.version \in Nat
  BY DEF Task, Answer
<1> QED BY <1>1, KnowsLater DEF PutCurrent, AnswerCurrent

-----------------------------------------------------------------------------
(* What has to be shown of a step *)

\* The variables but for tasks, stray calls and cached versions.
RestTypes ==
  /\ store \in Stored
  /\ payloadOf \in Seq(Payloads) /\ Len(payloadOf) <= MaxClicks
  /\ granted \subseteq Ids /\ refused \subseteq Ids
  /\ confirmed \subseteq Ids /\ reviewed \subseteq Ids /\ submitted \subseteq Ids
  /\ {clicks, checks, troubles} \subseteq Nat

\* More is stored, and more is on record.
Grows ==
  /\ Later(store, store')
  /\ confirmed \subseteq confirmed' /\ reviewed \subseteq reviewed'
  /\ refused \subseteq refused' /\ submitted \subseteq submitted'

\* The calls that remain stay good, beside the new one.
LEMMA CallsAfter ==
  ASSUME Kept, RestTypes', Grows, \A c \in Calls : SaveKept(c, store', Closed'),
         \A c \in Calls' : c \in Calls \/
           /\ PutCurrent(c, store') /\ AnswerCurrent(c, store')
           /\ Justified(c, confirmed', reviewed', refused', submitted')
           /\ SaveKept(c, store', Closed')
  PROVE  CallsGood'
<1>1. \A c \in Calls :
        /\ PutCurrent(c, store') /\ AnswerCurrent(c, store')
        /\ Justified(c, confirmed', reviewed', refused', submitted')
  <2> SUFFICES ASSUME NEW c \in Calls
               PROVE  /\ PutCurrent(c, store') /\ AnswerCurrent(c, store')
                      /\ Justified(c, confirmed', reviewed', refused', submitted')
    OBVIOUS
  <2>1. c \in Task /\ store \in Stored /\ store' \in Stored
    BY CallTypes DEF Kept, RestTypes
  <2>2. PutCurrent(c, store') /\ AnswerCurrent(c, store')
    BY <2>1, GoodLater DEF Kept, CallsGood, Grows
  <2>3. Justified(c, confirmed', reviewed', refused', submitted')
    BY DEF Kept, CallsGood, Grows, Justified
  <2> QED BY <2>2, <2>3
<1> QED BY <1>1 DEF CallsGood

\* A step of handler k in tab t.
LEMMA StepKept ==
  ASSUME Kept, NEW t \in Tabs, NEW k \in Kinds, NEW next \in Task, Step(t, k, next),
         stray' \subseteq Calls, RestTypes', Grows,
         version' \in [Tabs -> Nat], \A u \in Tabs \ {t} : version'[u] = version[u],
         PutCurrent(next, store'), AnswerCurrent(next, store'),
         Justified(next, confirmed', reviewed', refused', submitted'),
         SaveKept(next, store', Closed'),
         \A c \in Calls : SaveKept(c, store', Closed'),
         SubmittedKept', GrantsAsked',
         ~Concurrent => Busy(task[t][k]) \/ ~Busy(next) \/ \A j \in Kinds : ~Busy(task[t][j]),
         ~Concurrent /\ next.pc = "grant" => k = "confirm" /\ Knows(store', version'[t], next.id),
         ~Concurrent /\ k # "confirm" => Busy(task[t][k]) \/ version'[t] = version[t]
  PROVE  Kept'
<1>1. /\ task' \in [Tabs -> [Kinds -> Task]] /\ task'[t][k] = next
      /\ \A u \in Tabs, j \in Kinds : u # t \/ j # k => task'[u][j] = task[u][j]
  BY TaskStep DEF Kept
<1>2. TypeOK'
  <2>1. stray' \subseteq Task
    BY CallTypes DEF Kept
  <2> QED BY <1>1, <2>1 DEF TypeOK, RestTypes, Stored
<1>3. CallsGood'
  <2>1. \A c \in Calls' : c \in Calls \/ c = next
    BY <1>1, CallTypes DEF Calls, Tasks, Kept
  <2> QED BY <2>1, CallsAfter
<1>4. OneHandler'
  <2> SUFFICES ASSUME ~Concurrent, NEW u \in Tabs
               PROVE  /\ \A i, j \in Kinds : Busy(task'[u][i]) /\ Busy(task'[u][j]) => i = j
                      /\ \A j \in Kinds : task'[u][j].pc = "grant" =>
                           j = "confirm" /\ Knows(store', version'[u], task'[u][j].id)
    BY DEF OneHandler, Busy
  <2>1. \A i, j \in Kinds : Busy(task'[u][i]) /\ Busy(task'[u][j]) => i = j
    BY <1>1 DEF Kept, OneHandler
  <2>2. ASSUME NEW j \in Kinds, task'[u][j].pc = "grant"
        PROVE  j = "confirm" /\ Knows(store', version'[u], task'[u][j].id)
    <3>1. CASE u = t /\ j = k
      BY <1>1, <2>2, <3>1
    <3>2. CASE u # t \/ j # k
      <4>1. task'[u][j] = task[u][j] /\ Busy(task[u][j])
        BY <1>1, <2>2, <3>2 DEF Busy
      <4>2. j = "confirm" /\ Knows(store, version[u], task[u][j].id)
        BY <2>2, <4>1 DEF Kept, OneHandler
      <4>3. version'[u] = version[u]
        BY <3>2, <4>1, <4>2 DEF Kept, OneHandler
      <4>4. version[u] \in Nat /\ store \in Stored /\ store' \in Stored
        BY DEF Kept, TypeOK, RestTypes, Stored
      <4> QED BY <4>1, <4>2, <4>3, <4>4, KnowsLater DEF Grows
    <3> QED BY <3>1, <3>2
  <2> QED BY <2>1, <2>2
<1> QED BY <1>2, <1>3, <1>4 DEF Kept

\* A step of a handler that only looks: host and history stay.
LEMMA QuietStep ==
  ASSUME Kept, NEW t \in Tabs, NEW k \in Kinds, NEW next \in Task, Step(t, k, next),
         UNCHANGED <<host, payloadOf, history>>, stray' \subseteq Calls,
         {clicks, checks, troubles}' \subseteq Nat,
         version' \in [Tabs -> Nat], \A u \in Tabs \ {t} : version'[u] = version[u],
         PutCurrent(next, store), AnswerCurrent(next, store),
         Justified(next, confirmed, reviewed, refused, submitted),
         SaveKept(next, store, Closed),
         ~Concurrent => Busy(task[t][k]) \/ ~Busy(next) \/ \A j \in Kinds : ~Busy(task[t][j]),
         ~Concurrent /\ next.pc = "grant" => k = "confirm" /\ Knows(store, version'[t], next.id),
         ~Concurrent /\ k # "confirm" => Busy(task[t][k]) \/ version'[t] = version[t]
  PROVE  Kept'
<1>1. /\ store' = store /\ confirmed' = confirmed /\ reviewed' = reviewed
      /\ refused' = refused /\ submitted' = submitted /\ granted' = granted
  BY DEF host, history
<1>2. Closed' = Closed
  BY <1>1 DEF Closed
<1>3. RestTypes' /\ Grows
  BY <1>1 DEF Kept, TypeOK, RestTypes, Stored, Grows, Later
<1>4. SubmittedKept' /\ GrantsAsked'
  BY <1>1, <1>2 DEF Kept, SubmittedKept, GrantsAsked
<1>5. \A c \in Calls : SaveKept(c, store', Closed')
  BY <1>1, <1>2 DEF Kept, CallsGood
<1> QED BY <1>1, <1>2, <1>3, <1>4, <1>5, StepKept

-----------------------------------------------------------------------------
(* The actions *)

\* A fresh installation satisfies the invariant.
LEMMA InitKept == Init => Kept
<1> SUFFICES ASSUME Init PROVE Kept
  OBVIOUS
<1>0. None \in Ids \cup {None} /\ "check" \in Kinds
  BY DEF Kinds
<1>1. Call("opening", None, 0) \in Task /\ Call("opening", None, 0).pc = "opening"
      /\ Call("opening", None, 0).answer.kind = "none"
  BY <1>0, TaskTypes DEF Awaiting, Getting
<1>2. \A t \in Tabs, k \in Kinds :
        /\ task[t][k] = IF k = "check" THEN Call("opening", None, 0) ELSE Idle
        /\ task[t][k] \in Task /\ task[t][k].pc \in {"idle", "opening"}
        /\ task[t][k].answer.kind = "none" /\ (Busy(task[t][k]) => k = "check")
  BY <1>1, TaskTypes DEF Init, Opening, Busy
<1>3. TypeOK
  <2>1. task \in [Tabs -> [Kinds -> Task]]
    BY <1>1, TaskTypes DEF Init, Opening
  <2>2. payloadOf \in Seq(Payloads) /\ Len(payloadOf) <= MaxClicks
    BY LimitsAssumption DEF Init
  <2> QED BY <2>1, <2>2 DEF Init, TypeOK
<1>4. CallsGood
  <2>1. \A c \in Calls : c.pc \in {"idle", "opening"} /\ c.answer.kind = "none"
    BY <1>2 DEF Init, Calls, Tasks
  <2> QED BY <2>1 DEF CallsGood, PutCurrent, AnswerCurrent, Justified, SaveKept
<1>5. OneHandler
  BY <1>2 DEF OneHandler, Busy
<1>6. SubmittedKept /\ GrantsAsked
  BY DEF Init, SubmittedKept, GrantsAsked
<1> QED BY <1>3, <1>4, <1>5, <1>6 DEF Kept

\* A handler ends, or goes on to a call that stores nothing.
LEMMA Harmless ==
  ASSUME NEW c, c.pc \notin Putting \cup {"again", "retract", "grant", "asking"},
         c.answer.kind = "none"
  PROVE  /\ PutCurrent(c, store) /\ AnswerCurrent(c, store)
         /\ Justified(c, confirmed, reviewed, refused, submitted)
         /\ SaveKept(c, store, Closed)
BY DEF PutCurrent, AnswerCurrent, Justified, SaveKept, Putting, Keeping, Clearing

\* The caches after an answer.
LEMMA RefreshedTypes ==
  ASSUME TypeOK, NEW t \in Tabs, NEW k \in Kinds, Refreshed(t, task[t][k].answer)
  PROVE  /\ version' \in [Tabs -> Nat] /\ version'[t] = task[t][k].answer.version
         /\ \A u \in Tabs \ {t} : version'[u] = version[u]
<1>1. task[t][k].answer.version \in Nat
  BY DEF TypeOK, Task, Answer
<1> QED BY <1>1 DEF Refreshed, TypeOK

\* Clicks start a handler where none, or not this one, is at work.
LEMMA ClickKept ==
  ASSUME Kept, NEW t \in Tabs, NEW k \in Kinds, MayStart(t, k),
         NEW pc \in {"load", "review", "look"}, Step(t, k, Call(pc, None, 0)),
         UNCHANGED <<host, version, payloadOf, stray, history>>,
         {clicks, checks, troubles}' \subseteq Nat
  PROVE  Kept'
<1>0. pc \in Awaiting /\ None \in Ids \cup {None}
  BY DEF Awaiting, Getting
<1>1. /\ Call(pc, None, 0) \in Task /\ Call(pc, None, 0).pc = pc
      /\ Call(pc, None, 0).answer.kind = "none"
  BY <1>0, TaskTypes
<1>2. version' \in [Tabs -> Nat] /\ stray' \subseteq Calls
  BY DEF Kept, TypeOK, Calls
<1>3. ~Concurrent => \A j \in Kinds : ~Busy(task[t][j])
  BY DEF MayStart, Busy
<1>4. pc \notin Putting \cup {"again", "retract", "grant", "asking"}
  BY DEF Putting, Keeping, Clearing
<1>5. /\ PutCurrent(Call(pc, None, 0), store) /\ AnswerCurrent(Call(pc, None, 0), store)
      /\ Justified(Call(pc, None, 0), confirmed, reviewed, refused, submitted)
      /\ SaveKept(Call(pc, None, 0), store, Closed)
  BY <1>1, <1>4, Harmless
<1> QED BY <1>1, <1>2, <1>3, <1>4, <1>5, QuietStep

\* A handler that looks or ends after an answer, with or without keeping the
\* answer's version.
LEMMA EndKept ==
  ASSUME Kept, NEW t \in Tabs, NEW k \in Kinds, Busy(task[t][k]),
         NEW next \in Task, next.pc \notin Putting \cup {"again", "retract", "grant", "asking"},
         next.answer.kind = "none", Step(t, k, next),
         UNCHANGED version \/ Refreshed(t, task[t][k].answer),
         UNCHANGED <<host, payloadOf, stray, history, counters>>
  PROVE  Kept'
<1>1. version' \in [Tabs -> Nat] /\ \A u \in Tabs \ {t} : version'[u] = version[u]
  BY RefreshedTypes DEF Kept, TypeOK
<1>2. stray' \subseteq Calls /\ {clicks, checks, troubles}' \subseteq Nat
  BY DEF Kept, TypeOK, Calls, counters
<1>3. next.pc # "grant"
  OBVIOUS
<1> QED BY <1>1, <1>2, <1>3, Harmless, QuietStep

\* Ending a handler spoils nothing.
LEMMA IdleKept ==
  ASSUME Kept, NEW t \in Tabs, NEW k \in Kinds, Step(t, k, Idle),
         UNCHANGED <<host, version, payloadOf, stray, history, counters>>
  PROVE  Kept'
<1>1. "idle" \notin Putting \cup {"again", "retract", "grant", "asking"}
  BY DEF Putting, Keeping, Clearing
<1>2. ~Busy(Idle)
  BY TaskTypes DEF Busy
<1>3. /\ PutCurrent(Idle, store) /\ AnswerCurrent(Idle, store) /\ SaveKept(Idle, store, Closed)
      /\ Justified(Idle, confirmed, reviewed, refused, submitted)
  BY <1>1, TaskTypes, Harmless
<1>4. version' \in [Tabs -> Nat] /\ {clicks, checks, troubles}' \subseteq Nat /\ stray' \subseteq Calls
  BY DEF Kept, TypeOK, counters, Calls
<1> QED BY <1>2, <1>3, <1>4, TaskTypes, QuietStep

-----------------------------------------------------------------------------
(* The confirm handler *)

\* A handler sends a put under the version it has just been told.
LEMMA PutKept ==
  ASSUME Kept, NEW t \in Tabs, NEW k \in Kinds, Busy(task[t][k]),
         NEW next \in Task, next.pc \in Putting, next.answer.kind = "none", Step(t, k, next),
         PutCurrent(next, store), Justified(next, confirmed, reviewed, refused, submitted),
         UNCHANGED version \/ Refreshed(t, task[t][k].answer),
         UNCHANGED <<host, payloadOf, stray, history, counters>>
  PROVE  Kept'
<1>1. version' \in [Tabs -> Nat] /\ \A u \in Tabs \ {t} : version'[u] = version[u]
  BY RefreshedTypes DEF Kept, TypeOK
<1>2. stray' \subseteq Calls /\ {clicks, checks, troubles}' \subseteq Nat
  BY DEF Kept, TypeOK, Calls, counters
<1>3. next.pc # "grant" /\ AnswerCurrent(next, store) /\ SaveKept(next, store, Closed)
  BY DEF Putting, Keeping, Clearing, AnswerCurrent, SaveKept
<1> QED BY <1>1, <1>2, <1>3, QuietStep

\* A stored request goes on under its ID; otherwise a new one is drawn.
LEMMA ChosenTypes ==
  ASSUME TypeOK, NEW id \in Ids \cup {None}, NEW p, NEW new \in Chosen(id, p)
  PROVE  /\ new \in Ids /\ (id = None \/ new = id)
         /\ {new} = Fresh => Len(payloadOf) + 1 <= MaxClicks
<1>1. Len(payloadOf) \in Nat /\ MaxClicks \in Nat
  BY LimitsAssumption DEF TypeOK
<1>2. \A i \in Fresh : i \in Ids
  BY <1>1 DEF Fresh, Ids
<1>3. {new} = Fresh => Len(payloadOf) + 1 <= MaxClicks
  BY <1>1 DEF Fresh
<1>4. CASE id = None
  BY <1>2, <1>3, <1>4 DEF Chosen
<1>5. CASE id # None
  BY <1>3, <1>5 DEF Chosen
<1> QED BY <1>4, <1>5

\* Confirm sends its save with the version it has just read, for the request
\* it found or for a new one.
LEMMA confirmLoadedKept ==
  ASSUME Kept, NEW t \in Tabs, confirmLoaded(t)
  PROVE  Kept'
<1> DEFINE c == task[t]["confirm"]
           a == c.answer
<1>0. "confirm" \in Kinds
  BY DEF Kinds
<1>1. /\ c \in Task /\ c \in Calls /\ c.pc = "load" /\ a.kind = "found" /\ Refreshed(t, a)
      /\ UNCHANGED <<host, stray, history, counters>>
  BY <1>0, CallTypes DEF confirmLoaded, Kept
<1>2. Knows(store, a.version, a.id) /\ a.version \in Nat /\ a.id \in Ids \cup {None}
  BY <1>1 DEF Kept, CallsGood, AnswerCurrent, Task, Answer
<1>3. Busy(c)
  BY <1>1 DEF Busy
<1>4. PICK p \in Payloads :
        \/ \E id \in Chosen(a.id, p) :
             /\ Step(t, "confirm", Call("save", id, a.version))
             /\ payloadOf' = IF {id} = Fresh THEN Append(payloadOf, p) ELSE payloadOf
        \/ /\ Step(t, "confirm", Idle)
           /\ UNCHANGED payloadOf
  BY DEF confirmLoaded
<1>5. CASE Step(t, "confirm", Idle) /\ UNCHANGED payloadOf
  <2>1. Idle.pc \notin Putting \cup {"again", "retract", "grant", "asking"}
    BY TaskTypes DEF Putting, Keeping, Clearing
  <2> QED BY <1>0, <1>1, <1>3, <1>5, <2>1, TaskTypes, EndKept
<1>6. ASSUME NEW id \in Chosen(a.id, p), Step(t, "confirm", Call("save", id, a.version)),
             payloadOf' = IF {id} = Fresh THEN Append(payloadOf, p) ELSE payloadOf
      PROVE  Kept'
  <2> DEFINE next == Call("save", id, a.version)
  <2>1. id \in Ids /\ (a.id = None \/ id = a.id) /\ ({id} = Fresh => Len(payloadOf) + 1 <= MaxClicks)
    BY <1>2, ChosenTypes DEF Kept
  <2>2. id # None /\ "save" \in Awaiting
    BY <2>1 DEF Ids, None, Awaiting, Putting, Keeping
  <2>3. /\ next \in Task /\ next.pc = "save" /\ next.id = id /\ next.ver = a.version
        /\ next.answer.kind = "none"
    BY <1>2, <2>1, <2>2, TaskTypes
  <2> HIDE DEF next
  <2>4. payloadOf' \in Seq(Payloads) /\ Len(payloadOf') <= MaxClicks
    BY <1>6, <2>1 DEF Kept, TypeOK
  <2>5. /\ store' = store /\ confirmed' = confirmed /\ reviewed' = reviewed
        /\ refused' = refused /\ submitted' = submitted /\ granted' = granted
        /\ stray' \subseteq Calls
    BY <1>1 DEF host, history, Calls
  <2>6. Closed' = Closed
    BY <2>5 DEF Closed
  <2>7. RestTypes' /\ Grows
    BY <1>1, <2>4, <2>5 DEF Kept, TypeOK, RestTypes, Stored, Grows, Later, counters
  <2>8. SubmittedKept' /\ GrantsAsked' /\ \A d \in Calls : SaveKept(d, store', Closed')
    BY <2>5, <2>6 DEF Kept, SubmittedKept, GrantsAsked, CallsGood
  <2>9. /\ PutCurrent(next, store') /\ AnswerCurrent(next, store')
        /\ Justified(next, confirmed', reviewed', refused', submitted')
        /\ SaveKept(next, store', Closed')
    BY <1>2, <2>1, <2>2, <2>3, <2>5 DEF PutCurrent, AnswerCurrent, Justified, SaveKept
  <2>10. version' \in [Tabs -> Nat] /\ \A u \in Tabs \ {t} : version'[u] = version[u]
    BY <1>0, <1>1, RefreshedTypes DEF Kept
  <2>11. Step(t, "confirm", next)
    BY <1>6 DEF next
  <2> QED BY <1>0, <1>3, <2>3, <2>5, <2>7, <2>8, <2>9, <2>10, <2>11, StepKept
<1> QED BY <1>4, <1>5, <1>6

\* A step that puts something on record: no call before it is worse for it.
LEMMA RecordKept ==
  ASSUME Kept, NEW t \in Tabs, NEW k \in Kinds, Busy(task[t][k]),
         NEW next \in Task, next.answer.kind = "none", Step(t, k, next),
         UNCHANGED <<host, payloadOf, stray, counters>>,
         confirmed \subseteq confirmed' /\ reviewed \subseteq reviewed' /\ submitted \subseteq submitted',
         confirmed' \cup reviewed' \cup submitted' \subseteq Ids,
         version' \in [Tabs -> Nat], \A u \in Tabs \ {t} : version'[u] = version[u],
         PutCurrent(next, store),
         Justified(next, confirmed', reviewed', refused, submitted'),
         Separate => \A id \in submitted' \ submitted : store.id = id \/ id \in Closed,
         ~Concurrent /\ next.pc = "grant" => k = "confirm" /\ Knows(store, version'[t], next.id)
  PROVE  Kept'
<1>1. store' = store /\ refused' = refused /\ granted' = granted
  BY DEF host
<1>2. Closed \subseteq Closed'
  BY <1>1 DEF Closed
<1>3. RestTypes' /\ Grows
  BY <1>1 DEF Kept, TypeOK, RestTypes, Stored, Grows, Later, counters
<1>4. SubmittedKept' /\ GrantsAsked'
  BY <1>1, <1>2 DEF Kept, SubmittedKept, GrantsAsked
<1>5. \A c \in Calls : SaveKept(c, store', Closed')
  BY <1>1, <1>2 DEF Kept, CallsGood, SaveKept
<1>6. AnswerCurrent(next, store') /\ SaveKept(next, store', Closed')
  BY DEF AnswerCurrent, SaveKept
<1>7. stray' \subseteq Calls
  BY DEF Calls
<1> QED BY <1>1, <1>3, <1>4, <1>5, <1>6, <1>7, StepKept

\* A saved request is put on record before its grant is asked for.
LEMMA confirmSavedKept ==
  ASSUME Kept, NEW t \in Tabs, confirmSaved(t)
  PROVE  Kept'
<1> DEFINE c == task[t]["confirm"]
           next == Call("grant", c.id, 0)
<1>0. "confirm" \in Kinds /\ "grant" \in Awaiting /\ c.pc = "save" /\ c.answer.kind = "saved"
  BY DEF Kinds, Awaiting, confirmSaved
<1>1. c \in Task /\ c \in Calls /\ c.id \in Ids \cup {None}
  BY <1>0, CallTypes DEF Kept, Task
<1>2. PutCurrent(c, store) /\ AnswerCurrent(c, store) /\ SaveKept(c, store, Closed)
  BY <1>1 DEF Kept, CallsGood
<1>3. c.id # None /\ Knows(store, c.answer.version, c.id)
  BY <1>0, <1>2 DEF PutCurrent, AnswerCurrent, PutValue, Clearing
<1>4. Separate => store.id = c.id \/ c.id \in Closed
  BY <1>0, <1>2 DEF SaveKept
<1>5. next \in Task /\ next.pc = "grant" /\ next.id = c.id /\ next.answer.kind = "none"
  BY <1>0, <1>1, TaskTypes
<1>6. /\ version' \in [Tabs -> Nat] /\ version'[t] = c.answer.version
      /\ \A u \in Tabs \ {t} : version'[u] = version[u]
  BY <1>0, RefreshedTypes DEF Kept, confirmSaved
<1>7. /\ Step(t, "confirm", next) /\ submitted' = submitted \cup {c.id}
      /\ UNCHANGED <<host, payloadOf, stray, confirmed, reviewed, counters>>
  BY DEF confirmSaved
<1>8. Busy(c)
  BY <1>0 DEF Busy
<1> HIDE DEF next
<1>9. confirmed' \cup reviewed' \cup submitted' \subseteq Ids
  BY <1>1, <1>3, <1>7 DEF Kept, TypeOK
<1>10. PutCurrent(next, store) /\ Justified(next, confirmed', reviewed', refused, submitted')
  BY <1>5, <1>7 DEF PutCurrent, Justified
<1> QED BY <1>0, <1>3, <1>4, <1>5, <1>6, <1>7, <1>8, <1>9, <1>10, RecordKept

\* A receipt justifies the clear that is sent with the cached version.
LEMMA confirmReceiptKept ==
  ASSUME Kept, OnePage, NEW t \in Tabs, confirmReceipt(t)
  PROVE  Kept'
<1> DEFINE c == task[t]["confirm"]
           next == Call("clear", c.id, version[t])
<1>0. "confirm" \in Kinds /\ "clear" \in Awaiting /\ c.pc = "grant"
  BY DEF Kinds, Awaiting, Putting, Clearing, confirmReceipt
<1>1. c \in Calls /\ c.id \in Ids \cup {None} /\ version[t] \in Nat
  BY <1>0, CallTypes DEF Kept, TypeOK, Task
<1>2. c.id \in submitted /\ c.id \in Ids
  BY <1>0, <1>1 DEF Kept, CallsGood, Justified, TypeOK
<1>3. Separate => Knows(store, version[t], None) \/ Knows(store, version[t], c.id)
  <2>1. ASSUME ~Concurrent PROVE Knows(store, version[t], c.id)
    BY <1>0, <2>1 DEF Kept, OneHandler
  <2>2. ASSUME Alone PROVE Knows(store, version[t], None) \/ Knows(store, version[t], c.id)
    BY <1>0, <2>2 DEF OnePage, Submitting, Undisturbed, Knows
  <2> QED BY <2>1, <2>2 DEF Separate
<1>4. /\ next \in Task /\ next.pc = "clear" /\ next.id = c.id /\ next.ver = version[t]
      /\ next.answer.kind = "none"
  BY <1>0, <1>1, TaskTypes
<1>5. /\ Step(t, "confirm", next) /\ confirmed' = confirmed \cup {c.id}
      /\ UNCHANGED <<host, version, payloadOf, stray, reviewed, submitted, counters>>
  BY DEF confirmReceipt
<1>6. Busy(c) /\ version' \in [Tabs -> Nat] /\ \A u \in Tabs \ {t} : version'[u] = version[u]
  BY <1>0, <1>5 DEF Busy, Kept, TypeOK
<1> HIDE DEF next
<1>7. confirmed' \cup reviewed' \cup submitted' \subseteq Ids
  BY <1>2, <1>5 DEF Kept, TypeOK
<1>8. PutCurrent(next, store) /\ Justified(next, confirmed', reviewed', refused, submitted')
  BY <1>3, <1>4, <1>5 DEF PutCurrent, Justified
<1> QED BY <1>0, <1>4, <1>5, <1>6, <1>7, <1>8, RecordKept

\* The other steps of the confirm handler only look, or send a put that a look
\* or a rejection justifies.
LEMMA confirmLooksKept ==
  ASSUME Kept, NEW t \in Tabs,
         \/ confirmUnclear(t) \/ confirmRejected(t) \/ confirmReread(t)
         \/ confirmStored(t) \/ confirmChecked(t) \/ confirmFails(t)
  PROVE  Kept'
<1> DEFINE c == task[t]["confirm"]
<1>0. /\ "confirm" \in Kinds /\ "reload" \in Awaiting /\ "retract" \in Awaiting
      /\ "mark" \in Awaiting /\ "withdraw" \in Awaiting /\ "refresh" \in Awaiting
  BY DEF Kinds, Awaiting, Getting, Putting, Keeping, Clearing
<1>1. c \in Task /\ c \in Calls /\ c.id \in Ids \cup {None} /\ None \in Ids \cup {None}
      /\ c.answer.version \in Nat
  BY <1>0, CallTypes DEF Kept, Task, Answer
<1>2. AnswerCurrent(c, store) /\ Justified(c, confirmed, reviewed, refused, submitted)
  BY <1>1 DEF Kept, CallsGood
<1>3. UNCHANGED <<host, payloadOf, stray, history, counters>>
  BY DEF confirmUnclear, confirmRejected, confirmReread, confirmStored, confirmChecked, confirmFails
<1>4. {"reload", "refresh", "idle"} \cap (Putting \cup {"again", "retract", "grant", "asking"}) = {}
  BY DEF Putting, Keeping, Clearing
<1>5. ASSUME Busy(c), UNCHANGED version \/ Refreshed(t, c.answer),
             \/ Step(t, "confirm", Idle)
             \/ Step(t, "confirm", Call("refresh", None, 0))
             \/ Step(t, "confirm", Call("reload", c.id, 0))
      PROVE  Kept'
  <2>1. /\ Call("refresh", None, 0) \in Task /\ Call("refresh", None, 0).pc = "refresh"
        /\ Call("refresh", None, 0).answer.kind = "none"
        /\ Call("reload", c.id, 0) \in Task /\ Call("reload", c.id, 0).pc = "reload"
        /\ Call("reload", c.id, 0).answer.kind = "none"
    BY <1>0, <1>1, CallTask
  <2>2. CASE Step(t, "confirm", Idle)
    BY <1>0, <1>3, <1>4, <1>5, <2>2, TaskTypes, EndKept
  <2>3. CASE Step(t, "confirm", Call("refresh", None, 0))
    BY <1>0, <1>3, <1>4, <1>5, <2>1, <2>3, EndKept
  <2>4. CASE Step(t, "confirm", Call("reload", c.id, 0))
    BY <1>0, <1>3, <1>4, <1>5, <2>1, <2>4, EndKept
  <2> QED BY <1>5, <2>2, <2>3, <2>4
<1>6. CASE confirmUnclear(t)
  BY <1>5, <1>6 DEF confirmUnclear, Ambiguous, Busy
<1>7. CASE confirmRejected(t)
  <2> DEFINE next == Call("retract", c.id, 0)
  <2>1. next \in Task /\ next.pc = "retract" /\ next.id = c.id /\ next.answer.kind = "none"
    BY <1>0, <1>1, CallTask
  <2>2. Busy(c) /\ c.id \in refused /\ Step(t, "confirm", next) /\ UNCHANGED version
    BY <1>2, <1>7 DEF confirmRejected, Busy, Justified
  <2> HIDE DEF next
  <2>3. /\ PutCurrent(next, store) /\ AnswerCurrent(next, store) /\ SaveKept(next, store, Closed)
        /\ Justified(next, confirmed, reviewed, refused, submitted)
    BY <2>1, <2>2 DEF PutCurrent, AnswerCurrent, SaveKept, Justified
  <2>4. version' \in [Tabs -> Nat] /\ {clicks, checks, troubles}' \subseteq Nat /\ stray' \subseteq Calls
    BY <1>3, <2>2 DEF Kept, TypeOK, counters, Calls
  <2> QED BY <1>0, <1>3, <2>1, <2>2, <2>3, <2>4, QuietStep
<1>8. CASE confirmReread(t)
  <2>1. /\ c.pc \in {"reload", "retract"} /\ c.answer.kind = "found" /\ Busy(c)
        /\ Refreshed(t, c.answer) /\ Step(t, "confirm", Reread(c))
    BY <1>8 DEF confirmReread, Busy
  <2>2. CASE c.answer.id # c.id
    BY <1>5, <2>1, <2>2 DEF Reread
  <2>3. CASE c.answer.id = c.id
    <3> DEFINE next == Call(IF c.pc = "reload" THEN "mark" ELSE "withdraw", c.id, c.answer.version)
    <3>0. (IF c.pc = "reload" THEN "mark" ELSE "withdraw") \in Awaiting
      BY <1>0
    <3>1. /\ next \in Task /\ next.pc = IF c.pc = "reload" THEN "mark" ELSE "withdraw"
          /\ next.id = c.id /\ next.ver = c.answer.version /\ next.answer.kind = "none"
      BY <3>0, <1>1, CallTask
    <3>2. Step(t, "confirm", next)
      BY <2>1, <2>3 DEF Reread
    <3> HIDE DEF next
    <3>3. next.pc \in Putting /\ PutCurrent(next, store)
      BY <1>2, <2>1, <2>3, <3>1 DEF Putting, Keeping, Clearing, PutCurrent, AnswerCurrent
    <3>4. Justified(next, confirmed, reviewed, refused, submitted)
      BY <1>2, <2>1, <3>1 DEF Justified
    <3> QED BY <1>0, <1>3, <2>1, <3>1, <3>2, <3>3, <3>4, PutKept
  <2> QED BY <2>2, <2>3
<1>9. CASE confirmStored(t)
  BY <1>5, <1>9 DEF confirmStored, Busy
<1>10. CASE confirmChecked(t)
  BY <1>5, <1>10 DEF confirmChecked, Busy
<1>11. CASE confirmFails(t)
  BY <1>0, <1>11, IdleKept DEF confirmFails
<1> QED BY <1>6, <1>7, <1>8, <1>9, <1>10, <1>11

-----------------------------------------------------------------------------
(* The discard handler and the state checks *)

\* Discard drops the request only after an administrator has checked it, and
\* with the version under which it has found it again.
LEMMA discardKept ==
  ASSUME Kept, NEW t \in Tabs, discard(t)
  PROVE  Kept'
<1> DEFINE c == task[t]["discard"]
           a == c.answer
<1>0. /\ "discard" \in Kinds /\ "discard" # "confirm" /\ "again" \in Awaiting /\ "drop" \in Awaiting
  BY DEF Kinds, Awaiting, Getting, Putting, Clearing
<1>1. c \in Task /\ c \in Calls /\ c.id \in Ids \cup {None} /\ a.id \in Ids \cup {None}
      /\ a.version \in Nat
  BY <1>0, CallTypes DEF Kept, Task, Answer
<1>2. AnswerCurrent(c, store) /\ Justified(c, confirmed, reviewed, refused, submitted)
  BY <1>1 DEF Kept, CallsGood
<1>3. Idle.pc \notin Putting \cup {"again", "retract", "grant", "asking"} /\ Idle.answer.kind = "none"
  BY TaskTypes DEF Putting, Keeping, Clearing
<1>4. ASSUME Busy(c), Step(t, "discard", Idle), Refreshed(t, a),
             UNCHANGED <<host, payloadOf, stray, history, counters>>
      PROVE  Kept'
  BY <1>0, <1>3, <1>4, TaskTypes, EndKept
<1>5. CASE discardLoaded(t)
  <2>1. /\ Busy(c) /\ Refreshed(t, a)
        /\ Step(t, "discard", IF a.id = None THEN Idle ELSE Asking(a.id))
        /\ UNCHANGED <<host, payloadOf, stray, history, counters>>
    BY <1>5 DEF discardLoaded, Busy
  <2>2. CASE a.id = None
    BY <1>4, <2>1, <2>2
  <2>3. CASE a.id # None
    <3> DEFINE next == Asking(a.id)
    <3>1. next \in Task /\ next.pc = "asking" /\ next.id = a.id /\ next.answer.kind = "none"
      BY <1>1, TaskTypes
    <3>2. Step(t, "discard", next)
      BY <2>1, <2>3
    <3> HIDE DEF next
    <3>3. /\ PutCurrent(next, store) /\ AnswerCurrent(next, store) /\ SaveKept(next, store, Closed)
          /\ Justified(next, confirmed, reviewed, refused, submitted)
      BY <2>3, <3>1 DEF PutCurrent, AnswerCurrent, SaveKept, Justified
    <3>4. version' \in [Tabs -> Nat] /\ \A u \in Tabs \ {t} : version'[u] = version[u]
      BY <1>0, <2>1, RefreshedTypes DEF Kept
    <3>5. {clicks, checks, troubles}' \subseteq Nat /\ stray' \subseteq Calls
      BY <2>1 DEF Kept, TypeOK, counters, Calls
    <3> QED BY <1>0, <2>1, <3>1, <3>2, <3>3, <3>4, <3>5, QuietStep
  <2> QED BY <2>2, <2>3
<1>6. CASE discardDecided(t)
  <2>1. c.pc = "asking" /\ Busy(c) /\ UNCHANGED <<host, version, payloadOf, stray, confirmed, submitted, counters>>
    BY <1>6 DEF discardDecided, Busy
  <2>2. CASE Step(t, "discard", Idle) /\ UNCHANGED reviewed
    BY <1>0, <2>1, <2>2, IdleKept DEF history
  <2>3. CASE reviewed' = reviewed \cup {c.id} /\ Step(t, "discard", Call("again", c.id, 0))
    <3> DEFINE next == Call("again", c.id, 0)
    <3>1. next \in Task /\ next.pc = "again" /\ next.id = c.id /\ next.answer.kind = "none"
      BY <1>0, <1>1, CallTask
    <3>2. Step(t, "discard", next)
      BY <2>3
    <3> HIDE DEF next
    <3>3. c.id \in Ids
      BY <1>1, <1>2, <2>1 DEF Justified
    <3>4. PutCurrent(next, store) /\ Justified(next, confirmed', reviewed', refused, submitted')
      BY <2>3, <3>1 DEF PutCurrent, Justified
    <3>5. /\ confirmed \subseteq confirmed' /\ reviewed \subseteq reviewed' /\ submitted \subseteq submitted'
          /\ confirmed' \cup reviewed' \cup submitted' \subseteq Ids /\ submitted' \ submitted = {}
          /\ version' \in [Tabs -> Nat] /\ \A u \in Tabs \ {t} : version'[u] = version[u]
      BY <2>1, <2>3, <3>3 DEF Kept, TypeOK
    <3> QED BY <1>0, <2>1, <3>1, <3>2, <3>4, <3>5, RecordKept
  <2> QED BY <1>6, <2>2, <2>3 DEF discardDecided
<1>7. CASE discardReread(t)
  <2>1. /\ Busy(c) /\ c.pc = "again" /\ a.kind = "found" /\ Refreshed(t, a)
        /\ Step(t, "discard", IF a.id = c.id THEN Call("drop", c.id, a.version) ELSE Idle)
        /\ UNCHANGED <<host, payloadOf, stray, history, counters>>
    BY <1>7 DEF discardReread, Busy
  <2>2. CASE a.id # c.id
    BY <1>4, <2>1, <2>2
  <2>3. CASE a.id = c.id
    <3> DEFINE next == Call("drop", c.id, a.version)
    <3>1. /\ next \in Task /\ next.pc = "drop" /\ next.id = c.id /\ next.ver = a.version
          /\ next.answer.kind = "none"
      BY <1>0, <1>1, CallTask
    <3>2. Step(t, "discard", next)
      BY <2>1, <2>3
    <3> HIDE DEF next
    <3>3. next.pc \in Putting /\ PutCurrent(next, store)
      BY <1>2, <2>1, <2>3, <3>1 DEF Putting, Clearing, PutCurrent, AnswerCurrent
    <3>4. Justified(next, confirmed, reviewed, refused, submitted)
      BY <1>2, <2>1, <3>1 DEF Justified
    <3> QED BY <1>0, <2>1, <3>1, <3>2, <3>3, <3>4, PutKept
  <2> QED BY <2>2, <2>3
<1>8. CASE discardStored(t)
  BY <1>4, <1>8 DEF discardStored, Busy
<1>9. CASE discardFails(t)
  BY <1>0, <1>9, IdleKept DEF discardFails
<1> QED BY <1>5, <1>6, <1>7, <1>8, <1>9 DEF discard

\* A state check only refreshes the cached version.
LEMMA handleStateCheckKept ==
  ASSUME Kept, NEW t \in Tabs, handleStateCheck(t)
  PROVE  Kept'
<1>1. Idle.pc \notin Putting \cup {"again", "retract", "grant", "asking"} /\ Idle.answer.kind = "none"
  BY TaskTypes DEF Putting, Keeping, Clearing
<1>2. "check" \in Kinds /\ Busy(task[t]["check"])
  BY DEF Kinds, Busy, handleStateCheck
<1> QED BY <1>1, <1>2, TaskTypes, EndKept DEF handleStateCheck

\* A state check that fails ends, and disables at most an idle confirmation.
LEMMA checkFailsKept ==
  ASSUME Kept, NEW t \in Tabs, checkFails(t)
  PROVE  Kept'
<1>1. UNCHANGED <<host, version, payloadOf, stray, history, counters>>
  BY DEF checkFails
<1>2. /\ task' \in [Tabs -> [Kinds -> Task]]
      /\ \A u \in Tabs, j \in Kinds : task'[u][j] \in {task[u][j], Idle, Disabled}
  BY TaskTypes DEF checkFails, Kept, TypeOK, Kinds
<1>3. ~Busy(Idle) /\ ~Busy(Disabled)
  BY TaskTypes DEF Busy
<1>4. RestTypes' /\ Grows /\ Closed' = Closed
  BY <1>1 DEF Kept, TypeOK, RestTypes, Stored, Grows, Later, host, history, counters, Closed
<1>5. TypeOK'
  BY <1>1, <1>2, <1>4 DEF Kept, TypeOK, RestTypes, Stored
<1>6. CallsGood'
  <2>1. \A c \in Calls' : c \in Calls \cup {Idle, Disabled}
    BY <1>1, <1>2, CallTypes DEF Calls, Tasks, Kept
  <2>2. \A c \in {Idle, Disabled} :
          /\ PutCurrent(c, store') /\ AnswerCurrent(c, store') /\ SaveKept(c, store', Closed')
          /\ Justified(c, confirmed', reviewed', refused', submitted')
    BY TaskTypes DEF PutCurrent, AnswerCurrent, SaveKept, Justified
  <2>3. \A c \in Calls : SaveKept(c, store', Closed')
    BY <1>1, <1>4 DEF Kept, CallsGood, host
  <2> QED BY <1>4, <2>1, <2>2, <2>3, CallsAfter
<1>7. OneHandler'
  <2>1. \A u \in Tabs, j \in Kinds : Busy(task'[u][j]) => task'[u][j] = task[u][j]
    BY <1>2, <1>3
  <2>2. \A u \in Tabs, j \in Kinds : task'[u][j].pc = "grant" => task'[u][j] = task[u][j]
    BY <2>1 DEF Busy
  <2> QED BY <1>1, <2>1, <2>2 DEF Kept, OneHandler, Busy, host
<1>8. SubmittedKept' /\ GrantsAsked'
  BY <1>1, <1>4 DEF Kept, SubmittedKept, GrantsAsked, host, history
<1> QED BY <1>5, <1>6, <1>7, <1>8 DEF Kept

-----------------------------------------------------------------------------
(* Timeouts and reloads *)

\* What nobody waits for any more was a call before.
LEMMA LeftIsCall == \A c : Left(c) \subseteq {c}
BY DEF Left

\* A reload forgets handlers and leaves their calls to the host.
LEMMA ReloadKept ==
  ASSUME Kept, NEW t \in Tabs, Reload(t)
  PROVE  Kept'
<1> DEFINE o == Call("opening", None, 0)
<1>1. o \in Task /\ o.pc = "opening" /\ o.answer.kind = "none"
  <2>1. "opening" \in Awaiting /\ None \in Ids \cup {None}
    BY DEF Awaiting, Getting
  <2> QED BY <2>1, CallTask
<1>2. /\ task' = [task EXCEPT ![t] = Opening] /\ version' = [version EXCEPT ![t] = 0]
      /\ UNCHANGED <<host, payloadOf, history, clicks, checks>> /\ troubles' = troubles + 1
      /\ stray' = stray \cup UNION {Left(task[t][k]) : k \in Kinds}
  BY DEF Reload
<1>3. /\ task' \in [Tabs -> [Kinds -> Task]] /\ version' \in [Tabs -> Nat]
      /\ \A k \in Kinds : task'[t][k] = IF k = "check" THEN o ELSE Idle
      /\ \A u \in Tabs \ {t} : task'[u] = task[u] /\ version'[u] = version[u]
  BY <1>1, <1>2, TaskTypes DEF Opening, Kept, TypeOK
<1>4. stray' \subseteq Calls
  BY <1>2, CallTypes, LeftIsCall DEF Kept, Calls
<1>5. RestTypes' /\ Grows /\ Closed' = Closed
  BY <1>2 DEF Kept, TypeOK, RestTypes, Stored, Grows, Later, host, history, Closed
<1>6. TypeOK'
  BY <1>3, <1>4, <1>5, CallTypes DEF Kept, TypeOK, RestTypes, Stored
<1> HIDE DEF o
<1>7. CallsGood'
  <2>1. \A c \in Calls' : c \in Calls \cup {o, Idle}
    BY <1>3, <1>4, CallTypes DEF Calls, Tasks, Kept
  <2>2. \A c \in {o, Idle} :
          /\ PutCurrent(c, store') /\ AnswerCurrent(c, store') /\ SaveKept(c, store', Closed')
          /\ Justified(c, confirmed', reviewed', refused', submitted')
    BY <1>1, TaskTypes DEF PutCurrent, AnswerCurrent, SaveKept, Justified
  <2>3. \A c \in Calls : SaveKept(c, store', Closed')
    BY <1>2, <1>5 DEF Kept, CallsGood, host
  <2> QED BY <1>5, <2>1, <2>2, <2>3, CallsAfter
<1>8. OneHandler'
  <2>1. \A k \in Kinds : Busy(task'[t][k]) => k = "check"
    BY <1>3, TaskTypes DEF Busy
  <2>2. \A k \in Kinds : task'[t][k].pc # "grant"
    BY <1>1, <1>3, TaskTypes
  <2> QED BY <1>2, <1>3, <2>1, <2>2 DEF Kept, OneHandler, Busy, host
<1>9. SubmittedKept' /\ GrantsAsked'
  BY <1>2, <1>5 DEF Kept, SubmittedKept, GrantsAsked, host, history
<1> QED BY <1>6, <1>7, <1>8, <1>9 DEF Kept

\* An answer that says nothing of what is stored: the task goes on to know
\* what it knew.
LEMMA AnsweredGood ==
  ASSUME Kept, NEW c \in Calls, NEW kind \in {"ok", "uncertain", "failed"}
  PROVE  LET next == [c EXCEPT !.answer = Answered(kind)]
         IN  /\ next \in Task /\ next.pc = c.pc /\ next.id = c.id
             /\ PutCurrent(next, store) /\ AnswerCurrent(next, store) /\ SaveKept(next, store, Closed)
             /\ Justified(next, confirmed, reviewed, refused, submitted)
<1> DEFINE next == [c EXCEPT !.answer = Answered(kind)]
<1>1. c \in Task
  BY CallTypes DEF Kept
<1>2. /\ next \in Task /\ next.pc = c.pc /\ next.id = c.id /\ next.ver = c.ver
      /\ next.answer.kind = kind
  BY <1>1, AnswerTypes, AnsweredTypes
<1> HIDE DEF next
<1>3. PutCurrent(next, store) /\ AnswerCurrent(next, store) /\ SaveKept(next, store, Closed)
  BY <1>2 DEF Kept, CallsGood, PutCurrent, AnswerCurrent, SaveKept
<1>4. Justified(next, confirmed, reviewed, refused, submitted)
  BY <1>2 DEF Kept, CallsGood, Justified
<1> QED BY <1>2, <1>3, <1>4 DEF next

\* Such an answer arrives, or the bridge makes it up when its timer fires.
LEMMA AnsweredKept ==
  ASSUME Kept, NEW t \in Tabs, NEW k \in Kinds, task[t][k].pc \in Awaiting,
         NEW kind \in {"ok", "uncertain", "failed"}, Answers(t, k, Answered(kind)),
         stray' \subseteq Calls, UNCHANGED <<host, version, payloadOf, history>>,
         {clicks, checks, troubles}' \subseteq Nat
  PROVE  Kept'
<1> DEFINE c == task[t][k]
           next == [c EXCEPT !.answer = Answered(kind)]
<1>1. c \in Calls
  BY CallTypes DEF Kept
<1>2. /\ next \in Task /\ next.pc = c.pc /\ next.id = c.id
      /\ PutCurrent(next, store) /\ AnswerCurrent(next, store) /\ SaveKept(next, store, Closed)
      /\ Justified(next, confirmed, reviewed, refused, submitted)
  BY <1>1, AnsweredGood
<1>3. Step(t, k, next)
  BY AnswerStep DEF Kept
<1>4. Busy(c)
  BY DEF Busy, Awaiting, Getting, Putting, Keeping, Clearing
<1>5. ~Concurrent /\ next.pc = "grant" => k = "confirm" /\ Knows(store, version'[t], next.id)
  BY <1>2 DEF Kept, OneHandler
<1> HIDE DEF next
<1>6. version' \in [Tabs -> Nat]
  BY DEF Kept, TypeOK
<1> QED BY <1>2, <1>3, <1>4, <1>5, <1>6, QuietStep

\* A timer that fires leaves the call to the host.
LEMMA TimesOutKept ==
  ASSUME Kept, NEW t \in Tabs, NEW k \in Kinds, TimesOut(t, k)
  PROVE  Kept'
<1>1. stray' \subseteq Calls
  BY CallTypes, LeftIsCall DEF Kept, Calls, TimesOut
<1>2. {clicks, checks, troubles}' \subseteq Nat
  BY DEF Kept, TypeOK, counters, TimesOut
<1> QED BY <1>1, <1>2, AnsweredKept DEF TimesOut

-----------------------------------------------------------------------------
(* The host *)

\* A put that is served clears a closed request, stores one where there was
\* none, or leaves the ID as it is.
LEMMA PutEffect ==
  ASSUME Kept, NEW c \in Calls, c.pc \in Putting, MayPut(c), PutServed(c)
  PROVE  /\ store' \in Stored /\ store'.version = store.version + 1 /\ store'.id = PutValue(c)
         /\ \/ store'.id = store.id \/ store.id = None \/ store'.id = None
         /\ Separate => \/ store.id = None \/ store'.id = store.id \/ store.id \in Closed
<1>1. c \in Task /\ store \in Stored
  BY CallTypes DEF Kept
<1>2. c.id \in Ids \cup {None} /\ PutValue(c) \in Ids \cup {None}
  BY <1>1 DEF Task, PutValue
<1>3. store' = [version |-> store.version + 1, id |-> PutValue(c)] /\ c.ver = store.version
  BY DEF MayPut, PutServed
<1>4. store' \in Stored /\ store'.version = store.version + 1 /\ store'.id = PutValue(c)
  BY <1>1, <1>2, <1>3 DEF Stored
<1>5. PutCurrent(c, store) /\ Justified(c, confirmed, reviewed, refused, submitted)
  BY DEF Kept, CallsGood
<1>6. CASE c.pc = "save"
  <2>1. store'.id = c.id
    BY <1>4, <1>6 DEF PutValue, Clearing
  <2>2. store.id = None \/ store.id = c.id
    BY <1>3, <1>5, <1>6 DEF PutCurrent, Knows
  <2> QED BY <1>4, <2>1, <2>2
<1>7. CASE c.pc = "mark"
  <2>1. store'.id = c.id
    BY <1>4, <1>7 DEF PutValue, Clearing
  <2>2. store.id = c.id
    BY <1>3, <1>5, <1>7 DEF PutCurrent, Knows
  <2> QED BY <1>4, <2>1, <2>2
<1>8. CASE c.pc \in Clearing
  <2>1. store'.id = None
    BY <1>4, <1>8 DEF PutValue
  <2>2. Separate => store.id \in {c.id, None}
    BY <1>3, <1>5, <1>8 DEF PutCurrent, Knows, Clearing
  <2>3. c.id \in Closed
    BY <1>5, <1>8 DEF Justified, Clearing, Closed
  <2> QED BY <1>4, <2>1, <2>2, <2>3
<1> QED BY <1>6, <1>7, <1>8 DEF Putting, Keeping

\* So whatever was kept in store is kept or closed.
LEMMA PutKeeps ==
  ASSUME Kept, NEW c \in Calls, c.pc \in Putting, MayPut(c), PutServed(c),
         UNCHANGED <<granted, refused, history>>
  PROVE  /\ SubmittedKept' /\ GrantsAsked' /\ Closed' = Closed
         /\ \A d \in Calls : SaveKept(d, store', Closed')
<1>1. Separate => \/ store.id = None \/ store'.id = store.id \/ store.id \in Closed
  BY PutEffect
<1>2. Closed' = Closed /\ submitted' = submitted /\ GrantsAsked'
  BY DEF Closed, history, Kept, GrantsAsked
<1>3. SubmittedKept'
  <2>1. \A id \in submitted : id # None
    BY DEF Kept, TypeOK, Ids, None
  <2> QED BY <1>1, <1>2, <2>1 DEF Kept, SubmittedKept
<1>4. ASSUME NEW d \in Calls PROVE SaveKept(d, store', Closed)
  <2>1. PutCurrent(d, store) /\ SaveKept(d, store, Closed)
    BY DEF Kept, CallsGood
  <2> QED BY <1>1, <2>1 DEF SaveKept, PutCurrent
<1> QED BY <1>2, <1>3, <1>4

\* A get is answered with what is stored.
LEMMA HostGetsKept ==
  ASSUME Kept, NEW t \in Tabs, NEW k \in Kinds, HostGets(t, k)
  PROVE  Kept'
<1> DEFINE c == task[t][k]
           a == [kind |-> "found", version |-> store.version, id |-> store.id]
           next == [c EXCEPT !.answer = a]
<1>1. c \in Task /\ c \in Calls /\ store \in Stored
  BY CallTypes DEF Kept
<1>2. a \in Answer /\ a.kind = "found" /\ Knows(store, a.version, a.id)
  BY <1>1 DEF Answer, Stored, Knows
<1>3. /\ Answers(t, k, a) /\ UNCHANGED <<host, version, payloadOf, stray, history, counters>>
      /\ c.pc \in Getting
  BY DEF HostGets
<1> HIDE DEF a
<1>4. /\ next \in Task /\ next.pc = c.pc /\ next.id = c.id /\ next.ver = c.ver /\ next.answer = a
  BY <1>1, <1>2, AnswerTypes
<1>5. Step(t, k, next)
  BY <1>3, AnswerStep DEF Kept
<1> HIDE DEF next
<1>6. next.pc \notin Putting \cup {"grant"}
  BY <1>3, <1>4 DEF Getting, Putting, Keeping, Clearing
<1>7. /\ PutCurrent(next, store) /\ AnswerCurrent(next, store) /\ SaveKept(next, store, Closed)
      /\ Justified(next, confirmed, reviewed, refused, submitted)
  BY <1>1, <1>2, <1>4, <1>6
     DEF PutCurrent, AnswerCurrent, SaveKept, Justified, Kept, CallsGood, Putting, Keeping, Clearing
<1>8. Busy(c)
  BY <1>3 DEF Busy, Getting
<1>9. version' \in [Tabs -> Nat] /\ {clicks, checks, troubles}' \subseteq Nat /\ stray' \subseteq Calls
  BY <1>3 DEF Kept, TypeOK, counters, Calls
<1> QED BY <1>3, <1>4, <1>5, <1>6, <1>7, <1>8, <1>9, QuietStep

\* A put is served for the version it expects and fails for another.
LEMMA HostPutsKept ==
  ASSUME Kept, NEW t \in Tabs, NEW k \in Kinds, HostPuts(t, k)
  PROVE  Kept'
<1> DEFINE c == task[t][k]
<1>1. /\ c.pc \in Putting /\ c.pc \in Awaiting
      /\ UNCHANGED <<granted, refused, version, payloadOf, stray, history, counters>>
  BY DEF HostPuts, Pending
<1>2. c \in Task /\ c \in Calls /\ store \in Stored
  BY CallTypes DEF Kept
<1>3. CASE ~MayPut(c)
  <2>1. Answers(t, k, Answered("failed")) /\ UNCHANGED store
    BY <1>3 DEF HostPuts
  <2>2. stray' \subseteq Calls /\ {clicks, checks, troubles}' \subseteq Nat
    BY <1>1 DEF Kept, TypeOK, counters, Calls
  <2> QED BY <1>1, <2>1, <2>2, AnsweredKept DEF host
<1>4. CASE MayPut(c)
  <2> DEFINE a == [kind |-> "saved", version |-> store.version + 1, id |-> None]
             next == [c EXCEPT !.answer = a]
  <2>1. PutServed(c) /\ Answers(t, k, a)
    BY <1>4 DEF HostPuts
  <2>2. a \in Answer /\ a.kind = "saved" /\ a.version = store.version + 1
    BY <1>2 DEF Answer, Stored
  <2> HIDE DEF a
  <2>3. /\ next \in Task /\ next.pc = c.pc /\ next.id = c.id /\ next.ver = c.ver /\ next.answer = a
    BY <1>2, <2>2, AnswerTypes
  <2>4. Step(t, k, next)
    BY <2>1, AnswerStep DEF Kept
  <2> HIDE DEF next
  <2>5. store' \in Stored /\ store'.version = store.version + 1 /\ store'.id = PutValue(c)
    BY <1>1, <1>2, <1>4, <2>1, PutEffect
  <2>6. /\ SubmittedKept' /\ GrantsAsked' /\ Closed' = Closed
        /\ \A d \in Calls : SaveKept(d, store', Closed')
    BY <1>1, <1>2, <1>4, <2>1, PutKeeps
  <2>7. RestTypes' /\ Grows
    BY <1>1, <2>5 DEF Kept, TypeOK, RestTypes, Stored, Grows, Later, history, counters
  <2>8. PutCurrent(next, store')
    <3>1. PutCurrent(c, store')
      BY <1>2, <2>5, GoodLater DEF Kept, CallsGood, Later
    <3> QED BY <2>3, <3>1 DEF PutCurrent
  <2>9. PutValue(next) = PutValue(c)
    BY <2>3 DEF PutValue
  <2>10. AnswerCurrent(next, store') /\ SaveKept(next, store', Closed')
    <3>1. c.pc = "save" => PutValue(c) = c.id
      BY DEF PutValue, Clearing
    <3> QED BY <1>2, <2>2, <2>3, <2>5, <2>9, <3>1 DEF AnswerCurrent, SaveKept, Knows, Stored
  <2>11. Justified(next, confirmed', reviewed', refused', submitted')
    BY <1>1, <1>2, <2>2, <2>3 DEF Kept, CallsGood, Justified, history
  <2>12. Busy(c) /\ next.pc # "grant"
    BY <1>1, <2>3 DEF Busy, Putting, Keeping, Clearing
  <2>13. version' \in [Tabs -> Nat] /\ version' = version /\ stray' \subseteq Calls
    BY <1>1 DEF Kept, TypeOK, Calls
  <2> QED BY <2>3, <2>4, <2>6, <2>7, <2>8, <2>10, <2>11, <2>12, <2>13, StepKept
<1> QED BY <1>3, <1>4

\* What is asked for was submitted, so the game may give it or the host may
\* reject it, as it has answered before.
LEMMA GrantEffect ==
  ASSUME Kept, NEW c \in Calls, c.pc = "grant"
  PROVE  /\ c.id \in submitted /\ c.id \in Ids
         /\ MayGrant(c.id) => granted \cup {c.id} \subseteq submitted
                            /\ (Consistent => (granted \cup {c.id}) \cap refused = {})
         /\ MayRefuse(c.id) => (Consistent => granted \cap (refused \cup {c.id}) = {})
<1>1. c.id \in submitted /\ c.id \in Ids
  BY DEF Kept, CallsGood, Justified, TypeOK
<1> QED BY <1>1 DEF MayGrant, MayRefuse, Kept, GrantsAsked

\* The game gives only what was asked for.
LEMMA HostGrantsKept ==
  ASSUME Kept, NEW t \in Tabs, NEW k \in Kinds, HostGrants(t, k)
  PROVE  Kept'
<1> DEFINE c == task[t][k]
<1>1. /\ c \in Calls /\ c.pc = "grant" /\ MayGrant(c.id) /\ granted' = granted \cup {c.id}
      /\ UNCHANGED <<store, refused, version, payloadOf, stray, history, counters>>
  BY CallTypes DEF HostGrants, Kept
<1>2. PICK kind \in {"ok", "uncertain"} : Answers(t, k, Answered(kind))
  BY DEF HostGrants
<1> DEFINE next == [c EXCEPT !.answer = Answered(kind)]
<1>3. /\ next \in Task /\ next.pc = c.pc /\ next.id = c.id
      /\ PutCurrent(next, store) /\ AnswerCurrent(next, store) /\ SaveKept(next, store, Closed)
      /\ Justified(next, confirmed, reviewed, refused, submitted)
  BY <1>1, AnsweredGood
<1>4. Step(t, k, next)
  BY <1>2, AnswerStep DEF Kept
<1>5. Busy(c)
  BY <1>1 DEF Busy
<1>6. ~Concurrent /\ next.pc = "grant" => k = "confirm" /\ Knows(store, version[t], next.id)
  BY <1>3 DEF Kept, OneHandler
<1> HIDE DEF next
<1>7. /\ store' = store /\ confirmed' = confirmed /\ reviewed' = reviewed /\ refused' = refused
      /\ submitted' = submitted /\ version' = version /\ Closed' = Closed /\ stray' \subseteq Calls
      /\ version' \in [Tabs -> Nat]
  BY <1>1 DEF history, Closed, Calls, Kept, TypeOK
<1>8. GrantsAsked' /\ granted' \subseteq Ids
  BY <1>1, <1>7, GrantEffect DEF GrantsAsked, Kept, TypeOK
<1>9. RestTypes' /\ Grows /\ SubmittedKept' /\ \A d \in Calls : SaveKept(d, store', Closed')
  BY <1>1, <1>7, <1>8
     DEF Kept, TypeOK, RestTypes, Stored, Grows, Later, SubmittedKept, CallsGood, counters
<1> QED BY <1>3, <1>4, <1>5, <1>6, <1>7, <1>8, <1>9, StepKept

\* A rejection closes a request for good if the host is consistent.
LEMMA HostRefusesKept ==
  ASSUME Kept, NEW t \in Tabs, NEW k \in Kinds, HostRefuses(t, k)
  PROVE  Kept'
<1> DEFINE c == task[t][k]
           next == [c EXCEPT !.answer = Answered("rejected")]
<1>1. /\ c \in Calls /\ c.pc = "grant" /\ MayRefuse(c.id) /\ refused' = refused \cup {c.id}
      /\ Answers(t, k, Answered("rejected"))
      /\ UNCHANGED <<store, granted, version, payloadOf, stray, history, counters>>
  BY CallTypes DEF HostRefuses, Kept
<1>2. /\ next \in Task /\ next.pc = c.pc /\ next.id = c.id
      /\ next.answer.kind = "rejected"
  BY CallTypes, AnswerTypes, AnsweredTypes DEF Kept
<1>3. Step(t, k, next)
  BY <1>1, AnswerStep DEF Kept
<1> HIDE DEF next
<1>4. Busy(c)
  BY <1>1 DEF Busy
<1>5. ~Concurrent /\ next.pc = "grant" => k = "confirm" /\ Knows(store, version[t], next.id)
  BY <1>2 DEF Kept, OneHandler
<1>6. /\ store' = store /\ confirmed' = confirmed /\ reviewed' = reviewed /\ granted' = granted
      /\ submitted' = submitted /\ version' = version /\ Closed \subseteq Closed' /\ stray' \subseteq Calls
      /\ version' \in [Tabs -> Nat] /\ c.id \in submitted /\ c.id \in Ids
  BY <1>1, GrantEffect DEF history, Closed, Calls, Kept, TypeOK
<1>7. GrantsAsked' /\ refused' \subseteq Ids
  BY <1>1, <1>6, GrantEffect DEF GrantsAsked, Kept, TypeOK
<1>8. RestTypes' /\ Grows /\ SubmittedKept' /\ \A d \in Calls : SaveKept(d, store', Closed')
  <2>1. RestTypes' /\ Grows
    BY <1>1, <1>6, <1>7 DEF Kept, TypeOK, RestTypes, Stored, Grows, Later, counters
  <2>2. SubmittedKept' /\ \A d \in Calls : SaveKept(d, store', Closed')
    BY <1>6 DEF Kept, SubmittedKept, CallsGood, SaveKept
  <2> QED BY <2>1, <2>2
<1>9. /\ PutCurrent(next, store') /\ AnswerCurrent(next, store') /\ SaveKept(next, store', Closed')
      /\ Justified(next, confirmed', reviewed', refused', submitted')
  BY <1>1, <1>2, <1>6 DEF PutCurrent, AnswerCurrent, SaveKept, Justified
<1> QED BY <1>2, <1>3, <1>4, <1>5, <1>6, <1>7, <1>8, <1>9, StepKept

\* A call that fails says nothing of the stored request.
LEMMA HostFailsKept ==
  ASSUME Kept, NEW t \in Tabs, NEW k \in Kinds, HostFails(t, k)
  PROVE  Kept'
<1>1. /\ task[t][k].pc \in Awaiting /\ stray' \subseteq Calls
      /\ {clicks, checks, troubles}' \subseteq Nat
  BY DEF HostFails, Pending, Kept, TypeOK, Calls
<1>2. PICK kind \in {"uncertain", "failed"} : Answers(t, k, Answered(kind))
  BY DEF HostFails
<1> QED BY <1>1, <1>2, AnsweredKept DEF HostFails

\* The host serves a call that nobody waits for: no handler takes a step.
LEMMA HostServesStrayKept ==
  ASSUME Kept, NEW c \in stray, HostServesStray(c)
  PROVE  Kept'
<1>1. /\ c \in Calls /\ store \in Stored /\ stray' \subseteq stray
      /\ UNCHANGED <<payloadOf, version, task, history, counters>>
  BY CallTypes DEF HostServesStray, Calls, Kept
<1>2. \/ c.pc \in Putting /\ MayPut(c) /\ PutServed(c) /\ UNCHANGED <<granted, refused>>
      \/ /\ c.pc = "grant" /\ MayGrant(c.id) /\ granted' = granted \cup {c.id}
         /\ UNCHANGED <<store, refused>>
      \/ /\ c.pc = "grant" /\ MayRefuse(c.id) /\ refused' = refused \cup {c.id}
         /\ UNCHANGED <<store, granted>>
  BY DEF HostServesStray
<1> DEFINE Effect == /\ store' \in Stored /\ Later(store, store')
                     /\ refused \subseteq refused' /\ refused' \subseteq Ids /\ granted' \subseteq Ids
                     /\ SubmittedKept' /\ GrantsAsked'
                     /\ \A d \in Calls : SaveKept(d, store', Closed')
<1>3. Effect
  <2>0. /\ confirmed' = confirmed /\ reviewed' = reviewed /\ submitted' = submitted
        /\ granted \subseteq Ids /\ refused \subseteq Ids
    BY <1>1 DEF history, Kept, TypeOK
  <2>1. CASE c.pc \in Putting /\ MayPut(c) /\ PutServed(c) /\ UNCHANGED <<granted, refused>>
    BY <1>1, <2>0, <2>1, PutEffect, PutKeeps DEF Later
  <2>2. CASE /\ c.pc = "grant" /\ MayGrant(c.id) /\ granted' = granted \cup {c.id}
             /\ UNCHANGED <<store, refused>>
    <3>1. Closed' = Closed
      BY <2>0, <2>2 DEF Closed
    <3> QED BY <1>1, <2>0, <2>2, <3>1, GrantEffect
            DEF Later, Kept, SubmittedKept, GrantsAsked, CallsGood
  <2>3. CASE /\ c.pc = "grant" /\ MayRefuse(c.id) /\ refused' = refused \cup {c.id}
             /\ UNCHANGED <<store, granted>>
    <3>1. Closed \subseteq Closed'
      BY <2>0, <2>3 DEF Closed
    <3>2. c.id \in Ids /\ GrantsAsked'
      BY <1>1, <2>0, <2>3, GrantEffect DEF Kept, GrantsAsked
    <3> QED BY <1>1, <2>0, <2>3, <3>1, <3>2 DEF Later, Kept, SubmittedKept, CallsGood, SaveKept
  <2> QED BY <1>2, <2>1, <2>2, <2>3
<1>4. RestTypes' /\ Grows
  BY <1>1, <1>3 DEF Kept, TypeOK, RestTypes, Grows, history, counters
<1>5. TypeOK'
  BY <1>1, <1>4 DEF Kept, TypeOK, RestTypes, Stored
<1>6. CallsGood'
  <2>1. \A d \in Calls' : d \in Calls
    BY <1>1 DEF Calls, Tasks
  <2> QED BY <1>3, <1>4, <2>1, CallsAfter
<1>7. OneHandler'
  <2>1. ASSUME NEW u \in Tabs, NEW id, Knows(store, version[u], id)
        PROVE  Knows(store', version[u], id)
    BY <1>1, <1>3, <2>1, KnowsLater DEF Kept, TypeOK
  <2> QED BY <1>1, <2>1 DEF Kept, OneHandler, Busy
<1> QED BY <1>3, <1>5, <1>6, <1>7 DEF Kept

-----------------------------------------------------------------------------
(* One tab *)

\* A fresh installation has submitted nothing.
LEMMA InitOnePage == Init => OnePage
<1> SUFFICES ASSUME Init PROVE OnePage
  OBVIOUS
<1>1. "opening" \in Awaiting /\ None \in Ids \cup {None}
  BY DEF Awaiting, Getting
<1>2. \A t \in Tabs, k \in Kinds : task[t][k].pc \in {"idle", "opening"}
  BY <1>1, TaskTypes DEF Init, Opening
<1>3. "confirm" \in Kinds
  BY DEF Kinds
<1> QED BY <1>2, <1>3 DEF Init, OnePage, Submitting

\* Everything that a tab may still learn is of the past.
LEMMA AnswerPast ==
  ASSUME Kept, NEW t \in Tabs, NEW k \in Kinds, task[t][k].answer.kind \in {"found", "saved"}
  PROVE  task[t][k].answer.version <= store.version
BY CallTypes DEF Kept, CallsGood, AnswerCurrent, Knows

\* A handler takes a step and stores nothing: what was undisturbed stays so.
LEMMA PageStep ==
  ASSUME Kept, OnePage, NEW t \in Tabs, NEW k \in Kinds, NEW next \in Task, Step(t, k, next),
         UNCHANGED store,
         stray' = stray \/ (k = "confirm" /\ ~Submitting(next))
           \/ \A d \in stray' \ stray : d.pc # "save",
         next.pc \in {"save", "grant"} => k = "confirm",
         Submitting(next) => Submitting(task[t][k]) /\ next.id = task[t][k].id,
         UNCHANGED version \/ (/\ Refreshed(t, task[t][k].answer)
                               /\ task[t][k].answer.kind \in {"found", "saved"})
  PROVE  OnePage'
<1>0. "confirm" \in Kinds
  BY DEF Kinds
<1>1. /\ task'[t][k] = next
      /\ \A u \in Tabs, j \in Kinds : u # t \/ j # k => task'[u][j] = task[u][j]
  BY TaskStep DEF Kept
<1>2. \A u \in Tabs, j \in Kinds : task'[u][j].pc \in {"save", "grant"} => j = "confirm"
  BY <1>1 DEF OnePage
<1>3. ASSUME NEW u \in Tabs PROVE version'[u] <= store'.version
  <2>1. CASE UNCHANGED version
    BY <2>1 DEF OnePage
  <2>2. CASE Refreshed(t, task[t][k].answer) /\ task[t][k].answer.kind \in {"found", "saved"}
    BY <2>2, AnswerPast, RefreshedTypes DEF OnePage, Kept
  <2> QED BY <2>1, <2>2
<1>4. ASSUME Alone, NEW u \in Tabs, Submitting(task'[u]["confirm"])
      PROVE  Undisturbed(task'[u]["confirm"], store', stray')
  <2>1. u = t
    BY <1>4 DEF Alone
  <2>2. Submitting(task[u]["confirm"]) /\ task'[u]["confirm"].id = task[u]["confirm"].id
    BY <1>0, <1>1, <1>4, <2>1
  <2>3. Undisturbed(task[u]["confirm"], store, stray)
    BY <1>4, <2>2 DEF OnePage
  <2>4. \A d \in stray' : d.pc = "save" => d \in stray
    BY <1>1, <1>4, <2>1
  <2> QED BY <2>2, <2>3, <2>4 DEF Undisturbed
<1> QED BY <1>2, <1>3, <1>4 DEF OnePage

\* A handler goes on to a state in which it has submitted nothing.
LEMMA PageMoves ==
  ASSUME Kept, OnePage, NEW t \in Tabs, NEW k \in Kinds, NEW next \in Task, Step(t, k, next),
         UNCHANGED <<host, stray>>, next.answer.kind = "none", next.pc # "grant",
         next.pc = "save" => k = "confirm",
         UNCHANGED version \/ (/\ Refreshed(t, task[t][k].answer)
                               /\ task[t][k].answer.kind \in {"found", "saved"})
  PROVE  OnePage'
BY PageStep DEF Submitting, host

\* The calls that a click sends and those that later steps of a handler send are
\* tasks without an answer; only confirmSaved goes on to a grant.
LEMMA PageCalls ==
  ASSUME Kept, NEW id \in Ids \cup {None}, NEW ver \in Nat
  PROVE  /\ \A pc \in Awaiting \ {"save", "grant"} :
              /\ Call(pc, id, ver) \in Task /\ Call(pc, id, ver).answer.kind = "none"
              /\ Call(pc, id, ver).pc \notin {"save", "grant"}
         /\ Call("save", id, ver) \in Task /\ Call("save", id, ver).answer.kind = "none"
         /\ Call("save", id, ver).pc = "save"
         /\ Asking(id) \in Task /\ Asking(id).answer.kind = "none"
         /\ Asking(id).pc \notin {"save", "grant"}
         /\ Idle \in Task /\ Idle.answer.kind = "none" /\ Idle.pc \notin {"save", "grant"}
<1>1. "save" \in Awaiting
  BY DEF Awaiting, Putting, Keeping
<1> QED BY <1>1, TaskTypes

\* Clicks submit nothing.
LEMMA ClickPage ==
  ASSUME Kept, OnePage, NEW t \in Tabs, Clicks(t)
  PROVE  OnePage'
<1>1. {"load", "review", "look"} \subseteq Awaiting \ {"save", "grant"}
      /\ {"confirm", "discard", "check"} = Kinds /\ None \in Ids \cup {None}
  BY DEF Awaiting, Getting, Kinds
<1>2. PICK k \in Kinds, pc \in {"load", "review", "look"} :
        Step(t, k, Call(pc, None, 0)) /\ UNCHANGED <<host, stray, version>>
  BY <1>1 DEF Clicks, clickConfirm, clickDiscard, selectContainer
<1>3. /\ Call(pc, None, 0) \in Task /\ Call(pc, None, 0).answer.kind = "none"
      /\ Call(pc, None, 0).pc \notin {"save", "grant"}
  BY <1>1, <1>2, PageCalls
<1> QED BY <1>2, <1>3, PageMoves

\* The confirm handler saves its request before it asks for the grant of it.
LEMMA ConfirmPage ==
  ASSUME Kept, OnePage, NEW t \in Tabs, confirm(t)
  PROVE  OnePage'
<1> DEFINE c == task[t]["confirm"]
<1>0. /\ "confirm" \in Kinds
      /\ {"clear", "reload", "retract", "mark", "withdraw", "refresh"} \subseteq Awaiting \ {"save", "grant"}
      /\ "grant" \in Awaiting
  BY DEF Kinds, Awaiting, Getting, Putting, Keeping, Clearing
<1>1. c \in Task /\ c.id \in Ids \cup {None} /\ None \in Ids \cup {None}
      /\ c.answer.version \in Nat /\ c.answer.id \in Ids \cup {None} /\ version[t] \in Nat
  BY <1>0, CallTypes DEF Kept, Task, Answer, TypeOK
<1> DEFINE Cached == UNCHANGED version \/ (Refreshed(t, c.answer) /\ c.answer.kind \in {"found", "saved"})
<1>2. ASSUME UNCHANGED <<host, stray>>, Cached,
             \/ Step(t, "confirm", Idle)
             \/ \E pc \in Awaiting \ {"save", "grant"}, id \in Ids \cup {None}, ver \in Nat :
                  Step(t, "confirm", Call(pc, id, ver))
             \/ \E id \in Ids, ver \in Nat : Step(t, "confirm", Call("save", id, ver))
      PROVE  OnePage'
  BY <1>0, <1>2, PageCalls, PageMoves
<1>3. CASE confirmLoaded(t)
  <2>1. Refreshed(t, c.answer) /\ c.answer.kind = "found" /\ UNCHANGED <<host, stray>>
    BY <1>3 DEF confirmLoaded
  <2>2. PICK p \in Payloads :
          \/ \E id \in Chosen(c.answer.id, p) : Step(t, "confirm", Call("save", id, c.answer.version))
          \/ Step(t, "confirm", Idle)
    BY <1>3 DEF confirmLoaded
  <2>3. \A id \in Chosen(c.answer.id, p) : id \in Ids
    BY <1>1, ChosenTypes DEF Kept
  <2> QED BY <1>1, <1>2, <2>1, <2>2, <2>3
<1>4. CASE confirmSaved(t)
  <2> DEFINE next == Call("grant", c.id, 0)
  <2>1. next \in Task /\ next.pc = "grant" /\ next.id = c.id
    BY <1>0, <1>1, CallTask
  <2>2. /\ Step(t, "confirm", next) /\ Submitting(c) /\ Cached /\ UNCHANGED <<store, stray>>
    BY <1>4 DEF confirmSaved, Submitting, host
  <2> HIDE DEF next
  <2> QED BY <1>0, <2>1, <2>2, PageStep
<1>5. CASE confirmReceipt(t)
  BY <1>0, <1>1, <1>2, <1>5 DEF confirmReceipt
<1>6. CASE confirmUnclear(t) \/ confirmRejected(t)
  BY <1>0, <1>1, <1>2, <1>6 DEF confirmUnclear, confirmRejected
<1>7. CASE confirmReread(t)
  <2>1. Cached /\ UNCHANGED <<host, stray>> /\ Step(t, "confirm", Reread(c))
    BY <1>7 DEF confirmReread
  <2> QED BY <1>0, <1>1, <1>2, <2>1 DEF Reread
<1>8. CASE confirmStored(t) \/ confirmChecked(t) \/ confirmFails(t)
  BY <1>0, <1>1, <1>2, <1>8 DEF confirmStored, confirmChecked, confirmFails
<1> QED BY <1>3, <1>4, <1>5, <1>6, <1>7, <1>8 DEF confirm

\* Discards and state checks submit nothing.
LEMMA LooksPage ==
  ASSUME Kept, OnePage, NEW t \in Tabs, discard(t) \/ handleStateCheck(t)
  PROVE  OnePage'
<1> DEFINE c == task[t]["discard"]
<1>0. /\ "discard" \in Kinds /\ "check" \in Kinds
      /\ {"again", "drop"} \subseteq Awaiting \ {"save", "grant"}
  BY DEF Kinds, Awaiting, Getting, Putting, Clearing
<1>1. c.id \in Ids \cup {None} /\ c.answer.version \in Nat /\ c.answer.id \in Ids \cup {None}
  BY <1>0, CallTypes DEF Kept, Task, Answer
<1>2. CASE handleStateCheck(t)
  <2>1. None \in Ids \cup {None}
    OBVIOUS
  <2> QED BY <1>0, <1>2, <2>1, PageCalls, PageMoves DEF handleStateCheck
<1>3. ASSUME UNCHANGED <<host, stray>>,
             UNCHANGED version \/ (Refreshed(t, c.answer) /\ c.answer.kind \in {"found", "saved"}),
             \/ Step(t, "discard", Idle)
             \/ \E pc \in {"again", "drop"}, id \in Ids \cup {None}, ver \in Nat :
                  Step(t, "discard", Call(pc, id, ver))
             \/ \E id \in Ids \cup {None} : Step(t, "discard", Asking(id))
      PROVE  OnePage'
  BY <1>0, <1>3, PageCalls, PageMoves
<1>4. CASE discardLoaded(t)
  BY <1>1, <1>3, <1>4 DEF discardLoaded
<1>5. CASE discardDecided(t)
  BY <1>1, <1>3, <1>5 DEF discardDecided
<1>6. CASE discardReread(t)
  BY <1>1, <1>3, <1>6 DEF discardReread
<1>7. CASE discardStored(t) \/ discardFails(t)
  BY <1>3, <1>7 DEF discardStored, discardFails
<1> QED BY <1>2, <1>4, <1>5, <1>6, <1>7 DEF discard

\* A failed check disables at most an idle confirmation.
LEMMA CheckFailsPage ==
  ASSUME Kept, OnePage, NEW t \in Tabs, checkFails(t)
  PROVE  OnePage'
<1>1. UNCHANGED <<store, stray, version>>
  BY DEF checkFails, host
<1>2. \A u \in Tabs, j \in Kinds : task'[u][j] \in {task[u][j], Idle, Disabled}
  BY DEF checkFails, Kept, TypeOK, Kinds
<1>3. ~Submitting(Idle) /\ ~Submitting(Disabled) /\ {Idle.pc, Disabled.pc} \cap {"save", "grant"} = {}
  BY TaskTypes DEF Submitting
<1>4. "confirm" \in Kinds
  BY DEF Kinds
<1>5. \A u \in Tabs, j \in Kinds : task'[u][j].pc \in {"save", "grant"} => j = "confirm"
  BY <1>2, <1>3 DEF OnePage
<1>6. ASSUME Alone, NEW u \in Tabs, Submitting(task'[u]["confirm"])
      PROVE  Undisturbed(task'[u]["confirm"], store', stray')
  <2>1. task'[u]["confirm"] = task[u]["confirm"]
    BY <1>2, <1>3, <1>4, <1>6
  <2> QED BY <1>1, <1>6, <2>1 DEF OnePage
<1> QED BY <1>1, <1>5, <1>6 DEF OnePage

\* The page has been opened anew and has submitted nothing yet.
LEMMA ReloadPage ==
  ASSUME Kept, OnePage, NEW t \in Tabs, Reload(t)
  PROVE  OnePage'
<1>0. "opening" \in Awaiting \ {"save", "grant"} /\ None \in Ids \cup {None} /\ "confirm" \in Kinds
  BY DEF Awaiting, Getting, Kinds
<1>1. \A k \in Kinds : Opening[k].pc \notin {"save", "grant"}
  BY <1>0, PageCalls DEF Opening
<1>2. /\ store' = store /\ version' = [version EXCEPT ![t] = 0]
      /\ task' = [task EXCEPT ![t] = Opening]
  BY DEF Reload, host
<1>3. \A u \in Tabs, j \in Kinds : task'[u][j] = IF u = t THEN Opening[j] ELSE task[u][j]
  BY <1>2 DEF Kept, TypeOK
<1>4. \A u \in Tabs, j \in Kinds : task'[u][j].pc \in {"save", "grant"} => j = "confirm"
  BY <1>1, <1>3 DEF OnePage
<1>5. \A u \in Tabs : version'[u] <= store'.version
  BY <1>2 DEF OnePage, Kept, TypeOK
<1>6. ASSUME Alone, NEW u \in Tabs PROVE ~Submitting(task'[u]["confirm"])
  <2>1. u = t
    BY <1>6 DEF Alone
  <2> QED BY <1>0, <1>1, <1>3, <2>1 DEF Submitting
<1> QED BY <1>4, <1>5, <1>6 DEF OnePage

\* An answer that changes nothing in store: a request that is submitted goes on
\* to be, and a save that fails has not been.
LEMMA AnswerPage ==
  ASSUME Kept, OnePage, NEW t \in Tabs, NEW k \in Kinds, NEW a \in Answer, Answers(t, k, a),
         a.kind = "saved" => task[t][k].pc # "save",
         UNCHANGED <<store, version>>,
         stray' = stray \/ (stray' = stray \cup {task[t][k]} /\ a.kind # "saved")
  PROVE  OnePage'
<1> DEFINE c == task[t][k]
           next == [c EXCEPT !.answer = a]
<1>1. c \in Task
  BY CallTypes DEF Kept
<1>2. next \in Task /\ next.answer = a /\ next.pc = c.pc /\ next.id = c.id
  BY <1>1, AnswerTypes
<1>3. Step(t, k, next)
  BY AnswerStep DEF Kept
<1>4. c.pc \in {"save", "grant"} => k = "confirm"
  BY DEF OnePage
<1> HIDE DEF next
<1>5. Submitting(next) => Submitting(c)
  BY <1>2 DEF Submitting
<1>6. stray' = stray \/ (k = "confirm" /\ ~Submitting(next)) \/ \A d \in stray' \ stray : d.pc # "save"
  BY <1>2, <1>4 DEF Submitting
<1> QED BY <1>2, <1>3, <1>4, <1>5, <1>6, PageStep

\* A put that is served leaves the submitted request as it is or clears it: it
\* is not an earlier save.
LEMMA PutPage ==
  ASSUME Kept, NEW c \in Calls, c.pc \in Putting, MayPut(c), PutServed(c), c.pc # "save",
         NEW mine \in Task, NEW late, late \subseteq Calls, Undisturbed(mine, store, late)
  PROVE  Undisturbed(mine, store', late)
<1>1. store' \in Stored /\ store'.version = store.version + 1 /\ store'.id = PutValue(c)
  BY PutEffect
<1>2. store'.id \in {store.id, None}
  <2>1. CASE c.pc = "mark"
    BY <1>1, <2>1 DEF Kept, CallsGood, PutCurrent, Knows, PutValue, Clearing, MayPut
  <2>2. CASE c.pc \in Clearing
    BY <1>1, <2>2 DEF PutValue
  <2> QED BY <2>1, <2>2 DEF Putting, Keeping
<1>3. \A d \in late : d.ver \in Nat
  BY CallTypes DEF Kept, Task
<1>4. store.version \in Nat
  BY DEF Kept, TypeOK
<1> QED BY <1>1, <1>2, <1>3, <1>4 DEF Undisturbed

\* A put that is served: from then on every earlier save expects the past.
LEMMA HostPutsPage ==
  ASSUME Kept, OnePage, NEW t \in Tabs, NEW k \in Kinds, HostPuts(t, k)
  PROVE  OnePage'
<1> DEFINE c == task[t][k]
<1>1. /\ c \in Task /\ c \in Calls /\ c.pc \in Putting /\ store \in Stored
      /\ UNCHANGED <<version, stray>>
  BY CallTypes DEF HostPuts, Kept
<1>2. CASE ~MayPut(c)
  <2>1. Answers(t, k, Answered("failed")) /\ UNCHANGED store
    BY <1>2 DEF HostPuts
  <2> QED BY <1>1, <2>1, AnsweredTypes, AnswerPage
<1>3. CASE MayPut(c)
  <2> DEFINE a == [kind |-> "saved", version |-> store.version + 1, id |-> None]
             next == [c EXCEPT !.answer = a]
  <2>1. PutServed(c) /\ Answers(t, k, a)
    BY <1>3 DEF HostPuts
  <2>2. a \in Answer /\ a.kind = "saved"
    BY <1>1 DEF Answer, Stored
  <2> HIDE DEF a
  <2>3. /\ next \in Task /\ next.pc = c.pc /\ next.id = c.id
    BY <1>1, <2>2, AnswerTypes
  <2>4. Step(t, k, next)
    BY <2>1, AnswerStep DEF Kept
  <2> HIDE DEF next
  <2>5. /\ task'[t][k] = next
        /\ \A u \in Tabs, j \in Kinds : u # t \/ j # k => task'[u][j] = task[u][j]
    BY <2>3, <2>4, TaskStep DEF Kept
  <2>6. store'.version = store.version + 1 /\ store'.id = PutValue(c)
    BY <1>1, <1>3, <2>1, PutEffect
  <2>7. \A u \in Tabs, j \in Kinds : task'[u][j].pc \in {"save", "grant"} => j = "confirm"
    BY <2>3, <2>5 DEF OnePage
  <2>8. \A u \in Tabs : version'[u] <= store'.version
    BY <1>1, <2>6 DEF OnePage, Kept, TypeOK
  <2>9. ASSUME Alone, NEW u \in Tabs, Submitting(task'[u]["confirm"])
        PROVE  Undisturbed(task'[u]["confirm"], store', stray')
    <3>0. u = t /\ "confirm" \in Kinds
      BY <2>9 DEF Alone, Kinds
    <3>1. CASE c.pc = "save"
      <4>1. k = "confirm" /\ task'[u]["confirm"].id = c.id
        BY <2>3, <2>5, <3>0, <3>1 DEF OnePage
      <4>2. store'.id = c.id
        BY <2>6, <3>1 DEF PutValue, Clearing
      <4>3. ASSUME NEW d \in stray, d.pc = "save" PROVE d.ver < store'.version
        <5>1. d \in Task /\ d.ver <= store.version
          BY <4>3, CallTypes DEF Calls, Kept, CallsGood, PutCurrent, Knows
        <5> QED BY <1>1, <2>6, <5>1 DEF Task, Stored
      <4> QED BY <1>1, <4>1, <4>2, <4>3 DEF Undisturbed
    <3>2. CASE c.pc # "save"
      <4> DEFINE mine == task[u]["confirm"]
      <4>1. c.pc # "grant"
        BY <1>1 DEF Putting, Keeping, Clearing
      <4>2. task'[u]["confirm"] = mine /\ mine \in Task
        BY <2>3, <2>5, <2>9, <3>0, <3>2, <4>1, CallTypes DEF Kept, Submitting
      <4>3. Undisturbed(mine, store, stray) /\ stray \subseteq Calls
        BY <2>9, <4>2 DEF OnePage, Calls
      <4> HIDE DEF mine
      <4>4. Undisturbed(mine, store', stray)
        BY <1>1, <1>3, <2>1, <3>2, <4>2, <4>3, PutPage
      <4> QED BY <1>1, <4>2, <4>4
    <3> QED BY <3>1, <3>2
  <2> QED BY <2>7, <2>8, <2>9 DEF OnePage
<1> QED BY <1>2, <1>3

\* A call that nobody waits for: if it is a save, nothing has been submitted
\* since.
LEMMA HostServesStrayPage ==
  ASSUME Kept, OnePage, NEW c \in stray, HostServesStray(c)
  PROVE  OnePage'
<1>1. /\ c \in Calls /\ store \in Stored /\ stray' \subseteq stray /\ stray \subseteq Calls
      /\ UNCHANGED <<version, task>>
  BY CallTypes DEF HostServesStray, Calls, Kept
<1>2. \/ c.pc \in Putting /\ MayPut(c) /\ PutServed(c)
      \/ UNCHANGED store
  BY DEF HostServesStray
<1>3. CASE UNCHANGED store
  BY <1>1, <1>3 DEF OnePage, Undisturbed
<1>4. CASE c.pc \in Putting /\ MayPut(c) /\ PutServed(c)
  <2>1. store'.version = store.version + 1
    BY <1>1, <1>4, PutEffect
  <2>2. \A u \in Tabs : version'[u] <= store'.version
    BY <1>1, <2>1 DEF OnePage, Kept, TypeOK, Stored
  <2>3. ASSUME Alone, NEW u \in Tabs, Submitting(task[u]["confirm"])
        PROVE  Undisturbed(task[u]["confirm"], store', stray')
    <3> DEFINE mine == task[u]["confirm"]
    <3>1. Undisturbed(mine, store, stray)
      BY <2>3 DEF OnePage
    <3>2. mine \in Task
      BY CallTypes DEF Kept, Kinds
    <3>3. c.pc # "save"
      BY <1>1, <1>4, <3>1 DEF Undisturbed, MayPut, Stored
    <3> HIDE DEF mine
    <3>4. Undisturbed(mine, store', stray)
      BY <1>1, <1>4, <3>1, <3>2, <3>3, PutPage
    <3>5. Undisturbed(mine, store', stray')
      BY <1>1, <3>4 DEF Undisturbed
    <3> QED BY <3>5 DEF mine
  <2> QED BY <1>1, <2>2, <2>3 DEF OnePage
<1> QED BY <1>2, <1>3, <1>4

\* Every step keeps it.
LEMMA NextOnePage ==
  ASSUME Kept, OnePage, [Next]_vars
  PROVE  OnePage'
<1>1. ASSUME NEW t \in Tabs, Handlers(t) PROVE OnePage'
  BY <1>1, ConfirmPage, LooksPage, CheckFailsPage DEF Handlers
<1>2. ASSUME NEW t \in Tabs, NEW k \in Kinds, HostGets(t, k) PROVE OnePage'
  <2>1. [kind |-> "found", version |-> store.version, id |-> store.id] \in Answer
    BY DEF Kept, TypeOK, Answer
  <2> QED BY <1>2, <2>1, AnswerPage DEF HostGets, host
<1>3. ASSUME NEW t \in Tabs, NEW k \in Kinds,
             HostGrants(t, k) \/ HostRefuses(t, k) \/ HostFails(t, k)
      PROVE  OnePage'
  <2>1. PICK kind \in {"ok", "uncertain", "rejected", "failed"} :
          Answers(t, k, Answered(kind)) /\ UNCHANGED <<store, version, stray>>
    BY <1>3 DEF HostGrants, HostRefuses, HostFails, host
  <2>2. Answered(kind) \in Answer /\ Answered(kind).kind # "saved"
    BY <2>1, AnsweredTypes
  <2> QED BY <2>1, <2>2, AnswerPage
<1>4. ASSUME NEW t \in Tabs, NEW k \in Kinds, TimesOut(t, k) PROVE OnePage'
  <2>1. stray' = stray \/ stray' = stray \cup {task[t][k]}
    BY <1>4 DEF TimesOut, Left
  <2>2. Answered("failed") \in Answer /\ Answered("failed").kind # "saved"
    BY AnsweredTypes
  <2> QED BY <1>4, <2>1, <2>2, AnswerPage DEF TimesOut, host
<1>5. CASE UNCHANGED vars
  BY <1>5 DEF vars, OnePage
<1> QED BY <1>1, <1>2, <1>3, <1>4, <1>5, ClickPage, ReloadPage, HostPutsPage, HostServesStrayPage
        DEF Next, Host

-----------------------------------------------------------------------------
(* The theorems *)

\* Every step keeps the invariant.
LEMMA NextKept ==
  ASSUME Kept, OnePage, [Next]_vars
  PROVE  Kept'
<1>1. ASSUME NEW t \in Tabs, Clicks(t) PROVE Kept'
  <2>1. {"confirm", "discard", "check"} = Kinds
    BY DEF Kinds
  <2>2. {clicks, checks, troubles}' \subseteq Nat
    BY <1>1 DEF Clicks, clickConfirm, clickDiscard, selectContainer, Kept, TypeOK
  <2>3. CASE clickConfirm(t)
    BY <2>1, <2>2, <2>3, ClickKept DEF clickConfirm
  <2>4. CASE clickDiscard(t)
    BY <2>1, <2>2, <2>4, ClickKept DEF clickDiscard
  <2>5. CASE selectContainer(t)
    BY <2>1, <2>2, <2>5, ClickKept DEF selectContainer
  <2> QED BY <1>1, <2>3, <2>4, <2>5 DEF Clicks
<1>2. ASSUME NEW t \in Tabs, confirm(t) PROVE Kept'
  BY <1>2, confirmLoadedKept, confirmSavedKept, confirmReceiptKept, confirmLooksKept DEF confirm
<1>3. ASSUME NEW t \in Tabs, Handlers(t) PROVE Kept'
  BY <1>2, <1>3, discardKept, handleStateCheckKept, checkFailsKept DEF Handlers
<1>4. ASSUME NEW t \in Tabs, NEW k \in Kinds, Host(t, k) \/ TimesOut(t, k) PROVE Kept'
  BY <1>4, HostGetsKept, HostPutsKept, HostGrantsKept, HostRefusesKept, HostFailsKept, TimesOutKept
     DEF Host
<1>5. CASE UNCHANGED vars
  <2>1. /\ UNCHANGED <<store, version, task, stray, granted, refused, confirmed, reviewed, submitted>>
        /\ UNCHANGED <<payloadOf, clicks, checks, troubles>>
    BY <1>5 DEF vars
  <2>2. Closed' = Closed /\ Calls' = Calls
    BY <2>1 DEF Closed, Calls, Tasks
  <2>3. CallsGood'
    BY <2>1, <2>2 DEF Kept, CallsGood
  <2>4. TypeOK' /\ OneHandler' /\ SubmittedKept' /\ GrantsAsked'
    BY <2>1, <2>2 DEF Kept, TypeOK, OneHandler, SubmittedKept, GrantsAsked
  <2> QED BY <2>3, <2>4 DEF Kept
<1> QED BY <1>1, <1>3, <1>4, <1>5, ReloadKept, HostServesStrayKept DEF Next

\* The invariant holds in every reachable state.
LEMMA AlwaysKept == Spec => [](Kept /\ OnePage)
BY InitKept, InitOnePage, NextKept, NextOnePage, PTL DEF Spec

\* The page, the host and the bridge hold what they can hold, however many tabs
\* are open and whatever they do at once.
THEOREM GrantTypeCorrect == Spec => []TypeOK
<1>1. Kept => TypeOK
  BY DEF Kept
<1> QED BY <1>1, AlwaysKept, PTL

\* No tab writes its request over that of another: puts that arrive late, or
\* from a handler that another one of its tab has overtaken, included.
THEOREM NoRequestReplaced == Spec => NeverReplaced
<1> DEFINE Kind == store'.id = store.id \/ store.id = None \/ store'.id = None
<1>1. ASSUME Kept, [Next]_vars PROVE Kind
  <2>1. ASSUME NEW c \in Calls, c.pc \in Putting, MayPut(c), PutServed(c) PROVE Kind
    BY <1>1, <2>1, PutEffect
  <2>2. CASE UNCHANGED store
    BY <2>2
  <2>3. ASSUME NEW t \in Tabs, NEW k \in Kinds, HostPuts(t, k) PROVE Kind
    BY <1>1, <2>1, <2>2, <2>3, CallTypes DEF HostPuts, Kept
  <2>4. ASSUME NEW c \in stray, HostServesStray(c) PROVE Kind
    BY <2>1, <2>2, <2>4 DEF HostServesStray, Calls
  <2>5. ASSUME NEW t \in Tabs, Clicks(t) \/ Handlers(t) \/ Reload(t) PROVE UNCHANGED store
    BY <2>5 DEF Clicks, clickConfirm, clickDiscard, selectContainer, Handlers, confirm, confirmLoaded,
                confirmSaved, confirmReceipt, confirmUnclear, confirmRejected, confirmReread,
                confirmStored, confirmChecked, confirmFails, discard, discardLoaded, discardDecided,
                discardReread, discardStored, discardFails, handleStateCheck, checkFails, Reload, host
  <2>6. ASSUME NEW t \in Tabs, NEW k \in Kinds,
               HostGets(t, k) \/ HostGrants(t, k) \/ HostRefuses(t, k) \/ HostFails(t, k) \/ TimesOut(t, k)
        PROVE  UNCHANGED store
    BY <2>6 DEF HostGets, HostGrants, HostRefuses, HostFails, TimesOut, host
  <2> QED BY <1>1, <2>2, <2>3, <2>4, <2>5, <2>6 DEF Next, Host, vars
<1>2. ASSUME Kept, [Next]_vars PROVE [Kind]_vars
  BY <1>1, <1>2
<1> QED BY <1>2, AlwaysKept, PTL DEF Spec, NeverReplaced

\* While each tab runs one handler at a time, or there is one tab only, whose
\* handlers may overlap, an ID whose outcome is open stays in the durable store,
\* whatever is lost or late.  The host must be consistent: otherwise a rejection
\* clears an ID under which an earlier call may still deliver.
THEOREM OpenRequestsStored == Separate /\ Consistent /\ Spec => []OpenIdRetained
<1>1. ASSUME Separate, Consistent PROVE Kept => OpenIdRetained
  <2> SUFFICES ASSUME Kept, NEW id \in Open PROVE store.id = id
    BY DEF OpenIdRetained
  <2>1. id \notin refused
    <3>1. SUFFICES ASSUME id \in refused PROVE ~MayBeDelivered(id)
      BY DEF Open
    <3>2. id \notin granted /\ ~MayGrant(id)
      BY <1>1, <3>1 DEF Kept, GrantsAsked, MayGrant
    <3> QED BY <3>2 DEF MayBeDelivered
  <2>2. id \in submitted /\ id \notin Closed
    BY <2>1 DEF Open, Closed
  <2> QED BY <1>1, <2>2 DEF Kept, SubmittedKept
<1>2. ASSUME Separate, Consistent PROVE Spec => []OpenIdRetained
  BY <1>1, <1>2, AlwaysKept, PTL
<1> QED BY <1>2

\* Under the same conditions at most one grant has reached the game
\* that nobody has a receipt for or has reviewed.
THEOREM OneOpenGrant == Separate /\ Consistent /\ Spec => []AtMostOneOpenGrant
<1>1. ASSUME Separate, Consistent PROVE Kept => AtMostOneOpenGrant
  <2> SUFFICES ASSUME Kept PROVE AtMostOneOpenGrant
    OBVIOUS
  <2>1. granted \ (confirmed \cup reviewed) \subseteq {store.id}
    BY <1>1 DEF Kept, SubmittedKept, GrantsAsked, Closed
  <2>2. CASE granted \ (confirmed \cup reviewed) = {}
    BY <2>2, FS_EmptySet DEF AtMostOneOpenGrant
  <2>3. CASE granted \ (confirmed \cup reviewed) = {store.id}
    <3>1. Cardinality({store.id}) = 1
      BY FS_Singleton
    <3> QED BY <2>3, <3>1 DEF AtMostOneOpenGrant
  <2> QED BY <2>1, <2>2, <2>3
<1>2. ASSUME Separate, Consistent PROVE Spec => []AtMostOneOpenGrant
  BY <1>1, <1>2, AlwaysKept, PTL
<1> QED BY <1>2
=============================================================================
