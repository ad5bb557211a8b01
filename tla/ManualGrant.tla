----------------------------- MODULE ManualGrant -----------------------------
(***************************************************************************)
(* Manual grants from the console addon.  Several tabs share one durable   *)
(* request in addon storage, written with compare-and-swap on a version.   *)
(* Each tab keeps one cached version for all its asynchronous tasks: the   *)
(* confirm handler, the discard handler and the state checks.  Every       *)
(* bridge call may fail or time out, and a call that timed out may still   *)
(* take effect on the host.                                                *)
(***************************************************************************)
EXTENDS Naturals, FiniteSets, Sequences

CONSTANTS
  Tabs,        \* open pages of the addon
  Payloads,    \* what can be granted: item, quantity, container and player
  Concurrent,  \* TRUE: a tab may run several of its tasks at once
  Consistent,  \* TRUE: the host answers a request ID always alike
  Timeouts,    \* TRUE: a bridge call may outlast its timer
  MaxClicks,   \* bound: clicks on confirm and on discard
  MaxChecks,   \* bound: clicks on a container
  MaxTroubles  \* bound: bridge calls that fail, and reloads

ASSUME SwitchesAssumption == {Concurrent, Consistent, Timeouts} \subseteq BOOLEAN
ASSUME LimitsAssumption == MaxClicks \in Nat /\ MaxChecks \in Nat /\ MaxTroubles \in Nat

VARIABLES
  store,      \* the stored request and its version, on the host
  payloadOf,  \* the payloads with which request IDs 1, 2, ... were drawn
  version,    \* version[t]: what the grant store of tab t last saw
  task,       \* task[t][k]: the handler of kind k in tab t
  stray,      \* timed-out calls the host may still serve
  granted,    \* request IDs whose items the game has given
  refused,    \* request IDs the host has rejected
  confirmed,  \* history: IDs for which some tab got a receipt
  reviewed,   \* history: IDs that an administrator discarded after a check
  submitted,  \* history: IDs for which a grant was requested
  clicks,     \* clicks on confirm and on discard so far
  checks,     \* clicks on a container so far
  troubles    \* failed calls and reloads so far

vars == <<store, payloadOf, version, task, stray, granted, refused, confirmed,
          reviewed, submitted, clicks, checks, troubles>>

host == <<store, granted, refused>>
history == <<confirmed, reviewed, submitted>>
counters == <<clicks, checks, troubles>>

-----------------------------------------------------------------------------
(* Tasks and calls *)

Ids == 1..MaxClicks   \* a click draws at most one
None == 0          \* no request is stored: a versioned null, or nothing yet

Kinds == {"confirm", "discard", "check"}

\* Where a handler awaits a bridge call, by what the call does.
Getting == {"load", "reload", "retract", "refresh", "review", "again", "look", "opening"}
Keeping == {"save", "mark"}
Clearing == {"clear", "withdraw", "drop"}
Putting == Keeping \cup Clearing
Awaiting == Getting \cup Putting \cup {"grant"}

\* What the host has answered to the call a handler awaits.
Answer == [kind : {"none", "found", "saved", "ok", "uncertain", "rejected", "failed"},
           version : Nat, id : Ids \cup {None}]
Answered(kind) == [kind |-> kind, version |-> 0, id |-> None]
NoAnswer == Answered("none")

\* ver is the expectedVersion that a put was sent with.
Idle == [pc |-> "idle", id |-> None, ver |-> 0, answer |-> NoAnswer]
Disabled == [Idle EXCEPT !.pc = "disabled"]
Asking(id) == [Idle EXCEPT !.pc = "asking", !.id = id]
Call(pc, id, ver) == [pc |-> pc, id |-> id, ver |-> ver, answer |-> NoAnswer]

Task == [pc : Awaiting \cup {"idle", "disabled", "asking"}, id : Ids \cup {None},
         ver : Nat, answer : Answer]

\* The value that a put stores.
PutValue(c) == IF c.pc \in Clearing THEN None ELSE c.id

\* A page that has just been opened checks the stored request first.
Opening == [k \in Kinds |-> IF k = "check" THEN Call("opening", None, 0) ELSE Idle]

Init ==
  /\ store = [version |-> 0, id |-> None]
  /\ payloadOf = <<>>
  /\ version = [t \in Tabs |-> 0]
  /\ task = [t \in Tabs |-> Opening]
  /\ stray = {}
  /\ granted = {}
  /\ refused = {}
  /\ confirmed = {}
  /\ reviewed = {}
  /\ submitted = {}
  /\ clicks = 0
  /\ checks = 0
  /\ troubles = 0

-----------------------------------------------------------------------------
(* The host *)

\* A bug: the host ignores the expected version.
WrongMayPut(c) == TRUE

\* addon.storage.put with expectedVersion; null stands for version 0.
MayPut(c) == c.ver = store.version

PutServed(c) == store' = [version |-> store.version + 1, id |-> PutValue(c)]

\* admin.items.grant is idempotent per request ID.  A host that is not
\* consistent may reject an ID now and grant it later, as the reason for the
\* rejection passes.
MayGrant(id) == Consistent => id \notin refused
MayRefuse(id) == Consistent => id \notin granted

Pending(t, k) == task[t][k].pc \in Awaiting /\ task[t][k].answer = NoAnswer

Answers(t, k, answer) == task' = [task EXCEPT ![t][k].answer = answer]

HostGets(t, k) ==
  /\ Pending(t, k) /\ task[t][k].pc \in Getting
  /\ Answers(t, k, [kind |-> "found", version |-> store.version, id |-> store.id])
  /\ UNCHANGED <<host, version, payloadOf, stray, history, counters>>

HostPuts(t, k) ==
  /\ Pending(t, k) /\ task[t][k].pc \in Putting
  /\ IF MayPut(task[t][k])
     THEN /\ PutServed(task[t][k])
          /\ Answers(t, k, [kind |-> "saved", version |-> store.version + 1, id |-> None])
     ELSE /\ Answers(t, k, Answered("failed"))
          /\ UNCHANGED store
  /\ UNCHANGED <<granted, refused, version, payloadOf, stray, history, counters>>

HostGrants(t, k) ==
  /\ Pending(t, k) /\ task[t][k].pc = "grant"
  /\ MayGrant(task[t][k].id)
  /\ granted' = granted \cup {task[t][k].id}
  /\ \E kind \in {"ok", "uncertain"} : Answers(t, k, Answered(kind))
  /\ UNCHANGED <<store, refused, version, payloadOf, stray, history, counters>>

HostRefuses(t, k) ==
  /\ Pending(t, k) /\ task[t][k].pc = "grant"
  /\ MayRefuse(task[t][k].id)
  /\ refused' = refused \cup {task[t][k].id}
  /\ Answers(t, k, Answered("rejected"))
  /\ UNCHANGED <<store, granted, version, payloadOf, stray, history, counters>>

\* Storage or the bridge fails without an effect; to a grant that is an
\* outcome nobody knows.
HostFails(t, k) ==
  /\ Pending(t, k)
  /\ troubles < MaxTroubles
  /\ troubles' = troubles + 1
  /\ Answers(t, k, Answered(IF task[t][k].pc = "grant" THEN "uncertain" ELSE "failed"))
  /\ UNCHANGED <<host, version, payloadOf, stray, history, clicks, checks>>

\* A call whose tab has given up on it.
HostServesStray(c) ==
  /\ c \in stray
  /\ stray' = stray \ {c}
  /\ \/ /\ c.pc \in Putting /\ MayPut(c)
        /\ PutServed(c)
        /\ UNCHANGED <<granted, refused>>
     \/ /\ c.pc = "grant" /\ MayGrant(c.id)
        /\ granted' = granted \cup {c.id}
        /\ UNCHANGED <<store, refused>>
     \/ /\ c.pc = "grant" /\ MayRefuse(c.id)
        /\ refused' = refused \cup {c.id}
        /\ UNCHANGED <<store, granted>>
  /\ UNCHANGED <<payloadOf, version, task, history, counters>>

-----------------------------------------------------------------------------
(* The confirm handler *)

Step(t, k, next) == task' = [task EXCEPT ![t][k] = next]

\* The answer of a get or a put refreshes the version that all handlers of
\* the tab share.
Refreshed(t, a) == version' = [version EXCEPT ![t] = a.version]

\* The handlers of one tab that a click may start.
MayStart(t, k) ==
  /\ task[t][k].pc = "idle"
  /\ ~Concurrent => \A other \in Kinds : task[t][other].pc \in {"idle", "disabled"}

clickConfirm(t) ==
  /\ MayStart(t, "confirm")
  /\ clicks < MaxClicks
  /\ clicks' = clicks + 1
  /\ Step(t, "confirm", Call("load", None, 0))
  /\ UNCHANGED <<host, version, payloadOf, stray, history, checks, troubles>>

\* A new request ID, which has not been used before.
Fresh == IF Len(payloadOf) < MaxClicks THEN {Len(payloadOf) + 1} ELSE {}

\* A bug: a stored request that is still pending is replaced by a new one.
WrongChosen(id, p) == Fresh

\* A bug: the last ID is used again.
UndrawnChosen(id, p) ==
  IF id = None THEN {Len(payloadOf)} ELSE IF payloadOf[id] = p THEN {id} ELSE {}

\* determineActionAndState: a stored request with the same payload goes on
\* under its ID, another payload is turned away, and without a stored
\* request a new ID is drawn.  Both statuses lead to the same decisions.
Chosen(id, p) ==
  IF id = None THEN Fresh ELSE IF payloadOf[id] = p THEN {id} ELSE {}

confirmLoaded(t) ==
  LET c == task[t]["confirm"]
      a == c.answer
  IN /\ c.pc = "load" /\ a.kind = "found"
     /\ Refreshed(t, a)
     /\ \E p \in Payloads :
          \/ \E id \in Chosen(a.id, p) :
               /\ Step(t, "confirm", Call("save", id, a.version))
               /\ payloadOf' = IF {id} = Fresh THEN Append(payloadOf, p) ELSE payloadOf
          \/ /\ a.id # None /\ Chosen(a.id, p) = {}
             /\ Step(t, "confirm", Idle)
             /\ UNCHANGED payloadOf
     /\ UNCHANGED <<host, stray, history, counters>>

\* A bug: a request that could not be saved is granted from memory.
LaxConfirmSaved(t) ==
  LET c == task[t]["confirm"]
  IN /\ c.pc = "save" /\ c.answer.kind \in {"saved", "failed"}
     /\ Refreshed(t, c.answer)
     /\ Step(t, "confirm", Call("grant", c.id, 0))
     /\ submitted' = submitted \cup {c.id}
     /\ UNCHANGED <<host, payloadOf, stray, confirmed, reviewed, counters>>

confirmSaved(t) ==
  LET c == task[t]["confirm"]
  IN /\ c.pc = "save" /\ c.answer.kind = "saved"
     /\ Refreshed(t, c.answer)
     /\ Step(t, "confirm", Call("grant", c.id, 0))
     /\ submitted' = submitted \cup {c.id}
     /\ UNCHANGED <<host, payloadOf, stray, confirmed, reviewed, counters>>

confirmReceipt(t) ==
  LET c == task[t]["confirm"]
  IN /\ c.pc = "grant" /\ c.answer.kind = "ok"
     /\ confirmed' = confirmed \cup {c.id}
     /\ Step(t, "confirm", Call("clear", c.id, version[t]))
     /\ UNCHANGED <<host, version, payloadOf, stray, reviewed, submitted, counters>>

\* The receipt was not ok, the call timed out, or the receipt was ok but the
\* request could not be cleared.
Ambiguous(c) == \/ c.pc = "grant" /\ c.answer.kind \in {"uncertain", "failed"}
                \/ c.pc = "clear" /\ c.answer.kind = "failed"

confirmUnclear(t) ==
  LET c == task[t]["confirm"]
  IN /\ Ambiguous(c)
     /\ Step(t, "confirm", Call("reload", c.id, 0))
     /\ UNCHANGED <<host, version, payloadOf, stray, history, counters>>

confirmRejected(t) ==
  LET c == task[t]["confirm"]
  IN /\ c.pc = "grant" /\ c.answer.kind = "rejected"
     /\ Step(t, "confirm", Call("retract", c.id, 0))
     /\ UNCHANGED <<host, version, payloadOf, stray, history, counters>>

\* A bug: an unclear outcome is taken for a rejection.
WrongReread(c) ==
  IF c.answer.id = c.id THEN Call("withdraw", c.id, c.answer.version) ELSE Idle

\* After an unclear outcome the stored request is marked UNCERTAIN, after a
\* rejection it is cleared, if it still is the submitted one.
Reread(c) ==
  IF c.answer.id = c.id
  THEN Call(IF c.pc = "reload" THEN "mark" ELSE "withdraw", c.id, c.answer.version)
  ELSE IF c.pc = "reload" THEN Call("refresh", None, 0) ELSE Idle

confirmReread(t) ==
  LET c == task[t]["confirm"]
  IN /\ c.pc \in {"reload", "retract"} /\ c.answer.kind = "found"
     /\ Refreshed(t, c.answer)
     /\ Step(t, "confirm", Reread(c))
     /\ UNCHANGED <<host, payloadOf, stray, history, counters>>

\* A put of the handler's last steps has been answered: what follows is the
\* state check of selectContainer or of the catch block, or nothing.
confirmStored(t) ==
  LET c == task[t]["confirm"]
  IN /\ c.pc \in {"clear", "mark", "withdraw"} /\ c.answer.kind = "saved"
     /\ Refreshed(t, c.answer)
     /\ Step(t, "confirm", IF c.pc = "withdraw" THEN Idle ELSE Call("refresh", None, 0))
     /\ UNCHANGED <<host, payloadOf, stray, history, counters>>

confirmChecked(t) ==
  LET c == task[t]["confirm"]
  IN /\ c.pc = "refresh" /\ c.answer.kind = "found"
     /\ Refreshed(t, c.answer)
     /\ Step(t, "confirm", Idle)
     /\ UNCHANGED <<host, payloadOf, stray, history, counters>>

\* Any other storage call that fails ends the handler.
confirmFails(t) ==
  LET c == task[t]["confirm"]
  IN /\ c.answer.kind = "failed" /\ ~Ambiguous(c)
     /\ Step(t, "confirm", Idle)
     /\ UNCHANGED <<host, version, payloadOf, stray, history, counters>>

confirm(t) ==
  \/ confirmLoaded(t) \/ confirmSaved(t) \/ confirmReceipt(t) \/ confirmUnclear(t)
  \/ confirmRejected(t) \/ confirmReread(t) \/ confirmStored(t) \/ confirmChecked(t)
  \/ confirmFails(t)

-----------------------------------------------------------------------------
(* The discard handler and the state checks *)

clickDiscard(t) ==
  /\ MayStart(t, "discard")
  /\ clicks < MaxClicks
  /\ clicks' = clicks + 1
  /\ Step(t, "discard", Call("review", None, 0))
  /\ UNCHANGED <<host, version, payloadOf, stray, history, checks, troubles>>

discardLoaded(t) ==
  LET c == task[t]["discard"]
      a == c.answer
  IN /\ c.pc = "review" /\ a.kind = "found"
     /\ Refreshed(t, a)
     /\ Step(t, "discard", IF a.id = None THEN Idle ELSE Asking(a.id))
     /\ UNCHANGED <<host, payloadOf, stray, history, counters>>

\* The administrator has checked whether the request was delivered.
discardDecided(t) ==
  LET c == task[t]["discard"]
  IN /\ c.pc = "asking"
     /\ \/ /\ reviewed' = reviewed \cup {c.id}
           /\ Step(t, "discard", Call("again", c.id, 0))
        \/ /\ Step(t, "discard", Idle)
           /\ UNCHANGED reviewed
     /\ UNCHANGED <<host, version, payloadOf, stray, confirmed, submitted, counters>>

discardReread(t) ==
  LET c == task[t]["discard"]
      a == c.answer
  IN /\ c.pc = "again" /\ a.kind = "found"
     /\ Refreshed(t, a)
     /\ Step(t, "discard", IF a.id = c.id THEN Call("drop", c.id, a.version) ELSE Idle)
     /\ UNCHANGED <<host, payloadOf, stray, history, counters>>

discardStored(t) ==
  LET c == task[t]["discard"]
  IN /\ c.pc = "drop" /\ c.answer.kind = "saved"
     /\ Refreshed(t, c.answer)
     /\ Step(t, "discard", Idle)
     /\ UNCHANGED <<host, payloadOf, stray, history, counters>>

discardFails(t) ==
  /\ task[t]["discard"].answer.kind = "failed"
  /\ Step(t, "discard", Idle)
  /\ UNCHANGED <<host, version, payloadOf, stray, history, counters>>

discard(t) == \/ discardLoaded(t) \/ discardDecided(t) \/ discardReread(t)
              \/ discardStored(t) \/ discardFails(t)

selectContainer(t) ==
  /\ MayStart(t, "check")
  /\ checks < MaxChecks
  /\ checks' = checks + 1
  /\ Step(t, "check", Call("look", None, 0))
  /\ UNCHANGED <<host, version, payloadOf, stray, history, clicks, troubles>>

handleStateCheck(t) ==
  LET c == task[t]["check"]
  IN /\ c.pc \in {"look", "opening"} /\ c.answer.kind = "found"
     /\ Refreshed(t, c.answer)
     /\ Step(t, "check", Idle)
     /\ UNCHANGED <<host, payloadOf, stray, history, counters>>

\* If the first check fails, the page takes no confirmation.
checkFails(t) ==
  LET c == task[t]["check"]
  IN /\ c.answer.kind = "failed"
     /\ task' = [task EXCEPT ![t]["check"] = Idle,
                             ![t]["confirm"] = IF c.pc = "opening" /\ @.pc = "idle"
                                               THEN Disabled ELSE @]
     /\ UNCHANGED <<host, version, payloadOf, stray, history, counters>>

-----------------------------------------------------------------------------
(* Timeouts and reloads *)

\* What is left of a call that nobody waits for any more.
Left(c) == IF c.pc \in Putting \cup {"grant"} /\ c.answer = NoAnswer THEN {c} ELSE {}

\* A bug: a grant has no timer.
WrongTimesOut(t, k) ==
  /\ Timeouts
  /\ task[t][k].pc \in Awaiting \ {"grant"}
  /\ task[t][k].answer.kind # "failed"
  /\ stray' = stray \cup Left(task[t][k])
  /\ Answers(t, k, Answered("failed"))
  /\ UNCHANGED <<host, version, payloadOf, history, counters>>

\* The bridge's timer fires, whether or not the host has served the call; a
\* response that comes later finds no pending request.
TimesOut(t, k) ==
  /\ Timeouts
  /\ task[t][k].pc \in Awaiting
  /\ task[t][k].answer.kind # "failed"
  /\ stray' = stray \cup Left(task[t][k])
  /\ Answers(t, k, Answered("failed"))
  /\ UNCHANGED <<host, version, payloadOf, history, counters>>

\* The frame is reloaded: its handlers and its cached version are gone.
Reload(t) ==
  /\ troubles < MaxTroubles
  /\ troubles' = troubles + 1
  /\ stray' = stray \cup UNION {Left(task[t][k]) : k \in Kinds}
  /\ version' = [version EXCEPT ![t] = 0]
  /\ task' = [task EXCEPT ![t] = Opening]
  /\ UNCHANGED <<host, payloadOf, history, clicks, checks>>

-----------------------------------------------------------------------------

Host(t, k) == \/ HostGets(t, k) \/ HostPuts(t, k) \/ HostGrants(t, k)
              \/ HostRefuses(t, k) \/ HostFails(t, k)

Handlers(t) == confirm(t) \/ discard(t) \/ handleStateCheck(t) \/ checkFails(t)

Clicks(t) == clickConfirm(t) \/ clickDiscard(t) \/ selectContainer(t)

Next == \/ \E t \in Tabs : Clicks(t) \/ Handlers(t) \/ Reload(t)
        \/ \E t \in Tabs, k \in Kinds : Host(t, k) \/ TimesOut(t, k)
        \/ \E c \in stray : HostServesStray(c)

Spec == Init /\ [][Next]_vars

\* Answers are processed and timers fire.  The host need not answer and
\* nobody has to click.
Fairness == \A t \in Tabs : /\ WF_vars(confirm(t))
                            /\ WF_vars(TimesOut(t, "confirm"))

FairSpec == Spec /\ Fairness

-----------------------------------------------------------------------------
(* Properties *)

\* Every variable holds what the page, the host or the bridge can hold.
TypeOK ==
  /\ store \in [version : Nat, id : Ids \cup {None}]
  /\ payloadOf \in Seq(Payloads) /\ Len(payloadOf) <= MaxClicks
  /\ version \in [Tabs -> Nat]
  /\ task \in [Tabs -> [Kinds -> Task]]
  /\ stray \subseteq Task
  /\ granted \subseteq Ids /\ refused \subseteq Ids
  /\ confirmed \subseteq Ids /\ reviewed \subseteq Ids /\ submitted \subseteq Ids
  /\ {clicks, checks, troubles} \subseteq Nat

\* A grant under this ID has been carried out, or a call for it still may be.
MayBeDelivered(id) ==
  \/ id \in granted
  \/ /\ MayGrant(id)
     /\ \/ \E c \in stray : c.pc = "grant" /\ c.id = id
        \/ \E t \in Tabs, k \in Kinds :
             Pending(t, k) /\ task[t][k].pc = "grant" /\ task[t][k].id = id

\* The IDs of which it is open whether they were or will be delivered.  A
\* rejection settles an ID only if no other call under it can be the one that
\* delivers.
Open == submitted \ (confirmed \cup reviewed \cup {id \in refused : ~MayBeDelivered(id)})

\* Whatever calls time out, arrive late or are lost with their page, an ID
\* whose outcome nobody knows stays in the durable store: "An uncertain
\* request retains its ID until reviewed" (docs/bridge-api.md:36).
OpenIdRetained == \A id \in Open : store.id = id

\* The same intent is not granted twice by mistake: at any time at most one
\* grant has reached the game without a receipt or a review.
AtMostOneOpenGrant == Cardinality(granted \ (confirmed \cup reviewed)) <= 1

\* No tab replaces the request of another by its own, however late its put is
\* served: the stored request is cleared first.
NeverReplaced == [][store'.id = store.id \/ store.id = None \/ store'.id = None]_vars

\* The confirm button does not stay disabled: every handler ends, although
\* the host may never answer.
ConfirmEnds ==
  \A t \in Tabs : (task[t]["confirm"].pc \in Awaiting) ~> (task[t]["confirm"].pc = "idle")
=============================================================================
