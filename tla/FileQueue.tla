------------------------------ MODULE FileQueue ------------------------------
(***************************************************************************)
(* The file queue of core/files/filesync/filequeue: a table of items with  *)
(* one lock per item, owned by a single event loop (Queue.Run).  Callers   *)
(* send requests over unbuffered channels and block on a response channel; *)
(* the loop answers at once or parks the request in one of five structures.*)
(*                                                                         *)
(* A member of Reqs is a goroutine that makes one kind of call over and    *)
(* over (an uploader, the deleter, a caller of process) and releases the   *)
(* item it is given; it also names the request and the response channel of *)
(* its current call.  Item data is the part the queue looks at: the state  *)
(* a request filters on and the time the item is scheduled at.             *)
(*                                                                         *)
(* The loop is one goroutine, so a handler runs alone.  handleReleaseItem  *)
(* calls five check functions in order; each is a step of the loop here,   *)
(* and loop.pc forces the order and keeps every other request waiting.     *)
(* Timers and the clock move between handlers only: a timer that fires     *)
(* inside a handler cannot be told from one that fires next to it.         *)
(***************************************************************************)
EXTENDS Naturals, FiniteSets, SequencesExt

CONSTANTS
    Items,       \* object ids
    Reqs,        \* the callers of GetById, GetNext and GetNextScheduled
    Request,     \* the request each of them makes
    States,      \* the item states that filters tell apart
    MaxTime,     \* bound of scheduledAt; the clock runs one step further
    Cancellable, \* the callers whose context may end
    Timers,      \* bound: ids of the goroutines that scheduleItem starts
    StoreFails,  \* whether the database may return errors
    None         \* no item, no timer, not stored

Times == 0..MaxTime
Info == [state : States, at : Times]
Scheduled == [req : Reqs, at : Times, timer : Timers]
Timer == [item : Items, req : Reqs, at : Times, due : BOOLEAN]

ASSUME ConstantsAssumption ==
    /\ Request \in [Reqs -> [op : {"GetById", "GetNext", "GetNextScheduled"},
                             want : States \cup {None}, subscribe : BOOLEAN]]
    /\ Cancellable \subseteq Reqs
    /\ MaxTime \in Nat
    /\ StoreFails \in BOOLEAN
    /\ None \notin Items
    /\ None \notin Timers
    /\ None \notin States
    /\ None \notin Info
    /\ None \notin Scheduled
    /\ None \notin Timer

VARIABLES
    store,                    \* the persistent collection
    itemLocked,
    getByIdWaiters,
    dueWaiters,
    getNextWaiters,
    getNextScheduledWaiters,
    scheduled,                \* item -> its scheduledItem, or None
    timers,                   \* timer -> the goroutine's local state, or None
    watched,                  \* requests with a goroutine waiting for a ctx.Done to come
    waiting,                  \* calls blocked on their response channel
    held,                     \* call -> the item it was given, or None
    loop,                     \* what the event loop is doing
    now,
    stale,                    \* history: an outdated due message was acted on
    forgotten                 \* history: calls that a cancellation left unanswered

waitVars == <<getByIdWaiters, dueWaiters, getNextWaiters, getNextScheduledWaiters>>
callVars == <<waiting, held>>
vars == <<store, itemLocked, waitVars, scheduled, timers, watched, callVars,
          loop, now, stale, forgotten>>

Stages == {"checkInSchedule", "restOfSchedule", "checkGetByIdWaiters",
           "checkDueWaiters", "checkNextScheduledWaiters", "checkGetNextWaiters"}

Idle == [pc |-> "select", item |-> None, responded |-> FALSE, todo |-> <<>>]
At(pc, i, responded, todo) ==
    [pc |-> pc, item |-> i, responded |-> responded, todo |-> todo]
Stage(pc) == loop.pc = pc

\* The fields of Queue, the goroutines it starts and its blocked callers keep
\* their types; inside handleReleaseItem the loop always has an item.
TypeOK ==
    /\ store \in [Items -> Info \cup {None}]
    /\ itemLocked \subseteq Items
    /\ getByIdWaiters \in [Items -> Seq(Reqs)]
    /\ dueWaiters \in [Items -> Seq(Reqs)]
    /\ getNextWaiters \in Seq(Reqs)
    /\ getNextScheduledWaiters \in Seq(Reqs)
    /\ scheduled \in [Items -> Scheduled \cup {None}]
    /\ timers \in [Timers -> Timer \cup {None}]
    /\ watched \subseteq Reqs
    /\ waiting \subseteq Reqs
    /\ held \in [Reqs -> Items \cup {None}]
    /\ loop \in [pc : Stages \cup {"select", "closed"}, item : Items \cup {None},
                 responded : BOOLEAN, todo : Seq(Reqs)]
    /\ loop.pc \in Stages => loop.item \in Items
    /\ now \in 0..(MaxTime + 1)
    /\ stale \in BOOLEAN
    /\ forgotten \subseteq Reqs

\* The database keeps its content over a restart, everything else starts empty.
Init ==
    /\ store \in [Items -> Info \cup {None}]
    /\ itemLocked = {}
    /\ getByIdWaiters = [i \in Items |-> <<>>]
    /\ dueWaiters = [i \in Items |-> <<>>]
    /\ getNextWaiters = <<>>
    /\ getNextScheduledWaiters = <<>>
    /\ scheduled = [i \in Items |-> None]
    /\ timers = [t \in Timers |-> None]
    /\ watched = {}
    /\ waiting = {}
    /\ held = [r \in Reqs |-> None]
    /\ loop = Idle
    /\ now = 0
    /\ stale = FALSE
    /\ forgotten = {}
-----------------------------------------------------------------------------
\* The filter of r's request; GetById has none and is never asked.
Filter(r, info) == info # None /\ info.state = Request[r].want

\* r is in no structure of the queue and on no timer goroutine, so it can name a
\* new call (bson.NewObjectId and make(chan) never return one in use).
Fresh(r) ==
    /\ r \notin waiting
    /\ held[r] = None
    /\ \A i \in Items : ~Contains(getByIdWaiters[i], r) /\ ~Contains(dueWaiters[i], r)
    /\ ~Contains(getNextWaiters, r) /\ ~Contains(getNextScheduledWaiters, r)
    /\ \A i \in Items : scheduled[i] # None => scheduled[i].req # r
    /\ \A t \in Timers : timers[t] # None => timers[t].req # r

\* responseCh <- itemResponse{item}: the item is locked for r.  blocked is the
\* set of calls waiting for an answer; an answer to any other call lands in a
\* channel nobody reads.
Answer(r, i, blocked) ==
    /\ itemLocked' = itemLocked \cup {i}
    /\ waiting' = blocked \ {r}
    /\ held' = IF r \in blocked THEN [held EXCEPT ![r] = i] ELSE held

\* responseCh <- itemResponse{err}, with no item locked.
AnswerError(r, blocked) ==
    /\ waiting' = blocked \ {r}
    /\ UNCHANGED <<itemLocked, held>>

\* scheduleItem: sch and tms are the schedule and the timers on entry.  A handler
\* that would need more than Timers goroutines is not followed further.
ScheduleItem(r, i, sch, tms) ==
    \E t \in {u \in Timers : tms[u] = None} :
        /\ scheduled' = [sch EXCEPT ![i] = [req |-> r, at |-> store[i].at, timer |-> t]]
        /\ timers' = [tms EXCEPT ![t] = [item |-> i, req |-> r, at |-> store[i].at,
                                         due |-> FALSE]]

\* close(cancelTimerCh) ends the goroutine unless it is past its select, where
\* it is blocked in dispatchDueItem and will deliver the due message.
CancelTimer(t) ==
    IF timers[t] = None \/ timers[t].due THEN timers ELSE [timers EXCEPT ![t] = None]
-----------------------------------------------------------------------------
\* store.query: the stored items that pass the in-memory filter, of which the
\* iterator meets the one with the earliest scheduledAt first (StoreOrder).
Earliest(S) == {i \in S : \A j \in S : store[i].at <= store[j].at}

\* The items that handleGetNextScheduled's in-memory filter lets through.
Suitable(r, sch) == {i \in Items \ itemLocked : sch[i] = None /\ Filter(r, store[i])}

\* handleGetNextScheduled, with the schedule, the timers, the blocked calls and
\* the watched calls on entry: answer with an item whose time has come, schedule
\* the next one, or wait for one to appear.
HandleGetNextScheduled(r, sch, tms, blocked, watch) ==
    LET suitable == Suitable(r, sch)
    IN  \/ /\ suitable = {}
           /\ Request[r].subscribe
           /\ getNextScheduledWaiters' = Append(getNextScheduledWaiters, r)
           /\ watched' = watch \cup ({r} \cap Cancellable)
           /\ waiting' = blocked
           /\ scheduled' = sch
           /\ timers' = tms
           /\ UNCHANGED <<itemLocked, held>>
        \/ /\ suitable = {}
           /\ ~Request[r].subscribe
           /\ AnswerError(r, blocked)
           /\ scheduled' = sch
           /\ timers' = tms
           /\ watched' = watch
           /\ UNCHANGED getNextScheduledWaiters
        \/ /\ StoreFails
           /\ AnswerError(r, blocked)
           /\ scheduled' = sch
           /\ timers' = tms
           /\ watched' = watch
           /\ UNCHANGED getNextScheduledWaiters
        \/ \E i \in Earliest(suitable) :
           /\ store[i].at < now
           /\ Answer(r, i, blocked)
           /\ scheduled' = sch
           /\ timers' = tms
           /\ watched' = watch
           /\ UNCHANGED getNextScheduledWaiters
        \/ \E i \in Earliest(suitable) :
           /\ store[i].at >= now
           /\ ScheduleItem(r, i, sch, tms)
           /\ waiting' = blocked
           /\ watched' = watch
           /\ UNCHANGED <<itemLocked, held, getNextScheduledWaiters>>

\* GetById -> handleGetById.  An item that is not stored is locked as well; a
\* database error answers the call and changes nothing.
GetById(r, i) ==
    /\ Stage("select")
    /\ Fresh(r)
    /\ Request[r].op = "GetById"
    /\ IF i \in itemLocked
       THEN /\ getByIdWaiters' = [getByIdWaiters EXCEPT ![i] = Append(@, r)]
            /\ waiting' = waiting \cup {r}
            /\ UNCHANGED <<itemLocked, held>>
       ELSE /\ Answer(r, i, waiting \cup {r})
            /\ UNCHANGED getByIdWaiters
    /\ UNCHANGED <<store, dueWaiters, getNextWaiters, getNextScheduledWaiters,
                   scheduled, timers, watched, loop, now, stale, forgotten>>

\* GetNext -> handleGetNext.  Its one caller gives no order: any suitable item.
GetNext(r) ==
    LET suitable == {i \in Items \ itemLocked : Filter(r, store[i])}
    IN  /\ Stage("select")
        /\ Fresh(r)
        /\ Request[r].op = "GetNext"
        /\ \/ /\ suitable = {}
              /\ Request[r].subscribe
              /\ getNextWaiters' = Append(getNextWaiters, r)
              /\ watched' = watched \cup ({r} \cap Cancellable)
              /\ waiting' = waiting \cup {r}
              /\ UNCHANGED <<itemLocked, held>>
           \/ /\ (suitable = {} /\ ~Request[r].subscribe) \/ StoreFails
              /\ AnswerError(r, waiting)
              /\ watched' = watched \ {r}
              /\ UNCHANGED getNextWaiters
           \/ \E i \in suitable :
              /\ Answer(r, i, waiting \cup {r})
              /\ watched' = watched \ {r}
              /\ UNCHANGED getNextWaiters
        /\ UNCHANGED <<store, getByIdWaiters, dueWaiters, getNextScheduledWaiters,
                       scheduled, timers, loop, now, stale, forgotten>>

\* GetNextScheduled -> handleGetNextScheduled.
GetNextScheduled(r) ==
    /\ Stage("select")
    /\ Fresh(r)
    /\ Request[r].op = "GetNextScheduled"
    /\ HandleGetNextScheduled(r, scheduled, timers, waiting \cup {r}, watched \ {r})
    /\ UNCHANGED <<store, getByIdWaiters, dueWaiters, getNextWaiters, loop, now, stale,
                   forgotten>>
-----------------------------------------------------------------------------
\* Mutant: the check "item is not locked" is missing.
ReleaseUnlocked(r, info) ==
    /\ Stage("select")
    /\ held' = [held EXCEPT ![r] = None]
    /\ itemLocked' = itemLocked \ {held[r]}
    /\ store' = [store EXCEPT ![held[r]] = info]
    /\ loop' = At("checkInSchedule", held[r], FALSE, <<>>)
    /\ UNCHANGED <<waitVars, scheduled, timers, watched, waiting, now, stale, forgotten>>

\* Mutant: the update is stored and the handler returns before it unlocks the item.
UpdateStaysLocked(r, info) ==
    /\ Stage("select")
    /\ held[r] \in itemLocked
    /\ store' = [store EXCEPT ![held[r]] = info]
    /\ UNCHANGED <<itemLocked, held, loop>>
    /\ UNCHANGED <<waitVars, scheduled, timers, watched, waiting, now, stale, forgotten>>

\* ReleaseAndUpdate -> handleReleaseItem up to its calls of the check functions.
\* The handler asks whether the item is locked; that it is the caller's own is
\* up to the callers, which release what they were given.
\* When the database refuses the update the lock is dropped and nobody is told.
ReleaseAndUpdate(r, info) ==
    LET i == held[r]
    IN  /\ Stage("select")
        /\ i \in itemLocked
        /\ held' = [held EXCEPT ![r] = None]
        /\ itemLocked' = itemLocked \ {i}
        /\ \/ /\ store' = [store EXCEPT ![i] = info]
              /\ loop' = At("checkInSchedule", i, FALSE, <<>>)
           \/ /\ StoreFails
              /\ UNCHANGED <<store, loop>>
        /\ UNCHANGED <<waitVars, scheduled, timers, watched, waiting, now, stale, forgotten>>

\* Release -> handleReleaseItem.  An item that is not stored goes to the first
\* GetById waiter with ErrNotFound (releaseGetByIdWaitersWithError), which locks
\* it again; a stored one is shown to all waiting requests.
Release(r) ==
    LET i == held[r]
        waiters == getByIdWaiters[i]
    IN  /\ Stage("select")
        /\ i \in itemLocked
        /\ \/ /\ store[i] = None
              /\ waiters = <<>>
              /\ itemLocked' = itemLocked \ {i}
              /\ held' = [held EXCEPT ![r] = None]
              /\ UNCHANGED <<loop, getByIdWaiters, waiting>>
           \/ /\ store[i] = None
              /\ waiters # <<>>
              /\ getByIdWaiters' = [getByIdWaiters EXCEPT ![i] = Tail(@)]
              /\ waiting' = waiting \ {Head(waiters)}
              /\ held' = [held EXCEPT ![r] = None,
                                      ![Head(waiters)] = IF Head(waiters) \in waiting THEN i ELSE @]
              /\ UNCHANGED <<loop, itemLocked>>
           \/ /\ store[i] # None
              /\ itemLocked' = itemLocked \ {i}
              /\ held' = [held EXCEPT ![r] = None]
              /\ loop' = At("checkInSchedule", i, FALSE, <<>>)
              /\ UNCHANGED <<getByIdWaiters, waiting>>
           \/ /\ StoreFails
              /\ itemLocked' = itemLocked \ {i}
              /\ held' = [held EXCEPT ![r] = None]
              /\ UNCHANGED <<loop, getByIdWaiters, waiting>>
        /\ UNCHANGED <<store, dueWaiters, getNextWaiters, getNextScheduledWaiters, scheduled,
                       timers, watched, now, stale, forgotten>>
-----------------------------------------------------------------------------
\* checkInSchedule ranges over a Go map, in any order.  What the order decides:
\* an entry met before the released item's own one is left alone because the
\* item still is scheduled, one met after it may be given the item.

\* Mutant: the timer is cancelled and the entry stays as it is.
RescheduleNothing ==
    LET sch == scheduled[loop.item]
    IN  /\ Stage("checkInSchedule")
        /\ sch # None
        /\ Filter(sch.req, store[loop.item])
        /\ timers' = CancelTimer(sch.timer)
        /\ loop' = [loop EXCEPT !.pc = "checkGetByIdWaiters"]
        /\ UNCHANGED <<store, itemLocked, waitVars, scheduled, watched, callVars, now, stale,
                       forgotten>>

\* Case 1: the item is scheduled and passes the filter: schedule it anew.
RescheduleItem ==
    LET i == loop.item
        sch == scheduled[i]
    IN  /\ Stage("checkInSchedule")
        /\ sch # None
        /\ Filter(sch.req, store[i])
        /\ ScheduleItem(sch.req, i, scheduled, CancelTimer(sch.timer))
        /\ loop' = [loop EXCEPT !.pc = "checkGetByIdWaiters"]
        /\ UNCHANGED <<store, itemLocked, waitVars, watched, callVars, now, stale, forgotten>>

\* Case 2: it no longer does: find another item for the request.
ScheduleNextForRequest ==
    LET i == loop.item
        sch == scheduled[i]
    IN  /\ Stage("checkInSchedule")
        /\ sch # None
        /\ ~Filter(sch.req, store[i])
        /\ HandleGetNextScheduled(sch.req, [scheduled EXCEPT ![i] = None],
                                  CancelTimer(sch.timer), waiting, watched)
        /\ loop' = [loop EXCEPT !.pc = "restOfSchedule"]
        /\ UNCHANGED <<store, getByIdWaiters, dueWaiters, getNextWaiters, now, stale, forgotten>>

\* The entries that case 3 would replace by item i.
Later(i) == {j \in Items \ {i} : /\ scheduled[j] # None
                                 /\ Filter(scheduled[j].req, store[i])
                                 /\ store[i].at < scheduled[j].at}

\* Case 3: it is not scheduled and is due before a scheduled one: replace that one.
ScheduleEarlierItem ==
    LET i == loop.item
    IN  /\ Stage("checkInSchedule") \/ Stage("restOfSchedule")
        /\ scheduled[i] = None
        /\ \E j \in Later(i) :
              ScheduleItem(scheduled[j].req, i, [scheduled EXCEPT ![j] = None],
                           CancelTimer(scheduled[j].timer))
        /\ loop' = [loop EXCEPT !.pc = "checkGetByIdWaiters"]
        /\ UNCHANGED <<store, itemLocked, waitVars, watched, callVars, now, stale, forgotten>>

\* No entry is left that the item could replace.
LeaveSchedule ==
    /\ \/ Stage("checkInSchedule") /\ scheduled[loop.item] = None /\ Later(loop.item) = {}
       \/ Stage("restOfSchedule")
    /\ loop' = [loop EXCEPT !.pc = "checkGetByIdWaiters"]
    /\ UNCHANGED <<store, itemLocked, waitVars, scheduled, timers, watched, callVars, now,
                   stale, forgotten>>

\* Mutant: the callers of GetById are passed over.
SkipGetByIdWaiters ==
    /\ Stage("checkGetByIdWaiters")
    /\ loop' = At("checkDueWaiters", loop.item, FALSE, dueWaiters[loop.item])
    /\ dueWaiters' = [dueWaiters EXCEPT ![loop.item] = <<>>]
    /\ UNCHANGED <<store, itemLocked, getByIdWaiters, getNextWaiters, getNextScheduledWaiters,
                   scheduled, timers, watched, callVars, now, stale, forgotten>>

\* checkGetByIdWaiters: the first caller of GetById that waits gets the item.
CheckGetByIdWaiters ==
    LET i == loop.item
        waiters == getByIdWaiters[i]
    IN  /\ Stage("checkGetByIdWaiters")
        /\ loop' = At("checkDueWaiters", i, waiters # <<>>, dueWaiters[i])
        /\ dueWaiters' = [dueWaiters EXCEPT ![i] = <<>>]
        /\ IF waiters = <<>>
           THEN UNCHANGED <<getByIdWaiters, itemLocked, waiting, held>>
           ELSE /\ getByIdWaiters' = [getByIdWaiters EXCEPT ![i] = Tail(@)]
                /\ Answer(Head(waiters), i, waiting)
        /\ UNCHANGED <<store, getNextWaiters, getNextScheduledWaiters, scheduled, timers,
                       watched, now, stale, forgotten>>
-----------------------------------------------------------------------------
\* checkDueWaiters, one waiter per step.  loop.todo holds the waiters that the
\* range has not reached, dueWaiters the ones it keeps.
DueWaiterAnswered ==
    LET i == loop.item
        r == Head(loop.todo)
    IN  /\ Stage("checkDueWaiters")
        /\ loop.todo # <<>>
        /\ Filter(r, store[i])
        /\ ~loop.responded
        /\ Answer(r, i, waiting)
        /\ loop' = [loop EXCEPT !.responded = TRUE, !.todo = Tail(@)]
        /\ UNCHANGED <<store, waitVars, scheduled, timers, watched, now, stale, forgotten>>

\* Mutant: a waiter that cannot be answered yet is not kept.
DueWaiterDropped ==
    /\ Stage("checkDueWaiters")
    /\ loop.todo # <<>>
    /\ Filter(Head(loop.todo), store[loop.item])
    /\ loop.responded
    /\ loop' = [loop EXCEPT !.todo = Tail(@)]
    /\ UNCHANGED <<store, itemLocked, waitVars, scheduled, timers, watched, callVars, now,
                   stale, forgotten>>

DueWaiterKept ==
    LET i == loop.item
        r == Head(loop.todo)
    IN  /\ Stage("checkDueWaiters")
        /\ loop.todo # <<>>
        /\ Filter(r, store[i])
        /\ loop.responded
        /\ dueWaiters' = [dueWaiters EXCEPT ![i] = Append(@, r)]
        /\ loop' = [loop EXCEPT !.todo = Tail(@)]
        /\ UNCHANGED <<store, itemLocked, getByIdWaiters, getNextWaiters,
                       getNextScheduledWaiters, scheduled, timers, watched, callVars, now,
                       stale, forgotten>>

DueWaiterGetsNext ==
    LET r == Head(loop.todo)
    IN  /\ Stage("checkDueWaiters")
        /\ loop.todo # <<>>
        /\ ~Filter(r, store[loop.item])
        /\ HandleGetNextScheduled(r, scheduled, timers, waiting, watched)
        /\ loop' = [loop EXCEPT !.todo = Tail(@)]
        /\ UNCHANGED <<store, getByIdWaiters, dueWaiters, getNextWaiters, now, stale, forgotten>>

DueWaitersDone ==
    /\ Stage("checkDueWaiters")
    /\ loop.todo = <<>>
    /\ loop' = [loop EXCEPT !.pc = "checkNextScheduledWaiters"]
    /\ UNCHANGED <<store, itemLocked, waitVars, scheduled, timers, watched, callVars, now,
                   stale, forgotten>>

\* The position of the first request in waiters whose filter accepts item i.
FirstFor(i, waiters) ==
    {k \in DOMAIN waiters : /\ Filter(waiters[k], store[i])
                            /\ \A n \in 1..(k - 1) : ~Filter(waiters[n], store[i])}

\* Mutant: scheduling the item for a request counts as handing it out.
ScheduledIsResponded ==
    LET i == loop.item
        first == FirstFor(i, getNextScheduledWaiters)
        offer == ~loop.responded /\ scheduled[i] = None
    IN  /\ Stage("checkNextScheduledWaiters")
        /\ loop' = [loop EXCEPT !.pc = "checkGetNextWaiters", !.responded = @ \/ (offer /\ first # {})]
        /\ \/ /\ ~offer \/ first = {}
              /\ UNCHANGED <<getNextScheduledWaiters, scheduled, timers>>
           \/ /\ offer
              /\ \E k \in first :
                   /\ getNextScheduledWaiters' = RemoveAt(getNextScheduledWaiters, k)
                   /\ ScheduleItem(getNextScheduledWaiters[k], i, scheduled, timers)
        /\ UNCHANGED <<store, itemLocked, callVars, getByIdWaiters, dueWaiters, getNextWaiters,
                       watched, now, stale, forgotten>>

\* Mutant: the item is offered to nobody.
OfferToNobody ==
    /\ Stage("checkNextScheduledWaiters")
    /\ loop' = [loop EXCEPT !.pc = "checkGetNextWaiters"]
    /\ UNCHANGED <<store, itemLocked, waitVars, scheduled, timers, watched, callVars, now,
                   stale, forgotten>>

\* checkNextScheduledWaiters.
CheckNextScheduledWaiters ==
    LET i == loop.item
        first == FirstFor(i, getNextScheduledWaiters)
        offer == ~loop.responded /\ scheduled[i] = None
    IN  /\ Stage("checkNextScheduledWaiters")
        /\ \/ /\ ~offer \/ first = {}
              /\ loop' = [loop EXCEPT !.pc = "checkGetNextWaiters"]
              /\ UNCHANGED <<itemLocked, getNextScheduledWaiters, scheduled, timers, callVars>>
           \/ /\ offer
              /\ \E k \in first :
                   /\ getNextScheduledWaiters' = RemoveAt(getNextScheduledWaiters, k)
                   /\ \/ /\ store[i].at < now
                         /\ Answer(getNextScheduledWaiters[k], i, waiting)
                         /\ loop' = [loop EXCEPT !.pc = "checkGetNextWaiters", !.responded = TRUE]
                         /\ UNCHANGED <<scheduled, timers>>
                      \/ /\ store[i].at >= now
                         /\ ScheduleItem(getNextScheduledWaiters[k], i, scheduled, timers)
                         /\ loop' = [loop EXCEPT !.pc = "checkGetNextWaiters"]
                         /\ UNCHANGED <<itemLocked, callVars>>
        /\ UNCHANGED <<store, getByIdWaiters, dueWaiters, getNextWaiters, watched, now, stale,
                       forgotten>>

\* checkGetNextWaiters, and the answer to the caller of Release.
CheckGetNextWaiters ==
    LET i == loop.item
        first == FirstFor(i, getNextWaiters)
    IN  /\ Stage("checkGetNextWaiters")
        /\ loop' = Idle
        /\ \/ /\ loop.responded \/ first = {}
              /\ UNCHANGED <<itemLocked, getNextWaiters, callVars>>
           \/ /\ ~loop.responded
              /\ \E k \in first :
                   /\ getNextWaiters' = RemoveAt(getNextWaiters, k)
                   /\ Answer(getNextWaiters[k], i, waiting)
        /\ UNCHANGED <<store, getByIdWaiters, dueWaiters, getNextScheduledWaiters, scheduled,
                       timers, watched, now, stale, forgotten>>
-----------------------------------------------------------------------------
\* The goroutine of scheduleItem sees timer.C and goes on to dispatchDueItem.
TimerFires(t) ==
    /\ Stage("select")
    /\ timers[t] # None
    /\ ~timers[t].due
    /\ timers[t].at < now
    /\ timers' = [timers EXCEPT ![t].due = TRUE]
    /\ UNCHANGED <<store, itemLocked, waitVars, scheduled, watched, callVars, loop, now,
                   stale, forgotten>>

\* Mutant: the handler does not ask whether the item is locked.
HandleScheduledLocked(t) ==
    /\ Stage("select")
    /\ timers[t] # None
    /\ timers[t].due
    /\ timers' = [timers EXCEPT ![t] = None]
    /\ scheduled[timers[t].item] # None
    /\ scheduled' = [scheduled EXCEPT ![timers[t].item] = None]
    /\ Answer(timers[t].req, timers[t].item, waiting)
    /\ UNCHANGED <<store, waitVars, watched, loop, now, stale, forgotten>>

\* Mutant: the check "item is scheduled" is missing.
HandleUnscheduled(t) ==
    LET i == timers[t].item
    IN  /\ Stage("select")
        /\ timers[t] # None
        /\ timers[t].due
        /\ timers' = [timers EXCEPT ![t] = None]
        /\ scheduled' = [scheduled EXCEPT ![i] = None]
        /\ i \notin itemLocked
        /\ Answer(timers[t].req, i, waiting)
        /\ UNCHANGED <<store, waitVars, watched, loop, now, stale, forgotten>>

\* dispatchDueItem -> handleScheduledItem.  The handler asks whether the item is
\* scheduled, not whether this message belongs to that scheduling.
HandleScheduledItem(t) ==
    LET i == timers[t].item
        r == timers[t].req
    IN  /\ Stage("select")
        /\ timers[t] # None
        /\ timers[t].due
        /\ timers' = [timers EXCEPT ![t] = None]
        /\ \/ /\ scheduled[i] = None
              /\ UNCHANGED <<itemLocked, dueWaiters, scheduled, callVars, stale>>
           \/ /\ scheduled[i] # None
              /\ scheduled' = [scheduled EXCEPT ![i] = None]
              /\ stale' = (stale \/ scheduled[i].timer # t)
              /\ \/ /\ i \in itemLocked
                    /\ dueWaiters' = [dueWaiters EXCEPT ![i] = Append(@, r)]
                    /\ UNCHANGED <<itemLocked, callVars>>
                 \/ /\ i \notin itemLocked
                    /\ Answer(r, i, waiting)
                    /\ UNCHANGED dueWaiters
                 \/ /\ i \notin itemLocked
                    /\ StoreFails
                    /\ itemLocked' = itemLocked \cup {i}
                    /\ waiting' = waiting \ {r}
                    /\ UNCHANGED <<held, dueWaiters>>
        /\ UNCHANGED <<store, getByIdWaiters, getNextWaiters, getNextScheduledWaiters, watched,
                       loop, now, forgotten>>

\* findAndCancel: the waiters without the entry of r.
Without(waiters, r) ==
    IF Contains(waiters, r) THEN RemoveAt(waiters, CHOOSE k \in 1..Len(waiters) : waiters[k] = r)
    ELSE waiters

\* handleCancelRequest: r leaves every structure.  It is answered with
\* context.Canceled unless the structure is dueWaiters.  tms are the timers after
\* the goroutine that sent the request has ended.
HandleCancelRequest(r, tms) ==
    LET own == {i \in Items : scheduled[i] # None /\ scheduled[i].req = r}
        dueFor == {i \in Items : Contains(dueWaiters[i], r)}
    IN  /\ getNextWaiters' = Without(getNextWaiters, r)
        /\ getNextScheduledWaiters' = Without(getNextScheduledWaiters, r)
        /\ \/ own = {} /\ scheduled' = scheduled /\ timers' = tms
           \/ \E i \in own :
                 LET t == scheduled[i].timer
                 IN  /\ scheduled' = [scheduled EXCEPT ![i] = None]
                     /\ timers' = [tms EXCEPT ![t] = IF @ # None /\ @.due THEN @ ELSE None]
        /\ \/ dueFor = {} /\ UNCHANGED dueWaiters
           \/ \E i \in dueFor : dueWaiters' = [dueWaiters EXCEPT ![i] = Without(@, r)]
        /\ waiting' = IF \/ Contains(getNextWaiters, r)
                         \/ Contains(getNextScheduledWaiters, r)
                         \/ own # {}
                      THEN waiting \ {r} ELSE waiting
        /\ forgotten' = IF dueFor # {} THEN forgotten \cup {r} ELSE forgotten

\* The context of r is done and one of the goroutines that select on it sends r
\* to the loop: the one of a subscribed request, or the one of its timer.
CancelRequest(r) ==
    /\ Stage("select")
    /\ r \in Cancellable
    /\ \/ /\ r \in watched
          /\ watched' = watched \ {r}
          /\ HandleCancelRequest(r, timers)
       \/ \E t \in Timers :
          /\ timers[t] # None
          /\ timers[t].req = r
          /\ ~timers[t].due
          /\ HandleCancelRequest(r, [timers EXCEPT ![t] = None])
          /\ UNCHANGED watched
    /\ UNCHANGED <<store, itemLocked, getByIdWaiters, held, loop, now, stale>>

\* Close -> handleClose: every parked request is answered with ErrClosed, all
\* goroutines end, the loop returns.
HandleClose ==
    LET parked == UNION {ToSet(getByIdWaiters[i]) \cup ToSet(dueWaiters[i]) : i \in Items}
                  \cup {scheduled[i].req : i \in {j \in Items : scheduled[j] # None}}
                  \cup ToSet(getNextWaiters) \cup ToSet(getNextScheduledWaiters)
    IN  /\ Stage("select")
        /\ loop' = [Idle EXCEPT !.pc = "closed"]
        /\ waiting' = waiting \ parked
        /\ getByIdWaiters' = [i \in Items |-> <<>>]
        /\ dueWaiters' = [i \in Items |-> <<>>]
        /\ getNextWaiters' = <<>>
        /\ getNextScheduledWaiters' = <<>>
        /\ scheduled' = [i \in Items |-> None]
        /\ timers' = [t \in Timers |-> None]
        /\ watched' = {}
        /\ UNCHANGED <<store, itemLocked, held, now, stale, forgotten>>

\* Release and ReleaseAndUpdate return ErrClosed once the loop is gone: what the
\* caller wanted to store is lost.
ReleaseAfterClose(r) ==
    /\ Stage("closed")
    /\ held[r] # None
    /\ held' = [held EXCEPT ![r] = None]
    /\ UNCHANGED <<store, itemLocked, waitVars, scheduled, timers, watched, waiting, loop,
                   now, stale, forgotten>>

Tick ==
    /\ Stage("select")
    /\ now <= MaxTime
    /\ now' = now + 1
    /\ UNCHANGED <<store, itemLocked, waitVars, scheduled, timers, watched, callVars, loop,
                   stale, forgotten>>
-----------------------------------------------------------------------------
\* The loop goes on with the handler it is in.
LoopStep ==
    \/ RescheduleItem \/ ScheduleNextForRequest \/ ScheduleEarlierItem \/ LeaveSchedule
    \/ CheckGetByIdWaiters
    \/ DueWaiterAnswered \/ DueWaiterKept \/ DueWaiterGetsNext \/ DueWaitersDone
    \/ CheckNextScheduledWaiters
    \/ CheckGetNextWaiters

Call(r) == (\E i \in Items : GetById(r, i)) \/ GetNext(r) \/ GetNextScheduled(r)
GiveBack(r) == Release(r) \/ \E info \in Info : ReleaseAndUpdate(r, info)

Next ==
    \/ LoopStep
    \/ \E r \in Reqs : Call(r) \/ GiveBack(r) \/ CancelRequest(r) \/ ReleaseAfterClose(r)
    \/ \E t \in Timers : TimerFires(t) \/ HandleScheduledItem(t)
    \/ HandleClose
    \/ Tick

Spec == Init /\ [][Next]_vars

\* The uploaders, the deleter and the limited uploader.
Workers == {r \in Reqs : Request[r].op = "GetNextScheduled"}

\* The loop runs, timers fire, and select takes a ready channel at random, so no
\* sender is passed over forever.  A caller gives back what it was given.
\* Callers of GetNextScheduled are worker loops that call again; nothing makes
\* the other callers call, a context end or the queue close.
Fairness ==
    /\ WF_vars(LoopStep)
    /\ \A r \in Reqs : SF_vars(GiveBack(r))
    /\ \A r \in Workers : SF_vars(GetNextScheduled(r))
    /\ \A t \in Timers : SF_vars(TimerFires(t)) /\ SF_vars(HandleScheduledItem(t))
    /\ SF_vars(Tick)

FairSpec == Spec /\ Fairness
-----------------------------------------------------------------------------
\* handleReleaseItem, handleScheduledItem and the answers of the loop: an item is
\* in the hands of at most one caller, and as long as it is, the item is locked.
HoldersAreExclusive ==
    /\ \A r \in Reqs : held[r] # None => held[r] \in itemLocked
    /\ \A r, s \in Reqs : r # s /\ held[r] # None => held[r] # held[s]

\* "itemLocked indicates that item is being processed and can't be accessed by
\* others" (filequeue.go, type Queue): a locked item has a caller that will
\* release it, while the queue is open.
LockedItemIsHeld ==
    ~Stage("closed") => \A i \in itemLocked : \E r \in Reqs : held[r] = i

\* ... which the code guarantees as long as no due message outlives its
\* scheduling (and the database does not fail).
LockedItemIsHeldUnlessStale == ~stale => LockedItemIsHeld

\* Where the loop keeps the request of r, one entry per place.
Places(r) ==
    {<<"byId", i>> : i \in {j \in Items : Contains(getByIdWaiters[j], r)}}
    \cup {<<"due", i>> : i \in {j \in Items : Contains(dueWaiters[j], r)}}
    \cup {<<"scheduled", i>> : i \in {j \in Items : scheduled[j] # None /\ scheduled[j].req = r}}
    \cup (IF Contains(getNextWaiters, r) THEN {<<"next", None>>} ELSE {})
    \cup (IF Contains(getNextScheduledWaiters, r) THEN {<<"nextScheduled", None>>} ELSE {})
    \cup (IF Contains(loop.todo, r) THEN {<<"todo", None>>} ELSE {})

\* Every parking and every handing over of a request, over all check functions:
\* a caller that waits is known to the loop in exactly one place, and no place
\* holds a caller that does not wait, so nobody is forgotten or answered twice.
\* This includes calls that are cancelled: they are answered and leave no trace.
\* The exception is a call that handleCancelRequest finds in dueWaiters: it takes
\* the call out and does not answer it.
WaitingIsParkedOnce ==
    ~stale => \A r \in Reqs :
                  Cardinality(Places(r)) = (IF r \in waiting \ forgotten THEN 1 ELSE 0)

\* scheduleItem, close(cancelTimerCh) and handleScheduledItem: behind every entry
\* of the schedule runs a goroutine that will announce this item to this request
\* at this time; without it the caller would sleep forever.
ScheduleHasTimer ==
    ~stale => \A i \in Items : scheduled[i] # None =>
                  LET tm == timers[scheduled[i].timer]
                  IN  tm # None /\ tm.item = i /\ tm.req = scheduled[i].req /\ tm.at = scheduled[i].at

\* "When a suitable item appears, we need to return this item to a waiting
\* goroutine" (filequeue.go, getNextWaiters): whichever of the check functions
\* had the item first, no free item is left that a waiting GetNext would take.
GetNextMissesNothing ==
    Stage("select") =>
        \A r \in ToSet(getNextWaiters) : \A i \in Items \ itemLocked : ~Filter(r, store[i])

\* The queue gives its callers a store with one lock per item.
Holders == [i \in Items |-> {r \in Reqs : held[r] = i}]
Lock == INSTANCE LockedStore WITH Callers <- Reqs, Values <- Info \cup {None},
                                  content <- store, holders <- Holders

\* Take, change and give back follow the protocol of LockedStore: no answer of the
\* loop hands out an item that someone has, nothing but ReleaseAndUpdate of the
\* caller that has the item changes what is stored.
ImplementsLockedStore == Lock!Spec

\* checkGetByIdWaiters: a caller of GetById gets its item in the end, whatever
\* the schedule does, if callers give back what they have.
GetByIdReturns ==
    \A r \in Reqs : Request[r].op = "GetById" =>
        ((r \in waiting) ~> (r \notin waiting \/ stale))

\* Item i is the one item in state st, and callers of GetById leave the queue alone.
OnlyOneWanted(i, st) ==
    /\ \A j \in Items : (store[j] # None /\ store[j].state = st) <=> (j = i)
    /\ \A r \in Reqs : Request[r].op = "GetById" => r \notin waiting /\ held[r] = None

\* checkInSchedule, checkDueWaiters and the timers: whatever replacements, locks
\* and cancelled timers came before, an item in the state that a worker asks for
\* is not forgotten; once it is the only one, the worker gets it again and again.
ItemIsTaken ==
    \A i \in Items : \A st \in {Request[r].want : r \in Workers} :
        <>[]OnlyOneWanted(i, st)
            => []<>((\E r \in Workers : held[r] = i) \/ stale \/ forgotten # {} \/ Stage("closed"))
=============================================================================
