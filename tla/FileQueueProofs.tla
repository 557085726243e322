--------------------------- MODULE FileQueueProofs ---------------------------
(***************************************************************************)
(* Proofs about FileQueue, for any number of items, callers, timers and    *)
(* any clock bound: the types and the mutual exclusion of callers on an    *)
(* item.  FileQueueRefinement builds on them.                              *)
(***************************************************************************)
EXTENDS FileQueue, TLAPS

\* A caller that is blocked in a call holds no item.
WaitingHoldNothing == \A r \in waiting : held[r] = None

\* What Answer and the handlers that use it preserve.
Locks ==
    /\ itemLocked \subseteq Items
    /\ waiting \subseteq Reqs
    /\ held \in [Reqs -> Items \cup {None}]
    /\ WaitingHoldNothing
    /\ HoldersAreExclusive

\* Within handleReleaseItem, as long as nobody was given the item it is unlocked.
ReleasedIsFree ==
    loop.pc \in Stages =>
        /\ loop.pc \in {"checkInSchedule", "restOfSchedule", "checkGetByIdWaiters"} => ~loop.responded
        /\ ~loop.responded => loop.item \notin itemLocked

\* The inductive invariant behind HoldersAreExclusive.
LockInv == TypeOK /\ WaitingHoldNothing /\ ReleasedIsFree /\ HoldersAreExclusive

-----------------------------------------------------------------------------
\* RemoveAt, which slices.Delete is modelled by, returns a sequence of the same
\* requests.
LEMMA RemoveAtType ==
    ASSUME NEW S, NEW s \in Seq(S), NEW k \in 1..Len(s)
    PROVE  RemoveAt(s, k) \in Seq(S)
<1>1. SubSeq(s, 1, k - 1) \in Seq(S)
  OBVIOUS
<1>2. SubSeq(s, k + 1, Len(s)) \in Seq(S)
  OBVIOUS
<1> QED
  BY <1>1, <1>2 DEF RemoveAt

\* What is left of a waiting list after handleCancelRequest is a sequence of the
\* same requests.
LEMMA WithoutType ==
    ASSUME NEW S, NEW s \in Seq(S), NEW e
    PROVE  Without(s, e) \in Seq(S)
<1>1. CASE Contains(s, e)
  <2>1. (CHOOSE k \in 1..Len(s) : s[k] = e) \in 1..Len(s)
    BY <1>1 DEF Contains
  <2> QED
    BY <1>1, <2>1, RemoveAtType DEF Without
<1>2. CASE ~Contains(s, e)
  BY <1>2 DEF Without
<1> QED
  BY <1>1, <1>2

\* The waiters of one item grow at the end and shrink at the front.
LEMMA WaitersType ==
    ASSUME NEW waiters \in [Items -> Seq(Reqs)], NEW i \in Items, NEW r \in Reqs
    PROVE  /\ [waiters EXCEPT ![i] = Append(@, r)] \in [Items -> Seq(Reqs)]
           /\ [waiters EXCEPT ![i] = <<>>] \in [Items -> Seq(Reqs)]
           /\ [waiters EXCEPT ![i] = Without(@, r)] \in [Items -> Seq(Reqs)]
           /\ waiters[i] # <<>> => /\ [waiters EXCEPT ![i] = Tail(@)] \in [Items -> Seq(Reqs)]
                                  /\ Head(waiters[i]) \in Reqs
<1>1. waiters[i] \in Seq(Reqs)
  OBVIOUS
<1>2. Append(waiters[i], r) \in Seq(Reqs) /\ <<>> \in Seq(Reqs)
  BY <1>1
<1>3. waiters[i] # <<>> => Tail(waiters[i]) \in Seq(Reqs) /\ Head(waiters[i]) \in Reqs
  BY <1>1
<1>4. Without(waiters[i], r) \in Seq(Reqs)
  BY <1>1, WithoutType
<1>5. \A s \in Seq(Reqs) : [waiters EXCEPT ![i] = s] \in [Items -> Seq(Reqs)]
  OBVIOUS
<1> QED
  BY <1>2, <1>3, <1>4, <1>5

\* Answer, applied to an item that is not locked, gives the item to at most one
\* caller and to nobody who has one.
LEMMA AnswerKeepsLocks ==
    ASSUME TypeOK, HoldersAreExclusive,
           NEW r \in Reqs, NEW i \in Items, i \notin itemLocked,
           NEW blocked \in SUBSET Reqs, \A s \in blocked : held[s] = None,
           Answer(r, i, blocked)
    PROVE  Locks'
<1>1. None \notin Items
  BY ConstantsAssumption
<1>2. /\ itemLocked' \subseteq Items
      /\ waiting' \subseteq Reqs
      /\ held' \in [Reqs -> Items \cup {None}]
  BY DEF Answer, TypeOK
<1>3. WaitingHoldNothing'
  BY DEF Answer, TypeOK, WaitingHoldNothing
<1>4. HoldersAreExclusive'
  BY <1>1 DEF Answer, TypeOK, HoldersAreExclusive
<1> QED
  BY <1>2, <1>3, <1>4 DEF Locks

\* AnswerError returns to a waiting caller with nothing, so who holds what stays.
LEMMA AnswerErrorKeepsLocks ==
    ASSUME TypeOK, HoldersAreExclusive,
           NEW r \in Reqs,
           NEW blocked \in SUBSET Reqs, \A s \in blocked : held[s] = None,
           AnswerError(r, blocked)
    PROVE  Locks'
BY DEF AnswerError, TypeOK, HoldersAreExclusive, WaitingHoldNothing, Locks

\* scheduleItem keeps the types of the schedule and of the timers.
LEMMA ScheduleItemType ==
    ASSUME NEW r \in Reqs, NEW i \in Items, store[i] \in Info,
           NEW sch \in [Items -> Scheduled \cup {None}],
           NEW tms \in [Timers -> Timer \cup {None}],
           ScheduleItem(r, i, sch, tms)
    PROVE  /\ scheduled' \in [Items -> Scheduled \cup {None}]
           /\ timers' \in [Timers -> Timer \cup {None}]
BY DEF ScheduleItem, Info, Scheduled, Timer

\* Closing a timer's cancelTimerCh keeps the type of the timers.
LEMMA CancelTimerType ==
    ASSUME TypeOK, NEW t \in Timers
    PROVE  CancelTimer(t) \in [Timers -> Timer \cup {None}]
BY DEF CancelTimer, TypeOK

\* handleGetNextScheduled answers with an unlocked item or leaves the locks alone,
\* and never with an item that the request's filter rejects.
LEMMA HandleGetNextScheduledKeepsLocks ==
    ASSUME TypeOK, HoldersAreExclusive,
           NEW r \in Reqs,
           NEW sch \in [Items -> Scheduled \cup {None}],
           NEW tms \in [Timers -> Timer \cup {None}],
           NEW blocked \in SUBSET Reqs, \A s \in blocked : held[s] = None,
           NEW watch \in SUBSET Reqs,
           HandleGetNextScheduled(r, sch, tms, blocked, watch)
    PROVE  /\ Locks'
           /\ watched' \subseteq Reqs
           /\ scheduled' \in [Items -> Scheduled \cup {None}]
           /\ timers' \in [Timers -> Timer \cup {None}]
           /\ getNextScheduledWaiters' \in Seq(Reqs)
           /\ \A i \in Items : i \notin itemLocked /\ ~Filter(r, store[i]) => i \notin itemLocked'
<1> DEFINE Goal ==
        /\ Locks'
        /\ watched' \subseteq Reqs
        /\ scheduled' \in [Items -> Scheduled \cup {None}]
        /\ timers' \in [Timers -> Timer \cup {None}]
        /\ getNextScheduledWaiters' \in Seq(Reqs)
        /\ \A i \in Items : i \notin itemLocked /\ ~Filter(r, store[i]) => i \notin itemLocked'
<1>1. \A i \in Earliest(Suitable(r, sch)) :
        i \in Items /\ i \notin itemLocked /\ Filter(r, store[i]) /\ store[i] \in Info
  BY DEF Earliest, Suitable, Filter, TypeOK
<1>2. ASSUME getNextScheduledWaiters' = Append(getNextScheduledWaiters, r),
             watched' = watch \cup ({r} \cap Cancellable), waiting' = blocked,
             scheduled' = sch, timers' = tms, UNCHANGED <<itemLocked, held>>
      PROVE  Goal
  BY <1>2 DEF TypeOK, WaitingHoldNothing, HoldersAreExclusive, Locks
<1>3. ASSUME AnswerError(r, blocked), scheduled' = sch, timers' = tms, watched' = watch,
             UNCHANGED getNextScheduledWaiters
      PROVE  Goal
  <2>1. itemLocked' = itemLocked
    BY <1>3 DEF AnswerError
  <2> QED
    BY <1>3, <2>1, AnswerErrorKeepsLocks DEF TypeOK
<1>4. ASSUME NEW i \in Earliest(Suitable(r, sch)), Answer(r, i, blocked), scheduled' = sch,
             timers' = tms, watched' = watch, UNCHANGED getNextScheduledWaiters
      PROVE  Goal
  <2>1. itemLocked' = itemLocked \cup {i}
    BY <1>4 DEF Answer
  <2> QED
    BY <1>1, <1>4, <2>1, AnswerKeepsLocks DEF TypeOK
<1>5. ASSUME NEW i \in Earliest(Suitable(r, sch)), ScheduleItem(r, i, sch, tms), waiting' = blocked,
             watched' = watch, UNCHANGED <<itemLocked, held, getNextScheduledWaiters>>
      PROVE  Goal
  <2>1. /\ scheduled' \in [Items -> Scheduled \cup {None}]
        /\ timers' \in [Timers -> Timer \cup {None}]
    BY <1>1, <1>5, ScheduleItemType
  <2> QED
    BY <1>5, <2>1 DEF TypeOK, WaitingHoldNothing, HoldersAreExclusive, Locks
<1> HIDE DEF Goal
<1>6. Goal
  BY <1>2, <1>3, <1>4, <1>5 DEF HandleGetNextScheduled
<1> QED
  BY <1>6 DEF Goal
-----------------------------------------------------------------------------
\* NewQueue starts with nothing locked and nobody waiting.
LEMMA InitLockInv == Init => LockInv
<1> SUFFICES ASSUME Init PROVE LockInv
  OBVIOUS
<1>1. <<>> \in Seq(Reqs) /\ 0 \in 0..(MaxTime + 1)
  BY ConstantsAssumption
<1>2. loop.pc = "select" /\ loop.pc \notin Stages
  BY DEF Init, Idle, Stages
<1>3. loop \in [pc : Stages \cup {"select", "closed"}, item : Items \cup {None},
               responded : BOOLEAN, todo : Seq(Reqs)]
  BY <1>1 DEF Init, Idle
<1>4. TypeOK
  BY <1>1, <1>2, <1>3 DEF Init, TypeOK
<1>5. WaitingHoldNothing /\ HoldersAreExclusive
  BY DEF Init, WaitingHoldNothing, HoldersAreExclusive
<1>6. ReleasedIsFree
  BY <1>2 DEF ReleasedIsFree
<1> QED
  BY <1>4, <1>5, <1>6 DEF LockInv

\* The calls: GetById, GetNext, GetNextScheduled.
LEMMA CallKeepsLocks ==
    ASSUME LockInv, NEW r \in Reqs, Call(r)
    PROVE  LockInv'
<1> USE DEF LockInv, Locks
<1>1. \A s \in waiting \cup {r} : held[s] = None
  BY DEF Call, GetById, GetNext, GetNextScheduled, Fresh, WaitingHoldNothing
<1>2. ASSUME NEW i \in Items, GetById(r, i)
      PROVE  LockInv'
  <2>1. CASE i \in itemLocked
    <3>1. getByIdWaiters' \in [Items -> Seq(Reqs)]
      <4>1. getByIdWaiters \in [Items -> Seq(Reqs)]
        BY DEF TypeOK
      <4>2. getByIdWaiters' = [getByIdWaiters EXCEPT ![i] = Append(@, r)]
        BY <1>2, <2>1 DEF GetById
      <4> QED
        BY <4>1, <4>2, WaitersType
    <3>2. TypeOK'
      BY <1>2, <2>1, <3>1 DEF GetById, TypeOK
    <3>3. WaitingHoldNothing' /\ ReleasedIsFree' /\ HoldersAreExclusive'
      BY <1>1, <1>2, <2>1 DEF GetById, WaitingHoldNothing, ReleasedIsFree, HoldersAreExclusive
    <3> QED
      BY <3>2, <3>3
  <2>2. CASE i \notin itemLocked
    <3>1. Locks'
      BY <1>1, <1>2, <2>2, AnswerKeepsLocks DEF GetById, TypeOK
    <3>2. TypeOK' /\ ReleasedIsFree'
      BY <1>2, <2>2, <3>1 DEF GetById, TypeOK, ReleasedIsFree, Stage, Stages
    <3> QED
      BY <3>1, <3>2
  <2> QED
    BY <2>1, <2>2
<1>3. ASSUME GetNext(r)
      PROVE  LockInv'
  <2>1. ASSUME getNextWaiters' = Append(getNextWaiters, r),
               watched' = watched \cup ({r} \cap Cancellable),
               waiting' = waiting \cup {r}, UNCHANGED <<itemLocked, held>>
        PROVE  LockInv'
    <3>1. getNextWaiters' \in Seq(Reqs)
      BY <2>1 DEF TypeOK
    <3>2. TypeOK'
      BY <1>3, <2>1, <3>1 DEF GetNext, TypeOK
    <3>3. WaitingHoldNothing'
      BY <1>1, <2>1 DEF WaitingHoldNothing
    <3>4. ReleasedIsFree' /\ HoldersAreExclusive'
      BY <1>3, <2>1 DEF GetNext, ReleasedIsFree, HoldersAreExclusive
    <3> QED
      BY <3>2, <3>3, <3>4
  <2>2. ASSUME AnswerError(r, waiting), watched' = watched \ {r}, UNCHANGED getNextWaiters
        PROVE  LockInv'
    <3>1. Locks'
      BY <1>1, <2>2, AnswerErrorKeepsLocks DEF TypeOK
    <3>2. TypeOK' /\ ReleasedIsFree'
      BY <1>3, <2>2, <3>1 DEF GetNext, TypeOK, ReleasedIsFree, Stage, Stages
    <3> QED
      BY <3>1, <3>2
  <2>3. ASSUME NEW i \in Items \ itemLocked, Answer(r, i, waiting \cup {r}),
               watched' = watched \ {r}, UNCHANGED getNextWaiters
        PROVE  LockInv'
    <3>1. Locks'
      BY <1>1, <2>3, AnswerKeepsLocks DEF TypeOK
    <3>2. TypeOK' /\ ReleasedIsFree'
      BY <1>3, <2>3, <3>1 DEF GetNext, TypeOK, ReleasedIsFree, Stage, Stages
    <3> QED
      BY <3>1, <3>2
  <2> QED
    BY <1>3, <2>1, <2>2, <2>3 DEF GetNext
<1>4. ASSUME GetNextScheduled(r)
      PROVE  LockInv'
  <2>1. HandleGetNextScheduled(r, scheduled, timers, waiting \cup {r}, watched \ {r})
    BY <1>4 DEF GetNextScheduled
  <2>2. /\ Locks'
        /\ watched' \subseteq Reqs
        /\ scheduled' \in [Items -> Scheduled \cup {None}]
        /\ timers' \in [Timers -> Timer \cup {None}]
        /\ getNextScheduledWaiters' \in Seq(Reqs)
    <3>1. /\ scheduled \in [Items -> Scheduled \cup {None}]
          /\ timers \in [Timers -> Timer \cup {None}]
          /\ waiting \cup {r} \in SUBSET Reqs
          /\ watched \ {r} \in SUBSET Reqs
      BY DEF TypeOK
    <3> HIDE DEF LockInv, Locks
    <3>2. TypeOK /\ HoldersAreExclusive
      BY DEF LockInv
    <3> QED
      BY <1>1, <2>1, <3>1, <3>2, HandleGetNextScheduledKeepsLocks
  <2>3. TypeOK' /\ ReleasedIsFree'
    BY <1>4, <2>2 DEF GetNextScheduled, TypeOK, ReleasedIsFree, Stage, Stages
  <2> QED
    BY <2>2, <2>3
<1> QED
  BY <1>2, <1>3, <1>4 DEF Call

\* Release and ReleaseAndUpdate, up to the calls of the check functions.
LEMMA GiveBackKeepsLocks ==
    ASSUME LockInv, NEW r \in Reqs, GiveBack(r)
    PROVE  LockInv'
<1> USE DEF LockInv
<1> DEFINE i == held[r]
<1>1. i \in Items /\ r \notin waiting /\ i \in itemLocked
  <2>1. i \in itemLocked
    BY DEF GiveBack, Release, ReleaseAndUpdate
  <2> QED
    BY <2>1, ConstantsAssumption DEF TypeOK, WaitingHoldNothing
<1>2. loop.pc = "select" /\ "select" \notin Stages
  BY DEF GiveBack, Release, ReleaseAndUpdate, Stage, Stages
<1>3. \A s \in Reqs : s # r /\ held[s] # None => held[s] \in itemLocked \ {i}
  BY <1>1 DEF TypeOK, HoldersAreExclusive
<1>4. At("checkInSchedule", i, FALSE, <<>>)
         \in [pc : Stages \cup {"select", "closed"}, item : Items \cup {None},
             responded : BOOLEAN, todo : Seq(Reqs)]
  BY <1>1 DEF At, Stages
<1>5. ASSUME held' = [held EXCEPT ![r] = None], itemLocked' = itemLocked \ {i},
             waiting' = waiting
      PROVE  Locks'
  <2>1. held' \in [Reqs -> Items \cup {None}] /\ \A s \in Reqs : held'[s] = IF s = r THEN None ELSE held[s]
    BY <1>5 DEF TypeOK
  <2>2. HoldersAreExclusive'
    BY <1>3, <1>5, <2>1 DEF HoldersAreExclusive
  <2> QED
    BY <1>5, <2>1, <2>2 DEF Locks, TypeOK, WaitingHoldNothing
<1>6. ASSUME loop' = loop
      PROVE  ReleasedIsFree'
  BY <1>2, <1>6 DEF ReleasedIsFree
<1>7. ASSUME loop' = At("checkInSchedule", i, FALSE, <<>>), itemLocked' = itemLocked \ {i}
      PROVE  ReleasedIsFree'
  BY <1>7 DEF ReleasedIsFree, At
<1>8. ASSUME NEW info \in Info, ReleaseAndUpdate(r, info)
      PROVE  LockInv'
  <2>1. Locks'
    BY <1>5, <1>8 DEF ReleaseAndUpdate
  <2>2. ReleasedIsFree'
    BY <1>6, <1>7, <1>8 DEF ReleaseAndUpdate
  <2>3. TypeOK'
    <3>1. store' \in [Items -> Info \cup {None}]
      BY <1>1, <1>8 DEF ReleaseAndUpdate, TypeOK
    <3>2. /\ loop' \in [pc : Stages \cup {"select", "closed"}, item : Items \cup {None},
                       responded : BOOLEAN, todo : Seq(Reqs)]
          /\ loop'.pc \in Stages => loop'.item \in Items
      BY <1>1, <1>2, <1>4, <1>8 DEF ReleaseAndUpdate, TypeOK, At
    <3> QED
      BY <1>8, <2>1, <3>1, <3>2 DEF ReleaseAndUpdate, TypeOK, Locks, waitVars
  <2> QED
    BY <2>1, <2>2, <2>3 DEF Locks
<1>9. ASSUME Release(r)
      PROVE  LockInv'
  <2>1. CASE /\ getByIdWaiters[i] # <<>>
             /\ getByIdWaiters' = [getByIdWaiters EXCEPT ![i] = Tail(@)]
             /\ waiting' = waiting \ {Head(getByIdWaiters[i])}
             /\ held' = [held EXCEPT ![r] = None,
                           ![Head(getByIdWaiters[i])] = IF Head(getByIdWaiters[i]) \in waiting THEN i ELSE @]
             /\ UNCHANGED <<loop, itemLocked>>
    <3> DEFINE w == Head(getByIdWaiters[i])
    <3>1. w \in Reqs /\ getByIdWaiters' \in [Items -> Seq(Reqs)]
      <4>1. getByIdWaiters \in [Items -> Seq(Reqs)]
        BY DEF TypeOK
      <4> QED
        BY <1>1, <2>1, <4>1, WaitersType
    <3>2. \A s \in Reqs : held'[s] = IF s = w /\ w \in waiting THEN i
                                     ELSE IF s = r THEN None ELSE held[s]
      BY <1>1, <2>1, <3>1 DEF TypeOK
    <3>3. held' \in [Reqs -> Items \cup {None}]
      BY <1>1, <2>1, <3>1 DEF TypeOK
    <3>4. HoldersAreExclusive'
      <4>0. itemLocked' = itemLocked
        BY <2>1
      <4>1. CASE w \in waiting
        <5>1. w # r /\ held[w] = None
          BY <1>1, <4>1 DEF WaitingHoldNothing
        <5>2. \A s \in Reqs \ {w} : held'[s] # None => held'[s] \in itemLocked \ {i} /\ s # r
          BY <1>3, <3>2
        <5>3. \A s, t \in Reqs : s # t /\ held'[s] # None => held'[s] # held'[t]
          BY <1>1, <1>3, <3>2, <4>1, <5>1, <5>2, ConstantsAssumption DEF HoldersAreExclusive
        <5> QED
          BY <1>1, <3>2, <4>0, <4>1, <5>2, <5>3 DEF HoldersAreExclusive
      <4>2. CASE w \notin waiting
        <5>1. \A s \in Reqs : held'[s] # None => s # r /\ held'[s] = held[s]
          BY <3>2, <4>2
        <5>2. \A s \in Reqs : held'[s] # None => held'[s] \in itemLocked
          BY <1>3, <5>1
        <5>3. \A s, t \in Reqs : s # t /\ held'[s] # None => held'[s] # held'[t]
          BY <3>2, <4>2, <5>1 DEF HoldersAreExclusive
        <5> QED
          BY <4>0, <5>2, <5>3 DEF HoldersAreExclusive
      <4> QED
        BY <4>1, <4>2
    <3>5. WaitingHoldNothing'
      BY <2>1, <3>1, <3>2 DEF WaitingHoldNothing, TypeOK
    <3>6. TypeOK'
      BY <1>9, <2>1, <3>1, <3>3 DEF Release, TypeOK
    <3> QED
      BY <1>6, <2>1, <3>4, <3>5, <3>6
  <2>2. CASE /\ held' = [held EXCEPT ![r] = None]
             /\ itemLocked' = itemLocked \ {i}
             /\ UNCHANGED <<getByIdWaiters, waiting>>
             /\ loop' = loop \/ loop' = At("checkInSchedule", i, FALSE, <<>>)
    <3>1. Locks'
      BY <1>5, <2>2
    <3>2. ReleasedIsFree'
      BY <1>6, <1>7, <2>2
    <3>3. TypeOK'
      BY <1>1, <1>2, <1>4, <1>9, <2>2, <3>1 DEF Release, TypeOK, Locks, At
    <3> QED
      BY <3>1, <3>2, <3>3 DEF Locks
  <2> QED
    BY <1>9, <2>1, <2>2 DEF Release
<1> QED
  BY <1>8, <1>9 DEF GiveBack

\* The type of loop, as TypeOK states it.
LoopType == [pc : Stages \cup {"select", "closed"}, item : Items \cup {None},
             responded : BOOLEAN, todo : Seq(Reqs)]

\* A step within handleReleaseItem goes on to another stage with the same item.
LEMMA NextStage ==
    ASSUME TypeOK, NEW pc \in Stages, loop.pc \in Stages
    PROVE  /\ [loop EXCEPT !.pc = pc] \in LoopType
           /\ [loop EXCEPT !.pc = pc].pc = pc
           /\ [loop EXCEPT !.pc = pc].item = loop.item
           /\ [loop EXCEPT !.pc = pc].responded = loop.responded
           /\ loop.item \in Items
BY DEF TypeOK, LoopType

\* The same, for a stage that answered a waiter.
LEMMA NextStageAnswered ==
    ASSUME TypeOK, NEW pc \in Stages, loop.pc \in Stages
    PROVE  /\ [loop EXCEPT !.pc = pc, !.responded = TRUE] \in LoopType
           /\ [loop EXCEPT !.pc = pc, !.responded = TRUE].pc = pc
           /\ [loop EXCEPT !.pc = pc, !.responded = TRUE].item = loop.item
           /\ [loop EXCEPT !.pc = pc, !.responded = TRUE].responded
BY DEF TypeOK, LoopType

\* A step that leaves the locks, the holders and the waiting callers alone keeps
\* the facts about them; of LockInv' the type and the stage are left to show.
LEMMA SameLocks ==
    ASSUME LockInv, UNCHANGED <<itemLocked, waiting, held>>
    PROVE  Locks'
BY DEF LockInv, Locks, TypeOK, WaitingHoldNothing, HoldersAreExclusive

\* checkInSchedule.
LEMMA CheckInScheduleKeepsLocks ==
    ASSUME LockInv,
           RescheduleItem \/ ScheduleNextForRequest \/ ScheduleEarlierItem \/ LeaveSchedule
    PROVE  LockInv'
<1> DEFINE i == loop.item
<1>1. TypeOK /\ WaitingHoldNothing /\ ReleasedIsFree /\ HoldersAreExclusive
  BY DEF LockInv
<1>2. loop.pc \in {"checkInSchedule", "restOfSchedule"} /\ loop.pc \in Stages
  BY DEF RescheduleItem, ScheduleNextForRequest, ScheduleEarlierItem, LeaveSchedule, Stage, Stages
<1>3. i \in Items /\ i \notin itemLocked /\ ~loop.responded
  BY <1>1, <1>2 DEF ReleasedIsFree, TypeOK
<1>4. /\ "checkGetByIdWaiters" \in Stages
      /\ "restOfSchedule" \in Stages
  BY DEF Stages
<1>5. \A j \in Items : scheduled[j] # None =>
         /\ scheduled[j].req \in Reqs
         /\ CancelTimer(scheduled[j].timer) \in [Timers -> Timer \cup {None}]
  <2>1. \A j \in Items : scheduled[j] # None => scheduled[j].req \in Reqs /\ scheduled[j].timer \in Timers
    BY <1>1 DEF TypeOK, Scheduled
  <2> QED
    BY <1>1, <2>1, CancelTimerType
<1>6. \A j \in Items : [scheduled EXCEPT ![j] = None] \in [Items -> Scheduled \cup {None}]
  BY <1>1 DEF TypeOK
<1>7. scheduled \in [Items -> Scheduled \cup {None}] /\ waiting \in SUBSET Reqs /\ watched \in SUBSET Reqs
  BY <1>1 DEF TypeOK
<1>8. \A r : Filter(r, store[i]) => store[i] \in Info
  BY <1>1, <1>3 DEF Filter, TypeOK
<1>9. CASE RescheduleItem
  <2>1. /\ scheduled' \in [Items -> Scheduled \cup {None}]
        /\ timers' \in [Timers -> Timer \cup {None}]
    BY <1>3, <1>5, <1>7, <1>8, <1>9, ScheduleItemType DEF RescheduleItem
  <2>2. loop' = [loop EXCEPT !.pc = "checkGetByIdWaiters"]
    BY <1>9 DEF RescheduleItem
  <2>3. loop' \in LoopType /\ loop'.item = i /\ loop'.responded = loop.responded
    BY <1>1, <1>2, <1>4, <2>2, NextStage
  <2>4. Locks'
    BY <1>9, SameLocks DEF RescheduleItem, callVars
  <2>5. ReleasedIsFree'
    BY <1>3, <1>9, <2>3 DEF RescheduleItem, ReleasedIsFree
  <2>6. TypeOK'
    BY <1>1, <1>3, <1>9, <2>1, <2>3, <2>4 DEF RescheduleItem, TypeOK, LoopType, waitVars, callVars
  <2> QED
    BY <2>4, <2>5, <2>6 DEF LockInv, Locks
<1>10. CASE ScheduleNextForRequest
  <2> DEFINE r == scheduled[i].req
  <2>1. /\ r \in Reqs
        /\ ~Filter(r, store[i])
        /\ HandleGetNextScheduled(r, [scheduled EXCEPT ![i] = None],
                                  CancelTimer(scheduled[i].timer), waiting, watched)
    BY <1>3, <1>5, <1>10 DEF ScheduleNextForRequest
  <2>2. /\ Locks'
        /\ watched' \subseteq Reqs
        /\ scheduled' \in [Items -> Scheduled \cup {None}]
        /\ timers' \in [Timers -> Timer \cup {None}]
        /\ getNextScheduledWaiters' \in Seq(Reqs)
        /\ i \notin itemLocked'
    <3>1. CancelTimer(scheduled[i].timer) \in [Timers -> Timer \cup {None}]
      BY <1>3, <1>5, <1>10 DEF ScheduleNextForRequest
    <3>2. \A s \in waiting : held[s] = None
      BY <1>1 DEF WaitingHoldNothing
    <3> HIDE DEF r
    <3> QED
      BY <1>1, <1>3, <1>6, <1>7, <2>1, <3>1, <3>2, HandleGetNextScheduledKeepsLocks
  <2>3. loop' = [loop EXCEPT !.pc = "restOfSchedule"]
    BY <1>10 DEF ScheduleNextForRequest
  <2>4. loop' \in LoopType /\ loop'.item = i /\ loop'.responded = loop.responded
    BY <1>1, <1>2, <1>4, <2>3, NextStage
  <2>5. ReleasedIsFree'
    BY <1>3, <2>2, <2>4 DEF ReleasedIsFree
  <2>6. TypeOK'
    BY <1>1, <1>3, <1>10, <2>2, <2>4 DEF ScheduleNextForRequest, TypeOK, LoopType, Locks
  <2> QED
    BY <2>2, <2>5, <2>6 DEF LockInv, Locks
<1>11. CASE ScheduleEarlierItem
  <2>1. PICK j \in Later(i) : ScheduleItem(scheduled[j].req, i, [scheduled EXCEPT ![j] = None],
                                           CancelTimer(scheduled[j].timer))
    BY <1>11 DEF ScheduleEarlierItem
  <2>2. j \in Items /\ scheduled[j] # None /\ Filter(scheduled[j].req, store[i])
    BY <2>1 DEF Later
  <2>3. /\ scheduled' \in [Items -> Scheduled \cup {None}]
        /\ timers' \in [Timers -> Timer \cup {None}]
    BY <1>3, <1>5, <1>6, <1>8, <2>1, <2>2, ScheduleItemType
  <2>4. loop' = [loop EXCEPT !.pc = "checkGetByIdWaiters"]
    BY <1>11 DEF ScheduleEarlierItem
  <2>5. loop' \in LoopType /\ loop'.item = i /\ loop'.responded = loop.responded
    BY <1>1, <1>2, <1>4, <2>4, NextStage
  <2>6. Locks'
    BY <1>11, SameLocks DEF ScheduleEarlierItem, callVars
  <2>7. ReleasedIsFree'
    BY <1>3, <1>11, <2>5 DEF ScheduleEarlierItem, ReleasedIsFree
  <2>8. TypeOK'
    BY <1>1, <1>3, <1>11, <2>3, <2>5, <2>6 DEF ScheduleEarlierItem, TypeOK, LoopType, waitVars, callVars
  <2> QED
    BY <2>6, <2>7, <2>8 DEF LockInv, Locks
<1>12. CASE LeaveSchedule
  <2>1. loop' = [loop EXCEPT !.pc = "checkGetByIdWaiters"]
    BY <1>12 DEF LeaveSchedule
  <2>2. loop' \in LoopType /\ loop'.item = i /\ loop'.responded = loop.responded
    BY <1>1, <1>2, <1>4, <2>1, NextStage
  <2>3. Locks'
    BY <1>12, SameLocks DEF LeaveSchedule, callVars
  <2>4. ReleasedIsFree'
    BY <1>3, <1>12, <2>2 DEF LeaveSchedule, ReleasedIsFree
  <2>5. TypeOK'
    BY <1>1, <1>3, <1>12, <2>2, <2>3 DEF LeaveSchedule, TypeOK, LoopType, waitVars, callVars
  <2> QED
    BY <2>3, <2>4, <2>5 DEF LockInv, Locks
<1> QED
  BY <1>9, <1>10, <1>11, <1>12

\* checkGetByIdWaiters.
LEMMA CheckGetByIdWaitersKeepsLocks ==
    ASSUME LockInv, CheckGetByIdWaiters
    PROVE  LockInv'
<1> DEFINE i == loop.item
           waiters == getByIdWaiters[i]
<1>1. TypeOK /\ WaitingHoldNothing /\ ReleasedIsFree /\ HoldersAreExclusive
  BY DEF LockInv
<1>2. loop.pc = "checkGetByIdWaiters" /\ loop.pc \in Stages
  BY DEF CheckGetByIdWaiters, Stage, Stages
<1>3. i \in Items /\ i \notin itemLocked /\ ~loop.responded
  BY <1>1, <1>2 DEF ReleasedIsFree, TypeOK
<1>4. getByIdWaiters \in [Items -> Seq(Reqs)] /\ dueWaiters \in [Items -> Seq(Reqs)]
  BY <1>1 DEF TypeOK
<1>5. /\ loop' \in LoopType
      /\ loop'.item = i
      /\ loop'.responded = (waiters # <<>>)
      /\ loop'.pc = "checkDueWaiters"
  BY <1>3, <1>4 DEF CheckGetByIdWaiters, At, LoopType, Stages
<1>6. dueWaiters' \in [Items -> Seq(Reqs)]
  BY <1>3, <1>4 DEF CheckGetByIdWaiters
<1>7. CASE waiters = <<>>
  <2>1. UNCHANGED <<getByIdWaiters, itemLocked, waiting, held>>
    BY <1>7 DEF CheckGetByIdWaiters
  <2>2. Locks'
    BY <2>1, SameLocks
  <2>3. ReleasedIsFree'
    BY <1>3, <1>5, <1>7, <2>1 DEF ReleasedIsFree
  <2>4. TypeOK'
    BY <1>1, <1>3, <1>5, <1>6, <2>1, <2>2 DEF CheckGetByIdWaiters, TypeOK, LoopType
  <2> QED
    BY <2>2, <2>3, <2>4 DEF LockInv, Locks
<1>8. CASE waiters # <<>>
  <2>1. /\ getByIdWaiters' = [getByIdWaiters EXCEPT ![i] = Tail(@)]
        /\ Answer(Head(waiters), i, waiting)
    BY <1>8 DEF CheckGetByIdWaiters
  <2>2. Head(waiters) \in Reqs
    BY <1>3, <1>4, <1>8
  <2>3. getByIdWaiters' \in [Items -> Seq(Reqs)]
    BY <1>3, <1>4, <1>8, <2>1, <2>2, WaitersType
  <2>4. waiting \in SUBSET Reqs /\ \A s \in waiting : held[s] = None
    BY <1>1 DEF TypeOK, WaitingHoldNothing
  <2>5. Locks'
    BY <1>1, <1>3, <2>1, <2>2, <2>4, AnswerKeepsLocks
  <2>6. ReleasedIsFree'
    BY <1>5, <1>8 DEF ReleasedIsFree
  <2>7. TypeOK'
    BY <1>1, <1>3, <1>5, <1>6, <2>3, <2>5 DEF CheckGetByIdWaiters, TypeOK, LoopType, Locks
  <2> QED
    BY <2>5, <2>6, <2>7 DEF LockInv, Locks
<1> QED
  BY <1>7, <1>8

\* checkDueWaiters.  While the item is not handed out it stays free: the requests
\* that are sent on to handleGetNextScheduled are those whose filter rejects it.
LEMMA CheckDueWaitersKeepsLocks ==
    ASSUME LockInv,
           DueWaiterAnswered \/ DueWaiterKept \/ DueWaiterGetsNext \/ DueWaitersDone
    PROVE  LockInv'
<1> DEFINE i == loop.item
           r == Head(loop.todo)
<1>1. TypeOK /\ WaitingHoldNothing /\ ReleasedIsFree /\ HoldersAreExclusive
  BY DEF LockInv
<1>2. loop.pc = "checkDueWaiters" /\ loop.pc \in Stages
  BY DEF DueWaiterAnswered, DueWaiterKept, DueWaiterGetsNext, DueWaitersDone, Stage, Stages
<1>3. i \in Items /\ loop \in LoopType /\ loop.todo \in Seq(Reqs) /\ loop.responded \in BOOLEAN
  BY <1>1, <1>2 DEF TypeOK, LoopType
<1>4. ~loop.responded => i \notin itemLocked
  BY <1>1, <1>2 DEF ReleasedIsFree
<1>5. loop.todo # <<>> => r \in Reqs /\ Tail(loop.todo) \in Seq(Reqs)
  BY <1>3
<1>6. waiting \in SUBSET Reqs /\ \A s \in waiting : held[s] = None
  BY <1>1 DEF TypeOK, WaitingHoldNothing
<1>7. ASSUME loop' = [loop EXCEPT !.todo = Tail(@)], loop.todo # <<>>
      PROVE  loop' \in LoopType /\ loop'.item = i /\ loop'.responded = loop.responded
  BY <1>3, <1>5, <1>7 DEF LoopType
<1>8. CASE DueWaiterAnswered
  <2>1. loop.todo # <<>> /\ ~loop.responded /\ Answer(r, i, waiting)
    BY <1>8 DEF DueWaiterAnswered
  <2>2. loop' \in LoopType /\ loop'.item = i /\ loop'.responded = TRUE
    BY <1>3, <1>5, <1>8, <2>1 DEF DueWaiterAnswered, LoopType
  <2>3. Locks'
    BY <1>1, <1>3, <1>4, <1>5, <1>6, <2>1, AnswerKeepsLocks
  <2>4. ReleasedIsFree'
    <3>1. loop'.pc = "checkDueWaiters"
      BY <1>2, <1>3, <1>8 DEF DueWaiterAnswered, LoopType
    <3> QED
      BY <2>2, <3>1 DEF ReleasedIsFree
  <2>5. TypeOK'
    BY <1>1, <1>3, <1>8, <2>2, <2>3 DEF DueWaiterAnswered, TypeOK, LoopType, Locks, waitVars
  <2> QED
    BY <2>3, <2>4, <2>5 DEF LockInv, Locks
<1>9. CASE DueWaiterKept
  <2>1. loop.todo # <<>> /\ loop.responded /\ loop' = [loop EXCEPT !.todo = Tail(@)]
    BY <1>9 DEF DueWaiterKept
  <2>2. loop' \in LoopType /\ loop'.item = i /\ loop'.responded
    BY <1>7, <2>1
  <2>3. dueWaiters' \in [Items -> Seq(Reqs)]
    <3>1. dueWaiters \in [Items -> Seq(Reqs)] /\ dueWaiters' = [dueWaiters EXCEPT ![i] = Append(@, r)]
      BY <1>1, <1>9 DEF TypeOK, DueWaiterKept
    <3> QED
      BY <1>3, <1>5, <2>1, <3>1, WaitersType
  <2>4. Locks'
    BY <1>9, SameLocks DEF DueWaiterKept, callVars
  <2>5. ReleasedIsFree'
    <3>1. loop'.pc = "checkDueWaiters"
      BY <1>2, <1>3, <1>9 DEF DueWaiterKept, LoopType
    <3> QED
      BY <2>2, <3>1 DEF ReleasedIsFree
  <2>6. TypeOK'
    BY <1>1, <1>3, <1>9, <2>2, <2>3, <2>4 DEF DueWaiterKept, TypeOK, LoopType, callVars
  <2> QED
    BY <2>4, <2>5, <2>6 DEF LockInv, Locks
<1>10. CASE DueWaiterGetsNext
  <2>1. /\ loop.todo # <<>>
        /\ loop' = [loop EXCEPT !.todo = Tail(@)]
        /\ ~Filter(r, store[i])
        /\ HandleGetNextScheduled(r, scheduled, timers, waiting, watched)
    BY <1>10 DEF DueWaiterGetsNext
  <2>2. loop' \in LoopType /\ loop'.item = i /\ loop'.responded = loop.responded
    BY <1>7, <2>1
  <2>3. /\ Locks'
        /\ watched' \subseteq Reqs
        /\ scheduled' \in [Items -> Scheduled \cup {None}]
        /\ timers' \in [Timers -> Timer \cup {None}]
        /\ getNextScheduledWaiters' \in Seq(Reqs)
        /\ i \notin itemLocked => i \notin itemLocked'
    <3>1. /\ scheduled \in [Items -> Scheduled \cup {None}]
          /\ timers \in [Timers -> Timer \cup {None}]
          /\ watched \in SUBSET Reqs
      BY <1>1 DEF TypeOK
    <3> HIDE DEF r
    <3> QED
      BY <1>1, <1>3, <1>5, <1>6, <2>1, <3>1, HandleGetNextScheduledKeepsLocks
  <2>4. ReleasedIsFree'
    <3>1. loop'.pc = "checkDueWaiters"
      BY <1>2, <1>3, <1>10 DEF DueWaiterGetsNext, LoopType
    <3> QED
      BY <1>4, <2>2, <2>3, <3>1 DEF ReleasedIsFree
  <2>5. TypeOK'
    BY <1>1, <1>3, <1>10, <2>2, <2>3 DEF DueWaiterGetsNext, TypeOK, LoopType, Locks
  <2> QED
    BY <2>3, <2>4, <2>5 DEF LockInv, Locks
<1>11. CASE DueWaitersDone
  <2>1. loop' = [loop EXCEPT !.pc = "checkNextScheduledWaiters"]
    BY <1>11 DEF DueWaitersDone
  <2>2. /\ loop' \in LoopType /\ loop'.item = i /\ loop'.responded = loop.responded
        /\ loop'.pc = "checkNextScheduledWaiters"
    <3>1. "checkNextScheduledWaiters" \in Stages
      BY DEF Stages
    <3> QED
      BY <1>1, <1>2, <2>1, <3>1, NextStage
  <2>3. Locks'
    BY <1>11, SameLocks DEF DueWaitersDone, callVars
  <2>4. ReleasedIsFree'
    BY <1>4, <1>11, <2>2 DEF DueWaitersDone, ReleasedIsFree
  <2>5. TypeOK'
    BY <1>1, <1>3, <1>11, <2>2, <2>3 DEF DueWaitersDone, TypeOK, LoopType, waitVars, callVars
  <2> QED
    BY <2>3, <2>4, <2>5 DEF LockInv, Locks
<1> QED
  BY <1>8, <1>9, <1>10, <1>11

\* checkNextScheduledWaiters and checkGetNextWaiters.
LEMMA CheckNextWaitersKeepsLocks ==
    ASSUME LockInv, CheckNextScheduledWaiters \/ CheckGetNextWaiters
    PROVE  LockInv'
<1> DEFINE i == loop.item
<1>1. TypeOK /\ WaitingHoldNothing /\ ReleasedIsFree /\ HoldersAreExclusive
  BY DEF LockInv
<1>2. loop.pc \in {"checkNextScheduledWaiters", "checkGetNextWaiters"} /\ loop.pc \in Stages
  BY DEF CheckNextScheduledWaiters, CheckGetNextWaiters, Stage, Stages
<1>3. i \in Items /\ loop \in LoopType
  BY <1>1, <1>2 DEF TypeOK, LoopType
<1>4. ~loop.responded => i \notin itemLocked
  BY <1>1, <1>2 DEF ReleasedIsFree
<1>5. waiting \in SUBSET Reqs /\ \A s \in waiting : held[s] = None
  BY <1>1 DEF TypeOK, WaitingHoldNothing
<1>6. /\ getNextScheduledWaiters \in Seq(Reqs)
      /\ getNextWaiters \in Seq(Reqs)
      /\ scheduled \in [Items -> Scheduled \cup {None}]
      /\ timers \in [Timers -> Timer \cup {None}]
  BY <1>1 DEF TypeOK
<1>7. ASSUME NEW waiters \in Seq(Reqs), NEW k \in FirstFor(i, waiters)
      PROVE  waiters[k] \in Reqs /\ store[i] \in Info /\ RemoveAt(waiters, k) \in Seq(Reqs)
  <2>1. k \in 1..Len(waiters) /\ store[i] # None
    BY <1>7 DEF FirstFor, Filter
  <2>2. waiters[k] \in Reqs /\ store[i] \in Info
    BY <1>1, <1>3, <2>1 DEF TypeOK
  <2> QED
    BY <2>1, <2>2, RemoveAtType
<1>8. CASE CheckNextScheduledWaiters
  <2>1. ASSUME loop' = [loop EXCEPT !.pc = "checkGetNextWaiters"]
        PROVE  /\ loop' \in LoopType /\ loop'.item = i /\ loop'.responded = loop.responded
               /\ loop'.pc = "checkGetNextWaiters"
    <3>1. "checkGetNextWaiters" \in Stages
      BY DEF Stages
    <3> QED
      BY <1>1, <1>2, <2>1, <3>1, NextStage
  <2>2. ASSUME loop' = [loop EXCEPT !.pc = "checkGetNextWaiters"],
               UNCHANGED <<itemLocked, callVars>>,
               getNextScheduledWaiters' \in Seq(Reqs),
               scheduled' \in [Items -> Scheduled \cup {None}],
               timers' \in [Timers -> Timer \cup {None}]
        PROVE  LockInv'
    <3>1. Locks'
      BY <2>2, SameLocks DEF callVars
    <3>2. ReleasedIsFree'
      BY <1>4, <2>1, <2>2 DEF ReleasedIsFree
    <3>3. TypeOK'
      BY <1>1, <1>3, <1>8, <2>1, <2>2, <3>1
         DEF CheckNextScheduledWaiters, TypeOK, LoopType, callVars
    <3> QED
      BY <3>1, <3>2, <3>3 DEF LockInv, Locks
  <2>3. ASSUME NEW k \in FirstFor(i, getNextScheduledWaiters), ~loop.responded,
               getNextScheduledWaiters' = RemoveAt(getNextScheduledWaiters, k),
               Answer(getNextScheduledWaiters[k], i, waiting),
               loop' = [loop EXCEPT !.pc = "checkGetNextWaiters", !.responded = TRUE],
               UNCHANGED <<scheduled, timers>>
        PROVE  LockInv'
    <3>1. Locks'
      BY <1>1, <1>3, <1>4, <1>5, <1>6, <1>7, <2>3, AnswerKeepsLocks
    <3>2. /\ loop' \in LoopType /\ loop'.item = i /\ loop'.responded
          /\ loop'.pc = "checkGetNextWaiters"
      <4>1. "checkGetNextWaiters" \in Stages
        BY DEF Stages
      <4> QED
        BY <1>1, <1>2, <2>3, <4>1, NextStageAnswered
    <3>3. ReleasedIsFree'
      BY <3>2 DEF ReleasedIsFree
    <3>4. getNextScheduledWaiters' \in Seq(Reqs)
      BY <1>6, <1>7, <2>3
    <3>5. TypeOK'
      BY <1>1, <1>3, <1>8, <2>3, <3>1, <3>2, <3>4
         DEF CheckNextScheduledWaiters, TypeOK, LoopType, Locks
    <3> QED
      BY <3>1, <3>3, <3>5 DEF LockInv, Locks
  <2>4. ASSUME NEW k \in FirstFor(i, getNextScheduledWaiters),
               getNextScheduledWaiters' = RemoveAt(getNextScheduledWaiters, k),
               ScheduleItem(getNextScheduledWaiters[k], i, scheduled, timers),
               loop' = [loop EXCEPT !.pc = "checkGetNextWaiters"],
               UNCHANGED <<itemLocked, callVars>>
        PROVE  LockInv'
    <3>1. /\ scheduled' \in [Items -> Scheduled \cup {None}]
          /\ timers' \in [Timers -> Timer \cup {None}]
      BY <1>3, <1>6, <1>7, <2>4, ScheduleItemType
    <3>2. getNextScheduledWaiters' \in Seq(Reqs)
      BY <1>6, <1>7, <2>4
    <3> QED
      BY <2>2, <2>4, <3>1, <3>2
  <2>5. ASSUME loop' = [loop EXCEPT !.pc = "checkGetNextWaiters"],
               UNCHANGED <<itemLocked, getNextScheduledWaiters, scheduled, timers, callVars>>
        PROVE  LockInv'
    BY <1>6, <2>2, <2>5
  <2> QED
    BY <1>8, <2>3, <2>4, <2>5 DEF CheckNextScheduledWaiters
<1>9. CASE CheckGetNextWaiters
  <2>1. loop' = Idle /\ Idle \in LoopType /\ Idle.pc \notin Stages
    BY <1>9 DEF CheckGetNextWaiters, Idle, LoopType, Stages
  <2>2. ReleasedIsFree'
    BY <2>1 DEF ReleasedIsFree
  <2>3. Locks' /\ getNextWaiters' \in Seq(Reqs)
    <3>1. CASE UNCHANGED <<itemLocked, getNextWaiters, callVars>>
      BY <1>6, <3>1, SameLocks DEF callVars
    <3>2. ASSUME NEW k \in FirstFor(i, getNextWaiters), ~loop.responded,
                 getNextWaiters' = RemoveAt(getNextWaiters, k),
                 Answer(getNextWaiters[k], i, waiting)
          PROVE  Locks' /\ getNextWaiters' \in Seq(Reqs)
      BY <1>1, <1>3, <1>4, <1>5, <1>6, <1>7, <3>2, AnswerKeepsLocks
    <3> QED
      BY <1>9, <3>1, <3>2 DEF CheckGetNextWaiters
  <2>4. TypeOK'
    BY <1>1, <1>9, <2>1, <2>3 DEF CheckGetNextWaiters, TypeOK, LoopType, Locks
  <2> QED
    BY <2>2, <2>3, <2>4 DEF LockInv, Locks
<1> QED
  BY <1>8, <1>9

\* The timer goroutines and the handler of their messages.
LEMMA TimerKeepsLocks ==
    ASSUME LockInv, NEW t \in Timers, TimerFires(t) \/ HandleScheduledItem(t)
    PROVE  LockInv'
<1>1. TypeOK /\ WaitingHoldNothing /\ ReleasedIsFree /\ HoldersAreExclusive
  BY DEF LockInv
<1>2. loop.pc = "select" /\ "select" \notin Stages /\ loop' = loop
  BY DEF TimerFires, HandleScheduledItem, Stage, Stages
<1>3. ReleasedIsFree'
  BY <1>2 DEF ReleasedIsFree
<1>4. timers[t] \in Timer
  BY <1>1 DEF TimerFires, HandleScheduledItem, TypeOK
<1>5. CASE TimerFires(t)
  <2>1. timers' \in [Timers -> Timer \cup {None}]
    BY <1>1, <1>4, <1>5 DEF TimerFires, TypeOK, Timer
  <2>2. Locks'
    BY <1>5, SameLocks DEF TimerFires, callVars
  <2>3. TypeOK'
    BY <1>1, <1>5, <2>1, <2>2 DEF TimerFires, TypeOK, waitVars, callVars
  <2> QED
    BY <1>3, <2>2, <2>3 DEF LockInv, Locks
<1>6. CASE HandleScheduledItem(t)
  <2> DEFINE i == timers[t].item
             r == timers[t].req
  <2>1. i \in Items /\ r \in Reqs
    BY <1>4 DEF Timer
  <2>2. timers' \in [Timers -> Timer \cup {None}] /\ scheduled' \in [Items -> Scheduled \cup {None}]
    BY <1>1, <1>6, <2>1 DEF HandleScheduledItem, TypeOK
  <2>3. stale' \in BOOLEAN
    BY <1>1, <1>6 DEF HandleScheduledItem, TypeOK
  <2>4. waiting \in SUBSET Reqs /\ \A s \in waiting : held[s] = None
    BY <1>1 DEF TypeOK, WaitingHoldNothing
  <2>5. dueWaiters \in [Items -> Seq(Reqs)]
    BY <1>1 DEF TypeOK
  <2>6. CASE UNCHANGED <<itemLocked, dueWaiters, callVars>>
    BY <1>1, <1>3, <1>6, <2>2, <2>3, <2>5, <2>6, SameLocks
       DEF HandleScheduledItem, TypeOK, callVars, LockInv, Locks
  <2>7. CASE dueWaiters' = [dueWaiters EXCEPT ![i] = Append(@, r)] /\ UNCHANGED <<itemLocked, callVars>>
    <3>1. Locks'
      BY <2>7, SameLocks DEF callVars
    <3>2. dueWaiters' \in [Items -> Seq(Reqs)]
      BY <2>1, <2>5, <2>7, WaitersType
    <3> QED
      BY <1>1, <1>3, <1>6, <2>2, <2>3, <2>7, <3>1, <3>2
         DEF HandleScheduledItem, TypeOK, callVars, LockInv, Locks
  <2>8. CASE i \notin itemLocked /\ Answer(r, i, waiting) /\ UNCHANGED dueWaiters
    <3>1. Locks'
      BY <1>1, <2>1, <2>4, <2>8, AnswerKeepsLocks
    <3>2. TypeOK'
      BY <1>1, <1>6, <2>2, <2>3, <2>8, <3>1 DEF HandleScheduledItem, TypeOK, Locks
    <3> QED
      BY <1>3, <3>1, <3>2 DEF LockInv, Locks
  <2>9. CASE /\ itemLocked' = itemLocked \cup {i}
             /\ waiting' = waiting \ {r}
             /\ UNCHANGED <<held, dueWaiters>>
    <3>1. Locks'
      BY <1>1, <2>1, <2>9 DEF Locks, TypeOK, WaitingHoldNothing, HoldersAreExclusive
    <3>2. TypeOK'
      BY <1>1, <1>6, <2>2, <2>3, <2>9, <3>1 DEF HandleScheduledItem, TypeOK, Locks
    <3> QED
      BY <1>3, <3>1, <3>2 DEF LockInv, Locks
  <2> QED
    BY <1>6, <2>6, <2>7, <2>8, <2>9 DEF HandleScheduledItem
<1> QED
  BY <1>5, <1>6

\* cancelRequest, and handleCancelRequest.
LEMMA CancelKeepsLocks ==
    ASSUME LockInv, NEW r \in Reqs, CancelRequest(r)
    PROVE  LockInv'
<1>1. TypeOK /\ WaitingHoldNothing /\ ReleasedIsFree /\ HoldersAreExclusive
  BY DEF LockInv
<1>2. loop.pc = "select" /\ "select" \notin Stages /\ loop' = loop
  BY DEF CancelRequest, Stage, Stages
<1>3. ReleasedIsFree'
  BY <1>2 DEF ReleasedIsFree
<1>4. /\ watched' \subseteq Reqs
      /\ \E tms \in [Timers -> Timer \cup {None}] : HandleCancelRequest(r, tms)
  <2>1. CASE r \in watched /\ watched' = watched \ {r} /\ HandleCancelRequest(r, timers)
    BY <1>1, <2>1 DEF TypeOK
  <2>2. ASSUME NEW t \in Timers, HandleCancelRequest(r, [timers EXCEPT ![t] = None]), UNCHANGED watched
        PROVE  /\ watched' \subseteq Reqs
               /\ \E tms \in [Timers -> Timer \cup {None}] : HandleCancelRequest(r, tms)
    <3>1. [timers EXCEPT ![t] = None] \in [Timers -> Timer \cup {None}]
      BY <1>1 DEF TypeOK
    <3> QED
      BY <1>1, <2>2, <3>1 DEF TypeOK
  <2> QED
    BY <2>1, <2>2 DEF CancelRequest
<1>5. PICK tms \in [Timers -> Timer \cup {None}] : HandleCancelRequest(r, tms)
  BY <1>4
<1>6. getNextWaiters' \in Seq(Reqs) /\ getNextScheduledWaiters' \in Seq(Reqs)
  <2>1. /\ getNextWaiters \in Seq(Reqs) /\ getNextScheduledWaiters \in Seq(Reqs)
        /\ getNextWaiters' = Without(getNextWaiters, r)
        /\ getNextScheduledWaiters' = Without(getNextScheduledWaiters, r)
    BY <1>1, <1>5 DEF HandleCancelRequest, TypeOK
  <2> QED
    BY <2>1, WithoutType
<1>7. dueWaiters' \in [Items -> Seq(Reqs)]
  <2>1. dueWaiters \in [Items -> Seq(Reqs)]
    BY <1>1 DEF TypeOK
  <2>2. \/ dueWaiters' = dueWaiters
        \/ \E i \in Items : dueWaiters' = [dueWaiters EXCEPT ![i] = Without(@, r)]
    BY <1>5 DEF HandleCancelRequest
  <2>3. \A i \in Items : [dueWaiters EXCEPT ![i] = Without(@, r)] \in [Items -> Seq(Reqs)]
    BY <2>1, WaitersType
  <2> QED
    BY <2>1, <2>2, <2>3
<1>8. scheduled' \in [Items -> Scheduled \cup {None}] /\ timers' \in [Timers -> Timer \cup {None}]
  <2>1. scheduled \in [Items -> Scheduled \cup {None}]
    BY <1>1 DEF TypeOK
  <2>2. CASE scheduled' = scheduled /\ timers' = tms
    BY <2>1, <2>2
  <2>3. ASSUME NEW i \in Items, scheduled[i] # None,
               scheduled' = [scheduled EXCEPT ![i] = None],
               timers' = [tms EXCEPT ![scheduled[i].timer] = IF @ # None /\ @.due THEN @ ELSE None]
        PROVE  scheduled' \in [Items -> Scheduled \cup {None}] /\ timers' \in [Timers -> Timer \cup {None}]
    <3>1. scheduled[i].timer \in Timers
      BY <2>1, <2>3 DEF Scheduled
    <3> QED
      BY <2>1, <2>3, <3>1
  <2> QED
    BY <1>5, <2>2, <2>3 DEF HandleCancelRequest
<1>9. waiting' \subseteq waiting /\ forgotten' \subseteq Reqs
  BY <1>1, <1>5 DEF HandleCancelRequest, TypeOK
<1>10. Locks'
  BY <1>1, <1>9 DEF CancelRequest, Locks, TypeOK, WaitingHoldNothing, HoldersAreExclusive
<1>11. TypeOK'
  BY <1>1, <1>4, <1>6, <1>7, <1>8, <1>9, <1>10 DEF CancelRequest, TypeOK, Locks
<1> QED
  BY <1>3, <1>10, <1>11 DEF LockInv, Locks

\* Close, the releases that come after it, and the clock.
LEMMA OtherStepsKeepLocks ==
    ASSUME LockInv, HandleClose \/ (\E r \in Reqs : ReleaseAfterClose(r)) \/ Tick
    PROVE  LockInv'
<1>1. TypeOK /\ WaitingHoldNothing /\ ReleasedIsFree /\ HoldersAreExclusive
  BY DEF LockInv
<1>2. CASE HandleClose
  <2>1. loop' = [pc |-> "closed", item |-> None, responded |-> FALSE, todo |-> <<>>]
    BY <1>2 DEF HandleClose, Idle
  <2>2. loop' \in LoopType /\ loop'.pc = "closed" /\ "closed" \notin Stages
    <3>1. "closed" \notin Stages
      BY DEF Stages
    <3>2. <<>> \in Seq(Reqs)
      OBVIOUS
    <3> QED
      BY <2>1, <3>1, <3>2 DEF LoopType
  <2>3. waiting' \subseteq waiting
    BY <1>2 DEF HandleClose
  <2>4. Locks'
    BY <1>1, <1>2, <2>3 DEF HandleClose, Locks, TypeOK, WaitingHoldNothing, HoldersAreExclusive
  <2>5. ReleasedIsFree'
    BY <2>2 DEF ReleasedIsFree
  <2>6. /\ getByIdWaiters' \in [Items -> Seq(Reqs)] /\ dueWaiters' \in [Items -> Seq(Reqs)]
        /\ getNextWaiters' \in Seq(Reqs) /\ getNextScheduledWaiters' \in Seq(Reqs)
        /\ scheduled' \in [Items -> Scheduled \cup {None}] /\ timers' \in [Timers -> Timer \cup {None}]
    BY <1>2 DEF HandleClose
  <2>7. TypeOK'
    BY <1>1, <1>2, <2>2, <2>4, <2>6 DEF HandleClose, TypeOK, LoopType, Locks
  <2> QED
    BY <2>4, <2>5, <2>7 DEF LockInv, Locks
<1>3. ASSUME NEW r \in Reqs, ReleaseAfterClose(r)
      PROVE  LockInv'
  <2>1. \A s \in Reqs : held'[s] = IF s = r THEN None ELSE held[s]
    BY <1>1, <1>3 DEF ReleaseAfterClose, TypeOK
  <2>2. HoldersAreExclusive' /\ WaitingHoldNothing' /\ ReleasedIsFree'
    BY <1>1, <1>3, <2>1
       DEF ReleaseAfterClose, HoldersAreExclusive, WaitingHoldNothing, ReleasedIsFree, TypeOK
  <2>3. TypeOK'
    BY <1>1, <1>3 DEF ReleaseAfterClose, TypeOK, waitVars
  <2> QED
    BY <2>2, <2>3 DEF LockInv
<1>4. CASE Tick
  <2>1. now' \in 0..(MaxTime + 1)
    BY <1>1, <1>4, ConstantsAssumption DEF Tick, TypeOK
  <2>2. TypeOK'
    BY <1>1, <1>4, <2>1 DEF Tick, TypeOK, waitVars, callVars
  <2>3. HoldersAreExclusive' /\ WaitingHoldNothing' /\ ReleasedIsFree'
    BY <1>1, <1>4 DEF Tick, HoldersAreExclusive, WaitingHoldNothing, ReleasedIsFree, callVars
  <2> QED
    BY <2>2, <2>3 DEF LockInv
<1> QED
  BY <1>2, <1>3, <1>4

\* A step that changes no variable keeps the invariant.
LEMMA StutterKeepsLocks ==
    ASSUME LockInv, UNCHANGED vars
    PROVE  LockInv'
BY DEF LockInv, TypeOK, WaitingHoldNothing, ReleasedIsFree, HoldersAreExclusive,
       vars, waitVars, callVars

\* Every step of the queue keeps the invariant: one step of the proof per action.
LEMMA NextKeepsLocks == LockInv /\ [Next]_vars => LockInv'
<1> SUFFICES ASSUME LockInv, [Next]_vars PROVE LockInv'
  OBVIOUS
<1>1. CASE LoopStep
  BY <1>1, CheckInScheduleKeepsLocks, CheckGetByIdWaitersKeepsLocks, CheckDueWaitersKeepsLocks,
     CheckNextWaitersKeepsLocks DEF LoopStep
<1>2. ASSUME NEW r \in Reqs, Call(r) \/ GiveBack(r) \/ CancelRequest(r) \/ ReleaseAfterClose(r)
      PROVE  LockInv'
  BY <1>2, CallKeepsLocks, GiveBackKeepsLocks, CancelKeepsLocks, OtherStepsKeepLocks
<1>3. ASSUME NEW t \in Timers, TimerFires(t) \/ HandleScheduledItem(t)
      PROVE  LockInv'
  BY <1>3, TimerKeepsLocks
<1>4. CASE HandleClose \/ Tick
  BY <1>4, OtherStepsKeepLocks
<1>5. CASE UNCHANGED vars
  BY <1>5, StutterKeepsLocks
<1> QED
  BY <1>1, <1>2, <1>3, <1>4, <1>5 DEF Next

\* The queue, its goroutines and its callers keep their types (TypeOK).
THEOREM TypeCorrect == Spec => []TypeOK
<1>1. LockInv => TypeOK
  BY DEF LockInv
<1> QED
  BY <1>1, InitLockInv, NextKeepsLocks, PTL DEF Spec

\* Whatever the interleaving of calls, releases, timers, cancellations, database
\* errors and Close, and even when outdated due messages are acted on, no item is
\* in the hands of two callers, and no item that a caller has is unlocked.
THEOREM MutualExclusion == Spec => []HoldersAreExclusive
<1>1. LockInv => HoldersAreExclusive
  BY DEF LockInv
<1> QED
  BY <1>1, InitLockInv, NextKeepsLocks, PTL DEF Spec
=============================================================================
