------------------------- MODULE FileQueueRefinement -------------------------
(***************************************************************************)
(* The proof that FileQueue implements LockedStore: every step of the      *)
(* event loop takes, drops, passes or updates one item in the sense of     *)
(* LockedStore, or changes neither the content nor who has which item.     *)
(***************************************************************************)
EXTENDS FileQueueProofs

Abstract == [Lock!Next]_(Lock!vars)

\* A step of the queue that changes neither the items nor their holders is a
\* stuttering step of the table.
LEMMA SameHolders ==
    ASSUME UNCHANGED <<store, held>>
    PROVE  Abstract
BY DEF Abstract, Lock!vars, Holders

\* An answer takes an item that nobody has, or goes unread.
LEMMA AnswerTakes ==
    ASSUME LockInv, NEW r \in Reqs, NEW i \in Items, i \notin itemLocked,
           NEW blocked \in SUBSET Reqs, \A s \in blocked : held[s] = None,
           Answer(r, i, blocked), UNCHANGED store
    PROVE  Abstract
<1>1. None \notin Items
  BY ConstantsAssumption
<1>2. held \in [Reqs -> Items \cup {None}] /\ \A s \in Reqs : held[s] # i
  BY <1>1 DEF LockInv, TypeOK, HoldersAreExclusive
<1>3. CASE r \notin blocked
  BY <1>3, SameHolders DEF Answer
<1>4. CASE r \in blocked
  <2>1. \A s \in Reqs : held'[s] = IF s = r THEN i ELSE held[s]
    BY <1>2, <1>4 DEF Answer
  <2>2. held[r] = None
    BY <1>4
  <2>3. Holders[i] = {} /\ Holders \in [Items -> SUBSET Reqs]
    BY <1>2 DEF Holders
  <2>4. Holders' = [Holders EXCEPT ![i] = {r}]
    BY <1>1, <1>2, <2>1, <2>2 DEF Holders
  <2>5. Lock!Take(r, i)
    BY <2>3, <2>4 DEF Lock!Take
  <2> QED
    BY <2>5 DEF Abstract, Lock!Next
<1> QED
  BY <1>3, <1>4

\* handleGetNextScheduled answers with a free item or changes nothing here.
LEMMA HandleGetNextScheduledTakes ==
    ASSUME LockInv, NEW r \in Reqs, NEW sch, NEW tms, NEW watch,
           NEW blocked \in SUBSET Reqs, \A s \in blocked : held[s] = None,
           HandleGetNextScheduled(r, sch, tms, blocked, watch), UNCHANGED store
    PROVE  Abstract
<1>1. \A i \in Earliest(Suitable(r, sch)) : i \in Items /\ i \notin itemLocked
  BY DEF Earliest, Suitable
<1>2. ASSUME NEW i \in Earliest(Suitable(r, sch)), Answer(r, i, blocked)
      PROVE  Abstract
  BY <1>1, <1>2, AnswerTakes
<1>3. CASE held' = held
  BY <1>3, SameHolders
<1> QED
  BY <1>2, <1>3 DEF HandleGetNextScheduled, AnswerError

\* GetById, GetNext and GetNextScheduled park the caller or take a free item.
LEMMA CallTakes ==
    ASSUME LockInv, NEW r \in Reqs, Call(r)
    PROVE  Abstract
<1>1. /\ waiting \in SUBSET Reqs
      /\ waiting \cup {r} \in SUBSET Reqs
      /\ \A s \in waiting \cup {r} : held[s] = None
      /\ UNCHANGED store
  BY DEF Call, GetById, GetNext, GetNextScheduled, Fresh, LockInv, TypeOK, WaitingHoldNothing
<1>2. ASSUME NEW i \in Items, GetById(r, i)
      PROVE  Abstract
  BY <1>1, <1>2, AnswerTakes, SameHolders DEF GetById
<1>3. CASE GetNext(r)
  <2>1. ASSUME NEW i \in Items \ itemLocked, Answer(r, i, waiting \cup {r})
        PROVE  Abstract
    BY <1>1, <2>1, AnswerTakes
  <2>2. CASE held' = held
    BY <1>1, <2>2, SameHolders
  <2> QED
    BY <1>3, <2>1, <2>2 DEF GetNext, AnswerError
<1>4. CASE GetNextScheduled(r)
  BY <1>1, <1>4, HandleGetNextScheduledTakes DEF GetNextScheduled
<1> QED
  BY <1>2, <1>3, <1>4 DEF Call

\* What a caller gives back it had alone.
LEMMA GiveBackDrops ==
    ASSUME LockInv, NEW r \in Reqs, held[r] # None,
           held' = [held EXCEPT ![r] = None]
    PROVE  /\ held[r] \in Items
           /\ Holders[held[r]] = {r}
           /\ Holders' = [Holders EXCEPT ![held[r]] = {}]
<1>1. None \notin Items
  BY ConstantsAssumption
<1>2. held \in [Reqs -> Items \cup {None}] /\ held[r] \in Items
  BY DEF LockInv, TypeOK
<1>3. \A s \in Reqs : s # r => held[s] # held[r]
  BY DEF LockInv, HoldersAreExclusive
<1>4. Holders[held[r]] = {r}
  BY <1>2, <1>3 DEF Holders
<1>5. \A s \in Reqs : held'[s] = IF s = r THEN None ELSE held[s]
  BY <1>2
<1>6. \A i \in Items : {s \in Reqs : held'[s] = i} = IF i = held[r] THEN {} ELSE {s \in Reqs : held[s] = i}
  BY <1>1, <1>2, <1>3, <1>5
<1>7. Holders' = [Holders EXCEPT ![held[r]] = {}]
  BY <1>2, <1>6 DEF Holders
<1> QED
  BY <1>2, <1>4, <1>7

\* Release and ReleaseAndUpdate drop the item, pass it on, or update it.
LEMMA ReleaseRefines ==
    ASSUME LockInv, NEW r \in Reqs, GiveBack(r) \/ ReleaseAfterClose(r)
    PROVE  Abstract
<1> DEFINE i == held[r]
<1>1. i # None /\ i \in Items
  <2>1. i \in itemLocked \/ i # None
    BY DEF GiveBack, Release, ReleaseAndUpdate, ReleaseAfterClose
  <2> QED
    BY <2>1, ConstantsAssumption DEF LockInv, TypeOK
<1>2. CASE held' = [held EXCEPT ![r] = None] /\ UNCHANGED store
  <2>1. Lock!Drop(r, i)
    BY <1>1, <1>2, GiveBackDrops DEF Lock!Drop
  <2> QED
    BY <1>1, <2>1 DEF Abstract, Lock!Next
<1>3. ASSUME NEW info \in Info, held' = [held EXCEPT ![r] = None],
             store' = [store EXCEPT ![i] = info]
      PROVE  Abstract
  <2>1. Lock!Update(r, i, info)
    BY <1>1, <1>3, GiveBackDrops DEF Lock!Update
  <2>2. info \in Info \cup {None}
    OBVIOUS
  <2> QED
    BY <1>1, <2>1, <2>2 DEF Abstract, Lock!Next
<1>4. ASSUME NEW w \in Reqs,
             held' = [held EXCEPT ![r] = None, ![w] = IF w \in waiting THEN i ELSE @],
             UNCHANGED store
      PROVE  Abstract
  <2>1. held \in [Reqs -> Items \cup {None}] /\ None \notin Items
    BY ConstantsAssumption DEF LockInv, TypeOK
  <2>2. CASE w \notin waiting
    <3>1. held' = [held EXCEPT ![r] = None]
      <4> DEFINE h == [held EXCEPT ![r] = None]
      <4>1. h \in [Reqs -> Items \cup {None}] /\ held' \in [Reqs -> Items \cup {None}]
        BY <1>1, <1>4, <2>1
      <4>2. \A s \in Reqs : held'[s] = h[s]
        BY <1>4, <2>1, <2>2
      <4> HIDE DEF h
      <4>3. held' = h
        BY <4>1, <4>2
      <4> QED
        BY <4>3 DEF h
    <3> QED
      BY <1>2, <1>4, <3>1
  <2>3. CASE w \in waiting
    <3>1. held[w] = None /\ w # r
      BY <1>1, <2>3 DEF LockInv, WaitingHoldNothing
    <3>2. \A s \in Reqs : held'[s] = IF s = w THEN i ELSE IF s = r THEN None ELSE held[s]
      BY <1>4, <2>1, <2>3
    <3>3. \A s \in Reqs : s # r => held[s] # i
      BY <1>1 DEF LockInv, HoldersAreExclusive
    <3>4. Holders[i] = {r}
      BY <1>1, <3>3 DEF Holders
    <3>5. \A j \in Items : {s \in Reqs : held'[s] = j} = IF j = i THEN {w} ELSE {s \in Reqs : held[s] = j}
      BY <1>1, <2>1, <3>1, <3>2, <3>3
    <3>6. Holders' = [Holders EXCEPT ![i] = {w}]
      BY <1>1, <3>5 DEF Holders
    <3>7. Lock!Pass(r, w, i)
      BY <1>4, <3>4, <3>6 DEF Lock!Pass
    <3> QED
      BY <1>1, <3>7 DEF Abstract, Lock!Next
  <2> QED
    BY <2>2, <2>3
<1>5. CASE Release(r)
  <2>1. getByIdWaiters[i] # <<>> => Head(getByIdWaiters[i]) \in Reqs
    <3>1. getByIdWaiters[i] \in Seq(Reqs)
      BY <1>1 DEF LockInv, TypeOK
    <3> QED
      BY <3>1
  <2> QED
    BY <1>2, <1>4, <1>5, <2>1 DEF Release
<1>6. ASSUME NEW info \in Info, ReleaseAndUpdate(r, info)
      PROVE  Abstract
  BY <1>2, <1>3, <1>6 DEF ReleaseAndUpdate
<1>7. CASE ReleaseAfterClose(r)
  BY <1>2, <1>7 DEF ReleaseAfterClose
<1> QED
  BY <1>5, <1>6, <1>7 DEF GiveBack

\* The check functions answer only while the released item is free.
LEMMA LoopStepTakes ==
    ASSUME LockInv, LoopStep
    PROVE  Abstract
<1> DEFINE i == loop.item
<1>1. TypeOK /\ ReleasedIsFree
  BY DEF LockInv
<1>2. waiting \in SUBSET Reqs /\ (\A s \in waiting : held[s] = None) /\ UNCHANGED store
  <2>1. waiting \in SUBSET Reqs /\ \A s \in waiting : held[s] = None
    BY DEF LockInv, TypeOK, WaitingHoldNothing
  <2>2. UNCHANGED store
    BY DEF LoopStep, RescheduleItem, ScheduleNextForRequest, ScheduleEarlierItem, LeaveSchedule,
           CheckGetByIdWaiters, DueWaiterAnswered, DueWaiterKept, DueWaiterGetsNext,
           DueWaitersDone, CheckNextScheduledWaiters, CheckGetNextWaiters
  <2> QED
    BY <2>1, <2>2
<1>3. loop.pc \in Stages
  BY DEF LoopStep, RescheduleItem, ScheduleNextForRequest, ScheduleEarlierItem, LeaveSchedule,
         CheckGetByIdWaiters, DueWaiterAnswered, DueWaiterKept, DueWaiterGetsNext,
         DueWaitersDone, CheckNextScheduledWaiters, CheckGetNextWaiters, Stage, Stages
<1>4. i \in Items
  BY <1>1, <1>3 DEF TypeOK
<1>5. ~loop.responded \/ loop.pc = "checkGetByIdWaiters" => i \notin itemLocked
  BY <1>1, <1>3 DEF ReleasedIsFree
<1>6. CASE held' = held
  BY <1>2, <1>6, SameHolders
<1>7. ASSUME NEW r \in Reqs, ~loop.responded \/ loop.pc = "checkGetByIdWaiters", Answer(r, i, waiting)
      PROVE  Abstract
  BY <1>2, <1>4, <1>5, <1>7, AnswerTakes
<1>8. CASE RescheduleItem \/ ScheduleEarlierItem \/ LeaveSchedule \/ DueWaiterKept \/ DueWaitersDone
  BY <1>6, <1>8 DEF RescheduleItem, ScheduleEarlierItem, LeaveSchedule, DueWaiterKept,
                    DueWaitersDone, callVars
<1>9. CASE ScheduleNextForRequest
  <2>1. scheduled[i].req \in Reqs
    BY <1>1, <1>4, <1>9 DEF ScheduleNextForRequest, TypeOK, Scheduled
  <2> QED
    BY <1>2, <1>9, <2>1, HandleGetNextScheduledTakes DEF ScheduleNextForRequest
<1>10. CASE CheckGetByIdWaiters
  <2>1. loop.pc = "checkGetByIdWaiters"
    BY <1>10 DEF CheckGetByIdWaiters, Stage
  <2>2. getByIdWaiters[i] \in Seq(Reqs)
    BY <1>1, <1>4 DEF TypeOK
  <2>3. getByIdWaiters[i] # <<>> => Head(getByIdWaiters[i]) \in Reqs
    BY <2>2
  <2> QED
    BY <1>6, <1>7, <1>10, <2>1, <2>3 DEF CheckGetByIdWaiters
<1>11. CASE DueWaiterAnswered \/ DueWaiterGetsNext
  <2>1. loop.todo \in Seq(Reqs) /\ loop.todo # <<>>
    BY <1>1, <1>11 DEF TypeOK, DueWaiterAnswered, DueWaiterGetsNext
  <2>2. Head(loop.todo) \in Reqs
    BY <2>1
  <2> QED
    BY <1>2, <1>7, <1>11, <2>2, HandleGetNextScheduledTakes DEF DueWaiterAnswered, DueWaiterGetsNext
<1>12. ASSUME NEW waiters \in Seq(Reqs), NEW k \in FirstFor(i, waiters)
       PROVE  waiters[k] \in Reqs
  BY <1>12 DEF FirstFor
<1>13. getNextScheduledWaiters \in Seq(Reqs) /\ getNextWaiters \in Seq(Reqs)
  BY <1>1 DEF TypeOK
<1>14. CASE CheckNextScheduledWaiters
  <2>1. ASSUME NEW k \in FirstFor(i, getNextScheduledWaiters), ~loop.responded,
               Answer(getNextScheduledWaiters[k], i, waiting)
        PROVE  Abstract
    BY <1>7, <1>12, <1>13, <2>1
  <2> QED
    BY <1>6, <1>14, <2>1 DEF CheckNextScheduledWaiters, callVars
<1>15. CASE CheckGetNextWaiters
  <2>1. ASSUME NEW k \in FirstFor(i, getNextWaiters), ~loop.responded,
               Answer(getNextWaiters[k], i, waiting)
        PROVE  Abstract
    BY <1>7, <1>12, <1>13, <2>1
  <2> QED
    BY <1>6, <1>15, <2>1 DEF CheckGetNextWaiters, callVars
<1> QED
  BY <1>8, <1>9, <1>10, <1>11, <1>14, <1>15 DEF LoopStep

\* A due message hands a free item to the request the timer was started for, or to
\* nobody.
LEMMA TimerTakes ==
    ASSUME LockInv, NEW t \in Timers, HandleScheduledItem(t)
    PROVE  Abstract
<1>1. timers[t] \in Timer
  BY DEF HandleScheduledItem, LockInv, TypeOK
<1>2. timers[t].item \in Items /\ timers[t].req \in Reqs
  BY <1>1 DEF Timer
<1>3. waiting \in SUBSET Reqs /\ (\A s \in waiting : held[s] = None) /\ UNCHANGED store
  BY DEF HandleScheduledItem, LockInv, TypeOK, WaitingHoldNothing
<1>4. CASE held' = held
  BY <1>3, <1>4, SameHolders
<1>5. CASE timers[t].item \notin itemLocked /\ Answer(timers[t].req, timers[t].item, waiting)
  BY <1>2, <1>3, <1>5, AnswerTakes
<1> QED
  BY <1>4, <1>5 DEF HandleScheduledItem, callVars

\* Every step of the queue is a step of the table of locked items, or none.
LEMMA StepRefines == LockInv /\ [Next]_vars => Abstract
<1> SUFFICES ASSUME LockInv, [Next]_vars PROVE Abstract
  OBVIOUS
<1>1. CASE UNCHANGED <<store, held>>
  BY <1>1, SameHolders
<1>2. ASSUME NEW r \in Reqs, CancelRequest(r)
      PROVE  Abstract
  BY <1>1, <1>2 DEF CancelRequest
<1>3. ASSUME NEW t \in Timers, TimerFires(t)
      PROVE  Abstract
  BY <1>1, <1>3 DEF TimerFires, callVars
<1>4. CASE HandleClose \/ Tick \/ UNCHANGED vars
  BY <1>1, <1>4 DEF HandleClose, Tick, vars, callVars
<1> QED
  BY <1>2, <1>3, <1>4, CallTakes, ReleaseRefines, LoopStepTakes, TimerTakes DEF Next

\* The queue implements LockedStore: to its callers it is a table with one lock
\* per item, in which only the caller that has taken an item changes it.
THEOREM Refinement == Spec => ImplementsLockedStore
<1>1. Init => Lock!Init
  <2> SUFFICES ASSUME Init PROVE Lock!Init
    OBVIOUS
  <2>1. None \notin Items
    BY ConstantsAssumption
  <2>2. Holders = [i \in Items |-> {}]
    BY <2>1 DEF Init, Holders
  <2> QED
    BY <2>2 DEF Init, Lock!Init
<1>2. LockInv /\ [Next]_vars => [Lock!Next]_(Lock!vars)
  BY StepRefines DEF Abstract
<1> QED
  BY <1>1, <1>2, InitLockInv, NextKeepsLocks, PTL DEF Spec, ImplementsLockedStore, Lock!Spec
=============================================================================
