----------------------------- MODULE LockedStore -----------------------------
(***************************************************************************)
(* What the file queue promises its callers, without the queue: a table of *)
(* items in which an item is taken by at most one caller at a time, and in *)
(* which only the caller that has taken an item changes it.                *)
(***************************************************************************)
CONSTANTS Items, Callers, Values

VARIABLES content, holders

vars == <<content, holders>>

Init ==
    /\ content \in [Items -> Values]
    /\ holders = [i \in Items |-> {}]

\* GetById, GetNext and GetNextScheduled return item i to caller c.
Take(c, i) ==
    /\ holders[i] = {}
    /\ holders' = [holders EXCEPT ![i] = {c}]
    /\ UNCHANGED content

\* Release, or an update that was not stored.
Drop(c, i) ==
    /\ holders[i] = {c}
    /\ holders' = [holders EXCEPT ![i] = {}]
    /\ UNCHANGED content

\* Release of an item the next caller already waits for.
Pass(c, d, i) ==
    /\ holders[i] = {c}
    /\ holders' = [holders EXCEPT ![i] = {d}]
    /\ UNCHANGED content

\* ReleaseAndUpdate.
Update(c, i, v) ==
    /\ holders[i] = {c}
    /\ holders' = [holders EXCEPT ![i] = {}]
    /\ content' = [content EXCEPT ![i] = v]

Next ==
    \E c \in Callers, i \in Items :
        \/ Take(c, i)
        \/ Drop(c, i)
        \/ \E d \in Callers : Pass(c, d, i)
        \/ \E v \in Values : Update(c, i, v)

Spec == Init /\ [][Next]_vars
=============================================================================
