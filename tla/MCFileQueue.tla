----------------------------- MODULE MCFileQueue -----------------------------
(***************************************************************************)
(* Small instances of FileQueue for TLC.  up1 and up2 are the uploaders    *)
(* (runUploader), del the deleter, lim the limited uploader, which does    *)
(* not subscribe, nxt a caller of GetNext that does, api1 and api2 the     *)
(* callers of process (AddFile, DeleteFile, batch callbacks).              *)
(***************************************************************************)
EXTENDS FileQueue

CONSTANTS i1, i2, t1, t2, t3, t4, up1, up2, del, lim, nxt, api1, api2

MCRequest ==
    [r \in Reqs |->
        CASE r \in {up1, up2} -> [op |-> "GetNextScheduled", want |-> "PendingUpload", subscribe |-> TRUE]
          [] r = del -> [op |-> "GetNextScheduled", want |-> "PendingDeletion", subscribe |-> TRUE]
          [] r = lim -> [op |-> "GetNextScheduled", want |-> "PendingUpload", subscribe |-> FALSE]
          [] r = nxt -> [op |-> "GetNext", want |-> "PendingUpload", subscribe |-> TRUE]
          [] r \in {api1, api2} -> [op |-> "GetById", want |-> None, subscribe |-> FALSE]]

\* Items, timers, uploaders and callers of process are interchangeable, ...
Alike == {{up1, up2} \cap Reqs, {api1, api2} \cap Reqs}
Symmetry == Permutations(Items) \cup Permutations(Timers)
            \cup UNION {Permutations(S) : S \in Alike}

\* ... if a context can end for all of them or for none.
ASSUME SymmetryAssumption ==
    \A S \in Alike : S \subseteq Cancellable \/ S \cap Cancellable = {}

\* Nothing is claimed of a run after an outdated due message was acted on.
NotStale == ~stale

\* Nothing is claimed of a run in which the bound on timers stops a handler.
TimersSuffice == Stage("select") \/ Stage("closed") \/ ENABLED LoopStep

\* Either two uploaders that want the same files are at work, or an uploader and
\* the deleter, between which a file can pass, and a caller of GetNext.
OneCast == \/ Fresh(del) /\ Fresh(nxt)
           \/ Fresh(up2) /\ Cardinality({t \in Timers : timers[t] # None}) <= 2

\* The goroutine that watches a call the loop has no trace of has nothing to
\* cancel: states that differ in such goroutines only are one state.
View == <<store, itemLocked, waitVars, scheduled, timers, {r \in watched : ~Fresh(r)},
          callVars, loop, now, stale, forgotten>>
=============================================================================
