------------------------------ MODULE FileSync ------------------------------
(***************************************************************************)
(* The file uploader, core/files/filesync: what happens to a file between  *)
(* AddFile and DeleteFile.  Several goroutines move a file through its     *)
(* states: the API calls, ten uploaders, the limited uploader, the         *)
(* deleter, and the callbacks of the batches of blocks that are pushed to  *)
(* the file node.  Each works on a file it has locked through the queue;   *)
(* the queue itself is the subject of module FileQueue, and here it is     *)
(* only a table of items with a lock for each of them, as in LockedStore.  *)
(*                                                                         *)
(* Time is left out: an item rescheduled to a later moment can be taken at *)
(* any moment, and the space usage read from the node may expire between   *)
(* any two steps.  A block has size 1.  The blocks of one request to the   *)
(* node belong to one file: a request with blocks of several files is      *)
(* several requests here, that need not have the same outcome.             *)
(***************************************************************************)
EXTENDS Integers, Sequences, FiniteSets, FiniteSetsExt

CONSTANTS Objects,    \* file objects; the queue's keys
          Blocks,     \* blocks of data, each of size 1
          BlocksOf,   \* the blocks a file consists of
          Stored,     \* blocks the node has already, from other spaces
          Limit,      \* the node's limit for the space
          Uploaders,  \* goroutines of runUploader
          LimUploader, Deleter,  \* runLimitedUploader and runDeleter
          Callers,    \* goroutines that call AddFile and DeleteFile
          Deletes,    \* whether they call DeleteFile
          MaxCalls,   \* bound: calls of AddFile and DeleteFile
          Slots,      \* bound: requests to the node at a time
          UpdateBuffer,  \* room for announcements of free space
          Faults,     \* what may go wrong: see FaultKinds
          None

(* "rpc": a call to the node fails, and its effect may be lost or not.     *)
(* "status": a status callback fails.  "gone": it says that the object is  *)
(* deleted.  "space": the space has no usage tracker.  "restart": the      *)
(* application stops and starts again.                                     *)
FaultKinds == {"rpc", "status", "gone", "space", "restart"}

ASSUME ConstantsAssumption ==
         /\ Limit \in Nat /\ MaxCalls \in Nat /\ UpdateBuffer \in Nat \ {0}
         /\ Deletes \in BOOLEAN
         /\ BlocksOf \in [Objects -> SUBSET Blocks]
         /\ \A o \in Objects : BlocksOf[o] # {} /\ IsFiniteSet(BlocksOf[o])
         /\ Stored \subseteq Blocks
         /\ Faults \subseteq FaultKinds

Syncers == Uploaders \cup {LimUploader}
Workers == Syncers \cup {Deleter} \cup Callers

VARIABLES info,     \* the queue's items, as its storage has them
          lock,     \* who has locked an item
          work,     \* what a goroutine is doing, with the item it holds
          pending,  \* the batcher: blocks waiting for a request
          slots,    \* requests to the node and their outcomes
          node,     \* the node: the blocks bound to each file
          usage,    \* spaceUsage.usageFromNode
          files,    \* spaceUsage.files: size allocated to each file
          updateCh, \* announcements of free space under way
          update,   \* the announcement the limited uploader works on
          booting,  \* Run has not started the goroutines yet
          calls     \* calls of AddFile and DeleteFile so far

vars == <<info, lock, work, pending, slots, node, usage, files, updateCh,
          update, booting, calls>>
updates == <<updateCh, update>>

States == {"PendingUpload", "Uploading", "Limited", "PendingDeletion",
           "Done", "Deleted"}
FileInfo == [state : States, toUpload : SUBSET Blocks, toBind : SUBSET Blocks,
             bytes : Nat]

New(state) == [state |-> state, toUpload |-> {}, toBind |-> {}, bytes |-> 0]
IsUploadingState(s) == s \in {"PendingUpload", "Uploading", "Limited", "Done"}

Idle == [pc |-> "idle", obj |-> None, it |-> None, left |-> {}, ok |-> TRUE]
Work == [pc : {"idle", "check", "allocate", "limitReached", "syncing", "walk",
               "delete", "release", "stuck"},
         obj : Objects \cup {None}, it : FileInfo \cup {None},
         left : SUBSET Blocks, ok : BOOLEAN]
Free == [stage |-> "free", obj |-> None, blocks |-> {}]
Slot == [stage : {"free", "queued", "ok", "limit", "error", "stuck"},
         obj : Objects \cup {None}, blocks : SUBSET Blocks]

-----------------------------------------------------------------------------
(* The file node.  A block counts once, however many files share it.       *)
InSpace == UNION {node[o] : o \in Objects}
NodeUsage == Cardinality(InSpace)
Fits(bs) == Cardinality(InSpace \cup bs) <= Limit

(* rpcStore.DeleteFiles: the blocks of the file are unbound, or the call   *)
(* fails before or after the node has done it.                             *)
DeleteFilesOk(o) == node' = [node EXCEPT ![o] = {}]
DeleteFilesFails(o) == "rpc" \in Faults /\ (UNCHANGED node \/ DeleteFilesOk(o))

(* What storage gives back for an item that was released: marshalFileInfo  *)
(* writes every cid of a set to the same array element, so one of them     *)
(* survives.  A GetById that was waiting gets the item as it was released. *)
OneOf(S) == IF S = {} THEN {{}} ELSE {{x} : x \in S}
Marshal(it) == {[it EXCEPT !.toUpload = u, !.toBind = b] :
                  u \in OneOf(it.toUpload), b \in OneOf(it.toBind)}
ReleaseAndUpdate(o, it) == /\ \E i \in Marshal(it) \cup {it} :
                                info' = [info EXCEPT ![o] = i]
                           /\ lock' = [lock EXCEPT ![o] = None]

(* spaceUsage: the sum of what is allocated, and update, which asks the    *)
(* node again if the last answer is too old, and announces the answer.     *)
(* The channels between the tracker of a space and the limited uploader,   *)
(* with the goroutine that forwards from one to the other, are one channel *)
(* with room for UpdateBuffer messages (three in the code); a message that *)
(* finds no room is dropped.                                               *)
allocatedUsage == MapThenSumSet(LAMBDA o : files[o],
                                {o \in Objects : files[o] # None})
Announce(u) == updateCh' = IF Len(updateCh) < UpdateBuffer
                             THEN Append(updateCh, Max({0, Limit - u})) ELSE updateCh
UpdateUsage == \/ usage # None /\ UNCHANGED <<usage, updateCh>>
               \/ usage' = NodeUsage /\ Announce(NodeUsage)
Deallocate(o) == files' = [files EXCEPT ![o] = None]

-----------------------------------------------------------------------------
(* Every goroutine that holds an item ends by releasing it.  After an      *)
(* error (ok is FALSE) the item is rescheduled; the limited uploader also  *)
(* drops the announcement it is working on.                                *)
Item(w) == work[w].it
Obj(w) == work[w].obj
At(w, pc) == work[w].pc = pc
Goto(w, pc, it) == work' = [work EXCEPT ![w].pc = pc, ![w].it = it]
Fail(w, it) == work' = [work EXCEPT ![w].pc = "release", ![w].it = it,
                                    ![w].ok = FALSE]

Lock(w, o, pc, it) == /\ lock[o] = None /\ At(w, "idle")
                      /\ lock' = [lock EXCEPT ![o] = w]
                      /\ work' = [work EXCEPT ![w] = [Idle EXCEPT !.pc = pc,
                                                   !.obj = o, !.it = it]]

Release(w) ==
  /\ At(w, "release")
  /\ ReleaseAndUpdate(Obj(w), Item(w))
  /\ work' = [work EXCEPT ![w] = Idle]
  /\ update' = IF w # LimUploader THEN update
               ELSE IF ~work[w].ok THEN None
               ELSE Max({0, update - info[Obj(w)].bytes})
  /\ UNCHANGED <<pending, slots, node, usage, files, updateCh, booting, calls>>

(* updateStatus: the callbacks accept the status, fail, or say that the    *)
(* object is deleted.  In the last case the goroutine calls DeleteFile,    *)
(* which waits for the lock that the goroutine itself holds.               *)
StatusFails == "status" \in Faults
Gone(w) == /\ "gone" \in Faults
           /\ Goto(w, "stuck", Item(w))

(* AddFile and DeleteFile.  The closure's result is what Release stores.   *)
Call(c, o, it) == /\ calls < MaxCalls
                  /\ calls' = calls + 1
                  /\ Lock(c, o, "release", it)
                  /\ UNCHANGED <<info, pending, slots, node, usage, files,
                                 updates, booting>>

AddFile(c, o) == Call(c, o, IF info[o] # None /\ IsUploadingState(info[o].state)
                              THEN info[o] ELSE New("PendingUpload"))

DeleteFile(c, o) ==
  /\ Deletes
  /\ Call(c, o, IF info[o] # None
                  THEN [info[o] EXCEPT !.state = "PendingDeletion"]
                  ELSE New("PendingDeletion"))

(* GetNextScheduled of the uploaders, the limited uploader and the         *)
(* deleter.  The limited uploader takes the files that fit into the space  *)
(* announced, until none is left.                                          *)
HasState(o, state) == info[o] # None /\ info[o].state = state
Take(w, o, state, pc) == /\ ~booting /\ HasState(o, state)
                         /\ Lock(w, o, pc, info[o])
                         /\ UNCHANGED <<info, pending, slots, node, usage,
                                        files, updates, booting, calls>>

TakePending(u, o) == Take(u, o, "PendingUpload", "check")
TakeDeletion(o) == Take(Deleter, o, "PendingDeletion", "delete")
ReceiveUpdate == /\ ~booting /\ update = None /\ updateCh # <<>>
                 /\ update' = Head(updateCh) /\ updateCh' = Tail(updateCh)
                 /\ UNCHANGED <<info, lock, work, pending, slots, node, usage,
                                files, booting, calls>>
GetLimitedFile(o) == /\ update # None
                     /\ HasState(o, "Limited") /\ info[o].bytes <= update
                     /\ Take(LimUploader, o, "Limited", "check")
NoLimitedFile == /\ ~booting /\ update # None /\ At(LimUploader, "idle")
                 /\ \A o \in Objects : HasState(o, "Limited") /\ lock[o] = None
                                         => info[o].bytes > update
                 /\ update' = None
                 /\ UNCHANGED <<info, lock, work, pending, slots, node, usage,
                                files, updateCh, booting, calls>>

-----------------------------------------------------------------------------
(* processFilePendingUpload, for an item of an uploader or of the limited  *)
(* uploader.  checkBlocksAvailability asks the node which blocks it lacks, *)
(* unless the item has cids of an earlier answer.                          *)
CheckBlocksAvailability(w) ==
  LET o == Obj(w)
      it == Item(w)
      missing == BlocksOf[o] \ InSpace
  IN /\ At(w, "check")
     /\ IF it.toBind \cup it.toUpload # {}
          THEN Goto(w, "allocate", it)
          ELSE \/ Goto(w, "allocate",
                       [it EXCEPT !.toUpload = missing \ Stored,
                                  !.toBind = missing \cap Stored,
                                  !.bytes = Cardinality(missing)])
               \/ "rpc" \in Faults /\ Fail(w, it)
     /\ UNCHANGED <<info, lock, pending, slots, node, usage, files, updates,
                    booting, calls>>

(* allocateFile: any error, also a failed call to the node, counts as the  *)
(* limit being reached.                                                    *)
AllocateFile(w) ==
  LET o == Obj(w)
      it == Item(w)
      limited == Goto(w, "limitReached", [it EXCEPT !.state = "Limited"])
  IN /\ At(w, "allocate")
     /\ \/ /\ "space" \in Faults
           /\ Fail(w, it)
           /\ UNCHANGED <<files, usage, updateCh>>
        \/ /\ files[o] # None
           /\ Goto(w, "syncing", it)
           /\ UNCHANGED <<files, usage, updateCh>>
        \/ /\ files[o] = None /\ UpdateUsage
           /\ IF Limit - usage' - allocatedUsage < it.bytes
                THEN limited /\ UNCHANGED files
                ELSE /\ files' = [files EXCEPT ![o] = it.bytes]
                     /\ Goto(w, "syncing", it)
        \/ /\ files[o] = None /\ "rpc" \in Faults
           /\ limited
           /\ UNCHANGED <<files, usage, updateCh>>
     /\ UNCHANGED <<info, lock, pending, slots, node, update, booting, calls>>

(* handleLimitReached: unbind the file, whether or not that works, and     *)
(* report the status.                                                      *)
HandleLimitReached(w) ==
  /\ At(w, "limitReached")
  /\ DeleteFilesOk(Obj(w)) \/ DeleteFilesFails(Obj(w))
  /\ \/ Goto(w, "release", Item(w)) /\ UNCHANGED files
     \/ StatusFails /\ Fail(w, Item(w)) /\ Deallocate(Obj(w))
     \/ Gone(w) /\ UNCHANGED files
  /\ UNCHANGED <<info, lock, pending, slots, usage, updates, booting, calls>>

(* upload: report the status, go through the blocks and hand them to the   *)
(* batcher, or bind them.                                                  *)
StartUpload(w) ==
  /\ At(w, "syncing")
  /\ \/ /\ work' = [work EXCEPT ![w].pc = "walk", ![w].left = BlocksOf[Obj(w)]]
        /\ UNCHANGED files
     \/ StatusFails /\ Fail(w, Item(w)) /\ Deallocate(Obj(w))
     \/ Gone(w) /\ UNCHANGED files
  /\ UNCHANGED <<info, lock, pending, slots, node, usage, updates, booting, calls>>

Bound(w) == [Item(w) EXCEPT !.toBind = {}]

UploadBlock(w, b) ==
  /\ At(w, "walk") /\ b \in work[w].left \ Item(w).toBind
  /\ pending' = [pending EXCEPT ![Obj(w)] = @ \cup {b}]
  /\ work' = [work EXCEPT ![w].left = @ \ {b}]
  /\ UNCHANGED <<info, lock, slots, node, usage, files, updates, booting, calls>>

(* Mutant of BindBlock: an error of BindCids is ignored. *)
BindErrorIgnored(w, b) ==
  /\ At(w, "walk") /\ b \in work[w].left \cap Item(w).toBind
  /\ UNCHANGED node \/ node' = [node EXCEPT ![Obj(w)] = @ \cup {b}]
  /\ work' = [work EXCEPT ![w].left = @ \ {b}]
  /\ UNCHANGED <<info, lock, pending, slots, usage, files, updates, booting, calls>>

BindBlock(w, b) ==
  /\ At(w, "walk") /\ b \in work[w].left \cap Item(w).toBind
  /\ \/ /\ Fits({b})
        /\ node' = [node EXCEPT ![Obj(w)] = @ \cup {b}]
        /\ work' = [work EXCEPT ![w].left = @ \ {b}]
        /\ UNCHANGED files
     \/ /\ ~Fits({b})
        /\ Goto(w, "limitReached", [Bound(w) EXCEPT !.state = "Limited"])
        /\ UNCHANGED <<node, files>>
     \/ /\ "rpc" \in Faults
        /\ Fail(w, Bound(w)) /\ Deallocate(Obj(w))
        /\ UNCHANGED node \/ (Fits({b}) /\ node' = [node EXCEPT ![Obj(w)] = @ \cup {b}])
  /\ UNCHANGED <<info, lock, pending, slots, usage, updates, booting, calls>>

(* A block cannot be read: those before it are with the batcher already.   *)
WalkFails(w) ==
  /\ At(w, "walk") /\ work[w].left # {} /\ "rpc" \in Faults
  /\ Fail(w, Bound(w)) /\ Deallocate(Obj(w))
  /\ UNCHANGED <<info, lock, pending, slots, node, usage, updates, booting, calls>>

FinishUpload(w) ==
  /\ At(w, "walk") /\ work[w].left = {}
  /\ IF BlocksOf[Obj(w)] \subseteq Item(w).toBind
       THEN \/ /\ Goto(w, "release", [Bound(w) EXCEPT !.state = "Done"])
               /\ UNCHANGED files
            \/ StatusFails /\ Fail(w, Bound(w)) /\ Deallocate(Obj(w))
            \/ Gone(w) /\ UNCHANGED files
       ELSE /\ Goto(w, "release", [Bound(w) EXCEPT !.state = "Uploading"])
            /\ UNCHANGED files
  /\ UNCHANGED <<info, lock, pending, slots, node, usage, updates, booting, calls>>

(* Mutant of ProcessDeletion: the space of the file stays allocated. *)
DeleteKeepsAllocation ==
  LET o == Obj(Deleter)
  IN /\ At(Deleter, "delete")
     /\ \/ /\ DeleteFilesOk(o)
           /\ Goto(Deleter, "release", [Item(Deleter) EXCEPT !.state = "Deleted"])
        \/ DeleteFilesFails(o) /\ Fail(Deleter, Item(Deleter))
     /\ UNCHANGED <<info, lock, pending, slots, usage, files, updates, booting, calls>>

(* processDeletion.                                                        *)
ProcessDeletion ==
  LET o == Obj(Deleter)
      it == Item(Deleter)
  IN /\ At(Deleter, "delete")
     /\ \/ /\ DeleteFilesOk(o)
           /\ Deallocate(o) \/ ("space" \in Faults /\ UNCHANGED files)
           /\ Goto(Deleter, "release", [it EXCEPT !.state = "Deleted"])
        \/ /\ DeleteFilesFails(o)
           /\ Fail(Deleter, it)
           /\ UNCHANGED files
     /\ UNCHANGED <<info, lock, pending, slots, usage, updates, booting, calls>>

-----------------------------------------------------------------------------
(* The batcher turns blocks that wait into a request, runBatchUploader     *)
(* sends it, and a goroutine of its own handles the outcome.               *)
Enqueue(s, o) ==
  /\ slots[s] = Free
  /\ \E bs \in SUBSET pending[o] \ {{}} :
       /\ pending' = [pending EXCEPT ![o] = @ \ bs]
       /\ slots' = [slots EXCEPT ![s] = [stage |-> "queued", obj |-> o,
                                         blocks |-> bs]]
  /\ UNCHANGED <<info, lock, work, node, usage, files, updates, booting, calls>>

AddToFileMany(s) ==
  LET o == slots[s].obj
      bs == slots[s].blocks
      outcome(stage) == slots' = [slots EXCEPT ![s].stage = stage]
      land == node' = [node EXCEPT ![o] = @ \cup bs]
  IN /\ slots[s].stage = "queued"
     /\ \/ Fits(bs) /\ land /\ outcome("ok")
        \/ ~Fits(bs) /\ UNCHANGED node /\ outcome("limit")
        \/ "rpc" \in Faults /\ (UNCHANGED node \/ (Fits(bs) /\ land))
                            /\ outcome("error")
     /\ UNCHANGED <<info, lock, work, pending, usage, files, updates, booting, calls>>

(* process, for the callbacks: the item is locked, handled and released.   *)
(* Items are never removed from storage, so a callback finds its item.     *)
Unlocked(s, stage) == slots[s].stage = stage  \* mutant: the lock is not taken
Callback(s, stage) == slots[s].stage = stage /\ lock[slots[s].obj] = None
Handled(s) == slots' = [slots EXCEPT ![s] = Free]
GoneInCallback(s) == /\ "gone" \in Faults
                     /\ lock' = [lock EXCEPT ![slots[s].obj] = s]
                     /\ slots' = [slots EXCEPT ![s].stage = "stuck"]
                     /\ UNCHANGED info

(* Mutants of MarkFileUploaded: the size is subtracted; it is forgotten.    *)
MarkSubtracts(o) ==
  /\ usage' = IF files[o] = None THEN usage ELSE usage - files[o]
  /\ files' = [files EXCEPT ![o] = None]
MarkForgets(o) == files' = [files EXCEPT ![o] = None] /\ UNCHANGED usage

(* markFileUploaded: the size allocated becomes part of the node's usage.  *)
MarkFileUploaded(o) ==
  /\ usage' = IF files[o] = None THEN usage ELSE usage + files[o]
  /\ files' = [files EXCEPT ![o] = None]

(* Mutant of ProcessFileUploading: the file is never done. *)
NeverDone(s, it) == /\ ReleaseAndUpdate(slots[s].obj, it) /\ Handled(s)
                    /\ UNCHANGED <<usage, files>>

(* processFileUploading: the file is done once no cid is left to upload.   *)
ProcessFileUploading(s, it) ==
  LET o == slots[s].obj
      keep == ReleaseAndUpdate(o, it) /\ Handled(s)
  IN \/ /\ it.toUpload # {} \/ "space" \in Faults
        /\ keep /\ UNCHANGED <<usage, files>>
     \/ /\ it.toUpload = {} /\ MarkFileUploaded(o)
        /\ \/ ReleaseAndUpdate(o, [it EXCEPT !.state = "Done"]) /\ Handled(s)
           \/ StatusFails /\ keep
           \/ GoneInCallback(s)

(* Mutant of UpdateUploadedCids: nothing is undone for a deleted file. *)
NothingUndone(s) ==
  LET o == slots[s].obj
  IN /\ Callback(s, "ok")
     /\ IF info[o].state \in {"PendingDeletion", "Deleted"}
          THEN Handled(s) /\ UNCHANGED <<info, lock, usage, files>>
          ELSE ProcessFileUploading(s, [info[o] EXCEPT !.toUpload = @ \ slots[s].blocks])
     /\ UNCHANGED <<work, pending, node, updates, booting, calls>>

(* The three callbacks: the blocks were stored, the node refused them, the *)
(* call failed.                                                            *)
UpdateUploadedCids(s) ==
  LET o == slots[s].obj
      it == info[o]
  IN /\ Callback(s, "ok")
     /\ \/ /\ it.state = "PendingDeletion"
           /\ Handled(s)
           /\ UNCHANGED <<info, lock, node, usage, files>>
        \/ /\ it.state = "Deleted"
           /\ \/ DeleteFilesOk(o) /\ ReleaseAndUpdate(o, it)
              \/ /\ DeleteFilesFails(o)
                 /\ ReleaseAndUpdate(o, [it EXCEPT !.state = "PendingDeletion"])
           /\ Handled(s)
           /\ UNCHANGED <<usage, files>>
        \/ /\ it.state \notin {"PendingDeletion", "Deleted"}
           /\ ProcessFileUploading(s, [it EXCEPT !.toUpload = @ \ slots[s].blocks])
           /\ UNCHANGED node
     /\ UNCHANGED <<work, pending, updates, booting, calls>>

AddToLimitedQueue(s) ==
  LET o == slots[s].obj
      become(state) == ReleaseAndUpdate(o, [info[o] EXCEPT !.state = state])
  IN /\ Callback(s, "limit")
     /\ DeleteFilesOk(o) \/ DeleteFilesFails(o)
     /\ \/ become("Limited") /\ Handled(s)
        \/ StatusFails /\ become("PendingUpload") /\ Handled(s)
        \/ GoneInCallback(s)
     /\ UNCHANGED <<work, pending, usage, files, updates, booting, calls>>

(* Mutant of AddToRetryUploadingQueue: the error is dropped. *)
NoRetry(s) == /\ Callback(s, "error") /\ Handled(s)
              /\ UNCHANGED <<info, lock, work, pending, node, usage, files, updates,
                             booting, calls>>

AddToRetryUploadingQueue(s) ==
  LET o == slots[s].obj
  IN /\ Callback(s, "error")
     /\ ReleaseAndUpdate(o, [info[o] EXCEPT !.state = "PendingUpload"])
     /\ Handled(s)
     /\ UNCHANGED <<work, pending, node, usage, files, updates, booting, calls>>

(* The goroutine of newSpaceUsage asks the node once a minute.             *)
Update == /\ usage' = NodeUsage /\ Announce(NodeUsage)
          /\ <<usage', updateCh'>> # <<usage, updateCh>>
          /\ UNCHANGED <<info, lock, work, pending, slots, node, files, update, booting, calls>>

-----------------------------------------------------------------------------
(* Run first gives the files that were being uploaded back to the          *)
(* uploaders.  A file locked by a call of the API is not found.            *)
ResetUploadingStatus(o) ==
  /\ booting /\ HasState(o, "Uploading") /\ lock[o] = None
  /\ ReleaseAndUpdate(o, [info[o] EXCEPT !.state = "PendingUpload"])
  /\ UNCHANGED <<work, pending, slots, node, usage, files, updates, booting, calls>>

StartWorkers ==
  /\ booting
  /\ \A o \in Objects : HasState(o, "Uploading") => lock[o] # None
  /\ booting' = FALSE
  /\ UNCHANGED <<info, lock, work, pending, slots, node, usage, files, updates, calls>>

Booted(l, wk, p, sl, u, f, ch, up, b) ==
  /\ l = [o \in Objects |-> None]
  /\ wk = [w \in Workers |-> Idle]
  /\ p = [o \in Objects |-> {}]
  /\ sl = [s \in Slots |-> Free]
  /\ u = None
  /\ f = [o \in Objects |-> None]
  /\ ch = <<>>
  /\ up = None
  /\ b = TRUE

Init == /\ Booted(lock, work, pending, slots, usage, files, updateCh, update, booting)
        /\ info = [o \in Objects |-> None]
        /\ node = [o \in Objects |-> {}]
        /\ calls = 0

(* A stop of the application leaves the queue's storage and the node.      *)
Restart ==
  /\ "restart" \in Faults
  /\ Booted(lock', work', pending', slots', usage', files', updateCh', update',
            booting')
  /\ UNCHANGED <<info, node, calls>>

(* One step of an uploader, or of the limited uploader, with its item.     *)
UploadStep(w) == \/ CheckBlocksAvailability(w) \/ AllocateFile(w)
                 \/ HandleLimitReached(w) \/ StartUpload(w) \/ WalkFails(w)
                 \/ FinishUpload(w)
                 \/ \E b \in Blocks : UploadBlock(w, b) \/ BindBlock(w, b)

(* One step of a request to the node.                                      *)
RequestStep(s) == \/ AddToFileMany(s) \/ UpdateUploadedCids(s)
                  \/ AddToLimitedQueue(s) \/ AddToRetryUploadingQueue(s)

Next == \/ \E o \in Objects :
             \/ \E c \in Callers : AddFile(c, o) \/ DeleteFile(c, o)
             \/ \E u \in Uploaders : TakePending(u, o)
             \/ TakeDeletion(o) \/ GetLimitedFile(o)
             \/ ResetUploadingStatus(o)
             \/ \E s \in Slots : Enqueue(s, o)
        \/ \E w \in Syncers : UploadStep(w)
        \/ \E s \in Slots : RequestStep(s)
        \/ \E w \in Workers : Release(w)
        \/ ProcessDeletion \/ ReceiveUpdate \/ NoLimitedFile \/ Update
        \/ StartWorkers \/ Restart

Spec == Init /\ [][Next]_vars

(* The goroutines keep running and the tickers of the batcher and of the   *)
(* usage tracker keep ticking; nobody has to call the API.  A file that is *)
(* ready for a goroutine again and again is taken: the queue returns the   *)
(* file scheduled first, and a file that was tried goes to the end.  A     *)
(* callback waits in GetById, whose waiters are served first.              *)
Fairness ==
  /\ \A o \in Objects :
       /\ SF_vars(\E u \in Uploaders : TakePending(u, o))
       /\ SF_vars(TakeDeletion(o)) /\ SF_vars(GetLimitedFile(o))
       /\ SF_vars(\E s \in Slots : Enqueue(s, o))
  /\ \A w \in Syncers : WF_vars(UploadStep(w) \/ Release(w))
  /\ WF_vars(ProcessDeletion \/ Release(Deleter))
  /\ \A c \in Callers : WF_vars(Release(c))
  /\ \A s \in Slots : SF_vars(RequestStep(s))
  /\ WF_vars(ReceiveUpdate \/ NoLimitedFile)
  /\ WF_vars(StartWorkers \/ \E o \in Objects : ResetUploadingStatus(o))
  /\ WF_vars(Update)

FairSpec == Spec /\ Fairness

-----------------------------------------------------------------------------
(* Every variable has its type.  In particular the counters of spaceUsage  *)
(* never become negative: what markFileUploaded and deallocateFile take    *)
(* away was added by allocateFile.                                         *)
TypeOK == /\ info \in [Objects -> FileInfo \cup {None}]
          /\ lock \in [Objects -> Workers \cup Slots \cup {None}]
          /\ work \in [Workers -> Work]
          /\ pending \in [Objects -> SUBSET Blocks]
          /\ slots \in [Slots -> Slot]
          /\ node \in [Objects -> SUBSET Blocks]
          /\ usage \in Nat \cup {None}
          /\ files \in [Objects -> Nat \cup {None}]
          /\ updateCh \in Seq(Nat) /\ Len(updateCh) <= UpdateBuffer
          /\ update \in Nat \cup {None}
          /\ booting \in BOOLEAN
          /\ calls \in 0..MaxCalls

(* The blocks of a file on their way to the node, or whose callback is     *)
(* still to come; and a file in a state that nobody is working on.         *)
InFlight(o) == pending[o] \cup UNION {slots[s].blocks :
                                       s \in {x \in Slots : slots[x].obj = o}}
Rests(o, state) == HasState(o, state) /\ lock[o] = None

(* A file marked Done (upload, processFileUploading) has all its blocks on *)
(* the node, or on their way.                                              *)
DoneIsUploaded == \A o \in Objects :
  Rests(o, "Done") => BlocksOf[o] \subseteq node[o] \cup InFlight(o)

(* Once nothing of a deleted file is on its way, the node has none of its  *)
(* blocks: a request that overtakes the deletion is undone by its callback *)
(* (updateUploadedCids).                                                   *)
DeletedIsGone == \A o \in Objects :
  Rests(o, "Deleted") /\ InFlight(o) = {} => node[o] = {}

(* A file in state Uploading has something on its way.  Only a callback    *)
(* ends this state, so without one the file would stay there until the     *)
(* application is restarted.                                               *)
UploadingIsInFlight == \A o \in Objects :
  Rests(o, "Uploading") /\ ~booting => InFlight(o) # {}

(* A deleted file has no space allocated (processDeletion), also if it was *)
(* deleted in the middle of an upload.                                     *)
DeletedHoldsNoSpace == \A o \in Objects : Rests(o, "Deleted") => files[o] = None

(* What spaceUsage takes for used is at least what the node has stored,    *)
(* whenever the node was asked last: between asking, allocateFile and      *)
(* markFileUploaded account for all that is uploaded.                      *)
EstimateCoversNode == usage # None => NodeUsage <= usage + allocatedUsage

(* A file that is deleted, or will be, is uploaded again only if AddFile   *)
(* asks for it: "If deletion is pending, it will be deleted soon".         *)
DeletionIsFinal ==
  [][\A o \in Objects :
       /\ HasState(o, "PendingDeletion") \/ HasState(o, "Deleted")
       /\ IsUploadingState(info'[o].state)
       => lock[o] \in Callers]_vars

(* While a goroutine works on a file, the stored item keeps the state it   *)
(* was taken in: the result, computed from that item, overwrites nothing.  *)
(* Uploads, callbacks, deletion and API calls of one file never overlap.   *)
HeldItemIsUnchanged == \A w \in Syncers \cup {Deleter} :
  Obj(w) # None => /\ lock[Obj(w)] = w
                   /\ HasState(Obj(w), CASE w = Deleter -> "PendingDeletion"
                                          [] w = LimUploader -> "Limited"
                                          [] OTHER -> "PendingUpload")

(* The files come to rest: each is uploaded, deleted, or waits for space   *)
(* that the node really lacks.  Uploads and deletions end, and space that  *)
(* becomes free is announced to the limited uploader, which tries again.   *)
Settles == []<>(\A o \in Objects :
                  /\ \A s \in {"PendingUpload", "Uploading", "PendingDeletion"} : ~HasState(o, s)
                  /\ HasState(o, "Limited") => ~Fits(BlocksOf[o]))

(* Whoever locks a file releases it, so that every GetById returns.        *)
LockIsReleased == \A o \in Objects : lock[o] # None ~> lock[o] = None
=============================================================================
