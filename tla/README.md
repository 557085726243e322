# Verification of anytype-heart: file synchronisation

TLA+ models of the concurrent parts of anytype-heart, checked with TLC on small
instances and, for the file queue, proved with TLAPS for every size. The first
part modelled is `core/files/filesync`, which brings a file from `AddFile` to the
file node and from `DeleteFile` off it again.

All paths below are relative to `src/`. `PROJECT.json` maps every definition to
the lines it models, and lists the runs, the mutants, the hazards and the
findings.

## The system and its parts

anytype-heart is the middleware of a local-first application. Objects live in
spaces, spaces are synchronised with peers and nodes, and files are stored apart
from objects on a file node with a limit per space. These parts run
concurrently and have state of their own:

| Part | Where | Modelled |
| --- | --- | --- |
| File queue: items, a lock for each, schedule, waiting calls | `core/files/filesync/filequeue` | `FileQueue`, `LockedStore` |
| File uploader: uploaders, limited uploader, deleter, callbacks | `core/files/filesync/{upload,batchuploader,limited,delete,status,queue,service}.go` | `FileSync` |
| Space usage: allocation of the space that is left | `core/files/filesync/{nodeusage,spaceusage}.go` | `FileSync` |
| Block batcher | `core/files/filesync/batcher.go` | partly, in `FileSync` |
| Persistent queue | `util/persistentqueue` | planned |
| Retry scheduler, ACL updater | `core/acl` | planned |
| Deduplicating call queue | `space/dedupqueue` | planned |
| Space modes, loading, status, deletion | `space/internal`, `space/deletioncontroller` | planned |
| Sync status, tree syncer | `core/syncstatus`, `core/block/object/treesyncer` | planned |
| Chats, subscriptions, store state | `core/block/chats`, `core/subscription`, `core/block/editor` | planned |
| Process queue, undo history | `core/block/process`, `core/block/undo` | planned |
| Import, export, API, payments, generated code | `core/block/import`, `core/api`, `pb`, ... | no: conversions and input or output |

How the file parts interact. API calls, ten uploaders, the limited uploader, the
deleter and the callbacks of requests to the node all work on items of the file
queue, and each locks an item before it computes the item's next value. An
uploader asks the node which blocks are missing, reserves space in the space
usage tracker, binds blocks the node already has and hands the others to the
batcher. The batcher forms requests; the callback of a request removes its
blocks from the item and ends with `Done`, or sends the item back. The usage
tracker asks the node every minute and announces free space to the limited
uploader.

## Modules

**`FileQueue`** is the event loop of `filequeue.go`. A member of `Reqs` is a
goroutine that makes one kind of call over and over. `itemLocked`,
`getByIdWaiters`, `dueWaiters`, `getNextWaiters`, `getNextScheduledWaiters` and
`scheduled` are the fields of `Queue`; `store` is the database; `timers` are the
goroutines of `scheduleItem`, which may be past their `select` and cannot be
cancelled any more; `waiting` and `held` tell what a caller is doing.
`handleReleaseItem` runs five checks in a fixed order, and each is a step, with
`loop.pc` keeping the order and every other request out. Two
variables record history: `stale` becomes true when a due message is acted on
whose schedule entry had already gone, and `forgotten` collects the calls that a
cancellation takes out of `dueWaiters` without an answer.

**`LockedStore`** is what the queue promises: a table of items, of which each is
taken by at most one caller, and changed by that caller only.

**`FileSync`** is the uploader above such a table. `info` is the stored item of
each file, `lock` who has locked it, `work` where each goroutine is in its
handler and the item it will store. A lock is held from one step to a later one,
and calls to the node are steps of their own, so that everything else can happen
in between. The callbacks are one step each: they hold the lock during one
handler that nothing else can see into. `pending` and `slots` are the batcher
and the requests on their way, `node` the file node, `usage`, `files`,
`updateCh` and `update` the usage tracker and the announcements of free space. A
restart keeps `info`, `node` and nothing else.

The faults are named in the constant `Faults`: a call to the node, or a read of
a block, fails (and the node may or may not have done what was asked), a status
callback fails, a status callback says that the object is deleted, the space has
no tracker, the application restarts.

Abstractions of `FileSync`, beside the data:
 - there is no time: a rescheduled item can be taken at once, and the tracker's
   last answer may be too old at any moment;
 - a block has size 1 and there is one space;
 - the batcher may group waiting blocks in any way, and a request carries blocks
   of one file. `addFile` cannot fail: no block is larger than a batch;
 - storing an item keeps one cid of each set, as `marshalFileInfo` does, or all
   of them, for a waiting `GetById` is given the item as it was released;
 - the file node is external: it stores or refuses a request as a whole, counts
   a block once per space, and unbinds the blocks of a deleted file.

**`MCFileQueue`**, **`MCFileSync`** give the constants values for TLC.
**`FileQueueProofs`**, **`FileQueueRefinement`** hold the proofs.

## What TLC checks

| Run | Shows |
| --- | --- |
| `queue_locks` | With a database that may fail and with cancellation: an item is never handed out twice, and the queue implements `LockedStore`. |
| `queue_waiters` | All kinds of waiters, cancelled calls included: no lock is lost, no waiting call is forgotten or parked twice, every entry of the schedule has its timer, no `GetNext` waits while an item it wants is free. |
| `queue_live` | Every `GetById` returns; an item a worker wants is taken again and again. |
| `sync_faults` | With every fault: a file that is `Done` is on the node, and nobody changes an item that a goroutine is working on. |
| `sync_estimate` | Parallel uploads of three files, of which two fit: the usage counted locally is never below the node's. |
| `sync_limit` | Two files that do not fit together, one of two blocks, so that one of its requests can be refused while the other is on its way: a deleted file occupies no space, no file is left in `Uploading`. |
| `sync_delete` | Deletion in the middle of an upload, with failing calls: nothing stays on the node, no space stays reserved, no file is left in `Uploading`. |
| `sync_live` | Every file ends up uploaded, deleted, or limited with no space for it. |

Four runs end in a violation, each of a statement in a comment or a test that the
code does not meet. `PROJECT.json` quotes them under `findings`:

| Run | The code |
| --- | --- |
| `queue_stale` | An outdated due message uses up a newer schedule entry and leaves the item locked for ever. |
| `sync_marshal` | One cid of a set is stored, and the file is `Done` too early. |
| `sync_undone` | A failed request undoes a pending deletion. |
| `sync_gone` | `updateStatus` waits for the lock that its goroutine holds. |

The passing runs state how far each property goes. Outside these limits the
models show behaviours of the code that do not satisfy them:

 - The properties about parked calls and timers are limited to behaviours before
   `stale`, and `queue_waiters` and `queue_live` stop there (`NotStale`).
   A call that is cancelled while its item is due but locked leaves `dueWaiters`
   without an answer (`filequeue.go:411`) and waits for ever; `WaitingIsParkedOnce`
   makes an exception for these calls, and for no other cancelled call.
 - `ItemIsTaken` is about a single item. An item that loses its place in the
   schedule to an earlier one is not offered to idle workers
   (`filequeue.go:289`); it waits for the next call or release.
 - `GetNextMissesNothing` is checked without database errors: a release whose
   update fails unlocks the item and wakes nobody (`filequeue.go:198`).
 - `DoneIsUploaded` is checked with files of one block (see `sync_marshal`) that
   are not added again after a deletion: a late callback would find no cid left
   in the new item and make it `Done` (`batchuploader.go:50`).
 - `UploadingIsInFlight` is checked without restarts and failing status callbacks.
   The reset at startup misses a file that is locked at that moment
   (`upload.go:78`), and a status callback that fails in the last callback of a
   file leaves it in `Uploading` (`batchuploader.go:57`).
 - `DeletedIsGone` is checked without restarts. A restart loses the undo of blocks
   that came after the deletion (`batchuploader.go:92`).
 - A `Limited` file may occupy space: a request that is on its way when
   `handleLimitReached` unbinds the file still lands, and its callback leaves the
   file `Limited` (`batchuploader.go:32`). This takes a file of several requests,
   as in `sync_limit`; no comment or test of the code says otherwise.
 - `EstimateCoversNode` is checked without deletions and failing calls: space is
   given back while blocks may still be on their way, and these are counted at
   the next refresh only.
 - `Settles` is checked without blocks to bind: a file of which all blocks were
   bound keeps its space reserved although it is `Done` (`upload.go:212`), and
   another file stays `Limited` although it would fit. It is also checked without
   failing calls, so that it says nothing of a file that an error made `Limited`
   (`upload.go:153`).

Every property of a passing run has a mutant, a plausible mistake in one handler
under which TLC finds the property violated.

### Bounds

Queue: two items (one in `queue_locks`, which has five callers and database
errors), two times. Two items are the least for one to displace the other in the
schedule; two callers of `GetById`, or two workers, queue up on the same item.
`queue_waiters` has five callers of which either the two uploaders are at work,
or an uploader, the deleter and `GetNext` (`OneCast`): an item can leave the
schedule of one worker and displace an item in the schedule of another.
`Timers` bounds the goroutines at a time, three for the two uploaders and two
otherwise. A handler may start whatever timers run, and is not followed further
only if it needs one more than there are; the run for liveness leaves such
behaviours out (`TimersSuffice`).
Items, timers and callers of the same kind are symmetric, and
`SymmetryAssumption` states what this needs, that cancellation can reach all
callers of a kind or none; the run for liveness uses no symmetry. `View`
identifies states that differ in goroutines watching the context of calls that
have returned and that the loop has no trace of.

Uploader: two files that compete for a space too small for both, one of them of
two blocks in `sync_limit`; three files and space for two in `sync_estimate`, so
that two uploads proceed while a third is refused; two uploaders, two requests
at a time, two to four API calls. `sync_delete` gives one file four calls, enough for two lives of the
file. `sync_live` has one uploader and one request at a time. `UpdateBuffer` is
the room for announcements: three in the code and in `sync_estimate`, one in the
other runs, which makes a full channel more likely.
Deadlock is not checked: when all calls are made and all work is done, nothing
is left to do, and a closed queue stops.

### Fairness

`FileQueue`: the loop continues its handler (weak fairness); Go's `select`
chooses at random among ready channels, so every sender that is ready again and
again is served, and callers release what they took (strong fairness). Nobody
has to call the API, cancel or close.

`FileSync`: each goroutine with an item goes on (weak fairness); tickers tick;
an item that is ready for a worker again and again is taken, because the queue
hands out the item scheduled first and a failed one goes a minute back; a
callback waits in `GetById`, whose waiters are served first (strong fairness).
Faults and API calls are under no fairness.

## What is proved

In `FileQueueProofs` and `FileQueueRefinement`, for all values of the constants
that satisfy `ConstantsAssumption` (the types of the constants, and that `None`
is none of the values it stands beside), database errors and outdated messages
included:

 - `TypeCorrect`: `Spec => []TypeOK`;
 - `MutualExclusion`: `Spec => []HoldersAreExclusive`, an item is in the hands of
   one caller at most and is locked while it is;
 - `Refinement`: `Spec => ImplementsLockedStore`, on which `FileSync` relies when
   it replaces the queue by a table with locks.

`HoldersAreExclusive` is not inductive. An answer of the loop could go to a
caller that holds an item already, and in the middle of `handleReleaseItem` the
item could be given to two waiters. The inductive invariant `LockInv` adds that
callers who wait hold nothing (`WaitingHoldNothing`) and that the released item
is unlocked until a check has given it away (`ReleasedIsFree`). One lemma shows
that `Answer` preserves the facts about locks for an unlocked item, one lemma per
handler reduces the handler to it, and the refinement goes through the same
handlers once more.

Liveness is only model-checked, and so are the properties of the queue that rest
on `stale`, and all of `FileSync`.

## Not modelled, and the plan

In this order, the parts with the hazards that are hardest to test:

1. `Batcher`: batches per file id, the size limit, the full request channel, two
   objects with the same file.
2. The small queues: `dedupqueue` (`Replace` against `callLoop`),
   `persistentqueue` (workers, `RemoveWait`, restore after a crash),
   `retryscheduler` (schedule, removal and expiry against the timer).
3. Spaces: the mode state machine with its processes, the space loader, the
   status in the space view, the deletion controller, composed.
4. Chats (read and unread counters), subscriptions (window and diff as pure
   algorithms), undo history, process queue, tree syncer.
5. Proofs: `LockedItemIsHeldUnlessStale` and `WaitingIsParkedOnce` of the queue;
   `HeldItemIsUnchanged` and `DeletedHoldsNoSpace` of the uploader; the
   invariants of the parts above.

Statistics, events to the client, logging and debug output change no state the
properties are about and are left out.
