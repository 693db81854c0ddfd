# Verification of the MEGA SDK client engine

The repository is a C++ client engine for a cloud storage service. One object,
`MegaClient`, holds the state of all subsystems; the application calls
`exec()` and `wait()` in turn, on one thread. `exec()` looks at every
subsystem, applies what the network and the file system have delivered, and
starts what can be started; nothing in it blocks. What makes the engine hard is
not threads but everything that happens between two calls of `exec()`: HTTP
requests that complete, fail, are cancelled or answered late, timers, pauses,
restarts, changes by other clients and by the user, logouts and reloads
requested by the application or from within a callback.

This directory holds TLA+ modules that model the engine's protocols, TLC
configurations that check them on small instances, and TLAPS proofs.
`PROJECT.json` lists components, runs, mutants, the source lines behind every
definition, findings, hazards and theorems.

## Inventory

| Part | State it keeps | Operations | What is hard | Correct when | Module |
|---|---|---|---|---|---|
| Retry timers | `next`, `delta`; the clock `Waiter::ds` | `reset`, `backoff`, `arm`, `armed`, `retryin`, `update` | unsigned arithmetic, 0 and 1 as special times, intervals of 0 and wrapped ones | bounded waits that can be cut short, no trigger slept over, `arm` never sets an unset timer | `BackoffTimer`, `RetryTimer` |
| Command channel | two buffers `reqs[2]`, index `r`, `pendingcs`, `reqid`, `btcs`, `csretrying` | add a command, post a batch, process a result, retry; `abortbackoff`, `disconnect`, `logout`, `fetchnodes` | lost and repeated requests; callbacks that queue commands or log out; which buffer is which | every command executed once, in order, and answered with its own result | `CsChannel`, `RpcFifo` |
| File transfer | `Transfer` (position, chunk MACs, failures, timer), `TransferSlot` (connections, byte counter, errors, `failure`), `chunkfailed`, `HttpIO::success` | `dispatch`, URL result, `doio` per connection, `complete`, `failed`, pause, resume, stop | parallel chunks, retries on three levels, resuming, freezing and releasing | no chunk lost or done twice, complete means whole, every transfer ends | `TransferSlot` |
| Transfer queue | `transfers[]`, `tslots`, pause flags, files per transfer | `startxfer`, `stopxfer`, `freeq`, `dispatch`, `failed`, `complete` | who deletes what; several targets of one download; progress that drops | files and transfers agree, each file ends once, progress | `TransferQueue` |
| Server-client channel, state cache, node tree | `pendingsc`, `scsn`, `btsc`, `nodes`, `nodenotify`, `sctable` | poll, apply actions, own commands, write the cache, restore, reload | a stop between applying and committing, failing writes, own effects echoed | cached nodes match the cached `scsn`; nothing is missed | `StateCache` |
| Shares, keys, users | `sharekey`, `outshares`, `inshare`, `newshares`, `users`, `uhindex`, `umindex`, `pkrs` | `setshare`, `mergenewshares`, key requests, `mapuser` | two sessions at once, arrival out of order, missing public keys | both sides agree on shares and keys | `ShareKeys` |
| File attributes | `newfa`, `curfa`, `btpfa`, `pendingfa`, `fafs`, `fafcs` | `putfa`, `getfa`, their parts of `exec()`, `parse` | attributes are stored before, while or after their node is made | stored one at a time, attached once, every retrieval ends | `FileAttributes` |
| Synchronisation | `LocalNode`s, `notifyq`, `insertq`, `deleteq`, `todebris`, retry flags | scan, `checkpath`, `syncdown`, `syncup`, `syncupdate`, SyncDebris, restart | concurrent local and remote changes, lost notifications | convergence, consistent references and cache | `SyncFolder` |
| HTTP | request status, `success`, `noinetds`, `inetback` | post, complete, cancel, connectivity report | completion racing cancellation | users see each outcome once | in its users' modules |
| Engine loop | deadline of the next event | fold all timers, wake up | a forgotten timer | never sleeps past an event | `BackoffTimer` (`update`) |

## Modules

All modules are written the same way: state, one action per operation, handler
or phase of `exec()`, the environment (server, network, disk, application) as
further actions, `Next`, `Spec`, then the properties. Operations that run
uninterrupted in the code are one action; where they do several things to many
objects, the action works on a record of the affected state (`Client`, `Now`,
`Puts`) through operators named after the functions they stand for, and
`Become` makes the result the next state. Definitions that begin with the
comment "Fault" are deliberate errors; `PROJECT.json` pairs each with a
property that detects it.

**`BackoffTimer`** has the fields and operations of the class, arithmetic modulo
`DSMOD` (2^32 in the code), and the clock. `backoff(dstime)` is called with
constants, with `10 + totalnodes / 128`, and by `TransferSlot::doio()` with what
is left of `XFERTIMEOUT`: 0 when a stalled slot is found on time, and a number
just below `DSMOD` when it is found later (`backoffRest`). **`RetryTimer`** is
what callers can tell of it: *unset*, *waiting*, *due*. `BackoffTimer` is shown
to implement `RetryTimer`, as a whole and call by call (an interval makes it
wait, a remainder may make it due at once), and `CsChannel`, `TransferSlot` and
`StateCache` instantiate `RetryTimer` for their timers, so that they need no
clock. `MCBackoffTimer` supplies the intervals.

**`CsChannel`** has one action per case of the `exec()` loop: `execDispatch`,
`execResult(k)` (with `k` commands queued by the callbacks), `execResultLogout`,
`execRetry`; plus `add`, `abortbackoff`, `disconnect`, `logout` and
`fetchnodes`. The second half of the loop follows the first without a pause in
the code, so `execResult` contains it (`dispatch`). Commands are numbered in the
order they are queued; a batch is a sequence of numbers; a result is that of
the command with the same number. The server and the network are external: a
posted request may reach the server at any later time in its session, the
server executes an identifier once and answers repetitions from its record
(`doc/source/internals.rst`). **`RpcFifo`** is the abstract promise, and what
the other modules assume of commands: they are executed and answered in order.

**`TransferSlot`** models one transfer. `doio()` is an uninterrupted loop over
the connections; it is cut into a receiving and a sending step per connection
and a tail, and no other action is enabled in between (`stage`). Chunks are
numbers, their sizes follow `chunkceil()`, so that the byte counter
`progresscompleted` is the code's. `data` is what the destination holds, `macs`
what `chunkmacs` holds, `filemac` what went into the MAC that was compared.
Replies: an upload's acknowledgement, token or error; a download's full or
short body; HTTP 509; any other failure. In this module and in `CsChannel`,
`Spec` is the engine without a reload of the local state while a request (a
transfer) is outstanding, and `ReloadSpec` the engine with it: the reload
breaks invariants of both. Files have at least one chunk: the transfer of an
empty file, which is one request without data, is left out.

**`TransferQueue`** has all transfers and the files attached to them; what
happens inside a slot is progress, which may also drop (`progressreported`
includes bytes in flight), success or failure. Fingerprints are numbers
up to `LastFp`, in the order of the transfer map; the files of a transfer are a
set, since nothing depends on the order of the code's list. `completeGet` is the whole of
`Transfer::complete()` for a download: one outcome of the local file system per
file, the single rename, the copies, what is left for the next time. A file
that gives up in there is `"lost"`: it leaves the list and keeps its pointer to
the transfer; what its destructor does with it later is not followed.

**`StateCache`** has the node tree, the server-client poll and the cache. The
server numbers its updates, `tree[n + 1]` is its tree after update `n`, and a
node's content is the number of the update that wrote it last. `notifypurge`
writes the changed nodes and the number in one transaction, or gives the cache
up when a write fails. `putnode` is the code's: a node without a record number
gets the next one, a node whose attributes are still encrypted is skipped
without an error, a removed node without a record is written. `scsn` in a
transaction without one is an uninitialized word: any number. `login`,
`fetchnodesCached` and `fetchnodes` are the three ways to a tree. A second
`fetchnodes()` while the tree is on its way is either of `fetchnodesCached`
(the tree is empty and the cache has a number: nothing keeps the code from
loading it) and `fetchnodesBusy` (only the table is opened again). `stop` is a
logout or a crash. Posting the next poll is a step of its own (`scPost`); in the
code it follows the previous one's end in the same pass or a later one.
A member of `Uses` is what one behaviour is about (an own command of one kind,
late keys, or failing writes and a second `fetchnodes()`): each is explored
without all their combinations, and the theorems hold for any. `adrift` and
`mixed` are history variables, read by no action: the nodes and their number
have come apart, or two trees have been mixed (see Exceptions in the
properties).

**`SyncFolder`** has one folder with files on disk, as `LocalNode`s, as nodes
and on the server. `execScan`, `execDown` and `execUp` are the three stages of
the synchronising part of `exec()`: the disk may change between them, nothing
else. A file's content is a version number which determines its size; its
modification time is chosen freely. `checkpath`, `syncdown`, `syncup`,
`syncupdate`, `setnameparent`, `LocalNode`'s and `Node`'s destructors,
`notifynode`, `statecacheadd`, `cachenodes` and the way to SyncDebris are
operators of these names. Use of freed memory ends the behaviour (`pc =
"crashed"`). The server may refuse an addition; `putnodes_sync_result()` does
nothing about the error. The application may stop in any phase, also with
commands outstanding; only a stop with both commands and updates on their way is
left out, because the tree that is restored then depends on how far the cache
of `StateCache` has got. After a rescan a timer makes `syncdown()` and
`syncup()` run again (`scanElapse`). The history variables `untracked`, `undone`
and `renamed`, read by no action, record what the engine cannot follow or does
not do (see Exceptions in the properties).

**`FileAttributes`** has the queue of attributes to be stored, one in progress,
their uploads which become nodes, and the channels that fetch attributes. A
behaviour does one or the other (`Uses`): they share only the command channel.
`putfa()` may be called at any time; `hurried` records that it requested a
failed attribute that was waiting for its timer. An answer to the request for a
URL may be one that cannot be parsed, which leaves the attribute as it is. Each
attribute is put once: one that a repeated `Transfer::complete()` puts again is
another member of `Attr`. `MCFileAttributes` supplies it.

**`ShareKeys`** has a folder of the account, shared by this client and by
another session at the same time, a folder shared with the account, and the
records of users. Keys are numbers. The server keeps the first key of a share
and answers a later attempt with it, as `CommandSetShare::procresult()`
expects. The answer to a key request names the handle of its user, which is put
together with the address only if the record has one (`mapanswer`: `mapuser()`
returns for an empty address). `procsc` processes one packet, `joined` lets packets arrive together.
An operation takes the client's state as a record and returns the next one;
`Each` is the loop over a list (of actions that wait, of new shares, of the
actions of a packet).

The proofs are in **`BackoffTimerProofs`**, **`CsChannelProofs`**,
**`TransferSlotProofs`**, **`TransferQueueProofs`**, **`StateCacheProofs`**,
**`FileAttributesProofs`** and **`ShareKeysProofs`**. **`Induction`** has what several
of them need: induction over the natural numbers for a set, and sums over
`0 .. N - 1`.

## Runs that pass

| Run | Bounds | Shows |
|---|---|---|
| `backoff_timer` | 6-bit clock, cap 8, timeout 4, intervals up to 10, uptime up to 15 | `RetryBounded`, `WaitCanBeCut`, `NeverOversleeps`, refinement of `RetryTimer` |
| `cs_channel` | 3 commands, 1 per callback, 1 logout, 6 identifiers (never exhausted) | `OneBatchPerId`, `SetTimerMeansFailedBatch`, `RetryIndicatorHonest`, refinement of `RpcFifo`, `EventuallyDelivered` |
| `put_slot` | 3 chunks, 2 connections, 1 error and 1 attempt tolerated, transient read errors | no chunk shared or lost, `CompleteIsWhole` |
| `put_settles` | 2 chunks, 2 connections | `FrozenIsReleasable`, `EventuallySettled` |
| `get_slot` | 3 chunks, 2 connections, short replies | no chunk shared or lost across resumes, `CompleteIsWhole` |
| `state_cache` | 2 handles, 3 updates, 1 own command, 1 stop | `CacheComplete`, `PollContinues`, `NothingMissing` |
| `sync_folder` | 2 names, 2 times, 2 changes, restarts or overflows, 1 refused addition | `Converged`, `NoDupes`, `BackPointers`, `CacheMirrors` |
| `transfer_queue` | 1 download to 2 targets, 2 uploads (`LastFp` 3), 2 slots, 1 retry, 2 faults, 1 call | `Linked`, `EndsOnce`, `Settles` |
| `file_attributes` | 2 uploads (one has its node) with 3 attributes; 1 cluster with 2 items; 2 faults | `SequentialUnlessHurried`, `AttachedOnce`, `ChannelThere`, `PutsEnd`, `FetchEnds` |
| `share_keys` | 1 user and the public link, 2 files, 2 calls, 2 steps of others, 1 fault | `OutAgrees`, `InAgrees`, `OneRecord`, `WaitingIsRequested` |

Why the bounds are enough. Three commands are a batch in flight, one collected
behind it and one queued by a callback, which is all the two buffers can
distinguish, and the proofs remove the bound. Three chunks and two connections
let a chunk fail while its neighbour succeeds and a third is still to be taken.
The error and attempt limits (10 and 16 in the code) only count; with 1, both
the repetition and the giving up happen. A six-bit word has room for the uptime
and two of the longest intervals, as `TimerAssumption` requires of the real one,
and the uptime is several timeouts, so that remainders are positive, 0 and
wrapped. Three attributes are one in progress, one that fails behind it and one
that is added meanwhile. Two handles and three
updates let a node be created below another, moved and deleted, with a restart
at any place in between and an own command on either. Two changes of a
synchronised folder are one on each side, or two that overtake each other on
one; the file that is there at the start makes the first of them a change, a
deletion or a rename. Two steps of this client and two of others are what a
conflict over a share needs, and one fault lets any of the commands fail.

`put_slot` and `put_settles` differ in `ReadRetries`: transient read errors (a
Windows file that another process holds) are part of `put_slot`; with them, a
slot that freezes before any of its requests has been given a URL is never
released, because `setchunkfailed()` has no URL to record, so that
`FrozenIsReleasable` really fails, and `put_settles` goes without them.

The `TypeOK` of `StateCache`, `SyncFolder` and `FileAttributes` holds for the
same constants; it only documents the state and is not part of a run.

### Exceptions in the properties

Where the code does not keep a promise in general, the property names the
exception, and a hazard or a configuration below shows it:

* `CacheComplete` and `NothingMissing` speak of nodes that only others have
  worked on, that were readable at once and that have never been below a node
  of which this cannot be said (`Foreign`). Own commands that are lost in a
  crash, or replayed from the server's log, leave their nodes ahead of or behind
  the server; a node whose key is late is not written to the cache. They also
  except a client whose nodes and number have come apart (`adrift`): an emptied
  cache that is resumed under the number still known after a failed write
  (`CacheStale.cfg`), and nodes written after `ESID` has cleared `scsn`, so that
  an uninitialized word is recorded as their number (`megaclient.cpp:1923`). A
  tree that is fetched from the server ends this state.
* `CacheComplete`, `PollContinues` and `NothingMissing` except a behaviour in which
  `fetchnodes()` was called again while the tree was on its way and loaded the
  cache, or opened anew a table that had been given up (`mixed`). The cached
  number is then polled from while the tree that arrives sets another, and its
  nodes are merged into the cached ones: `CacheAgain.cfg`.
* `Converged` excepts a folder whose own `LocalNode` is marked deleted, until a
  rescan clears the flag (`notifynode()` marks the parent when a node without a
  `LocalNode` is removed, `megaclient.cpp:4095`); an addition the server has
  refused, until another change makes `syncup()` run (`undone`); and `untracked`
  files: a file moved and then removed or replaced before the new name is looked
  at (only the new name is notified), a file moved and modified
  (`sync.cpp:633` keeps the old fingerprint), a deletion that only a rescan could
  show, which deletes only what two scans have missed (`SyncRescan.cfg`).
* `NoDupes` speaks of the client alone and of a session without a restart: what
  is on its way to SyncDebris is forgotten at a stop.
* `CacheMirrors` excepts a `LocalNode` that `syncdown()` has renamed, which is not
  written again (`SyncRecord.cfg`), and one whose addition was refused.
* `SequentialUnlessHurried` and `PutsEnd` except what follows a `putfa()` that
  requests a failed attribute before its time (`FaEarly.cfg`); `PutsEnd` also an
  answer that cannot be parsed, after which the attribute is in progress for ever.
* `OutAgrees` excepts `stale` share keys: a key made up for an attempt that
  failed, or for a revocation, stays and stands in the way of another
  session's.
* `Linked` excepts files that give up while being placed, whose reference is
  never cleared (`transfer.cpp:204`); `Settles` excepts a
  paused direction, a download without a key at the head of the queue
  (`dispatch()` then looks no further), and files whose temporary file has been
  renamed away before they were placed.
* `FetchEnds` excepts the record of a node that is gone, and failed clusters.

## Configurations kept beside the runs

Each of these states what a comment or document says, and TLC finds it violated
by what the code does. They take seconds, `SyncRescan.cfg` a minute.

| Configuration | Module | Property | What it shows |
|---|---|---|---|
| `CsReload.cfg` | `CsChannel` | `OneBatchPerId` | `fetchnodes()` with a request outstanding forgets `pendingcs` but not the batch: another batch is posted under the identifier in use (`megaclient.cpp:4765`) |
| `PutReload.cfg` | `TransferSlot` | `FrozenIsReleasable` | the same call clears `chunkfailed` under a frozen slot, which is never released (`megaclient.cpp:333`) |
| `GetSettles.cfg` | `TransferSlot` | `EventuallySettled` | a resumed download with nothing left to request hangs (`transferslot.cpp:311`) |
| `Outage.cfg` | `TransferSlot` | `OutageNotCounted` | `HttpIO::success` is set by failures, so an outage uses up a transfer's attempts (`posix/net.cpp:187`) |
| `Placement.cfg` | `TransferQueue` | `AllPlaced` | after a transient error at a second target, the temporary file has been renamed and the file is neither placed nor reported (`transfer.cpp:171`) |
| `CacheGhost.cfg` | `StateCache` | `NothingLeftOver` | a node created and removed before it was written is written then, and is back after a restart (`megaclient.cpp:1944`); the shortest counterexample is a node made by an own command that is answered during a reload, and removed by another client before the server reads the tree |
| `CacheStale.cfg` | `StateCache` | `NumberIsAssociated` | a write to the cache fails and the cache is emptied, but `cachedscsn` stays (`megaclient.cpp:1978`); the application reloads, the reload fails, and the next `fetchnodes()` resumes the empty table under the old number: `fetchsc()` takes it for a complete cache, and the nodes up to that number are never seen |
| `CacheAgain.cfg` | `StateCache` | `NumberIsAssociated` | a second `fetchnodes()` during a reload loads the cache, and the tree that was requested is merged into it later (`megaclient.cpp:4702` has no guard against it, only `:4714` has) |
| `SyncRescan.cfg` | `SyncFolder` | `RescanConverges` | a rescan after lost notifications does not find deletions: `deletemissing()` wants a file missed by two scans, and there is one (`sync.cpp:825`) |
| `SyncRecord.cfg` | `SyncFolder` | `RenamedIsCached` | the rename `syncdown()` performs for a remote one is not written to the cache (`megaclient.cpp:5034`) |
| `FaEarly.cfg` | `MCFileAttributes` | `Sequential` | `putfa()` while a failed attribute waits requests it, and `exec()` then takes the failure it still shows off the slot and requests it again (`megaclient.cpp:2110`) |
| `SyncDangling.cfg` | `SyncFolder` | `NoDangling` | `syncdown()` clears a node's `localnode` but not the reverse pointer, and the node can be destroyed (`megaclient.cpp:4933`) |
| `FaRetried.cfg` | `FileAttributes` | `FailedIsRetried` | a failed fetch is failed anew in each pass, which sets its timer again (`megaclient.cpp:577`) |
| `KeyTuples.cfg` | `ShareKeys` | `AllAnswered` | `cr_response()` without a selector never sends the first tuple (`megaclient.cpp:4352`) |

## Findings

| Run | What it shows |
|---|---|
| `get_whole` | a resumed download builds on a temp file that the previous slot's destructor deleted; with a short reply, which is counted too, it completes, verified, with blocks missing; the fingerprint check (`transfer.cpp:105`) hides this unless the node has no valid fingerprint or the temp file does not open |
| `share_target` | a folder shared with a user whose public key cannot be had is published as an exported link, because the pending action is performed with a NULL user |

## Fairness

`CsChannel`: `exec()` runs again and again, the clock advances, the server
executes what reaches it, and a request that is repeated for ever is answered
at some time (strong fairness of `receiveResults`). A request-level error is
excluded from the promise: the code keeps the request and waits for a logout.

`TransferSlot`: the engine loop, the clock, and the command channel make
progress, and some other request of the engine succeeds again and again (the
server-client poll does, and it also wakes the loop). Nothing is assumed of the
storage server. A transfer that is paused, or whose back-off the user resets,
again and again is excluded. That data cannot flow for ever without completing
a chunk is the strong fairness of the stalled tail.

`TransferQueue`: `exec()` dispatches and serves every slot in each pass, timers
elapse, and a slot's work ends (`EventuallySettled` of `TransferSlot`).

`FileAttributes`: the same for its part of `exec()`; commands are answered
(`EventuallyDelivered`), HTTP requests end, and uploads become nodes or fail.
Faults are bounded, which stands for a network that works again at some time.

`StateCache`, `SyncFolder` and `ShareKeys` have no fairness: their promises are
about the states in which everything has been processed.

## Proofs

Every theorem holds for all values of the constants that satisfy the module's
assumption, so that none of the bounds of the runs matters to it. The only
further hypotheses are those named below.

`BackoffTimerProofs`: for all constants satisfying `TimerAssumption`, the type
invariant, `RetryBounded`, `WaitCanBeCut`, `NeverOversleeps` and the refinement.
The assumption says that uptime plus two of the longest intervals fits the word;
it does not say that intervals are within the cap, or above 0. `TimerInv` adds
that an interval is short or the negative of an excess smaller than the clock
(`Interval`), so that the trigger of a wrapped one wraps back to a moment between
1 and the present, and that an unset timer has interval 1, which keeps `arm()`
from setting it.

`CsChannelProofs`:

* `TypeCorrect`.
* `Safety`, `TimerMeansBatch`, `RetryShown`. `OneBatchPerId` is not inductive: it
  says nothing about what may be posted next. `Control` adds `BufferInUse` (the
  other buffer is non-empty exactly while a request is outstanding or the timer
  is set) and `CurrentBatch` (what was posted under the current identifier is
  the content of that buffer, and no identifier is ahead of `reqid`).
* `Refinement`. `Content` adds where every command is (`WhereCommandsAre`:
  delivered, outstanding, collected are consecutive runs of numbers), what the
  server has done (`WhatServerDid`: it is ahead of the callbacks by at most the
  outstanding batch) and that results in hand belong to that batch
  (`ResultsAreCurrent`). Each step is then a step of `RpcFifo` or a stutter.

`TransferSlotProofs`, for any number of chunks, connections, errors and attempts:

* `TypeCorrect`: `pos` stays in the file, `failcount` within its limit.
* `ChunksApart`, `ChunksKept`, `CompletionIsWhole` from one invariant, `Chunks`.
  The three need each other: that completion means wholeness rests on every
  chunk being counted once, which rests on no chunk being with two connections,
  which rests on none being lost before `pos`. `Recorded` says that
  `progresscompleted` is the sum of the sizes of the recorded chunks; that a sum
  of all sizes implies all chunks is `Induction`'s. `StepKind` shows once, action
  by action, that a step ends the slot, opens one, takes the next chunk or lets
  connections go on, and the invariant is shown for these four.
* `WholeWithoutShortReplies` (for uploads, or without short replies): wholeness
  without the exception, which shows that the short reply is the only cause of
  the finding `get_whole`.
* `Release` (uploads, no transient read errors): a frozen slot can be released.
  `UrlKnown` is added: a slot that freezes has a URL for `setchunkfailed()`.

`TransferQueueProofs`, for any fingerprints, targets, slots and pipeline:

* `TypeCorrect` and `LinksHold`. `Linked` alone does not say that a file which
  has ended is in no list any more, so the invariant `Links` adds that
  (`EndedIsGone`).
* `FilesEndOnce`, from the same invariant: an action reports files of a
  transfer's list only.

`StateCacheProofs`, for any number of nodes, updates, own commands and stops:

* `PollFollows`. `procsc()` does not compare the number of a response with that
  of the tree. It need not, because `fetchnodes()` drops the poll, and no number
  is known while a tree is fetched (`Fetching`), so that none is outstanding when
  one is set. A second `fetchnodes()` that loads the cache breaks this, which is
  the exception `mixed`: the invariants are shown for the steps that leave it
  FALSE (`Steady`), and it never becomes FALSE again.
* `CacheIsComplete` and `NothingIsMissing` from one invariant, `Complete`. The
  two need each other: the tree is restored from the cache, and the cache is
  written from the tree. `Core` has what does not depend on which nodes are
  looked at: the server's trees are the results of its updates (`History`),
  which numbers are known (`Numbers`, `Sess`), where own commands are (`Cmds`),
  and that every node has a record number of its own, below `nextid` (`Ids`,
  `Store`). `Good(F)` is about the nodes of a set `F`: the tree has them as the
  server did at `scsn` (`Follows`), each is either in the table under its record
  number as it is in the tree or waits to be written (`Held`), and the table is
  the server's tree at its own number (`Cached`).
* `updatesc()` and `procsc()` are loops whose bodies are recursive functions;
  `Induction` follows them pass by pass: `Step` says what one update does to the
  server's tree and its action to the client's, `Written` what writing some of
  the nodes, in any order, has done to the table. The set `Foreign` changes with
  every update, but only shrinks (`PureBefore`), so a step is followed for the
  set after it (`CompleteStep`).

`FileAttributesProofs`, for any uploads, attributes, clusters and items:

* `Attachment`. `Attach` says where a stored attribute is: in `pendingfa`, in one
  command only, or attached (`Pending`, `Held`, `Attached`, `Somewhere`), and
  which node a command waits for (`Sent`); moreover each attribute is in the
  queue once and the one in progress is its first (`QueueOK`).
* `Channels`: `ChannelThere` is inductive once types are known (`ChannelType`) and
  commands of the other half of the module are told apart.
* `OneAtATime`, without a condition: until `hurried`, which stays once it is set
  (`HurriedStays`), the command or request outstanding is that of the attribute
  in progress (`OneRequest`), the others are untouched or have failed (`Rest`);
  in the middle of `exec()` the first of the queue is on its way to be requested
  (`Between`).

`ShareKeysProofs`, for any users, files, commands, packets and failures:

* `OneUser` and `Requests`. Operations are composed (a packet merges shares,
  which adds users; the result of a key request performs actions, which add
  commands), so the invariant is one of the record they work on, `UsersOK(c, A)`,
  where `A` are the users whose keys are in results that `c` does not hold. Each
  operation keeps it, most of them because they leave users alone and add no
  request (`Quiet`). Two conjuncts carry the theorems: a record that has an
  address and is found by its handle is found by its address (`Indexed`; without
  it `mapuser()`, which looks only at the record's address, would leave two
  records), and a record with waiting actions has its request in the queue or in
  `A` (`Waiting`). `KeysArrive` puts the client, the results and the packets
  together. Loops are followed by induction over the passes they have made
  (`Loops`, `SetInduction`).
* `OutboundAgrees` and `InboundAgrees`, from `Agreement`. The two properties speak
  of rest only and say nothing about the way there. `Agreement` says where the
  client is on it: a view is what the server's state was between two actions, the
  packets on their way lead from one view to another (`Past`, `Tells`), the last
  is the server's state (`Latest`), and the client is as in the first
  (`Follows`). Nothing depends on how the actions are cut into packets, so
  `joined` keeps it. Within a packet shares wait for their nodes, and the client
  lags behind the view: `OutMid` and `InMid` say that the shares in `newshares`
  lead to it. A late merge is harmless: only additions wait, a
  revocation merges what waits before itself, and a folder that has been removed
  takes its shares with it.
* The share key needs more, because it is also made up here. A view counts
  epochs (the last share, or the folder, has gone). As long as the view the
  client has is of the server's epoch, its key is none, the server's, or
  `Corrected`: a command that will be refused with the server's key, or that
  refusal, is still on its way. A key made up for a revocation, or for a command
  that fails, is corrected by nothing, which is the exception `stale`; in an
  epoch that is over, the key goes with the last share.

Only model-checked:

* Liveness (`EventuallyDelivered`, `EventuallySettled`, `Settles`, `PutsEnd`,
  `FetchEnds`), which is out of the prover's reach.
* The properties of `SyncFolder`: `checkpath()` and `syncdown()` apply operators
  to queues and trees. The library's recursion theorems take an operator as a
  parameter, which the provers cannot instantiate; induction with sets, as in
  `Induction`, needs a lemma for each loop.

## Plan

`SyncFolder`: a proof of `BackPointers`, the one of its invariants that needs no
account of what is still to be scanned, and a second level of folders, if its
states can be kept within what TLC explores.

## Not modelled

* Cryptographic primitives, image processing, console and logging: no protocol
  state. The Windows back end: the POSIX one is the reference. Examples and
  third-party code.
* The codecs (base64, JSON, `serialize64`, attribute maps): pure conversions
  whose correctness is a matter of unit tests.
* `wait()` as a whole: which timers it folds. `inetstatus()`: its argument has
  the wrong type, so that it does nothing.
* `HttpReqDL::finalize` ignores the result of `fwrite`; the models take a write
  to succeed.
* Account, quota, payment and contact queries, whose results are passed on to
  the application; user attributes; `sc_userattr`, `sc_fileattr`.
* The pipeline limit of `moretransfers()`: what the slots have left depends on
  progress that may drop, and the speed it would look at on times.
* In `SyncFolder`: change notifications that are unavailable for good (`exec()`
  then rescans for ever and nothing comes to rest), directories, files that
  cannot be read, the application's
  vetoes, several syncs. In `ShareKeys`: nested shares, the shares that
  `fetchnodes` reads. In `StateCache`: the encoding of records.
* JSON, URLs, encryption, messages to the application and memory management
  throughout; use of freed memory is modelled where it can happen (`wrong`,
  `"crashed"`).
