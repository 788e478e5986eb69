# A TLA+ model of Secret Messenger for iOS

This directory keeps specifications of the concurrent and the stateful parts of
Secret Messenger for iOS (ChatSecure's successor), model-checked with TLC and, for
the parts everything else rests on, proved with TLAPS. Paths are relative to
the repository, `src/` being its root.

Contents: 1 inventory, 2 plan, 3 the modules and how they correspond to the
code, 4 runs, bounds and fairness, 5 what the counterexamples show, 6 proofs,
7 limits.

## 1. Inventory

An outgoing message travels like this. The user interface saves it, together
with an `OTRYapMessageSendAction`, in one transaction
(`OTRXMPPManager enqueueMessages:`). The **task queue broker**, a filtered view
of the database, notices the change and hands the first action of each queue
(one queue per conversation) to the **message queue handler**. The handler
waits until the account is logged in, has **OTRKit** or the **OMEMO
coordinator** encrypt the message, gives the stanza to the **XMPP stream**, and
calls the completion block when the stream says that the stanza was sent or
failed. The broker then removes the action and turns to the next one. Actions
that add or remove a buddy take the same way.

| Component | State | Operations | Interaction | Hard parts | What makes it correct |
|---|---|---|---|---|---|
| Task queue broker (`YapTaskQueueBroker.swift`) | actions in the database; `currentState` per queue; the blocks on `workQueue`; retry timers | scan after a change, `checkQueue`, completion (success, retry now, retry later, pause for good), `restartQueues`, registration | database notifications in, `handleNextItem` out, completion blocks back | scans work with stale groups; the state is written asynchronously; three kinds of threads run `checkQueue`; relaunch | no queue forgotten, no entry that outlives its cause, first in first out, at least once |
| Message queue handler (`MessageQueueHandler.swift`, `OTRXMPPMessageStatusModule.swift`) | `outstandingAccounts`, `outstandingBuddies`, `outstandingMessages`, OTR timers | `handleNextItem`, the sends per security level, login and session notifications, OTR timeout, didSend/didFail | broker, account manager, OTRKit, OMEMO, stream, database | status read before the wait is registered; timeout against session; deleted messages; one entry per key | every completion block called, once; sent once, in order; given up means not sent |
| XMPP account manager (`OTRXMPPManager.m`) | `loginStatus`, the stream, its modules | connect, authenticate, disconnect, push registration | UI, handler (login notification), stream | status set by several paths | the status agrees with the stream |
| OTR encryption manager (`OTREncryptionManager.m`) | OTRKit sessions, fingerprints | encode, decode, session and trust changes | handler, stream, database | asynchronous saves | an encoded message is sent or its failure reported |
| OMEMO coordinator (`OTROMEMOSignalCoordinator.swift`, `OMEMOModule.m`, `OTROMEMOStorageManager.swift`) | callbacks of fetched lists and bundles, the blocks of `workQueue`, rows of devices, sessions | `encryptAndSendMessage`, `prepareSession`, lists and bundles that come in, `removeDevice`, decrypt, publish | PubSub, Signal store, handler, database | dispatch groups; dictionaries used off their queue; a second fetch for one user; timeouts with late answers | every preparation ends; no callback called twice; a removed device gets nothing |
| Signal storage (`OTRSignalStorageManager.swift`) | identities, pre-keys, sessions | store, load, delete | coordinator | key reuse | a pre-key is used once |
| Stream management (`XMPPStreamManagement.m`, memory storage, `XMPPManagedMessaging.m`, `OTRStreamManagementDelegate.swift`) | un-acked stanzas, the counters of both sides, requests and acks due, what the storage keeps | enable, send, name a stanza, request, ack, resume, disconnect | stream, delegates that name stanzas, message states | resumption, names that come late, lost connections, a counter that wraps | acked means handled by the server; each once and in order; nothing the server sends is lost or doubled |
| Message and room storage (`MessageStorage.swift`, `RoomStorage.swift`, with `XMPPMessageArchiveManagement.m`) | messages, `lastHistoryFetchDate`, `mamCatchupInProgress` | incoming, carbon, archive, end of a catch-up, receipt | stream, archive module, room manager, database connection | three queues that wait for each other; the flag read late; duplicates; relaunch between two pages | one message once; none left behind by the date |
| Room manager (`OTRXMPPRoomManager.m`, `RoomManager.swift`) | joined rooms, fetched histories | join, leave, invite, subject, look-up, history | stream, message storage, database connection | rejoin after reconnect; synchronous use of the database | rooms in the database are joined |
| Media store (`libsqlfs/sqlfs.c`, `IOCipher.m`, `OTRMediaFileManager.m`) | tables `meta_data` and `value_data` of an encrypted database; a connection and a transaction level per thread | create, mkdir, open, read, write, truncate, rename, unlink, rmdir, del_tree | HTTP server and file transfer, views | contents in blocks; calls of several statements and threads; nested transactions that may be refused | sizes and blocks agree, no block without its file, a tree; calls are atomic |
| File transfer (`FileTransferManager.swift`) | transfers | slot, upload, download | HTTP, message queue | partial failure | message follows the upload |
| Push (`PushController.swift`) | device, tokens | register, exchange | HTTP, stream | expiry | tokens match their device |
| Buddy cache, subscriptions | presence per resource, flags | updates | roster, stream | reconnect | cache cleared with the session |
| Server capabilities | results of one query | query | stream | - | - |
| Account and database lifecycle | keys, views, managers | set-up, migration, Tor | everything | order of set-up | - |
| User interface, vendored libraries, assets | - | - | - | - | environment of the rest |

`PROJECT.json` lists the sources of each, its status, and the hazards at their
lines.

## 2. Plan

The order follows the weight: a message that is silently never sent is the
worst this program can do short of a crash; a message that never arrives, or
media that cannot be read again, come next.

Done:

1. `TaskQueueBroker`, the abstract `AtLeastOnceQueue` it implements, and proofs.
2. `MessageQueueHandler`: the handler with login, OTR, OMEMO and stream as it
   sees them, and proofs of its safety properties.
3. `StreamManagement`: XEP-0198 against a server, with losses and resumption, and
   proofs of all its invariants.
4. The media store: `Sqlfs` (what the calls do to the tables) against the
   abstract `FileStore`; `SqlfsTransactions` (how calls of several threads
   become transactions); proofs for both.
5. `OmemoCoordinator`: fetches of lists and bundles, with proofs.
6. `ArchiveCatchup`: incoming messages and the archive, with proofs.

Left, in this order:

7. Roster actions: add and remove actions of one buddy with their common key,
   composed with the broker.
8. Pre-keys of the Signal store; file transfer; occupants and bookmarks of
   rooms; push; buddy cache.

## 3. Modules

### TaskQueueBroker

Constants: the actions, their queues and dates, `Caller` (threads besides
`workQueue` that run `checkQueue`), `Outcomes` (how the handler may call
completion), `Leftover` (actions found at first launch), `Budget`.

| Variable | In the code |
|---|---|
| `db` | objects that the view contains |
| `queueState` | `currentState` |
| `workQueue` | blocks on the serial queue `workQueue` |
| `todo`, `unpausing`, `picked` | position of each thread in `checkForActions`, `restartQueueIfPaused`, `checkQueue` |
| `running` | open calls of `handleNextItem` |
| `timers`, `rechecks` | blocks that `asyncAfter` or a completing thread has yet to queue |
| `notifications` | `YapDatabaseModified` posts that concern the view |
| `changed`, `abandoned` | history: the view has changed since launch; actions whose completion asked for no further try |

One action is one atomic stretch of the code: a transaction, a block of the
isolation queue, a block of `workQueue` up to the next place where another
thread can come in. `CheckQueue` is the transaction of `checkQueue`, `HandOver`
what follows it. `setQueueState` writes asynchronously and `stateForQueue`
reads synchronously on the same serial queue, so a reader that goes through it
sees all writes queued before: the write is atomic. The exception is line 167,
which reads `currentState.keys` directly: `ScanGroups` may miss any entry.
`restartQueueIfPaused` reads and clears in two steps (`RestartIfPaused`,
`Unpause`). `Relaunch` resets everything but the database. Saved actions sort
behind what their queue holds, because they carry the date of saving.

### AtLeastOnceQueue

What the broker really promises: a stored set of actions; an attempt begins
only at the first action of a queue; only a successful attempt at it, or a
deletion, removes an action; a queue with actions where nobody is at work is attempted
again, unless it is parked, which its user may ask for. It does not promise
exclusive attempts. `TaskQueueBroker` maps `store` to `db`, `live` to `changed`,
`attempts` to the open calls plus the threads that have picked the action, and
`parked` to the queues whose entry is one of an abandoned action.

### MessageQueueHandler

One account. The broker appears as `HandOver` and `Complete`: the first action of
its queue is handed over unless it is open already. As `broker_overlap` shows, the
broker does not quite keep to that, so `Budget` allows some actions to be handed
over twice ("overlap"). `CompletedOnce` and `NoCallForgotten` hold all the same;
`SentOnce`, `GivenUpIsNotSent` and `SentInOrder` are what the handler guarantees
as long as the broker keeps to it. Call *c* of `handleNextItem` got the action
`opened[c]`; `completions[c]` counts how often its block was called.
`threads` holds what runs on behalf of a call and where: `fetch` (before the
status is read), `await` (`waitingForAccount` next), `connect`, `start` (inside
`connectUserInitiated`), `send`, `initiate` (the block on the main queue), `mark`
(`sendGroupMessage` after the send), `resend` (`sendMessage` after a session
started). The three dictionaries have their names from the code; an
asynchronous insertion counts as done when it is queued, because every reader
uses the same serial queue. `preparing`, `outbox` and `answers` follow a message through
OTRKit or OMEMO, the stream, and the delegate calls. `loginStatus` and `stream` are
kept apart because the code changes them apart. `wire`, `lost` and `timedOut`
record history: transmissions, dropped calls, messages given up.

`wordless` says which messages have nothing to send; it is chosen at the start
and stays, as a message's text does. Accounts without OMEMO, rooms not joined,
devices not found and the like are nondeterministic choices at the place where
the code tests for them. `messages` stands for what `Fetch` needs: the message with its
thread, account and protocol. When any of them is gone the code does the same,
`completion(true)` (`MessageQueueHandler.swift:293-302`). Left out are branches no
state reaches: both callers set the `jid` of a removal (`OTRXMPPManager.m:1292`,
`UITableView+ChatSecure.m:80`), so it never waits without one (394-403); there are three classes of actions, so the
`default` (539) has none. Not modelled either are a message with a security that
its kind does not have (227, 252: assertions say it "should never happen") and messages of a
class other than the two (317).

### FileStore and Sqlfs

`FileStore` is what the store promises: a tree of directories, files (byte
strings) and links, and for each call what it does to them. `Sqlfs` is how
`sqlfs.c` does it: one action per call, with the checks and the refusals in the
order of the code, and the statements of its helpers (`set_value`,
`key_shorten_value`, `remove_key`, `rename_key`, ...) as operators on two tables.

| Variable | In the code |
|---|---|
| `meta` | rows of `meta_data`: type and size of each path |
| `rows` | rows of `value_data`: the blocks of each path |
| `calls` | bound on the number of calls |
| `astray` | history: a refused rename removed a directory that was not empty, or a call went below a regular file |

The abstract `files` are the type of each path and its blocks put together. A
byte a buffer happened to hold is `Junk`; `TypeOK` says that none is stored. Because
`IOCipher` leaves the flags of a write uninitialised, any write may append.
`FileStore` is what the code does, not what its tests and comments say, in two
places. Calls make the missing directories above their path (`WithDirs`), and so
does `mkdir`, although a test says it "does not make nested dirs"
(`tests/common.c:114-117`). A rename that is refused may have removed its target
(`DropTarget`), although a comment says that the target may be an empty directory
(`sqlfs.c:2367`). `ImplementsFileStore` therefore says nothing against either;
section 5 says what a `FileStore` without them shows.

### SqlfsTransactions

The brackets `begin_transaction` and `commit_transaction` around and inside the
calls of several threads, for one file to which is appended and which is
removed. A call is the sequence of its statements; each statement is a step, and
the process may be killed between two.

| Variable | In the code |
|---|---|
| `db`, `work` | the tables as committed, and as the open transaction sees them: row, size and blocks of the file |
| `lock` | SQLite's write lock |
| `level` | `transaction_level` of each connection |
| `todo`, `pos`, `size` | statements left of the call each connection is in, and its local variables |
| `group` | connections whose client called `sqlfs_begin_transaction` |
| `refused`, `clean` | history: BEGINs refused because the database stayed busy; whether every call had its transaction |
| `calls`, `refusals`, `groups` | bounds |

### StreamManagement

XEP-0198 as `OTRXMPPManager` sets it up, with a server that is external.

| Variable | In the code |
|---|---|
| `conn` | how far the connection has come |
| `sm` | `enableQueued`, `enableSent`, `isStarted` |
| `unackedByServer`, `lastRequestOffset`, `requestTimer`, `lastHandledByServer`, `prevUnacked`, `unprocessed` | `unackedByServer`, its `lastRequestOffset`, the timer of requests, the counter, `prev_unackedByServer`, `unprocessedReceivedAcks` |
| `lastHandledByClient`, `lastAckOffset` | the counter of received stanzas and how many of them are not acked yet |
| `store` | `XMPPStreamManagementMemoryStorage` |
| `sent`, `unanswered` | stanzas sent; those whose name the delegate has yet to give |
| `up`, `down`, `server` | elements under way, the server's session |
| `connects`, `ids` | bounds |
| `handled`, `reported`, `got`, `tracked` | history: handled by the server, reported as acked, received, and sent in the session |
| `session`, `nameless`, `cutOff` | history, of the server's session: the stanzas it handled; those that had no name when its `<resume/>` was sent; those in the list of a resumption that was cut off |

The delegates name stanzas (`XMPPManagedMessaging`) on a queue of their own, so
a name may come after the ack for it, or after the list was copied and emptied for
`<resume/>` (`XMPPStreamManagement.m:462-472`), when there is no entry left to put it in. No class asks to handle received stanzas
later, so they count as handled at once.

### OmemoCoordinator

The coordinator's `workQueue`, the queue of `OMEMOModule`, and what the tracker
of requests makes of answers, late answers and timeouts. A preparation is one
call of `prepareSession`: for each addressee of a message, the own account last.

| Variable | In the code |
|---|---|
| `status`, `phase`, `devices` | each message; how far each preparation has come; the devices it works on |
| `callbacks`, `bundleBlocks` | `deviceIdFetchCallbacks`, `outstandingXMPPStanzaResponseBlocks` |
| `workQueue`, `removing` | blocks queued; who stands between the call of a callback and its removal |
| `appended` | the own list with the own device, about to be stored |
| `listIq`, `bundleIqs`, `lateBundles` | outstanding requests, and those that timed out and may still be answered |
| `trust`, `keyed`, `sessions` | rows of `OMEMODevice`, with keys; session records |
| `sealedFor`, `spoiled`, `gone`, `crashed` | history: whom a message was encrypted for; users whose callback was lost; devices the user removed; a dispatch group left too often |
| `left` | `Budget` not yet used |

A list or key data from the server, a removal or a change of trust are steps of
the environment. Operations on one dictionary are atomic: what a data race on a Swift
dictionary may do to memory is not modelled. A write to the database counts as
done when it is queued, because all use one connection.

### ArchiveCatchup

How messages get into the database. Three serial queues take part:
`MessageStorage.moduleQueue`, that of the room manager, and the connection to
the database, which both share. Each runs its blocks in order; a block may wait
for another queue (`performBlock`, `readWriteWithBlock`), and then its own queue
stands still (`CallSync`, `Return`, `Returned`).

| Variable | In the code |
|---|---|
| `archived` | the server's archive; its length is also the clock |
| `connected`, `joined`, `down`, `queries` | the stream, the room, what is on its way, queries not yet answered |
| `blocks`, `call` | blocks on each queue; where the running one stands with the queue it calls |
| `mamCatchupInProgress`, `hasFetchedHistory` | the flags of these names |
| `fetching`, `messageDate` | local variable and argument of `updateLastFetch` |
| `lastHistoryFetchDate`, `stored` | the date of the account; copies of each message in the database |
| `ended`, `excuse` | history: a room's answer ended the catch-up; why the date passed a message that is not stored |
| `budget` | bounds |

The queue of the archive module waits for none and is drained at once. One
room; its messages are not stored in the model, but looking the room up and
fetching its history are steps. The room manager's other uses of the database
(invitations, occupants) stand behind `rejoin` and `subject`. A query that was
refused or timed out is one that is never answered, because `didFail` only logs.
A carbon copy is a message as it comes. All buddies are known, messages are of the last week and
none is OTR text; clocks of client and server agree.

`MC*.tla` hold constants for TLC. Definitions headed "Fault:" are plausible
bugs in the definition after them; they show that the properties can fail and
are not part of the specifications.

## 4. Runs

Every property is commented in its module. The passing runs:

| Run | Instance | Checks |
|---|---|---|
| `broker` | one queue, two actions, one possibly left from an earlier launch, a client thread, all four outcomes; one each of save, deletion, relaunch and `restartQueues`; with fairness | types; `StateIsBacked`; `NoStall`; `DrainsOneAtATime`; `EventuallyServed`; `ImplementsFairQueue` |
| `handler` | an OTR and an OMEMO message to one buddy, with or without text, two calls, autologin on or off; of one deletion, one disconnect, one session started or ended from outside, and one action handed over twice, any three | types; `CompletedOnce`; `NoCallForgotten`; `SentOnce`; `GivenUpIsNotSent`; `SentInOrder` |
| `handler_live` | a buddy, a room and a buddy to be added, five actions, two calls, one disconnect; with fairness | `NoCallForgotten`, `SentInOrder`, `EventuallyCompleted` |
| `sqlfs` | two names, paths of at most two, blocks of two bytes, three calls; writes within a block, over an edge, and past the end; truncation to one, two and four bytes; the two names are symmetric | types; `NoOrphanBlocks`; `BlocksMatchSize`; `KeepsTheTree`; `ImplementsFileStore` |
| `sqlfs_transactions` | two threads, three calls, two refused BEGINs, one client's transaction, kills; with fairness | types; `LevelCounts`; `CommittedIsConsistent`; `CallsAreAtomic`; `CallsReturn` |
| `stream_management` | three connections, three stanzas sent and two received per session, a request after two, counters modulo 3 | types; `OnlyHandledReported`; `ReportedInOrder`; `LedgerBalances`; `ReceivedOnce`; `NothingForgotten` |
| `omemo` | one message to a room in which the buddy is twice; two devices, one of them the own; of late answers, pushed lists, changes of trust, removals and incoming messages any one; with fairness | types; `WaitingIsEnded`; `OnlyCrossingCrashes`; `RemovedGetsNothing`; `EventuallyCompleted` |
| `catchup` | two messages, one with an id of its own and one without; an archive empty or not, with or without a date; any one of a lost connection, a relaunch, a message sent again and a room joined; with fairness | types; `StoredOnce`; `NothingMissed`; `EventuallyStored` |

Why the bounds are enough. In the broker two queues share nothing but the
`workQueue`, a stale scan needs one change before and one after it, and an action
overtakes or is overtaken by one other: two actions show each of these, and the
proofs cover any number of queues. The handler's dictionaries are keyed by
account, buddy or message, so two calls with one key show every replacement. In
the media store a write treats the first, the middle and the last block apart,
which three blocks of two bytes show; three calls are a file that is made,
changed and moved, and depth two has a directory with a file. Transactions mix
as soon as there are two threads; a refusal matters in the call it hits and in
the next, hence three calls and two refusals. In stream management the counter
of three wraps with the third stanza, two requests are made, and of three
connections the second and the third may resume the session or begin anew.
The coordinator needs two fetches of one list, which the room gives. In the
catch-up two messages are one the date is saved for and one it may leave behind, and a
page may end between them. Environment steps (`Budget`) are bounded because each starts the
same chain of work again; the entry "any" bounds their sum. In the catch-up the sum
is one; the safety properties also hold with two (8.9 million states, too many for a run
kept here).

Fairness. Dispatch queues run the blocks they are given, run loops fire timers,
and notifications are delivered: weak fairness of the corresponding actions. In
the broker the handler calls every completion (weak) and does not fail for ever
(strong fairness of `Succeed`). In the handler OTRKit and OMEMO finish in one of
their ways, the stream reports on each stanza, and an account that keeps
connecting is sometimes authenticated (strong fairness of `Authenticate`). In
`sqlfs_transactions` a connection that keeps asking for SQLite's lock gets it
some time (strong fairness of `Step`), and a client ends its transaction. In
`omemo` queued blocks run, timers fire and the caller's thread goes on; nobody
has to answer. In `catchup` the queues run what they can, the stream delivers, and
the server answers. No fairness is assumed for users, peers, deletions,
disconnects or OTR answers.

`stream_management` states no liveness: with no fairness for a server that may
be gone for good, `NothingForgotten` says instead what is true once nothing is
left to do (`Quiet`): what the server handled in the session is reported, but for
stanzas in `nameless` or `cutOff`, which section 5 explains. `sqlfs` is sequential, and every call returns at once.

Deadlock is not checked: with all actions, calls or connections of an instance
spent the system rightly stops. The one deadlock found, the circle of three
queues in `ArchiveCatchup`, does not stop the rest of that model, so it is named
in `EventuallyStored` (`Circle`).

## 5. What the counterexamples show

Four runs check a sentence of a comment and find it violated.

- `broker_overlap`, `OneAtATime`: the last action of a queue is done; its
  completion queues a `checkQueue`, and the scan that the removal causes, which read
  no groups, is queued behind it. Before either runs the next action is saved. The
  `checkQueue` hands it over, the stale scan clears its entry, and the scan
  that the saving causes hands it over again. In the application this sends a message
  twice. `DrainsOneAtATime` shows that it takes at least two saving transactions.
- `handler_login`, `EveryCallHeld`: of several calls that wait for a login one
  is handled; the others are never completed, and their conversations stand
  still until the application is relaunched. `NoCallForgotten` shows that calls
  are dropped at the five places it names and nowhere else.
- `handler_wakeup`, `LoginWakesWaiters`: the account logs in between the look at
  `loginStatus` and `waitingForAccount`; `connectUserInitiated` then has nothing to do.
- `handler_timer`, `TimeoutIsOwn`: the timer of an earlier message of the buddy
  gives up a later one.

Other places where the passing runs had to make room for what the code does, two of
them (`mkdir` and the reports of stanzas) against what a test or a header says:

- Actions left in the database at launch wait for the first change of the view;
  `EventuallyServed` is conditional on `changed`.
- Media store: `begin_transaction` gives up when the database stays busy, and no
  caller looks (`sqlfs.c:236`); the level is one too low from then on, until the thread
  ends, and the thread's later calls are not atomic. `LevelCounts` counts this
  exactly.
- Media store: without FUSE, as in the application, `check_parent_write` makes the missing
  directories above any path it checks (`sqlfs.c:1711-1723`), so `mkdir` of a nested path
  makes all of them. `tests/common.c:114` says "Testing whether mkdir does not make
  nested dirs..." and asserts (117) that the directory is not there. With D = {} in
  `FileStore!Create`, `ImplementsFileStore` fails at the first such `mkdir`.
- Media store: a comment (`sqlfs.c:2367`) lets a directory be renamed to an empty one. The
  test behind it (2377) asks for at least no children, so the call is refused, and the target
  is removed all the same (2384-2390), also one with entries, which stay in the
  tables below nothing (`astray`, in `KeepsTheTree`). Without `DropTarget`,
  `ImplementsFileStore` fails at such a rename.
- Stream management: the difference after a wrap of the counter is one too small
  (`XMPPStreamManagement.m:995`); stanzas the server did not handle are, after
  `<resumed>`, neither sent again nor reported.
- Stream management: delegates are promised all stanzas "that were just acked"
  (`XMPPStreamManagement.h:314`), but two kinds the server handled are never reported. A
  stanza named between `<resume/>` and `<resumed/>` has left the list, and its copy has no
  name (462-472, 550); `NothingForgotten` fails without `nameless`. And when the
  connection is lost between the two, the emptied list is stored, so the next resumption
  reports nothing that was in it; `NothingForgotten` fails without `cutOff`.
- OMEMO: a second fetch of one user's list replaces the callback of the first
  (180), whose message is never sent nor reported; a comment (88) says the
  callbacks are only used on the work queue, but `storeDeviceIds` (755) uses them
  on the module's queue: a dispatch group may be left twice, which ends the
  process, or a new callback removed. A device removed while its bundle is under
  way comes back. A device listed again after it was marked removed stays so.
- Catch-up: the storage queue waits for the room manager, the room manager
  for the connection, the connection for the storage queue: a message, a room's
  message and a subject that meet stop all three for good (`Circle`).
- Catch-up: a comment (`MessageStorage.swift:81`) says "Don't update fetch date from
  realtime messages if we're currently fetching". The final answer for a room clears
  the same flag, and a new login resets it before the old session's messages are
  stored; then the date moves past messages still to be fetched. The date saved at the
  end is that of the clock, not that of the last message, so one that reaches the
  server in between and is lost with the connection is not fetched later.
  `excuse` keeps these cases apart: `NothingMissed` shows there are no others.

## 6. Proofs

TLAPS checks eight modules, for any values of the constants that meet the named
assumptions of each model.

**Broker** (`TaskQueueBrokerProofs`; assumptions
`QueueOfType`, `DateType`, `DateIsOrder`, `OutcomesType`, `LeftoverType`,
`BudgetType`, `CallerType`: the number of calling threads is finite and none of
them is the `workQueue`).

- `TypeCorrect`, `EntriesAreBacked`, `NoQueueStalls`: `TypeOK`, `StateIsBacked` and
  `NoStall` always hold.
- `DrainsInTurn`: `DrainsOneAtATime` always holds.
- `BrokerImplementsQueue`: `Spec => ImplementsQueue`, the safety part of
  `ImplementsFairQueue`.

`NoStall` is not inductive. Two strengthenings make it so. `OwnItem`: an entry
of `currentState` names an action of its own queue; without it a completion
could not be matched with the queue it ends. `NothingMissed`: a scan still waiting on
the `workQueue` that does not list a queue with actions will clear that queue's
entry, so something that looks at the queue again must come behind it, or a
notification be due. The inductive invariant `IInv` is their conjunction
with `TypeOK`, `StateIsBacked` and `NoStall`; the proofs go action by action,
with one lemma per group of actions.
`DrainsOneAtATime` has an invariant of its own, `Draining`. While at most one
transaction saved actions and nothing else came from outside (`Quiet`), nothing
moves before that save (`AtRest`), and after it (`Serving`): an open call has the
entry of its queue, only the `workQueue` picks actions and only where no entry is,
every entry stands at the first action, only the `workQueue` ends a pause, a
caller looks at a queue only while its entry is one of the action it completed, and a scan
waiting lists every queue with actions, so it clears no entry that is in use.
The budget never grows (`Within`), so once it is not quiet it never is again.
The refinement needs only `TypeOK` and the finiteness of `Caller` (for the
cardinality in `Attempts`): `CheckQueue` that picks an action is `Begin`, a
completion is `Succeed` or `Fail`, and all else stutters, or parks or frees a
queue, or is the abstract step of the same name.

**Handler** (`MessageQueueHandlerProofs`;
`KindType`, `ThreadOfType`, `DateType`, `AutologinType`, `WordlessType`,
`MaxCallsType`, `BudgetType`): `HandlerTypeCorrect`, `CompletedAtMostOnce`,
`CallsAreHeld`, `SentAtMostOnce`, `GivenUpStaysUnsent`, `SendsKeepTheOrder`.
The types carry with them that each dictionary entry is filed under what its
call is about. On that rests one invariant about calls: each has at most one
holder (a thread, a dictionary, a preparation, the outbox or an answer) and, until
it is completed or dropped, exactly one; completions are bounded by one; and, as
long as no action is handed over twice, an action has one open call, and what is
sent or given up is over. Order follows from the order of the calls.

**Media store** (`SqlfsProofs`; `BlockSizeType`, `DepthType`,
`CallsType`, `LengthsType`, `WritesType`, `LinkType`): `NothingIsOrphaned`,
`TreeIsKept`, `ColumnsAreKept`, `BlocksFitSizes` and `FilesAreStored`, for
any names, depth, block size and calls. Every helper that adds a block also
writes the row, every one that removes a row removes the blocks, and calls that
fail change nothing or stop at a point where this holds. `TreeIsKept` has two
exceptions, both in its statement as `astray`: a refused rename removes a target
that has entries, and a call may go below a regular file. Every other call,
refused or not, keeps the tree: only empty directories go, and a rename moves
what is below.
The contents rest on the invariant `FInv`: the columns have their types (`Sound`),
and a file of *n* bytes has the blocks 0 to (*n* - 1) div `BlockSize`, all full but
the last, which ends where the file ends (`Filled`). A byte is
at one place, the block of its position and the place in it (`Position`,
`BlockOrder`), so what a write, a truncation or a copy does to the blocks it touches is
what it does to the bytes. `FilesAreStored` then takes the calls one by one: each is the
call of `FileStore` of the same name on the bytes read back from the blocks, or
changes nothing.

**Transactions** (`SqlfsTransactionsProofs`; `NoConnIsNone`, `BoundsType`, so any
threads, calls and refusals): `TransactionTypesCorrect`; `LevelIsDepth`, inductive
with the types once it is known that what is left of a call is a suffix of one
of the two calls; `CommittedConsistent` and `CallsTakeEffectAtOnce` from the
invariant that, until a BEGIN is refused, the committed table is consistent and
the holder's working table is what its stage of the call makes of it.

**OMEMO** (`OmemoCoordinatorProofs`; `OwnIsNoBuddy`,
`NoOneIsNone`, `SelfType`, `RecipientsType`, `ListsType`, `BudgetType`,
`NoPreparation`): `CoordinatorTypeCorrect`, `WhoeverWaitsIsCalled`,
`CrossingCrashes`, `RemovedDevicesGetNothing`. The inductive invariant adds to the
types that a queued block belongs to a preparation in the right phase, that each callback, list and
bundle has one preparation that waits for it, and that a device that is gone has
no row, and no preparation that would make one again.

**Archive** (`ArchiveCatchupProofs`; `MessageType`, `BudgetType`):
`CatchupTypeCorrect`, `StoredAtMostOnce` and `NothingIsMissed`. The types say that only a block of a
kind that calls another queue is in the middle of a call; that stays true because
every other step puts blocks behind the one in front. The invariant `Deciding`
joins them: while the block of a message waits for `MessageStorage`, what it found
in `isDuplicate` still holds, since only blocks of the same connection store
anything. The duplicates then follow from the two steps that store.
`NothingMissed` is `Behind`, one conjunct of `Orderly`, and not inductive by
itself: it says nothing of what will move the date next. Two things move it, a final
answer and a live message. Of the first, `Answers` says that every message up to the
one it answers with is stored or queued by the time it is handled, and that no live message
handled before it is newer. Of the second, `Messengers` says that whatever is
older than a live message is stored, queued or ahead of it on the stream, or that a
catch-up will be open when the message is handled, so that it leaves the date alone,
or the date moves with an excuse. `Bounded` keeps all of this within the archive, and
`Synced` ties the blocks of `performBlock` to the block of the connection that waits for
them. Each step takes the head of one queue and puts blocks behind another,
so what was ahead stays ahead.

**Stream management** (`StreamManagementProofs` and, for the last two,
`StreamManagementReportsProofs`; `ModulusType`, `RequestType`,
`BoundsType`): `TypesHold`, `OnlyHandledReportedHolds`, `ReportedInOrderHolds`,
`LedgerBalancesHolds`, `NothingForgottenHolds` and `ReceivedOnceHolds`, for any modulus
and any bounds. `ReceivedOnceHolds` alone asks for `MaxReceived < Modulus`: if a
session carries as many stanzas as the counter has values (2^32 in the code), the
`h` of `<resume/>` cannot tell all of them from none.
`OnlyHandledReported` is not inductive, because it says nothing of the acks still to be
taken; and those are remainders, which do not say how many stanzas they stand for.
The invariant `Core` adds what is needed:

- `Phases`: which elements can be under way in each phase of enabling, resumption
  and an established session, and when the server has one.
- `Listed`, `Pending`: the list holds the last stanzas sent, in order; what is stored
  for a resumption is that list, with the names it had when the connection was
  lost; what was reported was sent before all of it.
- `Outgoing`: what the server has not handled is on its way, in order; what it has,
  of the stanzas the client waits for, is in `handled`.
- `Accounted`: there are numbers that `lastHandledByServer`, the acks that wait for
  a name and the acks under way are the remainders of. They grow along the way of an
  ack, none exceeds what the server counted, and what they cover was handled. The
  error in the difference after a wrap only makes the client take fewer stanzas
  off the list than an ack covers, so the stanzas taken off are at most those
  `lastHandledByServer` stands for, and as many as long as the counter did not wrap.

Types, order and balance follow from `Core` alone. `NothingForgotten` needs two
more. `Requested`: all stanzas but those the timer is for are covered by what is
known to be handled, by an ack that waits or is under way, or by an `<r/>` behind
them; so when all is quiet nothing is left in the list (`RequestsSettle`). `Conserved`:
until the server's counter wraps, each stanza it handled in the session is still in
what the client waits for or stores, or was reported, or is in `nameless` or
`cutOff`. For that the client's counter must be exact, not only bounded as in
`Accounted`; an entry stored without a name must be in `nameless`; and an ack that waits must
stand for more than `lastHandledByServer`, so that taking it takes stanzas off. `ReceivedOnce` needs `Incoming`: the stanzas under way follow those received,
and the acks under way and stored lie between what the server last learned and
what was received.

Model-checked only: all liveness (`EventuallyServed`, the fairness part of
`ImplementsFairQueue`, both `EventuallyCompleted`, `CallsReturn`,
`EventuallyStored`), which TLAPS cannot derive from fairness. Every invariant and
every action property of a passing run is a theorem. No module uses RECURSIVE operators.

## 7. Limits

- The broker's dates order a queue totally. In the application a roster action
  and a message of the same buddy compare as equal; see the hazard.
- An add and a remove action of one buddy share a key; the models give every
  action its own.
- The handler model is of one account and does not relaunch; what a relaunch
  does to the queues is in the broker model.
- A stanza the stream took counts as sent, as the handler has it. What the
  server acknowledges is in `StreamManagement`; the two are not composed.
- Media store. Not modelled: `sqlfs_set_type`, `sqlfs_set_value` and
  `del_tree_with_exclusion`, which nothing in the application calls by name, modes,
  owners and times, a rename into the own subtree, reads and writes of no bytes, a
  change of the key.
- Stream management. Relaunch is not modelled, as the storage is in memory (the
  one in the database is commented out, `OTRXMPPManager.m:255`); dates and
  timeouts are a choice; the server resumes no session older than the one it
  bound last.
- OMEMO. Not modelled: publication of bundles and lists, the server's part of a
  removal of an own device, pre-keys. An expired device counts as not trusted;
  the fetch at login counts as a pushed list; buddies stay stored.
- Catch-up. Not modelled: receipts, chat states, errors, what is in room
  messages. Dates are as fine as the messages; the application sends whole
  seconds, which fetches some messages twice.
- Not modelled at all: see the table of components in `PROJECT.json`. File
  transfer, push, roster storage, buddy cache and server capabilities are mostly
  single requests with a table of results; they are left for later. The user
  interface, assets and vendored code are out of scope but for what they do to
  the modelled parts.
