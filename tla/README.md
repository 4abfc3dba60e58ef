# A TLA+ model of AppModel

AppModel (`src/HoldGold`) is the skeleton of an iOS application written in
Objective-C: a launch that asks a server for permission to go on, a tab bar with
four placeholder pages, the base classes of pages and web pages, the reception of
pushes, and a set of tools (archive, device identity, permissions, sharing,
encryption).  It carries the source of WCDB, the data base library that it uses, and
of the SQLite below it.  This directory holds TLA+ modules of its parts with state,
the TLC configurations that check them on small instances, and proofs, checked by
TLAPS, of what matters most for every value of the constants.

Paths below are relative to `src/HoldGold/HoldGold/`, those that begin with `WCDB`
to `src/HoldGold/Pods/WCDB/objc/WCDB/` and those of SQLite to
`src/HoldGold/Pods/WCDBOptimizedSQLCipher/src/`.

## 1. Inventory

| Part | Source | State | Operations | Interacts with |
|---|---|---|---|---|
| Launch | `Main/Appdelegate/AppDelegate.m`, `Main/LoadingPage/LoadingController.m`, `Api/SystemApi/SystemApi.m`, `Libs/Tools/ApiTool/NetRequestTool/NetRequest.m` | root of the window, network status, requests in flight, the notice of a disabled account | launch, reachability report, init request and answer, exit | reads and writes the archive; sends the device identity; installs the tab bar |
| Archive | `Libs/Tools/ArchiverHelper/XLArchiverHelper.m`, `XLManagerFileHelper.m` | two files for each key | save, read | called by launch, version check, share sheet |
| Device identity | `Libs/Venders/UDID/*.m`, `Libs/Categorys/UIDevice+UniqueId`, `PublicTool.m` 16-19 | the keychain item, the static query dictionary | `getUUID`, `load`, `save` | called for every init request |
| Push reception | `AppDelegate.m` 66-73, 184-345 | `isJPush`, `pushDict` | SDK and system callbacks, a timer | the JPush and GeTui SDKs, the system |
| Tab bar | `Main/TabBar/*.m` | selected index, lit button, tags, dots, the system's buttons | touch, selection by the program, layout, dots | installed by the launch |
| Navigation | `Main/BaseClass`, `UIViewController+BackButtonHandler`, `UINavigationBar+WRAddition` | stack, bar items, dispatched pops, web history | back indicator, back button, swipe, web back and close, `backToControllerName:` | UIKit, the main queue |
| Permissions | `Libs/Venders/CJXPermissionsManage` | `getLocation`, the location manager, `autoPresent`, the alerts on screen | prompts with completions, for photos, camera, network, contacts, location, bluetooth, microphone, speech, pushes, calendar and reminders | the system, the main queue |
| Version check | `Libs/Tools/VersionCheck` | the version not to remind of, the alert | compare, force, offer | reads the archive that the launch writes |
| Encryption | `Libs/Venders/Security` | none (buffers within a call) | DES, Base64, special characters | envelope, launch |
| Handle pool | WCDB `core/handle_pool.cpp`, `database*.cpp`, `util/rwlock.cpp`, `concurrent_list.hpp` | free handles, count, lock, threaded handles, transactions | `flowOut`, `flowBack`, `close`, `blockade`, `purge`, `begin`, `commit`, `rollback` | SQLite; used by any thread |
| Table of pools | WCDB `core/handle_pool.cpp` 27-77, `util/recyclable.hpp` | pools by path, with a count; tags | `GetPool` by path or tag, release | one handle pool for each path |
| Configurations | WCDB `core/config.cpp`, `database_config.cpp` | the list, copied on write; what a handle has set | `setConfig`, `setCipher`, `setSynchronousFull`, `invoke` | run by the handle pool on its handles |
| Checkpoint queue | WCDB `util/timed_queue.hpp`, `database_config.cpp` 203-229 | paths with times, a thread | commit hook, wait, checkpoint | hook set by a configuration; opens a handle and calls SQLite's checkpoint |
| Write-ahead log | SQLite `wal.c` | the log file, its index in shared memory, the data base file | read, write and checkpoint transactions, recovery | used by every handle |
| Orientation | `AppDelegate.m` 141-180, `UINavigationController+Autorotate` | `isLandscape` | forwarding of rotation questions | pages |
| Share sheet | `Libs/Tools/ActionSheet/ActionSheetView.m` | sheet, blocks, message | show, cancel, share | archive, UMeng SDK, toasts |
| Request envelope | `Libs/Tools/ApiTool/NetParamTool`, `NSString+Json` | none | signing, JSON | launch |
| Toasts | `PublicTool.m`, `MBProgressHUD+Common` | views | show, remove after a second | all |
| Data base of the application | `Libs/Tools/PublicManager/PublicManager.mm` | a lazily opened data base under a lock | `getDB` | the table of pools |
| Helpers | the remaining categories, `NoneNetWorkingView`, `TabBarButton` | none, or a mirror | formatting, layout | |
| Pages | `Class/*` | none: placeholders | | |
| Vendored | the other Pods, the rest of WCDB and SQLite, JSONKit | external | | |

Hard behaviours, and where they bite, are the `hazards` of `PROJECT.json`.  In short:

* **answers in any order** - the loading page and the delegate each send the init
  request, and each answer may replace the root or present the notice;
* **the end of the process between two steps** - an archive of two files that are
  not written atomically; a keychain item that is deleted, then added; a log whose
  frames reach the disk in no order but that of the syncs;
* **two channels for one message** - a notification and a custom message, told
  apart by a flag that a timer sets;
* **state read before a dispatch and used after it** - both back buttons, the
  location prompt;
* **state read without a lock and used later** - a reader's header and mark, a
  checkpointer's header, the list of configurations, the count of a pool;
* **shared mutable data** - one query dictionary for load and save;
* **layouts and touches in any order** - tags bound by a layout, dots piled up by it;
* **one prompt for many requests** - handlers on any thread, each dispatching its own
  answer, and alerts a turn later;
* **a lock that does not know its holder, and two counts of references** - in WCDB;
* **a thread that sleeps until a time that others change** - the checkpoint queue;
* **buffers sized before their content is known** - three times in the encryption;
* **an alert that outlasts what it was about** - the version check.

What makes each modelled part correct is said with its module, in section 3.

## 2. How the parts meet

`ArchiveFile` is the archive of one key down to the single write;
`ArchiveRegister` is what it promises its callers, and `AppLaunch` uses just that:
its variable `archive` takes the values *absent*, *saved* and *torn* of the
register, `KilledWhileSaving` is the register's `Stop` during a save, `ReadTornArchive`
the read that ends the process, `ClearCaches` its `Clear`.  The answers of the server
are the classes that `SystemApi.initWithDict:succ:fail:` tells apart.  The tab bar
and the navigation controllers begin where the launch ends, when
`switchRootViewController` installs them; they share no state with it afterwards.
`VersionCheck` reads the same archive: its `NameVersion` is the save that the launch
makes of an init answer, its `ClearCaches` the register's `Clear`; a torn archive is
left to `AppLaunch`, which reads it first.  `Base64` is the form of what the launch sends and
receives.  Push reception, device identity and the permissions share nothing with the
other parts but the life of the process, which each module models for itself.

Below the application: an object that opens a data base finds its pool in `PoolTable`;
`HandlePool` is one such pool, with the lock `RWLock` as a module of its own that it
extends.  Its configurations are numbered there, since all the pool does with them is to
run them on a handle that has run older ones; `Configs` is what a list of them is.
One of them sets the hook that feeds `CheckpointQueue`, whose `Checkpoint` is, at the
other end, `Checkpoint` of `Wal`.  A handle of the pool is a connection of `Wal`: `OneUser`
of `HandlePool` is what `Wal` takes for granted when it gives each connection one
place at a time.  `SnapshotStore` is what `Wal` promises.

## 3. Modules

Every module names the code of each action in its comments, and `map` in
`PROJECT.json` gives the lines.  Definitions marked "faulty variant" are no part of
a specification; they are mutated forms of the action they precede, to show that a
property can be broken.

### AppLaunch, LaunchGate

State: `proc`, `root`, `netStatus` and `archive` are the code's;
`loadingRequest` and `delegateRequests` count the blocks that AFNetworking still owes;
`banNotice` is the alert; `heard` is a history of the verdicts of this process.
`DidFinishLaunching`, `ReportReachable`, `ReportUnreachable`, `LoadingReply`,
`DelegateReply` and `TapExit`/`ExitAnimationEnds` are the handlers, each with all it
calls (`HearReply` is `SystemApi`'s handler with the succ or fail block it ends in).
`MalformedReply` is an answer on which the handler raises, `Kill` the end of the
process at any time.

`LaunchGate` is what the launch promises seen from outside: off, deciding, in,
barred, leaving.

Properties:

* `RootFollowsVerdicts` - the tab bar is root exactly when some answer admitted;
* `NoticeFollowsDenial` - on the loading page a denied user sees the notice, and nobody
  else does or is thrown out;
* `LoadingAwaitsAnswer` - a loading page without notice has an answer to come;
* `SettledStays` - a settled user is not thrown back to the first page;
* `LaunchResolves` - liveness;
* `ImplementsGate` - refinement, with the gate's fairness, by which a user who accepts the notice gets the process
  ended, although answers may replace the root while the window fades.

### ArchiveFile, ArchiveRegister

One key of `XLArchiverHelper`.  A save is `OpenExpires`, `WriteExpires`, `OpenData`
(which truncates), and `Chunks` times `WriteData`; the process may end between any
two.  All callers wait on `dispatch_barrier_sync` on the main queue, so that calls do
not overlap.  `GetObjectRaises` is the unarchiver's exception, which is raised in the
block of a queue and not under the `@try` of the caller.  `isExpired:` returns NO
whatever it reads.

Properties: `RaiseNeedsDamage` (a read only raises after a save was cut short),
`ImplementsRegister`.  That a read answers the last completed save is the theorem
`SaveSurvives`.

### DeviceIdentity

`getUUID`: `GetUUIDStored` when the keychain answers; else `GetUUIDGenerate` (digest,
then `SecItemDelete`) and `GetUUIDAdd` (`SecItemAdd`, return), between which the process
may end.  `queryData` is the value that a save leaves in the static query dictionary
that load and save share.  What a keychain does with a query that carries keys of
another operation is not in the repository: `refuses` ranges over all combinations of
tolerating and refusing, and every property says for which of them it holds.
`locked` is the time between a reboot and the first unlock, in which a remote
notification (`Info.plist`, `UIBackgroundModes`) may start the process.

Properties: `OneIdPerInstall` (one installation shows the server one device, whatever
the keychain), `IdentitySurvivesReinstall` (with a tolerant keychain).  Both need that
`getUUID` only ran unlocked: before the first unlock the vendor identifier is nil and the
keychain unreadable, and the identifier sent is the digest of a nil text.

### PushReception

`NetworkDidReceiveMessage`, `WillPresent`, `GeTuiSdkDidReceivePayload` are the three
callbacks, `FifteenSeconds` the timer.  Each delivery happens once, at any time, in any
order, or never.  `seen` and `noted` are histories.  `Take` ends with the alert whose
body is commented out, so that "taken" means `pushDict` was set.

Property: `GivenOnce` - a JPush message both of whose deliveries find an active
application in the same mode is given exactly once.  Across the switch of `isJPush` it
may be given twice or not at all, and the code does not try to prevent that; the property
says nothing there.

### TabBar

`ViewWillLayoutSubviews` and `LayoutSubviews` are the layouts of the controller and of
the bar, `SystemRelayout` makes them due again; UIKit delivers no touch before the
layout that is due.  `Touch(b)` goes through `tag[b]`, or to the system's button if that
lies over the bar.

Properties: `SelectionAgrees` (the lit button is that of the child on screen),
`DotFollowsCalls` (a dot is seen exactly while the last call was to show it, however
many views the layouts piled up).

### Navigation

The back indicator (`NavigationBarShouldPopItem`) and the back button
(`BackItemClick`) ask the page, then dispatch a block (`pending`); `RunPopBlock` is the main
queue running it.  In between everything else may happen.  The indicator's block pops
the top, the button's block asks the page for its navigation controller
(`HasNavigationController`).  UIKit keeps a page's `parentViewController` until the transition of an
animated pop has ended: the page is in `departing` from the pop to `TransitionEnds`, and only then does
its block find none.  Touches and blocks during a transition are allowed; UIKit ignores many of the
touches.  `PopTo` is UIKit shortening the stack and the bar following, if its
delegate lets it (`BarIsAhead`).  The same `navigationBar:shouldPopItem:` is defined in
two categories with the same body, so that it does not matter which one is used.

Properties: `BarFollowsStack`, `NeverStuck` (no interactive pop at the root),
`OwnBackStopsAtOwner` (a page's own back button pops below the page only while the page's own transition
is running; a block that comes later pops nothing below).  The exception is real: the block of a second touch
that runs in the transition of the first pops one page more, also one that was pushed meanwhile, and the property
without the exception is violated at the bounds of the run.

### PermissionPrompts

A request is one call of a `get...Permissions:` method.  `GetByStatus` and `GetByAsking` are
the two shapes these methods have (ask the status and then perhaps the system, or always
ask the system), `GetNetworkPermissions` and `GetBluetoothPermissions` the two that differ.
`HandlerCalled` and `NotifierCalled` are the system's handlers, which dispatch a block each;
`RunAnswer` and `RunPresentation` are those blocks on the main queue `main`.  `TopViewController`
is the page on which a refusal's alert will be presented, found a turn of the queue before;
if another alert came up in between UIKit drops it, which `lost` records.
`Decide` is the user's answer to a prompt, `Change` a change in Settings (of what does not
end the process when changed).

Properties:

* `AnswerIsDecision` - all requests for one lasting permission hear the same, the
  user's decision, whichever waited and whichever came later;
* `AnsweredOnce` - no request is answered twice, but by the notifier of the network;
* `NetworkFollows` - what the notifier calls was last called with the restriction in force;
* `DecisionIsTold` - liveness: a request that waits is answered once the user has decided.

The main queue is a queue that also other blocks are in, so that a report of the notifier may
be made between two others that have not run yet: `NetworkFollows` is about their order.

### LocationPermission

`GetAlwaysLocationPermissions` reads the status and dispatches; `BlockRefuses`, `BlockAsks`,
`BlockAnswers` are the branches of the block, which decides with the status that was read.
`DidChangeAuthorizationStatus` is the delegate, which calls the completion in `getLocation` and
keeps it.  The system is what the documentation of Core Location lets it be: it
asks the user only while there is something to ask.  The alert of a refusal is left out, and the
branch without location services is that of the release build.

Properties: `AnswersAreGrounded` (each YES and NO has its ground in a status that was in
force while its request lived), `KeptIsTold` (liveness: the kept completion hears of the
decision).

### Base64

The text form of ciphers.  `EncodeBlock` and `EncodeRest` are the encoder's loop and what follows
it, one turn a step; `DecodeCharacter` and `DecodeRest` the decoder's.
`EncodeSpecialUpDataCharacters`, `SpecialDown` replace + and / by pairs.  `NewDesEncryptStr`,
`NewDesDecryptStr`, `NewNewDesDecryptStr` are the callers; of the cipher itself only the lengths are
modelled (`DoCipher`: a buffer of whole blocks for the characters of the text, a ciphertext of
the bytes with PKCS7 padding).  The reference definition is Base64 as a stream of bits (`Bit`,
`Number`).

Properties: `WritesStayInside` and `CipherFits` (every write is inside a buffer sized before),
`FollowsBase64` (both directions, against the reference), `RoundTrip`.
`CipherFits` speaks of escaped texts: `newDesEncryptStrWithoutEncode`, which nothing calls, has too
small a buffer for three or more Chinese characters, and `DoCipher(FALSE)` shows it.

### VersionCheck

`StartCheckOperate` is the whole check, with `VersionCompare`; `GoToUpdate` and `DoNotRemind` are the
touches on its alerts, `NameVersion` an init answer that is archived while an alert may be
up, `Restart` the next launch, perhaps of another version.  A version that is a number in the
server's JSON does not answer `isEqualToString:`, which `raised` records.

Properties: `AlertsFollowVersions` (exactly the versions after the application's own are shown,
by a reference order), `DeclinedStaysDeclined` (although only one declined version
is remembered).

### RWLock, HandlePool

`RWLock` is the lock of `util/rwlock.cpp` with its two counts, the writers that wait, and
who sleeps on the condition variable.  `LockRead` and `LockWrite` are the calls up to where they
have the lock or sleep; `RetryRead` and `RetryWrite` the loop after a wake, `WakeSpuriously` a
wake without cause.  The mutex inside makes each of them one step.

`HandlePool` extends it.  A thread is in one place (`at`) of the call it makes, and holds or
waits for the lock (`wants`); a step is what the code does to the list, the count, the
configurations or a transaction, each of which is shared, and the read lock keeps none of the readers
from another.  `FlowOut` to `Invoke` is `flowOut` with `generate`, `Release` to `Destroy` is
`flowBack`, `Close` `drain`, `Purge` `purgeFreeHandles`, `CanOpen` to `FillUnlock` `canOpen` and
`fillOne`; `Begin`, `Commit`, `Rollback` are those of `Database`, on the handle that the thread
keeps in `s_threadedHandle`, `Transaction...` those of `Transaction` objects.  Opening, configuring
and `COMMIT` may fail.  As the interface asks of its user, a thread that has a handle
asks for no second one and neither closes nor blockades.

Properties:

* `NoLostWakeup` - nobody sleeps on a condition that holds, although a writer that need not
  wait takes the lock without telling anybody;
* `ClosedIsExclusive` - while a close or blockade has the pool nobody uses a handle;
* `CountIsAlive` - the count is that of the living handles, up to those that a call is just about
  to count or subtract and those it forgot (`leaked`);
* `OneUser` - a handle is in one thread's hands, and in a transaction only there;
* `WriterGetsIn` - liveness: a writer that waits is not kept off by readers for ever;
* `ClosedIsClosed`, `SeparateCloseCloses` - what the interface says of a close; both
  fail (section 7).

### PoolTable

`s_pools` with its counts, and the objects that hold a pool by path or by tag.  A
reference to a pool is counted twice, in the reference of each object (`copies`, `Recyclable`) and
in the table (`count`); `ReleaseReference` and `CountDown` are the two steps of the end of one,
which do not happen under one lock.  `UseMissingEntry` is a count in an entry that is not
there, after which nothing is defined.

Properties: `TableFollowsObjects` (until an object is given up that shares its pool with
one found by tag, the table has exactly the pools in use: an object that is being released while its path
is asked for finds its entry as it left it), `SharedCore` (fails).

### Configs

A call (`CallsOf`) sets one or two configurations.  `setConfig` reads the list (`ReadList`),
builds a new one and assigns it (`AssignList`), and calls of two threads overlap: what the one read
may be gone when it assigns.  `SetWithOrder` and `SetAtItsPlace` are the two versions,
with the source's way of finding the place.  `InvokeList` runs the list on the handle, and what a
configuration has set in it stays set when it leaves the list.  The list is compared by value; the code
compares pointers, which differ only in that it runs an equal list once more.  That two threads
read and write `m_configs`, a `shared_ptr`, without a lock is a data race, which the model leaves out.

Properties: `SmallNumbersInFront` (in every list, whatever overlapped), `FullIsFull` (after
`setSynchronousFull(true)` a handle that goes out writes with full synchronisation, although the basic
configuration asks for normal, whatever else is set), `FullHasNoHook` and `NothingIsDropped` (fail).

### CheckpointQueue

The commit hook (`CommitShort` of a log that is still short, `ReQueue` of one that is long) puts a path
in front of the list with a time; `StartThread` to `StopSleeping` are the thread, which waits for
the list to be filled, takes the time, looks at the last element, and pops it or sleeps until it
expires; `Checkpoint` is what it then does.  Time is a number of ticks: `expires` what is left of
each, `lag` how old the time is that the thread took before it got the mutex.

Property: `RestedIsCheckpointed` - liveness: a data base with a long log that is no longer
written is checkpointed, however often others are queued.

### Wal, SnapshotStore

The write-ahead log, as WCDB sets it up: WAL mode, normal synchronisation, passive checkpoints by
a thread of their own.  The data are abstracted to pages with the number of the transaction that
wrote them; control is kept access by access.  The wal-index is `header`, `aPgno`, `nBackfill`
and `aReadMark`; a connection has a copy of the header (`hdr`), a read lock, the mark it chose and the first frame
that it must look at.

* A reader: `ReadHdr`, `Decide` (the file alone, or the log), `Compare`; or `ChooseMark`, `ShareMark`,
  `SetMinFrame`, `CheckMark` - five accesses between which everything else happens; `Leave` begins anew.
* A writer: `BeginWrite`, `RestartLog` and `Reset` if the whole log has been copied and nobody reads
  it, `WriteHeader` and `SyncHeader` for the first frame, `WriteFrame`, `AppendIndex`, `Publish`;
  `Undo` for a rollback or a failed write.  Pages may be spilled before the commit.
* A checkpointer: `Checkpoint`, `Iterate`, `LookAtMark` and `ObeyMark` for every mark, `SyncLog`,
  `CopyPage`, `Finish`, `Unlock`.
* `Kill` and `PowerLoss`: after the one the files are what was written; after the other of every frame,
  of the log's header and of every page there may be on the disk whatever was written since the last sync,
  a page perhaps torn.  `Recover` reads the log to where its salts and checksums no longer fit.

`SnapshotStore` is a data base that is a sequence of states: who reads sees one of them, the latest when it
began; a commit appends one; a kill loses none, a power loss only what was not synced, and always a
suffix.

Properties:

* `ImplementsStore` - refinement.  What a reader sees is `PageRead` of every page, which looks
  for frames from `minFrame` to its header's last, or into the file: that it does not change while frames
  are appended, pages copied and the log restarted around it is what the protocol of the marks is for;
* `CopiesNothingNewer` - while pages are copied, nobody reads the file alone, and nothing that is copied is
  newer than what any reader reads, although the checkpointer looks at the marks one by one
  while readers choose, move, share and check them;

  both until `outrun`: a checkpointer has gone on with the header of a log that was restarted since it read it;
* `BackfillWithinLog` - what is counted as copied is in the log; fails (section 7).

## 4. Runs

| Run | Parts | Distinct states | Shows |
|---|---|---|---|
| `app` | launch 879, codec 90692, tab bar 2028, navigation 1064, version check 3501 | 98164 | the properties of AppLaunch (with liveness and refinement), Base64, TabBar, Navigation, VersionCheck |
| `device` | archive, identity and pushes 54502, prompts and location 209683 | 264185 | the properties of ArchiveFile (refinement), DeviceIdentity, PushReception, PermissionPrompts and LocationPermission (with liveness) |
| `pools` | pool 459225, configurations 52828, table 32303, checkpoints 1030 | 545386 | the properties of HandlePool, Configs, PoolTable, CheckpointQueue (with liveness) |
| `wal` | two connections, two pages, one crash | 489894 | `CopiesNothingNewer`, and that `Wal` implements `SnapshotStore`, until `outrun` |
| `launch_denied` | launch | | finding 1 |
| `push_answered` | pushes | | finding 2 |
| `pools_closed`, `pools_separately` | pool | | findings 3 and 4 |
| `pool_forgotten` | table | | finding 5 |
| `configs_dropped`, `configs_hook` | configurations | | findings 6 and 7 |
| `wal_stale` | log | | finding 8 |

The first three runs are sums: a behaviour chooses a part in its first state, only that part moves, and
the others rest where they begin.  That is enough because the parts of one run share no variable: in a
product every behaviour would be one of each, interleaved, and none of the properties speaks of two of
them.  `Returned`, `LocationRests` and `Rest` are the steps of a part that has come to an end (a text that has been
decoded; all requests answered and all changes made; all calls made, or nothing defined any more), so that
`CHECK_DEADLOCK` can stay on: everywhere else the system may always go on.  It is off for
`pools_separately`, in which the threads wait for each other by design, and `pool_forgotten`.

The bounds.  All are constants, and stand in the guards of the actions they bound.

* Launch: two requests of the delegate give an answer between two others, and a request that
  is sent while another is answered; a third adds no new order of two events.
* Archive: two values tell a lost save from an old one; two writes make a file empty, short or
  whole, which is all a reader tells apart.
* Identity: three installations let an identifier survive one reinstallation and be lost at the
  next; all eight keychains.
* Pushes: two JPush messages, one unreadable, and one of GeTui, which overwrite each other's
  `pushDict`; messages do not otherwise interact.
* Tab bar: four buttons; three layouts give a button more than one dot view before and after
  one is shown.
* Navigation: a root, a page, a vetoing page of the same class, a web page; two blocks let one run
  after the page it was made for has gone.
* Prompts: two requests for contacts, one for pushes, one for bluetooth, or two for cellular data
  (`Together`): two of the same kind wait for one prompt, one that asks always comes after it, and two notifiers
  answer repeatedly; with two changes a report may overtake another.
* Location: three requests, two of them for always, let one replace the completion of another while a
  third has read its status.
* Codec: data of up to four bytes reach the loop's turn, both remainders and an empty text; five
  characters give the decoder every remainder, a skipped character at any place, and both pairs;
  plain texts of 0 to 9 characters lie on both sides of a block of eight.
* Versions: six, three of them released, that differ in each part, in two parts in opposite
  directions, in the spelling only, and in the number of parts; one is a number.
* Pool: two threads, room for one free handle (`HardwareConcurrency`) and a limit of two
  (`MaxConcurrency`), three handles: a handle comes back to a full list, and two readers that test the count
  at once make a third.  One replacement of the configurations makes a handle old.
* Configurations: two threads, orders 1 and 3 on the two sides of the basic configuration's, three
  calls, so that one may follow two that overlap.  The violation runs allow four; so did `Configs`
  alone (540 thousand states, without an error).
* Table: three objects, two paths of which one may have a second pool, one tag, two copies of a
  reference.
* Checkpoints: two data bases, a delay of two ticks, one tick for the mutex.
* Log: two connections, two pages, two marks besides number 0, three frames, two transactions, one
  crash: a reader with an old mark beside a writer, a log that is restarted, frames of an old log behind those
  of a new one.  Two connections can each be reader, writer or checkpointer.  Where three are
  needed, larger instances without a crash were run once and are no part of the runs: three connections with one mark and two frames
  (704 thousand states, `CopiesNothingNewer`), three connections with two marks and two frames, and three
  transactions (`ImplementsStore`), all without an error.

A writer may restart the log between the moment when a checkpointer reads the header and that when it
uses it; the code takes no lock in between (`wal.c` 3285, 1760).  `RestartLog` does so like any other restart, and
two history variables follow it: `behind` says that this has happened to the checkpointer that is under way, and `outrun` that one has gone
on with such a header (`Iterate` with more frames in its header than are counted as copied back).  What follows then is wrong
(finding 8), so `CopiesNothingNewer` and `ImplementsStore` are stated for the time until `outrun`.  Without that condition both are
violated at the bounds of `wal`: the condition excludes nothing else.  A restart after which the checkpointer finds nothing to do
is within the properties.

## 5. Fairness

`AppLaunch` states weak fairness of the answer to the loading page, of
the answers to the delegate, and of the end of the exit animation.  AFNetworking calls
one of the two blocks of every request, at the latest when the request times out, and a
UIView animation calls its completion.  A raise or a kill may come first; then the process
has ended, which `LaunchResolves` admits.  Nothing is assumed of the user, the network
monitor, or the next launch.  An unlisted device status leaves the loading page for ever
(`SystemApi.m` 43 has no `else`): `LaunchResolves` names this exception.

`PermissionPrompts` assumes that the main queue runs its blocks (`RunMain`) and that the system
calls the handler of each request once the user has decided (`HandlerCalled`); the
network's notifier gets no such assumption, since nothing keeps the object it belongs to.
`LocationPermission` assumes the main queue again and that Core Location tells its delegate of a change.
Neither assumes that the user ever decides.

`PoolFairness`: a thread that is in a call goes on (`Continue`), one that has been woken runs, and what the
interface asks of its user: a handle, a threaded transaction and a blockade are given up one
day, the transaction by a rollback if need be, since `COMMIT` may fail for ever.  Weak fairness of each thread's step is
what an operating system's scheduler gives; the order in which woken threads get the lock is not assumed.

`QueueFairness`: the static thread is made by the hook that began to make it, it runs, and time
passes.

The other modules, `Wal` among them, are checked for safety only: a reader of `wal.c` may have to
begin anew any number of times, and the code only bounds that by giving up (`walTryBeginRead`, cnt > 100).

## 6. Proofs

| Module | Theorem | Property |
|---|---|---|
| StoredProofs | `RaisesOnlyIfDamaged`, `SaveSurvives`, `FilesImplementRegister` | `RaiseNeedsDamage`, `CompletedSaveSurvives`, `ImplementsRegister` |
| | `IdentityTypeCorrect`, `OneIdentifier`, `IdentityKept` | `OneIdPerInstall`, `IdentitySurvivesReinstall` |
| | `PushTypeCorrect`, `GivenOnceAlways` | `GivenOnce` |
| AppProofs | `LaunchTypeCorrect`, `RootIsRight`, `NoticeIsRight`, `NeverForgotten` | `TypeOK`, `RootFollowsVerdicts`, `NoticeFollowsDenial`, `LoadingAwaitsAnswer` |
| | `SettledUserStays` | `SettledStays` |
| | `LaunchImplementsGate` | the safety part of `ImplementsGate` |
| | `BarAgreesWithController`, `DotsAreRight` | `SelectionAgrees`, `DotFollowsCalls` |
| | `DeclinedIsDeclined`, `AlertsAreRight` | `DeclinedStaysDeclined`, `AlertsFollowVersions` |
| | `BarFollows`, `SwipeIsNeverStuck`, `OwnBackIsSafe` | `BarFollowsStack`, `NeverStuck`, `OwnBackStopsAtOwner` |
| PermissionProofs | `TypeCorrect`, `AnsweredOnceAlways`, `DecisionIsAnswered`, `NotifierFollows` | `AnsweredOnce`, `AnswerIsDecision`, `NetworkFollows` |
| | `AnswersGrounded` | `AnswersAreGrounded` |
| Base64Proofs | `BuffersSuffice`, `CipherBuffersSuffice` | `WritesStayInside`, `CipherFits` |
| | `IsBase64`, `DataComesBack` | `FollowsBase64`, `RoundTrip` |
| HandlePoolProofs | `LockIsSafe`, `NobodyIsForgotten` | `NoLostWakeup` |
| | `OneUserAlways`, `ClosingIsExclusive`, `CountIsRight` | `OneUser`, `ClosedIsExclusive`, `CountIsAlive` |
| | `TableIsRight` | `TableFollowsObjects` |
| | `NumbersInFront`, `FullLasts` | `SmallNumbersInFront`, `FullIsFull` |
| WalProofs | `NothingNewerIsCopied` | `CopiesNothingNewer` |
| StoreProofs | `LogImplementsStore` | `ImplementsStore` |
| | `BackfillStaysWithin` | `BackfillWithinLog`, until `outrun`; `wal_stale` shows it violated after that |

They assume the named assumptions on the constants and nothing else, with one
exception, which the theorem states: `ClosingIsExclusive` has the hypothesis that nobody closes
what he has blockaded himself.  The theorems about the log hold of every behaviour of `WalSpec`, with the
history `outrun` in their properties.  Each
follows the same argument: an inductive invariant, shown of the initial states, kept by
every action, one step for each, and closed by PTL.  The invariants:

* `LaunchInvariant` - the properties, strengthened by `NothingSurvives` (a process that
  does not run has no page, request, notice or verdict; without it a verdict of the last
  process would speak about the next) and `HasPage`.
* `InstallInvariant` - what getUUID is adding and what it left in the query are the
  identifier of this installation, the keychain then holds that one or none
  (`OwnIdentifier`), and whatever was issued is held, or will be made again
  (`IssuedIsHeld`).  `IdentityKept` has one of its own, for a tolerant keychain.
* `FileInvariant` - a file is open only in a save and then short and of the value being
  saved; otherwise it decodes to the last completed save unless damaged.
* `PushInvariant` - what was given follows from the modes the deliveries found.
* for the tab bar, what a layout that is done owes to the touches (`LayoutDone`) and how
  many views a button has (`DotsCounted`); for the updates, `UpdateInv`: the archive has the last
  version named (`ArchiveIsLast`), a decline of it is remembered (`LastIsRemembered`), and an alert of an older version,
  while it is up, keeps others away (`OldAlertShields`).
* for navigation, the stack is never empty and holds no page twice, which makes
  a pop to a page well defined.
* `PromptInv` - a block in the queue carries the decision (`QueueInv`), and a request is in one
  of its phases: waiting, in the queue, answered (`RequestInv`); without the queue's part an
  answer could differ from the decision when it is run.  `NotifierInv` adds that the last report of a notifier
  with nothing due is the restriction in force (`LastReport`).
* `LocationInv` - a request, its block and the kept completion live under a status that was in force in
  their life (`LivesUnderStatus`, `CapturedInLife`).
* `CodecInv` - after b blocks the encoder has read 3b bytes and its buffer holds their 4b characters
  (`EncoderInv`, with `Coded` as the character at a place); of the characters of the alphabet the decoder has read,
  the bytes of the whole blocks are in its buffer and the others wait (`DecoderInv`, with `Decoded`); so the room left
  is what the rest of the input needs.  `TextInv` - the text on its way is that of the data, first with the special
  characters (`UpThenDown`: undoing them gives it back), then without the padding.  That `Coded` and `Decoded` are what the
  standard says of bits is shown per block (`CodedIsNumber`, `DecodedIsNumber`), and that each undoes the other per byte
  (`DecodedOfCoded`).  `CipherInv` - the lengths of text, bytes and buffer belong together.
* `LockInv` of `RWLock` - the number of waiting writers is that of the threads that wait to write
  (`PendingCounted`), without which a reader could sleep though nobody keeps it off.  `PlaceInv` - the
  lock's counts are those of the threads whose place in a call holds it, which is where a writer's
  exclusion becomes that of a close.  `UserInv` - places and hands belong together, hands differ, an open
  transaction is in a hand that knows of it.  `CountInv` adds what is between a handle and its count: the
  handles made and not yet counted, those that leave, and those cleared from the list by threads that
  subtract them later, which are counted as pairs of a thread and a number.
* `ConfigsInv` - every list in use is in order, with the basic configuration at 2 and that of
  setSynchronousFull after it (`ListsInv`); a handle that has run a list with full synchronisation in it
  has that (`HandleInv`); and a call by itself has read the list as it is, which holds what was asked
  for last unless the call is about to change that (`AskedInv`).
* `TableInv` - an entry names a pool of its own path (`EntriesOK`), and as long as nothing was
  miscounted its count is that of the objects that hold it (`CountsAreRight`).
* `WalInv` - besides types, and that the history is a sequence: where connections are (`PlaceInv`) and what they hold
  (`LockInv`); that a header, once replaced, never comes back, as its salt or its count of changes is new
  (`FreshInv`); what a writer knows (`WriterInv`); that a mark in use is not beyond its user's header (`MarkInv`);
  that who reads the file alone has all of the log in it unless the header has changed (`FileInv`); and what a checkpoint
  goes by (`SafeInv`): every reader either holds a mark that the checkpointer has yet to look at, or is
  not older than what it takes for safe.  `SafeInv` is the heart: a reader
  that shares a mark the checkpointer has passed is let in only if its header is still the current one, which is at
  least what is safe; and a restart of the log, which would make the header shorter, finds the whole log copied, when no
  checkpoint is under way but one that has yet to look at `nBackfill`.  Such a one has a header of the log or is `behind`
  (`AheadInv`), so that either it does not go on or `outrun` becomes TRUE: `WalInv` is invariant until then.  Nothing in it speaks of the contents of frames or of the hard disk, so that it holds through
  any crash.
* `StoreInv`, with which `WalInv` becomes enough for `ImplementsStore`, does speak of them.  For those who read:
  a page without a frame behind `nBackfill` has its latest content in the file (`BackInv`), a reader with a mark begins
  to look no later than there (`ReadInv`), the wal-index names the pages of the frames (`IndexInv`), and the checkpointer's list of
  last frames is right (`CopyInv`).  For recovery, which after a power loss may meet any choice of what was not
  synced: under each salt that the log's header may have on the disk there is a chain of commits (`DiskInv`) - some committed state b is the
  base, every later state i is the base with the frames up to e[i] on it and e[i] is a commit (`Chained`); the frames of all
  states that must last are synced, and the file has the base wherever these frames have nothing (`Durable`); no choice of
  frames has any other commit that a recovery would accept (`Found`).  `Found` rests on the checksums: every frame carries
  that of its predecessor, so two logs that agree in one frame agree in all before it (`Agree`), as data tell transactions
  apart (`FrameInv`).  What the writer has written is all of one transaction and nothing else is (`DraftInv`, `PenInv`);
  a salt that is not durable has no commit (`SaltInv`, `EmptyInv`); no state is committed twice (`Strict`).
  The base moves up in one case only: a log begun anew, whose whole predecessor is in the file.  A transaction with a commit frame
  that no header tells of yet may survive a crash, so the chain runs over `States`, the committed ones and that draft.

Only model-checked: liveness (`LaunchResolves`, the fairness of the gate,
`DecisionIsTold`, `KeptIsTold`, `WriterGetsIn`, `RestedIsCheckpointed`), since TLAPS proves none under fairness.
Every other property of a run that is to pass is a theorem.  Induction over data, where the proofs need it - the loops of setConfig and of
invoke, the replacement of pairs, the characters kept -, goes through sets: the least number for which a claim fails does
not exist (`Least`, `UpTo`, `DownFrom`), and a loop has a result that every function with its steps shares (the lemma `LoopComputes` of `LoopInduction`, which the other modules cite, and
`BackwardsComputes` for one that is defined from its end).  That is why `Base64` defines `Keep` and `SpecialUp` as functions
of its own: SelectSeq and FlattenSeq are recursive and beyond a proof.

## 7. Findings

1. `launch_denied` - a user who was shown the notice of a disabled account is taken to
   the tab bar by another answer of the same launch (`AppDelegate.m` 559-580).
2. `push_answered` - the completion handler of willPresentNotification is not always
   called (`AppDelegate.m` 339).
3. `pools_closed` - a handle may live in the onClosed block of a close: one that came back to a full list is
   subtracted and destroyed after its read lock was given up (WCDB `core/handle_pool.cpp` 187).
4. `pools_separately` - blockade and then close in one thread, as the example of the interface has it, waits
   for ever (WCDB `core/handle_pool.cpp` 119).
5. `pool_forgotten` - `GetPool(tag)` counts in a copy of the table's entry: two objects of one path may
   have two pools (WCDB `core/handle_pool.cpp` 62-64).
6. `configs_dropped` - a configuration with an order below an existing one replaces the next instead of preceding
   it; so the basic configuration may be lost (WCDB `core/config.cpp` 45-47).
7. `configs_hook` - the checkpoint hook of a handle that was set up before `setSynchronousFull(true)` stays
   (WCDB `core/database_config.cpp` 312).
8. `wal_stale` - `nBackfill` may come to exceed the log's length after a restart under a checkpointer
   that has read the old header (SQLite `wal.c` 1760).  Readers may then see it: without the condition on `outrun`,
   `ImplementsStore` fails at the bounds of `wal` after 44 steps, as a frame of a transaction that was rolled back is copied
   into the data base file.

Seen on the way, without a text of the repository that clearly says otherwise, or out of the reach of a run:

* the two requesters ask the server twice at every first launch, since `netStatus` begins as zero;
* `@try` in `getObject:` catches nothing, because the exception is raised on another queue;
* every layout adds dot views that are never removed, and a dot asked for before the first
  layout is forgotten;
* an identifier made before the first unlock is the same on all devices, and what is not in the
  keychain is taken for a first installation (`MyUUIDManager.m` 48);
* the block of the system's back indicator pops whatever is on top when it runs, also a page
  that was not asked (`UIViewController+BackButtonHandler.m` 88);
* the alert of a second refusal that was created before the first is presented is lost;
* a request for "always" is answered YES by the delegate when the location is allowed in use
  only, which the block would refuse (`CJXPermissionsManage.m` 218);
* an undetermined bluetooth authorization is never answered;
* the application's own version is 1.0 (`Info.plist` 85), which has two parts and so is never
  older than any other; the alert of a forced update is gone after one touch;
* a handle that cannot be configured anew stays in the pool's count (`leaked`): after as many as the limit the
  pool makes none, and `canOpen` never finds it drained;
* two calls of setConfig that overlap undo one another; setConfig:forName: is documented as one with the order INT_MAX
  (WCDB `interface/database/WCTDatabase+Core.h` 99), but keeps the place of a configuration that is there; one with order 0 drops "cipher", after which a
  key that is set comes last in the list;
* `Transaction::runEmbeddedTransaction` locks its own mutex twice (WCDB `core/transaction.cpp` 101-109);
* a thread that asks for a second handle while a writer waits waits for ever; the interface forbids it;
* a release after a pool was forgotten uses an entry of another pool, or one that is not there;
* commits that come more often than every two seconds put off a checkpoint for ever, and a failed one is not tried again;
* the statement of `wal.c` 358-361, that a checkpointer copies nothing beyond a mark that is in use, is not literally true: when all
  marks are taken, a stale reader may set a mark that the checkpointer has already passed, and a reader with the current header
  shares it.  Its own snapshot is newer than what is copied, so that nothing is lost; `CopiesNothingNewer` is what does hold.  (It
  needs three connections with one mark, six with the source's four.)

## 8. Not modelled

* The Pods other than WCDB and its SQLite, and JSONKit: external.  Of WCDB the parts above; its statements, its
  language binding, repair, migration and tokenizers are functions on one handle.  Of SQLite `wal.c`: the parser, the
  virtual machine, the B-trees, the pager's cache and the full-text index make up nearly all of the lines of
  the repository, and are a third party's sequential code whose states are data.  That is why the map covers a small share
  of all lines, and a large one of those of the parts above.
* In the log: the hash tables of the index, changes of the size of the data base, pages written twice by one
  transaction, savepoints, snapshots that are opened again, the FULL, RESTART and TRUNCATE checkpoints, which WCDB does not
  ask for, and the last close.
* `os_wcdb.c`, `queue.c`, `mutex_wcdb.c`: who is woken when a lock of a file is released.  `Wal` takes a lock
  that is held for one that is not had yet, and the busy handler's wait for an attempt that comes later.
* The share sheet: nothing in the repository makes one, and what could go wrong in it (two buttons touched at once, a
  sheet shown again before the last has faded) is decided by the rules of UIKit's animations, of which the source says
  nothing.
* The request envelope: signing and JSON are functions without state; what the launch tells apart of an answer is in
  `AppLaunch`.
* Toasts: a view is removed after a second whatever happens; there is nothing to violate.
* `PublicManager`: a lock around the lazy opening of a data base that nothing reads or writes yet.
* Orientation, as long as `Info.plist` allows portrait alone; the placeholder pages; `TabBarButton`, `NoneNetWorkingView`,
  formatting categories and run-time encoding, which have no state of their own; DES and MD5, which are CommonCrypto's.
* The data race of `Configs` on its `shared_ptr`: its outcomes are those of a memory that is freed while it is used, of
  which a model can only say that anything may follow.
