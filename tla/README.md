# TLA+ models of Ev2W

Ev2W is the port of GNOME Evolution 2.32 to Windows (MinGW64): about 810 000
lines of C in four packages, `evolution-data-server-2.32.3` (mail access,
address book and calendar servers), `evolution-2.32.3` (the user interface),
`evolution-exchange-2.32.3` and `evolution-rss-0-2-5`. This directory models the
parts whose correctness depends on the order in which threads take their turns,
checks the models with TLC and proves what matters most with TLAPS.

Paths below are relative to `src/`; `camel/` stands for
`evolution-data-server-2.32.3/camel/` and `mail/` for `evolution-2.32.3/mail/`.

## 1. The system

### Parts, their state and how they interact

| Part | State | Operations | Talks to |
|---|---|---|---|
| `CamelObjectBag` | two hash tables (key to object and back), reservations with a condition variable | get, peek, reserve, add, abort, rekey, remove, list, destroy; weak notify of GObject | used by `CamelStore` (folders), `CamelSession` (services), `CamelDataCache` (open files) |
| `CamelMsgPort` | queue, pipe and NSPR pipe that mirror it | push, pop, timed pop, reply, descriptors | used by `CamelOperation`, `camel-net-utils`, IMAPX |
| `CamelOperation` | cancelled flag, cancel port, stack of status messages | cancel, uncancel, check, descriptor, start/progress/end | every cancellable read; reports to `mail-mt` |
| `camel-net-utils` | a request shared by caller and lookup thread | getaddrinfo, getnameinfo that can be cancelled | message ports |
| `CamelFolder` | summary, freeze count, batch of changes | freeze, thaw, changed, filter jobs | providers emit, lists and search folders listen |
| `CamelStore` | the folders that are open, in a bag; the Trash made of them | get, create, delete, rename folder | the bag, `CamelVeeFolder`, providers |
| `CamelDataCache` | files of messages, those open in a bag | add, get, remove file, expiry | POP3, IMAP, the bag |
| Dot locks, lock helper, movemail | `.lock` files; a helper process with the list of its locks | lock, refresh, unlock; copy and truncate a spool file | other programs that use the spool file |
| `CamelSession` | services, one worker thread | service lookup, thread queue | filter jobs of folders, `mail-mt` |
| IMAPX | jobs, queued and active commands, the selected folder and the one being selected, IDLE | submit a job, parser thread, idle thread | message ports, summary, `CamelFolder` |
| POP3 | the command being answered, those sent, those queued; retrievals per message | retrieve, delete, quit | data cache, filter driver |
| IMAP, NNTP, SMTP, local | protocol state | provider operations | summary, `CamelFolder` |
| Filter driver, UID cache, `fetch_mail_exec` | the uids already fetched, on disk | fetch, filter, save, delete on the server | POP3, folders |
| `CamelVeeFolder` | members of search folders | change events of sources | `CamelFolder` |
| Offline journal and disco diary | list of operations made offline | log, replay | providers |
| `e-data-book`, `e-data-cal`, backends | clients, views, operation queues, interval tree | D-Bus methods | libebook, libecal |
| `mail-mt` | active messages, two queues, one idle source, error dialogues, hooks | submit a job, report, reply, call the main thread, asynchronous events, wait, cancel | `CamelOperation`, every mail dialogue |
| Message list | the rows shown, a list that is being read | folder changed, regenerate | `CamelFolder`, `mail-mt` |
| Folder cache, send/receive, shell, alarm daemon, composer, widgets, Exchange, RSS | user-interface state | timers, callbacks | client libraries, `mail-mt` |

`PROJECT.json` lists all of them under "components", with what is left out of
each and why.

### What is hard

* **Concurrency.** Camel is called from any thread; locks are held for single
  functions and given up around callbacks and signals. The mailer moves results
  into the GTK+ main thread through queues and idle sources.
* **Failure and cancellation.** A cancellation races with the end of what it
  cancels; a thread cannot be created; a job fails before its start has been
  reported.
* **Ordering.** Changes of a folder are batched, kept back during filtering and
  emitted after locks have been given up.
* **Crashes.** Mail is on the server, in the data cache and in the local inbox at
  different times; spool files and locks are shared with other programs, which
  may die.
* **Protocols.** Commands are sent ahead of the answers to earlier ones, and the
  meaning of one depends on what the server has done with those before it.
* **Lifetime.** Objects leave caches through weak references while lookups go
  on; messages are unreferenced by two threads.

"hazards" in `PROJECT.json` gives the lines where each of these bites and the
property that would notice, or why none does yet.

### What makes each part correct

* bag: one builder for a key at a time; one object per key; tables that are
  inverse to each other; no waiter is left behind.
* operation and lookups: a cancellation reaches whoever waits, and nobody after
  it has been taken back; caller and lookup thread free the request once.
* mail-mt: no message stays in a queue, is used after it is freed or is waited
  for in vain; every activity is completed, every error shown.
* folder: no change is held back without a thaw to come; mail is filtered once;
  the list follows the folder.
* store: Trash has every open folder; a cached folder has a mailbox; threads that
  wait for each other's folders get on.
* IMAPX: a command meets the server while its folder is selected there; client
  and server agree on whose turn it is; each job is answered once.
* POP3 and fetching: a message is never lost, and filed once; a file in the cache
  is what it says.
* locks: one program at a time is in the spool file; a lock that is left behind
  does not stop the mail.

## 2. Modules

    KeyedCache  <--implements--  CamelObjectBag  <-- CamelObjectBagProofs
    CamelMsgPort <-- CamelOperation <-- CamelNetUtils <-- CamelNetUtilsProofs
    CamelObjectBagProofs, CamelStoreFolders <-- CamelStoreFoldersProofs
    CamelObjectBag <-- CamelStoreFolders
    CamelPOP3   <-- FetchMail <-- FetchMailProofs
    CamelLock   <-- CamelLockProofs
    MailMt      <-- MailMtProofs
    CamelImapxServer <-- CamelImapxServerProofs
    CamelFolderChangeInfo <-- CamelFolder <-- CamelFolderProofs

`MC*` modules give the constants values for TLC. Definitions marked "Mutant" in
the modules are plausible bugs; for each checked property there is one that
breaks it.

### CamelObjectBag and KeyedCache (`camel/camel-object-bag.c`)

All functions of the file run under `bag->mutex`, which `g_cond_wait` gives up.
One action is one stay inside the mutex: `Lookup` is get and peek, `Reserve`
and `Resume` are the halves of a reserve or get that had to wait, `Finish` is
add or abort, `Change` rekey or remove, `List`, `Destroy` and `New` the rest.
`SpuriousWakeup` is what a condition variable may do at any time.
`Release` and `Dispose` are `g_object_unref` and the three steps in which GObject
(external) gives an object up: dispose, weak notify, and the second look at the
count. Callers (`camel-store.c`, `camel-session.c`, `camel-data-cache.c`) enter
as preconditions: they end a reservation they own, nest reservations in the
order `Rank`, and pass live objects. `RenameOntoOpen` says whether a rename may
take a name that is in use, as nothing in `cs_rename` prevents.

`KeyedCache` is what the file promises, "keyed hash tables of objects that can be
updated atomically": a key is free, being built by one thread, or bound to an
object that has no other key. `CacheSpec` in `CamelObjectBag` instantiates it
with the object table and the threads that were told to build.

### CamelMsgPort, CamelOperation, CamelNetUtils (`camel/camel-msgport.c`, `camel-operation.c`, `camel-net-utils.c`)

`CamelMsgPort` has the port as a record (queue, and for each pipe whether it is
open and how many bytes it holds; a message knows the pipes it has a byte in)
and push, pop and open as operators. `CamelOperation` has the functions of the
cancellation half, one action each since they hold `operation_lock`, and the
reader whose check, call for the descriptor and `select` are three steps.
`CamelNetUtils` extends it with `cs_waitinfo`: start of the lookup thread, poll,
join, and the thread's own steps.

### MailMt (`mail/mail-mt.c`)

Everything that travels is a message: a job, the reports of its start and end, a
call into the main thread, an asynchronous event, the completion of an activity.
Workers push onto `mainQ` or `replyQ` and in a second step (`kick`) attach the
idle source; `mail_msg_idle_cb` is `mainPc` going through "mainQ", "creating"
(where `op_status_exec` works without `mail_msg_lock`) and "replyQ". A handler of
the user interface may be in `mail_msg_wait` (`waiting`) or in
`mail_async_event_destroy` (`destroy`), both of which go on iterating the main
loop. `Class` tells jobs with a description, jobs without one and jobs of the
session's own pool apart.

### CamelFolderChangeInfo, CamelFolder (`camel/camel-folder.c`, `mail/message-list.c`)

A change info is a record of sets of uids with the rules of
`camel_folder_change_info_add_uid` and its siblings as operators. `CamelFolder`
follows an emission of "changed" through the class handler: `Hold` (frozen: into
the batch), `Inspect`, `ReadFlags` and `ResetFlag` (junk learning, message by
message), then `Deliver` or `Launch` and `Retain` (freeze, then put the changes
back and queue a filter job). `RunJob` and `EndJob` are the session's thread,
`Freeze`, `Thaw` and `LetGo` the folder's. The listener is the message list:
`MainFolderChanged`, `RegenExec`, `RegenDone`.

### CamelStoreFolders (`camel/camel-store.c`, the sources of `camel-vee-folder.c`)

Extends `CamelObjectBag`: each call of the store is a chain of the bag's actions
with the provider's and Trash's steps in between, and `step` says where a thread
is in it. `GetFolder`, `ResumeReserve`, `Open`, `LookUpTrash`, `Join`,
`AddOrAbort` are `camel_store_get_folder`; `ListFolders` and `FillTrash` are
`store_get_special`, which runs in it when Trash itself is asked for.
`DeleteFolder`, `GetCached`, `LookUpTrash` again, `Leave`, `MarkDeleted` and
`RemoveCached` are `camel_store_delete_folder` with `cs_delete_cached_folder`,
`RenameFolder` and `RekeyRenamed` are `camel_store_rename_folder`. `sources` is
what the Trash is made of and `mailbox` what the provider has.

### CamelImapxServer (`camel/providers/imapx/camel-imapx-server.c`)

`is` stands for the `CamelIMAPXServer`: `queue`, `active`, `literal`,
`select_folder`, `select_pending`, the state of IDLE, and `stream`, what is
written and not read by the server. `imapx_command_start_next` is the operator
`CommandStartNext` with its three loops in one (`Startable`), since it is called
under `QUEUE_LOCK` from everywhere. Callers are `Submit`, `StartJob` (one stay
in the lock per command), `CheckStored` and `Return`; the parser thread is
`ReadAnswer`, `ReadAnswerToMore`, `Continuation`, the untagged answers,
`CompleteCommand`, `StartNextCommand`, and after `ConnectionLost` `CancelActive`
and `CancelQueue`; the idle thread is `IdleWake` to `IdleFetch`. `Kind` tells
jobs of one command, of a literal (APPEND), of steps that follow one another
(FETCH of new messages) and of several STOREs apart. `ran` remembers what the
server has carried out.

### CamelPOP3, FetchMail (`camel/providers/pop3/`, `mail/mail-ops.c`, `camel-filter-driver.c`, `camel-uid-cache.c`)

`CamelPOP3` is the engine with the server, the connection and the files of the
data cache: `Issue` (send or queue), `Window` (what may be sent), and the parts
of `camel_pop3_engine_iterate` as one action per line read (`ReadReply`,
`ReadBody`, `ReadRest`, `NextCurrent`, the failures). `FetchMail` is the job
around it: `GetInbox`, per message `GetMessage`, `Awaited` or `Retrieved` and
`FileMessage`, then `SaveUids`, `DeleteMessage`, `Settle`, `FreeCommand`,
`SendQuit`, `Disconnect`; a loop goes through its messages in the order of their
place (`todo`, the least first). A read of the cache may fail, and does when the
operation is cancelled: then the message is retrieved anew or the fetch fails
(`FromCache`, `Retrieved`). `Crash` kills the program and leaves maildrop, cache,
inbox and UID cache as they are; `Cancel` and `Lost` may come at any time.

### CamelLock (`camel/camel-lock.c`, `camel-lock-helper.c`, `camel-lock-client.c`, `camel-movemail.c`)

`Link`, `Stat`, `RemoveStale` are the loop of `camel_lock_dot` in a helper,
`Touch` its refresh and `Exit` its end when the program is gone; `AskLock`,
`Answered`, `Unlock` are the client's calls, `Copy` and `Truncate` the rest of
`camel_movemail`. `Tick` is the time in which a lock grows old; it does not pass
a helper that has a lock to refresh, a request to answer or a program to follow.

## 3. Runs

| Run | Instance | Checks |
|---|---|---|
| `bag_safety` | 3 threads, 2 keys, 2 objects, symmetric | one builder, inverse tables, live objects, counted waiters, no lost wake-up, implements `KeyedCache` |
| `store_folders` | 2 threads that open 2 folders and Trash, 1 that creates, deletes and renames, 4 objects | Trash complete, cached folders have mailboxes, no standstill, waiters get out, a reservation finds its next owner |
| `operation` | 2 threads (one on each pipe), 2 messages | pipes in step, uncancel silences, lookups meet and end, descriptor wakes |
| `mail_mt` | 3 jobs (described, undescribed, session's), 1 event, pool of 1, 3 actors | queues served, no use after free, no lost activity, calls, waits and destruction end |
| `folder_changes` | 2 threads and the session's, 2 messages, 3 changes | nothing held back, freezes balance, filtered once, list misses nothing, comes to rest |
| `imapx` | STORE, APPEND and a FETCH of two steps, one job that nobody waits for, 2 folders, `MAX_COMMANDS` 2 | commands run in their folder, selections agree, wire in step, answered once and when done, all answered |
| `fetch_mail` | 3 messages, 2 commands at a time, 2 ahead, 1 crash | cached files are whole, no mail lost, filed once, send window, every fetch ends |
| `lock` | 2 programs, 2 messages, 2 tries, stale after 2 refreshes, 2 crashes | exclusive, mail kept, mail picked up |
| `folder_changes_reordered` | as `folder_changes`, symmetric | **violated**: `ListFollowsFolder` |
| `imapx_answered_early` | a job of two STOREs, fault "earlyAnswer" | **violated**: `AnsweredWhenDone` |
| `fetch_mail_lost` | 2 messages, fault "append" | **violated**: `NoMailLost` |
| `lock_recursive` | 2 threads of one program, fault "again" | **violated**: `UnlockedInTheEnd` |

A constant `Faults` or `Races` names the rare orders and errors for which the
code breaks one of the properties. The passing runs have it empty: they show
that nothing else does. What each fault does is said at the action that asks for
it, and below.

### Bounds, and why they are enough

* Bag: the third thread is the one that overtakes a woken waiter or disposes
  while two others race for a key; two keys are needed for nesting and rekeying,
  two objects for an address that is used again. Nothing else is bounded.
* Operation: `MaxQueue` bounds surplus "cancel all" messages; two are enough for
  a message that no pipe knows of to lie before one that has a byte.
* MailMt: `Bound` (an action constraint) lets at most `MaxActors` = 3 of the
  following happen in a behaviour: each job submitted, a failure, a
  cancellation, a call, a wait, the events, their destruction. So every pair
  and triple of them interleaves in full. It holds back no step that is under
  fairness. Each job is submitted once.
* Store: an address is used once (disposal is the bag's run); four objects are
  two opens of a name, one of the other, and Trash. One thread that deletes and
  renames is enough, since `CAMEL_STORE_FOLDER_LOCK` lets one at a time.
* IMAPX: each job is submitted once, so behaviours end; new mail (`Growing`) may
  come to one of the two folders as often as it likes. Three jobs in two folders
  make a SELECT wait for a literal and for another folder's pipeline; with
  `MAX_COMMANDS` 2 the limit is met.
* FetchMail: with three messages and `Limit` 2 there is one command being
  answered, one sent and one queued. `MaxCrashes` bounds kills and failures to
  save, not cancellations, lost connections or reads of the cache that fail.
* Lock: `Stale` in units of the refresh is 12 in the code (60 s and 720 s are
  `CAMEL_DOT_LOCK_REFRESH` and `CAMEL_LOCK_DOT_STALE`); 2 leaves room for a
  refresh to come too late by one. `MaxCrashes` is 2 so that a lock can be left
  behind twice.
* Folder: `MaxChanges` bounds changes to messages, not freezes, emissions or
  jobs. With three changes a message can come, be flagged and go while another
  emission is on its way, which is what the violation needs. A thread freezes
  the folder once at a time; nesting comes from two threads and from jobs. The
  ghosts `handed` and `unlearnt` stop counting at 2 and -1. The safety properties
  hold with four changes too (2.1 million states); the theorems have no bound.

### Fairness, and why the code justifies it

* Bag: only that a woken thread gets the mutex back (`WF` of `Resume`). Nobody
  is obliged to call, to finish a build or to drop a reference; the liveness
  properties are conditional accordingly.
* Operation: `CancelFd` and `Interrupt`, as a thread goes on from its check and
  `select` returns for a readable descriptor, not `Data`, since data may never
  come. In `CamelNetUtils` the resolver returns some day and the poll,
  join and worker steps are taken.
* MailMt: the main loop goes round (`MainThread`) and a pool thread that has
  bookkeeping to do does it (`Work`). The code of a job need not end.
* Folder: an emission that has begun goes on, the session's pool runs what is
  queued, the main thread handles events. Nobody has to change or thaw the
  folder; `SettlesDown` is conditional on the threads having thawed it.

* Store: a thread inside a call goes on with it (`WF` of `Inside`); nobody has
  to make a call. The provider answers or fails.
* IMAPX: callers and the parser thread run, and the server answers while there
  is a connection. Neither the idle thread nor new mail nor a loss is assumed.
* FetchMail: the job runs (`WF` of `Job`), and the server answers what reaches it
  (`WF` of `Server`). A server that is silent for ever on a connection that
  stays up makes the code wait for ever.
* Lock: processes and time go on, and a thread that could ask for the lock again
  and again does so in the end (`SF` of `AskLock`): accounts are checked
  periodically (`auto_timeout` in `mail/mail-send-recv.c`). It has to be strong,
  since deliveries and other programs come in between.

Deadlock is checked except where the instance comes to an end: in `mail_mt` and
the IMAPX runs the jobs are submitted once, and in the lock runs all mail may
have been picked up. There "nobody waits for ever" is a property
(`CallsReturn`, `WaitEnds`, `JobsAnswered`, `MailPickedUp`).

### What the violated runs show

1. `folder_changed` puts what it launches into the batch behind later changes:
   added after removed becomes changed, and the list keeps a message that is
   gone (`camel-folder.c:868`).
2. The count of a job's outstanding STOREs is not locked: the job is answered
   when the first is done before the second is queued
   (`camel-imapx-server.c:4607`).
3. A message that could not be appended to the local inbox is deleted on the
   server (`camel-filter-driver.c:1630`).
4. A lock that the helper has already is granted under a wrong id and never
   given back (`camel-lock-helper.c:126`).

### Also noted

Found with the models, and reproducible by stating the property in a
configuration with the constants named here:

* `camel_object_bag_rekey` onto a key in use frees a key that the other table
  goes on using, and leaves the old object in one table
  (`camel-object-bag.c:426`): `bag_safety` with `RenameOntoOpen = TRUE` violates
  `TablesInverse`. `cs_rename` (`camel-store.c:734`) does not ask whether the new
  name is open: `store_folders` with `RenameOntoOpen = TRUE` and
  `Races = {"rename"}` gets there, and with the race alone violates
  `CachedHasMailbox`, as a folder opened during a rename is not rekeyed.
* A lookup between disposal and weak notify resurrects an object, which then is
  taken out of the bag: two objects live for one key (`camel-object-bag.c:99`;
  `OneObjectPerKey`, without symmetry).
* A thread that opens a folder may look for Trash before another has put it into
  the bag, and that one have listed the bag before the folder is in it: the
  folder's deleted messages are not in Trash (`camel-store.c:481`;
  `TrashComplete` with `Races = {"trash"}`).
* A cancellation between a reader's check and its request for the descriptor is
  not in the new pipe (`camel-operation.c:402`; `CancelWakesWaiters` under
  `FairSpec` of `CamelOperation`).
* A reply that is handled before the report of its job's start finds no activity:
  the error dialogue is never shown, and stays registered, so that later errors of
  that kind are dropped (`mail-mt.c:286`; `NoForgottenError` with two described
  jobs). An alert activity
  that expires leaves its dialogue registered as well ("expired" in `MailMt`).
* `mail_async_event_destroy` removes the source of a pending event and then waits
  for the event (`mail-mt.c:679`; `DestroyReturns` with `DestroyPending = TRUE`).
* Two emissions read the learn flag of a message before one resets it
  (`camel-folder.c:826`; `ReportedOnce`): the message is learnt twice.
* With a list that hides nothing (`Hides = FALSE`) a message that is added,
  removed and added again in one batch is never shown, because the batch calls it
  changed (`ListMissesNothing`).
* A message that is removed and added again in one batch, of a search folder that
  drops it and takes it back, reaches the list as changed. If the list has its row
  it only redraws it; a reading of the folder that began in between is not
  cancelled, and its end takes the row away for good (`message-list.c:3661`;
  `ListMissesNothing` with `Races = {"redraw"}` and `MaxChanges = 4`).
* IMAPX: when the connection is lost under a SELECT, its completion sets the
  state of the server back to INITIALISED, so that jobs are accepted that no
  thread will answer (fault "selectLost", `JobsAnswered`;
  `camel-imapx-server.c:2460`). The idle thread fetches from `select_folder`
  without a lock when it may be NULL (fault "folderGone", `:2258`: the state
  becomes "CRASHED").
* POP3: a cancelled operation that gives up in the middle of a message leaves its
  rest on the stream, where it is read as the reply to the next command and may
  be cached as another message (fault "shift" with `Limit = 3`, `CachedIsOwn`;
  `camel-pop3-engine.c:303`). `-ERR` to LIST or UIDL is taken for an empty
  maildrop and empties the UID cache, so that everything is filed again (fault
  "refused", `FiledOnce`; `camel-pop3-folder.c:279`).
* Locks: two helpers that find a lock stale at the same time may remove the one
  the other has just made (fault "steal", `ExclusiveLock`; `camel-lock.c:129`).
  When the helper dies the client returns `STATUS_PROTOCOL`, 1, as the lock id,
  and the spool file is copied and truncated without a lock (fault "helper",
  `ExclusiveLock`; `camel-lock-client.c:192`). Read and not modelled: a temporary
  file that has vanished makes `camel_lock_dot` remove a lock that is not its own
  (`camel-lock.c:112`), and a helper that is asked without pause never refreshes
  (`camel-lock-helper.c:318`). A program killed between copy and truncation files
  its mail twice; nothing says it does not.
* Read and not modelled: `mail_cancel_all` calls its hooks with `mail_msg_lock`
  held (`mail-mt.c:392`); `camel_operation_start` passes on its message after it
  has given up the lock (`camel-operation.c:476`); `cs_getnameinfo` built with
  `NEED_ADDRINFO` returns without a reply (`camel-net-utils.c:765`); with
  `CAMEL_STORE_FOLDER_EXCL`, which no caller passes, `camel_store_get_folder`
  aborts a reservation it does not have (`camel-store.c:446`).

## 4. Proofs

Proved for all values of the constants (any number of threads, keys, messages,
jobs, crashes). "Without" names the faults or races of section 3 that the theorem
leaves out: with them TLC refutes it, but for those in parentheses.

| Theorem | States | Without |
|---|---|---|
| `CamelObjectBagProofs!TypeCorrect` | `TypeOK` | |
| `WaitersAreSafe` | a reservation counts its waiters and is not freed under them | |
| `SignalSuffices` | no wake-up is lost | |
| `BuildersExclude` | one builder per key, and no object while it builds | `RenameOntoOpen` |
| `TablesAgree` | the tables are inverse to each other | `RenameOntoOpen` |
| `LookupsAreLive` | what the bag hands out is alive | `RenameOntoOpen` |
| `BagIsCache` | every step of the bag is one of `KeyedCache`, or none | `RenameOntoOpen` |
| `CamelNetUtilsProofs!TypeCorrect` | `TypeOK` of an operation and its lookups | |
| `PipesCountMessages` | the bytes in the pipes of a port are those of its messages | |
| `UncancelIsSilent` | `camel_operation_uncancel` leaves nothing of a cancellation | |
| `RepliesAreFound` | caller and lookup thread find each other's reply, and free nothing twice | |
| `PortsNeverBlock` | no function of a port waits for a byte that is not there | |
| `MailMtProofs!TypeCorrect` | `TypeOK` | |
| `QueuesAreServed` | no message is left in a queue without someone to see to it | |
| `NothingUsedFreed` | no message is used after its last `mail_msg_unref` | |
| `ActivitiesEnd` | each activity that was made is completed or will be | |
| `CamelStoreFoldersProofs!StoreUsesBag` | the store's steps are steps of `CamelObjectBag`, so that the bag's theorems hold of it | `RenameOntoOpen` |
| `StoreIsCache` | the folders of a store are a `KeyedCache`, whatever the store does around its bag | `RenameOntoOpen` |
| `CachedFoldersExist` | a folder in the bag has a mailbox | and `"rename"` |
| `TrashIsComplete` | Trash is made of every open folder and of no deleted one | `RenameOntoOpen`, `"trash"` |
| `SomeoneGoesOn` | `SomeoneReady`: while a thread is inside a call, one has what it needs to go on | (`RenameOntoOpen`), `"rename"` |
| `CamelLockProofs!MailIsKept` | mail in the spool file is in it, or copied | `"helper"`, `"steal"` |
| `LockIsExclusive` | one thread at a time, of whatever program, is in the spool file | also `"again"` |
| `LockIsGivenBack` | a helper whose threads are all idle does not keep the lock | also `"again"` |
| `FetchMailProofs!TypeCorrect` | `TypeOK` of the job and the engine | |
| `WindowIsKept` | no more is sent than the server takes before it must be read from | |
| `StreamInStep` | the lines that are read are those of the command they are read for | `"shift"` |
| `CachedFilesAreOwn` | a complete file of the cache holds its message, all of it | `"shift"` |
| `MessagesFiledOnce` | a message is filed once, and once more for each crash | `"shift"`, `"refused"` |
| `NoMailIsLost` | a message that has come is in the maildrop or in the inbox | `"shift"`, `"append"` |
| `CamelImapxServerProofs!TypeCorrect` | `TypeOK` of server, jobs and threads | |
| `EachInItsFolder` | a command reaches the server while its folder is selected there | (`"selectLost"`) |
| `SelectionsAgree` | client and server mean the same folder | (`"selectLost"`) |
| `StreamInStep` | literals and DONE are sent when they are due, and nothing in between | (`"selectLost"`) |
| `EachAnswered` | a job is answered once, when its commands are over, and without an error only if all were carried out | (`"selectLost"`), `"earlyAnswer"` |
| `EachIsServed` | `NoneForgotten`: while a job is waited for, the parser thread has something to do or the server something to answer | `"selectLost"`, (`"earlyAnswer"`), a priority of -128 |
| `CamelFolderProofs!TypeCorrect` | types, and no uid is filed twice | |
| `FreezesBalance` | the freeze count is that of the thaws to come | |
| `BatchesMoveOn` | no batch is held back without a thaw to come | |
| `MessagesFilteredOnce` | recent mail goes through the filters once | |
| `ListIsComplete` | at rest the list has every message, if it hides some | `"redraw"` |
| `ChangesCompose` | concatenated changes stand for applying them one by one, if a message that comes back was there before | |

**Assumptions.** The named `ASSUME`s of the modules, and no other: finitely many
threads and jobs, null values distinct from the rest, bounds that are natural
numbers, the session's thread distinct from others, callers that delete or rename
anything but Trash, an order of nested requests with Trash last (whoever opens a
folder asks for Trash, and whoever makes Trash for nothing, `camel-store.c:482`),
an address for a first folder. None excludes an order of steps. `MaxCrashes` and the like are
any natural numbers, so the bounds of the runs are none of the theorems.

**The bag.** `WaitInv` (a thread has a key to wait for exactly while
it is inside the wait, a reservation counts exactly the threads waiting on it,
threads wait on reserved keys only, an unowned reservation has a woken thread)
is inductive together with `TypeOK` and gives the first three theorems.
`ObjectInv` follows objects: a thread that is told to build owns the reservation
and the key is empty (`OwnedIsEmpty`, `HoldsIsOwner`), an object that is bound
carries the weak reference or its disposer is about to run the notify
(`BoundIsWatched`, `DyingIsCounted`), keyed objects are alive or being disposed
of (`KeyedAreLive`), and objects held outside the tables are unwatched
(`TakenIsUnwatched`). None of the checked invariants is inductive by itself: that
the tables are inverse depends on an address not being used again while the old
entry is there, and that on who holds references.

**The store.** `StoreSpec` takes many of the bag's actions with steps of its own,
so the bag's invariant `IInv` is kept as soon as each of them is shown to be
one of the bag's, with its preconditions: the key a thread adds or aborts is one it
reserved (`PlaceInv` ties the place of a thread in its call to `holds` and to what
it looks for). `MailboxInv` says who may lack a mailbox: the names of the one
thread that has `CAMEL_STORE_FOLDER_LOCK`, between its step at the provider and
its step at the bag. `TrashInv` says which folders Trash may miss: those whose deleter is about
to take them out of the bag (`DeletedLeaves`); and that a Trash about to be added is
complete (`TrashMade`), a folder about to be added in it, or no Trash in the making
(`TrashJoined`).

That nobody waits in a circle takes all of this and `GoInv`: a thread has reserved
the key whose folder it makes and no other, and whatever it takes out of the bag or
renames it has a reference to (`AtGo`); there is room for Trash until it is made
(`TrashHasRoom`). A thread that waits for a key then waits for a builder of it or for
one that has been woken, which is what `NoLostWakeup` of the bag says; a builder
waits for nothing but Trash, since no place but the look-up of Trash is both one of
building and one of waiting; and the builder of Trash waits for nothing
(`WaitingIsMet`). `Ready` says of each place what a thread there needs, so the
theorem is a state property; that `Ready` means ENABLED is the other half of
`NoStandstill`, and TLC's. With `"rename"` there is a rekey that the
bag's model does not describe, of a folder that is not in `key_table` or onto a name
that is reserved: the model stops there, where the code warns or goes on.

**Operation and lookups.** `PipesInStep` alone fails at the pop, which may wait
for a byte; `NetInv` adds that without the flag the port is empty
(`FlagOfMessages`), that a thread is inside a lookup only while it has a worker
(`HasWorker`), and `LookupsMeet`. That no function blocks is a theorem of its own
because it is a guard in the model: without it the guard might hide a
deadlock with `operation_lock` in the hand.

**MailMt.** `QueueServed` is inductive by itself: `kick` remembers that a thread
has pushed and not yet seen to the source. The lifetime of messages needs to know
who refers to a job at each place of its life (`LifeOfJobs`), that replies and the
activity that is being made belong to jobs that are alive (`RepliesAlive`,
`CreatesForJob`), that a call is answered once (`CallsCounted`), and what an idle
source may do next (`IdleKinds`). `NoLostActivity` is inductive with these: the two
that may end an activity, `op_status_exec` and the last unref, each see what the
other has left.

**Locks.** Only a helper that answers or grants has the lock (`HelperHas`), there is
one, and the lock file is as old as its last refresh (`FileOfHolder`), which `Tick`
keeps below `Stale` by not passing a helper that is due. A thread in the spool file
has its helper's lock, and the one that knows the right id gives it back only when
the count says so (`LockHeld`, `Counted`). `Copied` adds what
is in the file between copy and truncation. A thread that asks again
(`"again"`) breaks the exclusion of threads (`OneAtATime`) but not the mail.

**Fetching.** Four invariants, each on top of the one before or of the first.
`EngineInv` is about the engine alone: the window (`SendWindow`), that a finished
command is neither sent nor queued (`Counted`), what it reads (`ReadsData`),
and that errors end the loops (`ErrorsSeen`, `LoopsGoOn`). `CacheInv` says that the
wire holds the answers to what is sent, in order, or that the connection is spoiled
for good (`Aligned`), and that every retrieval in flight belongs to a file that is
marked as incomplete (`Retrieving`, `CommandsKnown`, `FileReady`). `OnceInv` counts
the filings of a message against the crashes that excuse them (`Filing`,
`Excused`) and needs to know that QUIT comes last. `LostInv` carries
"deleted only if filed" from the inbox through `keep` and the command to the server's
mark (`KeptFiled`, `DeletesFiled`, `FiledFirst`): the deletion happens at QUIT, many
steps after the message was filed.

**IMAPX.** The three properties say what the server will make of a stream that
the client has written long before, so the invariant (`StreamInv`) ties both ends
together. While the parser thread reads they are `Connected`: each command is in
one place (`Apart`), what is on the stream is active (`Sent`), the rest of a
command comes first if it is due (`Wire`), a literal command is the last one
(`Literal`), the states of IDLE say which commands there are (`IdleState`), the
selection is what the client believes it to be or one SELECT is under way
(`Selecting`), commands of folders run in the selected one (`InFolder`), and a job
that goes on does so with a new command (`Fresh`). After the connection is lost
they are `Disconnected`: nothing is sent any more, and no SELECT is waited for.
Without the latter (`"selectLost"`) the state of the server goes back to
INITIALISED and there is a client that sends to nobody; the proof leaves that out,
though TLC finds the three properties to hold there as well. Lemmas state what
`imapx_command_start_next` does to the queues (`StartNextIs`), on facts about
sequences that the library does not have (`KeepIs`, `InsertIs`, `RemoveIs`).

`AnsweredWhenDone` compares a counter that several threads write with commands that
lie in the queue, on the stream or in the parser's hand. `AnswerInv` follows each job:
its counter is the number of its commands that are outstanding, of all places
together (`Counted`, which needs `Apart`); how many it has issued, whether it has been
answered and where its thread is agree (`Placed`); and as long as it has no error, each
command it issued is outstanding or carried out (`CarriedOut`). To this comes that what
the parser thread completes as successful has been carried out (`CompletedRan`, from
`Connected`), and that nobody is still issuing commands when the thread begins to fail
those of a lost connection (`AllIssued`). Nothing in the code keeps a job from being
answered while it still issues commands: without `"earlyAnswer"` excluded, which is
what gives `AllIssued`, the theorem is false, as `imapx_answered_early` shows.

`NoneForgotten` is what is safety in `JobsAnswered`: nothing that a caller waits for is
left where no step leads on. `AnswerInv` finds a command of the job somewhere, and
`MoveInv` says of each place that it is not forgotten there: what is active is on the
stream or waits for more (`AllSent`), and nothing is queued behind an empty stream when
the parser thread goes back to reading (`Moves`). That is the work of
`imapx_command_start_next`, which may decline to start a command for seven reasons: a
literal, a SELECT under way, an IDLE to stop first, active commands of another folder, the
limit, a duplicate, a priority. With the first four something is on the stream, or DONE is
put there (`StartNextMoves`, by the parts of `Connected`); the others cannot hold back the
first command when none is active (`QueueStarts`). The
loop starts from the priority -128 (`camel-imapx-server.c:908`), and a command of a job
that asked for -128 has less in its later steps: it would wait for ever. The
least priority in the code is -120 (`:222`), so the theorem assumes that all are above
-128 (`HighEnough`); TLC finds the job that is forgotten when one is not. That the thread and the server then
take their steps is the fairness half, and TLC's.

**The folder.** `NothingHeldBack` alone fails at `Retain`, where the
batch grows: that the folder is frozen then is known only because the freezes are
counted. `FreezeInv` adds `FreezesBalanced`, with the launched emission as one of
the things that hold a freeze, and `TypeOK`, which keeps a queued job distinct
from no job. `OnceInv` follows a recent message: until it is handed to the filters
it waits in one place, an emission, the batch or a job (`InOnePlace`), and no
emission keeps anything when it is over (`Calm`). `ListInv` says why the list may
lack a message: something still tells of it (`Told`), or the folder is about to be
read or has been read with it (`Covered`). A uid that a change info has filed stays
filed, whatever it is filed as (`CatIs`): the list goes by that alone, which is why
the reordering that `folder_changes_reordered` shows can leave a row too many
but never one too few. Both rest on `NothingHeldBack` when everything is quiet.

**Only model-checked.** All liveness (fairness is beyond the prover), and the half
of `NoStandstill` of the store which is about ENABLED: that a thread with all it
needs (`Ready`) can take a step.

## 5. What is abstracted or left out

* Keys, messages and uids are model values; texts, priorities and progress
  percentages are left out.
* The bag: the copies that key functions make; memory as such. A freed key is
  the value `Freed`.
* CamelOperation: the stack of status messages, blocking; CamelMsgPort: the timed
  pop and destruction.
* camel-net-utils: what the resolver returns; the branch built with
  `NEED_ADDRINFO`.
* MailMt: cancel hooks, priorities, `mail_msg_wait` outside the main thread
  (nobody calls it there), `mail_async_event_destroy` from inside an event.
* CamelFolder: messages that are hidden by their flags (the flags of the model
  hide none), `g_signal_stop_emission` stopping another thread's emission,
  handlers of offline and search folders, several regenerations at a time.
* CamelStoreFolders: Junk, `CAMEL_STORE_FOLDER_EXCL`, subfolders that a rename
  takes along, closing folders (the bag's disposal), folder lists and
  subscriptions; the messages of Trash.
* CamelImapxServer: connecting and dispose, the data of answers, equal jobs that
  are merged, writes that fail. Two commands of one STORE job are only in the
  run `imapx_answered_early`.
* CamelPOP3, FetchMail: connecting, logging in, LIST and UIDL as commands of
  their own, memory in place of a cache file, `camel_pop3_delete_old`, filter
  rules, expiry of the cache; a line of a message that looks like a reply.
* CamelLock: fcntl and flock locks, the helper's second attempt as root, several
  spool files per program. The helper's `unlink` and `link` are atomic.
* Everything marked `not_modelled` in `PROJECT.json`, with the reason there:
  mostly parsers, widgets, generated code and, for now, the parts of the plan.

## 6. Plan

Done, in order of importance: the bag and what it promises; operations and
lookups; mail-mt; folder changes; the store's folders on top of the bag; IMAPX;
POP3 and fetching mail; locks.

Next, should the project grow:

1. `CamelDataCache` on top of the bag: expiry and removal of files being
   written (`camel-data-cache.c:495`). To check: a stream that is busy is never
   the stream of an unlinked file that others open anew.
2. `EDataBookView` and `EDataCal`: operation queue and views; the interval tree
   as operators against a definition over small sets.
3. `CalDavSlave`: the synchronising thread, its commands and its lock.
4. `CamelVeeFolder` on `CamelFolderChangeInfo`; `CamelOfflineJournal` with
   replay after a crash; `CamelBlockFile`'s write order; send/receive, alarm
   queue and the shell's way to quit.

Completing what is there: the status stack and blocking of CamelOperation, the
`NEED_ADDRINFO` branch, the cancel hooks of mail-mt, nested waits.

Theorems worth proving next: refinements of MailMt and of FetchMail, to a job that is
executed, completed and freed once, and to an inbox that messages are moved to.
