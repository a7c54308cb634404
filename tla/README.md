# A TLA+ development of AppChat

AppChat (`src/AppChat/AppChat`, about 2000 lines of Swift) is a chat application
for iOS. It has no server of its own: the phones read and write a Firebase
Realtime Database and a Firebase Storage bucket through the vendored Firebase
client (`src/AppChat/Pods`). There are no tests. What makes the program correct
is therefore spread over callbacks: completion blocks of writes, observers of
paths, upload tasks, timers and table updates, in whatever order the network
lets them run. The first half of these modules describes that.

The second half describes the storage engine the client brings along,
`Pods/leveldb-library`. When persistence is switched on, the database client
keeps its pending writes and its cache in it (`APLevelDB.mm`); AppChat leaves
persistence off, so nothing in the first half depends on the second. It is
modelled because most of the executable C and C++ of this repository is there,
and because threads, crashes, I/O errors and the order of writes meet in it.

## 1. The system

### 1.1 The data the phones share

| path | written by | read by |
|---|---|---|
| `user/<uid>` | `register.handleregister` | message list title, list cells, `newmessage`, `didSelectRowAt` |
| `mess/<key>` | the three senders of `chat_logmessage` | `get_message_2`, `get_message_user_partner` |
| `user-mess/<uid>/<partner>/<key>` | completion blocks of text and image sends; removed by a deletion | the same two readers |
| `user-mess/<uid>/<key>` | completion block of a video send | nobody (see 5.2) |
| bucket `Chat_image:…`, `movie:/…`, `Image_Avatar:/…` | uploads | `load_image`, `AVPlayer` |

### 1.2 Components

| component | source | state | operations | talks to |
|---|---|---|---|---|
| Sending | `Controller/chat_log_message/chat_logmessage.swift` 173-192, 397-511; `Design/Mess.swift` | `user` (the partner), uploads in progress, text field | send text, pick image or video, upload completions, completion blocks of the write | write connection, storage, session |
| Message list | `messagecontroller.swift` | `message_dictionary`, `array_mess`, table, `timer`, observers | profile event, partner and key events, message fetch, timer, delete, open chat, log out | database observers, Sending (opens it), session |
| Session | `Controller/register_login/login.swift`, `AppDelegate.swift`, `Pods/FirebaseAuth/…/FIRAuth.m` | `currentUser`, navigation stack, auth listeners | sign in, sign out, forced sign-out, listener called, relaunch | every component reads `currentUser` |
| Recipient choice | `Controller/newmessage/newmessage.swift` | `arrayUser` | account observed, row selected, cancel | Sending |
| Registration | `Controller/register_login/register.swift` | form, `imagedata`, four chained calls | create account, put avatar, get URL, set profile | auth, storage, write connection |
| Chat log | `chat_logmessage.swift` 23-64, 249-391; `cell_collection.swift` | `array_message`, observers, cells, players | message events, cell configuration and reuse, play, zoom | database observers, image cache |
| Image cache and list cells | `Design/viewui.swift`, `Design/Cell.swift` | `image_Cache`, images of reusable cells | load, download done, cell bound to a message | — |
| Write connection | `Pods/FirebaseDatabase/…/FPersistentConnection.m` | connection state, interrupt reasons, retry, token fetches, `listens`, requests in flight, `outstandingPuts`, `putsToAck` | put, listen, unlisten, purge, interrupt, resume, token fetched, connection opened, lost, refused, each answer | server, token provider; every write and observer of the application goes through it |
| LevelDB write path | `leveldb-library/db/db_impl.cc`, `VersionSet::LogAndApply` and `Recover` of `version_set.cc` | log, tables, MANIFEST, `CURRENT`; `writers_`, `mem_`, `imm_`, `bg_error_` | write, flush, compaction, deletion of obsolete files, open | the environment's files, versions, memtable, log |
| LevelDB versions | `db/version_set.cc`, `db/db_impl.cc` (`DoCompactionWork`, `CompactRange`) | files of each level, `compact_pointer_`, snapshots | get, pick a compaction, move a file, compact, manual compaction | write path |
| LevelDB memtable | `db/skiplist.h`, `db/memtable.cc` | links of the list, `max_height_` | insert, seek, step, beside each other | write path, iterators |
| LevelDB log | `db/log_writer.cc`, `db/log_reader.cc` | `block_offset_`; position, `resyncing_`, `eof_` | append, read, resume inside a file | write path (log and MANIFEST) |
| LevelDB iterators | `db/db_iter.cc`, `table/merger.cc`, `table/two_level_iterator.cc` | directions, saved key and value | seek, first, last, next, previous | memtable, tables |
| LevelDB table cache | `db/table_cache.cc`, `util/cache.cc` | reference counts, hash table, both lists | find, insert, release, evict, prune | tables, write path |

The rest of `Pods` is third-party code the application does not change; it is
listed in `PROJECT.json` as not modelled, and enters the modules only as the
behaviour the application can observe.

### 1.3 What is hard, and what makes each component correct

* **Sending.** One message is three writes with a callback in between, each
  repeated after a connection loss, on phones that may be killed anywhere. A
  reader must never follow an index entry to a missing message, the two lists
  must not diverge in the wrong direction, a repeated write must not change a
  stored message, media must be there when the message is, and what was sent
  must arrive.
* **Message list.** Three nested observers pile up with every change of the
  profile, answers come in any order, the table is refreshed late by a timer,
  and a deletion carries a row number across an asynchronous call. Rows must be
  unique per partner, the table must never be longer than the array it indexes,
  nothing may stay unreported, and conversations must come back.
* **Session.** The account can disappear under a running screen; listeners are
  added at each appearance of the login screen and never removed. Whatever the
  order, a signed-in user must end up in the application and not at its login.
* **Registration.** Each of four calls can fail after the previous ones took
  effect, and the session changes while they run; the profile must go to the
  account it was made for, with a picture that exists. Readers cast the profile
  with `as!`.
* **Chat log, cells, image cache.** Views are reused while downloads, players
  and observers still refer to them.
* **Write connection.** Losses, interruptions, token errors and refusals arrive
  at any point of opening a connection. The client must never stop trying, must
  repeat writes in their order, and must complete each once, in order, although
  completions are held back while a listen is unanswered.

* **LevelDB write path.** One writer writes for several; it gives up the mutex
  for the log, and a background thread flushes, compacts and deletes files
  meanwhile. Any file operation can fail, and the process or the machine can end
  between any two. What was acknowledged must be there afterwards as far as its
  options promise, no file that is still needed may go, sequence numbers must
  stay unique, and nobody may sleep for ever.
* **LevelDB versions.** `Get` stops at the first level that has the key. Each
  flush, move and compaction must therefore leave newer entries above older
  ones, and may drop an entry only if neither a snapshot nor a lower level
  needs it.
* **LevelDB memtable, log, iterators, cache.** A list read without a lock while
  it grows; records cut into fragments at block ends and read back from files
  that were cut short or damaged; an iterator turned round between any two
  entries; a table freed by a count while several threads look it up.

`PROJECT.json` lists the hazards line by line under `hazards`.

## 2. Modules

| module | what it is |
|---|---|
| `Messaging` | the core: session, chat screens, uploads, the write queue of each phone, the database and the bucket |
| `MCMessaging` | instances of it: one or two phones, symmetry, two bounds on messages beside uploads |
| `MessagingProofs` | type correctness, and the index, storage, media and list-order invariants, proved |
| `Inbox` | the message list of one account |
| `MCInbox` | its instance: two partners, clocks that disagree |
| `InboxProofs` | its four invariants, proved |
| `WriteQueue` | abstract: what the database client promises of writes |
| `PersistentConnection` | `FPersistentConnection.m`, which implements `WriteQueue` |
| `MCPersistentConnection` | its instances: a permanent observer and a query read once |
| `ConnectionProofs` | the connection's states, listens and next steps, its writes, and that it implements `WriteQueue`, proved |
| `Account` | login, registration, the auth listeners, readers of a profile |
| `MCAccount` | its instance: one account that exists, one that is created |
| `AccountProofs` | types, `ProfileComplete` and `SessionOnScreen`, proved |
| `DurableStore` | abstract: what the engine promises of writes, crashes included |
| `DBImpl` | the write path, background thread and recovery, which implement `DurableStore` |
| `MCDBImpl` | its instance: three concurrent calls, symmetry |
| `DBImplInvariants` | the inductive invariants of `DBImpl` |
| `DBImplProofs` | who works, which files are there, who is woken, that the database opens again with every write it acknowledged, and that it implements `DurableStore`, proved |
| `Levels` | what the memtables and the files of each level hold, and what `Get` finds |
| `MCLevels` | its instances: ranges of manual compactions |
| `LevelsProofs` | no shared keys, no hopping entries, and right answers, proved for automatic compactions |
| `OrderLemmas` | least and largest numbers, induction, finite ordered sets and their listing: what the engine's proofs share |
| `SkipList` | an insertion beside a reader without a lock |
| `LogFormat` | writer and reader of a log cut short or damaged |
| `Iterators` | the database iterator over a memtable and a table of blocks |
| `TableCache` | the cache of open tables under several threads |
| `TableCacheProofs` | reference counts, the two lists, and what follows from them, proved |
| `MCStructures` | one instance for the last four, one after the other |

`Messaging` uses the part of the write connection an application sees: one queue
per phone, repeated from its start after a loss, answered in order. That this is
what the client's connection really does is the subject of
`PersistentConnection`. `Account` and `Messaging` share the session; `Messaging`
takes accounts with a profile for granted, `Account` shows when that is wrong.

The engine is divided by what a property has to see. In `DBImpl` a table or a
log is the set of entries in it, so that crashes and files are the subject; which
entry hides which is the subject of `Levels`, where nothing crashes in the middle
of a step. Both take for granted that a list, a log, an iterator and an open
table do what they promise, which is the subject of the other four.

### 2.1 `Messaging` and the code

State. `up`, `screen`, `currentUser` describe a phone; `partner` and `user` a
`chat_logmessage` instance (`user` is nil until the profile arrives); `job` the
uploads of the picker; `used` the keys `childByAutoId` returned; `puts` is
`FPersistentConnection.outstandingPuts` with the server's answer attached to
each write; `mess`, `userMess`, `userMessFlat` and `storage` are the remote
stores; `reconnects` counts connection losses up to a bound. An object of the
bucket is a `Picture` or a `Movie` under a number drawn when its upload starts;
the two never share a name, but a number may be drawn twice. The accounts that a
picture's name also contains are abstracted: whoever asks for a picture has just
put it.

| code | actions |
|---|---|
| `login.move` and the listener of `islogined` | `SignIn` |
| `handlelogout`; forced sign-out (`FIRUser.m` 1337) | `SignOut`; `RevokeSession` |
| `newmessage`/`messagecontroller` `didSelectRowAt`, profile observer, Back | `OpenFromNewMessage`, `OpenFromInbox`, `ProfileLoaded`, `LeaveChat` |
| `send_data_to_Firebase` | `SendText`, `SendTextCrash` (`user!`) |
| image picker and `upload_image_chat_to_firebase` | `PickImage`, `PutDataDone`, `ImageURLDone`, `ImageURLFailed`, `ImageURLCrash` (`user!`) |
| `upload_video_to_firebase` | `PickVideo`, `PutFileDone`, `MovieURLDone`, `ThumbnailCrash`, then the image's actions |
| completion blocks | `AckMessage` (text, image), `AckVideo`, `AckCrashFrom` (`fromID!`), `AckCrashTo` (`toID!`), `AckOther` (error: return; index writes; deletions) |
| deletion of a row | `DeleteConversation` |
| `putInternal`, `restoreState` | `WriteMessage`, `Reconnect` |
| the server | `ServerAccept`, `ServerDeny` in the order of the queue |
| failed `!`, the system | `Die`, `Kill`, `Relaunch` |

The order of the code is kept: the movie's errors are printed and the handler
goes on, the image's errors end it, sender and recipient are read when the
upload ends, the index writes are issued by the completion block from the
captured values. Writes on the wire survive the death of the app until
`Relaunch`, so the server may still answer them. The text, the timestamp, the
draft in the text field and drawing are abstracted.

### 2.2 `Inbox` and the code

`appeared`, `observed` and `fetching` are the three nested observers of
`get_message_2`; `message_dictionary`, `array_mess` and `timer` have the code's
names; `shown` is what the table knew at its last update, which is what
`deleteRows` compares with the data source; `deletions` are the `removeValue`
calls with the row their block captured. `ProfileEvent` is
`setupnavigationitem`: one event is the first report, further ones happen only
when somebody changes the profile, so fairness asks for the first alone. Every
later profile event registers the observers once
more; since they act alike, a second observer of the same path is represented
by the events it delivers again. An account has finitely many partners
(`MessagesAssumption`), as every list in memory has.

### 2.3 `PersistentConnection`, `WriteQueue` and the code

The variables carry the names of the Objective-C properties. `scheduledRetry`
is the block the retry helper holds, with the `forceRefresh` it captured;
`fetches` are token fetches whose callback has not run; `realtime` is the
`FConnection`; `requests` are the entries of `requestCBHash`, in the order they
were sent, a write with the decision the server has taken on it; `current` says
whether a listen's callback still finds its own `FOutstandingQuery` in
`listens`. `refused` remembers that the server refused the token and no new one
was fetched since. `log` is the server's.

| code | actions |
|---|---|
| `open`, `resumeForReason`, `interruptForReason`, `onKill` | `ResumeForReason`, `InterruptForReason` |
| `reachabilityCallback`, `enteringForeground` | `NetworkOrAppBack` |
| `tryScheduleReconnect`, its block, the fetch's callback | `TryScheduleReconnect` (helper), `RetryFires`, `TokenFetched`, `TokenError` |
| `onReady`, `restoreAuth`, `sendAuthAndRestoreStateAfterComplete` | `OnReady`, `AuthAccepted`, `AuthRefused` |
| `restoreState` | `RestoreState` (helper): listens in dictionary order, then writes in the order of their keys |
| `onDisconnect` | `OnDisconnect` (helper) in `ConnectionLost`, `InterruptForReason`, `AuthRefused` |
| `refreshAuthToken`, `onAuthRevokedWithStatus` | `RefreshAuthToken`, `AuthRefused` |
| `listen`, `unlisten`, `onListenRevoked`, callback of `sendListen` | `Listen`, `Unlisten`, `ListenAnswered` |
| `putInternal`, callback of `sendPut`, `ackPuts`, `purgeOutstandingWrites` | `Put`, `PutAnswered`, `AckPuts` (helper), `PurgeOutstandingWrites` |
| the server | `ServerDecides` |

`WriteQueue` is the promise: writes complete at most once, in the order of
issue, `ok` only when the server applied the write, and the server applies none
after its completion unless it was cancelled. The refinement mapping is
`issued <- putCounter`, with `log` and `completed` under their own names; what
is outstanding, deferred or on the wire is the implementation's business.

Assumptions. The observer of the own profile is permanent and not refused, as
in the application, and there are finitely many listens (`ListensAssumption`). Requests of a lost connection that the server had not
decided are never decided later: the next connection names the last session
(`lastSessionID`), which ends the old one. Requests of one kind are answered in
order. The application runs no transactions and no `onDisconnect` operations,
so those parts of the class stay empty.

### 2.4 `Account` and the code

A login screen is the list of its listeners, and a listener is the account it
was last called with (the auth client calls it again only for another one);
`Fresh` is one whose first call still waits for the main queue. `notified` says
that no change of `currentUser` waits there. A registration is one request that
goes through its steps: `create`, `put`, `url`, `set`.

| code | actions |
|---|---|
| `islogined`'s listeners, `FIRAuth.m` 1251-1290 | `Notify`, `NotifyFresh` |
| `login.move`, `handleregister` | `Ask`, `SignInDone`, `CreateUserDone`, `PutDataDone`, `DownloadURLDone`, `ProfileStored`, `RequestFailed` |
| `movetoregister`, `register.move`, Back | `OpenRegister`, `OpenLogin`, `LeaveRegister` |
| `handlemovetonewmesssage`, `handlecancel`, `handlelogout` | `OpenNewMessage`, `Cancel`, `Logout` |
| a message sent from `newmessage` | `Send` (its effect on both lists) |
| the list cell's `as! NSDictionary` | `RowCrash` |
| forced sign-out; the system | `RevokeSession`; `Kill`, `Relaunch` |

`CreateUserDone` reads the avatar's path from the text field when the callback
runs (`register.swift` 307), so it is any e-mail the user has typed by then,
while the profile's e-mail is the one captured at the start. Each call may fail,
also after the server did what it asked, and a profile on the wire may be stored
after the app has ended. Pushing a screen and its `viewWillAppear` are one step;
the `handlelogout` that the list's `viewDidLoad` performs in the background is
one step with the push of that list.

### 2.5 `DBImpl`, `DurableStore` and the code

The directory is `logs`, `tables`, `manifests` and `current`, where a log and a
descriptor know how much of them is synced. The variables of `VersionSet` and
`DBImpl` follow with the code's names (`last` is `last_sequence_`, `group` the
number of writers whose batches the leader is writing). `flush` and `compact`
say how far `CompactMemTable` and `DoCompactionWork` are; `pinned` are tables of
a version an iterator holds. `recovering` are the logs still to be read, oldest
first; `FilesAfter` is the version after each record of a descriptor, so what
`Recover` finds is its last value; `Over` and `Single` are maps from file numbers.

| code | actions |
|---|---|
| `Write` up to its wait | `Write` |
| `MakeRoomForWrite` | `WriteRejected`, `WriteHasRoom`, `WriteWaits`, `SwitchMemTable`, `SwitchFailed` |
| `BuildBatchGroup`, `AddRecord`, `Sync`, the answers to the group | `GroupSize` (helper), `AppendLog`, `AppendFailed`, `SyncLog`, `SyncFailed`, `FinishWrite` |
| `CompactMemTable`, `WriteLevel0Table`, `LogAndApply` | `StartFlush`, `FlushBuilt`, `FlushInstalled`, `FlushFailed` |
| `BackgroundCompaction`, `DoCompactionWork` | `StartMove`, `StartCompaction`, `CompactionBuilt`, `CompactionInstalled`, `CompactionFailed`, `BackgroundNothing` |
| `DeleteObsoleteFiles` | `DeleteObsoleteFiles` (helper), in every step that calls it |
| `NewIterator` and its release | `Pin`, `Unpin` |
| `~DBImpl` | `Close`, `Closed` |
| `DB::Open`, `NewDB`, `Recover`, `RecoverLogFile` | `NewDB`, `Recover`, `RecoverLogFile`, `OpenWritesManifest`, `OpenSetsCurrent`, `OpenReturns`, `OpenFails` |
| the system | `ProcessCrash`, `MachineCrashes` |

A crash of the process leaves the files as they are; a crash of the machine
leaves of each log and descriptor any prefix that contains what was synced. A
failed operation may or may not have had its effect.

`DurableStore` is the promise: a call is pending, answered or lost with its
caller; an acknowledged write stays unless the machine crashes and it was not
asked to be synced; a call that failed or was cut off may be stored or not, and
is decided by the next restart. The refinement maps its contents to what a `Get`
would see while the database is open, and to what recovery would bring back
otherwise.

Assumptions. `reuse_logs` is off (its default) and `prev_log_number` 0, as in
every database this version writes. Operations on the directory are durable in
their order. After a torn record nothing more is read, because all a run writes
fits one block; `LogFormat` treats longer files. Manual compactions are in
`Levels`; the writer's sleep of one millisecond changes nothing and is left out.

### 2.6 `Levels` and the code

A write is named by its sequence number; a memtable and a file are sets of them.
Sizes are left out, so what the code decides by size is a choice: when a
memtable is full, which level is compacted, where an output is cut, whether
inputs are widened, whether a file may move.

| code | actions |
|---|---|
| `Write`, the switch of the memtable | `Write`, `SwitchMemTable` |
| `Version::Get`, `ForEachOverlapping` | `Get`, `FromLevel` (operators) |
| `GetSnapshot`, `ReleaseSnapshot` | `GetSnapshot`, `ReleaseSnapshot` |
| `CompactMemTable`, `PickLevelForMemTableOutput` | `CompactMemTable`, also during a compaction (`db_impl.cc` 921-932) |
| `PickCompaction`, `SetupOtherInputs`, a file chosen by seeks | `StartCompaction`, `MoveFile` |
| `DoCompactionWork`, `IsBaseLevelForKey` | `FinishCompaction` |
| `CompactRange` | `CompactRange`, `ManualCompaction` |
| closing and opening | `Reopen` (the memtables become files of level 0) |

`SplitKeys` says whether an output may end between two entries of one user key,
which the code allows when a snapshot keeps both.

### 2.7 `SkipList`, `LogFormat`, `Iterators`, `TableCache` and the code

* `SkipList`: an insertion sets one link per step (`NoBarrier_SetNext`,
  `SetNext`), a reader follows one link per step, and `max_height_` may be read
  old or new.
* `LogFormat`: `AddRecord` cuts a record into FULL, FIRST, MIDDLE and LAST
  fragments; `ReadPhysicalRecord` and `ReadRecord` read them from the start or
  from an offset. A header has 3 bytes and a block 8 in place of 7 and 32768. A
  checksum is taken to notice the one damaged byte.
* `Iterators`: `DBIter` over `MergingIterator` over a memtable and a
  `TwoLevelIterator`, each with its direction, with one insertion at any point
  into the memtable being read.
* `TableCache`: `FindTable` is a lookup, the opening of the file without a lock,
  and an insertion; each operation on the `LRUCache` is one step because it is
  done under its mutex. One shard, every table with charge 1; an entry's handle
  can be used again once it is freed.

## 3. Runs

| run | instance | properties | result |
|---|---|---|---|
| `messaging_text` | 2 phones, 2 accounts, 1 key, 1 connection loss, 1 deletion, refusals, kills | `TypeOK`, `IndexRefersToMessage` | hold |
| `messaging_media` | 1 phone, 2 keys, 1 upload at a time, 2 numbers for names, upload errors, kills | `MediaBeforeMessage`, `IndexRefersToMessage` | hold |
| `messaging_delivery` | 1 phone, 2 keys, 1 upload, 1 connection loss, kills, fairness | `Delivered`, `StoredMessageStable`, `RecipientListedAfterSender` | hold |
| `inbox_table` | 2 partners, 3 messages, 2 profile events, 2 deletions, refusals | `TypeOK`, `OneRowPerPartner`, `TableWithinArray`, `TableCatchesUp`, `ConversationShown` | hold |
| `connection_writes` | 1 permanent listen, 1 single read, 2 writes, 2 events, interruptions, purges, fairness | `TypeOK`, `StateAgrees`, `NeverStranded`, `UnackedListensCounted`, `WritesConserved`, `LaterWriteWins`, `KeepsWritePromise`, `EveryPutCompletes` | hold |
| `connection_refresh` | 1 permanent listen, 2 events | `RefreshedOnReconnect` | violated |
| `account_session` | 1 phone, 2 accounts, 2 requests, 4 screens, 1 kill or forced sign-out | `TypeOK`, `SessionOnScreen`, `ProfileComplete` | hold |
| `account_rows` | 1 phone, 2 accounts, 2 requests, 3 screens | `PartnersHaveProfiles` | violated |
| `leveldb_writes` | 3 calls, groups of 2, a memtable of one entry, 2 files of level 0 trigger a compaction and stop writers, 2 troubles | `TypeOK`, `AnswersKept`, `Reopens`, `SequencesUnique`, `NeededTablesExist`, `SleeperIsWoken`, `KeepsStorePromise` | hold |
| `leveldb_levels` | 3 keys, 4 writes, at most 1 deletion (of the middle key), 3 levels, 1 snapshot, restart or manual compaction of one key | `ReadsAgree`, `LevelsDisjoint`, `NewerAbove` | hold |
| `leveldb_boundary` | 2 keys, 4 writes, 3 levels, 1 snapshot, outputs cut anywhere | `NewerAbove` | violated |
| `leveldb_structures` | cache: 2 threads, 2 tables, 4 handles, capacity 1; list: 4 keys, 2 levels; log: 3 records; iterator: 2 keys, 1 insertion | `HeldTablesOpen`, `NothingLeaks`, `ListsAgree`, `ListOrdered`, `NothingMissed`, `ReadsBack`, `IteratorAgrees` | hold |

**Why the bounds are enough.** One key already lets the whole life of a message
(write, loss, retransmission, acknowledgement, both index writes, deletion)
interleave with a second phone; two keys add writes of different messages in
one queue. One connection loss reaches every point at which
an answer can be lost; a second adds only a loss during the retransmission,
which the proofs of section 4 cover for the safety properties. Numbers of objects
are drawn at random in the code; two of them let a video's movie and thumbnail,
and the uploads that follow each other, draw the same one or different ones. Two
messages of one partner and equal or inverted clocks are what sorting and
grouping can tell apart; two profile events are the first registration and one that repeats it.

`MaxEvents` of `PersistentConnection` counts what disturbs a connection (losses,
refusals, token errors, changed tokens, interruptions, purges, withdrawn
listens): two of them meet at every pair of points of opening, restoring and
answering, and a second loss finds the repetitions of the first. Two writes are
what order is about, and two listens let one be answered while the other still
holds completions back. In `Account` two requests are a registration with a
sign-in or another registration beside it; four screens hold a login, a
registration, a second login and what a late listener opens on top
(`MaxScreens` bounds what the user opens, not what listeners open).

`messaging_media` needs its second key: a chat opened from the list, before the
partner's profile is known, presupposes a message that is there already. It
needs no connection loss, since a repeated write names the same media and
participants, and no refusal, which `messaging_text` has; the theorems cover
both, and any number of uploads. Its uploads draw a second number only
while no second message was written, and a second message is written only while
no second number was drawn (`OneNumberOrOneMessage`): two numbers are about the objects of one message, two
messages about their participants.

`messaging_delivery` has two texts in one queue or a message beside an upload
(`TextsOrUpload`); the three writes of a picture carry the sender and partner
read when its upload ended. The bound cuts off only sends and the steps of
uploads, of which fairness asks nothing. The run leaves out refusals and
deletions because a refused or deleted entry is legitimately missing from a
list. `Delivered` exempts messages whose sender's app was killed: nothing in the
code repeats their writes.

`leveldb_writes`. Three calls are a leader, a follower in its group and one that
is left for the next group. With a memtable of one entry every further write
switches it, so three writes give a memtable being flushed, one being filled and
two files of level 0, which is what a compaction and a stopped writer need. Two
troubles are a failure and the crash or the recovery it meets. `MayTear` is off:
5.3 says what happens with it.

`leveldb_levels`. Three keys give a file that overlaps two others which do not
overlap each other; four writes give files on all three levels; three levels are
a source, a target and a base level. Hazards of a deletion, a snapshot, a
restart and a manual compaction need one of each; the deleted key is the middle
one (`Deletable`), so that files may lie on both sides of it. `leveldb_structures`: capacity
1 makes every second table evict the first, four handles let both threads hold
one of each; three records of sizes 0 to 12 in blocks of 8 fill a block exactly,
leave less than a header, and span three blocks; 4 keys on 2 levels put an
insertion before, at and after every position of a reader.

**Deadlock** is checked in the runs of `Messaging`. The others switch it off: a
list with no message to come, or an app that crashed, is a proper end, and a
connection, an account or a database comes to rest when the bounds are used up.

**Fairness.** `Messaging`: weak fairness of the server's answer and of the
completion blocks, taken together per phone, because a phone handles one
connection's answers in order on one queue; nothing is assumed of the user.
`Inbox`: weak fairness of each callback on the main queue, and of the own
profile being reported once. `PersistentConnection`: the retry timer fires, the
token provider and the server answer, and an open connection gets through its
handshake; nothing is assumed of the application, so `EveryPutCompletes` has the
premise that the connection is not interrupted for good. `Account` and
the modules of LevelDB state safety only; what would be liveness of its writers,
that no sleeping writer is forgotten, is the invariant `SleeperIsWoken`.
Connection losses are finite in number because of their bound.

## 4. Proofs

The theorems hold for every value of the constants that satisfies the
assumptions of their module; in `Messaging` that is any number of phones,
accounts, chat instances, uploads, keys and connection losses.

* `MessagingProofs!TypeCorrect` — `Spec => []TypeOK`. One lemma per group of
  actions; the recurring step is that a queue stays a sequence of well-formed
  writes under append, tail, an answer and the loss of all answers.
* `MessagingProofs!IndexInvariant`, `IndexSafe` — `IndexRefersToMessage` is not
  inductive: whether an index write may take effect depends on what is queued.
  `IndexInv` adds what each queued write relies on (`Agrees`): the message a
  queued index write points to is stored with these two participants, a queued
  message's key was handed out, and what is stored under it, or queued under it
  elsewhere, is that same message. A retransmission then rewrites what is there.
* `MessagingProofs!StoredIsFinal` — `Spec => StoredMessageStable`, from
  `IndexInv`: only `StoreMessage` writes `mess`, and `Agrees` says what.
* `MessagingProofs!MediaSafe` — through `MediaInv`, which follows an upload: a
  URL is asked only of an object that was put, so a queued message's media are
  in the bucket, which never shrinks.
* `MessagingProofs!SenderListedFirst` — `RecipientListedAfterSender`, through
  `OrderInv`, which speaks of positions in a queue: nothing queued was refused or
  deletes, what the server acknowledged is in the lists, and a write to the
  recipient's list either has the write to the sender's list before it or finds
  that one already in effect. A lost connection takes the answers away but never
  the order, and an app death takes a whole queue. The theorem assumes `~MayDeny`
  and `MaxPendingDeletes = 0`, as the run that checks the property does: a
  refusal of one write, or a conversation the sender deletes, takes an entry away
  from one list only, so the property is not meant of those executions.
* `InboxProofs!OneRowEach`, `RowsExist`, `ReloadPending`, `InboxTypes` — the
  three invariants of the list hold each other up, and `InboxInv` adds that the
  dictionary keeps a message under its own partner (`OwnMessage`): otherwise two
  entries would be one row, and a fetched message could shorten the array below
  what the table shows. That rebuilding never shortens it is a statement about
  cardinalities, which is why the partners must be finitely many.
* `ConnectionProofs!StatesAgree`, `ListensCounted`, `ClientNotStranded` — one
  invariant, `ControlInv`. It adds to the three properties that a client which
  waits for a token has the fetch of its last attempt under way (`FetchAwaited`),
  without which a late answer could be taken for the awaited one and leave
  nothing to come. The counter of unanswered listens is related to the requests
  in flight by counting positions of a sequence that is filtered, extended and
  cut.
* `ConnectionProofs!WritesAreConserved`, `LaterWritesWin`,
  `ConnectionTypes`, `ImplementsWriteQueue` — `WritesInv` follows a write. The
  state of a connection is restored once (`RestoredOnce`); writes are sent and
  decided in the order of issue (`SentInOrder`), all outstanding ones are on the
  wire once the state is restored (`AllSent`), everything answered was issued
  before what is on the wire (`AnsweredBefore`), and a write answered `ok` was
  applied, with no earlier one after it (`OkApplied`); what is
  completed, deferred and outstanding is, in this order, what was issued
  (`Conserved`). Completions are deferred only while there is a listen, and one
  that stays will be answered (`ObserverStays`, `NothingHeldBack`). With this
  invariant each step of the connection is a step of `WriteQueue` or a stutter,
  which is the refinement the run checks as `KeepsWritePromise`.
* `AccountProofs!ProfileCorrect` — `Spec => []ProfileComplete`, for any number of
  phones, accounts, requests and screens that satisfy the assumptions of
  `Account`. The profile is the last of four calls, so `RegistrationInv` adds
  what each step has achieved: from `put` on the account exists, at `set` the
  picture is stored. Everything a phone and its user do leaves this alone.
* `AccountProofs!SignedInLeavesLogin`, `AccountTypes` — `SessionOnScreen`
  speaks of the moment when every listener has been called. `SessionInv` says
  what is true before: `Settled`, that a login on top of the stack, or below a
  registration that was opened there, has a last listener that was told of no
  account yet (`Awaits`), and that without a notification on its way every
  listener knows the current account or is still to be called. A login whose
  listeners had all heard of the account could otherwise stay on top.
* `DBImplProofs!TablesAreThere`, `SleepersAreWoken`, `OpensAgain`, `DBImplTypes`
  — three invariants on top of each other. `ControlInv`: a leader is the head of
  the queue, the background thread has one job, nobody works on a database that
  is down or closing. `FilesInv`: wherever a reader of the descriptor may have to
  stop (`StopsAfter`: behind what is synced after a crash of the machine, at the
  end otherwise, or at a torn record), the tables it then names are stored;
  numbers in use have been handed out; unless there was an error the
  descriptor and the version in memory name the same tables. This is what makes
  the order of `LogAndApply`, `DeleteObsoleteFiles` and `SetCurrentFile` right,
  and `NeededTablesExist` alone does not say it. `AwakeInv`: while there is work and
  no error the thread is scheduled, so the leader that sleeps on it is woken.
  `OpensAgain` assumes `~MayTear`, as its run does, because `Recover` refuses a
  descriptor with a torn record that is not its last; the others hold with torn
  appends too.
* `DBImplProofs!SequencesAreUnique`, `AnswersAreKept`, `ImplementsStore` — what
  the logs, the memtables and the tables contain, for any number of calls,
  groups, files, crashes and errors, and the refinement of `DurableStore` that
  the run checks as `KeepsStorePromise`. They need four more invariants.
  `QueueInv`: nobody is in the queue twice, all in it wait for an answer, and a
  group has a sync write only if its leader is one (otherwise an answered sync
  write would not be in the synced part of the log). `WholeRecords`: no record
  of a log is torn. `JobInv`: what the background thread is about to install
  contains exactly what it replaces. `StoreInv` has these parts:
  - `UpStore`, of a running database: everything stored was answered, except the
    group that its leader has taken to the log (`Settled`, `InGroup`); a memtable
    is backed by its log as far as a crash owes it (`Owed`: a sync write in the
    synced part), and the frozen one by a log that the descriptor still names or
    by its table, *wherever a crash may cut the descriptor* (`Stops`).
  - `KeptInv` and `LastInv`: from each of these points recovery finds every
    write it must (`Found`), and a number above all it finds in tables.
  - `DownStore`, `OpenStore`, `EmptyInv`: while `DB::Open` works, the tables of
    the version and of the logs already read, with the logs still to be read, are
    what the old descriptor leads to; so neither the new descriptor nor the
    switch of `CURRENT` nor a crash between them changes what the database shows.

  From this each step leaves what is shown (`Shown`) alone, except the answer to
  a group, which adds the group, and a restart, which is the one step with a
  real case distinction: what was neither synced nor in a table may be gone if
  the machine crashed, and what was never answered may be there. The three
  theorems assume `~MayTear`, as the run does: 5.3 says what happens otherwise.
  TLC found no violation of the invariant in 1,325,835 distinct states before it
  was proved.
* `TableCacheProofs!CacheInvariant`, `HeldSafe`, `LeakSafe`, `ListsSafe` — an entry
  is freed when a count reaches zero, so no property is inductive: `CacheInv` adds
  what the counts count (`Counted`: the references of an entry are its holders
  and, if it is cached, one of the cache's own; an entry is allocated exactly
  while it has references, and marked as cached exactly while the hash table has
  it), that the table has one entry per key (`OnePerTable`), and that whoever
  holds a table still pins a version with its file (`ReadersPinned`). The order
  of the lists plays no part in this, because `Insert` and `Prune` erase by key.
  `InLists` adds the two lists: an entry enters `in_use_` with its first client and
  goes to the end of the LRU list with its last, so that a count of 2 or 1 at that
  moment means what the code takes it for. `Without` is written as a recursive
  function, because the provers cannot expand `SelectSeq`. Assumed
  are finite sets of threads and handles, some table, and a natural capacity
  (`CacheAssumption`).

* `LevelsProofs!NoSharedKeys`, `EntriesNeverHop`, `ReadsAreRight` — for any
  number of keys, writes, tables, levels, snapshots and restarts, the whole
  chain from the choice of a compaction to the answer of `Get`. None of the three
  properties is inductive. `TablesInv` says how tables lie: memtables are newer
  than tables, level 0 is ordered by file number, deeper levels are apart, and a
  higher level is newer (`NewerUp`). `CompactingInv` says why a compaction may
  replace its inputs although flushes go on beside it: they are `Replaceable`
  (nothing else of the next level is in their range, what stays in their level is
  newer), and `Solid`: together they cover every key between any two of
  theirs, so that a table placed by `PickLevelForMemTableOutput` cannot land in a
  gap. `GoodAfterSetup` proves that `GetOverlappingInputs`, which widens its
  range round by round, and `SetupOtherInputs` with its expansion produce such
  inputs. It also says that what joined the deeper levels since shares no key with
  the inputs, so that `IsBaseLevelForKey`, which asks the version the
  compaction started from, is right to drop a deletion. `ReadsInv` adds
  that each snapshot still finds the entry it needs among what is stored
  (`AnswersInv`), which rules (A) and (B) of `DoCompactionWork` keep
  (`KeptAnswers`), and that the oldest snapshot a compaction respects is
  not above one that is held (`SnapshotsInv`). The three
  theorems assume that nobody calls `CompactRange` (`ManualRanges = {}`), and that
  no snapshot is held whenever outputs may be cut inside a key
  (`[](SplitKeys => snapshots = {})`: with `SplitKeys = FALSE` any number of
  snapshots may be held, with `SplitKeys = TRUE`, which is what the code does,
  none). Neither the application nor the database client (`APLevelDB.mm`)
  calls `CompactRange` or `GetSnapshot`: in this repository only the engine and its C
  interface name them. Without the hypotheses the properties are false: 5.2 for
  snapshots, 5.3 for `CompactRange`. `leveldb_levels` checks the manual compaction
  of one key within bounds in which it does no harm.

Where a property of every natural number is needed (a first writer whose batch
no longer fits, the version after each record of a descriptor), the set of
numbers that have it is taken and the well-ordering of the naturals is used
(`LeastElement`, `SetInduction` of `OrderLemmas`), because the library's
induction theorems take an operator as a parameter, which the installed provers
cannot instantiate.

What the theorems assume is in the `ASSUME` of the modules they are about, is
evaluated by every run, and is what a phone or a process grants: finite sets of
listens, partners, threads and handles, model values that differ, bounds that
are natural numbers. The invariants behind the theorems (`IndexInv`, `MediaInv`,
`OrderInv`, `InboxInv`, `ControlInv` and so on) are proved; no run repeats them.

Model-checked only:

* `Delivered`, `ConversationShown`, `EveryPutCompletes`: liveness under fairness
  is outside the prover's reach.
* `DBImpl` with torn appends, as far as it goes beyond which files are there:
  `AnswersKept` is then false (5.3).
* `ReadsAgree`, `LevelsDisjoint` and `NewerAbove` of `Levels` beside a manual
  compaction of one key, in the bounds of `leveldb_levels`: the theorems exclude
  `CompactRange`.
* `ListOrdered`, `NothingMissed`, `ReadsBack` and `IteratorAgrees`: what a list, a
  log and an iterator return is defined by recursion over the data.

## 5. What the checks show

### 5.1 What holds

The fan-out is safe in the direction readers depend on: the message is always
there before its index entries, because the index writes are issued by the
acknowledgement and not beside the first write. Retransmission is harmless for
messages because a key is used once. If the app dies in the middle, a message
may be missing from lists but never appears at the recipient alone.

The connection's own machinery is sound where it matters: the assertions spread
over `FPersistentConnection.m` hold in every order of losses, interruptions and
late token answers, a client that is not interrupted always has a next step, and
the writes completed, deferred and outstanding are always, in this order, all
the writes issued, so a repetition never undoes a later write.

A signed-in user always ends up on the list, even if answers are late and
screens have changed, because every login screen below keeps its listener. A
profile is only ever stored whole and for its own account.

The engine keeps what it acknowledged in every order of group commits, flushes,
compactions and failures, and through a crash of the process or the machine as
far as the options of the write promise. Its descriptor can be read again, its
sequence numbers are never used twice, no table of a live version is deleted,
and a writer that sleeps is always owed a wake-up. As long as an output ends
between two keys, every read finds the newest entry its snapshot may see. A
reader of the skip list misses nothing that was there when it started; a log
returns what was written up to what was lost; an iterator may be turned at any
point; no open table is freed under a reader.

### 5.2 Where code and text disagree

* A video's completion block (`chat_logmessage.swift` 444-448) omits the partner
  from both index paths. Both readers descend one level further, so no list
  ever shows the video, contrary to the steps the reader's comment describes
  (51-54). `AckVideo` writes where the code writes, which is why `Delivered`
  speaks of texts and images.
* The sender defaults to `"demo_from_ID"` when nobody is signed in (178), and
  the completion block asserts `fromID!` (186): the app ends after the message
  was stored with a sender that does not exist (`AckCrashFrom`).
* When the server revokes the token, the client is to "refresh the token later
  on reconnect" (`FPersistentConnection.m` 528-529). `tryScheduleReconnect`
  moves that wish into the block of the retry and clears the flag; the network
  or the app coming back before the block has run schedules another block, which
  replaces the first and fetches the old token. The next connection is opened
  with the refused token (`RefreshedOnReconnect`). It is refused again, so the
  client recovers a round later.
* A cell of the list takes the partner's profile for granted
  (`snap.value as! NSDictionary`), the reader of the own profile does not. An
  account exists before its profile, and for good without one if a later call
  fails: a message it sends ends the recipient's app when the list draws that
  row (`PartnersHaveProfiles`).

* `Version::Get` relies on "entries never hop across levels" (`version_set.cc`
  346-348). An output may be closed between two entries of one key that a
  snapshot keeps apart (`db_impl.cc` 955, 994-999). The file with the newer entry
  is then compacted without its neighbour, the newer entry moves below the older
  one, and `Get` answers the older (`NewerAbove` in `leveldb_boundary`).

### 5.3 Met outside the runs

These were seen with other values of the constants; no run of the project keeps
them.

* `CompactRange` takes all files of a level that overlap a range. If a flush is
  placed at the output level between two of them while it works
  (`PickLevelForMemTableOutput` looks at files, and the key lies in a gap), the
  output overlaps the new file, against the assertions of `version_set.cc`
  741-755 and 764-767. `MCLevels` shows it with the constants of
  `LevelDBLevels.cfg`, except `ManualRanges <- AllKeys`, `MaxSeq = 5`,
  `MaxDeletes = 0`, `L0Trigger = 4`: `LevelsDisjoint` is violated. A range of one
  key is not safe either: the part of the range left
  for the next round begins at the end of the last input by smallest key, which
  in level 0 may lie before the range (`db_impl.cc` 701-703, 760-766), so that the
  next round starts from two files with a gap. This takes six writes, and
  `ManualRanges = {[lo |-> 3, hi |-> 3]}`, `MaxSeq = 6`, `MaxEvents = 3`,
  `L0Trigger = 4` show it.
* `options.h` 193-196 promises that a crash of the process alone loses no write,
  synced or not. A failed `AddRecord` may leave a part of its record in the log,
  and does not set `bg_error_`, as a failed sync does (`db_impl.cc` 1224-1241).
  Later writes go to the same log behind that part and are acknowledged; recovery
  drops the rest of the block (`log_reader.cc` 257-265), and they are lost.
  `MCDBImpl` shows it with the constants of `LevelDBWrites.cfg`, except
  `MayTear = TRUE`, `MachineCrash = FALSE`: `AnswersKept` is violated.
* `NewDB` does not sync the first MANIFEST before it sets `CURRENT`. A crash of
  the machine during the first `Open` can leave a database that cannot be opened;
  `Reopens` exempts it (`current = 1`).

## 6. Not modelled

Layout, keyboard handling, formatting of times, the picker's user interface,
`get_message` and `move_to_chat_log_controller` (never called), the commented
code, the Firebase client except for what section 2 names, Analytics, and the
utility pods.

Of LevelDB: the bytes of tables, blocks and filters, compression, the cache of
blocks, varints and the encoding of edits, `env_posix.cc` (its calls succeed or
fail in `DBImpl`), statistics, `repair.cc`, `dumpfile.cc` and the C interface,
which nothing here calls. Also nanopb and fbase64 (byte formats without a state
of their own) and GTMSessionFetcher (its transport is below the upload jobs of
`Messaging`).

Most of the C-family lines of the repository are headers of the vendored pods:
Objective-C declarations, their documentation and umbrella files. They have no
behaviour to translate, and the classes behind several of them are shipped as
binaries. The application itself is Swift, and `FPersistentConnection.m` and
`FIRAuth.m` are Objective-C implementation files. A share of mapped lines
counted over `.c`, `.cc` and `.h` files alone therefore stays low (about a
tenth, and about a third of the executable C and C++) although the engine that
makes up most of the executable part is modelled.

## 7. Plan

In this order:

1. `ChatLog`: the nested observers of `get_message_user_partner`, the log's
   array and the scroll index; cells, players and `prepareForReuse`.
2. `ImageLoading`: `load_image` on reused cells, the cache.
3. A composition of `Messaging` with the message list over the same database.
4. The table format (blocks with restart points, index and filter blocks) and
   nanopb's nested messages and size limits, as pure functions checked against
   what was written.
