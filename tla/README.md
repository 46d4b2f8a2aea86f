# Syncy in TLA+

Syncy keeps folders the same on several devices of one person, or of friends,
without a server. The engine, `syncyd` (Go, `src/engine`), scans the shared
folders, finds peers by mDNS or dials the endpoints it remembers, exchanges
indexes over QUIC and pulls the blocks that differ; a desktop shell (Tauri and
React, `src/desktop`) starts it and talks to its control API.

This directory models the stateful parts of the engine, and the life of its
process under the shell, checks them with TLC on
small instances, and proves the most important of what was checked with TLAPS.
Paths below are relative to `src/engine/internal`. `PROJECT.json` gives for
every definition the lines it models, for every property a mutation of the
model that breaks it, and for every hazard the properties that speak about it.

## Contents

1. The system
2. Modules
3. What the runs show
4. Bounds
5. Fairness
6. What is proved, and how
7. Where the code and its documentation disagree
8. Further configurations
9. What is not modelled
10. Plan
11. Running the checks

## 1. The system

### Components

| Component | State it keeps | Operations |
|---|---|---|
| Reconciliation session (`session`) | nothing beyond a pull: the peer's index, the local index and block map, the file being built | `Pull`, `Serve`, `classify`, `pullFile` |
| Sync engine (`syncengine/syncengine.go`) | the baseline table (`metadata/synced.go`) | `PullFolder`, `FolderSnapshot`, folder operations |
| Version store (`versioning`) | files under `.syncyversions` | `Archive`, `prune`, `Versions`, `Restore` |
| Friends (`syncengine/friends.go`, `metadata/devices.go`, `metadata/friends.go`) | the device and friend-request tables | invite codes, requests, acceptances, refreshes |
| Daemon (`daemon`) | which peers it is syncing with, the endpoints it advertises | `dialLoop`, `remoteDialLoop`, `serveConn`, `natLoop` |
| Filesystem monitor (`monitor`, `fswatch`) | the last index, the collected event paths, three channels | `New`, `run`, `Close` |
| Scanner (`scanner`) | nothing | `Scan`, `Diff` |
| Version vectors (`conflict`) | nothing in the engine: no code outside its tests makes a `Vector` | `Increment`, `Merge`, `Compare`; `ConflictName`, which `session` calls |
| Chunker (`chunker`) | a read buffer | `Split` |
| NAT (`nat`) | the router's mapping and its lease | `ExternalEndpoint` |
| Protocol framing (`protocol`) | streams of frames of at most 16 MiB | `WriteFrame`, `ReadFrame` |
| Identity (`identity`) | the key file | `LoadOrCreate`, `Save` |
| Discovery, transport, hashing, `fsafe`, `invite` | connections | wrappers, encodings, checks |
| Metadata store (`metadata`) | the SQLite database: folders, devices, settings, an operation queue | one statement each; migrations |
| Control API (`api`), AI assistant (`ai`) | the AI settings file | HTTP handlers |
| Desktop shell (`src/desktop/src-tauri`) | the engine process, its pid file | `spawn_engine`, `kill_stale_engine`, `daemon_info` |
| Desktop interface (`src/desktop/src`) | the API token, once read; what the screens show | requests, rendering |

### How they interact

- A **round** begins when `dialLoop` takes an announcement or `remoteDialLoop`'s
  ticker fires. Each round is a goroutine; `beginSync` allows one per peer. The
  round dials, and calls `Engine.PullFolder` for each folder that is not paused.
- `PullFolder` scans the folder, asks the peer for its index, and calls
  `session.Pull`, which compares name by name with the local index and the
  stored baseline. A file that has to come over is built in a temporary file
  from local blocks and blocks the peer reads off its live files, verified,
  archived over and renamed. At the end the folder is scanned again and that
  scan is stored as the baseline.
- The peer's side accepts the connection, decides once whether it trusts the
  caller, takes one snapshot of its folders, and serves both until the
  connection ends.
- Users change files at any moment. No lock is held between the steps above.
- Friend requests and acceptances travel over the same connections; the
  remote dial loop repeats a request until it is answered. Who is trusted
  decides whom the loops dial and whom the server serves.
- The shell kills the engine it recorded last, starts another in its data
  directory and records it; each engine loads or creates its key and token, and
  migrates the database, before it finds out, at the API's port, whether it is
  alone. The shell leaves its engine behind when it ends. The interface reads the
  token from the file the engine wrote.
- The monitor's two goroutines, `Watcher.run` and `Monitor.run`, hand over on
  unbuffered channels, with `Close` racing with everything.

### What is hard

Indexes are read once and used for the length of a round; blocks are read from
files that may have changed since; archive and rename are two steps; rounds
break off anywhere; several rounds run at once; friend handlers read a row, go to
the network, and write it back; acceptances are lost; loops sleep through the
changes they should react to; and event, debounce and rescan race with the
files. Files are emptied and then filled, by processes that may be killed in
between and may have company. `PROJECT.json` lists 40 such hazards at their lines.

### What makes each part correct

- *Session and engine*: nothing is installed that no user put at that path; what
  a device's user wrote is in the folder or in the version store, unless newer
  copies took its place there; a device that pulls ends up, at every name, with
  its source's file or its own user's, whatever failed on the way.
- *pullFile*: a reader of the destination always sees a whole version.
- *Version store*: at most `keep` copies, and one more for each pruning that has
  not come yet or was cut short; the oldest go first, none goes early.
- *Friends*: trust is wanted by the user who gives it and, unless a device was
  added by its ID, by the other user too; a half-made friendship is completed.
- *Daemon*: one round per device at a time, no device locked out for good,
  friends dialled again and again, strangers not.
- *Monitor*: a consumer that applies what it is sent has the folder's index;
  changes arrive, from every directory that is watched; `Close` ends both
  goroutines.
- *Vectors*: `Compare` is the causal order. *NAT*: what is advertised is mapped,
  and the switch is obeyed.
- *Chunker and block exchange*: blocks are a function of the bytes; a pull that
  nobody disturbs installs the file, and one that is disturbed ends, with nothing
  but the advertised bytes.
- *Engine process*: it keeps its identity and its database's schema through every
  crash and every second engine; once up, it accepts the application's requests;
  its settings in memory and on disk agree.

## 2. Modules

| Module | Models | Composition |
|---|---|---|
| `FolderSync` | rounds of several devices on one folder: `PullFolder`, `Pull`, `classify`, `pullFile`, the serving side, users | uses what `Assembly` shows of one file as one step |
| `Assembly` | the system calls of `pullFile` on one destination and its temporary file, by one or several pullers, with crashes | implements `AtomicFile` (`ReplacesAtomically`) |
| `AtomicFile` | abstract: a file that is replaced as a whole | |
| `Versioning` | `.syncyversions`: naming, listing, pruning, restoring | |
| `Friendship` | the trust protocol, one store operation or message at a time | assumes of the loop what `Dialing` shows |
| `Dialing` | both dial loops, `beginSync`/`endSync`, the rounds up to the pull | the schedule `FolderSync` and `Friendship` assume |
| `Monitor` | `Watcher.run`, `Monitor.run`, scans, `Diff`, `Close` | |
| `VersionVector` | `Vector` | |
| `PortMapping` | `natLoop` and the router's lease, with time | |
| `Chunker` | `Split` and `boundary` over a reader with short reads | |
| `Exchange` | one file of several blocks from index to installation: `requestIndex`, `requestBlocks`, `serveBlocks`, `pullFile`, frames | composes `Chunker`, its sender, with the puller |
| `EngineLife` | the engine process: the shell, `main`, `daemon.New` and `Run`, the key, token and settings files, the migrations, `handleSaveAI` | what `Dialing`'s `Restart` assumes |

Each `MC` module gives a specification its small instances (`EngineLife`,
`Friendship` and `PortMapping` need none), each `.cfg` asks one question, and each
`...Proofs` module holds the theorems about the specification it is named after.
Two are about several: `IndexProofs` about what an index says of a file (`Chunker`,
`Exchange`, `VersionVector`), `LoopProofs` about the daemon's loops beside the
rounds (`PortMapping`, `Monitor`). `Monitor`'s and `VersionVector`'s operators of
the usual names are `MInit`, `MSpec`, `VInit`, `VSpec` and so on, for that reason.
Every module begins with what it models; every definition that the code suggested
keeps the code's name. Definitions whose comment begins "Mutant of" are plausible
mistakes in the definition below them; nothing uses them, they exist to show that
the properties can fail.

### Correspondence

**FolderSync.** `disk`, `baseline` and `archive` are the folder, the synced table
and the version store of each device. The rest of a round's state (`pc`,
`remote`, `local`, `todo`, `path`, `target`, `tmp`) are local variables of
`PullFolder`, `Pull` and `pullFile`. `Connect`, `Snapshot`, `SnapshotLacks` and
`Scan` are the opening in both orders; `Leave` and `Take` are the body of
`Pull`'s loop with `Verdict` and `Classify`; `Fetch`, `FetchFails`, `Archive`
and `Install` are `pullFile`; `Record` is the rescan and `SetSyncedBaseline`;
`Abort` is a broken connection, a failed operation or a stopped process at any
of these points. Contents are numbers, each written once by a user, and a file
is one block. A device has one round at a time here: rounds with different
peers at once are `Assembly`'s (one file) and `Dialing`'s (the schedule)
subject. `Archive` is `versions.Archive` as `pullFile` calls it: the copy is `Added`
under a free number and the list it belongs to is `Pruned`, which may take other
copies of it or the new one. Which go depends on modification times, and those
are `Versioning`'s subject; here the choice is open. `Lists` says which names'
copies are listed together (a file without an extension lists those of its
stem). `ArchiveFails` is a copy that breaks off, a torn file left in the store, or a
pruning that is `Cut` short; the round ends. `placed`, `kin`, `mine`, `removed`,
`late` and `dropped` are history the properties need.

**Assembly.** Names stand for inodes as in the kernel, so that two pullers can
hold descriptors of one truncated file. `Begin` is `os.Create` and truncation,
`Write` a block at the descriptor's position, `Close` the comparison of the
hashes, `Rename` the replacement, `Fail` and `RenameFails` the error paths,
which remove the temporary name, `Crash` the end of the process, which does not.

**Versioning.** A stored copy is a record of stem, extension, stamp (the
replaced file's modification time in seconds), duplicate number and whether it
is complete; `Listed` matches by stem and extension, so that files which
share a stem see each other's copies. `Archive` copies, `Overwrite` prunes, after
which the caller renames or fails to; between them anything else may happen, to
other files' copies too, and the process may stop. `ArchiveFails` leaves a torn
copy behind and prunes nothing; `PruneStops` is a process that stops before or
while it prunes, or a removal that fails: an initial part of what was to go, in
the order of the code's loop, is gone. `fresh` is the copy that was made and whose
pruning is to come, `stops` a count of the prunings that were cut short since the
last one that was not.

**Friendship.** `row[d][p]` is one row of `d`'s device table: absent, pending,
trusted with endpoints, or trusted without any (`bare`). A `job` is a handler in
progress (a goroutine, a connection's two ends), each step one store operation
or one message, so every read-modify-write of `friends.go` can be interleaved
with every other. `consent` and `manual` remember what the users did.

**Dialing.** `table` holds rows as above with their address lists; `host` says
who answers at an address. `Dispatch` is `dialLoop`; `Tick`, `ListDevices`,
`Each` and `ListDone` are `remoteDialLoop`; `Begin` and `End` are `beginSync`
with the goroutine and the deferred `endSync`; `Check`, `Dial`, `ListFolders`
and `Pull` are `syncWithAddr`, `AskFails` and `Asked` are `SendFriendRequest`.
`NextAddress` is the loop over the endpoints. The store's other writers, the
network, the switches and mDNS are the environment. `Restart` is an engine that
is stopped anywhere and started again: `Daemon.syncing`, the rounds and what the
loops had read are gone, the store is kept.

**Monitor.** `queue` is what the kernel has not delivered, `pending` what
`Watcher.run` has collected since its timer was started, `baseline` the
monitor's last index. A scan lists the root (`StartScan`), then the subdirectory
when its walk comes to it (`EnterSub`), and reads one file per step (`ReadFile`), so
it races with the users; a file or directory that has gone makes it fail
(`FileGone`), and the event it was woken for is forgotten. `TakeEvent` sets the
watch of a new directory, and `WatchFails` is the case in which it cannot: `Watcher.run`
drops the error of `addRecursive`, and `blind` remembers it. Each directory is
listed in one step. `Diff` computes added, modified, deleted and renamed
as the code does, pairing equal contents; only its bookkeeping is abstracted.

**VersionVector.** A vector is a function on the devices that have an entry;
`known` is the history: which changes a replica has seen.

**PortMapping.** `Pass` lets one unit of time go by when nothing is due; `CheckOn`
asks the router, which grants (`Grant`), refuses, or takes up to `MapTime`.
`Lose` is a router that restarts, or a machine that sleeps. The ages are capped.

**Chunker.** `Read` delivers any number of bytes the buffer has room for, and
the end with or after the last of them; `Cut` is the loop's body once the buffer
is full or the end is known, `HandOut` the callback and the move of the rest.

**Exchange.** `file` and `chunks` of `Chunker` are what the peer scanned and
advertises; `live` and `own` are the two files as their users have left them
since; `Edited` is what an edit can make of a file, any files at all in the proofs
(`EditedAssumption` asks only that they are within the bound on length).
`TakeIndex` is the puller's scan with `buildBlockIndex` and `requestIndex`, `Ask` the choice of what to request, `Serve` and `Close` are
`serveBlocks` on its stream, `Receive` and `EndOfStream` the loop of
`requestBlocks`, `Put` and `Finish` the assembly with both comparisons of hashes.
A hash is the bytes it stands for. The puller has one local file, of the same
name; blocks from other files come from the same map. `FolderSync` takes all of
this as one step of a file of one block, which is what `OnlyAdvertised` and
`PullSucceeds` allow.

**EngineLife.** `shell` is where `spawn_engine` is, `pc[e]` where process `e` is
in `daemon.New` and `Run`, one system call or transaction per step. `file` holds
the key and the token, `held[e]` what `e` has of them in memory; a random secret
is named after the process that generated it. `Create` and `Write` are the two
halves of `os.WriteFile`. `tables` and `version` are the database, `seen[e]`
the loop variable of `migrate`. `port` is the API's listener, `app` the token
`api.ts` keeps. `aiFile` and `aiCfg` are the assistant's settings on disk and in
memory, `save[r]` a request in `handleSaveAI`. `Crash` stops an engine anywhere,
`Quit` the shell anywhere, `LoadFails` and `SaveFails` are failing calls. `raced`,
`stray` and `calm` are history the properties need.

## 3. What the runs show

| Run | States | Question |
|---|---|---|
| `FolderSyncPull` | 240,740 | two files that users of both devices edit, delete, rename and exchange during the pull, one fault, two seconds, one stored copy of each, all of them in one list: `NoForeignContent`, `UserWorkKept`, and the puller ends up with its source's files or its own user's: `Delivered` |
| `FolderSyncLocallyAhead` | | refuted: `LocallyAheadKept` (section 7) |
| `AssemblyOne` | 1,231 | one puller, three crashes: `WholeFile`, and `Assembly` implements `AtomicFile` |
| `AssemblyTwo` | | refuted: `WholeFile` with two pullers (section 7) |
| `VersioningTwo` | 265,916 | two files that share a stem, archived at the same time, `keep` 1, prunings cut short: `AtMostKeep`, `DropsOldest`, `DropsOnlyWhenFull` |
| `FriendshipSettles` | 150,404 | two devices, four user actions, two handlers at a time, one lost connection: `TrustIsWanted`, `TrustIsMutual`, `Settles` |
| `DialingFriends` | 415,431 | one friend, two addresses, two folders, two announcements, two changes of anything, restarts among them: `OneRound`, `NobodyLockedOut`, `FriendsAreDialled`, `OthersAreLeftAlone` |
| `MonitorFollows` | 428,708 | two paths, one of them in a subdirectory, three changes, one failing scan or watch: `ConsumerFollows`, `CatchesUp`, `Stops` |
| `VersionVectors` | 4,320 | three devices, three changes each, up to symmetry: `CompareIsCausal` |
| `PortMappings` | 39,331 | the loop against every router and every use of the switch: `AdvertisedIsMapped`, `OffIsObeyed`, `OnIsObeyed`, `LossIsNoticed` |
| `Chunks` | 445,952 | every file of up to ten bytes, read in every way: `SameChunks`; those of up to eight pulled by a device with none or another version of it, with one edit or failure at any moment: `OnlyAdvertised`, `PullSucceeds` |
| `EngineLives` | 183,827 | two launches, two engines at once, two stops or failing calls, two saved settings, a database that is new or one or two versions old: `SchemaWhole`, `IdentityKept`, `SettingsAgree`, `ComesUp` |

Every passing run also checks its module's type invariant.

Some of what holds is less obvious than it looks:

- `UserWorkKept` has two exceptions. Between `pullFile`'s archiving of the old file
  and its rename, a user's write is lost (`late`). And `versions.Archive` ends by
  pruning, which may drop an earlier copy of the user's or, if the file is older than
  the stored copies, the one just made (`VersioningReplaced`); but it does so only
  from a list that then still has `keep` copies, and from then on some list with the
  file's name in it always has (`Crowded`), so that work is missing only where the
  store is full of other copies. Everything else survives, including stale scans: the
  comparison uses an old index, but the archive is made of the live file.
- `Delivered` is about what follows the source. Where the puller's user has written
  or removed a file himself, it demands nothing: his file may stay (it is locally
  ahead, or one side of a conflict), or be replaced, as `FolderSyncLocallyAhead`
  shows. What it does say is that no failed or broken-off round, no empty index
  and no conflict copy keeps the device from the source's version of a file that
  its own user has left alone.
- `NoForeignContent` holds although blocks are taken from local files a round
  may itself have overwritten, and from the peer's live files: what is wrong is
  caught by the comparison with the advertised hash. What that costs is progress,
  and `Delivered` shows that progress is still made: the failed round's next
  attempt scans anew.
- `AtMostKeep` is no plain maximum. Each stop between a copy and the end of its
  pruning leaves one complete copy more than `keep`, and so does a removal that
  fails. What holds is that these do not add up to more than one each, and that the
  next pruning that is not cut short brings the list back to `keep`. It counts
  complete copies only. A torn copy is listed and pruned with the others, and shared
  stems make a file lose copies early, never keep more.
- `Settles` rests on the resend alone: every message may be lost once.
- `TrustIsMutual` excepts devices added by their ID, which are trusted at once.
- `CatchesUp` excepts what happened between `New`'s scan and its watch and what a
  failed scan had been woken for, until the next scan; and the files in a directory
  whose watch could not be set (`fswatch/fswatch.go:125` drops the error), as long as
  that directory is there. Without a further event nothing tells the consumer of
  them.
- `PullSucceeds` holds of files with repeated blocks only because the end of the
  stream is no error: `requestBlocks` counts distinct hashes, so such a pull never
  has as many as it asked for.
- `SchemaWhole` holds although the version is read outside the transactions:
  every migration creates a table, or adds a column, that must not be there yet,
  so the second of two engines rolls back and exits. With `IF NOT EXISTS`, the
  mutant, it would set the version back.
- `ComesUp` has exceptions, and each is a way in which the application stays
  without an engine: a key or token file that a crash left empty (an empty token
  is loaded, and refuses every request), an application that read the token's
  file in the moment before it was filled and keeps the empty answer, two
  engines in their first start at once, a killed engine that still has the port
  when the next one needs it, a failing call. An engine whose shell
  ended before it was recorded is not killed, but keeps the port and answers.
- `IdentityKept` excepts two first starts at once, where the second process may
  replace the key with which the first goes on.
- `SettingsAgree` is for one request at a time.
- `AdvertisedIsMapped` needs lease time for one whole refresh interval, one check
  that came just too soon, and two slow routers: `LeaseTime >= RefreshEvery +
  CheckEvery + 2 * MapTime`. The code's numbers (3600 against 2400 + 60 + 68)
  satisfy it; the run's numbers (13 against 7 + 2 + 4) satisfy it with nothing to
  spare, and one less is refuted.

## 4. Bounds

- *FolderSync*: contents are unbounded in principle; `MaxOps` bounds the changes.
  Three changes are the least with which two users can interleave with a round
  that reads an already stale index (edit, pull, edit during the pull, exchange).
  Two names are needed for blocks reused from another file and for renames;
  conflict names need two seconds to be distinct and one to collide. With `keep` 1
  the second copy fills the store beyond it; `keep` 2 holds as well (213,450 states).
- *Assembly*: versions of one to three blocks that share blocks and prefixes with
  each other and the old file; two pullers; three crashes.
- *Versioning*: `keep` 1 (the code: 10) so that the store fills with few writes;
  two seconds, so that stamps collide and differ; two completed prunings and, in a row
  for one file, one that is cut short. The proofs have `Keep + MaxStops <= 18` (the
  code's 10 and eight stops in a row), for `Rank` spells out how the suffixes of one
  second sort as strings.
- *Friendship*: two devices; every handler concerns a pair. Two handlers at a
  time in the liveness run, three in `FriendshipSafety`.
- *Dialing*: rounds with different peers touch only their own mark and rows, so
  one friend and two addresses show the schedule; `DialingPeers` has two friends.
- *Monitor*: one file outside and one inside the subdirectory; with three changes
  a file can change before, during and after a scan.
- *PortMapping*: the intervals are small numbers in the right relation; nothing
  else about them matters, which the proofs show.
- *Chunker, Exchange*: blocks of three to five bytes and files of up to ten give every
  kind of block boundary, twice, and a last block of every length. Files of up to
  eight are pulled: two or three blocks, equal ones among them, with the puller's
  file one edit away. Two edits or failures (`MaxTrouble = 2`, with files of up
  to seven bytes) hold as well.
- *EngineLife*: nothing keeps more than two engines apart that does not keep two;
  a first start, a second one beside it and a restart need two launches. Two
  migrations let an engine stop between them. Three launches (1,786,912 states)
  hold as well.

## 5. Fairness

- *FolderSync*: weak fairness of `Work(d)`: a device dials again after each round
  and a started round takes its steps. The first half is `FriendsAreDialled` of
  `Dialing`; it is true of a friend that internet discovery is on for and whose
  address is known and leads to it, for the remote loop's ticker never stops. A
  peer known by mDNS alone is dialled only when it is announced.
- *Dialing*: weak fairness of `dialLoop`, of the ticker and the loop's body, and of
  each round. The last is an assumption about the peer: a pull has no deadline
  (`session/session.go:309`), and a peer that keeps the connection alive without
  answering would hold the round, and its mark, for ever. The environment (users,
  announcements, failures) has no fairness.
- *Friendship*: every handler runs on, and the loop's resend is taken, again by
  `FriendsAreDialled`, as long as the request is pending; faults are bounded, that
  is, some attempt in the end gets through.
- *Monitor*: the two goroutines run on. The consumer need not: a property that
  needs it to receive says so (`mpc = "send"`). Deadlock is not checked where the
  monitor has been closed or its consumer may have gone.
- *Exchange*: weak fairness of the chunker, of the peer's answers and of the
  puller. The second is the assumption about the peer again.
- *EngineLife*: weak fairness of the shell's set-up and of each engine's start:
  processes that run. Neither the users nor the screens need act, which is why
  `Answered` speaks of the token the application has read or would read. A killed
  process goes at some time (`Die` is one of its steps).
- *PortMapping* needs none: its properties bound times, and time passes only when
  nothing that is due has been left undone.

## 6. What is proved, and how

All theorems hold for every value of the constants that satisfies the named
assumptions; TLC evaluates these in every run.

| Module | Theorems | Obligations |
|---|---|---|
| `FolderSyncProofs` | `TypeCorrect`, `NoForeignContentHolds`, `UserWorkIsKept`; for users who work between rounds `RoundsDoAsDecided`, `RoundsFastForward`, `ConflictsKeepBoth` | 1309 |
| `AssemblyProofs` | `TypeCorrect`; for one puller `WholeFileHolds`, `Replacing` | 338 |
| `VersioningProofs` | `TypeCorrect`, `AtMostKeepHolds`, `DropsOldestHolds`, `DropsOnlyWhenFullHolds` | 650 |
| `FriendshipProofs` | `TypeCorrect`, `TrustIsWantedHolds`, `TrustIsMutualHolds`; for users who remove nobody `FriendsAreRemembered` | 689 |
| `DialingProofs` | `TypeCorrect`, `OneRoundHolds`, `NobodyIsLockedOut` | 396 |
| `IndexProofs`, on `Chunker` | `CutsAlike`, `CutsAll`, `SplitsTheFile`, `CutsResume`, `OneSplit`, `SameChunksHolds` | 2878 |
| on `Exchange` | `XTypeCorrect`, `OnlyAdvertisedHolds`, `UndisturbedNeverFailsHolds` | |
| on `VersionVector` | `VTypeCorrect`, `CompareCausally`, `MergeIsJoin`, `CompareIsOrder` | |
| `LoopProofs`, on `PortMapping` | `TypeCorrect`, `AdvertisedIsMappedHolds`, `OffIsObeyedHolds`, `OnIsObeyedHolds`, `LossIsNoticedHolds` | 1074 |
| on `Monitor` | `MTypeCorrect`, `ConsumerFollowsHolds`, `DiffApplies`, `RestIsCurrentHolds` | |
| `EngineLifeProofs` | `TypeCorrect`, `SchemaStaysWhole`, `IdentityStays`, `UpAtRestHolds`; for one request at a time `SettingsStayInStep` | 1451 |

Every safety property that a run checks is a theorem. Of five liveness properties
the safety half is one too: the state in which nothing is left to happen is the
right one, or what has been done is. Fairness, which only TLC checks, then says
that such a state is reached.

| Liveness, model-checked | Its safety half, proved |
|---|---|
| `CatchesUp` | `RestIsCurrent`: at rest the consumer has the files as they are |
| `ComesUp` | `UpAtRest`: at rest an engine answers the application |
| `Delivered` | `AsDecided`, `FastForwards`: what a complete round has done |
| `PullSucceeds` | `UndisturbedNeverFails`: no pull fails without a cause |
| `Settles` | `Remembered`: who is trusted has a row from which to ask again |

Beyond the named assumptions some theorems have a hypothesis of their own. `OnePuller`
and `OneSave` are needed: `AssemblyTwo` and `EngineTwoSaves` are what happens
without them. `LeftAlone(d)` says that `d`'s user makes his changes between `d`'s
rounds, and other users when they like; with changes during a round, what the
round does is for `UserWorkKept` to say. The last of them is that `d`'s
user does not remove `p`, without which a row may of course be missing.
The inductive invariants were checked by TLC on the runs' instances before they
were proved.

**FolderSync.** Neither invariant is inductive. `NoForeignContent` speaks of the
disks, but a content travels from a disk through an index and a temporary file
to another disk; the strengthening, `Provenance`, says of every index that what it
holds at a name was put at a name of that root, that a temporary file that is
complete holds what the index advertised, and that a target has the root of its
path. `UserWorkKept` breaks at `Install` unless what the target holds is already
`Safe`: in the store, or dropped from it and `Crowded`. `Covered` says that of
every round between archive and rename, excepting what was written meanwhile
(`late`). That what is `Safe` stays so through a pruning, whole or cut short, rests on
how lists lie to each other (`ListAssumption`: one holds the other, or they have
nothing in common). Pruning a list leaves it `keep` copies, if it removes any, and
so every list that holds it (`CutDropsCrowded`); a list inside it that had `keep`
copies may fall below, but its names are then in the pruned one, which has
`keep` (`CutLeavesCrowded`).

What a round achieves is stated for every name. `Forward` says that the folder is as
it was scanned at the names ahead of the walk (`Ahead`) and has its `Outcome` at the
others, but for names that a conflict copy may take (`NoCopy`). It is inductive
because what the walk decides depends on the index, the first scan and the baseline
alone, and those stay through the round (`Settled`, `Decided`), while disks and
peers change. `RoundsFastForward` follows, since a folder that is as recorded has
no conflict with any index (`NoConflict`): this is the promise "a file only changed
on one side fast-forwards" where it is kept; section 7 has the states in which it
is not. `Copying` adds, for each conflict behind the walk, the copy, and with it
`ConflictsKeepBoth`.

**Assembly.** With one puller (`OnePuller`) the inode behind its descriptor is the
one the temporary name stands for, which is not the destination's, and its data
is the first `pos` blocks of the version it wants (`Begun`), all of them once the
hashes have been compared (`Finished`). From this the whole-file hash, which the
code computes over what it wrote and not over what is in the file, is the file's,
and `Rename` is `AtomicFile`'s `Replace`; every other step is a `Begin`, a `GiveUp` or a
stutter. With two pullers the first fact fails, which is `AssemblyTwo`; the type
is proved for any number of them.

**Versioning.** `AtMostKeep` is inductive with the type, the finiteness of the
store and `OneTorn`, a bound on the copies that were broken off: `Archive` adds one
copy and owes one pruning, `PruneStops` turns the pruning owed into one that was cut
short, and `Overwrite`, which forgets them all, leaves `Keep` of the list. That no two
stored copies share a name is part of the type, and the hard part of it: `Archive`
must always find a free name. It does, since at most `Keep + MaxStops` whole copies
and the torn one are there to take the `Keep + MaxStops + 2` names that the model
gives a second (a pigeonhole argument on cardinalities; the code's search for one
has no bound).
Pruning keeps the first `Keep` of the list; that the list is strictly ordered
(`Later`), stamp before suffix, gives `DropsOldest`, and that a copy goes only when
`Keep` others are before it gives `DropsOnlyWhenFull`.

**Friendship.** Neither property is inductive: a handler writes what it has read
some steps ago. `Wanted` says of every row, every stored request and every handler
under way that the user at its origin wanted it, and of a handler that has found the other
side willing (`Told`) that the other user did too. It survives every interleaving
because what the users have wanted only grows: what a handler has read may be
outdated when it writes, but the consent it stands for is not. A removal takes
rows, not consent; that a refresh can undo it is `FriendshipRefresh`, and no
contradiction. `FriendsAreRemembered` looks at the rows themselves: as long as `d`
has no row for `p`, there is no trace of one (`NoTrace`), no trust, no stored
request, and no handler of either that must have seen a row. Each of these is
written from another of them, and all begin with `AddPuts`, which writes the row.

**Dialing.** `OneRound` is not inductive without `NobodyLockedOut`: `beginSync`
asks the mark, not the rounds. `NobodyLockedOut` is not inductive without
`OneRound`: the end of one of two rounds would clear the mark of the other. The
two together with the type invariant are.

**EngineLife.** `SchemaWhole` needs of every engine that what it has seen of the
version is not more than the version, and less than the last one while it
migrates (`SInv`): a step it applies is then either the next one or one whose
tables exist. `IdentityKept` needs `KeyInv`: unless engines have raced, the one
that creates the key is alone with it and the file holds no key yet. The type
invariant carries the one thing about the port that is not a type, that an
engine which serves holds it. `SettingsAgree` needs `SaveInv`: while the one request
is in its handler the file is torn or holds what the request is about to set in
memory, before and after that they agree, and no request is in progress while no
engine serves.

`UpAtRest` rests on four facts. `OnItsWay`: some engine is `Hopeful`, one that will
not find a table in its way. An engine gives up for two reasons, and each names
another that is better off: a migration that exists was made by an engine that is
hopeful or gave up for one, and the port is held by one that serves. That the
witness need not be the engine started last is why a statement about that
engine alone is not inductive. `PortIsServed`: whoever holds the port serves or is
being killed. `Recorded`: without a shell that was stopped too soon, only the engine
started last is alive. `OneToken`: without a race all engines that have a token,
and the application, have the file's.

**Chunker.** `Tiled` says that the blocks lie end to end and the buffer after them,
`Buffered` that the buffer holds the file's bytes there, `SameCuts` that each block
is as long as `boundary` says of the bytes of the file, not of the buffer: how the
reads fell has gone from the state. `SplitsTheFile` follows: a finished split is one
that obeys `boundary` and reaches the end (`IsSplitOf`). `CutsResume` and `OneSplit` are
about such splits alone. Let two files be the same from a block boundary of each on,
and take the least number of blocks after which the two splits differ: what
`boundary` was given for that block was the same in both. So the blocks are
content-defined, and, from the beginnings of two equal files on, deterministic.

`SameChunks` compares with the reference definition, in which the fingerprint at a
position is a sum of gear values, each weighted by a power of two, modulo the
word. `boundary` computes it by shifting and adding as it goes, and both are
recursive functions. That such a function exists and obeys its recursion is
`Recursion`, proved by a least counterexample; that the remainder may be taken at
every step or once at the end is `Carried`; from them `FingerprintIsWeight`, and
`BoundaryIsBlockEnd`: the loop, with its minimum and maximum, stops where the
definition does.

**Exchange.** What is written is the beginning of the advertised file, up to the end
of the last block placed (`Written`). The step that matters is `Put`: a block comes
from a local file or from the stream, both may have changed since, but both are taken
for the hash, and the block's hash is that of the file's bytes where `Tiled` puts
it. `Exchange`'s actions leave `Chunker`'s variables alone, whose theorems
therefore hold of the sender (`PullSplits`, a lemma); with `Covered`, that the blocks reach the end of the
file, what is written when every block is placed is the whole file.

`UndisturbedNeverFails` is about a pull with no edit and no failing call. `Calm` says
that what the sender has served so far is what is on the way and what has been
received, each under the hash it was asked for, and that a block which was
found in a local file is still there. When the stream ends, every hash has been
served, so every block is in reach, also where a file repeats a block and the
stream ends "early" (`AllHaveCome`, a pigeonhole argument on the set of hashes).

**VersionVector.** `Counted` says that a replica knows, of each device, exactly the
changes up to its entry, and all of its own; comparing entries is then comparing
sets. `MergeIsJoin` and `CompareIsOrder` are about any two vectors, reached or not,
with the zero and missing entries that a peer may send.

**Monitor.** `ConsumerFollows` is almost inductive; what it needs is that a change
set, as long as it is not received, makes the consumer's index the monitor's. That is
`DiffApplies`, for any two indexes. `Diff` pairs deleted with added files of equal
content, and one pairing is as good as another: a file that a
rename takes for gone is gone, and one that it takes for new is new, whichever
of several it was.

`RestIsCurrent` says that no change falls between the chairs. By `Tracked` the
monitor has the folder as it is, or will have read it by the end of its scan
(`Upcoming`), or has an event or a timer to come that makes it scan (`Coming`); the
exceptions are Close, a gap at the start, a failed scan, and the files of a directory
whose watch has failed (`blind`). An event comes only from a watched
directory: `Covered` says that the root is watched, and the subdirectory too unless
it is `blind`, or that the event of its creation, on which it will be, is in the queue. A handler
that takes an event away leaves a timer, and a timer a scan. At rest there is
none of these, so the monitor has the folder, and the consumer what the
monitor has.

**PortMapping.** `Spent` is, for each place in the loop, the longest time since the
loop last saw an attempt that was recent enough. `Leased` bounds what is left of
the lease from below by it, `Noticed`, `Quieted` and `Reached` bound the time
since a loss, a switch off and a switch on from above.

The theorems' lemmas are named for what they say, and each action has its own
step in the preservation proofs.

**Model-checked only.** All liveness properties (`Delivered`, `Settles`,
`FriendsAreDialled`, `OthersAreLeftAlone`, `CatchesUp`, `Stops`, `PullSucceeds`,
`ComesUp`): fairness and ENABLED are out of the proof system's reach. What the
table above calls their safety halves is proved. The other three have none worth
stating: that a dialled friend was in the table, or that a stopped monitor does
nothing, is a guard. Induction over data has no theorem that the installed provers
can instantiate; where it is needed, in the two recursive functions of `Chunker` and
for splits, it is replaced by a least counterexample, found by well-foundedness
(`WFMin`), which takes no operator.

## 7. Where the code and its documentation disagree

Both are runs that TLC refutes.

- **A locally-ahead file can be replaced by what it was edited from**
  (`FolderSyncLocallyAhead`, `syncengine/syncengine.go:122`). The baseline
  recorded after a round is the rescan of the local folder. An edit made during
  the round is in it, though the peer has never had it; in the next round the
  local file equals the baseline, so the peer's older file is taken. The old
  content is archived, so nothing is lost for good, but CHANGELOG.md says that "a
  locally-ahead file is kept".
- **Two rounds can install a mixture** (`AssemblyTwo`, `session/session.go:355`).
  `beginSync` keeps apart two rounds with one peer, not two rounds with two
  peers. Both write the same temporary name; the whole-file hash is computed over
  the blocks each has written, so that neither notices.

## 8. Further configurations

These are kept for whoever changes the code. They hold:

- `FolderSyncRelay` (three devices in a row: `Delivered`), `FriendshipSafety` (three handlers at a time),
  `MonitorDiff` (three paths and contents, for a `Diff` with several equal files), `DialingPeers` (two
  friends and one that is none).

They are refuted, most at a promise of a comment or a document that is quoted at
the property:

| Configuration | Property | What happens |
|---|---|---|
| `FolderSyncStaleScan` | `LocalChangesNotOverwritten` | a file changed after the round's scan is overwritten (and archived) |
| `FolderSyncArchiveGap` | `OverwrittenIsArchived` | a write between archive and rename is in neither |
| `FolderSyncOneWriter` | `NoCopyWithoutConflict` | a file without a baseline entry is a conflict though one side only changed it |
| `FolderSyncConverge` | `Converges` | two devices may keep different files for good |
| `VersioningReplaced` | `ReplacedIsStored` | the copy of a file older than the stored copies is pruned as it is made |
| `VersioningShared` | `PrunesOwnCopies` | a file's copies are pruned for another of the same stem |
| `FriendshipRefresh` | `RefreshOnlyUpdates` | a refresh that read the row before a removal brings the friend back |
| `FriendshipEndpoints` | `FriendsStayDialable` | adding a friend by its ID drops its endpoints |
| `ExchangeLargeIndex` | `PullSucceeds` | an index larger than a frame is not written, the error is dropped, and the puller takes the end of the stream for an empty index |
| `ExchangeSilent` | `PullEnds` | a peer that keeps the connection alive and does not answer holds the pull for ever |
| `EngineLateKill` | `PortIsFreed` | the killed engine still has the port when the next one binds it, which exits; nothing starts a third |
| `EngineFirstStarts` | `IdentityNeverChanges` | two engines that find no key each create one |
| `EngineEmptyToken` | `TryAgain` | the application reads the token's file before it is filled and keeps the empty token |
| `EngineTwoSaves` | `SettingsAgree` | two requests leave different settings in the file and in memory |
| `MonitorStartup` | `ChangesArrive` | a change between the first scan and the watch arrives with the next change only |

## 9. What is not modelled

- `hashing`, `invite`, `fsafe`, the JSON of `protocol`, TLS and the QUIC library:
  pure encodings and checks, or external. Equal hashes are taken for equal
  contents, a frame arrives whole or the stream breaks.
- Loss of written data by the file system (neither a temporary file nor its
  directory is synced); the kernel's event queue overflowing, after which nothing
  scans again (`fswatch/fswatch.go:131`).
- Stems that continue another file's stem by a `~`: the copies of `notes~old` are
  listed with those of `notes` (`versioning/versioning.go:78-84` compares prefix and
  suffix). `Versioning.Listed` lists equal stems only, and `FolderSync`'s
  `ListAssumption` excludes lists that overlap without nesting, as such names could
  make them.
- Two rounds that archive the same file at once: `Versioning` has one copy of each
  file whose pruning is to come.
- A NAT-PMP gateway that grants a shorter lifetime than asked, which the code does
  not look at (`nat/nat.go:116-120`). `PortMapping` has it as a mapping that is lost
  early (`Lose`): `AdvertisedIsMapped` excepts such a mapping, `LossIsNoticed`
  bounds how long it is advertised.
- A read of `ai.json` that fails at the start of the engine, which then runs
  without the stored settings (`api/api.go:32`); a write of the pid file that fails,
  which the shell ignores (`lib.rs:54`) and after which the engine is one that was
  never recorded, as when the shell ends before it records.
- A directory whose entries change while it is being listed: each directory's
  listing is one step of `Monitor`.
- More than one source of one device in the runs that check `Delivered`: each
  device pulls from at most one.
- The end of a removed friend's connection: it is served until then
  (`daemon/daemon.go:187`), and no property speaks about that.
- Copies that differ in their extension only are ordered by `ExtPlace`, a
  constant, which is what the string order comes to for a fixed set of files.
- Deletions: the session never propagates one, and no document says it does yet.
- Removing a folder and adding it again: its baseline outlives it
  (`metadata/folders.go:69-75`). `FolderSync` has one folder that stays; what an
  outdated baseline does to a file is what `FolderSyncLocallyAhead` shows.
- A recorded process ID that has gone to another program, which the shell would
  kill. A stray engine that outlives two launches of the shell is in the model.
- The operation queue (`metadata/queue.go`), which nothing calls.
- Reading operations of the API, the assistant's requests to its provider, the
  rendering of the screens. The settings screen shows a toggled switch before it
  is stored and sends both switches each time (`Settings.tsx:116`): two quick
  toggles may be handled in either order.

## 10. Plan

Done, in this order: `FolderSync` (the heart), `Assembly` with `AtomicFile`,
`Versioning`, `Friendship`, `Monitor`, `VersionVector`, `PortMapping`, `Chunker`,
`Dialing` and its restarts, `EngineLife`, `Exchange`; proofs of `FolderSync`,
`VersionVector`, `PortMapping`, `Assembly`, `Dialing`, `EngineLife`, `Friendship`,
`Versioning`, `Monitor`, `Chunker`, `Exchange`.

Then the safety halves of the liveness properties (section 6), the last safety
invariant (`SameChunks`), and what a round of `FolderSync` achieves.

Not done: that `Dialing`'s rounds implement `FolderSync`'s `Connect` guard, and that a
pull of `Exchange`, with `Assembly`'s one puller, is `FolderSync`'s `Fetch`: the
modules share no state to map, and a module that composed them would be needed
first. As models: the folder handlers composed with `FolderSync`; the toggles of
`Settings.tsx` with `handlePutDiscovery`; the operation queue once something uses it.

## 11. Running the checks

    tlc -workers 2 -config FolderSyncPull.cfg MCFolderSync
    tlapm FolderSyncProofs.tla

The slowest run takes less than two minutes on two cores.
