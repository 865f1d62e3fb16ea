# Agro server: TLA+ models, checks and proofs

Agro is a self-hosted companion server for a music player: one Rust process (axum, tokio,
async-graphql) over one SQLite database, plus memory that does not survive a restart. Clients are
music players on several devices of several accounts. This directory models the parts of the
server in which the order of steps matters, checks them with TLC on small instances and proves
some of their properties with TLAPS for every instance.

Paths below are relative to the Rust sources, `src/src/`.

## Where the concurrency is

* Every request is a tokio task; tasks run on several threads. A handler may be **dropped at any
  await** when its connection closes, so each await is also a crash point of that handler.
* `Db` is one SQLite connection behind a mutex (`lock_recover`), with a pool for readers. **One
  call of a `Database` method is atomic; two calls of one handler are not.** Nearly every handler
  reads, decides and writes in several calls. That is the grain of the models: what a handler
  reads together is one step, each write is one step, and what was read is carried in between.
* Two background loops (`sweeper.rs`, `jam_clock.rs`) change the same tables as the handlers.
* The push hub, the relay and the rate limiter live in memory and are empty after a restart.

## Inventory

| component | state it keeps | operations | hard behaviour | what makes it correct | module |
|---|---|---|---|---|---|
| **Live push hub** `ws_channels.rs`, `ws/` | sequence counter, one replay buffer and one broadcast channel per account and one for everyone; per socket two receivers, a writer queue, a RESUME in progress | publish, subscribe, replay, sweep, connect, authenticate, forward, resume, disconnect | publishers race between number, buffer and channel; two buffers read under two locks; lag; restarts | buffers admit what they forgot; no window between replay and live; no frame for somebody else; a resumed socket catches up | `LiveStream`, `LiveStreamProofs` |
| **Audio relay** `relay.rs`, `relay/` | sessions with a bounded pipe or a fanout, encryption headers, age | open, post, pump, attach, read, settle, age out | back pressure, slow listeners, either side vanishing, sessions ageing under a receiver | no holes; holdings only of what was piped; nobody left hanging; sessions go | `Relay`, `RelayPromise`, `RelayProofs` |
| **Jams** `db_jam/`, `schema_jam/`, `jam_clock.rs`, recaps | rooms, members, tracks, votes, skips, recaps | create, join, leave, mode, add, approve, remove, skip, dismiss; the clock; erasure | handlers of several members and the clock on stale reads | one room per account, majority rules, the queue moves, an ended room is remembered, an erased account is not | `Jam`, `JamProofs` |
| **Library** `library/`, `db_library/`, `storage.rs`, `sweeper.rs` | upload sessions, part files, index, archive, spool and its rows, holdings | declare, put, verify, archive, spool, evict, sweep, delete, reclaim | dropped handlers, resumed transfers, evictions and sweeps under a handler, quota | what is served or reclaimed is the whole file; uploads settle; budgets hold | `Library`, `SocialProofs` |
| **Accounts** `login/`, `auth.rs`, `db_identity/`, `schema/accounts.rs` | users, device tokens, passphrases, invites, the setup token | bootstrap, sign up, sign in, add and revoke devices, change the passphrase, suspend, invite, erase | check-then-write between calls; names taken again | somebody administers; a new passphrase ends the old sessions; only who was let in has a token | `Accounts`, `AccountsProofs` |
| **Ways in** `totp.rs`, `oidc/`, `db_identity/totp.rs`, `federated.rs` | second factors, recovery codes, flows, linked identities | enrol, confirm, use, disable, reissue, link, unlink, sign in with a provider | an enrolment replaced under its confirmation; codes used twice; flows that come back late | the factor guards and stands; codes work once; a way in remains | `Identity`, `RelayProofs` |
| **Social graph** `db_social/`, `schema_social/`, `db_presence.rs` | a row per account and friend, codes, listen-along rows, the now-playing switch, copies sealed to friends | request, accept, remove, block, mint and redeem codes, tune in, show and hide, report | checks and writes of two accounts on one pair interleave; listeners read before they are reached | friendship is mutual, a block stands, a code is spent once, frames and copies go to friends only | `Social`, `SocialProofs` |
| **Devices** `db/nodes.rs`, `db/handoff.rs`, `ws/network.rs`, `offers.rs` | device names, addresses, grants, what is playing with its sealed copies, holdings, the offer collector | register, connect, report, hand over, ask for a grant, report files, offer | sockets that overlap; reports racing renames; grants reused under a changed set of keys; restarts of apps | a token handed out is one the host knows; records are true; who is behind catches up | `Devices`, `JamProofs` |
| **Playlists** `db_playlist*.rs`, `schema_playlists/` | tracks and positions, revision, who may see and edit, followers | create, import, edit, follow, narrow, delete | edits of two devices from one revision; access read before the write | one dense list, no edit of what was not seen, followers learn of changes | `Playlists`, `LiveStreamProofs` |
| **Blends** `db_blend*.rs`, `schema_blend.rs` | recipe, members and answers, whose listening is in it | create, answer, leave, change; a refresh in every read | refreshes cross departures and deletions | nobody is read early; a blend that is gone stays gone; it converges on its members | `Blends`, `BlendsProofs` |
| **Sharing** `db_short_links.rs`, `db/shares.rs`, `listen/`, `db_drops/` | links, tombstones, shares, drops with a sealed note per device | share, open, delete, drop, read, sweep | reuse of a link a sweep is taking; limits checked before the write | a link lasts as promised; a race costs a row each | `Sharing`, `SharingProofs` |
| **Catalogue** `db_catalog/`, `db_artists.rs`, `db_popularity*.rs`, `db_acoustic.rs` | recordings, artists, sources, follows, counters by day, measurements | publish, follow, pull, report plays, chart, measure | a publish of many statements; cursors by time; midnight under a chart | recordings hold together, cursors skip nothing, charts read whole windows, the first word stands | `Catalogue`, `CatalogueProofs` |
| **Vault** `db_vault.rs`, `db_identity/vault.rs`, `db/settings.rs` | the sealed key, synced settings, backups | sign in, enrol, change the passphrase, sync, store | two devices enrol or change at once; stores trim each other | one key, opened by the passphrase; a kept backup stays | `Vault`, `CatalogueProofs` |
| **Listening** `db/scrobbles.rs`, `stats*.rs`, `db_feed.rs`, `db_replay.rs` | plays | report, purge, read by oneself and by friends | batches sent again; names joined to devices; consent read before the rows; years cut by text and by instant | a play counts once, nobody is read unasked, figures agree | `Listening`, `RelayProofs` |

`PROJECT.json` lists every component with its files, also those that are not modelled and why, and
under `hazards` the places in this code that are hard to test, each at its line and with the
properties that are about it.

How they interact. Nearly all publish through the hub (`ws/hub.rs`); except in `Devices`, where the
frame is the point, a push arrives, and how is `LiveStream`'s. The relay asks the jam tables who
may join a fanout, which changes under it, and the friendships, which are a constant there and
change in `Social`, `Playlists`, `Sharing` and `Listening`. The relay writes holdings that the library's reclaim
and the offers read, and each of the models has its own. Erasure runs through everything and is a step of every model
that keeps rows it takes. `Accounts` mints the tokens that `Vault` and `Identity` sign in with.

## Known

What was met while modelling. Most are disagreements between the code and a comment beside it, or
outcomes of a race that the code accepts; the properties leave them out by name (`late`, `strayed`,
`twins` and the like are the history variables that do). They are reported, not judged: some are
harmless in practice.

* **Hub.** `publish` takes the number before the lock (`ws_channels.rs:126-147`) and a socket selects
  between its receivers in no order (`ws/session.rs:132-135`), so a client can be handed 2 before 1,
  resume from 2 and never get 1; `ws.rs:14-17` calls the position "the whole of how a message
  survives a reconnect". A position of the last boot is told apart only until the new boot has
  counted past it (`ws_channels.rs:173`).
* **Relay.** A receiver that attaches before the sender posts gets no headers
  (`relay/download.rs:117`); a transfer that failed part way is recorded as a holding
  (`relay/download.rs:129`).
* **Jams.** The frame of a new track takes holder and hash from the row read before it was set
  (`jam_clock.rs:105-106`, against 118-121). A host who opens or joins another room leaves the first
  without ending it (`schema_jam/jam_lifecycle.rs:61`); a proposal may outlive the members it needs
  (`db_jam/queue.rs:41`); a join after the room was deleted leaves an orphan row. An account erased
  while a handler that read it is under way stays named in the recap it writes
  (`db_jam_recap.rs:56-75`), and erasing a host ends rooms without recaps. One account is in one room
  only if it acts from one device.
* **Library.** An interrupted first request resumes from 0 (`library/put.rs:118-128`,
  `begin.rs:160`, against `begin.rs:147-148`). Two uploads given one free path overwrite each other
  (`library/archive.rs:66-81`, against `storage.rs:233-235`). What is called reclaimable is then only
  known to be a whole file of the same tags, place and length, maybe another one's.
* **Social.** A request accepted in the middle of a block is left half accepted when the block is
  lifted (`db_social/friends.rs:119-129`, against 69-71). A code is spent without a friendship if
  its redeemer has already asked (`schema_social/friends_mutation.rs:118-139`, against 101-103). Setting
  another switch writes this one back as it was read (`schema_social/profile_mutation.rs:121-128`,
  against 100-106).
* **Accounts.** Two callers with the setup token make two administrators (`login/bootstrap.rs:51-52`),
  who can remove each other; suspended administrators count; a failed revoke after a change of
  passphrase is ignored (`db_identity/accounts.rs:205`); a crash in a signup costs a use of the invite.
* **Ways in.** An account made by a provider can never set a passphrase (`db_identity/accounts.rs:184-185`,
  165-172); two unlinks at once leave no way in (`db_identity/federated.rs:74`); a crash between making
  the account and linking it leaves an orphan, and so does an unlink between making it and marking
  its passphrase unusable. A code of an older secret, read before a new enrolment, is accepted again
  under it (`db_identity/totp.rs` counts codes for the secret in force only). An account made under
  the name of an erased one can be confirmed, enrolled or unlinked by a handler of the old one.
* **Devices.** An old socket that closes late clears the address its successor announced
  (`ws/session.rs:198`, against `ws/handshake.rs:29`); a registration without a name writes back
  the old one over a rename; sealed copies are written one statement at a time, and a crash between
  leaves some of them; a heartbeat without a hash keeps the last track's (`db/handoff.rs:55`);
  `report_holdings` does not ask whose the device is.
* **Playlists.** An import announces nothing, though `schema_playlists/mutation.rs:2` says "Each
  change is announced". A follower who came between the reading of the audience and the deletion is
  not told, and one who comes after it leaves an orphan row. A copy that another device of an
  account took before the account followed is not announced for: `announce_follow`
  (`schema_playlists/notify.rs:18`) tells that device only that there is something to fetch.
* **Blends.** A refresh that read the members before one left writes their listening after it and
  clears the mark that would have it rewritten (`db_blend_refresh.rs:27-85`), while
  `schema_blend.rs:148` says "it is rewritten without you" (and `db/erasure.rs:122-128` likewise). A
  friend erased between the check and the insert stays invited for ever; an erased creator leaves a
  blend nobody owns.
* **Sharing.** Two devices mint two links for one target, which `db_short_links.rs:1-9` speaks of as
  one; a link or share may survive its owner's erasure (`db/erasure.rs:76-81`); both devices pass
  the hourly limit; a drop whose copies were half written cannot be opened on every device.
* **Catalogue.** A publish takes its time before it matches (`db_catalog/publish.rs:19`), and ties
  within a second are cut by a page, so a cursor can pass over what is put behind it; matching and
  inserting are not one step, so two publishers may insert one recording twice; filling a field sets
  `updated_at`, so an old recording is news again (`db_artists.rs:220-223`); the comment of migration 47
  speaks of a merge that `upsert_artist` does not make; one client can supply all the measurements
  of a song (`db_acoustic.rs:41-46`).
* **Vault.** A key enrolled by a device that signed in before the passphrase was changed elsewhere, or
  a passphrase changed by a device that did not know of an envelope, leaves it sealed under an
  old passphrase, though `db/migrations/v19_30.rs:152-155` says "typing the passphrase on a new device
  still recovers everything".
* **Listening.** Two devices of one name count a play twice (`db/scrobbles.rs:104-108`). The circle's
  recap and the standing compare a year's edges as text (`schema_feed.rs:145-155`,
  `db_replay.rs:45`) where the account's own recap compares instants, though `stats_wrapped.rs:223`
  says "this year and the next partition the history": within the offset of the turn of a year they
  disagree. Purged plays come back with an outbox that is sent again. A play exactly a day
  old counts as today and stands in yesterday's bar. Profile and friendship are read one after the
  other, so that the two may never have held at once.

## Modules

### LiveStream

`publish` is three steps (`Stamp`, `Remember`, `Send`), which is where another thread can come in
(`ws_channels.rs:124-148`). A socket is greeted, subscribed to everyone's channel, then
authenticated and subscribed to its account's (`ws/session.rs:24-126`); `Take` is one turn of its
forwarding loop, `ReadGlobal`, `ReadOwn`, `Answer` and `SendMissed` are its answer to RESUME.
`Receive` is the client as `ws.rs` describes it: it keeps the highest position it has seen and
refetches when told to resynchronise. `Restart` empties all that is memory. Time is its only
effect: wherever the code compares ages, any prefix of a buffer may have expired.

`known`, `published` and the `boot` in a message are history: no step of the server reads them.

### Relay and RelayPromise

A direct session is a bounded channel, a fanout copies chunks to the listeners of a jam. The
sender's loop is `Post` and then `PumpDirect` or `PumpFanout` per chunk until `BodyEnds` or
`BodyFails`; a receiver is `Attach`, `Read` per chunk, then `EndOfStream`, `Settle` being what the
poll function does once when the stream is over (`relay/download.rs:122-141`). `NoSender` is
reference counting: a receiver's channel ends when the last sender's end of it is dropped, also
when a session nobody posted to leaves the hub.

`RelayPromise` is the relay without channels, buffers, tables and timers: an upload is a counter, a
receiver is given consecutive chunks, a listener may be cut off but never resumed past a hole, and a
device is recorded as holding exactly what the sender put in. `KeepsItsPromise` is that `Relay`
implements it, with what was put in, given and recorded read off the detailed state; it replaced
the separate invariants on holes and holdings.

### Jam

Each handler reads (`CreateJam`, `AddJamTrack`, ...) into `call` and then takes a step per write
(`InsertJam`, `InsertTrack`, ...). The clock reads a room into `clock` and does the same
(`FindAbandoned`, `TimeUp`, `FindSilent`, then `MarkPlayed`, `PickNext`, `StartNext`,
`AnnounceNext`, `StopPlaying`, `Sweep`). Durations are left out: `TimeUp` may come at any look. A
creator who leaves writes a recap per member (`RememberOne`) before parting; recaps are dismissed
by who they belong to, and `EraseAccount` strikes a name from them, which works the top contributor
out again (`Forgotten`).

### Library

A file is the sequence of its chunks `<<hash, i>>` and one that arrives wrong is `<<hash, 0>>`, so
that hash checks, truncation and appends are what they are in the code; the shelf is a partial
function of paths, so that a move takes one path away and gives another. A PUT handler goes through `open`, `copy`,
`verify`, then `shelve` and `index` or `stage`, `record` and `list`, then `close`, one per await or
database call (`library/put.rs:41-200`, `archive.rs`, `spool.rs`). `Drop` stops it anywhere.
Evictions (`evict`) belong to a handler or to the sweeper and remove first the file, then the row.

### Social

A friendship is two rows, `edge[<<a, b>>]` and `edge[<<b, a>>]`; `StateOf` is `friend_state`, which
looks at both, and `Friends` is the list, which looks at one. A handler begins with its first
database call (`SendRequest`, `RedeemCode`, `BlockUser`, `StartListenAlong`, `Hide`, ...) and takes
one step per call after that; `req` holds what it has read. A redemption shares `CheckEdge` and
`InsertRequest` with a request, as the code does, with the owner of the code as the one who asks.
`FanOut`, `TellFriend`, `ReadListeners`, `Sift` and `FeedListener` are `fan_out_presence`, `Hide`
the switch going off (or incognito going on), which reads its listeners with the same two steps and
then cuts them off (`CutListener`); `SetOther` and `KeepShown` or `KeepHidden` are a call that sets
another switch and writes this one back. Removing a friend deletes whatever stands between the two,
the other side's block too, which is what the code and its comment say.

Accounts are active, discoverable and have one device; the feature switches are on. Frames that
carry no playback are left out, and so are the contents of those that do. `seen` is history: which
pairs a block has stood between, which copies were sealed to somebody who was no friend
(`updateHandoff` does not check), and whom a fan-out under way has found a friend since it began.

### Accounts and Identity

`req` is the handler of every client with what it has read; every action after the first is one
database call (`CheckTaken`, `RedeemInvite`, `CreateMember`, `RefundInvite`, ...). Rows are found by
name, as in the code, and a name can be taken again after an erasure, so an account is its `id`.
A passphrase is how often it was changed. `Present` and `Authorize` are the bearer check, after
which the token may go. `Identity` adds what signing in asks for besides: a code is a secret and a
time step, the window of three steps is kept, a recovery code is one of a set that works once. A
provider's flow is started, comes back (`Callback`) once or never, and is answered with a subject or
a failure. `past` is history: what the properties remember of codes accepted, sessions spared and
consents given, and which accounts were crossed by a second handler of an enrolment (`crossed`) or
of an unlink (`parted`).

### Playlists

One playlist of one owner. A handler loads the row, then the friendship, then writes in one
transaction (`WriteEdits`, `AddTrack`, ...), then announces. `Edited` applies a batch in order and
refuses all of it for one edit the role does not allow; `Stale` is the revision check. Each client
keeps the copy it last read, with its revision, and `told` is what it was pushed. `OrderOf` is the
list the positions spell (`item_ids`), `Dropped`, `Inserted` and `Place` are the edits of one, and
`AfterBatch` is a recursive function over the batch. `kept` is history: the devices that were answered
the whole list while their account followed, which it has done since.

### Blends

`Refresh` is what every read, answer and departure runs: recipe, members, tastes, then one
transaction. `from` is whose listening the tracks are. `MarkedDue` is `refreshed_at = NULL`.

### Sharing

Links and shares by id, a tombstone when an unused one is swept; `Reuse` and `Mint` are two holds of
the database and `HandOut` is the answer, from which on somebody may rely on the link. One clock
serves the month, the year and the hour of the code, whose order is all that matters. A drop's note
is sealed by the sender once per device of the recipient.

### Devices

A device has one connection it uses, while the server may still have an older one (`Lose`, `Close`).
`Play` and `Heartbeat` report; the row, its sealed copies, the node and a frame for each listener are
separate steps, as in `updateHandoff`. A grant is reused while it is fresh and for the same keys
(`Reuse`), otherwise minted and announced to the host; the host's app keeps what it was told
(`accepts`) until it is started again. `recent` orders the rows of an account by when they were
written, and `Latest` is the one `latest_handoff` picks. `Take`, `ListDevices`, `Diff` and `Offer` are the collector.

### Catalogue

A publish is `Match`, then `File` and `FileSource`, then `ReadName`, `Upsert` and `Link`, one
statement each. Audio is a sequence of segments equal to one another or nothing alike, which turns
the dot products of `similarity` into counts and keeps its threshold. `Pull` walks by the highest
time seen, `Watch` by a follower's watermark. Plays are counters by day (`Count`, with the retention
of that day), a chart is two reads (`ReadTracks`, `ReadRanks`) after its day was taken.

### Vault

A device that signs in is handed the envelope; if there is none it generates a key and enrols it,
and what loses that race fetches the winner's. What is sealed is known by what it is sealed under.
Changing the passphrase reseals the envelope the device knows of, if it knows one, and revokes the
other tokens in a later step. `strayed` is the case under *Known*.

### Listening

`Moment` and `Before` are the two ways the code compares a stamp, as an instant and as text, which
differ by the offset. A device drains its outbox until it is acknowledged, so batches arrive twice and out
of order. One reader's request is followed at a time through its reads (`ReadFriends`,
`ReadProfile`, `AreFriends`, `ReadRows`, `Answer`); friendships, switches and names change in
between. The figures are operators on the rows.

### Mutants

A definition whose name ends in `_Mutant` is the definition after it with one mistake: a dropped
guard, an off-by-one, a missing reset. `PROJECT.json` says which property each one breaks. They are
there to show that a property can fail.

## Runs

| run | states | what it shows |
|---|---|---|
| `live_stream` | 210 thousand | `HubIsSound`: buffers are bounded and forget only what they admit to, frames go where they are addressed. `ResumeLeavesNoGap`. `EventuallyCaughtUp` |
| `relay` | 473 thousand | `KeepsItsPromise` (the refinement), `SettledSessionsAreGone`, `BothEndsFinish`; of listening `PlaysAreCounted` (once, and in one year however it is cut, away from its turn), `NobodyIsReadUnasked`, `NumbersAddUp` (streaks, bars, milestones, who was first, ranks) |
| `jam` | 217 thousand | `RoomsKeepTheirRules`: one room per account, a room hears what it accepted, the erased are forgotten. `EndingIsRemembered`. `QueueMoves` |
| `library` | 288 thousand | `FilesAreWhole`: what is served and reclaimed is the whole file. `UploadsSettle`. `OverBudgetIsTrimmed` |
| `social` | 495 thousand | `FriendGraphIsSound`: friendships are mutual, copies go with them, codes are spent once. `BlockStands`. `FramesToFriends` |
| `accounts` | 772 thousand | `AdministratorRemains`, `RotationSignsOut`, `AdmissionIsEarned` |
| `identity` | 584 thousand | `FactorHolds`: it guards, its codes work once, it stays until somebody who proved it ends it. `AccountsKeepTheirOwner`: links are consented, a way in remains |
| `playlists` | 2.2 million | `PlaylistIsOneList`, `EditsAreSound`, `FollowersKnowWhenBehind` |
| `blends` | 1.1 million | `NobodyIsReadTooSoon`, `GoneLeavesNothing`, `HoldsItsMembers` |
| `sharing` | 1.3 million | `LinksKeepTheirWord`: a link handed out works for its time, an unused one leaves its name. `RacesCostOneRowEach` |
| `devices` | 277 thousand | `GrantsServeTheListener`, `RecordsAreTrue`, `DevicesCatchUp` |
| `catalogue` | 637 thousand | `RecordingsHoldTogether`, `NothingIsSkippedOver`, `ChartsAreHonest`, `FirstWordStands`; of the vault `KeyIsFoundAgain`, `BackupsAreKept` |

An invariant that is a conjunction (`HubIsSound`, `RoomsKeepTheirRules`, ...) has its type invariant
as the first part and a named definition for each of the others.

`MCRelay` and `MCCatalogue` hold two components each that share no variable: a behaviour is one of
the first or of the second, which the initial state decides, and every action leaves the other's
variables alone. Nothing is interleaved that the code would not interleave, and nothing lost, since
what happens in one is not seen in the other.

### Bounds, and why they are enough

* `live_stream`: two publishers (a race needs two), two messages, one connected device and one that
  is only addressed, every capacity 1 except the account's buffer, which holds both messages, so
  that both trimming and not trimming happen; channels and writer queue of one, so that lag and back
  pressure happen; two boots.
* `relay`: three chunks through buffers of one, so that the buffer is full while there is more to
  come; two uploads on one session, so that one is refused; two devices, host and guest. Sessions do
  not touch one another, so one id is enough. Listening: three accounts, one of two devices;
  hours of two ticks, days of two hours, years of two days with the turn of a year in the middle, and
  offsets either way; any history of up to four plays, or two plays and two sendings, or one play
  with sendings, purges and renames, or one request and three changes of friendship or switch.
* `jam`: two accounts, two rooms, two tracks, four handler calls in all. Every defect found while
  modelling needed at most three calls. Two members are the smallest room with a majority.
* `library`: two hashes of one and two chunks with the same place in the library, a quota of two
  chunks (both together exceed it), three sessions, two handlers at once, one fault of any kind.
* `social`: two accounts, since every rule here is about a pair; one of them signed in twice, so that
  an account races with itself; two codes, so that one replaces another; any friendships to begin
  with; four calls in all.
* `accounts`, `identity`: two names, so that one is taken again; two clients, so that handlers cross;
  three calls, of which two race and one sets up or follows; three tokens, one invite of one use.
* `playlists`: owner and guest, two tracks, batches of up to two edits, four calls, one change of the
  friendship.
* `blends`: a creator and two friends, so that one answer is not the last; three calls and one event
  (a consent, an erasure or a restart) besides reads, which are not counted.
* `sharing`, `devices`, `catalogue`: `Budgets` gives every kind of call its own allowance, and a
  behaviour starts with one of several: which calls are numerous together is chosen, in which
  order they come is not. The periods are one or two ticks. The catalogue's three encodings are a
  chain whose ends are alike to the middle and not to each other, with an excerpt of all three.
  The vault: two devices, two passphrases, one backup kept, seven calls.

The checks end when these allowances are spent, and so all runs but `live_stream` are made without
deadlock checking: the server rests then as it does when nobody calls.

### Fairness, and why the code justifies it

Tokio polls every task that is ready, so a handler that was called and is not dropped runs on, and a
loop with something to do does it (`WF` on the steps of handlers, pumps and forwarding loops, and on
the collector of offers). Nobody has to publish, call or hang up: no fairness is asked of those.
What else is asked: a connected socket reads what it is sent (`Receive`), and so does a direct relay
receiver, but not a jam listener; a device that wants to upload keeps trying until it has an answer;
a device whose connection went connects again, and one that plays reports again, as its heartbeat
does; a blend is opened again, and its period passes; the sweeper's interval keeps firing. The jam
clock's look at a room is strongly fair, since its tick comes again and again while the room's state
comes and goes between ticks.

`Social`, `Accounts`, `Identity`, `Playlists`, `Sharing`, `Catalogue`, `Vault` and `Listening` state
safety only and assume no fairness.

## Proofs

`LiveStreamProofs` proves for all accounts, devices, publishers and capacities:

* `TypeCorrect`: `Spec => []TypeOK`.
* `BuffersStayBounded`: `Spec => []BuffersBounded`.
* `NothingForgottenSilently`: `Spec => []RememberedOrForgotten`.
* `ResumeIsComplete`: `Spec => []ResumeLeavesNoGap`.
* `FramesAreAddressed`: `Spec => []OnlyOwnFrames`.
* `HubStaysSound`: `Spec => []HubIsSound`, the three invariants and the types together.

The assumptions are `StreamAssumption` in `LiveStream`: every device has an owner, the two stand-ins
are not accounts or devices, and capacities are positive. The bounds on messages and boots are
natural numbers and nothing else is used of them.

`BuffersBounded` and `RememberedOrForgotten` are inductive once types and the facts about `Forget`,
`Expired` and `Pushed` are known (a forgotten prefix only raises `forgottenThrough`, and to at least
what it dropped). `ResumeLeavesNoGap` is not inductive: it speaks only of sockets that have been
answered. It is strengthened by `EverythingOwedComes`, which says for a RESUME still between its two
reads where each message past the position must be: arrived, found, in a channel, still with a
publisher, or in the buffer that is yet to be read; by `Listening`, that a socket with a RESUME is
subscribed and its account's channel exists, so that what is sent from now on is delivered; and by
`BootsInOrder`, that nothing in the system carries a number or boot not yet reached.

`LiveStreamProofs` goes on with `Playlists`, whose followers that hub tells, for any guests, devices,
tracks, edits in a batch and calls, from `PlaylistsAssumption` (the owner is not a guest, every device
has an account, and the bounds are numbers):

* `PlaylistsStaySound`: `PlaylistsSpec => []PlInv`.
* `ListsStayWhole`: `PlaylistsSpec => []PlaylistIsOneList`.
* `FollowersComeToKnow`: `PlaylistsSpec => []FollowersKnowWhenBehind`.
* `EditsStaySound`: `PlaylistsSpec => EditsAreSound`.

What was read of a revision is what the playlist is as long as it has that revision: `Current` says so
of a copy and of the copy an edit was made against, though its row and its tracks were read one after
the other, and `Reads` of the row that gave an edit its role. It holds since no transaction writes
tracks, visibility or access without raising the revision (`Moves`), and an edit that finds the
revision it names therefore finds the list its device saw and the role it was given. `Informed` says of
a kept copy that it is of now, or its device was told of a later revision, or a write has yet to
announce itself. That positions are dense is shown of lists first: `OrderIs` and `RenumberedIs`
lead from positions to the list and back, `DroppedIs`, `InsertedIs` and `EditedIsDraft` say that an
edit of a list without duplicates is one again, and `AfterBatchIsDraft` carries it through a batch,
whose recursive function is shown to exist by the least length at which it would not. The proof changed
a property: with two devices of one follower a copy may be older than the follow and is then not
announced for, which the run with one device each could not show (see "Known"); `kept` now
leaves it out.

`SocialProofs` proves for all accounts, sessions and codes:

* `TypeCorrect`: `Spec => []TypeOK`.
* `Mutual`: `Spec => []FriendshipMutual`.
* `CopiesGoWithFriendship`: `Spec => []CopiesWithinFriendship`.
* `CodesAreSpentOnce`: `Spec => []CodesSpentOnce`.
* `BlocksStand`: `Spec => BlockStands`.
* `FramesReachFriends`: `Spec => FramesToFriends`.
* `FriendGraphStaysSound`: `Spec => []FriendGraphIsSound`, the invariants together.

The assumption is `SocialAssumption`: every session is signed in to an account, and the stand-in for
nobody is not one. `EdgeMoves` reduces every step to the six ways a row can change, so that what is
said about rows is shown once per way and not once per action. `FriendshipMutual` and
`CopiesWithinFriendship` are about pairs no block has stood between, and are inductive together with
`BlocksNoted`, that every block there is has been recorded: without it a block could be lifted, or
overwritten, on a pair the invariant takes to be clean. `FramesToFriends` rests on `FeedsKnown`: the
friends and listeners a fan-out has yet to reach are among those it has found to be friends since it
began, for which a row of one's own list has to imply the other row, and so `FriendshipMutual`.

As a module that holds proofs is kept for several models, `SocialProofs` goes on with `Library`, for
all devices, accounts, files, sizes and budgets, from `LibraryAssumption`:

* `TransfersAreKept`: `LibrarySpec => []LInv`.
* `FilesStayWhole`: `LibrarySpec => []FilesAreWhole`.

A file in the spool or in the archive was a part file that some handler had verified before it moved
it, while others could truncate, append to and delete parts. `LInv` says what a handler's step
knows of its part (`Staging`: how long it is, and after the hash check that it is the file or gone),
that a part and its session belong to one upload (`PartsAreTheirs`, `ClientsKnow`,
`HandlersServe`), and that whatever has been stored is whole (`StoredIsWhole`). A path that
`UniquePath` gives is free: there are more suffixes than files on the shelf (`PathIsFree`, a
pigeonhole). The first form of the model had as many suffixes as files and could run out of them;
the proof found it and the model was put right.

`RelayProofs` proves for all sessions, devices, chunks and sizes of the buffers, from `RelayAssumption`:

* `EndsStaySound`: `Spec => []IInv`.
* `SettledAreGone`: `Spec => []SettledSessionsAreGone`.
* `PromiseIsKept`: `Spec => KeepsItsPromise`, the refinement of `RelayPromise` step by step: every
  action maps to an action of the promise or to a stutter.

`Run` relates the two ends of a pipe: what a receiver was given and what is on its way to it are one
run of consecutive chunks that ends with the last one put in, with at most an error behind it. A
chunk put in, an error and a chunk taken keep it (`PumpRun`, `BreakRun`, `ReadRun`). The other half of `IInv` says which states of
sender, receiver and session go together.

As `MCRelay` checks `Listening` beside the relay, `RelayProofs` goes on with theorems about it, for all
accounts, devices, tracks, offsets, limits and lengths of an hour, a day and a year, from
`ListeningAssumption`:

* `OnlyWhoAllowsIt`: `ListeningSpec => []NobodyIsReadUnasked`.
* `YearsAreOne`: `ListeningSpec => []YearsAgree`, a part of the next.
* `PlaysDoCount`: `ListeningSpec => []PlaysAreCounted`.

A request reads friends, profile, friendship and rows one after the other while all of them change.
`AskInv` says at each step of each kind of request what its reads so far have witnessed of
the account it is about to show.

Counting rests on `LsInv`: of all plays made, in an outbox, under way or landed, no two have one id
(`PlaysDiffer`), a batch is of one device (`Sending`), and the table holds exactly one row for the
plays that landed and share an account and an id, or without one a track and a stamp (`Reported`).
Storing a batch keeps that however much of it was there before (`StoringReports`), and purging takes a row
just when it takes its plays (`PurgingReports`). That rows and plays are then as many is shown with
an injection either way (`KeysHaveRows`, `RowsHaveKeys`); restricted to the last day, with an hour
more on one side, it gives the clause on repeats. For the years, `OneSide` puts a play that is not
near a turn, its wall clock and its time at any offset on one side of that turn, from which each
comparison of texts is one of instants. An offset is assumed to be below a day, as `FixedOffset`
refuses any other, and what was played before a behaviour begins to be stored once, as the unique
indexes have it.

The module ends with theorems about `Identity`, for all names, clients, secrets and flows, from
`IdentityAssumption`:

* `WaysInAreKept`: `IdentitySpec => []IdInv`.
* `FactorDoesHold`: `IdentitySpec => FactorHolds`.
* `FactorIsNotLost`: `IdentitySpec => FactorStands`.
* `OwnersAreKept`: `IdentitySpec => []AccountsKeepTheirOwner`.

A handler acts on what it read some calls ago. `IdInv` says of each one under way what of that is
still so, or that another has crossed it: `Codes`, that a secret is one account's and a code of
it that was accepted is no later than the step its account remembers; `Enrolments`, that what is about to
be confirmed is what was proved; `Guarded` and `Consents`, that a session was minted past the factor
and a link made by who asked for it; `WaysIn`, that a handler about to unlink knows of another way in.
`Effects` groups the actions by what they write (a row, a link, a token, a flow, nothing), and
`RowsAfter`, `MarksMade` and `HandlersMove` say what each does to it, so that a part of `IdInv` is
shown once per kind of write. The proof found three statements that the small run could
not refute: with four requests instead of three, a name taken again under a handler, a code of an
earlier secret and an unlink before the passphrase is marked each break one. They are under
"Known", and the history marks them now.

`JamProofs` proves for all accounts, connections, rooms and tracks, from `JamAssumption`:

* `RoomsStaySound`: `Spec => []IInv`.
* `RulesAreKept`: `Spec => []RoomsKeepTheirRules`.
* `EndingsAreRemembered`: `Spec => EndingIsRemembered`.

None of the properties is inductive, since all depend on what a handler or the clock read before it
writes. `IInv` says what remains true of that. `Fits` is what a handler is at each of its steps, and
`InBounds` counts the rooms and tracks that are yet to be made. `InOneRoom` follows a handler that
changes rooms: out of all but the one it leaves, out of all, then into the one it goes to. `OnlyAccepted`
covers the track the clock has picked as well as those on air. `Nameless` says that no handler has
the name of somebody erased. `EndsWell` is what an ending relies on: what was on air belongs to the
room, and as long as its row is there the room is, and the creator in it. The argument
goes through how tables move, not through the actions: `StepsMove` shows once for every step that a
track stays in its room and accepted until it is gone and that rooms never change hands, `StepsAre`
and `HandlersGoOn` how a handler moves, `OthersWriteNothing` and `HandlersWriteAs` whose names are
written, and the parts of the invariant follow from those. Proving it corrected the model: the accounts a
creator's ending still has to write for were not counted among those a handler can name
(`Naming`), so that `ErasedAreForgotten` was not what the code does.

`JamProofs` also proves of the devices, for any accounts, devices, keys, addresses, tracks and
budgets, from `DevicesAssumption` (every device has an account, the marks for nothing are nothing
else, and the bounds are numbers):

* `DevicesStaySound`: `DevicesSpec => []DevInv`.
* `RecordsStayTrue`: `DevicesSpec => []RecordsAreTrue`.
* `GrantsDoServe`: `DevicesSpec => []GrantsServeTheListener`.

`DevKinds` is the types and what a handler is at each of its steps (`DevFits`). `NamesHeld` adds the
name a registration has read and will write back: it is the one the account chose, unless a rename
came in between. `Reported` says how much of a report there is at each step, which is why the copies
may be trusted only between steps. For the grants, that the app of the host knows a token is not
enough, since another hand-out may put a different set of keys in its place. `OneMeaning` says that
it does not: a token stands for one set of keys in the server's table and in every handler's hand,
because one is minted only when nobody has it (`Expired`) and reused only with the keys it was minted
for (`Reuse`). `HandOut` then follows a hand-out from the keys it read: what it is bound to is what
there is, up to what it saw come and go, and once announced the app knows it. `TalksTo`,
`HandlersTo` and `ReportsTo` say once where each step leaves its handler, and `QuietRecords` and
`QuietGrants` what follows from nothing else having moved. `recent` is a relation and not a list,
since `SelectSeq` computes by recursion, which no proof gets past.

`AccountsProofs` proves for all names, handlers, tokens and invites, from `AccountsAssumption`
(finitely many clients, and a bound that leaves room for two accounts):

* `HandlersKnow`: `Spec => []IInv`.
* `OnlyTheAdmitted`: `Spec => []AdmissionIsEarned`.
* `OldPassphrasesEnd`: `Spec => []RotationSignsOut`.
* `NeverStranded`: `Spec => []AdministratorRemains`.

`Fit` is what stays true of what a handler read: an id is never given out again, so a handler that
holds one of an account since erased finds nobody; whoever it read as active had been let in
(`Vouching`); and while nobody used the setup token twice (`OneAdmin`), nobody is about to erase the one
administrator. `Unsold` and the handlers that hold a use of an invite (`Using`) make the uses add up.

`BlendsProofs` proves for all accounts and calls, from `BlendsAssumption`: `HandlersFit`
(`Spec => []IInv`), `NobodyReadTooSoon` (`Spec => []NobodyIsReadTooSoon`) and `TakenAwayForGood`
(`Spec => []GoneLeavesNothing`). A refresh reads members in one hold of the database and writes their
tracks in another; `Fits` says that whoever it carries across has agreed and that nobody is left to
answer, which stays so because a blend is made once and nobody is invited later.

`SharingProofs` proves for all devices, accounts, links and drops, from `SharingAssumption` (finitely
many clients and ids):

* `SharingStaysSound`: `Spec => []IInv`.
* `RacesStayCheap`: `Spec => []RacesCostOneRowEach`.
* `LinksAreGoodForTheirTime`: `Spec => LinksKeepTheirWord`.

A count that a race may exceed is bounded by the rows and the handlers that are past the check that
would have stopped them, which turn into rows one by one (`Few`, `Bounded`, `Lately`). `HandedOut`
says that a link that was promised is live and was used at most a tick before; `Swept` that what the
last pass of the sweep left has been used since. `LinksMove`, `DropsMove` and the lemmas beside them
reduce the actions to the few ways a table changes.

`CatalogueProofs` proves, as `MCCatalogue` checks, two components. Of the catalogue, for any clients,
encodings, spellings, songs, sizes of a page and bounds, from `CatalogueAssumption`:

* `CatalogueHolds`: `Spec => []CatInv`.
* `RecordingsAreSound`: `Spec => []RecordingsHoldTogether`.
* `NothingIsMissed`: `Spec => []NothingIsSkippedOver`.
* `ChartsStayHonest`: `Spec => []ChartsAreHonest`.
* `FirstWordsStand`: `Spec => FirstWordStands`.

`CatInv` has four parts. `Recordings` says of a publish between its statements what `Holds` of what it
carries: the recording it matched or made is there and sounds like what it publishes, and the name it
read back is still the one in the row. `AlikeIsClose` is the arithmetic of the matching: encodings that
are alike enough on average lack no more than a quarter of each other. `Skipping` follows every way a
row, a follow or a cursor moves. `Counting` says that no day is pruned from which a chart may still be
read; to compare sums over days, `PlaysIn` is shown to be the one function that adds day by day
(`SumExists`, `SumIs`), after which it grows with the table (`SumsGrow`). `Measuring` says that an
answer about songs measured often enough still holds.

The proof of `ChartsStayHonest` failed at first for a good reason. The window before a chart's own
may begin on the oldest day that is kept, and once midnight has passed, the next write deletes that day
under the chart that is being read. With a `Retention` of 3 TLC finds that `ChartsAreHonest` is then
violated. Days are counted from both ends of two windows of one length, so this needs an odd
retention; `RETENTION_DAYS` is 30 (`db_popularity.rs:40`) and what nothing there says, that it must be
even, is now part of `CatalogueAssumption`.

Of the vault it proves, for any devices, passphrases and number of backups kept, from `VaultAssumption`
(the stand-in for no key is not a device, there is a passphrase, at least one backup is kept):

* `KeyIsAlwaysFoundAgain`: `VaultSpec => []KeyIsFoundAgain`.
* `BackupsStay`: `VaultSpec => []BackupsAreKept`.

The first is not inductive, since it says nothing of what handlers carry. `Carried` does: an envelope
that a handler was handed, or means to write, holds the key that is enrolled, and one it means to write
is sealed under the passphrase it is about to set; a backup under way was sealed by a device that has
the key. `OnlyHandler` takes care of the steps that move nothing but a handler. The second rests on
`Kept`: no two backups, nor one that is stored and one under way, have the same time (`Apart`,
`Untaken`), so of the newest ones the oldest has all others before it and there are at most as many
as are kept (`NewestAreFew`); and who has that many newer ones keeps having them.

## What is only model-checked

* Liveness (`EventuallyCaughtUp`, `BothEndsFinish`, `QueueMoves`, `UploadsSettle`,
  `OverBudgetIsTrimmed`, `HoldsItsMembers`, `DevicesCatchUp`): temporal reasoning under fairness
  needs ENABLED, which this prover does not handle.
* Of `Listening`, `NumbersAddUp`. Its figures fold over sets of plays; what a
  fold computes for every input needs induction over data, which is out of this prover's reach.

## Not modelled

* The choice of a blend's tracks, normalisation of text, layout of the listen pages: pure functions of
  strings and numbers. The catalogue takes normalisation as a constant function.
* Hashing, tokens and sealing: a credential is a model value that only its holder has.
* Throttles of sign-ins, which only delay or refuse; the event log, which nothing reads back; exports.
* Proxy, importers and lyrics: outbound HTTP and parsing of other people's pages.
* Covers, tags, re-normalising an index, browsing: files and queries with no step of their own between.
* Migrations: the text of a schema, run once before anything else.
* Wiring, headers, the dashboard, deployment.

## Plan

1. Done: every component with state of its own has a module; the hub, the relay, jams, accounts,
   the social graph, the library, the ways in, playlists, blends, sharing, the devices, the catalogue,
   the vault and the plays have proofs; the relay is proved to implement its abstract specification.
2. Of the model: new favourites and months in `Listening`; who may see a jam; covers of the library.
