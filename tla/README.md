# Constellation Overwatch in TLA+

Models, model-checked instances and machine-checked proofs of the concurrent
core of Constellation Overwatch, a single Go binary that embeds a NATS/JetStream
server and an SQLite database and serves a live dashboard.  Paths are relative
to the repository (`pkg/...`, `api/...`); `PROJECT.json` maps every definition
of a module to the lines it models.

- [1. The system](#1-the-system): components, state, operations, what is hard
- [2. The modules](#2-the-modules): models and their correspondence to the code
- [3. The runs](#3-the-runs): what TLC checks, bounds, fairness
- [4. The proofs](#4-the-proofs): what holds for every value of the constants
- [5. Where code and documentation disagree](#5-where-code-and-documentation-disagree)
- [6. What is not modelled](#6-what-is-not-modelled)
- [7. Plan](#7-plan)

## 1. The system

`cmd/microlith/main.go` (`cmdStart`, 117-291) starts, in this order, the
database, the embedded NATS server with its streams, durable consumers and the
KV bucket `CONSTELLATION_GLOBAL_STATE`, the worker manager, the API router and
the web server, and stops them in reverse order (`pkg/services/service.go`).

```
 devices --NATS publish--> JetStream streams --pull--> workers --> registry, cache
    |                                                              (in memory)
    +--------- KV put ------------+
                                  v
 API / dashboard --> SQLite --> KV bucket --watch--> broadcaster --> SSE clients
 requests            (1 conn)                        (shared copy)   (1 channel each)
    |                   ^
    |                   +-- invites, users, passkeys, sessions <-- browsers
    +--NATS publish--> event streams --subscribe--> fleet page's SSE --> SQLite again
 admin requests --> api_keys rows --> users of the NATS server (in memory)
```

| component | state it keeps | operations | module |
|---|---|---|---|
| Overwatch broadcaster and dashboard feed (`web/handlers/overwatch.go`) | shared copy of the bucket, subscribers, per client: channel, dirty, removed, known | start and load, watch and restart, apply, broadcast, drain, subscribe, flush, snapshot | `OverwatchBroadcast` |
| Entity and organization services (`api/services/entity.service.go`, `organization.service.go`, boot in `workers/registry.go`) | rows in SQLite, keys in the bucket | create, update, delete of both; `syncToKV`; `syncOrgNameToKV` (a goroutine); `InitializeKVStoreFromDB` | `EntityStore` |
| Both together, with the devices that write the bucket | the above; what each revision of the bucket holds | the above | `LiveDashboard` |
| Workers and registry (`pkg/services/workers`) | registry of known entities, cache of entity states; consumers' state in JetStream | fetch, handle, ack, nak, stop | `WorkerDelivery`, `AtLeastOnce` |
| API keys and NATS users (`apikey.service.go`, `web/handlers/admin.go`, `embedded-nats/nats.go`, `web/server.go`) | key rows; the running server's options | create, revoke, restore at a start | `NKeyUsers`, `KeyAccess` |
| Invites and the first administrator (`invite.service.go`, `user.service.go`, `web/handlers/invite.go`, `main.go` `bootstrapAdmin`) | organization, user, invite and session rows | bootstrap, create, revoke, expire, finalize | `Invites` |
| Passkey ceremonies and sessions (`auth.service.go`, `web/handlers/auth.go`, `api/middleware/auth.go`) | ceremony, credential and session rows, the users' set-up flag | begin and finish of both ceremonies, expiry, the middleware | `Passkeys`, `PasskeyAccess` |
| Start and shutdown, schema (`main.go`, `service.go`, `web/server.go`, `db/service.go`) | database file and its tables, started services, one deadline | create, verify, migrate, start in order, stop in reverse | `Lifecycle` |
| Fleet, organization and entity streams (`web/handlers/datastar.go`, `pages.go`, `sse_handler.go`) | a subscription per page, the page itself | render, subscribe, re-query and patch on every event, answer a request with a patch | `FleetTable` |
| Entity state merge (`overwatch.go` 899-1477, `telemetry.go` 486-944) | none (pure) | parse keys, merge the keys of an entity | |
| Map view (`web/handlers/map.go`) | | none: no route calls it, the map page watches `/api/overwatch/kv/watch?view=map` | |
| Video status (`mediamtx/client.go`, `web/handlers/video.go`) | cache of paths | poll and replace, read | its goroutine in `Lifecycle` |
| Terminal UI and log hook (`pkg/tui`, `logger/hook.go`) | bounded channel of lines | write, drop when full, close | |
| Middleware other than sessions (`api/middleware`) | time of last use of an API key | look a key up | |
| Metrics, profiling, updater; views, icons, generated code | counters; none | | |

What makes them hard, and what would make them correct:

- **Two stores, no transaction.**  A request writes SQLite, publishes an event
  and writes the bucket; each step can fail and the process can stop between
  them.  Devices write the same keys as they like.  Correct: the bucket is
  complete whenever nothing is under way or has failed; a deleted entity stays
  deleted; the key says what the row says, unless a device said otherwise.
- **One copy, many readers, bounded channels.**  The broadcaster applies an
  entry under one lock and sends under another, clients subscribe, fall behind
  and leave at any point, the watcher is lost and replays.  Correct: no write
  escapes the copy, no change is lost on its way to a client, no channel is used
  after it is closed, cards do not go back in time, everyone converges.
- **At-least-once delivery.**  Acknowledgements come late or never, batches are
  cut short by a stop or a crash, a handler's effect is in memory.  Correct: a
  message is settled only after it was handled or has had its deliveries, a
  clean stop leaves nothing half done.
- **Rows against the options of a running server.**  Options are replaced as a
  whole by concurrent requests, and vanish with the process.  Correct: nobody's
  user is lost to another request, a revoked key's user goes and stays away.
- **Check, then act, on rows.**  Finalizing an invite and finishing a ceremony
  read a row, decide, and write others later; a second request, a revocation, an
  expiry or a deletion falls in between.  Correct: only the invited become
  users, nobody loses the way in unnoticed, full access follows a credential.
- **Two ways to one page.**  A page's request answers with a patch while the
  page's stream patches the same row from the event.  Correct: the row shown is
  the row, or what puts it right is on its way.
- **One order of start, one deadline of stop.**  Each start may fail or be cut
  off and the next finds what it left.  Correct: whoever is served is served by
  everything, and a stop cuts nothing off before its deadline.
- **One database connection** that a goroutine keeps while it talks to NATS.
  Correct: everybody gets it in the end.

`PROJECT.json` lists each hazard at the line where it bites with the properties
that would catch it, or the reason there is none.

## 2. The modules

Each `M.tla` is a model, `MCM.tla` its instance for TLC, `M_proofs.tla` its
theorems.  `AtLeastOnce`, `PasskeyAccess` and `KeyAccess` are abstract
specifications that a model is shown to implement, and `LiveDashboard` composes
two models.  Every module is the composition of the handlers
that share its state; what a call does outside of them is nondeterministic.

### OverwatchBroadcast

The broadcaster with its watch goroutine and any number of SSE handlers.  A
value of a key is named by the revision the bucket gave it, and the state of an
entity is the map of its keys to these names: this is all that
`mergeOverwatchEntityData` is computed from, and it tells apart what the
properties compare.

| code | model |
|---|---|
| `GetAllKVEntries` in `loadInitialState`: list the keys, `Get` each | `StartLoad`, `LoadKey`, `FinishLoad`; a `Get` that fails leaves its key out, which the watcher's replay makes up for |
| `Keys()` fails, as it does on an empty bucket | `StartFails`: the client is refused and may come again |
| `Subscribe` (lock, register, snapshot) after `Start` | `AlreadyStarted`, `Register` |
| `watch`, `WatchKV`, restart after a second | `WatchStart` (replay of the last entries with delete markers), `WatchStop` |
| `applyEntry` | `ApplyNothing`, `Apply` |
| `broadcast` under `mu.RLock`, `sendOverwatchUpdate` | `BroadcastBegin`, `Send`, `SendFull`, `DrainOne`, `DrainDone`, `BroadcastEnd` |
| `queueOverwatchUpdate`, `queueFullOverwatchSnapshot`, `flushOverwatchUpdates` | `ReceiveUpdate`, `ReceiveFullSnapshot`, `TakeSnapshot`, `Flush` |
| request context done, `unsubscribe`, return | `Cancel`, `Unsubscribe`, `Leave` |
| the process stops or is killed | `Crash`: the bucket is on disk, all else is lost |

`mu` is a guard: whoever holds the write lock does all its work in one action,
and `broadcast`, which has the read lock over several steps, is the state
`sending` that write-lock actions wait for.  The watcher of the NATS client is
external: it first replays the last entry of every key in revision order.
`AtRest(c)` says that nothing is under way to client `c`, and `CardsCurrent` that
the cards of such a client are the state of the bucket.

### EntityStore

Rows, keys, requests, the rename goroutine, a crash, a boot, and the devices,
which as NATS clients of the process put any value of `DeviceValue` into the key
of an entity, or delete it.  Every write of
fields or of a name carries the tick of its time.  Each call that leaves the
process (SQL, publish, `Get`, `Put`, `Delete`) is a step; between two steps
anything else may happen.  `ConnFree` is `MaxOpenConns: 1` (`db/service.go`):
the goroutine of a rename holds the connection from its query until its rows are
closed, with calls to NATS in between.

Each call can fail, and each failure goes on as the code does:

| call that fails | model | what follows |
|---|---|---|
| reading a row back, publishing, `Put` or `Delete` of a request | `SideEffectFails` | the request ends with an error, the row stays |
| `Get` of a request | `GetEntryFails` | taken for a key that does not exist |
| `SELECT` of the organization's name | `ReadOrgNameFails` | the key is put without a name |
| query or rows of `syncOrgNameToKV` | `SyncBreaksOff` | what is left keeps the old name |
| its `Get` or `Unmarshal`; its `Put` | `SyncGetFails`, `SyncPutFails` | the key keeps the old name, the loop goes on |
| query or rows of the boot | `BootBreaksOff` | logged; the server starts with what there is |
| `Scan` or `Create` of the boot | `BootEntryFails` | logged; the loop goes on, the row has no key |

`failed` and `disturbed` remember which entities a property has to except:
`failed` those a request or the boot failed on, or whose key a device deleted,
since the server last stopped; `disturbed` those whose requests or copies of a
name overlapped, failed or were cut short, or whose key a device changed.

### LiveDashboard

`EntityStore` and `OverwatchBroadcast` in one process, with the devices.  The
store says what a key holds, the feed names it by its revision, and `content`
has what was put at each revision: the fields and the name.  `Key` is the
entities' ids (`shared.EntityKey` returns the id) and the devices' keys, which
`parseOverwatchKVKey` cuts down to an id.

| step | in the store | in the feed |
|---|---|---|
| `Put` | `PutEntry`, `SyncPut`, or `BootEntry` of a key that is missing | `KVPut` |
| `Remove` | `RemoveEntry` | `KVDelete` |
| `LeavesBucket` | every other step but a crash and a device's write | none |
| `DeviceWritesOwn` | none | `KVPut` or `KVDelete` of a device's key |
| `DeviceWritesEntity` | `DeviceWrite` of any value, or of the one that is there (telemetry that leaves fields and name alone) | `KVPut` or `KVDelete` of the entity's key |
| `FeedStep`, when the server is up | none | every step of watcher, loop and client |
| `Stop` | `Crash` | `Crash` |

`BucketAgrees` says that the two have the same bucket.  `CardShowsRow` is what
an operator relies on: when nothing is under way for an entity nor for a client,
its card has the fields of its row and the name of its organization, and there
is none without a row.  It excepts what the store excepts (`disturbed`, with it
what a device has put in place of the row's) and the last card of a client that
was drained (`lossy`).

### WorkerDelivery and AtLeastOnce

`AtLeastOnce` says what the workers promise of a message, with five variables
and no worker: delivered at most `MaxDeliver` times, done only after a handler
succeeded, given up only after the last delivery.  `WorkerDelivery` is the code:
`processMessages` with its batches, the event and telemetry handlers on the
registry and the cache, `Manager.Stop` (unsubscribe, cancel, wait, close the
connection), a stop that runs out of time, a crash, a start.  A `Fetch` is two
steps, as what it waits for may come after the cancel (`BeginFetch`, then
`Fetch`, `FetchCut` or `LoopEnds`), and a `PullSubscribe` that fails
(`SubscribeFails`) ends its worker for the life of the process, as
`Manager.Start` only logs what a worker returns.  Entities have rows and keys;
devices put and delete keys, so that the telemetry worker can load a state of an
entity that never had a row. The model implements `AtLeastOnce` with the
identity as refinement mapping, as the abstract variables are variables of the
model (`sent`, `count`, `acked`, `givenUp`) or history of it (`handled`).  The
consumer is external and modelled as `nats.go` configures it: explicit
acknowledgement, `AckWait`, `MaxDeliver: 3`.  The entity and the command worker
run the same loop with handlers that only parse and log and are left out, as are
the fields of a cached state, which nothing reads.

### NKeyUsers and KeyAccess

An API key's row against its entry in the options of the NATS server.
`KeyAccess` says what they promise of each other with no options, lock or copy:
one key at a time gets its user while it is created, or loses it when it is not
valid any more.  A change
of the options is three steps under the mutex: clone and change, `ReloadOptions`,
keep the clone.  A request of an admin is the steps of `HandleCreateAPIKey` or
`HandleRevokeAPIKey`; errors that the handlers only log go on as they do there.
`Restore` is the start of the web server, and `RestoreFails` covers a failing
query, a failing reload and rows cut short (`ListNKeyData` does not ask
`rows.Err()`), which leaves any part of the users out.

### Invites

How a person becomes a user.  `bootstrapAdmin` is one action per statement
(`CountUsers`, `DefaultOrg`, `CreateAdmin`, `BootInvite`), run by every boot; a
finalization is `ReadInvite`, `LookupUser`, `CreateUser`, `AcceptInvite`,
`CreateSession` and the errors of each.  Between the steps of one request come
other finalizations, an administrator's invites and revocations, expiry, the
deletion of the organization, and a crash.  Registering a passkey is one step
here and detailed in `Passkeys`.  `raced` remembers invites revoked while a
finalization had read them; `hurt` users whose way in was taken by a failing
statement, a crash or a session that ended, so that a property can say that
nothing else does it.

### Passkeys and PasskeyAccess

`PasskeyAccess` says what the ceremonies promise, with two variables: a session
gets full access only as a user who has a credential by then, and credentials go
with their user and not before the sessions.  `Passkeys` is the code: both
ceremonies as rows (`Begin...`), their finishing requests statement by statement
(SELECT and DELETE of the ceremony, the credential's INSERT, the two flags, the
sign count's read and write, the session), the middleware that lets a request in
with a session that may end a step later.  A user may be given a set-up session
more than once, as two finalizations of one invite do.  The refinement maps
`enrolled` to the users with credential rows and `access` to the holders of
sessions without the set-up flag.  A credential bears the name of its ceremony;
`count` is the stored sign count, `signed` the authenticator's own.

### Lifecycle

`cmdStart` from the first statement of the schema to `os.Exit`, over any number
of starts on one disk.  The schema is the prefix of its statements that were
executed (`schema.sql` is run one statement after the other, without a
transaction); a start either makes it, or verifies the tables it requires,
makes it anew if one is missing, and migrates.  The services are up or not, a
worker is idle, busy or ended, a request is short or a stream that only its
client ends.  A stop is the reverse order with one deadline that may pass at any
time.  Errors of a start end the process without a stop, as `os.Exit` does.

### FleetTable

The fleet page against the rows.  A page is rendered from a SELECT (`Load`),
subscribes later (`Subscribe`), then reads its events one by one: an event names
a row, which the stream reads again (`ReadRow...`) and sends as a patch.  The
page's own requests answer with patches on a connection of their own.  What a
page shows of a row is the number of elements with the row's id and the versions
they show: a patch addresses every element with that id, an insertion looks for
none.  `missed` remembers rows excepted for a lost event or an answer that was
overtaken.

History variables (`lossy`, `failed`, `disturbed`, `handled`, `recent`, `raced`,
`hurt`, `missed`, ...) are written and, in guards, never read.

## 3. The runs

A cfg gives values to constants only.  Deadlock is checked where the system
cannot stop (`overwatch`, `lifecycle`); the other models come to rest when a
bound is used up.

| run | asks | instance |
|---|---|---|
| `overwatch` | does a change get lost on its way; is a closed channel used; does the copy miss a write; are cards and total right at rest; do cards go back; does everyone converge | 1 client, 2 entities with a key each, channel of 1, 4 writes, the watcher lost once, alone or with the process |
| `overwatch_ghost` | counterexample, section 5 | the same |
| `entity` | is the bucket complete; does a rename revive a key; are undisturbed keys current; is every request answered | 2 entities of 1 organization, 2 requests at a time, 4 writes, a failing call, a crash, devices that delete keys |
| `entity_fields` | counterexample, section 5 | 1 entity, 1 request at a time, 4 writes, no device, nothing fails |
| `delivery_safety` | is it at-least-once; is a clean stop clean; does the registry follow the events | boot, shutdown and telemetry of an entity, batches of 2, 2 deliveries, an expiry, a failing read or subscription, a stop or crash, devices that put and delete the key |
| `delivery_live` | is everything settled; does a stop end | a malformed message and a telemetry message, 3 deliveries, the same faults |
| `nkeys` | users against rows; does changing all options under a lock implement `KeyAccess`; does every request end | 2 keys of 1 organization, 2 admin requests, 2 failing steps, a restart |
| `invites` | who becomes a user; is an accepted invite a user's; does a revocation last; who loses the way in | administrator and guest, 3 invites (2 for the administrator), 2 finalizations, 2 sessions, a failing statement, a crash |
| `passkeys` | does full access follow a credential; is set-up complete only with one; can a stored sign count be ahead | 2 users, 2 sessions, 2 ceremonies, 2 finishing requests, 2 signatures, a failing statement |
| `lifecycle` | is a served client served by all; does a stop cut anything off; does a signal end the process | 3 workers, 2 requests, 6 statements of which 3 make required tables, 2 failures, 2 crashes, a fresh disk or an old one |
| `fleet` | is what a page shows right or owed; does it settle | 1 entity, 1 page loaded twice, 2 requests, 3 writes, a failure |
| `fleet_twice` | counterexample, section 5 | 2 writes, nothing fails |

**Bounds.**  A channel of one message overflows on the second, the interesting
case that 32 would need 33 writes for; four writes are a put and a delete of each
of two keys, or put, delete, put again and one more.  One client is sent to,
drained, leaves and comes back, and the two entities tell whether an update of
one hides one of the other; what two clients do to each other (one is sent to
while another is drained or registers) is covered by the proofs, which have any
number of them.  Two requests show overlap on one entity and independence of
another; four ticks are a create of organization and entity, a rename and an
update, or two renames.  Batches of two have a message in front of and behind a
failing one; two deliveries a first and a last, and three one in between.  Of
what devices can put into a key (`DeviceValue`), `entity` has the deletion, which
is what completeness and the copy of a name could stumble over; values that
overwrite fields and name are part of the `LiveDashboard` instance below, and the
theorems have any.  A
second key tells whether a clone loses it.  A second invite of the same person
tells whether one replaces the other, and two finalizations can hold one invite.
Two ceremonies are a registration and a log-in, or two registrations at once;
two signatures are an older and a newer sign count.  Three required tables are
none, some and all; the fourth statement makes the table of sessions and two
more make what no start checks.  Two page loads are one before and one
after a write, and three writes a create, an update and a deletion.  For the
safety properties, section 4 replaces these bounds by any.

**`LiveDashboard`** has an instance too, `MCLiveDashboard` with
`LiveDashboard.cfg`: 1 entity, 1 request at a time, 3 ticks, a crash, 3 writes to
the bucket, 1 client with a channel of one message, no device key, and devices
that delete the entity's key, put a value of their own without fields or name
into it, or put what is there once more.  TLC checks `BucketAgrees` and
`CardShowsRow` over its 10,849,205 states in 10 minutes with two workers.  It is
not among the runs because what it could find that the runs of its two parts do
not is in the dozen lines that join them, and these are proved; it is there to be
run again (`tlc -config LiveDashboard.cfg MCLiveDashboard.tla`) when a part
changes.

**Symmetry** is used in `Invites` (finalizations, the administrator's two
invites) and in `Passkeys` (all four sets), which have no liveness properties.

**Fairness.**  The goroutines run (`WF` on the steps of watcher, loop, worker,
request and stream); nobody has to write, connect, fail, crash or leave.

- `OverwatchBroadcast`: the receive and the flush of a client are separately fair,
  because Go's `select` picks among its ready cases at random.
- `EntityStore`: weak fairness of a request that waits for the connection is
  enough: the renames, and so the copies, are bounded in an instance, and in the
  code `database/sql` serves those who wait in turn.
- `WorkerDelivery`: `AckWait` passes (`WF(Expire)`) and a server that is down is
  started again (`docker-compose.yml:6`, `restart: unless-stopped`); a stop that
  times out is possible and never needed.
- `NKeyUsers`: a request is strongly fair, since `sync.Mutex` hands itself to a
  goroutine that has waited a millisecond.
- `Lifecycle`: short requests, batches and the poller end, and the deadline
  passes; no client has to leave its stream, so it is the deadline that ends a
  stop with a stream open.
- `FleetTable`: requests are served, a page that is rendered opens its stream,
  and the stream reads its events.

**Mutants.**  Every property of a passing run has a mutant: a plausible bug in a
definition it depends on (the name says which: `DrainDone_SendUpdate`,
`Unsubscribe_NoLock`, `ListNKeyData_All`, `Usable_AnyStatus`, ...) under which
TLC finds the property violated.

## 4. The proofs

All are checked by TLAPS, for any finite sets and any bounds, from the named
`ASSUME` of each module, which says no more than what its constants are.  Every
safety property the passing runs check is proved, and all three refinements.
Beyond them, what a user sees at rest: the safety halves of `Converges` and of
`Settles`, and the way from a row to a card.

| module | theorem: what is proved |
|---|---|
| `OverwatchBroadcast_proofs` | `TypeCorrect`: `[]TypeOK`, so no channel exceeds its capacity; `FeedInvariant`: `[]FeedInv`; `NoUpdateLost`: `[]ViewOrOwed`; `SendsOnOpenChannels`: `[]NoSendOnClosedChannel`; `NoWriteMissed`: `[]BucketTracked`; `TotalsRight`: `[]TotalMatches`; `CardsInOrder`: `CardsNeverGoBack`; `CardsRight`: `[]CardsCurrent` |
| `EntityStore_proofs` | `StoreInvariant`: `[]StoreInv`; `StoreTypes`: `[]TypeOK`; `BucketComplete`: `[]RowHasKey`; `RenamesReviveNothing`: `[]RenameRevivesNoKey`; `UndisturbedKeysRight`: `[]UndisturbedKeyCurrent`; and of `LiveDashboard`, from `LiveAssumption`: `FeedReadsStore`: `[]BucketAgrees`; `CardsShowRows`: `[]CardShowsRow` |
| `WorkerDelivery_proofs` | `DeliveryInvariant`: `[]DeliveryInv`; `TypeCorrect`: `[]TypeOK`; `ImplementsAtLeastOnce`: `AtLeastOnceSpec`; `StopIsClean`: `[]CleanStop`; `CacheBounded`: `[]CacheOfEntities`; `RegistryRight`: `[]RegistryFollowsEvents` |
| `NKeyUsers_proofs` | `KeysInvariant`: `[]KeysInv`; `KeysTypes`: `[]TypeOK`; `OptionsKept`: `[]OptionsAreCurrent`; `NoUserLost`: `[]LiveKeyHasUser`; `RevokedUsersGo`: `[]RevokedKeyHasNoUser`; `UsersStayRemoved`: `RevocationLasts`; `KeysImplementAccess`: `AccessSpec` |
| `Invites_proofs` | `InvitesInvariant`: `[]InvitesInv`; `InviteTypes`: `[]TypeOK`; `UsersWereInvited`: `[]MembersWereInvited`; `AcceptedAreUsers`: `[]AcceptedMeansMember`; `RevokedInvitesStay`: `RevocationLasts`; `NobodyLosesTheWay`: `[]NobodyStranded` |
| `Passkeys_proofs` | `PasskeysInvariant`: `[]PasskeysInv`; `PasskeyTypes`: `[]TypeOK`; `CompleteHasCredential`: `[]FlagFollows`; `CountBehindAuthenticator`: `[]SignCountNotAhead`; `PasskeysImplementAccess`: `AccessSpec` |
| `Lifecycle_proofs` | `LifecycleInvariant`: `[]LifecycleInv`; `LifecycleTypes`: `[]TypeOK`; `ServedIsComplete`: `[]ServedByAll`; `StopIsGraceful`: `[]NothingCutOff` |
| `FleetTable_proofs` | `TableInvariant`: `[]TableInv`; `TableTypes`: `[]TypeOK`; `NoRowForgotten`: `[]RowOwed`; `RowsRight`: `[]CurrentAtRest` |

None of the properties is inductive by itself.  What they rest on:

**Feed.**  `ViewOrOwed` says that for every subscriber and entity the last word on
the entity, in the channel or with the client, is the copy's state.  A broadcast
keeps it only if the update in hand is the state of the copy and the drained
channel is a subscriber's (`SenderInv`), registration only if the client has
nothing left of a former connection (`ConnectionInv`), and a snapshot or an
update only if no entity is both dirty and removed and markers are found with
drained clients alone (`ClientInv`).  `NoSendOnClosedChannel` is a part of
`SenderInv`.  On top of `FeedInv`: `TrackInv`, a key that was never written is
nowhere; `TotalInv`, every update carries the number of entities the client will
know once it has received it; `AgeInv`, the values of a key are ordered in age
along their way, from the card over what is dirty, the channel, the copy and the
stream to the bucket, and only the end of the load, when no client shows
anything, sets the copy without regard to that.  `CardsCurrent` joins three of
these: by `ViewOrOwed` a client at rest shows the copy, by `BucketTracked` the
copy is the bucket once the stream is read, and by a part of `AgeInv` an entity's
state is merged from the copy.

**Store.**  `RowHasKey` would break if a `Delete` in flight could meet a row:
only an entity without a row has its key removed by a request (`RemovalInv`),
and since an id is given out once the row does not come back (`IdInv`).  A boot
passes every row before the first request, and what it leaves without a key it
has failed on (`BootInv`); a key that only a device deleted is in `failed` as
well. `RenameRevivesNoKey` rests on `SyncInv`: while a name is copied the held
connection keeps the rows, and so, by `RemovalInv`, the keys from every
request.  For `UndisturbedKeyCurrent` each request and each copy of a name is
followed from the row it wrote to the key it will put (`OrgInv`, `RenameInv`,
`WorkInv`, `RestInv`).

**From rows to cards.**  Every step of `LiveDashboard` is a step or a stutter of
the store (`LiveStoreStep`) and one of the feed (`LiveFeedStep`), so whatever is
proved of either holds of both together.  `AgreesStep` is the only induction
left: `content` grows by what the store or a device put, with the revision the
feed gave it.  Of devices it assumes nothing: they put any value and delete any
key. `CardShowsRow` then follows from a row to its key by
`UndisturbedKeyCurrent`, from the key to its revision by `BucketAgrees`, and
from there to the card by `CardsCurrent`.  `LiveAssumption`, which says what the
constants of the feed are, is a hypothesis of these two theorems.

**Workers.**  What the consumer may deliver again is unsettled and has
deliveries left (`QueueInv`), what a worker has in hand has been delivered, what
it acknowledges was handled (`HandInv`), what counts as handled was
(`HistoryInv`); each action is then a step of `AtLeastOnce` or a
stutter.  `StopInv` follows the order of a stop, and `CacheBounded` the rows and
keys that have been: the cache is within the entities created and those a device
has put a key of.  `OrderInv`: while nothing of an entity is delivered twice, its
last event is behind the others wherever they still wait, in the queue and in
the batch, and nothing of it is handled later.

**Keys.**  The lock is held from the clone to the end (`LockInv`), the clone is
what the server runs with, changed by one key (`CloneInv`), and where a request
is tells what its row can be (`RequestInv`).  For the refinement, the users of
`KeyAccess` are the server's: an addition is of a key a request is creating
(`Issued`, `Pending`), a removal of one that is valid no more, and a start gives
users to valid keys alone (`LiveKeys`).

**Invites.**  A finalization has read an invite that was pending; what it can be
by now, and who has a row by which step, is `RequestInv`, and `BootInv` that an
administrator is made for an organization.  `WayInv`: an invite revoked under a
finalization whose user is still to be made has cost that user the way in.

**Passkeys.**  `TypeOK` says with the types what the foreign keys do: a
credential and a live session have their user.  A ceremony that is under way is
of a user who exists, and complete sessions are of users with credentials
(`CeremoniesSound`, `SessionsSound`, `FlagsSound`); where a finishing request is
tells what it has established (`AtStep`).  The refinement follows from these: the
one step that gives full access comes after the credential's INSERT.

**Start and stop.**  Which services are up follows from the phase (`UpByPhase`),
which tables exist from the statements passed (`SchemaSound`), and a service is
stopped in time only when it is `Drained`.

**Fleet page.**  What a page shows of a row is the row's version, or an event or
an answer that will patch it is on its way and later than whatever could undo
it: `Unborn`, `Announced`, `HandOwed`, `AnswerCurrent`,
`Closed`.  `CurrentAtRest` follows from `RowOwed` when nothing is left that could
patch the row.

**Only model-checked:** liveness (`Converges`, `RequestsEnd` in two models,
`EverySettled`, `StopEnds`, `SignalEnds`, `Settles`).  It follows from fairness
and `ENABLED`, which the prover does not handle.

## 5. Where code and documentation disagree

Each is a run TLC ends with a counterexample; `PROJECT.json` quotes the lines.

- `overwatch_ghost`: a client whose channel is drained can keep the card of an
  entity that is gone.  The full snapshot removes what the client *knows*; an
  entity still dirty is not known yet, and its `Removed` update was drained.
- `entity_fields`: `syncOrgNameToKV` gets and puts a whole value without its
  revision and can undo an update made in between.
- `fleet_twice`: a page inserts a row it creates twice, from its request's answer
  and from its stream; a page rendered between a row and its event does too.

Also seen, and excepted by name in the properties or named here rather than
reported by a run:

*Feed.*  A client of an empty bucket is refused with 503 instead of being told to
wait, since `Keys()` of an empty bucket is an error (`nats.go:607-610`,
`overwatch.go:389`, `412`).  After a drain the displayed total may stay old until
the next card changes.  The keys of one entity are merged in the order of a Go
map (`overwatch.go:947`), and numbers narrowed without a range check (`1371`).

*Bucket and rows.*  `syncToKV` overwrites telemetry that is put between its
`Get` and its `Put` (`entity.service.go:430-434`).  Deleting an organization
leaves the keys of its entities in the bucket and the users of its API keys in
the server (row state `gone`).  A boot that cannot create a key, or whose query
fails, logs it and the server runs with a bucket that lacks keys
(`registry.go:129`, `171`; `manager.go:53`); a copy of a new name skips a key it
cannot read, which keeps the old name until the next rename
(`organization.service.go:219`).  Devices are not kept from the keys of entities:
what they put is overwritten, in part, by the next update.

*Workers.*  Telemetry of an entity created through the API is acknowledged and
dropped until a boot event or a restart registers it (`telemetry.go:95`,
`event.go:118`; `README.md:116-130`).  The cache keeps the state of a deleted
entity (`telemetry.go:174`).  A worker whose `PullSubscribe` fails stays ended
while the server runs and its messages wait for the next start (`base.go:61`,
`manager.go:92`; `Deserted` in `EverySettled`).  A refused message is delivered
again at once, so a database that is busy for a moment uses up its deliveries
(`base.go:101`).  A bootsequence that is delivered again after the shutdown that
followed it registers the entity again.

*Keys, invites, passkeys.*  A key revoked between its `INSERT` and the addition of
its user keeps the user until the next start (`raced` in
`RevokedKeyHasNoUser`).  An invite revoked while a finalization has read it is
accepted all the same (`raced` in `RevocationLasts`).  A new user whose session
could not be stored, or an administrator whose bootstrap stopped before the
invite, has no way in that the code restores (`hurt` in `NobodyStranded`).  The
answer `ORG_MISMATCH` cannot occur, as there is one organization.
`needs_passkey_setup` of a user is never read for log-ins.  Two registrations at
once add two credentials; a set-up session whose user got a passkey elsewhere
stays refused with 409 until it ends.  Two log-ins can store a sign count lower
than one already stored, never one above the authenticator's.
`CleanupExpiredInvites` and `CleanupExpiredSessions` have no caller.

*Start and stop.*  A crash while the schema is made leaves a file that the next
start takes for a database: it lacks a table, is made anew, and fails at the
first `CREATE TABLE` that exists (`db/service.go:115`); a crash after the last
required table leaves indexes, triggers and views that nothing ever makes.  An
open event stream uses up the five seconds of a stop, so that workers and
database are stopped with nothing left of them (`main.go:278`).  The
goroutine that copies an organization's name is waited for by no stop and can be
cut off between two keys (`organization.service.go:180`; `Crash` in
`EntityStore`).  A signal that
comes before `signal.Notify` ends the process at once.

*Fleet page.*  An answer on its way can put back an older version of a row, or the
edit form of a row that is gone; nothing sends a lost event again (`missed`).

## 6. What is not modelled

- **The contents of an entity's state** and how its keys are merged.  The merge is
  a function without state or control; every module takes it as one, and no
  property of the feed depends on which.
- **HTML, payloads of events, permissions' subjects, logging, metrics.**
- **Time**, except as nondeterminism: tickers, `AckWait`, retry delays, expiry and
  deadlines happen at any moment.
- **The NATS server, JetStream and SQLite** themselves: only what the code uses.
  A crash loses what is in memory and nothing that was written.
- **The map view** (`map.go`) is dead code.  **Video**, **terminal UI**, **metrics** and the
  **updater** read or replace one value at a time; the goroutine of the video
  status is part of `Lifecycle`.
- **The organizations' and entities' tables**: the same stream as the fleet's over
  other events.
- **The entity and command workers' handlers**, which parse and log, and the fields
  telemetry writes into a cached state, which nothing reads.
- **Views, icons and generated code**: about half of the counted lines
  (`*_templ.go`, icon tables).  They hold no state, so the share of lines that
  definitions can honestly be mapped to stays well below a third.

## 7. Plan

Done: every module of section 2, its run and its proofs; the order was feed,
store, workers, keys, then invites, passkeys, start and stop, fleet page, and
the composition of store and feed.

Dropped: a module for the merge of an entity's keys (data without control) and
one for the map view (dead code).

Left:

- the organizations' and entities' tables, as instances of `FleetTable` with their
  events, and the order in which an entity's keys are merged, as a choice of the
  step that merges them.
