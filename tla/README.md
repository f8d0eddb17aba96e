# miauflix: a verification project

TLA+ models of miauflix, a self-hosted server that streams movies from torrents:
its backend, the sessions of its front end and its package that reads release
names. Every definition is read off the TypeScript sources; `PROJECT.json` maps
each one to its lines. TLC checks the models on small instances; TLAPS proves
the theorems for every instance.

The backend is one Node.js process over one SQLite database. Code between two
`await`s is atomic; at an `await` any other request, timer or callback may run.
So an action is **one database statement, timer or callback with the code that
follows it up to the next `await`**, and the state that a handler carries over
the `await` is in its `task` (or `job`), with `pc` naming where it is.

## 1. Inventory

| Component | State it keeps | Operations | What is hard about it | Correct when |
|---|---|---|---|---|
| Refresh-token sessions (`auth.service.ts`, `refresh-token.repository.ts`, `auth.routes.ts`) | table `refresh_tokens`, one row a session | login, refresh (rotation), logout, session lookup, eviction of the oldest session, expiry | each operation is 2 to 4 statements that interleave with those of other requests; crashes between them | chains of tokens never fork; spent tokens stay dead; device slots are respected |
| Streaming keys (`auth.service.ts`, `in-memory-cache.ts`) | table `streaming_keys`; a cache of verified keys; salt and lifetime | create, verify, reload, cache cleanup | the cache is filled from a read made before; salt and lifetime change meanwhile | a key is accepted only for a bounded time after its expiry |
| Metadata worker pool (`source-metadata-file.service.ts`) | queue, count of workers, services with slots | `getSourceMetadataFile`, `workerCycle`, `convertToFileWith` | workers share the queue and the slots; errors and timeouts on every path | caps hold, no slot leaks, no call is lost or answered twice, calls are answered |
| Downloads and storage (`download.service.ts`, `storage.service.ts`, `storage.repository.ts`) | table `storage`; torrents of the WebTorrent client; data on disk | stream, start, create record, clean up, remove, update progress, 'delete' event | three stores tied by one event; cleanup is a loop of awaits; torrents outlive timeouts; restarts empty the client | no torrent without a record; data is accounted for; a cleanup alone makes room and evicts no more than it must |
| Browser sessions (front end `auth.ts`, `auth.routes.ts`) | cookies of a browser; the session shown | open page, log in, refresh, log out, list sessions | tabs share cookies; answers come in any order | no session that is open is lost; a page is served as the user it shows |
| Streaming (`stream.service.ts`, `download.service.ts`, `download.utils.ts`) | open streams with their pumps | choose a source, parse a range, pump, cancel | backpressure by polling; a client that stalls or leaves; a torrent removed under the stream | what was asked for is sent, once, in order |
| Setup and users (`auth.service.ts`) | table `user` | `configureUsers`, `setupAdmin`, `createUser` | find, then insert | one first administrator |
| VPN detection and gate (`vpn.service.ts`, `source.service.ts`) | status of the VPN; `vpnConnected`, `startPromise` | `checkVpnStatus` every 5 s, connect/disconnect events, `refreshVpnState`, reload | checks that overlap and end out of order; a probe that resolves after an event | no search behind the VPN goes ahead on a state nobody reported; searches pause when the VPN stays down |
| Source search (`source.service.ts`, `content-directory.service.ts`, `singleflight.util.ts`) | table of sources, `lastProcessedRequests`, calls in flight | `searchSourcesForMovies`, on-demand search, `syncMissingSourceFiles` | background and on-demand searches share rate limits and rows; the key of a single flight may be stale | each movie is searched once at a time; none is starved |
| Source statistics (`source.service.ts`, `scheduling.util.ts`) | date of the next check of each source | `syncStatsForSources` | failed checks stay first; intervals are computed from the last ones, at random | intervals follow how fast the numbers change; no source starves |
| Scheduler (`scheduler.ts`) | tasks, timers | `scheduleTask`, `cancelTask` | the next timer is set only when a run ends; a shutdown cancels tasks at work | runs of one task never overlap, and go on |
| Rate limiting (`rateLimiter.ts`, `dynamic-rate-limit.ts`, `rate-limit.middleware.ts`) | windows of call times; estimates of a server's limit | `throttle`, `shouldReject`, `getThrottle`, `reportResponse` | callers that wait overlap callers that arrive; estimates are learned from what a server answers | calls are spaced as the rate says; estimates never block or free everything |
| Configuration (`configuration.service.ts`, `config.routes.ts`) | values in memory, `config.json`; services to reload | `init`, `runSetup`, `updateConfigs`, `setValue`, reload, restart | keys refused half-way, saves that fail, updates that overlap, restarts with another environment | success means in force; what was saved is what a restart works with |
| Media lists (`list.service.ts`, `list.syncronizer.ts`) | a row per list, its media, a cache of genres | read, create, load, replace | visitors and the synchronizer load the same list | a list is never emptied and never half |
| Catalogue sync (`tmdb.service.ts`, `tmdb.api.ts`) | titles, seasons, how far a sync came | `syncMovies`, `syncTVShows`, `syncIncompleteSeasons` | failures and restarts between chunks; cached answers | no change is passed over; a synced season is complete |
| Title extraction (`packages/source-metadata-extractor`) | working text and its segments | match, merge, remove, clean title | overlapping matches, brackets, borders of segments | segments are the text |
| Trakt association (`trakt.service.ts`, `trakt-user.repository.ts`) | table `trakt_users` | device check, association | four statements after one another | an account belongs to who approved it |
| Chunk stores (`fs-chunk-store`, `encrypted-chunk-store`) | files, open handles | `get`, `put`, `close`, `destroy` | offsets and lengths at borders of files and chunks | what is put is what is got |
| HTTP requests (`request.service.ts`, `stats.service.ts`) | cookies and user agent of a domain; measures | `request`, solver, `metricStart/End/Cancel` | time limits, a solver, bodies that cannot be read | one verdict per request, no measure left open |
| Content directories (`yts`, `therarbg`) | current mirror, list of mirrors, count of open requests | search, test, reload, discovery | concurrent failures advance one index | address, index and count agree |
| Scoring, parsers and sanitizers, audit log, encryption, tracing, front-end pages | - | - | pure computation or I/O | not modelled, see section 6 |

How they interact: `stream.routes` verifies a streaming key, then calls
`DownloadService.streamFile`, which creates a storage record (and so may clean
up), adds a torrent and streams from it. The 'delete' event of `StorageService`
makes `DownloadService` destroy the torrent of an evicted record. The scheduler
runs `SourceService`, whose searches pass the VPN gate and the rate limiters and
whose `syncMissingSourceFiles` fills the metadata worker pool. `ConfigurationService`
reloads any of these services while requests are under way.

`PROJECT.json` lists every component, and under `hazards` each place where this
can go wrong, with the property that covers it or the reason none does.

## 2. Modules

### RefreshTokens, SessionChains

`SessionChains` is what the sessions promise: a session is opened once with a
fresh token, its one live token is replaced by a fresh one, and when it is
closed it stays closed. `RefreshTokens` is the code, one database statement per
action:

| Code | Actions |
|---|---|
| `generateOpaqueRefreshToken` (login) | `Login`, `CountByUser`, `FindOldest`, `DeleteOldest`, `CreateRow` |
| `verifyOpaqueRefreshToken` | `Visit`, `FindByToken`, `DeleteExpired`, `IsChainExpired`, `DeleteChain` |
| `refreshTokens`, `updateToken` | `UpdateFind`, `Update`, `Audit` |
| `logout` | `Revoke` |
| process, clock | `Restart`, `Tick` |

`row[s]` is the row of session `s`, `task[r]` the locals of request `r`. The
histories `issued`, `successor`, `alarms` and `raced` are only read by
properties, except that a visitor presents a token that was once issued.
`Heads` and `Seen` map a state to one of `SessionChains`.

### StreamingKeys

`HashKey`/`StoreKey` are `generateStreamingKey`; `VerifyStreamingKey`,
`FindByKeyHash`, `Decide` and `KAnswer` are `verifyStreamingKey` and the route;
`CacheCleanup` is the timer of `InMemoryCache`; `ReloadKeys` changes lifetime and
salt, `KTick` and `KRestart` are the clock and the process. `rows[k]` is the row of key `k`, `cached[k]` when its cache entry ends, or 0.
Time is an integer, so `CacheTTL` takes 0.9 of a lifetime up to the next integer.
The module is one of those of the `serving` run, and alone in the run
`streaming_keys`, which shows what a comment says of the cache and the code does not do.

### MetadataWorkers

`GetSourceMetadataFile` is the call (queue, and perhaps `createWorker`),
`WorkerCycle` takes a job, `SkipService`/`AskService`/`ServiceAnswers` are the
loop of `processQueue` over the services, `GiveUp` its end. Which service
answers, with a valid file, an invalid one or an error, is the environment's
choice, and so is whether a rate limit refuses.

### Downloads, StoredSources

`StoredSources` is what storage promises of a source, whoever asks: a torrent
runs only for a source that was recorded, what it fetches is noted, a record that
is evicted takes torrent and data with it, except for data that a restart has left
without a torrent. `Downloads` is the code. In it,

`StreamFile`, `FindExisting`, `Create`, `Patch` and the torrent callbacks
(`TorrentReady`, `TorrentFails`, `AddTimeout`, `Verified`, `Done`) are
`startDownload` and `addTorrent`; `FirstUsage` to `Return` are the loop of
`cleanup(true)`; `DeleteVictim` is `removeStorage` up to its event and
`HandleDelete` the listener, which runs after the next `await`. `size`,
`byStaleness` and `accessed` are the `storage` table, `torrent` and `tracked` the
client, `disk` what is on the disk. `Recorded` and `Running` map a state to one of
`StoredSources`. `Task` keeps two histories for the
properties: whether the request ran alone, and whether an eviction of it was
needless.

### VpnGate

`StartCheck`, `AnswerCheck`, `FailCheck`, `EndCheck` are a run of
`checkVpnStatus`; `AnswerProbe`, `FailProbe`, `EndProbe` are `refreshVpnState`. An
answer is taken at one step and used at a later one, so it can be stale.
`UpdateConfig` is a change of DISABLE_VPN_CHECK, which reloads the VPN service and
no other; `Reload` is a restart of `SourceService`, whose promise `startPromise`
names by its version. `Begin`, `Resume` and `End` are the three kinds of search:
movies, missing files, statistics. `heard` is a history.

### The modules of the `serving` run

| Module | Code | State and actions |
|---|---|---|
| `RateLimiter` | `rateLimiter.ts`, its middleware, `api.util.ts`, the source limiters | `stamps` of each limiter; `ApiThrottle` and `FetchSource` book an instant in the future, `RejectOrServe` is the middleware; `grants` is a history |
| `DynamicRateLimit` | `dynamic-rate-limit.ts` | `ReportResponse` is the whole of `reportResponse`: headers, a limited or a successful answer, refinement, sporadic behaviour, cleaning; `LoadStatus` is a restart. A response is told by its limit, by the reset header that is read (one of them sets the window without being a limitation) and by anything else that says it was one. Confidence in hundredths, rounded where the code rounds |
| `Mirrors` | both clients of the content directories, discovery, `trackStatus`, `cacheable` | one call is `Search`, `Send`, `Answer`, `Store`; `apiUrl` is the address itself, a member of the lists of mirrors or the configured one; `Discovered` replaces the list under it, `Reload` starts again; `movedIn` is a history |
| `HttpRequests` | `request.service.ts`, `stats.service.ts`, `cookie-jar.ts` | one request from `SendRequest` through the site, the solver and the body, or `RejectAddress` for an address that cannot be read; `starts` and `kept` are the measures |
| `Scheduler` | `scheduler.ts`, `app.ts` | a record per scheduled task; `TaskSettles` sets the timer, `RunAgain` is the timer, `Signal` to `Exit` the shutdown |
| `ChunkStore` | both chunk stores | `disk` byte by byte; a `Put` is a write per file, `Get` an operator over what the files hold; a path is what each store keeps of the file's path in the torrent |
| `BrowserSessions` | `auth.ts` of the front end, `auth.routes.ts`, cookies of `auth.service.ts` | `jar` and `access` are the cookies, `shown` the store; a request is sent, handled and answered in three steps. The server's step is the whole handler: `RefreshTokens` has its statements |
| `Streaming` | `stream.service.ts`, `stream.routes.ts`, `streamFile`, `parseRangeHeader` | `Choose` picks the source, `AsRead` what a column reads back as, `OpenStream` answers, `NextBlock`/`CheckBackpressure` are the pump, `ReadBlock`/`Cancel` the client |

### The modules of the `cataloguing` run

| Module | Code | State and actions |
|---|---|---|
| `SourceSearch` | searches and file fetches of `source.service.ts`, `singleflight.util.ts`, `content-directory.service.ts` | `flights` are the calls the single flight joins; a flight passes the gate, asks a directory, stores what it found; visitors join with the list they read |
| `TitleExtraction` | `packages/source-metadata-extractor/src/core` | `text` holds the places of the characters that are left, `segments` their pieces; what the patterns match is any list of matches |
| `CatalogueSync` | `syncMovies`, `syncTVShows` | a chunk is asked for, its titles fetched (or taken from the cache) and updated, then the date stored; `SyncLost` is a failure or a restart |
| `SeasonSync` | `syncIncompleteSeasons`, the show route | episodes are created one by one, then the season is marked; `ReportChange` unmarks it |
| `MediaLists` | `list.service.ts`, `list.syncronizer.ts`, genres | a loader is a visitor or the synchronizer; a page stands for its media |
| `TraktLinks` | `trakt.service.ts`, `trakt-user.repository.ts` | a device check is four statements, an admin's association three; `earned` is a history |
| `Configuration` | `configuration.service.ts`, `config.routes.ts` | `raw`, `computed`, `fileData` and `file` are the four copies of a value; `env` and `dotenv` are where a process finds its environment; `SetValue` is one key of an update, `Start` draws the random defaults anew where it finds none |
| `SourceStats` | `syncStatsForSources`, `scheduling.util.ts`, `scrape` | `overdue` is the order of the due sources, `dueIn` the time left of the others; a batch is scraped, each scrape puts its source off or fails |

These seventeen, `StreamingKeys` included, share no variable, so a behaviour of their product is one of each.
`MCServing` and `MCCataloguing` therefore extend nine and eight of them and add a variable
`focus`: it names the component whose steps are taken, the others keep their
initial state. Such a run is the sum, not the product, of the state spaces.

## 3. Runs

| Run | Specification, bounds | Shows |
|---|---|---|
| `refresh_tokens` | 2 users, 3 sessions, 3 tokens, 2 requests, 2 slots, clock 0..1 | no fork, no spent token alive, serial logins keep the slots, implements `SessionChains` |
| `device_slots` (violation) | 1 user, 1 slot, 2 logins | two logins at once both pass the count |
| `streaming_keys` (violation) | 1 key, 2 verifications, lifetimes 4 and 10, 2 salts, clock 0..20 | an entry of the cache answers for a key that has expired |
| `metadata_workers` | 3 callers, a client with 2 slots and a rate-limited cache with 1; fairness | caps, slots, queue, and answers while a worker is up |
| `workers_run_out` (violation) | 2 callers, 2 workers | the pool is used up and calls wait for ever |
| `downloads` | 2 requests over 2 sources, 1 over 3; threshold 1, 2 attempts | torrents, records and data stay in step, as `StoredSources` says; a cleanup alone makes room, and evicts no more than it must |
| `deleted_data` (violation) | 2 sources, a restart | data stays on disk after its record is evicted |
| `vpn_gate` | 2 checks, 1 search, 2 versions of the probe; fairness | no blind search; the monitored status converges |
| `serving` | 9 modules, bounds below | admission, estimates, mirrors, verdicts, tasks, chunks, browser sessions, streams, streaming keys |
| `cataloguing` | 8 modules, bounds below | searches, titles, syncs, seasons, lists, links, configuration, check intervals |
| `source_stats` | 2 sources within reach, 1 out of reach, batches of 2; fairness | a source that can be reached is checked when it is due |
| `lost_secrets` (violation) | 1 secret, 1 update, a restart | a secret comes back encrypted |

The properties of the two larger runs:

| Property | What would break it |
|---|---|
| `AdmissionsSpaced` | a limiter that forgets a request too early, or counts from the wrong one |
| `EstimatesUsable` | an estimate that is not floored, capped or rounded: a limit or a window of zero, a confidence above one |
| `MirrorInStep` | a reload or a failure that moves the address away from the mirror its index named when the client moved; a retry counted once too often |
| `OneVerdict` | a path through solver, time limit and body that closes a measure twice, or never; a request that is rejected before its `try` and recorded nevertheless |
| `OnlyStragglersWork` | a cancelled task that sets its timer; a task started after the signal |
| `ReadsWhatWasPut` | a part read at an offset and decrypted from the start; an empty or straddling file |
| `BrowserKeepsItsSessions` | a late refusal that clears the cookie a newer answer has set; lists of another user |
| `StreamsSendWhatWasAsked` | a full queue taken for the end, a block lost while waiting, an off-by-one of a range |
| `CacheLagBounded` | a cache entry that is made longer by every use: a key that lives as long as it is used |
| `OneFlightPerMovie` | a flight keyed by the list of the caller rather than by the list in force |
| `SegmentsCoverText` | segments cut by another match than the text |
| `NoChangeSkipped` | a date stored that is later than what was asked for |
| `SyncedSeasonsComplete` | a season marked before its episodes are there |
| `ListIsWhole`, `NeverEmptiedAgain` | a list stored page by page, or cleared before it is filled |
| `LinksAreEarned` | an association that checks slug or user but not both |
| `SuccessMeansInForce` | an update that reloads only some of the services it changed |
| `IntervalsAdapt` | an interval that is not capped, or shortened by the wrong step of the scale |
| `RestartKeepsSettings` | a value that is not written because it equals the default, under an environment that says otherwise or with a default drawn anew |

**Why the bounds are enough.** Two requests are the smallest number that
interleaves. `refresh_tokens` needs three sessions and tokens: two fill the
slots and the third evicts, or one chain is rotated twice; lifetime 0 and clock
0..1 reach both sides of each expiry test. In `serving` the keys have lifetimes 1 and 3,
so that an entry can be made under a longer lifetime than that of its key, and a clock
of 0..7: an entry of a key made at the start ends by 1 + 3 or 3 + 3. In
`metadata_workers` three workers share two slots and one, with a request for
each. In `downloads` sizes below, at and above those declared and a threshold
of 1 make a cleanup of one, two and no evictions, records of size 0 included;
two sources let one evict the other, and three make a cleanup of several turns:
the constraint `MCThirdIsAlone` keeps the third source to histories in which one
request is served at a time. In `vpn_gate` two checks can end
out of order, and the second version of the probe overtakes the first; searches do
not affect one another, so one is enough.

In `serving`, three callers fill a window of two and leave one over; intervals 3
and 4 tell the two kinds of rate apart. The learned limits see four answers of
any kind, which reach every threshold since the sizes of the histories are
constants too (`Enough`, `Sample`, `MaxHistory`). One search, a connectivity test
and a reload make the calls of `Mirrors` interleave, while a status page with two hosts may
leave a list that is shorter or has the client's mirror elsewhere or not at all; two HTTP requests share a
timeframe. The scheduler has two names and four records, so a name is scheduled
again while its old run is at work. Three files of up to two bytes under chunks
of 2 and 3 put every border inside, at and outside a chunk. Two sessions against
a limit of one cookie, two requests in flight and two rotations let an old answer
overtake a new one. A file of three bytes against a queue of one block makes
the pump wait, and the ranges sent are each of the four kinds, and two at once.
In `cataloguing`, two visitors and the background task meet over one movie; names
have five characters, so two matches overlap, touch, lie in brackets and at
borders; a catalogue clock of 0..6 with days and windows of 2 goes past the
horizon; two shows tell the number of TMDB from the id, in the mode ON_DEMAND; a
list of four pages of which three may be loaded and one is missing; two users, two
accounts and two rows; two updates over a variable with a transform
and one whose default is drawn and which is read only by a constructor, in environments that set
neither (the first one), one or both. One source suffices for
its intervals, which have their real length, 6 to 72 hours; `source_stats` needs
batches of two, one source out of reach and two others that compete for the
place that is left.

`MaxTime`, `RLMaxTime`, `MaxProbes`, `MaxReports`, `MaxReloads`, `MaxFrame`,
`MaxRecords`, `MaxRotations`, `MaxRows`, `MaxChanges`, `MaxMatches` and the sets
of visitors, calls and updates are the only bounds in guards; `MaxCleanupAttempts`,
`CookieLimit`, `PageLimit` and the sizes of histories are constants of the code,
with smaller values. `SharedNames` is FALSE: the torrents of `ChunkStore` have
files whose names differ (section 4, other divergences).

**Symmetry** is used only in runs without liveness, over sets whose members are
compared for equality alone: sessions, users and requests, in the two larger runs only the
requests of a browser and the accounts of Trakt.

**Deadlock** is checked in the downloads and VPN runs. It is off where
the system may really stop: when the finite sets of sessions and tokens are used
up and the table is empty (`RefreshTokens`), when every worker has ended and
every caller waits (`MetadataWorkers`, finding 2), and in `serving` and
`cataloguing`, where a process that has exited, a stream that has ended and a
clock at its bound have no further step.

**Fairness.** `MetadataWorkers` assumes weak fairness of each worker: the event
loop runs what is ready, and every service call ends, because each of them has a
timeout. New calls are not assumed. `SourceStats` assumes that the VPN comes back
and that the task, which looks every few seconds, finds it up time and again
(strong fairness of `SyncStatsForSources`), that a scrape settles, as its timer
of 5 s sees to, and that a tracker within reach answers now and then. `VpnGate` assumes that the interval fires,
that answers received are processed (weak fairness), that a probe ends, and that
not every check fails (strong fairness of `AnswerCheck`): a provider that answers now and
then. Nothing is assumed of torrents, clients, administrators or restarts. No safety property depends on
fairness, and the runs `serving` and `cataloguing` check only safety.

## 4. Findings

1. **Concurrent logins exceed the device slots** (`device_slots`). Count,
   eviction and insert are three statements; the documentation says "Maximum
   concurrent devices per user". `SerialLoginsRespectSlots` says what does hold.
2. **The metadata pool is used up** (`workers_run_out`). `activeWorkers` is never
   counted down, so after 52 calls in the code (the sum of the services' slots)
   no worker is created again. `AnsweredWhileWorkersRun` says what holds until then.
3. **Evicted data stays on the disk after a restart** (`deleted_data`). The listener
   finds the data through a torrent of the client, which starts empty.
   `DataAccountedFor` says which data that is.
4. **Secrets do not survive a restart** (`lost_secrets`). `loadConfigFile` looks for
   the prefix of an encrypted value in the name of the variable
   (`configuration.service.ts:210`), so the process works with the encrypted text.
   `RestartKeepsSettings` says what holds of all other variables.
5. **A cached key outlives itself** (`streaming_keys`). The comment at
   `auth.service.ts:684` says "Cache until the key expires (or slightly before to be
   safe)"; the entry lasts 0.9 of a lifetime from the verification on, whenever that
   is. `CacheLagBounded` says how long past its expiry a key is accepted at most.

Other divergences between code and documents that the models contain, with no
run of their own. In each case the model does what the code does, and the
property that is checked is what holds of it.

- The probe of a start may end after a check that has reported the VPN down, and
  overwrite it; the searches then go on. `NoBlindSearch` is what holds.
- `deleteCookie` in `auth.routes.ts:126-128,168-170` names no path, so the refresh
  cookie (`/api/auth/`) stays after a logout; the session list looks at the first
  five cookies only, dead ones included.
- The pump of a stream that was cancelled waits for room for ever: it tests for a
  null `desiredSize` (`download.service.ts:655`), which is 0 on such a stream.
- A Range beyond the end of the file is answered 206 with a length that is not
  positive (`download.utils.ts:112-136`).
- Two files of a torrent whose paths differ only in the directory are stored in one by the
  encrypted store (`encrypted-chunk-store.ts:142-155`), two whose names differ only in reserved
  characters by the plain one (`fs-chunk-store.ts:109`): `SharedNames` set to TRUE shows both.
- A change of the limits, the discovery and the trackers of DOWNLOAD, of
  CONTENT_CONNECTION_LIMIT (of SOURCE, read by `DownloadService`), TMDB_API_URL and
  (for the encryption of the database) SOURCE_SECURITY_KEY is answered with success and reloads its
  service, but is read only when that is built (`download.service.ts:68-82`), so it waits for the next start: `ReadOnce`, which
  `SuccessMeansInForce` leaves out.
- Random defaults (JWT_SECRET, STREAM_TOKEN_SECRET, STREAM_KEY_SALT, SOURCE_SECURITY_KEY) "must be
  saved to avoid them changing at every run" (`configuration.service.ts:182`), and are, in the
  `.env` of the working directory; a start that reads another one (`npm start` in `backend/` reads
  `../.env`), or a new container, draws them anew: access tokens and streaming keys of before are refused. `Start` finds the
  file or not; `RestartKeepsSettings` says what holds in either case.
- After a discovery or a reload the index of the YTS client may name another mirror than its
  address, or none (`yts.api.ts:83-108`), so it can pass over mirrors it never tried.
- A request whose address cannot be read is rejected after its measures were started
  (`request.service.ts:278-287`): they stay open until their timeframe is dropped.
- Matches that touch are merged with the text of the first match of all
  (`pattern-matcher.ts:46`), so what is removed may be less than what matched.
- `markShowAsWatching` is given TMDB's number where it expects the id of the row
  (`show.routes.ts:84`): the show that was opened is not marked, another may be.
- A Trakt device check saves the tokens before there is a row for them, so it
  succeeds only for an account that was associated before.
- Retrying an update that was refused in part answers success and reloads nothing,
  because the keys that were stored count as unchanged.
- A failed update of a title is logged and the date of the sync advances past it
  (`givenUpAt` in `CatalogueSync`).
- The first value of each list of qualities, codecs and source types is stored as 0
  and read back as none (`movie-source.entity.ts:91-133`): a request for SD never
  finds a source of that quality. `AsRead` does the same.
- Sources whose check fails stay first (`source.service.ts:353-388`): five of them
  stop all statistics. `ReachableSourcesAreChecked` assumes fewer.
- A season that can never be hydrated stays first and blocks all others.

## 5. Proofs

| Theorem | Says | Rests on |
|---|---|---|
| `RefreshTokensProofs!TypeCorrect` | `Spec => []TypeOK` | `TypeOK` is inductive: it ties each step of a request to the fields of its task |
| `RefreshTokensProofs!NoFork`, `SpentNeverAccepted` | `Spec => []ChainNeverForks`, `[]SpentTokensAreDead` | `TypeOK /\ ChainInv` |
| `RefreshTokensProofs!ChainsImplemented` | `Spec => ImplementsSessionChains` | the same invariant; one step per action |
| `RefreshTokensProofs!SerialSlots` | `Spec => []SerialLoginsRespectSlots` | `TypeOK /\ SlotsInv` |
| `StreamingKeysProofs!KeyLagBounded` | `KSpec => CacheLagBounded` | `KInv`, in the module of the proofs |
| `VpnGateProofs!GateTypeCorrect`, `NoneBlind` | `Spec => []TypeOK`, `Spec => NoBlindSearch` | `TypeOK /\ StartHeard` |
| `MetadataWorkersProofs!PoolTypeCorrect`, `NoSlotLeaks`, `CapsHold`, `NoneLostOrDoubled` | `Spec => []TypeOK`, `[]SlotsAccountedFor`, `[]CapsRespected`, `[]WaitingOnce` | `IInv` = `TypeOK /\ WorkersConsistent`, and `InOnePlace` |
| `DownloadsProofs!DownloadsTypeCorrect`, `NothingGoesAdrift`, `CleanupExact` | `Spec => []TypeOK`, `[]NothingAdrift`, `[]CleanupAloneIsExact` | `StoresOpen`, `ListenersInStep`, `AloneInv` |
| `DownloadsProofs!StorageImplemented` | `Spec => ImplementsStoredSources` | `TypeOK /\ StoresOpen`; one step per action |
| `CataloguingProofs!SearchedOnce` | `SSSpec => []OneFlightPerMovie` | `SearchTyped /\ OneKeyPerMovie` |
| `CataloguingProofs!SyncedSeasonsAreComplete` | `SeSpec => []SyncedSeasonsComplete` | `SeasonInv` |
| `CataloguingProofs!ListsAreWhole`, `ListsStayFilled` | `LSpec => []ListIsWhole`, `LSpec => NeverEmptiedAgain` | `ListInv` |
| `CataloguingProofs!NoChangeIsSkipped` | `CSpec => []NoChangeSkipped` | `CatalogueInv` |
| `CataloguingProofs!LinksEarned` | `TSpec => []LinksAreEarned` | `LinksInv` |
| `CataloguingProofs!SuccessIsInForce`, `SettingsSurviveRestart` | `CfSpec => []SuccessMeansInForce`, `[]RestartKeepsSettings` | `ConfigInv` |
| `ServingProofs!NothingStartsAfterTheSignal` | `SchSpec => []OnlyStragglersWork` | `SchInv` |
| `ServingProofs!EveryRequestHasOneVerdict` | `HSpec => []OneVerdict` | `HttpInv` |
| `ServingProofs!ClientsStayInStep` | `MSpec => []MirrorInStep` | `MirrorInv` |
| `StreamingProofs!StreamsAreComplete` | `StSpec => []StreamsSendWhatWasAsked` | `StreamInv` |
| `StreamingProofs!ChunksReadBack`, `ChunksReadBackWhere` | `ChSpec => [](PathsDiffer => ReadsWhatWasPut)`; the same where the names of the files differ in more than directories and reserved characters | `ChunkInv`, `NamesKnown` |
| `ServingProofs!ServingKeepsItsTypes` | `ServingSpec => []ServingTypeOK` | `ServingInv` |
| `CataloguingProofs!CataloguingKeepsItsTypes` | `CataloguingSpec => []CataloguingTypeOK` | `CataloguingInv` |
| `ServingProofs!OpenSessionsAreKept` | `BrSpec => []BrowserKeepsItsSessions` | `BrowserInv` |
| `ServingProofs!AdmissionsAreSpaced` | `RLSpec => []AdmissionsSpaced` | `RLInv` |
| `ServingProofs!EstimatesStayUsable` | `DRSpec => []EstimatesUsable` | `DRInv` |
| `CataloguingProofs!SegmentsStayTheText` | `TiSpec => []SegmentsCoverText` | `TitleInv` |
| `CataloguingProofs!IntervalsFollow` | `StatsSpec => []IntervalsAdapt` | `StatsInv` |

The properties themselves are not inductive; each rests on what a request or a task
has established by the step it is at.

- *Refresh tokens.* A chain does not fork because the row's token is the last one
  handed out and every token still in a request's locals is new to all clients
  and to the other requests: `ChainInv` (`TokensKnown`, `PendingFresh`,
  `LoginsFresh`, `VisitsHanded`). `SlotsInv` adds what the one login in flight has
  established: room for its row before it inserts, room once its victim is gone
  before it deletes.
- *Streaming keys.* `KInv` bounds each cache entry by the expiry of its row plus 0.9
  of the longest lifetime, and the entry a verification in flight may still add.
- *VPN gate.* `StartHeard` says that the promise of the current start, once resolved,
  vouches for the state: a reload replaces the promise with the state, and only the
  newest probe or an event writes the state before that promise is resolved.
- *Metadata workers.* `WorkersConsistent` ties the step of a worker to its job and its
  list of services; a slot is then held exactly while its worker waits. `InOnePlace`
  says where each call is, and the cardinalities of `WaitingOnce` follow.
- *Downloads.* `StoresOpen`: data of a running torrent can still be destroyed.
  `ListenersInStep`: each deletion that was announced is one the listener will handle.
  `AloneInv` follows a cleanup that no other request overlapped through its steps: the
  usage it has read is the usage there is. That `Downloads` implements `StoredSources`
  needs `StoresOpen` too: it makes the data that a running torrent has fetched exactly the
  data that the listener destroys with it.
- *Source search.* `OneKeyPerMovie`: a movie of which a directory was searched has
  sources, and with sources nobody searches, so all searches of a movie have one key.
- *Seasons.* `OldAnswersOvertaken`: an answer in the cache or in the hands of the task
  that is older than the last report was there when the report came.
- *Lists.* `Progress`: a loader holds exactly the pages it has been through, and what it
  is about to store is the first page or all pages.
- *Changes.* `Covered`: every change before the first chunk that is left is in the
  database or was tried, and within a chunk the same of each title that is done;
  `ChunksInOrder` gives the arithmetic of days and windows.
- *Trakt links.* `TaskEarned` and `SameRow`: what a task is about to write was earned, and
  two tasks that save one row agree about it.
- *Configuration.* `ReloadsOwed`: a service that has not read a variable will be reloaded
  by the request that set it, or that request fails. `FileGivesSettings`: what
  should be in the file gives every setting its value in force, whatever defaults are drawn;
  `OnlyDrawnSaved`: `.env` holds nothing else but them.
- *Scheduler.* `MapNamesTheWanted`: the map of tasks names exactly the records nobody
  cancelled; `CancelledRunOut`: a cancelled record has no timer, and after the
  signal there is no other kind.
- *Requests.* `Books`: the measures of a request share one timeframe, are open until the
  verdict, which a request without a readable address never gets, and recorded with one verdict
  or not at all. The number of requests of
  a timeframe equals that of its verdicts by a bijection between the two.
- *Mirrors.* `AddressInStep`: a discovery changes neither address nor index, so both are still
  those of the list in which the client last moved. `LevelsCounted`: the counter is the number of open levels of recursion, of
  calls that may retry and fail side by side.
- *Streams.* `Pumped`: the pump stands between the start of its range and the byte after
  its last one, and has closed the stream only there or because the client left.
  `RangeServed` is the algorithm of `parseRangeHeader` against the ranges of
  RFC 9110, for every file length.
- *Chunk stores.* `Kept`, in `ChunkInv`: of a chunk that was put, every file it lies in holds
  its bytes (`Held`); of a put in flight, every file it is done with. Another write leaves
  them alone, because no place is in two chunks (`ChunksApart`) or two files. `Get` then returns the bytes of
  each range, file by file, whatever the borders are (`HeldIsRead`). Two files under one path
  break this, hence the condition `PathsDiffer`, which follows from `NamesDiffer` in both stores.
- *Browser sessions.* `TokenKept`: the token of an open session is in the jar and no answer
  brings another, or one answer brings it and nobody can have presented it yet. So a
  refresh that is accepted was sent from the jar as it is.
- *Rate limits.* `RouteInv`: from any instant that a new request may still share a window
  with, the middleware has served no more requests than it remembers timestamps.
  `Behind`: a grant of a slow limiter is not after its last timestamp, or an interval
  old. What a filter keeps is proved of its recursive function, `Later`, by the least
  length at which it would fail (`FilteredExists`, `LaterIs`).
- *Learned limits.* `DRInv`: what is held and what is saved has estimates within their
  bounds, and no response lies ahead of the clock. One lemma per
  step of a report: averages are weighted, so they lie between what they average
  (`RoundedBetween`), and the sum of the intervals lies between their number and
  `MaxWindow` times their number (`TotalIs`).
- *Titles.* `TitleInv`: the segments begin where the ones before them end
  (`Covers`). What is kept of a segment covers where its ends have moved to
  (`KeptCovers`, `PlaceWithout`), so the pieces fit whatever the match overlaps; matches may
  lie past the end of a text that has become shorter.
- *Types.* `ServingInv` and `CataloguingInv` are the invariants of their components with
  what their types need besides: `HistoriesBounded` (histories are cut to their
  limits), `KeysInFlight` (a visitor waits for a flight that exists),
  `TitleKnown` (no segment reaches beyond the text), `TimesKnown` (no date lies ahead of
  the clock), `SettingsKnown` (a transform keeps a value among the values of its
  variable), `DueListed` (each due source is in the order once, and no other).
- *Source statistics.* `StatsInv`: after n quiet checks an interval is at least
  `LeastQuiet[n]`, the worst that the random factors can make of it; growing keeps that order
  (`GrowsOrdered`).

**Assumptions** are the named ASSUMEs of the modules: at least one slot, natural
times, finitely many sessions, workers, calls or sources of statistics (for cardinalities and
orders), at least one episode in a season, and marks such as
`NoRow` or `"none"` that are none of the values they stand beside;
`ConcurrencyAssumption` (a sum of slots is a natural number) and, of the headers of
`Streaming`, that each is a sequence of ranges of unsigned numbers; `TitleExtractionAssumption` (a
name has a character); `ChunkStoreAssumption` (chunks have a length, files may be empty); and `QuietAssumption`, which says what `QuietChecks` stands for: so
many checks that the interval, doubled by each and shortened by a fifth, reaches nearly its
longest. That sessions and
tokens are never drawn twice is in the guards of `Login`, `UpdateFind` and
`NewSession`; they are random. The theorems hold for any number of
users, sessions, tokens, keys, requests, titles, pages and files, and whatever
`MaxTime` and its like.

Definitions are written so that the provers can unfold them: `Downloads` removes and
inserts by position, `BrowserSessions` and `Streaming` override the fields of a record
by a function of its fields, the sessions of a list and the segments that remain
are sets, what was scraped leaves the order by its position, and `Mirrors` counts the members of `OpenLevels`. The loops of `RateLimiter`,
`DynamicRateLimit`, `TitleExtraction`, `ChunkStore` and `LeastQuiet` are recursive functions: that one exists for
every length, and what it returns, is proved by the least length at which it would fail
(`LeastNatural`), without the induction theorems of the library.

**Only model-checked:**

- Liveness (`AnsweredWhileWorkersRun`, `ReachableSourcesAreChecked`,
  `MonitorConverges`): TLAPS does not prove it under fairness.

Every safety property that a passing run checks is stated by a theorem.

## 6. Not modelled

- Setup and users: `configureUsers`, `setupAdmin` and `createUser` find and then
  insert; the unique index on the e-mail decides the race and nothing is kept in
  memory, so there is no more to check than the index.
- Inside modelled components: passwords and access tokens (no property
  depends on them); scores of the services and validation of files (a choice);
  what trackers answer (a choice); `getSourceMetadataFile` of `DownloadService`, which adds
  torrents to the same client; the storage threshold is constant, though a
  reload may change it; that a cleanup among other requests ends (it does, after
  `MaxCleanupAttempts` turns).
- Never called by the program, so not in any `Next`: `cleanup(false)`, pausing,
  resuming and cancelling downloads, the deletions of `StreamingKeyRepository`,
  `RefreshTokenRepository.deleteExpired`, `refreshUserToken` of Trakt,
  `torrent-parser.util.ts` (tests only), `calculateStreamingScore`, so that
  the score by which sources are ordered is always 0.
- Out of scope: quality scores in floating point, parsers and
  sanitizers of external formats, ciphers, audit log, tracing (its files are
  pruned while streams to them may be open: I/O without a promise to check),
  and the pages of the front end; the tests of end-to-end behaviour are read,
  not modelled.

## 7. Plan

The modules of section 2 are the model, and the safety properties of section 3 are
proved. What is left, in this order:

1. The metadata requests that share the client of `Downloads`: a torrent of theirs may
   be the one that a stream is waiting for.
2. Cleanups that run side by side: how much more than necessary they may evict.
3. The slots of `RefreshTokens` under concurrent logins: by how many sessions the bound
   may be exceeded.
