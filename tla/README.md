# Verification of zenso-api

TLA+ models of the server's concurrent protocols, the TLC configurations that
check them on small instances, and theorems about them proved with TLAPS. Paths
below are relative to `src/src/modules/` unless they start with `src/`.

## The system

zenso-api is a NestJS server for e-paper displays. One Node process serves the
devices (bootstrap, claim status, login, check-in, display image) and the panel
of their owners (claim, devices, screens, slots, plugin instances, plugins). The
state is in PostgreSQL, reached through Prisma, except for two caches in memory
and the plugin files on disk. Node interleaves requests at every `await`;
PostgreSQL runs single statements as transactions and `$transaction` at READ
COMMITTED, so that almost every operation is a read, a pause, and a write based
on what was read.

| Part | State | Operations | What is hard | What makes it correct |
|---|---|---|---|---|
| Bootstrap, claim status (`bootstrap/`) | `ClaimSession` rows, `postClaimSecret` | bootstrap, poll | reads outside the transaction, lost answers | one open session per hardware, the secret shown once, used sessions final |
| Claim (`claim/`) | `Device`, `ClaimSession` | confirm | overlapping transactions, row locks | a claim leaves a live device, and only that one unless another overlaps it |
| Device credentials (`devices/`, `auth/`) | secret hash, token version, `revokedAt` | create, rotate, revoke, login, guard | version read before bcrypt awaits | a token counts exactly while its secret does; dead tokens stay dead |
| Check-in and display (`devices/`) | `contentHash` | check-in, display | flag, ETag and hash drift apart | the device comes to show the current image |
| Render pipeline (`render/`) | render cache (memory) | render, preview | three reads of the same rows, key of the first; lifetimes; slots rendered at the same time | images are whole, data fits its configuration, its age is bounded |
| Data sources (`data-sources/`) | data-source cache (memory) | resolve | failures cached, servers that redirect, stall and send too much | requests go where their source may go, feeds fail alone |
| Screens, slots, plugin instances | rows, `contentHash` | edits | statements outside a transaction, cascades | every edit reaches the device |
| User sessions (`auth/`) | `refreshTokenHash` | login, refresh, logout | read, bcrypt, unconditional write | a logout is final, an old token is refused (it is not: `refresh_rotation`) |
| Plugin store (`plugins/`) | rows and files | import, install, uninstall, render's reads | rows and files are not one transaction | an installed version has its files |
| Seed (`src/src/core/seed/`) | rows | start-up | crash in the middle, a failed download | the server comes to listen |
| Browser (`render/services/browser.service.ts`) | Chromium and its pages | set-up, content, screenshot, close | it may die; pages left open | every slot comes to rest with its page closed |
| Algorithms | none | slot layout, composition, EPD packing, time zones, agenda | roundings, changes of offset, two zones | screens are tiled, colours nearest, events under their days |
| Registry client, isolate, users, shell | none of their own | | | not modelled |

Components meet in the `Device` row (claims write it, logins and guards read
it), in the `Screen` row (edits null `contentHash`, the display fetch writes it,
the check-in reads it), in the two caches (previews and fetches fill them) and in
the rows of a plugin (instances, renders and the seed need them, an uninstall
takes them away).

## Modules

| Module | What it is |
|---|---|
| `Provisioning` | bootstrap, claim, claim status, create/rotate/revoke, device login and guard |
| `DeviceCredentials` | abstract promise: one secret per device, tokens count while their secret does |
| `ProvisioningOverlap` | `Provisioning` with a record of the overlaps that its code leaves open |
| `Display` | check-in, display fetch, preview, both caches, edits that race with them |
| `DisplayOverlap` | `Display` with a record of what a fetch was asked for and of the edits between its reads |
| `RenderCaches` | the lifetimes of both caches, with a clock, for several screens of one instance |
| `SlotRender` | one call of `renderSlots`: feeds, redirects, bodies, templates, pages, Chromium |
| `PluginStore` | rows and files of one plugin: imports, installs, uninstalls, renders, seed, crashes |
| `InstalledVersions` | abstract promise of the plugin store: a version in place stays as published until all are withdrawn |
| `UserSession` | login, refresh and logout of one user |
| `Layout`, `EpdPacking`, `Calendar`, `Agenda` | the pure algorithms |
| `Algorithms` | calls of these algorithms, and what their answers are to be |
| `MCProvisioning`, `MCProvisioningOverlap`, `MCDisplay`, `MCDisplayOverlap`, `MCRenderCaches`, `MCSlotRender`, `MCPluginStore`, `MCUserSession`, `MCAlgorithms` | instances for TLC: symmetry, model values, inputs, a start where claims can wait on each other |
| `ProvisioningProofs` | types, tokens, and the refinement of `DeviceCredentials` |
| `ClaimProofs` | links of used sessions, claims, and what overlaps can break (`ProvisioningOverlap`); extends `ProvisioningProofs` |
| `DisplayProofs` | theorems about `Display` and `DisplayOverlap` |
| `RenderCachesProofs`, `SlotRenderProofs`, `PluginStoreProofs`, `UserSessionProofs`, `AlgorithmsProofs` | theorems about the module of that name |

`Display`, `RenderCaches` and `SlotRender` cut the render pipeline along its three
questions. `Display` has what an image is made of and forgets how long things
take (an entry may lapse at any moment); `RenderCaches` has the clock and forgets
the contents; `SlotRender` has what happens inside one render and forgets the
caches (every lookup misses). `Algorithms` joins the modules it checks.

### Conventions

A request in flight is a record in `req[r]`: `at` names the statement it runs
next, the other fields are the locals it has read. An operation is split where
it awaits something that can make a difference; an operation whose earlier reads
check only what stays true is one step. bcrypt and sha256 are perfect unless the
module says otherwise (`UserSession` models bcrypt's limit of 72 bytes). Time is
reduced to the question asked of it: has this session or entry expired. Mutants,
marked with a comment, are variants of a definition that some property refutes;
the specification never uses them.

### Provisioning and the code

`device`, `session`: committed rows. `BootstrapRead` is the `findFirst` of
`bootstrap.service.ts:25`, `BootstrapTx` its transaction. A claim is
`ClaimRead` (checks and secret, before the transaction), `ClaimWrite` (upsert of
the device and update of the session, which stay locked), `ClaimScan` (the
`updateMany` picks rows among the committed ones) and `ClaimCommit`; the effects
appear at the commit, and a statement that needs a locked row is not enabled.
`ClaimRollback` is the transaction timeout or a deadlock victim. A poll is
`PollUsed` then `Deliver`, or `PollOver` then `ExpireSession`: the write does not
look again at what the read saw. `LoginRead` fixes the version that
`LoginIssue` puts into the token. `drawn` counts generated secrets, `shown`
holds those sent in an answer, `tokens` the issued device JWTs with the secret
they were bought with; the last two are history, nothing in a guard of the
server reads them (a device can only log in with a secret that was shown).
`Crash` drops the requests; open transactions roll back.

`ProvisioningOverlap` adds three history variables that no action reads. Three
promises of the code hold up to an overlap it does not guard against, and the
variables record that overlap, so that the promises can be stated of every
interleaving: `bootstraps` has the hardware of which a bootstrap committed while
another was between its look and its transaction (`BootstrapsCross`), `claims` the
hardware of which a claim committed while another had already picked the rows it
revokes, or a device was registered by `POST /devices` (`ClaimsCross`), `overtaken`
the requests that are going to write a session that a claim has used since they
looked at it (`Overtakes`). A hardware leaves its set as soon as it has one session
or device again and no such request is left; a request leaves it when it ends.

### Display and the code

One device, one active screen, at most one slot, one instance, one data source.
A PNG is the record of what went into it. `Key` carries the order in which the
caller lists the slot fields, because `generateKey` hashes the JSON text; without
slots there is no such order. A fetch is `FetchRead` (first read of
`buildScreenPng`, key, cache), `RenderSlots` (second read), `Execute` (instance
and zone, data-source cache), `ResolveSource` (upstream, or {} on failure),
`StorePng`, `Encode` (palette), `Reply` (304 or 200) and `WriteHash` (not
awaited, may fail). The device itself is external: it checks in, fetches when
told that something changed, sends the ETag of what it shows, and may give up
waiting while the server goes on. Expiry may happen at any moment.

`DisplayOverlap` adds history in the same way: `asked` is the slot and configuration
in force at the first read of a fetch, `split` has the fetches that an edit met
between the reads they render from (or that took the entry of such a fetch out of the
cache), `torn` the keys under which a split fetch has stored its image, until the entry
expires, is lost, or is stored by another fetch.

### UserSession and the code

`hash` is `refreshTokenHash`, `jar` the cookie all tabs share. `Login` and
`Refresh` end before the hash is stored, `Store` is the unconditional update with
its answer, which may be lost. `Matches` is `bcrypt.compare`: 36 characters of
JWT header, a dot, and 35 of payload are what it sees of a token; they hold
`{"sub":..,"email":..` and never reach `iat`.

### RenderCaches and the code

An entry is the seconds it has left and the age of its data; `Tick` counts both.
`image[s]` is the entry at the key of a screen, `data` the one at the key of the
instance that all screens show. `Fetch` and `Preview` read the screen and fix the
lifetime (`max(30, refreshRate)`); `Execute` asks the data-source cache; `Answer`
stores `min(ttl, 600)` counted from before the source was asked
(`data-sources.service.ts` takes `Date.now()` first); `Compose` stores the image,
whose life counts from there. The image's entry counts at its last millisecond,
the data's does not, as in the two comparisons of the code. `Longest` stands for
the timeouts of a render added up.

### SlotRender and the code

`slot[s]` says where the render of a slot is: in the loop over the feeds of its
data source (`check`, `request`, `body`: `guarded-fetch.ts`, one pass per hop), in
the template, or at a call on its page (`setUp` to `close`:
`html-to-image.service.ts`, `browser.service.ts`). A URL is what the checks tell apart: its
protocol, whether its host is an address written out, in the IPv4-mapped form of IPv6 or
plainly, and the kinds of address the host stands for. The checks do not see addresses
but texts: `TextsOf` gives the host as `URL.hostname` has it, where a mapped address is
in hexadecimal, or the answers of the lookup. `isPrivateIp` and
`isLoopbackOrMetadataIp` take `::ffff:` off and look for dots, so that no text in that form
(`hex`) matches; the properties speak of the address that is meant. `Redirect`, `GoodAnswer`, `Chunk`,
`EndOfBody`, `BadAnswer` and `UnusableBody` are what a server may do, and it need
not do anything: only `Timeout` makes a stalled fetch end. `Fails` is the rejection
of the slot's promise: the first one settles the call (`Promise.all`), the other
slots go on. `answered` is history: the feeds whose server sent all of a usable
body.

### PluginStore and the code

`row`, `order`, `instance` are committed rows, `root` and `dir` directories below
`plugins.rootDir`. `Import` is the part before the transaction that touches disk
(`ensurePluginDirectories`), `ImportTx` and `ImportRefused` the transaction,
`Clear` the `mkdir` and `rm` of `moveExtractedPluginToVersionPath`, `Rename` and
`CopyBegins`/`CopyFile` its two ways of moving (`crossDevice`: whether
`os.tmpdir()` is on another file system). `UninstallRead` is the check outside the
transaction, `UninstallVersions` the `deleteMany`, `UninstallCommit` the `delete`
and the commit, `RemoveFiles` the `rm` after it. A render reads the version row,
the manifest and the template at three moments. `boot` walks through
`seed.service.ts`; `SeedFails` is the download that nobody catches, `Crash` any
other end of the process. `hurt` is history: the versions whose files an uninstall
or a crash has caught in one of the windows `FilesMatchRows` names; `late` on an
uninstall says that a slot was created after it had looked. `InstalledVersions`
has none of the requests, directories and transactions: `Installed` maps it to the
rows with files, to the directories that hold what their row says, and to `hurt`.

### The algorithms and the code

`Layout` is `layout-helper.ts`, the coordinates that `screen-slots.service.ts`
fills in, and what `compose` shows at a pixel; `EpdPacking` is
`canvasToPackedRaw4bpp`; `Calendar` is `timezone.ts` and the window of
`ics.source.ts`; `Agenda` is its extraction, its filter and its order. Times are
minutes; a zone changes its offset once, and the server has an offset of its own,
because `utcFromLocal` and dates without a time both go through it. node-ical is
external: it parses a date as the server's midnight and gives the instances of a
component that overlap an interval.

## Runs

Passing:

| Run | Instance | Shows |
|---|---|---|
| `provisioning` | 2 users who also register devices, 1 hardware, 3 sessions, 2 requests, 2 secrets, 1 token | under full interleaving `TypeOK`, `TokenBoundToSecret`, `UsedSessionOwnsDevice`, `NoTokenRevival`, `OnlyRotationParts`, `SecretShownOnce`, the refinement `CredentialsKept`, and up to the overlaps recorded `OneLiveDevice`, `OneOpenSession`, `UsedIsFinal` |
| `provisioning_live` | 4 secrets; starts from two live devices and two open sessions, or from one of each | `RequestsEnd`: waiting on row locks ends; `ClaimsLeaveALiveDevice` |
| `display` | 2 requests, 2 configurations, 2 upstream values, both formats, a slot or none at the start, 2 upsets | `TypeOK`, `DataFitsConf`, `ServedAsConfigured` under full interleaving, `EventuallyCurrent` afterwards |
| `render_caches` | 2 screens on one instance, 2 renders, rates 0 and 3, lifetimes of 1 and 2, renders of 1 | `TypeOK`; `ServedAge`: data served is younger than both lives and one render; `DataLapsesFirst` for device fetches of one screen |
| `slot_render` | a calendar of 2 feeds beside an image, 6 kinds of URL, 3 redirects, bodies of up to 1 and 2, production and development | `TypeOK` (limits), `RequestsInRole`, `FeedsAreIndependent`, `ImageIsWhole`, `RenderEnds` |
| `plugin_store` | 2 requests, 2 versions, 2 builds of one of them, a protected one, 2 plugin rows, 1 crash, both kinds of file system | `TypeOK`, `FilesMatchRows`, `RendersWhatIsInstalled`, `OnlyItsImportWrites`, `InstalledStaysInPlace` (the refinement of `InstalledVersions`), `UninstallSparesSlots`, `ServerComesUp` |
| `user_session` | 3 requests, 5 tokens | `TypeOK`, `LogoutIsFinal` under full interleaving |
| `algorithms` | screens up to 5 by 4, pictures up to 3 pixels, changes of offset on both sides of midnights, 4 servers, 11 pairs of feeds | `LayoutTiles`, `SlotsShownWhole`, `PackedShowsNearest`, `WindowIsRight` (`MidnightsFound` and `WindowOfWholeDays`), `OutputIsRight` (`EventsOnTheirDays` and `AllDayHasItsDay`), `AgendaIsDue` |

Violations, each a disagreement of the code with a sentence of the repository
(quoted in `PROJECT.json` under `findings`):

| Run | What happens |
|---|---|
| `check_in_key` | check-in and renderer hash the slot fields in different orders; `contentChanged` never becomes false on a screen with a slot |
| `palette_etag` | after an edit of palette or render mode the device is answered 304 and keeps the old picture |
| `refresh_rotation` | the refresh token that was rotated away is still accepted: bcrypt reads 72 bytes, and all refresh tokens of a user agree in them |
| `mapped_address` | a host in the IPv4-mapped form of IPv6 is requested where the address it stands for is refused: the unwrapping expects dots, `URL.hostname` has hexadecimal |

More behaviours can be read off the models and have no run of their own. They are
why a property above has the premise it has:

- Two overlapping claims of one hardware do not see each other's row: both devices
  stay live, until another claim or a revoke. `OneLiveDevice` says that nothing else,
  but for `POST /devices`, leads to two; `ClaimsLeaveALiveDevice` is what overlap
  leaves of it.
- Two bootstraps that both find no open session leave two claim URLs that work, and a
  bootstrap cancels the session it has found even when a claim has used it since;
  `OneOpenSession` and `UsedIsFinal` say that only such requests do.
- Two polls that both run `PollUsed` before either runs `Deliver` both return the
  raw secret. `SecretShownOnce` is about all later polls: a secret in a row has been
  sent to nobody. A poll of an old session also nulls the secret that a newer claim
  of the device has just written.
- A rotation between claim and poll leaves `postClaimSecret` as it was: the device
  is given a secret that no longer logs in. `OnlyRotationParts` says that nothing
  else does that.
- A refresh that overlaps a logout stores its hash after the logout and the
  session is open again; `LogoutIsFinal` asks that no refresh is in flight.
- The image a fetch stores after an edit between its reads stays under the key of
  the configuration before; when that comes back within the life of the entry, it is
  served. `ServedAsConfigured` has `torn` for it.
- `Preview` skips the render cache but `Execute` asks the data-source cache, so
  a preview can show data up to ten minutes old (`render/render.controller.ts:20`
  says that it renders with live data).
- `DataLapsesFirst` is the comment "data-source cache must not outlive the render
  cache". A second screen with the instance, a preview, a changed rate or a render
  that fails after its data was stored breaks it; `mixed` records these. What a
  device can see of that is bounded by `ServedAge`.
- `Reply` to a device that has given up still leads to `WriteHash`; on a screen
  without slots the next check-in then reports no change until the cached image
  expires. `EventuallyCurrent` holds because it does expire.
- A slot created between the check and the commit of an uninstall goes with the
  plugin (`UninstallSparesSlots` allows just that). A version that comes back has
  the same asset address with other content, and assets are served as immutable.
- A version whose files a crash has cost keeps its row, and importing it again is
  refused; only an uninstall helps (`hurt`).
- A start that ends after the seed's user has been created is never completed: the
  next one finds a user and skips the seed (`SeedSkipped`); `ServerComesUp` is
  only that it listens.
- After Chromium has died every render fails until the process restarts
  (`NewPage` needs `browser = "up"`, and only `Restart` sets it).
- Where a change of offset skips the last midnight of a calendar's window (say at
  23:00, by one hour, seen from a server twelve hours ahead), the window may lose
  its last day; with `daysAhead` 1 the calendar is empty. `WindowOfWholeDays`,
  `EventsOnTheirDays` and `AgendaIsDue` exclude exactly that.
- With the server west of the user (UTC and Warsaw), yesterday's all-day event
  lasts in the list until the server's midnight (`Lingers`). Offsets of server and
  zone that are a day apart (`+14:00` and `-11:00`) may drop one of today:
  `AgendaIsDue` has the premise `LessThanADayApart`, which all instances of the run
  satisfy.
- A palette of more than 16 colours does not fit a nibble; a slot whose key its
  layout does not have is 0 by 0; a change of a screen's size leaves its slots in
  place. No text of the repository says otherwise.

### Bounds

Every race of requests needs two in flight; the third in `user_session` lets two
tabs race while a logout is pending. `MaxSecret`, `MaxTokens`, `MaxUpsets`,
`MaxIds` and `MaxCrashes` are guards of the actions that draw, log in, edit or
fail, create a plugin row, or end the process, so no state is cut off behind them:
what is in flight can always finish. Two users suffice for one to take a device
from the other; three sessions for a bootstrap to meet an old and an open one. Two
secrets let a claim meet a rotation or another claim. `provisioning_live`
starts with two devices, which two claims lock in opposite orders, and two secrets left
to draw, one for each claim, or with one device and one secret left, where every other
operation is still to come.

In `display` two upsets are an edit in a render that is under way, followed by a
second edit, a failure, a lost answer, another value of the upstream or a restart.
It starts with one of the two configurations and values, which are interchangeable.
One slot per screen: slots are rendered independently, the key lists them all, and
`slot_render` has two at a time.

`render_caches` counts seconds in units that keep the order of the real ones: a
life of data (2) shorter and longer than those of images (1 and 3), and a render
that takes a unit, so that data can be stored nearly spent. `slot_render` has one
feed more than the first, so that there is a feed before and one after a failure;
three redirects are the code's own limit; a body limit of 1 or 2 with pieces of 1
and 2 is met, kept and broken. `plugin_store` has one version in two builds (two
imports that must not mix), another without files, and two rows, so that a version
can come back under a new id. `algorithms` has odd and even sizes, sizes of zero,
both parities of a pixel count, a palette with a colour twice and one with sixteen,
and changes of an hour in either direction every hour around the midnights of
today, tomorrow and the end of the window; a zone is given one change, and a window
of at most 60 days meets at most one of each kind.

### Fairness

`Provisioning`: the event loop and PostgreSQL run what is ready. Waiters of a
row lock are queued, so a statement that is enabled again and again runs (strong
fairness of `Continue`); an interactive transaction is timed out after Prisma's
five seconds (weak fairness of `ClaimRollback`). `Display`: every step of a
request runs (weak), every cache entry has an expiry (weak), and the device
polls whenever it is not waiting, which `POST /devices/check-in` calls
"periodically". Edits, failures, crashes, previews and lost answers are never
assumed to happen; they are bounded by `MaxUpsets`, so the liveness property
speaks of the time after the last of them. `SlotRender`: weak fairness of the
process's own steps (`OwnStep`) and of no server's: a fetch has
`AbortSignal.timeout`, setting a page's content has a timeout, the wait for a
plugin's signal a deadline, and every other call on a page Puppeteer's protocol
timeout; `page.close` fails only with the browser, and its failure is swallowed.
`PluginStore`: weak fairness of the steps of the start, of imports and of
uninstalls; a skipped seed, a failed one or a crash is never assumed.
`RenderCaches`, `UserSession` and `Algorithms` have safety properties only.

## Proofs

Checked by TLAPS for all values of the constants.

`ProvisioningProofs`

- `TypeCorrect`: `TypeOK`. It is not inductive: polls follow the link of a used
  session, claims the hardware of an existing one, logins the secret of a live
  row, and late writes hit a session read long before. `TypeInv` adds these
  (`RowsOK`, `SessionsOK`, `RequestsOK`).
- `TokensBound`, `TokensStayDead`: `TokenBoundToSecret` and `NoTokenRevival`,
  from `CredInv`. A token held by someone or about to be issued (`HeldOK`) has a
  version at most the row's, and equal versions mean equal secrets; every secret
  stored or held was drawn before (`DrawnOK`), and the secret of a claim in flight
  is in no row and no token (`UnusedOK`), so that a new version always comes with
  a new secret.
- `ProvisioningRefines`: `CredentialsKept`. A login counts from its read, a claim
  from its commit; all else stutters.

`ClaimProofs`

- `LinksAreRight`: `UsedSessionOwnsDevice`. `LinkInv` follows the claim in flight:
  its session is of the hardware it claims (`ClaimsOK`), and late writes go to
  sessions of their own hardware (`InsertsOK`, `TargetsOK`).
- `ClaimsLeaveOneLive`: `ClaimsLeaveALiveDevice`, an action property: the row that
  a commit makes live is never among those it revokes.
- `OnlyRotationsPart`: `OnlyRotationParts`.
- `UsedStays` (`UsedIsFinal`), `OneUrl` (`OneOpenSession`) and `OneDevice`
  (`OneLiveDevice`), for every interleaving, from `OverlapInv`: as long as no
  bootstraps have crossed, a bootstrap under way knows the open session if there is
  one (`UrlOK`); as long as no claims have, a claim about to commit has picked every
  other live device (`LiveOK`); and a request that is going to write a used session
  has been overtaken (`OvertakenOK`). None of the three promises is inductive without
  what the requests know.
- `SecretsShownOnce` (`SecretShownOnce`) from `SecretInv`: what waits in a row has not
  been shown and waits in no other (`PostsOK`), the secret of a claim in flight is new
  (`ClaimedOK`) and nobody else's (`ApartOK`), and what a poll carries waits nowhere
  but in the row it is about to clear (`PolledOK`).

`DisplayProofs`

- `DisplayTypes` (`TypeOK`) and `DataFits` (`DataFitsConf`) from `DisplayInv`: an
  image is put together field by field, so `Making` says what it has at each
  statement, and an entry of the data-source cache is for the configuration in its
  key (`DataOK`).
- `EditsShow` (`ServedAsConfigured`), for every interleaving, from `OverlapInv`: an
  entry that is not torn shows what its key says (`KeysFit`), what a fetch that is not
  split has read at each of its four reads is what was in force at the first
  (`FetchesUpToDate`), and the request the device waits for knows the image it shows
  (`DeviceWaits`), so that a 304 stands for the image that was made.

`RenderCachesProofs`

- `CacheTypes` (`TypeOK`) and `AgeBounded` (`ServedAge`) from `Budgets`: age and
  remaining life of an entry add up to at most the lives it was made from, and a
  render has run for no longer than `Longest` on data that was fresh when it took it.
- `DataGoesFirst`: `DataLapsesFirst`, from `LapseInv`: as long as nothing in `mixed` has
  happened one screen alone has been fetched, its renders have the life its rate
  gives, data is left no longer than that life, and once nothing is under way the
  image is left at least as long as the data.

`SlotRenderProofs`

- `SlotTypes`, `RequestsKeepTheirRole`, `FeedsDoNotDisturb`, `PicturesAreWhole`, all
  from `SlotInv`: the URL of a first request is the configured one, a request at
  any hop has passed the check of that hop, and what was answered has been got.
- `SlotsAdvance`, the safety half of `RenderEnds`: a step of a slot under way leads to
  a later stage, feed, hop or phase, or to more of one body, and `TypeOK` bounds each
  of these. No run lists it; what fairness has to add is that each step happens.

`PluginStoreProofs`

- `StoreTypes` (`TypeOK`) and `SlotsSpared` (`UninstallSparesSlots`) from `TypeInv`:
  no uninstall is under way before the server listens (`BootOK`); an id is never
  given twice and a row never written over, so that as long as the plugin has the
  id a request knows, the row is the one it has written or read (`IdsOK`); an
  uninstall that can still commit knows of the slot or looked before it (`LateOK`).
- `FilesFollowRows` (`FilesMatchRows`) and `RendersAreInstalled`
  (`RendersWhatIsInstalled`) from `StoreInv`: the directory of a version that is not
  hurt belongs to its one import and holds what that has copied so far
  (`TransferOK`), and while a directory waits to be removed no version in it is in
  order (`RemovalOK`).
- `OneWriter`: `OnlyItsImportWrites`, from `IdsOK` and what a step does to a
  directory.
- `InstalledRefines` (`InstalledStaysInPlace`): `PluginStore` implements
  `InstalledVersions`. The rows that have files are what is published; what is
  ready is, by the mapping, whatever directory holds what its row says. `StoreInv`
  gives `PlaceOK`: those are exactly the versions at rest, that is neither hurt nor
  moved by an import (while one still moves a file is missing, because a copy ends
  with its last file). With that a commit publishes, the last step of
  a move completes, the `rm` of an import mends, the commit of an uninstall
  withdraws, the end of the process hurts what is not in place, and every other
  step, with the removal of a directory among them, leaves the three as they are.

`UserSessionProofs`

- `TypeCorrect`, `LogoutsLast`: `TypeOK` with the tokens in flight as strengthening,
  and `LogoutIsFinal`.

`AlgorithmsProofs`

- `LayoutsTile`: `LayoutTiles` for screens of any size; the halves add up to the whole.
- `MidnightsAreFound`: `MidnightsFound` for all zones, servers and instants: when the
  first guess of `utcFromLocal` lands on the wrong side of the change, the second
  offset is the right one. `WindowsOfWholeDays`: `WindowOfWholeDays`.
  `WindowsAreRight`: both, `WindowIsRight`.
- `SlotsAreShownWhole`: `SlotsShownWhole`. Slots that tile do not overlap, so the pixel
  of one is shown whatever is painted before or after it.
- `NearestIsShown`: `PackedShowsNearest`. A finite set of indices has a least element,
  so `nearestPaletteIndex` is defined, and it fits a nibble; both pixels of a byte come
  back, and the padding of an odd picture disturbs none.
- `OutputsAreRight`: `OutputIsRight`, from `EventsFindTheirDays` (`EventsOnTheirDays`)
  and `AllDaysHaveTheirDays` (`AllDayHasItsDay`), which rest on the lemmas about
  midnights.
- `AgendasAreDue`: `AgendaIsDue`, an exact count for each event and day. The instances of
  the feeds are a finite set of places; a place's rank is the number of places before
  it; because the order is total on places the ranks are a bijection (`Ranked`), so
  that sorting neither loses nor doubles an entry. What remains is that an instance
  passes the window and the filter exactly when it is due (`InstanceListed`).

All of these rest on `AlgorithmsInv`: an answer is what the algorithms return for what
was asked, and not for an earlier call. It turns each property into a statement about
operators.

Assumptions: only the named `ASSUME`s on constants (bounds are naturals, `Nil` is
none of the identifiers, entries or directories, registrars are users, offers are
versions and builds, palettes have 1 to 16 colours, feeds are finite sequences of
components); no theorem has another hypothesis. They do not say that sets of requests,
slots or keys are finite or non-empty.

Model-checked only: liveness under fairness, which is beyond the prover
(`RequestsEnd`, `EventuallyCurrent`, `ServerComesUp`, `RenderEnds`). Every safety
invariant, every action property and both refinements that a passing run checks have
their theorems.

## Not modelled

- Resizing and dithering (sharp, epdoptimize), the context a template is given, and
  what a page loads: values that no operation reads back.
- Several active screens: every operation takes the first one, and `Display` follows
  one screen for its whole life; creating and deleting screens is not an action.
- A retry of a render while slots of the failed call are still under way:
  `SlotRender` starts a call when the last one has come to rest. They share the
  browser and nothing else.
- A name that resolves to other addresses when it is used than when it was checked.
- Access tokens and the expiry of tokens, which are checked by signature and clock.
- The registry client (HTTP without state), the isolate (the validator only logs
  its answer), users (one insert whose uniqueness PostgreSQL enforces), DTOs,
  controllers and wiring.

## Plan

In the order of importance. Done:

1. `Provisioning`, `DeviceCredentials`, their theorems, and in `ClaimProofs` those of
   the claim protocol, for every overlap.
2. `Display`, the liveness of the picture, and its safety properties as theorems.
3. `UserSession` with its theorems.
4. `PluginStore` with the seed, its safety properties as theorems, and its
   refinement of `InstalledVersions`.
5. `RenderCaches` with its safety properties as theorems.
6. `SlotRender` with its safety properties and its progress as theorems.
7. `Layout`, `EpdPacking`, `Calendar`, `Agenda`, with all their properties as theorems.

Left:

8. Several active screens of one device in `Display`: `contentHash` of a screen that
   comes back into use.
