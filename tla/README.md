# ArcartXResourceSystem: specifications, model checks and proofs

The program is one Go server (`src/main.go`). Players' clients fetch resource
files through *signed links*: a game server asks for a link with an API key, the
client downloads with the link's token. Administrators upload files, manage the
keys and change settings. Everything durable is in one SQLite database, used
through a single connection (`SetMaxOpenConns(1)`, `internal/store/db.go:26`), and
in the upload directory; the services keep caches and limits in memory.

This directory models that server in TLA+, checks it with TLC and proves its main
properties with TLAPS. Every definition that stands for code is listed with the
lines it models in `PROJECT.json` ("map").

## The system

| Component | State | Operations | Hard because | What makes it correct |
|---|---|---|---|---|
| Signed links (`service/signed_link.go`, `store/signed_link_store.go`) | rows; `sync.Map` of entries; mutex; two bounds | `Generate`, `Validate`, `ValidateAndConsume`, `cleanup`, `Shutdown`, `SetMax*` | two copies of one count; two clean-ups outside the mutex; crash between row and answer; ignored errors | never more downloads than issued for; a crash loses at most one; over links disappear |
| Cleanup service (`service/cleanup_service.go`) | none | hourly `run` | deletes rows behind the map | takes nothing from a live link |
| Signed downloads (`handler/download_handler.go`) | one call per request | `SignedDownload` | link, file, size and traffic read before the payment | served no more often than issued for |
| Traffic (`service/traffic_service.go`, `store/traffic_store.go`) | a row per day; `dailyLimit` | `CheckLimit`, `Record`, `SetDailyLimit` | check long before record; fail-open; midnight | the day's traffic is bounded |
| API keys (`service/auth_service.go`, `store/apikey_store.go`) | rows; map swapped as a whole | create, reset, delete, whitelist, `refreshKeyCache`, `ValidateApiKey` | read and swap not atomic; failing read reported as success | the map is a state of the table; an undisturbed operation makes it current |
| Files (`service/file_service.go`, `store/file_store.go`) | directory; records | `SaveFile`, `DeleteFile`, size, path, `SanitizeFileName` | no lock: name, file and record change apart; names cleaned once, twice or three times | record and file agree; nothing too large stays; one name everywhere |
| Rate limiting (`middleware/rate_limit.go`) | limiter per address | `getLimiter`, `Allow`, eviction | load-then-store; eviction before refill | at most the configured requests per window |
| Settings (`handler/config_handler.go`, `store/setting_store.go`) | rows | `Update`, `applyRuntimeConfig` | several keys one by one; not read back at start | what is stored is in force |
| Administrators (`service/auth_service.go`, `handler/auth_handler.go`) | rows; tokens with expiry | login, 2FA, password | read-then-write; default account in two steps | a token only after all required factors |
| Captcha, security log, utilities, page | | | | |

How they interact: `SignedDownload` calls the link, file and traffic services in
turn; the link generation handler calls traffic, files and links; the
configuration handler changes the bounds of links, traffic and uploads while
they run; the clean-up services delete rows under the link service; middleware
asks the key cache on every request of a game server, and a rate limiter before
that on every request but those of administrators.

## Modules

| Module | What it is |
|---|---|
| `DownloadBudget` | abstract: a link is issued once with a limit, a download takes one unit, units may be lost, none comes back |
| `KeyBook` | abstract: a book of keys and a copy that may lag, but never behind the last time it caught up |
| `SignedLinks` | the link service with table, map, mutex and both clean-ups; implements `DownloadBudget` |
| `SignedDownload` | the request handlers over the budget, the traffic service and the files' sizes; uses `DownloadBudget` through `INSTANCE` |
| `ApiKeys` | the key table, the cache map and its refresh, the admission test |
| `RateLimiter` | token buckets of addresses, the race for a new one, the sweep that forgets them |
| `FileNames` | `SanitizeFileName`, and the names record, file, link and download of one upload get |
| `FileStorage` | uploads and deletions over names, files, and records |
| `Settings` | rows and running values of the settings, updates of several at once, defaults, start |
| `AdminAccount` | captcha, login, challenge, second factor, sessions and the changes of the account |
| `SignedLinksProofs`, `SignedDownloadProofs`, `ApiKeysProofs`, `SettingsProofs`, `AdminAccountProofs`, `FileStorageProofs`, `RateLimiterProofs`, `FileNamesProofs` | theorems and proofs |
| `MCSignedLinks`, `MCSignedDownload`, `MCApiKeys`, `MCFileStorage`, `MCFileNames`, `MCSettings`, `MCAdminAccount`, `MCRateLimiter` | instances for TLC |

The modules are joined by refinement: `SignedLinks` is proved to implement
`DownloadBudget` and `ApiKeys` to implement `KeyBook`, and `SignedDownload` builds on
`DownloadBudget` instead of on the mechanism, and is proved to use it as it allows. Operators named `Mutant...` are plausible slips of the code; the
specifications do not use them. Each is put in the place of the definition that
follows it to see that a property notices.

### SignedLinks

`db[t]` is `remaining_downloads` of the row, `cache[t]` of the map entry, `mu` the
mutex, `pc/tok/seen` a goroutine's place in its call, its token and the count it
has read. `Generate` is two steps (`GenCreate`: bounds, token, INSERT; `GenStore`:
map entry and answer), `ValidateAndConsume` three (`BeginConsume`; `Decrement` or
`DecrementFails`; `Finish`). A call that finds its link over is the one step
`Refuse`: it holds the mutex, and its two removals commute with all that runs
beside it. A `Validate` that succeeds changes nothing. `cleanup` is
`CleanupBegin`, one `CleanupVisit` per entry in any order, `CleanupRows`;
`PurgeExpired` is the CleanupService. A DELETE whose error is ignored may have no
effect; so may CleanExpired. `Exit` is a crash or the end of a shutdown, at any
instant; `Start` is `NewSignedLinkService`, whose LoadActive may fail.
`limit`, `issued` and `granted` are history: what clients were promised and got.
Tokens come from 32 random bytes and are modelled as never repeating. The product of
minutes and `time.Minute` (`signed_link.go:52`) is an int64 of nanoseconds and wraps
from some 150 million minutes on; the model has the lifetimes after the product that
lie within the bound, and leaves out the negative ones, with which a link would be over
when it is made. `sweepNow` is the pass's own variable and goes with it.

### SignedDownload

`pc[r]` names the last thing the request has done. The steps are those of the
handler: Validate, GetFilePath, GetFileSize (error ignored), CheckLimit,
ValidateAndConsume, c.File, Record. The link service appears as `left`/`granted`
of the budget, and `LoseDownloads` stands for expiry, clean-up and crashes. A
file is only its size; uploads and deletes may change it between any two steps,
and `c.File` sends what is there at that moment: at most the file and the framing
of several ranges (`Framing`), or the 404 page. `CheckLimit` answers true when its
read fails (`failures` counts this), a `Record` that fails loses the traffic.

Sizes and totals are unbounded integers, but the two places where the code could
overflow wrap at `MaxInt`, the largest int64: the product in `Estimated`, tested by
dividing it again, and the addition in `WithinLimit`. The second is not tested in
the code: an estimate that overflowed is set to MaxInt64, the day's traffic is
added, and the sum wraps to a negative number that passes. So what the comment at
`file_handler.go:146` says, that an overflow does not get round the traffic check, is
true only while the day has no traffic. `OverflowRefused` states it, and the run
`estimate_overflow` finds it violated. No link results, because such a count is above
the bound `Generate` checks next: that is `LinkFitsDay`, which is proved.

The third part of `wanted[r]` is history: whether size times count, as true
integers, fitted the day when it was checked. It is true where the handler makes no
check (an administrator, a file that cannot be measured) and where the check passes
because its read failed; the size may change between the check and the link. The
model starts on a day that may already have traffic, up to the configured limit, of
links that are gone.

### ApiKeys

An operation is `CreateApiKey`, `ResetApiKey`, `DeleteApiKey` or
`UpdateApiKeyWhitelist` (its statement, `Change`), then `ReadActive` or
`ReadActiveFails`, then `Install`. A key stands for its hash. UPDATE and DELETE on
an id without a row succeed without effect, as in the code. A request that brings
a key is `ValidateApiKey` (ApiKeyAuth finds the entry), then `IPWhitelist` (the
address is judged by that entry, whatever map is in force by then), then `Answer`;
one whose key is not found changes nothing. `alone`, `settled`, `past` and the
field `sure` are history; `past` starts anew when a refresh settles, so being in
it bounds how stale a map may be. The default key of the first start is a
`CreateApiKey`. The addresses of a whitelist, ranges included, are the set of
addresses they match.

### FileStorage

A name stands for a file (`dir`), a file holds blocks (`data`), as on the Linux
file systems the server is deployed on: removing a name leaves the file to those
who have it open, and os.Create on an existing name empties the file for all. The
Makefile also builds for Windows, where removing a file that is open fails; that is
not modelled. An
upload is `UploadBegin` (os.Stat), `Create`, `Copy` per block, `CopyEnds` or
`CopyFails`, then `Upsert` or `Discard`; a deletion is `DeleteBegin`, `Remove`,
`DeleteRecord`. A CRC64 is represented by the content it was computed from.
`alone`, `sound`, `cut`, `unsaved` and `highest` are history.

### FileNames

A name is a sequence of characters: two without a meaning, the dot, the blank and
`Unsafe` for all that `unsafeChars` replaces. Every pass of `SanitizeFileName` is an
operator of its own. `resolvePath` cleans again what its callers have cleaned, so
with `C` for one cleaning an upload of `n` has the record `C(n)` and the file
`C(C(n))`; a deletion of the listed name looks for `C(C(C(n)))`. `C` is not
idempotent: it removes leading dots before blanks, so `" .x"` becomes `".x"`, then
`"x"`; and a name cut at 255 bytes may be cleaned differently the second time. For
those names record and file differ, the record may stay when the file is deleted,
and two uploads may meet in one file. `Regular` describes the names for which all
of this is impossible, and `OneName` says so; `Inside` holds for every name. The
slice at `file_service.go:90` panics when the extension alone is too long
(`NoName`); the recovery middleware answers 500 and nothing has been written. Upper
and lower case, and bytes that are not ASCII, play no part.

`Portable` is what Windows, for which the Makefile builds too, takes as it is. Windows
knows a device by what is before the *first* dot, blanks at its end left out (`Stem`),
whatever follows. The code looks at what is before the *last* dot (`Base`,
`file_service.go:80`): `nul.zip` gets its underscore, `nul.tar.zip` and `nul .zip` do
not. So a record need not be portable, and `PortableKept` does not say so: it says
that a regular name becomes a clean one, that a portable name is kept, and that the
devices' names that stay are exactly of the kind just named. The list of names is the
code's (`windowsReserved`).

### RateLimiter

One limiter; the server has three, of 100 per minute, 30 per minute and 10 per hour
by default (`createRateLimiters`). A request is `Arrive` (Load), `Touch` or `Register`
(lastSeen, or a new bucket), `Allow` or `Refuse`; the sweep is `SweepBegin` (the clock
is read once), `Judge` per address, `Forget`, `SweepEnds`. Time is a `Tick` for all:
instead of instants, `quiet[v]` and `since[r]` count ticks, and stop counting where
nothing distinguishes larger values. `lastSeen` may lie before the instant it is
stored, by as much as the request has taken so far. `MaxPause` is the most ticks a
request or a sweep may take: with `MaxPause` a few seconds and `Idle` 1800 of them
the theorems speak about the code's numbers. `ideal`, `calm` and `raced` are
history: a bucket per address that is never forgotten or lost, and who was in a
race. `golang.org/x/time/rate` is modelled from its use, in exact units instead of
floats. The login limiter's hour is longer than the half hour after which an
address is forgotten, so the sweep gives back up to half a burst (`ForgivesLittle`);
for the other two it gives back nothing (`UnracedWithinRate`).

### Settings

`stored` is the table, `running` what the services work with. `UpdateBegin` is the
check of keys and values, after which the loop takes the settings in any order:
`Store` or `StoreFails`, then `Apply`, then `UpdateEnds`. A setting without a row
is updated without effect, and applied. The rate limits have no case in
`applyRuntimeConfig`, so their running value never changes. `InitDefaults` may end
early with any subset of the missing rows filled. Values are integers, or `Text`
for what does not parse. `lone` and `settled` are history. Units (minutes, bytes)
are left out; the services' own modules model what a value does.

### AdminAccount

One account: two share nothing, and every statement names its user. `pc[r]` is
where a request is in `Login` (`login`, `signing`), `Verify2FA` (`code`,
`verified`) or a request behind `JWTAuth` (`admitted`, `disabling`, `changing`).
`asked[r]` is the copy of `totp_enabled` the login goes by. A captcha is an id; an
answer to it is right (`LoginBegin`) or wrong (`LoginBeginWrong`), and both spend
it. A code is represented by the secret it was computed from, so a code of the
account's secret is one that `totp.Validate` accepts now. `tokens` is all that was
signed and that clients may send again; a restart keeps them, or loses all when
the file of the signing secret cannot be read. `earned`, `steady`, `shown` and
`passes` are history. A password's length and bcrypt are left out, and so are
last_login_at and the flag `mustChangePassword`, which change nothing.

## Runs

| Run | Shows | Bounds |
|---|---|---|
| `signed_links` | types, `DownloadsWithinLimit`, `RowSurvivesExit`, `CopiesAgree`, `OneLostPerExit`, `LossOnlyAtExit`, the inductive invariant `Consistent`, refinement `ImplementsBudget`, and under fairness `OverIsReaped` | 2 links, 2 goroutines, 1 download per link and 2 once the bound is raised, lifetime 1, clock 0..2, one crash |
| `signed_download` | types, `TrafficBounded`, `ServedWithinLimit`, `LinkFitsDay` | 2 requests, 1 link, 1 file, limits 1 and 2, 2 days, the first with or without traffic, one failed read, integers of 6 bits, counts of 1, 3 and 16 of which 16 overflows |
| `estimate_overflow` | `OverflowRefused` fails | as above |
| `api_keys` | types and uniqueness, `AloneRefreshSettles`, `MapIsWhole`, `AdmittedByTable`, refinement `ImplementsKeyBook` | 2 operations at once, 1 request of a game server, 2 ids, 2 keys, 2 addresses, two failed reads |
| `api_key_revoked` | `RevokedKeyRefused` fails | as above, no failed read |
| `file_storage` | types, `SoundAgrees`, `AtRestWithinLimit` | 2 operations at once, 1 name, 3 files, uploads of 0, 1 and 2 blocks, limits 0 and 1 |
| `recorded_file` | `RecordedIsStored` fails | as above, limit 1 |
| `settings` | types, `SettledAgrees`, `OnlyValidValues`, `StoredChangesByUpdate` | 3 requests, one setting with a setter and one without, values 0, 1, 2 and a text of which 1 and 2 are valid, one failed statement |
| `stored_settings` | `StoredIsRunning` fails | 2 requests, no failed statement |
| `rate_limiter` | types, `UnracedWithinRate`, `RefusedFairly`, `ForgivesLittle`, `QuietIsForgotten` | 2 requests of 1 address, 3 buckets, burst and window 2, idle time 3, pauses of 1 tick |
| `file_names` | `OneName`, `Inside`, `PortableKept` | all names of up to 6 of 5 characters, cut at 5, one reserved name |
| `admin_account` | types, `CaptchaSpentOnce`, `SessionsEarned`, `AccountChangesManaged` | 2 requests, 3 captchas, 2 passwords, 2 secrets, clock 0..3 |

Why the bounds are enough: two goroutines give every interleaving of two calls
and of a call with each clean-up; two downloads distinguish the last from an
earlier one; the clock reaches the instant a link expires and the one after; one
crash can fall on every state. Lifetimes of 1 are enough because two links made at
different instants expire at different ones, and a bound on lifetimes or downloads is
read by `Generate` only. The links of `SignedLinks` share only the mutex and
the sweep, the names of `FileStorage` share nothing. Three requests can each be
between statement and setter of one setting; three captchas let one session enable
the second factor while two more logins are under way. The addresses of `RateLimiter`
share only the sweep, and three buckets let two requests race while a third is
forgotten; the idle time is the shortest for which the window is over before the
sweep. Names of six characters hold every pair of passes of `SanitizeFileName` that
touch each other, and are longer than the limit. A file of size 2 asked for
16 times leaves the 6 bits. `MaxTime`, `MaxRestarts`,
`MaxFailures`, `MaxName` and `Days` bound the models and stand for nothing in the code. TLC
needs every state to have a successor, and every one has; no run switches the
deadlock check off. The proofs remove the bounds.

Four runs expect a violation, each of something the code says of itself:

- `api_key_revoked`: a key that was reported deleted (`apikey_handler.go:112`) can
  stay accepted when two operations overlap. What holds instead is `MapIsWhole` and
  `AloneRefreshSettles`: the map is an old state of the table, and the next
  operation that runs alone repairs it.
- `recorded_file`: after two overlapping uploads of one name the CRC64 list names a
  CRC64 the file does not have. What holds instead is `SoundAgrees`.
- `estimate_overflow`: the comment at `file_handler.go:146` has an overflow of size times
  count kept from getting round the traffic check; on a day with traffic it gets
  round it (see SignedDownload). What holds instead is `LinkFitsDay`.
- `stored_settings`: the administration page lists the stored settings as the
  "running parameters" (`admin.html:466`), but a start takes the configuration's.
  What holds instead is `SettledAgrees`: from an update that nobody interfered with
  until the next update or start the two agree.

The global daily limit (`main.go:234`) is not kept to the byte either: a download is
checked before and recorded after its transfer, so two that overlap both pass.
What holds is `TrafficBounded`: the excess is at most one answer per request open
at once, and one per failed read.

### Fairness

Two modules assume any. `FairSpec` of `SignedLinks`: a goroutine inside a call goes on
(the Go scheduler runs it, no step of a call waits for another but for the mutex,
whose holder goes on too); the ticker keeps firing and Range ends (`Cleanup`); a
server whose loop has stopped exits, and one that is down is started again (the
operator or the service manager; without this nothing would ever be cleaned); and
CleanExpired succeeds again and again if it is tried again and again (strong
fairness). Nothing is assumed of requests, of the clock or of the CleanupService.
`FairSpec` of `RateLimiter`: a request inside the limiter goes on (nothing in it waits),
the ticker fires and Range ends, and time passes. Nothing makes requests come or
stop: `QuietIsForgotten` is about addresses from which none come any more, in a
server that is not shut down.

## Proofs

All hold for any sets of links, requests, keys and files and any bounds, from the
named ASSUMEs of the modules, which TLC evaluates on every run: the sentinel
`None` is none of the values it is told from, the configured numbers are naturals,
and the set of requests open at once is finite (needed for `TrafficBounded`).
Every invariant and action property a passing run checks has its theorem.

- `SignedLinksProofs`: `TypeCorrect`; `ConsistentCorrect`, the inductive invariant.
  `DownloadsWithinLimit` is not inductive: it needs to know, at each point of a
  call, what row and entry say of its link (`CallOK`), that no two calls work on
  one link, and that both copies of every link together with what was granted stay
  within the limit (`LinkOK`). `WithinLimitCorrect`, `RowSurvivesExitCorrect` and
  `CopiesAgreeCorrect` follow from it. `BudgetCorrect` is the refinement: `Left(t)`
  is what the call under way has seen, or what a lookup would find; every step is a
  step of `DownloadBudget` or leaves it alone. `LossCorrect` goes the other way: what is
  left of a link that has not expired shrinks by grants and, by one, at an `Exit` that
  finds the holder of the mutex after its decrement; at most one call is there.
  `OneLostCorrect` adds this up over any number of links without a sum: the lost
  downloads are numbered per link (`LostDownloads`), a step adds at most one element to
  that set, and only at an `Exit`, so its cardinality never passes the number of exits.
  A link's lifetime never changes, so a lost download of a link that is still good was
  counted before. `NothingLostCorrect` is the case without an exit: what a good link has
  given and still allows is exactly its limit. `BudgetKept` proves the budget's own
  promise of `DownloadBudget!Spec` alone and carries it over by the refinement.
  `OverStays` and `GoneStays` are what is safety in `OverIsReaped`: a link that is over
  stays over, and once entry, row and calls are gone they stay gone.
- `SignedDownloadProofs`: `TypeCorrect`; `TrafficCorrect`, by the invariant that
  what is recorded and what those in flight may still add stay within the bound
  together; `ServedCorrect`, by counting the requests that have paid and not sent;
  `LinkFitsCorrect`, about integers of any width: a product that wraps is seen when it
  is divided again, and one that does not is the estimate (`EstimatedExact`); so a check
  is wrong only for a count above `MaxDownloads` (`FitsInv`), which `Generate` refuses.
  `BudgetCorrect`: the handlers issue
  and grant as `DownloadBudget` says, so what is proved here holds over `SignedLinks`.
- `ApiKeysProofs`: `TypeCorrect`, `SettlesCorrect` and `MapIsWholeCorrect`, by the
  invariant that an operation that is alone has built its map from the present
  table, and every map built is one the table has stood for since the last that
  settled; `AdmittedCorrect`, because a request that is sure goes by the table's entry.
  `KeyBookCorrect` is the refinement: a refresh that ran alone catches up, another lags.
- `SettingsProofs`: `TypeCorrect` and `OnlyValidCorrect` are inductive together
  with "a request holds only validated values"; `SettledCorrect` needs that the row
  keeps the value of a request as long as nobody else stores that setting;
  `StoredCorrect` is an action property.
- `AdminAccountProofs`: `TypeCorrect`; `SessionsCorrect`, by what a request has
  shown at each stage (`ShownByStage`): a copy that says "no second factor" is
  taken while there is none, so the second factor was not on throughout;
  `CaptchaCorrect`; `AccountCorrect`, an action property.

- `FileStorageProofs`: `TypeCorrect`; `AtRestCorrect` and `SoundCorrect` by `FilesInv`:
  an operation that is alone on a name has it to itself (`Solo`), only such an
  operation works on a sound name (`SoundSolo`), no two names share a file (`OneFile`),
  an operation that has opened nothing has written nothing (`Unwritten`), and at each
  of its stages an operation knows what directory and record say (`Stages`); for `AtRestCorrect` also
  that a file that is too long belongs to an upload that will remove it.
- `RateLimiterProofs`: `TypeCorrect`; `RefusedCorrect`, because every bucket of an
  address holds at least what its ideal one does; `ForgivesCorrect`, because a bucket
  has refilled for as long as it has been quiet; `RateCorrect`, because the one bucket
  of an address outside races holds exactly what the ideal one does.
- `FileNamesProofs`: what each pass of `SanitizeFileName` does to any name of any length,
  and from that the three properties. A name is `Tidy` when its characters are kept ones, no
  two dots follow each other, both ends are neither dot nor blank, it is short enough
  and its base is not reserved. One call makes every `Regular` name tidy
  (`RegularSanitized`), and a tidy name passes every pass unchanged (`TidyIsKept`): this is
  `CleanOnce`, and with it the names of record, file, link and download agree in every state
  (the inductive invariant `Told`). A tidy name is clean, and a device's only if `Base` and `Stem` differ
  (`TidyIsClean`); a portable name is tidy, because a base that is reserved has neither dot
  nor blank and is the stem (`ReservedIsStem`, `PortableIsTidy`). This gives
  `PortableKeptCorrect` and `PortableApart`: two portable names never become
  one. For a name that is not regular only `InsideCorrect` holds. The assumptions say that
  the letters are not the dot, the blank or an unsafe character, that "unnamed_file" is
  shorter than 255 characters and written in letters, that the reserved names are too and none begins with an underscore (`windowsReserved`).

`Collapsed` is a recursive function on positions, and the library's induction
theorems, which take a predicate as a parameter, cannot be used. `FileNamesProofs` goes by sets
instead: every nonempty set of naturals has a least element (`LeastNumber`, from
the well-foundedness of `<`), hence a set that contains the last position and with every later
position the one before contains all (`Downwards`); the set taken is the set of
positions for which the claim holds. That `CollapsedFrom` satisfies its recursive equation at
all (`CollapsedFromIsDefined`) is proved the same way, by building the function for
ever longer ends of the name.

Only model-checked: `OverIsReaped` and `QuietIsForgotten`, because liveness under fairness
is out of the prover's reach; of the first the safety part is proved (above).

## Not modelled

The captcha store (third party), the security log (nothing reads it), JSON and
HTTP formatting, CORS, logging, headers, the static page, and the parsing of the
configuration file. `Consume` and `ActiveCount` of the link service have no
caller. `last_used_at` of a key is written by a detached goroutine and read only
for display. The CleanupService also deletes security logs and the traffic of days
long past, which nothing reads. ParseRateLimit and the schema of the database run
once, before anything else does. Uploads and downloads of one file are composed
only as far as `SignedDownload` lets a file change between any two steps.

## Plan

All components with logic of their own are modelled; what is left is to

1. prove more about `SignedLinks` under other orders of start and shutdown: the ten
   seconds of `srv.Shutdown`, which the models take as a crash at any instant;
2. give the first start its own steps (administrator, then key, then refresh), which
   would join `ApiKeys` and `AdminAccount`;
3. state when two uploaded names that are not portable meet in one file, which the model
   of `FileNames` only does for one name at a time (for portable ones: `PortableApart`).
