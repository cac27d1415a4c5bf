# Devops-Glue, specified

Devops-Glue is a PHP service (Slim 4) that puts one API in front of CI systems,
git hosts and image registries. Any number of php-fpm processes serve the API
and the administration pages; one worker container starts the timers. They share
one database, SQLite or MySQL, and nothing else: no queue, no memory, no
long-lived process. Whatever can go wrong between two requests, or between a
request and a timer, goes wrong in the tables. The modules here therefore follow
the statements a request or a timer sends to the database, and the calls it makes
to the registry, one step each, and let the steps of all of them interleave.

The administration pages, the console, are a single-page program in JavaScript,
more lines than any other part. It is concurrent in its own way: every `await` is
a place where clicks, timers and other answers come in between, and what was read
before it may be stale after it. The modules of the console take the stretch of
code between two awaits as one step, and a request as a record that is sent,
served (or lost) and delivered in separate steps, in any order.

## Inventory

| component | state | operations | what is hard | what makes it correct |
|---|---|---|---|---|
| lease lock of the timers (`Service/DistributedLock`) | a row of `ci_cache`: token, expiry | `tryAcquireLock`, `releaseLock`, `runExclusively` | two statements to acquire, death of the holder, late holders | no two live leases; a dead holder's lease ends; a release takes one's own row only |
| custom-push reports (`BuildReportController`, `CustomPushBuildProvider`, `BuildStatusMachine`) | `ci_custom_builds`, `ci_pipeline_artifacts`, `ci_security_checks` | `report` | SELECT before INSERT or UPDATE, a transaction for successes only, retries, reports out of order | a success is final, times do not go back, build and artifact commit together, every report is answered |
| registry-sync (`RegistrySyncService`, `PipelineArtifactService`) | `ci_pipeline_artifacts`, the 30 s tag listing in `ci_cache`, `ci_security_checks` | `sync` | stale listings, SELECT and UPDATE without a transaction | only tags the registry confirmed; older events do not overwrite newer ones; the digest is the tag's |
| tag backfill (`PipelineTagService`) | `ci_build_tag_cache`, `ci_pipeline_artifacts` | `backfillTagsFromBuildLog`, `resolveTag` | concurrent with registry-sync, partial failures | confirmed tags only, gaps only, catches up |
| stale-tag cleanup (`PipelineTagService`, `HarborService`) | `ci_pipeline_artifacts` | `cleanupStaleTags`, paged listing | the registry changes between pages, pages fail, web and timer overlap | no living artifact is deleted, dead ones are in the end |
| bootstrap (`BootstrapOrchestrator`, `SchemaMigrator`, `RbacSeeder`, `DataRepairer`) | the schema, versions in `ci_app_settings` | `bootstrap`, on every first request | several replicas starting, first start without lock table, crash half way, waiting | migrations exclude each other, a crashed one is taken up, nobody waits for ever |
| sessions and login (`TokenService`, `AdminAuthService`) | sessions and failure counters in `ci_cache` | login, logout, change of password, revocation | login racing revocation, counters | a revoked session stays revoked; the limit of failures holds |
| OAuth and OIDC (`OAuthService`, `OAuthController`, `OidcService`) | codes and access tokens in `ci_cache`, a key file | authorize, token, userinfo, revocation | code spent and token issued in two steps | a code is spent once; tokens of a revoked user are gone |
| API tokens, integrated services | `ci_api_tokens`, `ci_integrated_services`, `ci_oauth_clients` | enable, disable, rotate | state read before the transaction | a service is enabled with its token and client, or not at all |
| RBAC (`AdminRbacService`, roles, permissions) | `ci_roles`, `ci_permissions`, `ci_role_permissions`, `ci_implied_rules` | edit, closure of implied rules | check, then insert; several statements | no cycle, no dangling row |
| mapping and auto-discovery (`MappingManager`, `AutoDiscover`) | `ci_job_git_map` | save, discover, resolve | saves of the whole table racing each other | a project resolves to one row |
| settings and connections | `ci_app_settings`, `ci_platform_connections` | save, read | several keys for one fact | the keys agree |
| backup (`cli/backup-lib.php`, `DataBackupService`) | files | dump, rotate | crash half way | a file with the final name is complete |
| logs | `ci_operation_logs`, `ci_api_access_logs` | insert, expire | - | - |
| build, git and registry providers, LDAP | none | HTTP and LDAP calls | failures | - |
| console: session, menu, routing (`core/auth.js`, `core/api.js`, `admin.js`) | the token and the user in memory and in `sessionStorage`, page, tab, hash | login, logout, reload, navigate, change of password | logout not awaited, permissions and 401s of an earlier session, timers | memory and storage agree, the right session is ended, an ended one is noticed |
| console: API tokens (`apiTokens.js`) | two forms of tick boxes, the list | create, edit scopes, revoke, delete, change of language | boxes drawn when an answer arrives | one form at a time, the boxes are the token's |
| console: roles (`roles.js`, `permissions.js`) | the catalogue kept, the form | open, tick with its implied permissions, save, register | catalogue stale or an error, save button | the form shows its role, the button comes back |
| console: users (`users.js`) | the roles kept, the form, the dialog | open, save, enable, set a password | the target is a variable of the page | the password goes to whom it was typed for, one change at a time |
| console: build records (`records.js`) | project, table, timer, tags | choose, turn, refresh, ask a tag | refreshes overlap, rows renumbered | tags in their rows, the timer ends after failures, no stale rows for ever |
| console: logs (`oplog.js`, `apiaccesslog.js`, `deploylog.js`) | filter, page, four areas | search, reset, turn | answers out of order, every way out | what is shown is what was asked for, "loading" ends |
| console: searches (`mapping.js`, `security.js`) | filter, page, timer | type, turn | debounce, page past the last | what was typed last is shown |
| console: settings (`mode.js`, `core/toast.js`) | switches, their known values, the dialog | flip, run a job | a box shows a wish until it is refused | at rest a box shows the setting |
| console: integrated services (`system.js`) | card, dialog, plain token | enable, disable | state read before dialog and transaction, two administrators | a frozen token is dead, the dialog tells what is done |
| console: platform connections (`platforms.js`) | snapshot, inputs | type, save, delete, load | the form is drawn twice, late answers | only what was touched is sent |
| console: OIDC clients, versions, topology, monitor, backup and health pages | what they display | read | - | - |
| console: themes, translations, breadcrumb, documentation, error pages | none | - | - | - |

The components meet in four tables. `ci_pipeline_artifacts` is written by custom
push, registry-sync and backfill and deleted from by the cleanup.
`ci_build_tag_cache` leads from `resolve-tag` to the backfill.
`ci_security_checks` is written by custom push and registry-sync. `ci_cache`
holds locks, listings, sessions and codes, each under keys of its own. The pages
of the console share the session, and nothing else: none reads a variable of
another, but for the dialog of `core/toast.js` and the switches of
`core/state.js`, which belong to one page each. The
`hazards` of `PROJECT.json` name the lines where each of them is exposed.

## Modules

Each detailed module has an `MC` module, which adds symmetry, and several `.cfg`
files. Modules ending in `Proofs` extend the modules they are about.

### LeaseLock, implementing ExclusiveJob

`table` is the row of `ci_cache` with the lock's key (a set, so that the primary
key is something to check), `clock` is the clock the hosts share, `now[p]` what
`time()` told process p, and `attempt[p]` numbers its tokens, which in the code
are host, pid and random bytes. `Attempt`, `Purge`, `Acquire`/`Skip` are the
lines of `tryAcquireLock`; `Finish` and `Release` the `finally` of the CLIs;
`Die` is a kill or a statement that throws, at any point. `Tick` may come at any
time. `PunctualSpec` restricts it so that nobody is still acquiring or working
when its lease ends, which the code does not enforce: it is the assumption under
which a lease is a lock. `ExclusiveJob` is that lock.

*Not modelled:* hosts whose clocks differ.

### Bootstrap

`BootstrapOrchestrator::bootstrap` under `DistributedLock::runExclusively`, for any
number of starts (`boot[p]`): `Start` compares the version recorded with that of its
code (`Code[p]`) and draws the mode of the seed; `Try`, `Probe`, `Poll`, `Retry`, `Last`
are the lines of `runExclusively`; `Check`, `Create`, `Prune`, `Grant`, `Seeded`,
`MarkCurrent` the critical section; `Leave` the `finally`. The lease is its owner and the
time left, since `LeaseLock` has the statements behind it. `tables` are the two tables
the bootstrap itself depends on, so that the first start, where neither exists, is what
it is: unlocked, with `ci_cache` there before `ci_app_settings`. Faults (`Crash` at any
point, `StartBlind`, `CheckBlind`, `LockFails`, `PruneFails`, `GrantFails`, `Throws`) are
bounded by `MaxFaults`. `unsure` is a history variable: some migration ran without the
lock, or after a read that failed.

*Not modelled:* the other tables, indexes and repairs, which are idempotent; the seed
of the first administrator; the migration on demand; starts with the automatic
migration off, which differ in the name of the version and create no table.

### OAuthCodes, implementing OneTimeCode

Everything a password is good for, as rows of `ci_cache`: sessions, authorization
codes, access tokens. A request (`calls[c]`) is a login, an authorize, the exchange of
a code or a change of password, with one action for each statement: `Enter` is the read
of the account with `password_verify`, `Issue` the row stored later; `SelectForUpdate`,
`Consume` or `Mismatch` the transaction of `consumeCode`, `IssueAccess` what follows it;
`UpdatePassword` the new hash, then `RevokeSessions` and, for codes and tokens,
`Selects` and `Deletes`. `locks` are the row locks of MySQL. `Killed` is the death of a
request anywhere, with the rollback of its transaction, `RevokeFails` a statement of the
revocation that throws and is swallowed. `OneTimeCode` is what a code promises: offered
once, taken by one exchange at most, which alone gets a token for it, or withdrawn. The
codes offered are the authorizes that have ended, the live ones those with a row, and an
exchange has taken its code between the COMMIT of its transaction and the token; a kill
there abandons it.

*Not modelled:* the clients and their secrets, `userinfo`, the ID token and its keys,
LDAP logins.

### CustomBuilds, implementing BuildResult

One action for each statement of `POST .../report`: `Receive`, `Verify` or
`Reject` (mapping and registry), `Find`, `Insert`, `Update`, `Reread`,
`RecordArtifact` or `RecordRefused`, `Commit`, `Audit`; `Fail` is an exception of
any of them and `Crash` the death of the request or of its connection. Only a
success opens a transaction. What it has written is in `tx[r].draft` and in
`reply[r]` until `Commit`; the row locks it holds meanwhile make others wait
(`Blocked`). `Driver` selects the database: on MySQL (REPEATABLE READ, the
default the code keeps) the first read fixes what later reads see and writes
meet the present rows; on SQLite (WAL) there is one writer, and a transaction
that read before another's commit fails at its first write (`Stale`). MySQL
reports no affected row when an UPDATE changes nothing, which the code takes for
`ignored_terminal`; whether it does depends on columns that are not modelled, so
both answers are possible. `SyncArtifact` and `CleanArtifact` stand for the other
writers of the artifact. Of a digest only whether there is one is kept.
`BuildResult` is the state machine of the documentation, one build at a time.

*Not modelled:* reports that are refused for their form, two artifacts of one
build in different repositories, the other columns.

### ArtifactWriters

Registry-sync (`Sync`) and the backfill (`Filler`), down to the SELECT and the
UPDATE or INSERT IGNORE of `record()`, against a registry in which tags are
pushed, moved to other digests and removed, with the listing cached for 30
seconds (`listed`, which `Expire` ends at any moment) and the tags found in build
logs (`logged`). `ever` is a history variable: the pairs of tag and digest the
registry has had. A pass treats its candidates in any order, as the SELECT has
none. The cache of the listing expires by time in the code, and by `Expire` here.

*Not modelled:* registry-sync without a registry configured (it then records
what is reported), the scan, commit status and audit row, and the backfill's
legacy candidates with an empty status, which it treats as a success's.

### TagCleanup

Passes of `cleanupStaleTags` (`Cleaner`), from the worker under the lease and
from two endpoints without it: `Read` the artifacts, then `Page` by page the
listing of `HarborService::paginatedGet`, then `Delete`. A request may be
answered by nothing or 5xx (`PageDown`), 4xx or garbage (`PageRefused`), or an
empty body (`PageBlank`). `registry` is a sequence, newest first, as Harbor
lists; pages are cut from it as it is when the request is made. `kept` is a
history variable: the artifacts that have lived, unreplaced, since the pass read,
none once its listing has been spoilt.

*Not modelled:* several repositories (each is listed on its own), several tags
on one Harbor artifact, v1 registries.

### AdminSession

One browser tab: the variables of `core/auth.js` (`token`, `user`, `must`,
`perms`), their copy in the session storage (`store`), what `admin.js` shows
(`page`, `tab`, `hash`, `menu`), the timers, and the requests under way
(`flights`, each with the token it was sent with). On the server a token is a
session or none; `TokenService`, `AuthController` and `AuthMiddleware` answer in
one step. `DoSwitch`, `ClearSession`, `Enforce` are the functions of those names,
used by every handler that calls them in the code. `LoginCompletes` is the part of
`doLogin` after `await refreshPermissions()`, and runs even if a 401 has cleared
the session meanwhile, as in the code. `SessionEnds` is another administrator, or
the same user elsewhere, who has the sessions revoked.

*Not modelled:* expiry by time (it ends a session as a revocation does), the
failure counter, tabs sharing nothing but the cookie-free storage of their own,
LDAP.

### TokenScopes, RoleForm, UserForm

Three pages with forms that draw boxes or options when an answer arrives. The
server's part is one step for each request (`ServeChange`, `ServeChangeOfRoles`,
`ServeUserChange`), other administrators are the changes of the same kind. An
answer is `ok`, an error in JSON, or none. `cache` and `kept` are the catalogues
the pages keep for good, errors included, as the code does not look at the status
(`KeepCatalogue`, `RoleNamesArrive`). `Cascade` unticks and ticks implied
permissions as `cascadeImpliedCheck` does, one box after the other in the order of the
list of what the box implies (`InTurn`, `Follow`), for one level of rules. `asOpened`,
`opened`, `showing` are observations: what an untouched form was opened with. In
`UserForm`, an error kept in the place of the roles stops the form half way
(`OpenUser`): it names the account, offers no role, shows the address of the account
before, and can be saved.

*Not modelled:* names, notes and expiry of tokens; the forms of permissions and
of implied rules; the systems a user may see.

### PasswordDialog

The dialog that sets the password of somebody else: whose it is
(`_pwdTargetUser`), for whom the fields were filled, the button, the one change
under way. `change` goes through sent, done or failed, and the list that is
awaited before the button comes back.

### PullRecords

The page of pull builds: the project chosen, the project loaded
(`currentPullPath`), the table and which project its rows are of, the timer and its
failures, loads and tag requests under way. Builds come in newest first, so that
a row moves down by one with each (`RowOf`). A run has two numbers, an iid and an
id, and a request names it by one of them (`NumberOf`): of which kind the numbers of
the rows are is read from the option that is selected when the rows arrive
(`LoadArrives`), the path sent with them is that of the last load. The two and the rows
are not always of the same project (`Mixed`, observed in `mixed`), and then the number
may be that of another run, or of none (`ServeTag`). Which CI systems read a number as
an iid is left open (`ReadsIid`). `Leave` and `Return` are the tab switched away from
and back to.

*Not modelled:* push records, the columns, the log window, which names its run in the
same way (`records.js:244-256`).

### LogPage, SearchList

The three log pages are one program three times; `HasNotice` says whether the
page has the notice of the deployments' module. What a step hides or shows is a
set of areas. The server counts the entries, takes a page past the last for the last
(`ClampedTo`) and reads it by a second SELECT (`ServeLog`), which may find nothing as
others purge and add in between; the page keeps the number it asked for. `inTable` and
`pagerOf` are the answers table and pager were drawn from. In `SearchList`, `which` selects mappings or security checks, which
differ in where the number of pages comes from (`PagesTold`). `Type` restarts the
timer of 300 ms, `DebounceFires` is its end. `EntriesChange` is another user.

*Not modelled:* the rows' columns, forms, discovery and activation of mappings.

### SettingsToggles

Four switches, each with its box, the value the page knows (`current`) and the
setting on the server, the dialog that covers the page while it is asked
(`dialog`), and the requests. `Synced` is `syncTagRunButtons`; `RunArrives` the
`finally` of `runTagJob`. The box is sent as it stands when the dialog is
accepted. `ModesChange` is another administrator.

*Not modelled:* the form of build modes beyond "some mode is on", keyword, level
and days.

### IntegratedService

Both sides. The server: `ReadState`, outside the transaction, then
`EnableTransaction` in the way that state asks for (first token, the frozen one
restored, a dead one replaced). `FindBound` and `DisableTransaction` are the two
statements of a disabling: the SELECT of the token that is bound, and the UPDATE with
the revocation of that token. Another administrator's orders and the token list
(`BurnToken`) come between any of them; on SQLite (`Driver`) a transaction whose read
has gone stale is refused. The page: the card drawn from an answer, the
switch, the dialog that tells which way it will be (`Announced`), the plain token.
`disturbed` is an observation: somebody or something interfered since the card was
drawn.

*Not modelled:* the OAuth client, the operation log, scopes, provision by hand.

### ConnectionForm

The snapshot `_pc`, the inputs, which rows were typed in since they were drawn,
and requests. `Payload` sends the rows that differ from the snapshot. `ListComes`
draws the form and asks for the health check, `HealthComes` draws it again from
the snapshot.

*Not modelled:* the switches of the CI platforms, which every save reads as a list
before its transaction and writes back whole (`ConnectionController.php:157`, `:294`),
and the name of the registry's row.

### MCCacheTable

The lease lock, the bootstrap and the credentials keep their rows in one table,
`ci_cache`, under keys of different prefixes, and none reads the rows of another. As in
`MCConsole`, a behaviour is about one of them, its `focus`, and the others stand still.

### MCConsole

The ten pages side by side would multiply their states for nothing, as they share
none. `focus` is chosen at the start and says which page the behaviour is about;
the others stand still. Every property is thus checked on the whole behaviour of
its page, in one run. Narrowing `Focusable` in `MCConsole.cfg` to one page checks
that page alone.

## Runs

`CHECK_DEADLOCK FALSE` is in every configuration but `session`'s because those
runs end: requests finish and the bounds on changes and faults are used up. In
`session` the user can always reload the page.

| run | asks | shows |
|---|---|---|
| `cache_table`, timers | `OneLiveHolder`, `LeasesEndOnTimeOrByOwner` | three processes, whatever their timing: at most one holds an unexpired lease, and a late release removes nothing of others |
| `cache_table`, bootstrap | `MarkedIsSeeded`, `EventuallyCurrent` | two starts on an empty, an older and a newer database with two faults: a version recorded as current is one whose role is seeded, and what was found out of date is current in the end |
| `cache_table`, credentials | `CodesAreOneTime`, `StoredBeforeIsGone` | four requests: the rows of codes and their exchanges implement `OneTimeCode`, and a change of password leaves nothing of what was stored when it was written |
| `lease_punctual` | `RunsExclusively`, `SkipsOnlyForLiveLease` | with punctual work the lock is a mutual exclusion, and a crashed holder never blocks a run after its lease |
| `builds` | `FollowsStateMachine`, `AcknowledgedSuccessStands` | three racing reports on MySQL |
| `builds_sqlite` | `SuccessCommitsWithArtifact`, `EveryReportIsAnswered` | on SQLite build and artifact commit together, and no request waits for ever for the locks of another |
| `builds_lost_artifact` | `SuccessCommitsWithArtifact` | **violated** on MySQL: the snapshot hides another endpoint's commit, `record()` changes no row and reports success |
| `cleanup` | `LivingSpared`, `EventuallyClean` | overlapping passes, two pages, every fault: what lives all through a pass is spared unless its listing is spoilt, and what is gone is deleted in the end |
| `cleanup_paging` | `NeverAWrongDelete` | **violated:** an error on the second page cuts the listing short |
| `writers` | `ArtifactsWereInRegistry`, `BackfillCatchesUp` | a stale listing may let a tag through that is gone, never one that was never there; lost callbacks are made up for |
| `writers_older` | `OlderNeverOverwrites` | **violated:** compared in PHP, written without the condition |
| `session` | `StoredSessionIsTheShownOne`, `LogoutNamesADroppedSession`, `EndedSessionIsNoticed` | two users log in, out and over each other with requests in flight: the storage is the session shown, a logout names a session the page has dropped and not the new one, and an ended session leads to the login page |
| `console`, roles | `SettledFormShowsItsRole`, `CascadeSparesShared` | with nothing under way the form shows the role it names; unticking spares what another tick implies |
| `console`, users | `SettledUserFormShowsItsUser`, `PasswordReachesItsUser` | a form opened on a list of roles is its user's, one opened on a kept error offers no role; a password is never given to another user than the one it was typed for |
| `console`, build records | `TagStaysInItsRow`, `StaleRowsAreReplaced` | a tag is shown in the row of the run asked for, whatever is loaded, turned or chosen meanwhile, requests excepted that named another run because path or selection had moved on (`TagIsOfItsBuild` below); rows of another project go |
| `console`, logs | `LoneLoadShowsItsPage`, `PagerIsOfItsTable` | a load not overtaken shows its page, or the last one there is; loads that overlap never leave a pager that is not the table's |
| `console`, searches | `LoneSearchIsShown`, `TypedIsShown` | so for searches, and what was typed is shown in the end unless a request failed or it was replaced |
| `console`, settings | `RestingBoxIsTrue` | with nothing under way a box shows the value the page knows of its setting, whatever was declined, refused or lost (the server's value may have been changed by others since) |
| `console`, integrated services | `FrozenTokenIsDead`, `RestingCardIsTrue` | on SQLite the token bound to a service that is off is off (of two first enablings that race one leaves a token that is on and bound to nothing); at rest, unless somebody interfered, the card is true |
| `console`, connections | `OnlyTouchedRowsAreSent`, `RestingFormIsTrue` | no row is sent that was not typed in; at rest the form shows what is stored |
| `service_mysql` | `FrozenTokenIsDead` | **violated** on MySQL: a token bound between the SELECT and the UPDATE of a disabling stays on, bound to a service that is off |

Five simpler properties of the pages are stated and hold as well when they are put
into `MCConsole.cfg`: `FormsExclude` (API tokens), `SaveButtonReturns` (roles),
`SubmitComesBack` (passwords), `LoadingEnds` (logs), `WayIsAnnounced` (integrated
services: the dialog tells the way that is taken, as long as nobody interferes).

**Statements the code does not keep.** Fifteen more are stated in the modules, and TLC
finds each violated when it is put into the configuration in the place of the other
properties (for a page, with `Focusable` narrowed to it):

| statement | said in | what happens |
|---|---|---|
| `LeaseLock!AtMostOneRun` | `docs/ARCHITECTURE.md:77`, "at-most-one timer run" | the lease of 600 s is not renewed, work that takes longer is joined by a second run (`DistributedLock.php:101`); under `Spec`, the timers of `cache_table` |
| `CustomBuilds!DigestIsRecorded` | `docs/API_Reference.md:331`, the artifact is written with its digest, which follows the registry | the digest is passed in the place of `created_at` (`BuildReportController.php:233`) and lost; in the place of the property of `builds_lost_artifact` |
| `Bootstrap!DowngradeRevokesNothing` | `docs/FAQ.md:831`, "a downgrade never revokes permissions the new version granted (merge seeding)" | in a rolling upgrade an old instance that read the old version draws `prune`, waits, and prunes what the new one has seeded (`BootstrapOrchestrator.php:33` and `:37`): `Code <- MCRolling`, `FirstVersions = {1}`, `MaxFaults = 0` |
| `OAuthCodes!NothingOfTheOldPassword` | the comment `AuthController.php:145`, "revoke all session tokens of the user, force all devices to log in again" | a login, an authorize or an exchange that checked the old password, or consumed its code, before the change stores its row after the revocation (`AuthController.php:80`, `OAuthController.php:187`) |
| `ArtifactWriters!BackfillFillsGapsOnly` | `PipelineTagService.php:116-117`, `docs/ADMIN_MANUAL.md:384`, "only filling gaps" | a row whose digest differs from the candidate's is overwritten (`PipelineTagService.php:201`) |
| `IntegratedService!BurnedStaysBurned` | `docs/USER_MANUAL.md:353` and `:362`, a revoked token never comes back | revoked in the list and then switched off with the service, it counts as frozen and is enabled again (`IntegratedServiceController.php:115-118`) |
| `SearchList!PagerReachesEveryMapping` | `docs/技术文档.md:1185`, the comment of `jobGitMapList` | the pager counts the rows of the one page the server sent (`mapping.js:76-77`): mappings beyond the first 20 are out of reach |
| `AdminSession!PinnedUntilChanged` | the comment `admin.js:229-231` | a click on the entry whose hash is in the address already bypasses `enforceMustChange` (`admin.js:224`) |
| `AdminSession!RightsAreOfTheUser` | - | two logins submitted in turn: the permissions asked for with the token of the first arrive after those of the second, and are kept and stored for its user (`auth.js:52-62`) |
| `TokenScopes!UntouchedFormShowsItsToken` | the comment `apiTokens.js:113-114` | two forms opened in turn, answers in the other order: the boxes of the first in the form of the second (`apiTokens.js:124-125`) |
| `RoleForm!RegisteredIsOffered` | `docs/USER_MANUAL.md:278`, `docs/管理员配置手册.md:712` | an answer sent before the registration refills the catalogue after it was dropped (`permissions.js:68-97`, `roles.js:12`) |
| `UserForm!NewRoleIsOffered` | `docs/FAQ.md:565`, "appears immediately" | the roles fetched first are kept for the life of the page (`users.js:16-18`) |
| `UserForm!AddressGoesToItsOwner` | - | an error kept in the place of the roles stops the form before the address is filled in: it names one account, shows the address of another, and saves both (`users.js:141-147`) |
| `SettingsToggles!RunningJobIsDisabled` | the comment `mode.js:216-220` | an answer to another save calls `syncTagRunButtons` and enables the button of the job that runs (`mode.js:321`) |
| `PullRecords!TagIsOfItsBuild` | - | between the choice of a project and its rows, the run of an old row is asked for under the new path (`records.js:215`); and rows that arrive after another project was chosen get the kind of number of that one (`records.js:116-120`) |

Six more divergences came up while modelling and are not stated as properties. The
DELETE of the cleanup names the pipeline and not the tag it has judged
(`PipelineTagService.php:92`), so an artifact recorded anew between a pass's
SELECT and its DELETE goes with it: `kept` excludes replaced artifacts for that
reason. A report whose digest cannot be resolved leaves the digest of the row it
replaces with the new tag (`PipelineArtifactService.php:57`). A read of the version that fails counts as no version
(`SchemaMigrator.php:688`), and a lock table that cannot be read as none
(`DistributedLock.php:86`): the migration then runs over one that may be under way, and if
this one dies between the two halves of the seed the other may record the version;
`MarkedIsSeeded` excludes that coincidence (`unsure`). The same function read without the
`catch` (`DistributedLock.php:56`) throws while `ci_app_settings` does not exist: of
several first starts those that come between the creation of the two tables fail. And every custom
push report ends in an upsert of the audit row of its commit, also the refused
ones (`BuildReportController.php:256`), so a late failure replaces the audit row
of a success. A save of the connections writes back the whole list of CI platforms as
it was before the transaction (`ConnectionController.php:157`, `:294`), so that of two
administrators who save at once one loses a switch.

**Bounds.** Timers: three processes are a holder, one that takes over and one
that disturbs both; the horizon is twice the lease, so that a lease can expire,
be taken and expire again, and two attempts let a process return. Builds: one
build, since different ones share nothing but SQLite's write lock; three
reports, so that one can read before and write after two others have committed;
two times and two statuses are all the comparisons there are. Writers: one
pipeline, as rows of different ones are independent; two tags and two digests,
so that a tag can move and a digest can belong to another; one change may be a push
or a removal behind the listing cached at the start. Cleanup: two passes, one pipeline (rows
are judged one by one), three tags on pages of one with a limit of two, so that a
listing may end before, at or beyond the limit, and three changes (a tag goes,
comes back, is recorded). The changes the registry
makes (`MaxChanges`), the requests that fail (`MaxFaults`), the writes of other
endpoints (`MaxOthers`), `MaxTime`, `MaxClock` and `MaxAttempts` are bounds of
the models; `PageSize` and `MaxPages` are 100 and 20 in the code.

Bootstrap: two starts that may start again any number of times; `LeaseLife` 2 and
`WaitLife` 1, so that a dead holder's lease outlasts a wait, as 300 s outlast 30 s; two
faults, such as a crash and a failing statement of who takes over; a role with two
permissions, so that it can be half seeded. Credentials: one account, as rows of different
accounts are never selected together; four requests are a code, two exchanges of it and a
change, or a login among them; a second change would revoke what the first has left.

Session: two accounts, one of which must change its password, as a session may
replace another's; two logins, so that answers of the first session arrive in the
second; two requests under way when the user acts; three tabs are one that loads,
one with a timer and one without either. Console: two requests under way overlap
in every order, and a third would overlap one of them in the same ways; two tokens,
roles, users, projects, platforms are "this" and "the other"; `Max...Changes`,
`Max...Acts`, `MaxClicks`, `MaxFlips`, `MaxEdits` bound what the users do, which
is enough to open a form, open another, change something behind it and act.
`PullFailLimit` is 2, 3 in the code, so that a success between failures is still
seen; pages hold one or two entries, 20 in the code, so that a list may end before,
at or beyond a page. A log has up to three pages, so that the page asked for may be
before, at or past the last. The id of a run is the iid of another, so that the wrong
kind of number finds the wrong run, and one project is of the kind that is named by iid.

**LivingSpared and pages.** A listing can be spoilt in four ways: a repository
longer than the limit, a blank answer, a later page refused, and, without any
fault, a tag removed while the pages are read: those behind it move up and one
slips on to a page already read. `kept` becomes empty at such a step
(`Watch(spoilt)`), so that `LivingSpared` says what the code achieves in all other
cases, pushes and recordings between the pages included; `cleanup_paging` shows
one of the four.

**Fairness.** A request that has been received is run by its php-fpm worker and
a statement that waits for a row gets it when the holder's transaction ends, so
weak fairness of `Serve` (builds) and of the requests' steps (writers). A crash
or fault is never fair, but for SQLite's immediate refusal of a stale transaction's
write (`Denied`), which needs no bad luck. The worker's loop starts the cleanup every hour and the
backfill every half hour and a pass started is run: weak fairness of `Clean` and
of `Pass`, which include starting a pass. Faults and changes are bounded in the
model: liveness says what happens once they cease, not that it happens in spite
of them. Of the bootstrap, requests keep coming (weak fairness of `Start`), each goes on, and
time passes (`Wait`). Time stops, so to say, before the lease of a migration that is
at work ends: the code does not renew it and takes 300 s to be enough. In the browser a timer that is set fires, a request ends by an answer or an
error and the code after its `await` runs: weak fairness of `Tick`,
`DebounceFires`, `AutoRefresh` and of the steps that serve and deliver. An answer
may always be an error, so no property of a page hangs on a success it does not
name. In `session` the loads of a page may be lost, each loss disabling the step
that would answer: strong fairness says that not every one of them is lost for
ever, which `EndedSessionIsNoticed` needs, as one 401 that arrives ends it. What
users and other administrators do is never fair.

## Proofs

Everything below holds for any value of the constants that satisfies the
module's assumption: any number of processes, requests, tags, any TTL, and on the
pages any number of accounts, clicks, loads and answers.

*LeaseLockProofs.* `TypeCorrect` includes that the table has at most one row.
`LeaseExclusion` needs more than the property says (`LeaseInv`): a process working
under an unexpired lease has its row in the table (`LiveHolderHasRow`), which
explains why the INSERT of a second one fails, and no process works with a reading
of the clock from the future (`ClocksPast`), which explains why its DELETE spares
the row. With one row, two live holders would both own it. `TokenScopedRelease`
follows from the guards, the types and `ClocksPast`. `PunctualRefinement` adds
`BusyIsLive`: a punctual process that acquires or works has not outlived its
lease, so every working process has its row and an acquisition finds none.
`CrashedHolderBlocksNoRun` adds `PurgedAreGone`: between a process's DELETE and its
INSERT no row is there that has expired by its clock, as a row that comes meanwhile
is of a process inside its lease, which ends after every reading of the clock.

*CustomBuildsProofs.* The invariant is `TypeOK` with three more parts:
`OnlySuccessRecords` (who is past the build's write in a transaction reports a
success), `LocksExclude` (two transactions never hold the same build: what
`Blocked` provides) and `PendingAdmitted` (what a transaction has written and not
committed, the row there now still admits). The last makes `Commit` a step of
`BuildResult`, hence `BuildRefinement`. `AcknowledgedForGood` adds that the row of
an acknowledged success is the reported one, which no later step may change as
`Admits` refuses to replace a success. `BuildAndArtifactCommitTogether` assumes SQLite.
There a transaction that has written holds the only write lock, so that what it read
first is what there is until it commits (`ReadIsCurrent`, which is what fails on MySQL in
`builds_lost_artifact`). `record()` then meets the row it has seen: it drafts the artifact
reported (`DraftIsReported`), or leaves one that is not older (`ArtifactInPlace`).

*ArtifactWritersProofs.* A tag travels from the registry to a listing, to the
cache, to a request or a pass's candidates, to the arguments of `record()` and to
the table; the invariant says of each of these places that it holds only tags
with a past in the registry. `ever` only grows, so no step undoes it.

*AdminSessionProofs.* `CopiesAgree` needs no strengthening: every step that touches
the session in memory writes the same to the storage, or both are cleared.
`SessionTypeCorrect` adds that a request of a login names an account
(`LoginsNameUsers`), without which the server's answer would have no type.
`NoLiveLogout` rests on `TokenInv`: a token is issued once, so the tokens of the
answers to come are new, distinct, and named neither by the console nor by a request to
log out (`TokensDistinct`). Whatever drops the token names it in at most one request
(`DroppingKeepsTokens`), and a login that arrives later brings another one. The case
of a reload needs `CopiesAgree`: the token read back is the one held.

*TagCleanupProofs.* What lives all through a pass (`kept`) is, while the pass lists,
among what it has read, and stands in the registry beyond the pages read so far unless
it has been named (`InReach`). A push moves the tags towards the later pages, never
back. A removal moves them back, perhaps onto a page already read: the listings midway
are spoilt, and nothing is kept of them. So when the last page has come everything kept
has been named, and is not stale. The lemmas at the start are about the
listing: what `Push`, `Remove` and a page do to a sequence without repetitions.

*DialogProofs.* Four dialogs, each with a theorem on its types (`PwdTypeCorrect`,
`RoleTypeCorrect`, `UserTypeCorrect`, `ServiceTypeCorrect`). Passwords:
`ButtonGuardsChange` (no second change while one is under way) needs the types only.
`NoPasswordGoesAstray` needs that what is in the fields of an open dialog was typed for
the account it names (`FieldsAreOfTheDialog`) and that a change carries both together
(`ChangeIsOfItsUser`), so that a dialog opened for another meanwhile does no harm. Roles
and accounts: `FormShowsItsRole` and `FormShowsItsUser` relate what is awaited to what
the form was opened with: the catalogue that comes will tick the rights of the role the
form names (`RoleInv`), the roles that come will be chosen from for the account it names,
and when an error comes in their place nothing is offered (`UserInv`); all other answers
leave the form aside. `UntickingSpares` is about two
nested loops, of a group over its boxes and of each box over what it implies, whatever
their lengths and whether or not the rules are circular. `InTurn` is a recursive
function, and the theorem that such a function exists takes an operator, so it is shown
here from the least-element principle on `Nat` (`TraceExists`, `InTurnRuns`); every step
of a loop then takes the ticked boxes of one trace to the next. On a trace that unticks,
boxes only go (`ShrinksInTurn`); the step at which an implied box went has found no
other tick that implies it, and as ticks only go none does at the end (`CascadeSpares`).
A group that is ticked only gains (`GrowsInTurn`); of one that is unticked the same
holds across both loops, for every right that went without belonging to the group
(`GroupSpares`). In `UserTypeCorrect` the select never holds a value that is none of its
options: what is on top is offered (`TopIsOffered`). The integrated service: an order
acts on the state it has read, which may be old. `ReadsAreSound` says that what was read
as having a token names one. `FrozenForGood` assumes SQLite: a disabling that gets to its
UPDATE has then read the token that is still bound, so that it switches off that one, and
every enabling leaves the service on with the token it binds, whatever others have done
between its read and its transaction (`FrozenOnSqlite`; on MySQL `service_mysql` is the
counterexample).
`AnnouncedWayIsTaken` and `BoxShowsTheService` rest on `Calm`: until somebody interferes
the page has one exchange at most, without one the card is true and an open dialog asks
about the row as it is, and with one the row stays as the dialog has described it until
the transaction.

*ConsoleProofs.* Six pages, and the console they form. `TouchedRowsOnly`: a row nobody
typed in holds what the form was drawn with (`UntouchedAsDrawn`), so that it does not
differ from the snapshot. `NoticeStandsAlone`: no area stands beside "loading". `PagerFollowsTable` is inductive: a
load hides table and pager together, and an answer with entries draws both.
`ButtonsFollow`: all that changes the known value of a job's switch sets its button too,
and only a run sets one otherwise (`SwitchesAlone`). `TimerDoesGiveUp`: the failures are
counted up to the limit, and what starts the timer again resets them.
`TagsStayInTheirRows`: a request of a tag whose cell is still in the document names its
row, unless it is mixed, and so do the run found for it and the tag the cell held before
(`AskIsRight`), as whatever moves the rows draws the cells anew and detaches the requests
(`RedrawTags`); that only the run of the row is found is due to its number being of no
other (`NumbersTellRunsApart`, `FoundForItsRow`). `OneTokenForm`: whatever displays one of the
two forms of a token hides the other first, and no answer displays any.
`OneChangeAtATime`, `NoticeExcludesLoading`, `RunFollowsItsSwitch`, `TimerGivesUp` and
`FormsExclude` are in no run: the theorems say more than one would. The types of a page
take more than the types where an answer is read by its kind, or a button acts on what
the page shows. A log without a "not available" area gets no such answer (`LogShape`); a
question on the settings page is about what is displayed there (`DialogOnPage`); the
table of builds has rows, or a request under way, only when a project was loaded once,
so that a tag is asked of a project, and there is always an identity for one more
request (`PullShape`, `SomeIdIsFree`). `EachPageTakesItsSteps` carries all of it to the
specification the run checks: `ConsoleTypeCorrect` and `ConsoleIsSafe` say of
`ConsoleSpec` what the theorems say of each page. Of a page at rest: each page has an
observation of whether requests have overlapped since it was drawn (`crossed`,
`onlyOne`, `overlapped`, `lone`). While they have not, one exchange is under way at
most, and the invariant says what it carries: the answer of a list is what is stored,
and so is the snapshot but between a save and its answer (`FormShowsTheServer`,
`OneExchangeOfRows`); a load asks for what the fields and the page number say, and no
area is shown until it comes with entries of that page or the last (`LoneLoadIsShown`); a question or a save holds what its
switch was known to be and what its box shows, so that declining or refusing it can put
the box back (`BoxShowsTheSwitch`, `AloneInv`); a search asks for the page its pager
names, and its answer is of the last page there is if that one is gone
(`LoneSearchEndsWell`, for which `PagesAreBounded` and `FirstPageIsOnePage` do the
arithmetic of pages).

*CacheTableProofs.* `SingleUse`: a row of a code means that its authorize has ended
(`CodesAreIssued`), a row is stored once, by a request that ends with it, and an ended
request never changes. So who has consumed a code finds it gone for good
(`ConsumedIsSpent`), no second exchange is past its transaction (`OneConsumer`), and
what was minted names that one. `CodeRefinement` needs the same invariant: no code is
stored again, for an authorize that has ended changes no more (`CodesAreIssued`), and
each step is an `Offer`, a `Take`, a `Mint`, an `Abandon`, or withdraws what rows it
removes; all requests that neither issue a code nor have taken one are dealt with at
once (`AsideStep`, `WithdrawStep`). `OneTokenPerCode` is in no run, as the refinement
says more. `NothingOlderRemains`: `Removed` says for each place of the revocation which
kinds of rows are gone and which are among those it has found; what stood at the change
and is gone cannot come back, as its request has ended. In both, what a step does to
rows and ended requests is one lemma (`StepEffects`). `SeededWhenMarked` is for
instances of one version (`OneVersion`, the assumption of the theorem), any number of
them, and has two arguments. While every migration runs under the lease and knows the
version (`LockedInv`), one process works, it migrates only what is not current, and what
the role lacks is what it still has to insert. Without the lease many may delete and
insert at once, but until something fails (`FaultlessInv`), a permission that is missing
is still to be inserted by some process: the last one to empty the role gives it
everything again.

What holds of the lock, the bootstrap and the credentials holds of the table they share:
a step of `CacheTableSpec` is a step of each or leaves it alone (`EachUserTakesItsSteps`),
whence `TableTypeCorrect` and `TableIsSafe`.

*Only model-checked:* the liveness properties (`EveryReportIsAnswered`,
`EventuallyClean`, `BackfillCatchesUp`, `EventuallyCurrent`, `EndedSessionIsNoticed`,
`StaleRowsAreReplaced`, `TypedIsShown`), as the
proof system has no support for `ENABLED`. Every invariant and every action property a
passing run checks is stated by a theorem. The theorems of the library on induction and on
recursive functions take an operator as a parameter, which the provers cannot instantiate:
where a loop's result is needed (`InTurn`), the induction is done on the set of the
indices where the claim fails, which has a least element. `RECURSIVE` operators are out of
reach; the modules proved about use none.

*What proving has corrected.* The type of what is saved as the scopes of a token said
`SUBSET Scopes \ {{}}`, which TLA+ reads as `SUBSET (Scopes \ {{}})`; it is now the set of
the non-empty subsets that was meant. The last page of a log was a maximum over the
filters, of which nothing is known when there is none; the numbers a page can have are now
a set (`PageNumbers`). And `RoleAssumption` and `UserAssumption` now say that what the
server has first is a table of roles, and of accounts.

## Not modelled

Of the server: the rest of the schema migration and its repairs, all idempotent
statements; OAuth clients, ID tokens and their key file; the counter of failed logins, read and written
back (`AdminAuthService.php:195`); the editing of implied rules, where two
concurrent ones may make a cycle (`PermissionController.php:146`), and the deletion
of a permission in three statements (`PermissionRepository.php:64`); build modes
written in several settings (`ConfigController.php:122`); discovery and saving of
mappings; backups (`backup-lib.php:241`). Providers of builds, git and registries, and LDAP, are clients
without a state of their own. Of the console: the form and the activation of
mappings, which sends a row as it was listed (`mapping.js:317`); pages that only read and draw, the
form of OIDC clients (one more of the kind of `UserForm`), and presentation.

## Plan

Done: 1 `LeaseLock`, 2 `CustomBuilds`, 3 `TagCleanup`, 4 `ArtifactWriters`,
5 `AdminSession`, 6 the pages of `MCConsole`, with `IntegratedService` on both sides.

7 `Bootstrap`, 8 `OAuthCodes`, both checked in `MCCacheTable`.

9. `LoginLimit`: the counter of failed logins, read and written back.
10. `Rbac`: cycles by concurrent insertion, deletion in steps.
11. `Mapping`, `Backup`, the scopes of routes.

To prove next: the modules of points 9 to 11 as they come. `SaveButtonReturns`,
`SubmitComesBack` and `LoadingEnds` are liveness and stay with TLC.
