# A TLA+ verification of novel-platform

novel-platform is a private reading site: one administrator keeps a library of books, editions and
files, and gives readers long-lived credentials with which they read in the browser. The server is
a FastAPI application over PostgreSQL (READ COMMITTED) and one library directory; several requests,
several uvicorn tasks and the operator's command-line tools work on both at the same time. This
directory holds the TLA+ modules that describe its stateful parts, the TLC configurations that
check them on small instances, and theorems about them that TLAPS proves for every size.

`PROJECT.json` lists the components, the runs, one mutant per property, the source lines of every
definition, the disagreements found between code and documentation, the hazards and the theorems.
Paths below are relative to `src/apps/server/src/novel_platform/` unless they start with `src/`.

## Inventory

| Component | State | Operations | What is hard about it | What must hold |
|---|---|---|---|---|
| Reader access: `application/auth/service.py`, `application/readers/service.py`, `infrastructure/repositories/auth.py`, `credentials.py` | `reader_access_credentials`, `devices`, `auth_sessions`, `refresh_tokens` | login with a credential on a known or a new device, refresh, logout, session and device revocation; create, suspend, resume, revoke, reissue, edit a credential | row locks taken in different orders by different requests, rows read before a lock and used after it, replay of a rotated token, expiry that moves | no live session or device of an inactive credential; revocation is final; one exchangeable token per session; the device limit |
| Administrator access: `application/auth/webauthn_service.py`, `admin_service.py`, `service.py` | `admin_passkeys`, `webauthn_challenges`, `admin_recovery_credentials`, `site_settings`, admin sessions | passkey registration and login, revocation of a passkey, recovery login and its upgrade, the CLI's initialize, recover, reset, lock, unlock | challenge used twice, a lock or a reset racing a login, two revocations of the last two passkeys | a challenge and a recovery credential work once; a recovery session only registers; a locked administrator has no session |
| Login throttle: `application/auth/service.py`, `repositories/auth.py` | `login_throttles` | record a failure, block, clear | the first failure is inserted by several requests at once; the window ends between two failures | no more attempts per window than allowed |
| Data migration 0.5: `application/auth/migration_service.py`, `src/apps/server/migrations/` | all tables | preflight, convert, audit | converting twice, converting while the site runs | conversion is idempotent |
| Library import: `application/library/inspection_service.py`, `commit_service.py`, `infrastructure/storage/local.py`, `src/apps/server/scripts/cleanup_library_storage.py` | `library_imports`, `stored_files`, temporary and permanent directories | inspect, commit, delete an upload; clean up | files cannot take part in the transaction: crash between a move and a COMMIT, failed compensation, a second commit during it, a cleanup in another process | a published file is there; failed commits leave nothing; everything temporary goes in the end |
| Upload parsers: `application/library/epub.py`, `text.py`, `filenames.py` | none | parse and bound an upload | malformed archives, sizes | limits |
| Edition files: `application/library/file_service.py`, `commit_service.py`, `repositories/library.py` | `edition_files`, `stored_files`, `books.cover_file_id` | replace the file of an edition, delete an edition or a book | revision numbers under concurrent replacements, deletion racing a commit, files shared by two rows | one current revision; a file goes only with its last reference |
| Books, editions, relations: `application/books/`, `application/editions/`, `domain/editions/` | `books`, `book_editions` | create, edit, delete; source and supersedes links | the referenced edition is read without a lock and may be deleted meanwhile | relations stay inside one book and never name the edition itself |
| Series: `application/series/`, `repositories/series.py` | `book_series`, `series_memberships` | create, add, move, remove, delete | two appends compute the same next position | a book is in one series; positions are distinct |
| Preferences: `application/preferences/` | `user_book_preferences` | update | a preferred edition that is hidden or deleted | the preferred edition is readable |
| Reading progress: `application/reader/service.py`, `repositories/reader.py` | `reading_progresses`, `edition_files` | open, read a section, save progress | two devices save at once; the file is replaced while it is read | no silent overwrite; versions only grow |
| Reader projection: `application/reader/content.py` | none | build the safe text of a section | sanitising | pure function |
| Site settings, access rules: `application/site/`, `application/access.py`, `api/dependencies/auth.py` | `site_settings` | update title, description, retention; the owner of the library and the checks of every request | settings change while a request runs | readers see only readable editions of the site's library |
| Audit log: `application/auth/audit_service.py` | `auth_audit_events` | append, purge after `audit_retention_days` | purge boundary | append-only |
| Upload limit: `api/middleware/upload_limits.py` | bytes received of a request | count and refuse | no Content-Length | bounded body |
| Reading page: `src/apps/web/src/pages/ReaderPage.tsx` | position, progress, queue of saves, settings timer | open, restore, scroll, save, resolve a conflict, change the edition or a setting | closures that keep an old edition, answers after the page has moved on, a restoring scroll that is measured | a save never overwrites what the page was not told; the last position is saved or a failure shown |
| Client session: `src/apps/web/src/api/client.ts`, `auth/AuthProvider.tsx`, `auth/ProtectedRoute.tsx`, `layouts/AppShell.tsx` | access token, refresh under way, cookies shared by tabs | restore, request, single-flight refresh, one retry, login, logout | several 401 at once, answers after logout, lost answers, two tabs | one refresh at a time; nobody acts as another user |
| Other pages: `src/apps/web/src/pages/`, `features/`, `shared/ProtectedImage.tsx` | what is loaded, loading, busy | load, change and load again; inspect and commit an upload, a batch; issue and manage readers | answers out of order, a choice changed while an answer is due, one failure in a batch, a secret that is shown once | the page shows what its URL asks for; what is committed was inspected; an issued credential is not lost |
| Edge limits: `src/apps/web/nginx.staging.conf`, `src/apps/web/nginx/` | request rates | limit | – | external |
| Operations: `src/scripts/*.sh` | images, database dump, library archive | deploy, back up, restore, roll back | a step fails half-way | a backup restores to one point in time |
| HTTP layer: `api/routes`, `api/schemas.py`, `api/serializers.py`, `api/errors` | none | parse, authorise, serialise | – | thin |

How they interact. A route opens one database session per request, resolves the caller
(`api/dependencies/auth.py` checks session, user, credential and device on every request), and
calls one application service, which commits itself; a request that raises rolls back. Services
meet only in the tables, so the steps of two requests interleave wherever neither holds the row
lock (`SELECT ... FOR UPDATE`) or the unique index the other needs. Library services also share the
two directories with the cleanup command. The web client meets the server only through requests
that may be lost, repeated or answered late.

## Reader access (`ReaderAccess`, `AccessRights`, `MCReaderAccess`, `ReaderAccessProofs`)

**State.** `cred`, `dev`, `sess`, `tok` are the committed rows of `reader_access_credentials`,
`devices`, `auth_sessions` and `refresh_tokens`, reduced to what the checks read: owner, status,
expiry, device limit and `allow_new_devices` of a credential; the credential and revocation of a
device; device, credential, expiry and revocation of a session; session, use and revocation of a
token. `req` is what every open request has read, the row locks it holds (`held`) and the rows its
current statement still waits for (`wait`, `todo`). `clock` is bounded by `MaxClock`.

**Granularity.** A statement that takes a row lock is a step of its own (`LoginKnownDevice`,
`DeviceLock`, `TokensLock`, `SessionsLock`, `SweepSession`, `SuspendLock`, ...), and the writes of a
transaction appear in its last step, the COMMIT (`LoginCommit`, `RotateCommit`, `SuspendCommit`,
...). Under READ COMMITTED a waiting statement re-reads the row once the lock is granted, so its
guard is evaluated in the step that gets the lock; what was read earlier without a lock
(`UpdateRead`, `ReissueRead`) is kept in `req` and may be stale. A request that is refused without
changing these tables has no action. `Rollback` is the end of a request that fails or whose client
goes away, `DeadlockVictim` the rollback PostgreSQL chooses when requests wait in a circle.

**What it implements.** `AccessRights` says what the operations mean: the owner and status of a credential, the
devices that are trusted (authorised and not revoked), the device of a session, and the sessions that may be used, with
one step for a login, a logout, the revocation of a device, and each operation of the administrator. A login opens one
session in place of the one on its device; suspending, revoking and reissuing end the sessions of that credential, exactly
those. It knows no request, no lock, no token and no time: an open session is let in until it expires. `OperationsAreAtomic`
states that the transactions implement it under the mapping at the end of `ReaderAccess`: the COMMIT of a request is the
step, and whatever comes before or goes wrong is a stutter. One outcome is not what one step of a login alone would give:
the device is revoked while the login waits, and the login still answers with a session, which cannot be used
(`LogInTooLate`).

**Runs.**

| Run | Instance | Shows |
|---|---|---|
| `reader_access_lifecycle` | 1 reader, 2 requests; while the clock stands and nobody edits (`Still`): 2 credentials, 2 devices, 3 sessions, 3 tokens; with one tick and `update_reader` (`Few`): 1 credential, 1 device, 2 sessions, 2 tokens | seven properties of the races of logins, refreshes, revocations, the lifecycle and edits of the expiry, one of them that they implement `AccessRights` |
| `reader_access_requests_end` | 1 credential, 1 device, 2 sessions, 2 tokens, 2 requests, without time, with `FairSpec` | every request ends although lock orders differ |
| `reader_session_outlives_credential` | small | a disagreement with the documents (below) |

Two open requests are enough for every hazard listed: each is a race of one request with one other
row-lock holder, and a third one can only wait. Two credentials are needed for reissue, three
sessions and tokens for a refresh after a replaced login, two devices for the limit.

**Fairness** (`FairSpec`). A handler keeps executing, and a waiting transaction is granted its row
when it is free again and again, because PostgreSQL queues lock requests: strong fairness of
`Progress(p)`. The deadlock detector runs after `deadlock_timeout`: weak fairness of
`DeadlockVictim(p)`. Nothing is assumed about clients: `Start` steps have no fairness.

**Proved** in `ReaderAccessProofs`, for any number of rows and requests, from
`ReaderAccessAssumption` alone: `TypeCorrect`, `NoSessionOutlivesItsCredential`,
`NoDeviceOutlivesItsCredential` and `RevocationStays`. The two safety invariants are not inductive:
the commit of a login adds a live session and nothing in the committed rows says that its
credential is still active. The strengthening `IInv` says why it is:

- `TypeInv` is `TypeOK` with the shape of a request: which fields its step has set;
- `Exclusive`: two requests never hold one row;
- `Work(p)`: what request `p` has established under its locks. A login that is past its check holds
  its credential, which is active; a suspension or revocation holds its credential and has, once it
  sweeps, left no live session of it outside `todo`;
- `CleanRows`: rows that are not in use yet name nothing.

Each group of actions has one lemma that shows `IInv'`; the lemmas about rows held by one request
and touched by another carry most of the argument. `RevocationStays` needs no more than the types.

On top of `IInv` stand `RevokedSessionIsClosed` (`RevokedSessionHasNoLiveToken`), `TokensRotateOnce`
(`OneExchangeableToken`), `LoginReplacesSession` (`OneLiveSessionPerDevice`) and `LimitAtAuthorization`
(`DeviceLimitAtAuthorization`), with the invariant `SInv`: which requests hold the lock that covers a
row they have read. The lock of a session covers its tokens and that of a device its sessions, so a
revocation that has locked the tokens of a session and a rotation that has locked one of them exclude
each other whichever comes first; and the devices of a credential are counted while its row is locked.

The finding `reader_session_outlives_credential` refutes "a session never outlives its credential". What remains of
that sentence is proved. `SessionsOutliveByUpdateOnly`: a step after which a live session outlives its credential is the
commit of an edit that brings the expiry forward, and no other (a login, for instance, computes the expiry of its session
before it waits for the device). `PastExpiryEndsSessions`: an edit that lets the credential expire at once leaves no
unrevoked session of it. The invariant `EInv` adds to `SInv` that a login past its check has capped its expiry with that
of the credential it has locked, and that an edit with a past expiry has locked or listed each live session of the credential
(`Expiry`); and that no session names a credential row that is not in use yet.

`ImplementsAccessRights` is the refinement for every number of rows and requests: one lemma per group of actions says that
a step is a step of `AccessRights` or leaves its variables alone. The safety invariants are not enough for that, because
they say what the rows are and not which rows a request is about to change; `RInv` adds to `EInv`

- `Reach(r)`: the rows a request has locked or still waits for are of the device or the credential it works on, so that
  its commit ends no session of anybody else; and a reissue works for the reader whose credential it has read, although it
  read it without a lock;
- `Tidy`: a session and its device are of one credential, and a row that is not in use names nothing and is named by nothing.

`AccessIsLawful` uses the refinement for what no lock alone gives: a reader has at most one credential that is not revoked
(`OneCurrent` is preserved by each step of `AccessRights`, hence by each step of the transactions), an open session has an
active credential and a device that is not revoked, one session a device. `RevocationIsFinal`, which `RevocationStays`
proves, says the same of the rows of every table, tokens included, for single steps.

Only `RequestsEnd` stays with TLC, because it is liveness.

## Library import (`LibraryImport`, `MCLibraryImport`, `LibraryImportProofs`)

**State.** `imports` and `stored` are the committed rows of `library_imports` and `stored_files`
(a stored file is known by its storage key), `cover` the cover of the one book all imports go to,
`temp` and `perm` the two directories, `req` the open requests, `job` the cleanup command, `faults`
the crashes and failed restores so far. Age is one bit, `old`: older than the time to live that the
cleanup uses as its cutoff.

**Granularity.** Every change of a directory or of a committed row is a step. A commit request
takes the row lock of its import (`CommitStart`), links each object to a permanent name and unlinks
the temporary one (`LinkPermanent`, `UnlinkTemporary`), applies the operation (`Apply`) and
publishes all rows at once (`Publish`). If anything fails, the transaction rolls back, **which
releases the row lock**, and only then the files are moved back (`Restore`, `RestoreFail`,
`RestoreDone`) and the failure is recorded in a new transaction by a read and a later write
(`FailureCheck`, `FailureMark`). The cleanup command reads and deletes in the order of its code:
`JobStart`, `JobReferenced`, `JobRemaining`, `JobDeleteExpired`, `JobSweep`, `JobList`,
`JobListOld`, `JobDeleteOrphan`. `Crash` kills the server between any two steps.

**Runs.**

| Run | Instance | Shows |
|---|---|---|
| `library_commits` | either 1 text, 3 temporary keys, 2 files, 2 requests, 1 fault, cleanup; or 2 inspected EPUBs with covers, 4 keys, 4 files, 2 requests without a fault | published files are present, a ready preview keeps its content, a failed commit leaves nothing, the cover of the book always has its row and its file |
| `library_cleanup` | 1 text, 2 keys, 2 files, 1 request, 1 fault, `--delete-orphans` | leftovers of crashes go: temporary objects, cut-off inspections, orphans |
| `library_completed_import_deleted`, `library_lost_commit_reply` | small | two disagreements (below) |

A commit moves two objects, so that it can fail between them; the third key is the second upload a
retry or a delete leaves room for. The EPUBs of `library_commits` start inspected, a state two
inspections reach, to leave room for both commits; nothing is left to do once both are published,
which a stuttering step of the instance allows. Otherwise a cleanup can always start, and the
deadlock check is on.

**Fairness** (`FairSpec`). An open request and a running cleanup go on (weak fairness); the
operator schedules the cleanup and time passes (strong fairness), provided that now and then no
request is open and no cleanup runs, which `[]<>(Quiet /\ job = NoJob)` assumes: a site whose
requests never pause together could keep a preview "fresh" for ever in this model, because age is
given to all objects at once.

**Proved** in `LibraryImportProofs`, from `LibraryImportAssumption`: `TypeCorrect`,
`PublishedFilesAreKept` (under `~DeleteOrphans`: a cleanup that deletes orphans may list a file
between its `link` and its `utime`, while it still looks old; and for `Spec`, where the answer of a COMMIT arrives) and `CoverHasItsRow`. The
invariant `IInv` adds to the types, for each request, `RequestShape` and `RequestFiles` (the files
it has moved are present and unpublished, the file it is about to delete has no row any more),
`Separate` (two requests never hold one permanent file, and none is about to delete a file another
holds) and `Tables` (what rows may name). `Publish` then preserves `PublishedFilesPresent` because
the files of the request are present, and a deletion because its file has no row and no holder.

`NothingLeftBehind` (`NoOrphanWithoutFault`) needs no assumption on `DeleteOrphans`. Its invariant has
two parts: `CanGoBack`, the temporary name of a file that was moved is free and belongs to one request, so
the compensation succeeds; and `Accounted`, every file without a row has a request that will still take it
away, or a fault has happened. `PreviewsStayWhole` (`ReadyContentKept`) is proved under `~DeleteOrphans`, for
the same reason as above: a temporary file belongs to one import, one inspection or one commit, and the
sweep reads what it must keep before it deletes.

**Left out.** The rows a commit writes besides the stored files and the cover (they are in
`Catalogue`), and series membership; sizes, hashes and media types; EPUB and text parsing, which is one step with
both outcomes. A cover and its thumbnail are one object: they are always moved and deleted together.


## Reading progress (`ReadingProgress`, `VersionedRegister`, `MCWebClient`, `ReadingProgressProofs`)

**State.** One reader and one edition. `row` is the row of `reading_progresses` (version 0: none),
`revision` the revision of the edition's current file, `req` the open requests, and `told` every
position that an answer has carried to each device. A device may base a save on any answer it was
ever given, so an answer that arrives late, or never, and a request that is delayed, are covered by
a save that uses an older answer.

**Granularity.** `ReaderService.open` and `save_progress` read the file of the edition without a
lock (`OpenRead`, `SaveRead`, with the check of the revision), then lock or insert the row
(`OpenLock`, `SaveLock`; `SaveNoRow` and `SaveInsert` where the locking read finds nothing, because
it sees no insert of an open transaction) and commit (`OpenCommit`, `SaveCommit`). The request that
is between the two holds the row (`Free`). A version that does not match ends in `SaveConflict` or,
when the insert finds a row, in `SaveLate`; both answers carry the row. `ReplaceFile` is the commit
of an import beside all this. `Rollback` ends a request anywhere.

**What it implements.** `VersionedRegister` states ADR 0011: a content is replaced only by a writer
that names its version and was shown it. `NoSilentOverwrite` is that specification under the
mapping `version <- row.version`, `content <- <<row.place, row.revision>>`, `seen <-` the versions
each device was told. The status is not part of the content: an open turns "not started" into
"reading" with a new version without naming the old one (`Touch`).

**Run.** The part "progress" of `web_client` (see the web client): 2 devices, 2 requests, 2 positions, 2
versions, 2 file revisions, a device that marks "not started". It shows that the register is implemented
(`NoSilentOverwrite`), that a version names one position, and that the file revision of the position never
goes back.

Two requests are enough for every pair of steps that can meet at the row. Two versions give a device
something old to name (no row, or version 1) while another has moved the row on by an insert, by a
save, or by the open that only changes the status; a third version adds no new kind of step.
Requests stop at `MaxVersion`, so there is no deadlock check.

**Proved** in `ReadingProgressProofs`, from `ReadingProgressAssumption`: `ProgressTypeCorrect`,
`VersionsNameOnePosition`, `RevisionsGrow` and `ImplementsRegister`. The invariant `IInv` says that
one request holds the row (`OneHolder`); that nobody was told more than the row, nor two things of
one version (`ToldIsOld`, `ToldAgree`); and, per request (`Work`), that a save names a version its
device knows and that, **as long as the row still has that version, its revision is not newer than
the one the save has checked**. That is why the early check of the revision is enough: a save with
a newer file in between has changed the version. The refinement then maps `OpenCommit` to `Write`,
`Touch` or `Look`, `SaveCommit` to `Write`, a conflict to `Look`, and every other step to a stutter.

**Left out.** `last_read_at`, which an open changes without a new version and no client compares;
the preference an open also writes (`Catalogue`) and the settings it reads (`ReaderSettings`); deletion of the edition, which removes
the row with it; the section's existence, which refuses a save before it reads the row.
## Web client (`ReaderPage`, `ReaderSettings`, `ClientSession`, `Pages`, `ImportPages`, `ReaderAdminPage`, `MCWebClient`, `MCReaderPage`,
`ClientSessionProofs`, `PagesProofs`, `ImportPagesProofs`)

Six modules of `src/apps/web/src/`. JavaScript runs one callback at a time with all the microtasks
it leaves, so an action is one callback (an event, a timer, an answer) together with the renderings
and effects it causes; what may interleave are callbacks, and an answer may be late, out of order or
lost. A page that is left is unmounted: its requests go on and their answers find nothing, except
where the code keeps a closure.

| Module | Code | State |
|---|---|---|
| `ReaderPage` | `pages/ReaderPage.tsx` | `page`: URL, what is opened, the refs (`progressRef`, `locationRef`, `restoreRef`), the section, the queue of saves with what each closure has captured; `server`: the saved position of each edition with its version, which other devices move too |
| `ReaderSettings` | the settings of `ReaderPage.tsx`, `ReaderService.update_settings` | `looks` (what is shown, the 300 ms timer), `patches` and `opening` (requests under way), `stored` (the row) |
| `ClientSession` | `api/client.ts`, `auth/AuthProvider.tsx`, `auth/ProtectedRoute.tsx`, `pages/LoginPage.tsx`, `layouts/AppShell.tsx` | per tab the user it shows, the access token and the one refresh under way, the cookies of the browser, the requests, the server's sessions with the generation of their refresh token |
| `Pages` | the pages that load, show and change: library, book, series, sessions, devices, security, site, audit, dashboard, status, profile, and `shared/ProtectedImage.tsx` | `view` (what is asked for, shown, loading, marked as busy; on the audit page `naming`, the readers' names that are asked for beside the first load), `liked` (the preference a book's page loads and sets), `loads` and `changes` under way, the revision of the server's data |
| `ImportPages` | `pages/UploadPage.tsx`, `pages/SeriesUploadPage.tsx` | the choices, the preview with what was inspected for it, the inspection, commit and deletions under way; the rows of a batch |
| `ReaderAdminPage` | `pages/AdminReadersPage.tsx` | list, detail, the tasks that wait for an answer, the credential that is shown once, the past revisions of the server's data, whether the page is lost |

**How they meet the server.** `ReaderPage` has the versions and conflicts that `ReadingProgress`
establishes at the grain of transactions, each request as one step; `ClientSession` the rotation,
the replay and the login of a known device that `ReaderAccess` models; the other pages only the
revision of what they read.

**`ClientSession`.** Every answer of `AuthProvider` changes the tab whoever it shows by then, as the code has no
guard: `ProfileArrives` is `updateDisplayName`, which sets the user of the answer, and `Registered` is
`registerPasskey`, which logs in when the session was one of recovery. A registration is two requests
(options, verification), the second with the token of its own moment, and the server accepts it only for the user
of the challenge. `foreign` becomes true when such an answer, a login beside another tab or a late refresh brings
another user; `ActsAsShownUser` is claimed until then.

**`Pages`.** A load of a book is two reads on the server in any order, the book and the preference; the choice
of a preference sets what is shown from its own answer and loads nothing. `crossed` becomes true when a load and
such a choice, or two of them, are under way together, as well as for two loads.

**`ReaderAdminPage`.** After an answer the page is rendered with the selection as it is and again after the effect has
changed it, so that the detail is mounted afresh when the selected reader was not listed. The page can be
lost (`pageLost`): a request meets a 401 whose refresh is refused, which clears the login (`LoginEnds`), or the user
leaves (`Unmount`). An issued credential that was not saved is gone with it; the behaviour ends there, because a
next visit mounts a new page.

**`ReaderPage`.** The opening and its answer (`loadReader`), the section effect, the scroll to the
saved position, the measuring of a scroll, `persist` with its queue, the conflict dialog with both
answers, `goToSection`, `restartReading`, the change of edition and the cleanup of the effect. What
a save carries is split as the code splits it: the position and the edition come from the closure of
the caller, the version from `progressRef` when the save is sent. `mixed` is set when another
edition is opened with answers still due; from then on an answer for the old edition becomes the
progress of the new one (the server refuses the next save by its version), and the second of two
answers that comes after the page was left replaces the position in `locationRef`. `SavesWhatItKnows` and
`PositionKeptOnLeave` are claimed until then, `SectionFollowsIndex` always.

**The run `web_client`.** The modules share no state, so their composition would only multiply
states; the run is the disjoint union instead: the variable `part` chooses one of them, and the
reading progress, at the start. Bounds of each part:

| Part | Instance | Why it is enough |
|---|---|---|
| progress | 2 devices, 2 requests, 2 positions, 2 versions, 2 file revisions | see reading progress |
| reader | 2 editions of 2 sections that were read before, 2 saves, 1 more waiting, 1 opening; from the first edition the reader goes on to the second and not back | one save is due and one queued behind it while the page goes on; a second edition is what a late answer can be mistaken for |
| settings | 2 settings of 2 values, 2 patches | two patches change different settings and answer in either order |
| session | 1 tab, 2 requests, 2 users, 2 logins, 2 refresh tokens, 1 expired access token, 1 change of the profile or registration at a time, beside any other request; a login by recovery is the first one | two requests meet the expired token at once, one of them before and one after the refresh; a second login is another user, whose page the late answer of a profile can reach, or replaces a recovery. Two tabs are the bit `overlapped`, which the lost answer also sets. A registration beside another user's login needs a third login; the theorems cover any number of tabs and logins |
| pages | every page, 2 keys, 1 card, 2 loads, 1 change, 2 revisions; once the loads of a book overlapped nothing more is read for them, they only fail | two loads answer in either order, a change between them; of a book whose loads overlapped nothing is claimed but that a spinner ends |
| import | 2 files (one too large), 2 encodings, 2 books, 2 imports, 2 files in a batch; up to 2 choices changed under an inspection | a late preview meets a changed form; one of two files of a batch fails |
| admin | 2 readers, of whom one exists at first and the other can be created, 1 filter, 3 revisions, 2 tasks; it ends when tasks have overlapped or the page is lost | an action, a creation, and the lists and details they load, in every order of answers and failures; 3 revisions are the first and two actions. What overlapping tasks do with an issued credential is covered by the theorem only, which holds for any number |

Identifiers and bounds are used up, so there is no deadlock check. Its properties:

- `SavesWhatItKnows`, `PositionKeptOnLeave`, `SectionFollowsIndex` (reader): a save names a version the
  page was told of its own edition, the last position is carried by the last save or a failure is
  shown, and the page shows the section it names.
- `LastChoiceKept` (settings): what was chosen last is shown and saved, unless requests raced.
- `ReplayHasACause`, `ActsAsShownUser`, `WaitsForARefresh` (session): one tab never loses its own
  login by presenting an old refresh token; no request acts for another user than the one shown until
  an answer has brought one (`foreign`); and nothing waits for a refresh that is over.
- `ShowsWhatWasAsked`, `WaitingHasACause` (pages): a page shows what its URL asks for and what it has
  confirmed, the preference of a book included, until requests overlapped (`crossed`); a spinner or a busy control has something under way that ends it.
- `CommitsWhatWasInspected`, `EachFileOnItsOwn` (import): a choice that is changed takes the preview of the former
  choices away, also when it is changed with a commit or a deletion under way; files of a batch do not disturb one another.
- `KeepsWhatItWasTold` (admin): as long as the page is there, an issued credential stays until it is saved, and
  as long as tasks do not overlap nothing older than the last action is shown.

Two corrections came from the proofs: the invariant of `ReaderAdminPage` was not inductive because the
guard of `Ask` let a question be asked while no reader was shown (now two conjuncts, as the page disables its
buttons), and `PositionKeptOnLeave` turned out to be false with two openings due, which the run, with a single opening and
no step after `mixed`, could not show; it now says `~mixed`.

Several of these say "unless": `mixed`, `raced`, `overlapped`, `foreign`, `crossed`, `late`, `rechosen`,
`overlap` and `pageLost` are history variables that name the cases in which the code has no guard (a second load
of `LibraryPage` that overtakes the first, a choice changed during an inspection, files chosen during a
batch, ...). The part of a behaviour before that case is checked in full. What happens in those cases
is described under "Known weak spots".

**The run `reader_opening_moves_the_position`** checks `OpeningKeepsThePosition` under `LookingSpec`: the reader
opens an edition, looks and leaves. TLC finds that the page saves the top of the section it restored:
the restoring scroll is measured as if the reader had made it, its save answers with a new `opened`,
which loads the section again, and the page scrolls to its top.

**Left out.** Percentages, wording, layout and focus; the toolbar's fading; the browser's WebAuthn
dialog (a passkey login is a login); the text of forms; two tabs that write in one edition (another
device of `ReaderPage` stands for them); which edition is preferred, only how new the preference is.

**Proved** for any number of tabs, requests, loads, files and settings:

- `ClientSessionProofs`, from `ClientSessionAssumption`: `SessionTypeCorrect`, `NobodyWaitsInVain`
  (`WaitsForARefresh`), `ReuseHasACause` (`ReplayHasACause`) and `ShownUserActs` (`ActsAsShownUser`). The
  invariants say that a tab has one refresh under way and remembers who waits for it; that a cookie is the
  newest of its session unless tabs overlapped or an answer was lost; and that everything that can
  still bring a page a live token (its token, the cookies, refreshes, logins whose answer is due) belongs
  to one user, the tokens of an undelivered login or registration being held by nobody else; the answer of a changed name
  is not one of them, so that it is excused when it shows another user.
- `PagesProofs`, from the assumptions of `Pages`, `ReaderSettings`, `ReaderAdminPage` and `ReaderPage`: `NothingWaitsForNothing`
  (`WaitingHasACause`), `PagesShowWhatWasAsked` (`ShowsWhatWasAsked`) and `LastChoiceIsKept` (`LastChoiceKept`).
  `PagesInv` adds what a page never does (an image has no controls, a load that was given up carries no
  mark); `ShownInv` says that until `crossed` there is at most one load, of the page's own key, and what it
  reads is as new as what the page was told. `PreferInv` says the same of the preference: a load of a book reads it after
  the last choice the page was told of, and of another choice that is under way the answer is newer still. `ChoiceInv` says where the last choice is: in the timer, in
  the one request, or in the row. 
  `AdminKeepsWhatItWasTold` (`KeepsWhatItWasTold`): `AdminInv` says that at most one task issues a
  credential until `overlap` is "issues", and only when the one before was saved; that with one task at a time the
  list and the detail stay as they are until its answer; and that a reader who is created was missing in every earlier
  revision, so that a list in which it shows is new enough. A step keeps it or loses the page, of which nothing is claimed.

  `ReaderSavesWhatItKnows`, `ReaderSectionFollowsIndex` and `ReaderKeepsPositionOnLeave` (`SavesWhatItKnows`, `SectionFollowsIndex`,
  `PositionKeptOnLeave`) follow from one invariant, `ReaderInv`. `Good` holds wherever the page was led: a page that shows
  an edition knows a version and a position, and shows the section of its index or is blank while a save is
  under way, has failed or has met a conflict. `Whole` holds until `mixed`: every opening, closure, position
  and waiting save of the page is of one edition (`Pure`), except just after the change to another one, when the
  save of the cleanup may wait alone, unsent, on a page without progress, so that it ends without a request
  (`Arriving`); there is one opening at a time and none once the edition is shown (`OneOpening`); and on a page that
  was left the last waiting save carries the position, or, when none waits, the last successful one did or
  the footer says that it failed (`Left`). `Left` is why the order of the queue matters: only its last
  save is the cleanup's. `ReaderOverwritesNothingUnseen` is the rule of ADR 0011 from the side of the page, an action
  property: the row `saved` is overwritten by another device or by a save of the page that carries a version the page was
  told of, and by the next version of the same edition.
- `ImportPagesProofs`, from `ImportPagesAssumption`: `OnlyInspectedIsCommitted` (`CommitsWhatWasInspected`)
  and `FilesDoNotStopEachOther` (`EachFileOnItsOwn`), for batches of any length. `BatchInv` says how far the
  loop is: the rows before its index have their outcome, the row at it is what is marked, no other one is.
  The position the loop goes on to is a CHOOSE; that it exists, and is the first file that is not too
  large, is shown by counting (`Least`), because induction is not available.
  `WebImplementsItsParts` shows that each step of the composed run is a step of one machine and leaves the others
  alone; `WebTypeCorrect` (`WebTypeOK`) joins the type theorems of the seven by it.

**Known weak spots** that the models have and no property excludes: `LibraryPage` and `AdminAuditPage` show
the answer of an older filter when it comes last; a form of a book or series that is answered after the
URL has changed reloads the old one below the new URL; a change that succeeds takes away the message of
a failed load; `SeriesUploadPage` imports again what had succeeded when a batch is uploaded again, and
writes outcomes on other rows when files are chosen during the upload; on `AdminReadersPage` a second issued
credential replaces the first one before it is saved; a late answer of a settings PATCH shows an older
choice; a save whose answer is lost is met by the page as a conflict with itself; the answer of a changed
display name that comes after a logout and another one's login shows the former user's name over the new one's
session, and the answer of a passkey registration begun with a recovery session logs in again after a logout
(`AuthProvider` sets the user of any answer); the answer of a preferred edition (`BookDetailPage`, `setPreferred`) that comes
after a newer load, or after the URL has changed, is shown over it; the page of the invited readers loses a
credential that was just issued when the reload of the list meets an expired session whose refresh is refused, also
with a 503 (`client.ts` ends the login for any refusal); and a refresh of the
former user that is answered after another one's login in the same browser brings the former user's
session back below the page of the new one (`foreign`).


## Administrator access (`AdminAccess`, `MCAdminAccess`, `MCAdministration`, `AdminAccessProofs`)

**State.** `passkey` and `token` are the status of the rows of `admin_passkeys`,
`webauthn_challenges` and `admin_recovery_credentials`; `sess` the administrator's sessions with
the passkey (`NoKey`: a recovery session), the token that opened them and the device; `ready` and
`locked` the site row; `req` the open requests, the operator's commands among them, each with the
row locks it holds (`locks`) and the sessions it is about to revoke (`ends`). A status changes at
the commit; until then only the lock is seen.

**Granularity.** Each database statement that waits for a row, and each commit, is one action. A
locking statement waits until no other request holds the row and then sees what the holder
committed: `LoginCheck` takes the passkey and the challenge FOR UPDATE, `RecoveryCheck` the
recovery credential, `Command` the site row. Other rows are locked because SQLAlchemy flushes a
change before the next query: `TakeDevice` writes the device before it reads the sessions to
revoke, `RevokeFlush` the passkey before its sessions. `RevokeCheck` counts the active passkeys
without any lock. A passkey or a recovery credential inserted by an open request is visible only
after its commit. `RegisterPasskey` notes the sessions of a recovery before it waits for the site
row (`TakeSite`), as `upgrade_recovery_session` does. `Rollback` ends a request anywhere: an
error, a client that goes away, or a deadlock that PostgreSQL resolves. The locks of session rows
are left out, because every statement on them revokes, and a session revoked twice is revoked.
`active_context` reads the site and the passkey when it checks a session (`Valid`); the site row it
read is no longer referenced when a later statement of the request locks it.

**Runs.**

| Run | Instance | Shows |
|---|---|---|
| `administration`, its part "access" | 2 passkeys, 1 device, 4 sessions, 1 authentication and 2 registration challenges, 2 recovery credentials, 2 requests | a revoked passkey has no live session, a token opens one session, one recovery credential is open, one login per device |
| `admin_last_passkey` | the same with 2 sessions and 1 recovery credential | both of the last two passkeys can be revoked (a disagreement, see below) |

Every conflict in this part is between two requests, so two requests are enough; four sessions
allow a recovery, its completion, a login with the new passkey and one more that meets it on the
same device; two passkeys are the last two; two recovery credentials are an old one and its
replacement. Rows that are interchangeable are taken in order (`RowsInOrder`). Identifiers are used up, so
there is no deadlock check. The other part of the run is the catalogue, below.

**Proved** in `AdminAccessProofs`, from `AdminAccessAssumption` (the kinds of identifiers are
disjoint): `TypeCorrect`, `RevocationEndsSessions`, `TokensAreSpentOnce`, `SingleOpenRecovery` and
`SingleLoginPerDevice`, for any number of rows and requests. The properties are about committed
rows, and none is inductive: what makes them true is what an open request holds. The invariant
`IInv` therefore adds `Apart` (no lock has two holders) and, per request, `Work`: a login holds an
active passkey and an unspent token (`LoginWork`), and at its commit the device, with every session
a login opened on it noted; who revokes a passkey holds it and has noted all its live sessions
(`Covers`); a command holds the site, and with a new credential every open one (`CommandWork`). The
lemma `Undisturbed` says once that a commit which leaves the locks of others alone, and opens no
session of a passkey or device they hold, leaves their `Work` true; each commit then only shows
that this is what it does.

The module also proves what the run `administration` checks of the two parts at once: its specification implements both
(`AdministrationImplementsItsParts`); the rows it starts with, which are not the empty ones of `CatalogueInit`, satisfy
the invariants of the catalogue, so that these hold of the whole (`AdministrationInvariance`); and `RowsTypeCorrect`
(`RowsTypeOK`). This uses `MCCatalogueAssumption`: the identifiers of the first rows are different ones.

**Left out.** Renaming a passkey, revoking a device of the administrator, refresh tokens and the
expiry of sessions (modelled for readers), the login throttle, the sign counter, the removal of
expired challenges, which no request can use any more, and `status`, which only reads.

## Catalogue (`Catalogue`, `MCCatalogue`, `MCAdministration`, `CatalogueProofs`)

**State.** `books` (with the cover), `editions` (`book_editions`: book, role, whether it is ready, source,
supersedes), `edition_files` (edition, revision, the uploaded file and the text made of it),
`stored_files`, `preferences` (`user_book_preferences`: preferred and last opened edition of each user and
book), and `handler`, what each open request has read. `issued` are the primary keys used so far,
`overtaken` notes that a cover was replaced which another request had read.

**Granularity.** A request is a read step, in which it validates, and a commit step, in which its rows
appear and the foreign keys (all RESTRICT) are checked; between the two anything else may commit, unless
the request holds the edition FOR UPDATE (`delete_edition`, the replacement of a file: `Locked`), for
which the foreign-key checks of others wait (`Unlocked`). `AddRead`, `NewEdition` and `ImportEdition` are
`EditionService.create` alone and within `_apply_operation`, with `_apply_cover` in its commit; this and `ImportBook`,
an import that brings a new book, may also make the new edition the administrator's preferred one
(`ImportPrefers`);
`ReplaceLock` and `ReplaceCommit` the new revision of a file; `UpdateRead` and `UpdateCommit` write only the
columns that differ from what was read, as SQLAlchemy does; `PreferRead` and `PreferCommit` are
`PreferenceService.update`, which `ReaderService.open` also calls; `DeleteEditionLock`,
`DeleteEditionCommit`, `DeleteBookRead` and `DeleteBookCommit` are the two deletions.

**Runs.** `administration` is the disjoint union of the administrator's access above and of this module: 2
books, 3 editions, 6 stored files, the administrator and one reader, 2 requests at the same time and 3 in
all, 2 revisions of a file. It starts with a book that has a cover and one edition, which the reader has
opened or not and the administrator prefers or not, and with a translation of it, another book, or neither.
Two requests meet in every order, and the third is one that began before or after both; a second book is
what a relation could wrongly reach. Stored files are numbered in the order they come.

- `RelationsHold`: relations, preferred and last opened editions stay inside their book although they are
  validated without a lock; the foreign keys refuse what was deleted meanwhile, and since neither book nor
  role of an edition ever changes, nothing else can become wrong.
- `StoredFilesAreReferenced`: whatever a revision or a cover names has its row, and every row is named,
  although deletions work with files they read before. Where a cover was replaced that another import or a
  deletion of the book had read, its successor's row is left behind (`overtaken`): neither locks the book.

`catalogue_opened_edition_stays` is a disagreement (below). Here a deadlock check would only find that the
requests are used up.

**Left out.** Titles, languages, metadata and the update of a book's text; series; the objects in the
directories (`LibraryImport`); a cover and its thumbnail are one object. A preference row is read with its
commit.

**Proved** in `CatalogueProofs`, from `NullAssumption` (no identifier is `Null`): `CatalogueTypeCorrect`,
`RelationsAlwaysHold` (`RelationsHold`), `FilesAndRowsAgree` (`StoredFilesAreReferenced`) and
`FilesAlwaysHaveTheirEdition`, for any number of rows and requests. A request validates before it locks,
so neither is inductive. `CatalogueInv` says why what was validated may be written: identifiers are
used once, an edition never changes its book or its role, and so a row that was read either is still what
it was or is gone, when the foreign key refuses the request; the locks of a book or an edition are held by
one request; and a cover that was read is the one that stands unless another request has overtaken, which
the request then finds.

## Disagreements found

Every finding is a run that TLC must find violated, with the quoted line in `PROJECT.json`.

1. `reader_session_outlives_credential`: shortening a credential leaves its sessions with their
   longer expiry, although the documents say that a session never outlives its credential.
2. `library_completed_import_deleted`: a late failure of one commit overwrites the success of
   another, and the completed import can then be deleted.
3. `library_lost_commit_reply`: a COMMIT whose answer is lost is compensated although it succeeded.
4. `admin_last_passkey`: two requests that revoke the last two passkeys both count two, although the
   last one cannot be revoked according to the documents.
5. `reader_opening_moves_the_position`: opening an edition, looking at it and leaving it saves another
   position than the one that was restored.
6. `catalogue_opened_edition_stays`: an edition that an invited reader has opened cannot be deleted, because
   the deletion clears the preference of the administrator only and the foreign key of the reader's refuses
   it; the same holds for its book. The page promises that the deletion clears a preference and is refused
   for depending editions only.

## Plan

Done: `ReaderAccess` (who may read), `LibraryImport` (files and rows agree), `ReadingProgress` (opening and
saving, and the register they implement), `AdminAccess` (passkeys, recovery, the operator's commands), the web
client (`ReaderPage`, `ReaderSettings`, `ClientSession`, `Pages`, `ImportPages`, `ReaderAdminPage`), `Catalogue`
(editions, files, preferences). Left, in the order of what matters to the readers of the site:

1. `LoginThrottle`: the first failures of a key, the end of the window.
2. The backup, update and rollback scripts, step by step with a failure at each; the migration command.

## Not modelled, and why

The list of components in `PROJECT.json` says it per part. In short: functions of bytes (EPUB and text
parsing, the reader projection) have no behaviour over time; the HTTP layer and serializers are thin; nginx
is configuration. The operations of a series run one after another under the lock of its row, and unique
indexes refuse the rest, so nothing interleaves there; the audit log only grows; the upload limit is one
counter in one coroutine. The login throttle and the operations scripts are planned. Liveness under
fairness (`RequestsEnd`, `TemporaryReclaimed`, `InspectionSettles`, `OrphanReclaimed`), ENABLED and whatever needs
induction over recursive data stays with TLC: TLAPS with the installed backends cannot prove it. Every other property
of a passing run is stated by a theorem; those of a composed run (`RowsTypeOK`, `WebTypeOK`) by way of the theorems that
it implements its parts.

## Running

`tlc -workers 2 -config MCReaderAccess_lifecycle.cfg MCReaderAccess` and so on for each row of
"runs"; `tlapm M.tla` for the eight modules whose name ends in `Proofs`. The names that end in a suffix after an
underscore (`LoginRow_NoLock`, ...) are mutants: changes a plausible bug would make, one for each
property, which no action uses. They show that the property can fail.
