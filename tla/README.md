# Formal models of the investigation platform

TLA+ models of the platform: the API server (`api/src`), the database functions
and policies it relies on (`db/migrations`), the processes that work on them
concurrently, and the pages of the web client that change things (`web/src`).
TLC checks the models on small instances; TLAPS
proves the properties that matter most for every value of the constants.

To run them, from this directory:

    tlc -config IngestionRun.cfg MCIngestionRun      # any run of the table below
    tlapm IngestionRunProofs.tla                     # any of the *Proofs modules

## 1. The system

One Node process (`api/src/index.ts`) serves a web client (`web/src`) from one
PostgreSQL database. All the state is in the database; the process keeps only a
pool of ten connections, the requests it is serving and the background work
some requests start. Postgres runs at READ COMMITTED, so that two statements of
a transaction may see different data. Concurrency comes from requests that
overlap, from background ingestion, from the retention schedule and from
crashes of the process. In a browser tab it comes from requests whose answers
overtake each other, get lost or arrive after the user has gone on.

| Part | State | Operations | Interacts with | Hard because |
|---|---|---|---|---|
| Ingestion run (`routes/ingestion.ts`, migrations 009, 012) | `ingestion_runs` (status, counters), objects and edges, `ingestion_run_errors`, an advisory lock | create, resume, chunk, mark failed, finalize | pool, audit log, entity resolution | background work outlives its request; crash and resume; the lock is taken after the checkpoint was read |
| Audit log (migrations 004, 008, `audit.ts`) | `audit_log`, its sequence, a transaction-level advisory lock | `write_audit_log`, `verify_audit_log` | the routes that call `writeAudit` | read-then-insert by concurrent writers; rollbacks; one lock for the whole system |
| Request transaction (`db.ts`) | a connection, session settings | BEGIN, handler, COMMIT or ROLLBACK | all of the above | lost COMMIT answers, early returns |
| Connection pool (`db.ts`) | idle and checked-out connections, a queue | connect, release | requests, ingestion runs | runs hold one connection and need another |
| Case (`routes/cases/*`, migrations 003, 007) | status, notes, pinned entities, evidence snapshot, activity | create, note, pin, unpin, change status, report | objects and edges, audit log, retention | status checked without a lock; snapshot read by three statements |
| Retention (`retention.ts`, migration 014) | markers in objects and edges, `retention_enforcement_runs` | sweep | cases, objects, audit log | select, then update by id; sweeps overlap; counts recorded at the end |
| Entity resolution (`resolutionQueue.ts`, matching in `ingestion.ts`) | `objects.canonical_of`, `resolution_queue` | match, decide, undo | ingestion, edges | decisions on pairs that changed; chains of merges |
| Graph (`routes/graph.ts`) | none | expand, shortest path | edges | bidirectional search cut off by budgets, over edges that are being ingested |
| Authentication, users (`auth.ts`, `admin.ts`) | `app_users` | look-up per request, list, update | everything | context read once, used later; `previous` of the audit entry read before the update |
| Row-level security (005, 006, 011) | policies | — | every statement | what is not visible is silently missing |
| Objects, types, search (`objects.ts`, `objectTypes.ts`, `objectValidation.ts`) | objects | read, validate | ingestion | little: single reads |
| Web session (`lib/auth.ts`, `lib/AuthContext.tsx`) | tokens in sessionStorage and in React's state, PKCE verifier and state | sign in, call back, refresh, log out, reload | identity provider, API | a token expires under way; repeated clicks, Back and effects that run twice |
| Review queue (`ResolutionQueuePage.tsx`) | cached list, focused index | keys, clicks, decide | entity resolution | the list is fetched again while the next key is pressed |
| Intake page (`IntakePage.tsx`) | upload form, table of runs, four forms and their lists | choose, pick, upload, poll, create | ingestion, retention | template must fit its source; lost answers; polling must neither stop early nor miss a run |
| User admin page (`AdminUsersPage.tsx`) | cached list | change role, active | `admin.ts` | a list read before a change may arrive after it |
| Other pages | cached answers | read | API | mostly rendering |

What makes each part correct:

- **Ingestion run**: the counters are exactly the committed rows; no row is
  committed twice or skipped; two attempts never work at once; a completed run
  is whole and has one truthful audit entry; the lock is given back; the run
  does not stay `running` for ever.
- **Audit log**: the chain never breaks; where a handler records itself, a change
  or an answer implies an entry; no deadlock or starvation through the chain lock.
- **Pool**: connections are accounted for; whoever waits is served, unless runs
  keep every connection for their locks.
- **Case**: a locked case does not change; the snapshot of a closed case is
  what was pinned, and its report shows it.
- **Retention**: nothing an open case relies on is cleared; what is cleared is
  counted; a sweep ends.
- **Entity resolution**: `canonical_of` agrees with the decisions, has no
  cycles, and a merge can be undone.
- **Graph**: a path that is found is a shortest one; "not found" is honest about
  budgets.
- **Users**: the audit log accounts for every row of `app_users`.
- **Web session**: no call is on its way with an expired token; a code is
  presented once, with its own verifier.
- **Pages**: what is shown once all answers are in includes what the user was
  told had succeeded; the queue empties; a run's template
  is its source's; a picked file becomes one run; a run is followed to its end.

PROJECT.json lists the hazards, each at its line, with the properties that
cover it.

## 2. The modules

| Module | Models | Composes |
|---|---|---|
| `IngestionJob` | abstract: rows taken in file order, each once, one report | |
| `IngestionRun` | one run and all attempts on it | implements `IngestionJob` |
| `MCIngestionRun` | constants for TLC | |
| `IngestionRunProofs` | proofs | |
| `AuditLog` | abstract: one history that each request extends at its end | |
| `AuditChain` | the table, `write_audit_log`, the transactions around it | implements `AuditLog` |
| `AuditChainProofs` | proofs | |
| `ConnectionPool` | the pool, requests, runs | |
| `ConnectionPoolProofs` | proofs | |
| `CaseFile` | one case and the requests on it | |
| `Retention` | sweeps over the objects and edges of that case | extends `CaseFile`, interleaves both |
| `MCRetention` | constants for TLC, and a bound on the actors of a behaviour | |
| `RetentionProofs` | proofs about `CaseFile` and `Retention` | |
| `EntityResolution` | objects that are linked or queued on ingestion, and reviewed | |
| `EntityResolutionProofs` | proofs | |
| `GraphSearch` | one request for a shortest path, and edges ingested meanwhile | |
| `MCGraphSearch` | a graph for TLC | |
| `GraphSearchProofs` | proofs | |
| `Session` | one tab's sign-in, tokens and API calls | |
| `SessionProofs` | proofs | |
| `CachedQuery` | what the pages rely on TanStack Query for (external) | |
| `UserAdmin` | the user admin page in several tabs, and `admin.ts` behind it | uses `CachedQuery` |
| `ReviewPage` | the review queue in one tab, and other reviewers | uses `CachedQuery` |
| `IntakeUpload` | the upload form and the table of runs | uses `CachedQuery` |
| `IntakeForms` | the four forms below | uses `CachedQuery` |
| `WebClient` | one page of the last four shown per behaviour, and the fairness | extends the last four |
| `MCWebClient` | constants for TLC | |
| `WebClientProofs` | proofs about the four pages | |

Each module that TLC checks has a section *Deviations* (or one operator that says
it is one): operators that change one definition the
way a plausible mistake would. They are not part of the specification. Putting
one in the place of the definition it names breaks a property (the list is
`mutants` in PROJECT.json), which shows that the property depends on that code.

### IngestionRun

The variables are the run's row (`status`, `counts`), the rows committed as
objects or edges (`objects`) and to quarantine (`errors`), each tagged with the
attempt that committed it, the audit entries, the advisory lock, and for every
attempt its place, its `chunkStart` and what `finalizeRun` has read. An attempt
is a create or resume request and the background work it starts.

    Create        POST /ingestion/runs, setup transaction
    ResumeRead    POST .../resume: the reads of its setup transaction, startAt
    Revive        ... UPDATE status = 'running' and the end of that transaction
    ResumeRefused, RequestAborts, LockBusy
                  400/409, a failure before the background work starts
    AcquireLock, LockQueryFails
                  tryAcquireRunLock, and when its query takes effect but fails
    CommitChunk, ChunkAborts, ChunkCommitUnanswered
                  a chunk's transaction: committed, rolled back, committed with
                  the answer to COMMIT lost
    MarkFailed, MarkFailedAborts
                  the catch block, whose own error is swallowed
    ChunksDone, FinalizeRead, FinalizeWrite, FinalizeAborts
                  finalizeRun
    ReleaseLock, UnlockFails
                  the finally, and when its query fails, which is only logged
    PoolCloses    the pool closes an idle connection, and with it its session
    Crash         the process dies

A chunk is one step because nothing outside sees its rows before COMMIT and it
reads nothing of the run's row. `finalizeRun` is two steps because its read and
its write are two statements. Edge rows are quarantined when they lack a value
(`BadRows`) or when source or target is not found *now*, which is a choice in
the model (`Quarantines`); object rows exactly when validation rejects them.
`Crash` kills every attempt, as there is one process; a transaction whose COMMIT
is in flight is decided before the lock's session ends. A lost lock connection
brings the process down and so is a crash too. The hash that names the lock is
taken to be free of collisions. The status `pending` is never written.

The lock belongs to a session, not to an attempt. `stray` is a session that has it
while no attempt works in it: after an unlock that failed its connection is back
in the pool (`pooled`), where the lock lasts until the pool closes that connection,
and where the next attempt may draw the very same connection and take the lock
once more; after a lock query that failed the connection is out for good (`lost`).

### AuditChain

A request's transaction may change a row that others change as well (it waits
for its lock), then calls `write_audit_log`, whose statements are steps of their
own, then commits. In a handler that calls `writeAudit` the entry is the last
write, and there is one per transaction. A request that is refused returns
before it has changed anything.

The others are the constant `Unaudited` and end by `CommitUnaudited`. The code has
many: the chunks of an ingestion (`ingestion.ts:164-251`, `281-356`), the setup
of a run (668-730), marking it failed (259, 360) and running again (788-794), the
batches of a sweep (`retention.ts:20-104`; the sweep's one entry comes at its end), and,
of what only reads, `GET /resolution-queue` (`resolutionQueue.ts:50-96`),
`GET /ingestion/*` (`ingestion.ts:436-628`), `GET /admin/users` and
`GET /admin/retention/runs` (`admin.ts:14-25`, `96-109`) and `GET /cases/:id/graph` of a
case without pins (`workspace.ts:124`). `audit.ts:12-13` says otherwise ("Every route that
reads or writes classified data calls this"), and so does `004_audit_log.sql:1-3`
("Every read, write, search, export, and AI query goes through the same table").
With `Unaudited` in the scope of `NothingUnaudited` TLC violates it in two steps;
there is no run for that, since reading any of these lines shows it as well.

`log` holds committed entries, `own` those an
open transaction has inserted; a statement sees both. SHA-256 is taken to be
injective: a hash is the sequence of contents chained into it.
`VerifyPasses` is what `verify_audit_log` computes, run by any transaction at any
time. The append-only triggers are why no action changes a row.

### ConnectionPool

`held` is the set of connections that are out, each with its purpose; `queue`
is pg-pool's list of waiting clients. A request takes one connection per
transaction (the look-up of the user by `authenticate` and the `fetchRunSummary`
of a reply are transactions like any other, one after the other). A run takes
one for setup, returns it, takes one for its lock and keeps it, and takes one
per chunk and a last one for `finalizeRun` or for marking the run failed.
`LockQueryFails` is the path on which `tryAcquireRunLock` throws before it
returns a way to release its connection: it leaks. A resume that finds nothing
left to process is a request with two transactions.

### CaseFile and Retention

One case, its objects and the edges among them. `req` holds, per request, where
it is and what it has read. `CheckStatus` and the write are different
statements and so different steps; a pin or unpin becomes visible when it
commits, and conflicting writers of the same row wait for each other
(`InTheWay`). Closing reads ids, objects and edges by three statements, then
writes status and snapshot, while edges go on being ingested (`EdgeIngested`),
objects unpinned and both anonymized: the three need not be of one moment, nothing
says they are, and no property claims it. `Visible` is the row-level security on
what it reads: a closing session may not be cleared for every object, and then its
snapshot lacks it. `Report` is what a fully cleared reader gets. Nothing keeps
requests apart. What the properties can say of their races they say with two
histories: `met`, per request that is to lock the case, those that have been under
way at the same time, and `stragglers`, those of the request that has locked it.
Foreign keys
do not order these transactions: a key-share lock does not conflict with an
update of `status`. The case's activity and audit entries commit with the
request and are left to AuditChain. `case_documents`, which nothing writes,
is left out.

`Retention` adds sweeps: `StartSweep`, `Select` (the SELECT of a batch),
`Anonymize` (the UPDATE by id), `RecordRun`, and `SweepFails` for an error or a
crash. `overlapped` is the history of sweeps that were at work beside another. Expiry is a constant set: during a sweep more time makes more rows
expire, never fewer, and the two sets of rows the model distinguishes exist
either way.

### EntityResolution

Objects are numbered in the order of insertion (the code's ids are random). A
row of ingestion is one step: the only statement in it that depends on others is
the search for candidates, which sees committed objects and the chunk's own. How
alike two objects are is a choice, so every pattern of similarity is covered.
What an open chunk has inserted is in `inserted`; its links and pairs become
visible with the objects at `CommitChunk`, or go with them at `ChunkAborts`.

A review (`ReadPair`, then `Update` per statement, then `CommitReview`) is a
request to decide or to undo; it reads the pair without a lock and then updates
the object and the pair in that order. `wrote` is what it has locked, invisible
to others until the commit. `Visible` and `PairVisible` are the row-level
security of objects and of the queue: an UPDATE of an object the session does not
see matches no row, which `decide` notices and `undo` does not, so that
`PairVisible` (migration 011) is what keeps an undo honest. The share lock that
the foreign key takes on the other object conflicts with none of these updates.
The audit entry of a review is its last statement and left to AuditChain.

### GraphSearch

    ExpandLevel   one round of the loop: expandFrontier for the side whose turn
                  it is, then the check for a meeting node
    LoopEnds      the loop's condition fails
    WalkForward, WalkBackward
                  the path, one parent at a time
    EdgeIngested  a chunk of edge rows commits

A level is one query, and each sees what is committed by then. Which rows a
`LIMIT` admits and which of several rows gives a node its parent is a choice, and
so is the meeting node when a level finds several: the code takes whichever row
comes first, and the query has no ORDER BY. The reference definition (`Within`,
`Apart`) knows nothing of frontiers. `edges` is what the session may read.

### Session

The variables are what the tab shows (`page`), what sessionStorage holds
(`stored`, `pkce`), `signedIn` for the tokens in React's state, the calls under
way, the callback page with its effects, and on the provider's side the codes
and whether its session is alive.

    ClickSignIn, GoToProvider, ProviderLoads
                  startLogin up to its await, after it, and the page it leads to
    ProviderRedirects, BackToCallback
                  /auth/callback is opened with a new or an old code
    CallbackEffect, ExchangeIssues, ExchangeArrives, OpenAgain
                  handleCallback, and what the user does when it fails
    Call, RefreshIssues, RefreshArrives, RefreshFails, ApiReceives
                  withToken, getValidAccessToken, the eager refresh on mount
    Logout, LoggedOut, Reload, SessionEnds, Tick
                  logout, page loads, the provider's own time-out, time

A page load discards what the page was doing, refreshes under way included (`Load`). A token has two lives: `real`, which
the API looks at, and `said`, which the tab counts from the arrival of the
answer. That the skew covers what messages take (`TokenDelay + ApiDelay <= Skew`)
is an assumption about the network: it is what the 30 seconds are for. The
provider is external: it accepts a code once and with its verifier only, and
neither rotates nor revokes refresh tokens, as the realm is configured.

### The pages

`CachedQuery` has a query as the data of its last successful fetch, how far the
fetch under way is and what the API has read for it: served and arrived are two
steps, so that a list may be out of date when it arrives. `Invalidated` cancels a
fetch under way, except the first; `Polled` does not. These are the library's
defaults, from how the pages use it.

`UserAdmin`: a change goes `sent`, `accepted` (by `authenticate`), `read` (SELECT
without lock), `locked` (UPDATE waits for the row), `committed` (audit entry and
COMMIT), `answered` or lost; a user's row changes at commit. The tabs of all
admins are there, since two of them changing one user is the case that matters.

`ReviewPage`: the keys (`DecideKey`, `ArrowDown`, `ArrowUp`), the clicks and the
buttons, the mutations under way in the order they were begun, `focusedIndex` and
its move on success. `isPending` is that of the mutation begun *last*, which is how
the library has it. The keys' handler closes over the value of the last render
(`rendered`), and the library tells the page of a change only after the event, so
that `Render` is a step of its own: two keys in quick succession both find the page at
rest and send two decisions, which may overtake each other. Moves of the focus
and new lists are taken to be rendered at once. The clicks and the buttons do not
look at `isPending`. A behaviour
is `calm` or not: the calm reviewer, about whom liveness speaks, acts on settled
lists only and loses no answer; the other one does what the page lets him. Undo is
offered by no page.

`IntakeUpload`: the choices of kind, source, template and file, each with what
it empties; the mutation; `POST /ingestion/runs` as far as the page sees it; the
table with its polling interval. What the run does meanwhile is `IngestionRun`'s
subject, so that here a run is over or not. The button is taken to be disabled on the
screen before the next click: of a click queued before that render, which would
upload the file twice, nothing is modelled, and `OneRunPerPick` says nothing.
`IntakeForms`: typing, submitting,
answers in any order, one list per form. The four forms have the same code but
for their keys, for the sweep's button, which waits, and for a source's name,
which is UNIQUE.

`WebClient` shows one page per behaviour: a page's state lives while it is shown
and the pages share no query, so that nothing passes between them but the
database, and what others do to that is in each module.

## 3. What is checked

| Run | Instance | Result |
|---|---|---|
| `ingestion` | 3 attempts, 3 rows, chunks of 2, 1 bad row, edge template; 1.5 million states | all hold |
| `ingestion_serial` | 4 attempts one after the other, 4 rows, chunks of 2 | all hold, and the run is an `IngestionJob` |
| `ingestion_skip` | 4 attempts that may overlap, 3 rows, chunks of 1 | `CompletedHasEveryRow` is violated |
| `audit_chain` | 3 requests that record themselves, 1 that does not | all hold, and the table is an `AuditLog` |
| `pool` | 3 runs of 1 chunk, 2 clients, 3 connections | all hold |
| `retention` | 2 objects, 1 edge, batches of 1; 3 requests, or 2 and 1 sweep, or 1 and 2 sweeps; 0.8 million states | all hold |
| `retention_pinned` | 2 requests, 1 sweep | `PinnedDataKept` is violated |
| `case_locked` | the same | `LockedIsFinal` is violated |
| `resolution` | 2 chunks of 2 rows, 3 objects, 3 reviews, one session with less clearance | all hold |
| `graph` | all graphs of the 8 edges of a pool on 5 objects, 3 requests, 4 hops, 5 rows | all hold |
| `session` | 2 calls, tokens of 4 ticks with a skew of 2, 3 sign-ins | all hold |
| `web_client` | users: 1 admin, 1 other, 2 changes; review: 3 pairs, pages of 2, 2 decisions under way; upload: 2 sources, 2 files, 2 runs; forms: 2 rows, 2 requests under way | all hold |

What the properties say is in the comment above each. In short:

- *Without any discipline* (`ingestion`): one worker at a time, counters equal to
  what is committed (a row committed twice counts twice), a completed run has
  counted as many rows as the file has, and every attempt comes to give the lock
  back. It is free then unless the lock query or the unlock itself failed: a lock
  that is left with a pooled or lost connection may refuse every resume for as long
  as the server lives.
- *When no request on a run is sent while another attempt is under way*
  (`ingestion_serial`, formula `Serially`): every row is committed exactly once,
  the committed rows are a prefix of the file, completion means every row, and
  the audit entry is unique and true, through crashes, lost answers and failures
  of the clean-up itself. The code does not enforce that discipline, and
  `ingestion_skip` shows what then happens: the checkpoint is read before the
  lock is taken. With two stale resumes a row is committed twice, the counters
  run ahead of the rows, and a third attempt starts beyond a row that was never
  committed and completes the run.
- `audit_chain`: `verify_audit_log` never reports a break; a handler that records
  itself changes and answers nothing without a durable entry; whoever holds the
  chain lock waits for nothing, so every writer is served.
- `pool`: the pool can get stuck, and in one way only: each of its connections is
  kept for the lock of a different run, which waits for another one or has leaked
  it. Whoever waits is served unless that happens, also after leaks.
- `retention`: no discipline is assumed. What a closed case has pinned is what its
  snapshot was made from, but for objects of requests that raced the closing. Once
  those have ended, a locked case changes no more and the report of a closed one
  stays as it is, until somebody unlocks the case or closes it again. An object
  pinned to a live case before a sweep has selected it is safe from all sweeps
  while it stays so. No anonymization goes uncounted (with overlapping sweeps the
  sum may be too high: both count a row that both have selected); a sweep that
  overlapped no other has counted exactly; every sweep ends although the case
  keeps changing.
- `case_locked`: a request for a note has read `open` when another one archives the
  case, and its note is committed after that. `src/README.md:291-292` says that
  closed and archived cases can no longer be edited.
- `retention_pinned`: the shortest case is an edge between two objects pinned to
  an open case. For objects there is the gap between SELECT and UPDATE.
- `resolution`: no discipline is assumed. What the queue says of a pair is what
  `canonical_of` is, chains of links never close, reviews of one pair end.
- `graph`: an answer is a path along edges that exist, and no path that existed
  when the search began is shorter, also when the edge budget cut off the last
  level and when edges came in between two levels. "Not found" without
  `budgetExceeded` means the two were not connected when the search began.
- `session`: no call is under way with an expired token, although the tab counts
  a token's life from the answer's arrival; each code is exchanged once, with its
  own verifier.
- `web_client`: the audit entries, replayed, give `app_users`, although `previous`
  may be out of date; lists that have settled show what the page was told had
  succeeded, the review queue also when decisions were sent twice or by keys that
  the page had not yet been told to ignore; the queue empties for a calm reviewer; a run's template is its source's, which the server does not check; a
  picked file becomes one run unless an answer was lost (the double click aside); the table ends up
  showing a run as over unless fetching it failed.

`TypeOK` of AuditChain, ConnectionPool, EntityResolution and Retention (which
includes CaseFile's) is proved and not checked in a run. The modules of the web
client and of the graph have none; their proofs state the types they need.

### What the model shows beyond the runs

Not everything the models say is in a run. Where an instance or a specification
other than those of the runs shows it, this says which:

- *A run left `running`.* `IngestionRun!ReliableSpec`, which leaves out crashes and
  failing clean-up, with 2 attempts, `NumRows = 2`, `ChunkSize = 1`, property
  `RunSettles`: a resume between `MarkFailed` and `ReleaseLock` sets the run to
  `running`, finds the lock busy and goes; nobody is left on it.
- *Two entries, or none kept.* `IngestionRun!Spec` with 2 attempts, `NumRows = 2`,
  `ChunkSize = 1`, no bad rows. Invariant `\A x, y \in audits : x = y`: a resume that
  finds no row left finalizes without the lock beside the attempt that is just
  finalizing, and the run has two entries. Property `[][Completed => Completed']_vars`:
  the last chunk commits, its answer is lost, such a resume completes the run, and the first
  attempt then marks it failed.
- *A stuck pool.* `pool` with the invariant `~Stuck`, or with the deadlock check on.
- *A merge that cannot be undone.* `EntityResolution!Spec` with 1 chunk of 2
  objects, 2 reviews, `Restricted = {}`, `Cleared = {}`, property `MergeCanBeUndone`:
  a merged pair is decided once more as no match, which overwrites the decision
  and leaves the merge; an undo is then refused. (`002_ontology.sql:64-65` has the
  link "so a bad merge can be undone".)
- *Path search.* `budgetExceeded` is also reported when the last hop or row the
  budget allows was the last there was: it means "maybe", and the converse of
  `NotFoundIsDefinite` does not hold.
- *Review queue.* After others have shortened the list the focus may be beyond
  its end, where all keys are dead until a click. The keys act on the cached list
  while an error message hides it. Of two decisions for one pair (two keys before a
  render, a key and a button, or a second reviewer) the one that commits last
  stands, not the one made last.
- *Session.* A refresh under way at `Logout` stores its tokens again (the provider
  ends its session, so that they last until the access token expires). A refresh
  that fails shows the sign-in screen and keeps the tokens in sessionStorage.
- *Intake.* A file picked while an upload is under way is dropped with the old
  one by its answer. The forms but the sweep's let a double click create two rows.
  Text typed while a request is under way is emptied by its answer.

### Bounds

`Attempts`, `Requests`, `Sweeps`, `Runs`: the number of requests in a behaviour;
each is used once, which bounds every counter without a guard. Two overlapping
attempts make every lock race, three a race with a later resume, four are what
the skipped row needs. `NumRows` and `ChunkSize` give a full and a partial
chunk (3 rows by 2), and a checkpoint that ends on a chunk boundary and one that
does not after a lost answer. Three writers make a chain with a middle entry
and a queue of two for the lock; the fourth request writes no entry. `PoolSize` is
the number of runs, so that the pool can just get stuck, and does only when every run
has its lock. Two objects and one edge distinguish touching an edge from containing
it; a batch of one makes every batch full, so that loops go round. `MaxLoad` bounds
requests and sweeps together: three requests give two edits that race a closing, or
an edit, a closing and a reopening; two and a sweep, a pin and a closing around
its batches; two sweeps and one, the overlap while eligibility changes. Three objects
make a chain of links and two pairs, three reviews a merge, another decision and an undo that overlap.

`GraphSearch`: the pool of edges has ways of one to four hops between the
requested objects, a branch and a self-loop, so that the sides meet in one level
or the next, in the middle or at an end. 5 rows are less than what it takes to see
all, so that the edge budget cuts searches off, some in the middle of a level. The
hop budget never does alone: on five nodes nothing is more than four hops away. What
it cuts off on larger graphs only the theorems cover. `Session`: `Skew` is just the two delays, the tightest case the
assumption allows; `EffectRuns = 2` is React's StrictMode, which includes what a
single run can do but for its timing; three sign-ins make an old attempt, an old
code and a new one. Pages: `PageSize` is smaller than the number of pairs, so that
pairs appear on the page as others go; `HastyPairs` leaves the hasty reviewer two
of the three pairs; `MaxUnderWay`, `MaxPosts` and `MaxPatches` are the numbers of
requests that can overtake each other; `MaxPicks` and `MaxRuns` of two let a run
be over while another one is not; `MaxRows` of two is a double click;
`UsedTogether` puts the two templates' forms, which share most of their code,
together and the others alone.

Symmetry over attempts is used in `ingestion_serial` and `ingestion_skip`, where no
liveness is checked (`JobRefinement` has no fairness part). Where it is, `MCRetention`
lets the first of two actors that are alike come first (`InTurn`), which leaves
out renamings only.

Deadlock checking is off: requests are used up, and nobody has to send another. In
`pool`, where clients come back, it is off because the pool really can get stuck,
which is what `StuckOnLocksOnly` is about.

### Fairness

- `IngestionRun!Fairness`: weak fairness of what an attempt does once its request
  is in, success or failure. Node runs its event loop and every statement gets
  an answer or an error. Requests need not come, a crash need not happen, the pool
  need not close a connection, and which outcome a statement has is not fair.
- `AuditChain!FairSpec`: weak fairness of each transaction's own steps. No handler
  waits for its client inside a transaction. Taking the chain lock is weakly
  fair only: with finitely many requests the lock is eventually free for good
  for the last of those waiting.
- `ConnectionPool!Fairness`: the pool serves its queue, and a transaction that has
  its connection ends.
- `EntityResolution!FairSpec`: a review that has begun goes on once no row lock is
  in its way.
- `Retention!SweepSpec`, `MCSpec`: a started sweep goes on; nothing is assumed of requests.
- `WebClient!Fairness`: requests are served and answered, and a table that polls
  does poll (weak). The reviewer keeps reviewing (strong: while a decision is under
  way the keys do nothing, so that acting is enabled only again and again) and
  comes back to the window now and then, which is when the list is fetched
  without a decision; the page renders what has changed. A run is over some day, if need be because somebody has
  resumed it. `GraphSearch` and `Session` state safety only: the search is a loop that
  counts its hops, and the user need do nothing.

## 4. What is proved

Every property of the passing runs except the liveness ones is a theorem, for any
number of attempts, rows, requests, connections, objects, edges, sweeps, users,
pairs, forms and calls, and any chunk size, batch size and budget, from the named
assumptions on constants only. Besides what the code fixes (a chunk has at least
one row, edges join objects, a template has one source, the skew covers the
delays) these say that a case's objects and the edges of a graph are finitely
many, and that the model values `None`, `Root`, `Unseen`, `Nobody` and the
word "none" are not taken for data (`None` is no object, snapshot, upload,
list or number).

- **IngestionRunProofs.** `SafetyInv` is inductive under `Next`: to
  `OneWorker` and `CountersExact` it adds that an attempt has committed nothing
  at or after its cursor (`OwnRowsBehind`, so that a new chunk never re-tags a
  row and set sizes add up) and that a cursor may be stale but is never ahead of
  the counters (`CursorsCovered`, why `CompletedIsCovered` holds). `SerialInv`
  adds that at most one attempt is under way, that its cursor *is* the
  checkpoint, and what status it expects; from it follow `ExactlyOnce`,
  `CheckpointIsPrefix`, `CompletedHasEveryRow`, `AuditIsTruthful` and, step by
  step, that a run implements `IngestionJob` (`SerialRunIsAJob`).
- **AuditChainProofs.** `ChainInv` says that only the lock's holder is between
  read and commit, that what it has read is still the last hash, that its entry
  extends the log, and that sequence numbers in the log are below the next one.
  The central lemma is `ExtensionIsValid`: a valid log stays valid under an entry
  with a greater sequence number chained to its last hash. It gives
  `ChainNeverBreaks`, `EverythingAudited` (of handlers that call `writeAudit`, beside
  any that do not), `NoWaitBehindChain` and `ChainImplementsLog`.
- **ConnectionPoolProofs.** `PoolInv` says that whoever is queued waits, is queued
  once, and that only runs hold a second connection. `OnlyLocksExhaustThePool`
  proves `StuckOnLocksOnly` for any numbers of runs and connections by counting: with
  nobody at work every connection out is a lock's, and no run has two of those, so
  that a full pool is as many runs. (With fewer runs than connections the pool
  therefore never gets stuck; the code bounds neither.)
- **EntityResolutionProofs.** `ResolutionInv` adds to `DecisionsAreTrue` that links
  and pairs point to objects inserted earlier (`PointsBack`, because only objects
  the chunk already sees are candidates; a least element of a closed set would
  point below itself, hence `NoMergeCycle`), that an object nobody has committed
  is undecided, and that an open review sees both objects of its pair and has
  written what it no longer has to write (`ReviewSound`, why a commit changes
  link and decision together).
- **RetentionProofs.** Nothing is assumed of how requests and sweeps overlap.
  `Inv` has three parts. `CaseInv` adds to the types what a request has read by the
  statement it is at. `RaceInv` relates requests in time: of two that are under way,
  one of which is to lock the case, that one has met the other; what a closing
  request has read of the pins differs from what is pinned only in objects of those it
  has met; and of a locked case, whoever is still past `CheckStatus` is a straggler.
  From it follow `ClosedIsTheSnapshot`, `FinalOnceQuiet` and `ClosedReportFixed`.
  `SweepInv` says that a sweep's own count is never below the number of rows with its
  marker, since a row marked by two sweeps keeps one marker and is counted by both
  (`NothingUncounted`), and is that number for a sweep that has overlapped none, as what
  it has selected carries no marker yet (`SweepReportExact`). `PinProtects` is
  proved step by step from the types: what an edit, a chunk of edges or any
  statement of any sweep may do to an object that is protected.
- **GraphSearchProofs.** `SearchInv` says that until the edge budget has cut off a
  level, a side has discovered the whole ball of its depth and every neighbour of
  what is behind its frontier, in the graph the search began with
  (`LevelsComplete`), and that no connection is shorter than the levels expanded
  (`NoneShorter`): before a level the two balls are disjoint, and a path one hop
  longer than them would meet in both (`MeetingPoint`). It holds also when the level that
  finds the meeting node is the one that is cut off. `PathInv` says that parents lead
  back to their side's end with a level that falls at every step, so that what the
  two walks collect is a path of at most that length. `Within` is a recursive function: that it exists
  and satisfies its equation, and the inductions over hops, are proved with
  `SetInduction`, induction over the numbers in a set, which needs no operator as
  a parameter.
- **SessionProofs.** `TokensLive` keeps the two lives of a token together: stored,
  the tab believes it to live at most `TokenDelay` longer than it does; under way,
  what is left and what it has travelled add up. With the skew that leaves more than
  `ApiDelay` when a call goes out (`NeverExpiredInFlight`). `CodesSound` says that an
  attempt whose verifier is stored has presented nothing
  (`ExchangeOnceWithItsVerifier`).
- **WebClientProofs.** One invariant per page. `PicksUsedOnce`: a pick still on the
  form has only lost runs, or is the one whose upload is under way, and that one has
  its run at most once (`OneRunPerPick`; `TemplatesFit` for `RunMatchesItsSource`).
  `RowsListed` and `ListsCurrent`: an answer on its way holds all that the page has been
  told, since the answer to a change cancels what was read before it
  (`OwnRowsListed`, `OwnChangesShown`). `LogInv`: a function gives the rows after
  each entry and ends in the committed ones; that this is what the replay computes
  is induction over the log (`AuditReplays`). `ReviewInv`: a pair the tab was told
  about is decided, and so is one whose decision has committed, before its answer comes; a
  list served now has undecided pairs only, and an answer cancels the lists served
  before it (`DecidedPairsLeave`; that a page is a list of pairs at all takes
  counting their ranks, `Ranked`). Each page's actions leave the other pages alone, which
  carries the invariants over to `WebClient`.

TLC has checked each of these invariants on the instances of the runs, except
`PathInv` and `LogInv`, whose levels and histories it cannot enumerate. Only model-checked: liveness
(`LockIsFreed`, `WriterServed`, `EveryoneServed`, `SweepEnds`, `ReviewEnds`, `QueueDrains`,
`PageCatchesUp`), because the prover has no support for fairness (`ENABLED`). The
discipline `Serially` is a hypothesis that the code does not enforce; what happens
without it is said in section 3.

## 5. Not modelled

Listed with reasons in PROJECT.json. Next in the plan:

1. Theorems beyond the runs: what a merge, its undo and a second decision leave of
   a pair under a discipline that keeps reviewers from stale lists.
2. An abstract specification of the report (a value chosen at closing and settled
   once its stragglers have ended) that `Retention` implements.
3. Edges and merges together: edge rows look their objects up among the canonical
   ones and insert later, while reviewers merge.
4. The case workspace (`CaseWorkspacePage.tsx`), which keeps a graph of its own:
   answers of `expand` and `path` are merged in the order they arrive, a path asked
   for first may be shown last, and a note may be submitted twice.
5. Visibility: `case_visible` and the policies as operators.

Of modelled parts, these are left out: `GET /graph/expand` is one recursive query
whose LIMIT per node picks any neighbours, and nothing is claimed of which; the
filters and pages of listings; the errors panel of the intake page and its CSV;
browsers that keep a page alive over navigation (bfcache), so that Back does not
load it; mutations that the query library pauses while the browser is offline;
clearance as a column of `app_users`, which is handled like the role.

Left out for good: rendering, wording and layout of the web pages, formatting of
reports, parsing of uploaded files (an attempt's rows are those of the original
file, which `file_hash` enforces), scripts, seed data and deployment; the identity
provider but for what `Session` says of it.
