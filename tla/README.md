# A verification project for CreatorHUB

CreatorHUB is a self-hosted back office for a content creator: an inventory of products with the transactions booked on
them, deals extracted from e-mail, a planning hub for content, a library of assets, a knowledge base, and an assistant that
drafts e-mail. The backend (`backend/app`) is a FastAPI application over PostgreSQL with background daemons and an RQ
worker; the frontend (`frontend/src`) is a React client of its HTTP API. This directory holds TLA+ modules of the
backend's own logic, TLC configurations that check them on small instances, and proofs checked by TLAPS.

Paths below are relative to the repository; Python paths are relative to `backend/app`.

## 1. Inventory

| component | state it keeps | operations | properties that make it correct |
|---|---|---|---|
| review workflow (`services/workflow.py`) | `workflow_status` and `review_reason` of five tables | validate, re-review, apply | rows follow the table; a decision has a reason; relevant changes go back to review |
| domain status rules (`services/domain_rules.py`) | none | validators of product, content, asset and registration statuses | the tables of `docs/domain-status-rules.md` |
| products (`api/routers/products.py`) | `products`, `product_transactions`, `product_value_history` | create, patch, delete, change status, book, value, CSV import | the ledger accounts for the status; archived is final |
| sale finalization (`services/sales_workflow.py`) | writes deals, content items, assets | one sweep inside the status change | everything linked is archived, deals are won, or the sale is refused |
| auto-archive (`services/auto_archive.py`) | a daemon's timer | one pass per interval or by hand | a sold product leaves the inventory, not before its time |
| database sessions (`db/session.py`, `api/deps.py`, `services/transactions.py`) | one transaction per request | begin, flush, commit, rollback | what survives an interleaving of stale decisions |
| deals (`services/deal_service.py`, `deal_checklists.py`) | `deal_drafts` with a JSON checklist | intake per thread, patch, sale | a stage is entered with its required items done |
| planning hub (`services/content_service.py`) | items, tasks, revisions, profiles, templates | create, patch, delete, tasks, templates, planning view | publication passes the gate; the stored score is that of the rows |
| assets (`api/routers/assets.py`, `services/storage.py`) | `assets`, files | upload, web link, patch, delivery, thumbnail | one primary image per product; a rejected one is none; no file without a row |
| account deletion (`services/account.py`, `workers/tasks/purge_deleted_users.py`) | `deletion_requested_at`, `is_active` | request, cancel at login, purge daemon | cancelled means kept; nobody is purged inside the grace period |
| sessions and MFA (`api/routers/auth.py`, `services/auth_security.py`) | users, auth sessions, revoked tokens, counters | login, refresh with rotation, logout, lock, step-up | a revoked session stays revoked; a refresh token is used once |
| registration (`api/routers/auth.py`) | `registration_requests` | submit, resubmit, approve, reject | one account per approved request |
| e-mail drafts (`api/routers/email.py`) | threads, drafts, versions | create, refine, edit, approve, hand off | what is handed off is the text that was approved; versions are unique |
| knowledge base (`services/knowledge_service.py`, `seed.py`) | documents, versions, links | create, patch, delete, link, ship defaults | versions count the texts; the shared workflow; a prompt gets what was decided on or shipped |
| projects (`services/project_service.py`) | projects, links, previews | create, patch, link, create linked content | links and previews agree; content and link are created together |
| CSV import (`services/inventory_import.py`) | none | dry run, import | an import does what its dry run announced |
| image hunt (`workers/jobs.py`) | assets, RQ jobs | one job per request | no duplicate images; a crash leaves usable rows |
| rate limiter and guards (`core/web_security.py`) | windows per client | admit or refuse | at most the limit per window |
| outbound calls, AI gateway, image sources | none | HTTP calls | input checking and I/O |
| audit log, domain events | append-only rows | append | in the transaction of the change |
| dashboards, search, exports, operations inbox | none | queries | read-only |
| frontend (`frontend/src/shared/api/httpClient.ts`, `shared/auth/StepUpProvider.tsx`) | views; cookies; per tab a refresh and a step-up dialog | retry, refresh, step up | a call that waits for a shared refresh or dialog is released |

**How the parts interact.** Components share one database and call each other inside a request's transaction: a status
change calls the sale finalization, which writes deals, content and assets; asset and task mutations call back into the
planning hub to refresh an item's score; projects create content inside their own transaction. Between requests they meet
only through rows. Two daemons run in the web process with sessions of their own: the auto-archive hands its pass to a
thread, the purge runs its pass on the event loop, where it holds back new requests of that process but not those already
in the pool, those of other web processes, or a purge started by hand (`workers/purge_deleted_users.py`). The image hunt
runs in a worker process.

**What is hard.** Requests run in a thread pool at READ COMMITTED. No handler locks a row, no table has a version
column, and the ORM (`autoflush=False`) writes only the columns a handler changed, keyed by id. A check is therefore a
check of rows that may change before the write lands, two handlers that write different columns of one row merge
silently, and what holds under interleaving holds because of the shape of the updates or a constraint of the database,
never because of the checks. Failures are rollbacks: a handler or process that dies leaves nothing behind. Statuses are
written by several handlers in different ways, so sequences of legal calls matter as much as races.

## 2. The modules

`Workflow` and `DomainRules` hold tables and validators as pure operators. The modules that own rows extend them.

**SalesDesk** models products and the rows a sale touches. A handler is *the set of updates it may flush* in the current
state: the empty set is its refusal, each element is one choice of inputs, and an update names only the columns the ORM
writes. `Committable` says what the database still refuses at the flush (rows deleted meanwhile, foreign keys), `Apply`
writes an update and carries out the cascades. In `Spec` every request reads and commits in one step. `life` says
whether a row exists, `ledger` which types of transactions are booked, `due` stands for `status_changed_at` older than
the configured number of days, `reason` for a `review_reason` that is not NULL; `link` is a deal's or item's `product_id`
and an asset's `owner_id`. Which fields a request changes matters only through *relevant* (one of the re-review fields).

**SalesDeskConcurrent** extends it with sessions: `Load` computes an update on the rows committed so far, `CommitRequest`
applies it to whatever the rows are by then, `Rollback` drops it at any time (failed flush, exception, crash). The same
handlers serve both modules, so a property that holds serially and fails here fails because of interleaving alone.

**ProductLifecycle** is the abstract specification of a single product: acquired once, moved out of the inventory
together with the entry that accounts for it, returned only from a sale, archived for good. `SalesDesk` implements it
under the mapping at its end (`LifecycleKept`): active, returned and broken are all "inventory".

**DealDesk** looks inside a deal: its checklist is a record of three sets (items present, done, required), and
`merge_checklist` is that of the code, including what it drops. Sessions work as above; the sale of the linked product, by a
session that may overlap the others, and its deletion are actions of the environment.

**ContentHub** looks inside one content item: its row, its tasks, the review state of its assets, and which platform
profile is active. A handler is the set of rows it may leave behind. `SerialSpec` does all of it in one step; in `RaceSpec` a
session decides on what it reads (`Load`), flushes the columns it changed, which locks their rows until it ends, and then
computes score and gate (`Flush`), and commits; a flush of a row that another session has locked waits. The score is the code's
formula over missing fields, open blocking tasks and approved assets.

**AccountDesk** follows accounts: sign-in with its attempts and locks, the end of sessions, what administrators switch, the
request to delete an account, its cancellation by a sign-in or inside a session, and the purge. A session is just the user
of a row that is neither revoked nor expired, and a request's age replaces its timestamp. Each request is one step, but a
purge pass is not: it selects (`doomed`), then deletes user by user, with requests, errors and restarts in between.
**AccountDeskConcurrent** adds what a sign-in may miss between its checks and its commit. **AccountLifecycle** is the privacy
policy's promise about leaving, which `AccountDesk` implements (`DeletionKept`).

**AuthSessions** looks at the tokens of one account. The access and the refresh token of a pair are issued, rotated and
denied together, so a pair is a number (`owner[n]` is the session of the nth). A request looks up whether its token is denied
(`Lookup`), reads the session and decides (`Handle`), looks up what it is about to deny and tells Redis (`Check`), and flushes the
columns it changed (`Commit`), each a statement of its own that others come between; `RollBack` is a second
insert of one jti, or a database that fails. What only Redis knows (`cached`) is kept apart from the table (`denied`).
**BrowserClient** puts the frontend in front of it: tabs that share the cookie jar, calls that get a 401 and wait for the
tab's one refresh, calls that wait for its step-up dialog, answers that are lost or come when nobody waits.

**AccountProvisioning** is how accounts come into being (bootstrap with the install token, registration requests and their
review, creation by an administrator) and whether they still have the password they came with (`changed`), **PasswordReset** the
tokens of a reset against sign-ins and changes of the password, **RateLimiter** the window in Redis and the queue of each process,
for one key: a store is the set of the numbers of the requests it remembers, which is their order too, since time does not go back.

**EmailDesk** follows drafts through generation (which waits for the model between its read and its commit), approval, edit
and handoff, with version numbers per thread and per draft; texts are model values, some blank and some with personal data.
**CreatorProfiles** decides which profile a draft is written with: `older` is the order of the rows by `updated_at`, which
every UPDATE writes. **KnowledgeBase** keeps documents with a version counter and snapshots, and says which of them reach a
prompt (`_prompt_ready_docs`). A start of the process (`ensure_default_knowledge_docs`) ships a default, published and with no
decision or snapshot, or gives that trust to the draft an earlier version shipped, which the table may begin with; `seeded` says
which documents these are.

**AssetDesk** models the pictures of products and their files. A request writes its file first, then looks at the table,
then commits; a hunt (the worker's job) reads the pictures of its product once, then downloads, judges and commits one
candidate after the other. `IndexAllows` is the unique index on primary pictures, `disk` what became of each file, `stray`
the files a failure leaves behind. **ProjectDesk** models categories, projects, their dates and previews, and the links to
content and products, with the unique index and the foreign keys as `Lands`.

In these modules a session is one record: the row it read, the columns it wants, and a mark set when it overlapped another
request (`met`, or the sets `crossed`, `mixed`, `doubled`, `late`, `raced`, `overtaken`). The marks are history: no
action reads them. A deal is `raced` once it changed while another session held an update of it, a document `overtaken` once an
update landed on a row that had changed since the update read it.
They let an invariant say what holds *unless two requests overlapped*, so one run shows that a property holds for every
order of requests that do not overlap, that it holds where overlaps are harmless, and exactly what an overlap can break.

The theorems are in modules of their own. **SalesDeskProofs** holds those about the two sales modules, **AccountProofs** those
about accounts, **SessionProofs** those about sessions that end and **PairProofs** those about tokens, both behind any browser;
**VisitorProofs** those about registration, resets and the rate limiter, **CorrespondenceProofs** those about e-mail, profiles,
documents and deals, **AssetProofs** those about pictures and files, **PlanningProofs** those about projects and the planning hub.
`VisitorProofs`, `CorrespondenceProofs` and `PlanningProofs` extend the `MC` module of the run that composes their parts, and show
that it takes only steps of the parts.
The `MC*` modules give TLC its instances: the inputs a request may send, slices of a next-state relation that leave out combinations
a question is not about, symmetry, and one start state that saves a run the way to it. Where a run checks several parts that
share no state, its next-state relation lets only one of them leave its initial state: the states are then the union of the
parts' states, not their product.

## 3. The runs

| run | specification and bounds | what it shows |
|---|---|---|
| Sales | fair serial desk: one product with its ledger, or traded with one deal, or with one item and one asset | `LedgerBacksStatus`, `DecisionHasReason`, `SaleSweepsLinks`, `WorkflowStepsAllowed`, `SoldLeavesInventory`; the desk implements `ProductLifecycle` (`LifecycleKept`), which has archived for good in it |
| ConcurrentLedger | product endpoints and the daemon, two sessions | `InFlightBalanced`, the inductive invariant of the proofs, which contains `TypeOK` and `LedgerBacksStatus` |
| AccountsSerial | fair, two accounts, two sessions, grace of two days, two attempts | `DoomedStayDue`, `LockCounted`, `DeletionCompletes`; accounts implement `AccountLifecycle` |
| BrowserSessions | fair, two tabs, three calls and a dialog, two sessions, three pairs, one fault | `ReuseMeansOverlap`, `OpenPairAccepted`, `LogoutEndsSession`, `EndedStaysEnded`, `CallsEnd` |
| Visitors | two names, two passwords, two requests under way; two tokens and two sign-ins; two processes and a limit of two in a window of two | `DecisionRecorded`, `SetupOnce`; `OneLiveToken`, `ResetEndsSessions`; `AtMostLimit`, `PacedNeverRefused` |
| Correspondence | two threads, drafts and clerks; one document; two editors; three profiles, two creators, two writers; one deal with five checklist items, two sessions | `HandedTextApproved`, `HistoryComplete`; `PromptTextDecided`; `ServedProfile`; `NegotiatedDealComplete`, `WonThroughChecklist` |
| Library | one product, two rows, three files, three pictures (two look alike), two sessions, one hunt; one project, two categories, two planners; one item, two tasks, one asset, both profiles | `PrimaryMarksAgree`, `FilesKept`, `PicturesOnce`; `RequestsLand`, `ProjectFieldsAgree`; `PublishThroughGate`, `ScoreRefreshed` |
| ArchivedRace | all endpoints of the sales desk, two sessions | violated: an archived product gets another status |
| ReviewStage | one deal, one session | violated: a deal enters review with open items |
| ApprovedList | one deal, one session | violated: intake changes an approved deal's checklist |
| PublishRace | one item ready to publish, two sessions | violated: the approval the gate saw was gone when the item's row was locked |
| RestoreRace | one account, one sign-in under way | violated: an account that was restored is purged |

Every other passing run than the two of the sales desk also checks one `TypeOK`.

**Bounds.** Rows of one table interact only through the row they link to, so one product and one row of each kind
reach every combination of a sale with a link, and two sessions every stale decision: a third only repeats what two do.
Ids are used once, so a part ends when every row is deleted or every call made; these configurations switch the deadlock
check off. Two task rows let a score count one task while another changes. The ledger is the set of booked types, so
it is bounded without a counter. A grace period of two days has a day inside it, the deadline itself and a day after it; the
age of a request is counted to the day after. Three pairs are a sign-in and two rotations, the least at which a rotation
can overwrite another one's pair; one fault is one lost answer, one timeout or one failed transaction, at any moment. Five
ticks are two windows and a half, so a request can be outside, on the edge of and inside the window of another. Three files
are one per row and one that ends as a duplicate. Three profiles are two of one creator, or a default beside one of each
kind. What small instances cannot show is covered by the theorems where there is one.

**Slices.** `MCSalesDesk` keeps the product's own patches and bookings apart from linked rows. `MCBrowserClient` orders the
calls (`InOrder`): a read or a change of the password meets a call of its own tab or the other, any other operation one of its own; a
third call only where a rotation crossed another use of its pair; the access token of the last pair outlives the calls. `MCCorrespondence` lets a
draft's text change while its thread has no other draft; two editors, or an editor and a start, overlap over a document of one or
two versions; a document is created by one session, with a source that is approved or pending and outdated only as a draft; two sessions overlap
over a deal in draft, the second with a request that names a stage, a product or a list with open items; an update that overtook
another, and a race for a deal, are the last of their behaviour. `MCLibrary` keeps uploads and hunts apart from
the review of a row, and a project's dates, preview, links and category apart from each other; a mix of two requests that a property
excepts is the last of its behaviour.

**Fairness.** Sales: weak fairness of the auto-archive pass and of time. The daemon's loop catches every exception of a
pass, sleeps and tries again (`services/auto_archive.py` 123-136), and a pass archives every product that is due in one
transaction. AccountsSerial: weak fairness of time and of the start of a purge pass
(`services/purge_deleted_users_daemon.py` 25-45 loops in the same way) and strong fairness of each user's purge, since
its transaction may fail in one pass and is tried again in the next. BrowserSessions: weak fairness of every step of a
request under way, because each fetch has a timeout (`httpClient.ts`, `createAttemptController`), and strong fairness of closing
the dialog: a user does not post codes for ever. No request is ever assumed to arrive.

**Violations** are disagreements between the code and its own documents and messages; `PROJECT.json` quotes the lines.
ReviewStage and ApprovedList need a single request at a time. The three races follow from section 1's "what is hard". The
same reasons break, with two sessions, `SaleSweepsLinks`, `WorkflowStepsAllowed` and `ScoreRefreshed`: for these the project
keeps the runs that show they hold serially. What the "unless two requests overlapped" of a property stands for was found by running it without:

- two rotations of one pair end with a session whose tokens nobody holds, and the next refresh is taken for a theft;
- a refresh that looked its pair up before another one's rotation committed, and reads the session after it, is taken for a theft
  at once: `ReuseMeansOverlap` excepts both and says that nothing else raises the alarm;
- a refresh is refused by the CSRF check while the access cookie lives, so only an expired cookie is ever refreshed;
- an approval that meets a rejection of the same registration leaves an account beside a rejected request;
- two requests for a reset leave two usable tokens; a sign-in that overlaps a reset keeps its session;
- an edit that commits while an approval is under way is approved unread; a rejection that meets an approval writes the status
  and not the flag; two drafts of a thread take one number; two first defaults stay side by side;
- of two overlapping patches of a deal one moves it to negotiation while the other sends a list with open items; a sale that overlaps
  the patch that unlinks the product wins a deal without a product and with open items;
- an update of a document that lands on another one's change approves a text nobody decided on, and leaves a snapshot that is
  not the row; a start may overtake an editor in the same way;
- previewing the assistant's settings touches the profile previewed, which then serves the next draft;
- a picture that is marked as primary while it is rejected stays rejected and primary; two hunts store the same picture twice;
  two first deliveries of a link download it twice and one file is lost;
- two patches of a project leave its dates out of order or its preview status without a preview.

A manual edit of a draft keeps the risk level of the text it replaces (`api/routers/email.py` 1006), so whether an approval needs
a reason is decided on the level of an earlier text.

## 4. What is proved

Every safety property of a passing run, its type invariant included, is a theorem for all values of the constants. The table
names the assumptions; those on constants hold of every instance of the code (ids of different tables differ, a limit is positive,
a call is one of the operations modelled). In `SalesDesk`, `AccountDesk` and `ContentHub` a request is one step, and
so it is in their theorems; no other theorem assumes anything about how sessions are scheduled: what overlaps break is in the properties, as marks.

| theorems | of | for all | assumptions |
|---|---|---|---|
| `SerialSafety`, `ReasonSafety`, `WorkflowSafety`, `SweepSafety`, `LifecycleRefinement` | `SalesDesk` | products, deals, items, assets | `IdsAreDistinct` |
| `ConcurrentSafety` | `SalesDeskConcurrent` | the same, and sessions | `IdsAreDistinct` |
| `AccountTypes`, `DueSafety`, `LockSafety`, `AccountRefinement` | `AccountDesk` | users, sessions, settings | `SettingsPositive`, `NoneIsNoValue` |
| `LogoutSafety`, `EndedForGood`, `AcceptedPairs`, `HonestAlarm`, `ClientTypes` | `BrowserClient` | tabs, calls, sessions, pairs, faults | `SomeSession`, `SomeTab`, `BoundsAreNumbers`, `SlotsAreOurs`, `CallsAreOperations` |
| `TokenSafety`, `ResetSafety`, `ResetTypes` | `PasswordReset` | tokens, sign-ins, requests | `PasswordBound` |
| `DecisionSafety`, `SetupSafety`, `ProvisioningTypes` | `AccountProvisioning` | names, passwords, requests | `AdminHasName` |
| `LimitSafety`, `PacedSafety`, `LimiterTypes` | `RateLimiter` | limits, windows, processes | `LimitsPositive`, `RedisIsNoProcess` |
| `HandedSafety`, `HistorySafety`, `EmailTypes` | `EmailDesk` | threads, drafts, texts, sessions | `TextsRedacted`, `FlagsRaised`, `DraftVersionBound` |
| `ServedSafety`, `ProfileTypes` | `CreatorProfiles` | rows, creators, sessions | `SomeCreators` |
| `PromptSafety`, `KnowledgeTypes` | `KnowledgeBase` | documents, patches, sessions | `PatchesAreRequests`, `DefaultHasType`, `VersionBound` |
| `NegotiationSafety`, `WinningSafety`, `DealTypes` | `DealDesk` | deals, checklists, sessions | `ListsAreChecklists` |
| `MarksSafety`, `FilesSafety`, `PicturesSafety`, `AssetTypes` | `AssetDesk` | products, rows, files, pictures, sessions, hunts | `LooksOfPictures` |
| `LandingSafety`, `FieldsSafety`, `ProjectTypes` | `ProjectDesk` | projects, categories, days, sessions | `NamesFold`, `DaysCount`, `IdsApart`, `NilIsNoRow` |
| `ScoreSafety`, `GateSafety`, `HubTypes` | `ContentHub`, serial | tasks, assets | `HubFinite` |
| `VisitorTypes`, `CorrespondenceTypes`, `LibraryTypes` | `MCVisitors`, `MCCorrespondence`, `MCLibrary` | all of their parts | those of their parts |

The theorems of the last row are about the specifications that TLC checks. They rest on lemmas (`PartsOfVisitors` and so on) that
every behaviour of the run is a behaviour of each part, which stutters while another part moves: the slices only leave steps out.
`HubFinite`: a score counts tasks and assets, so there are finitely many.

Hardly one of the properties is inductive. The arguments, by module:

**Sales.** `LedgerBacksStatus` is not inductive once commits are late, because the commit does not check again. What makes it true
is a fact about the update, not the state: an update that writes a status also books what the status asks for (`Balanced`), however
old the rows were it was decided on. So the invariant is `InFlightBalanced`: the tables are typed and backed, unborn products are
active, and every pending update is well typed and balanced. Every handler computes only such updates, and applying one to *any*
typed and backed state leaves it so. The other four theorems need more of an update than that, and only an update committed on the
rows it was decided on has it (`Orderly`): every review status it writes is a step of the table, a decision brings its reason or
finds one, a status `sold` sweeps all that is linked. Per product, each update is one move of the lifecycle, or none.

**Accounts.** The purge does not look at a request again before it deletes, so the refinement needs `DoomedStayDue`. It is inductive
because the two comparisons leave no overlap: a cancellation needs an age below the grace period, the selection one above it, and
ages only grow. Given that, every step moves one account along the policy's lifecycle, ages all requests, or touches neither.
RestoreRace shows where the argument stops: at a sign-in whose check is older than its commit.

**Sessions.** A commit writes what was decided on rows read long before, so the invariant speaks about every request under way. A
plan that opens a session is a sign-in, whose session nobody else can have opened or ended, and no two sign-ins open the same one
(`OpenedOnce`); any other plan may overwrite the pair of a session but not its state, save to end it. A cookie, in the jar, in a
request or in an answer, holds a pair of a session that has been committed, so the logout sent with it ends that session or finds
it ended, and it stays so. About pairs: nobody is handed one before the request that issues it commits (`NewPairsUnused`); whoever
was handed one finds it in its session's row, or denied, or a rotation crossed another use of the session's pair (`Spent`); a plan
denies only pairs of sessions that it ends or rotates or that are over; and a refresh between its two reads found its pair not
denied, so that pair is still in the row or the session is crossed (`Live`). So an open session's pair is not denied, and the pair a
refresh finds to be another than the row's got there by an overlap.

**Visitors.** While no two requests for a reset overlapped, the one under way is about to use up every live token, whatever else
committed since it read them. A confirmation revokes every session open by then, and a sign-in with the old password that commits
later is marked late. Of a name nobody crossed, one request at most is under way, and what it read still holds. A process remembers
every request it admitted within the window, so when it admits one there are fewer than the limit; of a paced client's requests,
the last *k* within a window reach back to less than the limit, so the store holds too few to refuse.

**Correspondence.** An update of a draft keeps a sound row sound whatever text was approved last, and is decided on the row still
there unless the draft is crossed. A session about to insert has a number above those of its thread unless the thread is doubled;
the versions of a draft are its history because each change appends one. A pending update of a deal that is not raced enters a
stage only with its list, or is the sale of a product linked or deleted; the rows it was decided on are still there, because a
commit that finds another session's update of the deal marks the deal for good. A document that is not overtaken and in an approved
or published state says what was decided, or what was shipped if nobody has decided yet: a start trusts a default only in its first
version, and every decision makes another one. An update is stale only if its row changed since it was read, and of a row that did not
change the merge is exactly what was wanted. Of
profiles: while nobody forked the default, there is one at most, one session at most is about to write it, and it has read what the
row says, so a commit merges nothing; a commit on another creator's row moves that row alone in the order.

The types of these four parts hold across every overlap, so their invariants are apart from the ones above. A merged row takes each
column from the row or from an update, and both are typed. That the version numbers of a draft stay within their bound is more than
that: an update numbers its version from the versions it read, and its commit appends it to however many there are by then. It is
true because versions only get more, no version has a number above how many there are (`Tally`), and one of them has the highest
number. The order of profiles by `updated_at` stays a strict total order of
the rows there are (`Ranked`), because a commit makes the row it writes the last.

**Assets.** What a session that has met nobody read of the table is still so, hence what it checked is still true at its commit; a
hunt remembers every picture of its product until it meets one; the file a request or hunt holds is nobody else's until its row is
committed.

**Planning.** What a session that overlapped nobody read and checked still holds at its commit, so its row fits all constraints, and
what a session is to write passes the service's checks itself. References of rows and links always stand, because the database
refuses what would break them. Of the hub: every handler leaves its rows with the score recomputed after the mutation, or the
archived item of a sale; and every handler that moves an item to published went through the gate on the rows it leaves.

Only model-checked: liveness (`SoldLeavesInventory`, `DeletionCompletes`, `CallsEnd`), which needs fairness and ENABLED and is out of
TLAPS's reach; the five violations, which are counterexamples.

## 5. Plan

Modules: `SalesDesk` with a bag of bookings (a repeated request books twice) and the value history; the task dependencies and
revisions of `ContentHub`; second-factor codes and their time steps in `AuthSessions`; the CSV import, its dry run against the
import it announces.

Theorems next: `ContentHub` and the review statuses of `SalesDesk` for sessions that overlap, with marks as in the other modules in
place of the serial specification.

## 6. Not modelled

Text extraction, the AI gateway, image scoring and outbound HTTP (functions of external services' answers: an arbitrary
change, text, verdict or failure in the models); dashboards, search, exports and the operations inbox (queries); the audit log
and domain events (appended in the transaction of the change, never read to decide); permissions and request guards (constant
over a request), but for the CSRF check of a refresh; the frontend's views; the CSV import. The components of
`PROJECT.json` say for each part what is left out.
