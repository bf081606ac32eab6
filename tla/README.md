# p3portal in TLA+

p3portal is a self-service portal in front of Proxmox VE: a FastAPI backend
(`src/backend`), a React frontend (`src/frontend`) and a SQLite or PostgreSQL
database. The backend is one process with one asyncio event loop. It has no
queue and no worker processes: a job is an asyncio task, a cache is a dictionary
in memory, and nearly every helper opens a database session of its own. What can
go wrong is therefore mostly what can happen *between two awaits* of a handler:
a check in one session and the write in the next, an answer of Proxmox that is
older than the table it is compared with, a restart in the middle of a job.

The frontend is the other half of the concurrency: every component loads its data
by itself, answers come in any order, and what the user sees is whatever came
last. What can go wrong there is an answer that belongs to a subject no longer
selected, a token no longer valid, a button clicked before the last click was
answered.

These modules model both. One model-checks them with
`tlc -config X.cfg MCModule` and checks the proofs with `tlapm Module_proofs.tla`.

## The system and its parts

| Part | State it keeps | Operations | What is hard |
|---|---|---|---|
| Job system (`routers/jobs.py`, `routers/packer.py`, `services/*_runner_service.py`, `vm_lifecycle_service.py`, `ha_action_service.py`, `iso_service.py`) | table `jobs`, log files, packer registry `_running`, asyncio tasks | create, run, poll, cancel, follow the log, delete a template, restart | cancel against runner, process start in a worker thread, poller that gives up, restart between two UPDATEs |
| Webhooks (`services/webhook_service.py`) | nothing but the task | dispatch with retries | answer lost after delivery; blocked address |
| Ownership ledger (`features/owners`) | table `vm_owners` (rows are soft-deleted) | add, remove, transfer, adopt, after-deploy/-clone hooks, reconcile, user and node deletion | check and INSERT in different sessions; snapshot older than the table; CHECK and foreign-key errors that are swallowed |
| Cluster cache (`services/cluster_cache_service.py`) | entries, one lock per key | `get_or_fetch`, `invalidate_all` | double-checked locking, failure while others wait |
| Cluster data collection (`routers/cluster.py`) | none | fan-out to the nodes, callback after a fetch | callbacks of overlapping fetches |
| Alerting (`services/alert_check_service.py`, `alert_rule_service.py`) | `alert_states`, `alert_rules`, preset assignments | a check per poll and VM: state machine per rule and severity; edits of rules and assignments | overlapping check tasks on the same state; an edit or a restart between two statements of a check |
| Sessions, login, 2FA (`routers/auth.py`, `services/two_factor_service.py`, `services/local_auth.py`) | users, login attempts, pending challenges, recovery codes | login, challenge, verify, revoke | read–await–write counters and lists |
| User and node administration (`routers/admin.py`, `routers/nodes.py`, `services/nodes_service.py`) | users, nodes, default flag | create, demote, delete, promote | "the last one stays" checked before the write |
| API keys and rate limits | keys, windows | issue, revoke, count | limit at its boundary |
| Node updates (`features/node_updates`) | per-member rows | refresh, read | none of its own |
| Groups, presets, assignments, pins, notifications | rows | CRUD and clean-up on deletion | partial clean-up |
| Catalogues, inventory, IPAM, pass-through routers, Proxmox client | files, none | I/O | none of their own |
| Content (announcements, themes, help, i18n), audit, config, license | rows, files | CRUD | none of their own |
| Browser session (`api/client.js`, `api/tokenStorage.js`, `hooks/useAuth.jsx`, the login and account pages) | two token stores, the account shown, the page | sign in, second factor, renew, sign out, every 401 | answers of calls made with an earlier token |
| Job log panel (`hooks/useJobs.jsx`, `pages/v2/EventsPage.jsx`) | lines, status, mark "live" | choose, cancel; a request and a websocket per choice | events of the socket and the request of an earlier choice |
| Screens (some 160 components under `components`, `features`, `pages`, `hooks`) | data shown, busy flags, dialogs, guard slots | load, poll, select, submit, confirm | late answers, early clicks, lost answers |

How they meet: a route creates a row in `jobs` and starts its task; the task
calls Proxmox or starts a process, then the success hooks write `vm_owners`; a
fetch through the cluster cache ends in a callback that reconciles `vm_owners`
with the VMs Proxmox reported and starts the alert checks; the deletion of users
and nodes walks through `vm_owners`, pins and assignments before it deletes its
own row. Sharing happens only through the database, the cache and the registry.
The browser speaks to the routes with the token its tab holds; screens share
nothing but that token, so that each can be taken by itself.

What would make each part correct: a job ends once and says the truth, whoever
polls, cancels, follows or waits for a callback; the ledger names only users and
nodes that exist, keeps to its limit and loses an owner only on purpose; the
cache never goes back in time and never blocks; a portal keeps an administrator
and a disabled account keeps no session; a tab acts as the account it shows; a
screen ends up showing what is selected, with the user's own changes in it.

## The modules

| Module | Models | Used by |
|---|---|---|
| `ClusterCache` | the cache with its locks and callers | `MCClusterCache`, `ClusterCache_proofs` |
| `Owners` | the ledger and every handler that writes it | `MCOwners`, `Owners_proofs` |
| `JobLifecycle` | abstract: what a client may rely on about a job | `Jobs` (INSTANCE) |
| `Jobs` | runners, cancel, registry, followers, webhook, template deletion, restart | `MCJobs`, `Jobs_proofs` |
| `Accounts` | administration of accounts, with assignments and logins | `MCAccounts`, `Accounts_proofs` |
| `Session` | signing in and out, from the stores of a tab to the portal's sessions | `MCSession`, `Session_proofs` |
| `Alerts` | the alerts of a VM: rules, states, the checks that move them | `MCAlerts`, `Alerts_proofs` |
| `JobView` | the job log panel, over jobs that live as `JobLifecycle` says | `MCJobView`, `JobView_proofs` |
| `Views` | the life cycle every screen follows, as a function of a record | `Views_proofs`, `MCViews` |
| `Screens` | that record for each screen | `MCViews` |
| `*_proofs` | theorems about the module of that name | |

An action is a stretch of code between two suspension points (an `await` that
can really suspend, or a commit); in the browser, the handler of one event, which
runs to its next `await`. Definitions named in the comments as *Mutant* are
deliberately wrong variants of the definition that follows; they are used by no
specification and exist to show that the properties can fail.

### ClusterCache

`entries[k]` is `_entries[k]` with the data replaced by the version of the world
it shows; `world[k]` is what Proxmox would answer now. `holder[k]` and `queue[k]`
are the `asyncio.Lock` of the key, whose waiters are woken in order. `call[c]`
is a request in `get_or_fetch`: where it is, the entry it found on entering,
what its fetch read. `now` is the clock of `time.monotonic`; the TTL is an
argument of each call, since the routes take it from the poll interval of the
caller. `CallHit`/`CallMiss` are the code up to the lock, `WakeHit`/`WakeFetch`
the second check under the lock, `FetchRead` the moment Proxmox reads its state,
`FetchOk`, `FetchFailStale` and `FetchFailRaise` the three ways out. A forced
refresh is `invalidate_all` and the call that follows in the same request.
`seen`, `floor` and `outcome` are history variables for the properties.

### Owners

`live` holds the rows with `deleted_at IS NULL`, as (VM, user) pairs (a partial
unique index makes them a set); `ever` counts the rows of a pair including the
soft-deleted ones, which keep their foreign keys (`ondelete="RESTRICT"`).
`proc[p]` is a handler in flight: the statements it has left (`Script`) and its
locals. A statement that reads takes part in no transaction (the SQLite driver
begins one at the first write, PostgreSQL at READ COMMITTED allows the same
interleavings), so each is a step; only an UPDATE and INSERT that share a commit
are one. A statement refused by a constraint ends the handler the way its
`except` does: the hooks swallow the error, the routes answer with an error,
either way nothing is written. Proxmox is external: VMs appear, vanish and are
deployed (`VmAppears`, `VmVanishes`, `RunJob`). `born[p]` is a history variable: the VMs
that came into being since the reconciliation `p` got the answer it compares with.

### JobLifecycle and Jobs

`JobLifecycle` is the promise: queued, running, ended once; a callback hears
nothing but the outcome. `Jobs` is the code. `kind[j]` decides the runner:
ansible, guest and packer start a process; lifecycle, ha and iso poll a Proxmox
task. `task[j]` is the asyncio task (its place, the outcome it has computed, its
polls), `work[j]` the process or Proxmox task behind it, which goes on when the
portal restarts or the poller gives up. `registry` is `_running`, `log` the
number of lines of the log file, `hook`/`told` the webhook and what its receiver
got, `cancel`, `follow` and `deletes` the handlers of the three endpoints.
Every UPDATE of `jobs.status` is unconditional in the code and in the model.
`Restart` loses all of the memory and keeps tables, files and Proxmox tasks.

### Accounts

`users` is `local_users` by row id, `assigned` the ids that `node_assignments`
names, `owning[i]` whether account `i` never had, once had or has ownerships, `signedIn` the
names with a session that is not revoked (`user_sessions` is keyed by name). Names are
unique: a creation with a name that is taken is refused by the look-up, or by the
column's constraint when the name was taken in between. The name of a deleted account may
be used again, and meets the sessions that name has left. The deletion of an account that ever owned a VM
is refused in the end by the foreign key of `vm_owners` (RESTRICT; soft-deleted rows keep it). `request[r]` is a handler in
flight; `pc` says which of its database sessions is next, so that
`UpdateReads`, `UpdateCounts`, `UpdateWrites` and `UpdateRevokes` are the four of
`update_local_user`. `met` records which operations have overlapped. Ids are
those SQLite gives out: the largest one plus one, so that an id comes back.

### Alerts

One VM and one metric. `rules` is `alert_rules` by id, `assigned` whether the preset is
assigned, `rows[r][s]` the row of `alert_states` of rule `r` and severity `s` (`firing`
stands for the stored `warning` or `critical`). `check[i]` is a task of
`_alert_vms_callback`; its `pc` is the next statement: `ReadRules` is
`get_effective_rules`, `GetState` the SELECT of `_process_severity` with the decision that
follows it, `Look` and `Put` the two halves of `_upsert_state`, `RecordEvent` the insert of
the event. `Judge` is the decision itself. A measured value is abstracted to the
thresholds it reaches, one per metric and rule. In the code a rule on file systems loops
over all that match it with one state row (`alert_check_service.py:248`), so that one that is
full and one that is not would reset each other; `get_cluster_resources_v2` delivers no
`filesystems`, so there is at most one measurement in what runs today, and the loop is not
modelled. Left out too: the overrides of the Plus edition, acknowledgements,
the delivery of notifications, an answer that lacks the value (checks nothing).
`seen` is a history variable: per alert the number of breaching polls in a row, whether a
reset is known to have come before them, and the event told last. A check that met another
check, an edit or a restart (`Met`) makes what is known of its rule unknown; it is not
taken out of the model, and the states it leaves are the ones the properties start from.

### Session

`persistent` and `temporary[t]` are localStorage and a tab's sessionStorage,
`shown[t]` the token in the React state, `page[t]` where the tab is
(`"leaving"` between `location.href = ...` and the new page), `calls` the requests in
flight, each with the token it was sent with and the answer the portal has given.
`Serve` is the portal's handler, `Receive` the interceptor followed by what the
page does with the answer. `EndSession` revokes a session from elsewhere (another
device, an administrator, expiry), `Lose` is a network error after or before
the portal did the work.

### JobView

The panel stays mounted when another job is chosen, so its state is carried
over: `lines[j]` counts the lines of job `j` on it. A socket that is hung up still has
its close event to come. `asks` are the answers of `getJob` under way.

### Views and Screens

The components follow one life cycle and differ in how careful they are. `Views`
is the life cycle: `loads` under way, each with the subject it was begun for and
whether the screen still listens to it (`live`); `calls` under way; `busy` flags; the
`slot` of each guard. `shown.seen` is the set of the user's own calls whose effect is in
the data shown. A component is a record (`Screens`): does its effect have a clean-up, does
a change of subject empty the screen, does it poll, and for each operation which flag
disables it, which guards it goes through and what its answer does. `rushed` says that the
user selected or clicked while something was under way, or that answers overlapped;
properties a screen without a clean-up keeps only for a patient user are stated with it.

A query is not an effect. react-query runs one fetch of a subject at a time
(`Fetching`). A reload after a call (`invalidateQueries`) cancels that fetch and starts a newer one
if there are data to show meanwhile; if it is the first fetch of the subject, the reload *joins* it
(`JoinLoad`), however old its read is. The calls a reload was due to but for which no
fetch was started are in `missed` until the next one starts. A change of the key may
show data kept from an earlier visit, and fetch or not, as they are stale or fresh
(`KeyChanges`); an answer to a query whose key is no longer selected goes to its own key. A tick of
the interval, the focus of the window, a refresh button and an invalidation by another
component are `Tick`, which joins a fetch or replaces it. `adopt` in `OwnerSection`
starts its invalidation before its answer, and `useOwnerMutations` swallows its errors;
these early or needless reloads are ticks too, the one after the answer is the operation's.

The guards are three hooks (`useDependencyImpactGuard`, `useHaAwarenessGuard`,
`useIpamReleaseGuard`), each with one slot on the page. A call may go through several
(stop: impact and high availability; delete in `VmTable`: impact and address release); the
portal warns for one of them, and the confirmed call passes all.

`Views` assumes of the records what its proofs need and every component has: operations
of a screen that go through guards have the same kind of flag, and do have one
(`GuardAssumption`); an operation that closes its dialog or leaves the page is disabled by
one flag, not by one per row (`DialogAssumption`). TLC evaluates both on the records of
`Screens`.

`map` in `PROJECT.json` gives the lines each record was read from. They begin with the component
and end with the last line that decides something about the record. That is often in
the markup: which flag disables a button is said by `disabled=`, what an answer does
often by the `onSaved`, `onConfirm` or `onSuccess` passed to a dialog, so that layout lies in
between. Where the last of these is far down (`VmTable`, `UserForm`, `SshKeyTab` and
other long ones), and where a screen has no operation, only the hooks and
handlers before the markup are named.

## The runs

Passing:

| Run | Checks | Shows |
|---|---|---|
| `cache` | `TypeOK` `MonotoneReads` `SingleFlight` `StaleFlagIsTruth` `EveryCallEnds` | three requests on one key with different TTLs, forced refreshes, failing fetches: nobody is given data older than an answer that was given before he asked; one fetch per key; the stale flag is set exactly when the last fetch failed; every call returns or raises, so no path keeps the lock |
| `owners_sequential` | `LimitRespected` `NoSilentOrphan` `TransferConserves` | one handler at a time: the limit holds, a VM loses its last owner only when the caller said so, a transfer replaces the sender by the receiver or changes nothing |
| `owners_concurrent` | `TypeOK` `ForeignKeys` `ReconcileSparesExisting` | two handlers interleaved at every statement, two nodes: no active row refers to a user or node that is gone; the only VM that a reconciliation takes owners from although Proxmox has it is one of its own node that came into being after the answer it compares with |
| `owners_limit` | `LimitOvershoot` | two handlers overrun the limit by at most one row |
| `jobs_cancel` | `TypeOK` `SuccessIsReal` `RegistryIsLive` `FollowerSawWholeLog` `EveryJobFinishes` | a job of any kind, two cancels, a follower, a restart: `success` is claimed only for work that ended well; every registered process has a worker thread that waits for it; a follower that closed normally had sent the whole log; a dispatched job ends unless the portal is restarted meanwhile |
| `jobs_lifecycle` | `ImplementsLifecycle` | two jobs of any kinds without cancel refine `JobLifecycle`, also through a restart, lost webhook answers, a missing token and the deletion of a template |
| `accounts` | `TypeOK` `AdminStays` `DisabledIsSignedOut` `AssignmentsHaveUser` `LimitHolds` | two handlers interleaved at every database session, three requests in all: an active administrator remains unless two of the updates and deletions overlap; a disabled account has no session unless a login, a second update or a creation overlaps; an assignment outlives its account only when it was made during the deletion; the user limit is passed only by overlapping creations |
| `alerts` | `TypeOK` `StateFollowsPolls` `ToldOnce` `StaysBreachedFires` `StaysCalmClears` | two rules, two checks that may overlap at every await, one edit, change of the preset or restart: whatever state these leave, an alert fires after as many breaching polls as its rule asks for, and after a reset only then; what nothing disturbed is told once, and the last event says what the state says; with checks overlapping for ever, an alert still ends up firing when its threshold stays breached, and ends when it stays below |
| `session` | `TypeOK` `OneStore` `ShownIsStored` `DeadTokenLeavesScreen` | one tab, two accounts: the token lies in one store; the account shown is the one the next call is made as, whatever answers come late; an ended session leaves the screen |
| `jobview` | `ConnectedIsBacked` `NoForeignLines` `FinishedIsShown` | two jobs, two sockets, one lost connection: "live" is backed by a connection, no lines of a job that was left, the end of a job is shown to who stays connected |
| `views` | `TypeOK` `ShowsSelected` `OwnChangesShown` `DialogRunsOnce` `FlagsAreBacked` | every screen: it ends up showing the subject selected and the user's own changes, but those whose reload joined the first fetch of a query; a dialog carries out its operation a second time only after its user was told that the first failed; no button stays disabled |

Violations: each states what a comment, docstring or user-facing text of the
repository says and shows the execution in which the code does otherwise. The
quotations are in `PROJECT.json` under `findings`.

| Run | The text says | What happens |
|---|---|---|
| `jobs_cancel_race` | a cancelled job is failed | the runner's next UPDATE overwrites it |

Further disagreements met while modelling, which have no run of their own.

In the ledger and the jobs (the first three appear when the properties of
`owners_sequential` are checked with two handlers):

* the owner limit is counted in one session and the row inserted in another
  (`features/owners/service.py:257`): two requests both pass;
* two co-owners removed at the same time both see two owners
  (`service.py:351`): the VM ends without one although nobody said `orphan`;
* `transfer_owner` does not look at how many rows its UPDATE matched
  (`service.py:412`): of two transfers of one row the second only inserts;
* the reason `converted_to_template` violates a CHECK like the source `clone`
  does (`vm_lifecycle_service.py:199`): an owned VM that becomes a template keeps
  its owner;
* soft-deleted rows hold on to their user as they do to their node
  (`local_auth.py:184`): a user who ever owned a VM cannot be deleted;
* in the hand-over of a deleted user's VMs a refused INSERT is ignored while the
  soft delete stays (`features/owners/cleanup.py:97`): the VM is orphaned;
* a cancel that read `running` may write `failed` after the runner reported: the
  callback heard `success`, the table says `failed` (`routers/jobs.py:364`);
* a reconciliation compares with a snapshot that may be older than the ledger
  (`features/owners/cleanup.py:201`): a VM deployed after the snapshot and owned
  before the comparison loses its owner, though it has not vanished;
* the source `clone` violates the CHECK of the table and the error is swallowed
  (`vm_lifecycle_service.py:172`): a clone does not get the owner its docstring promises;
* `remove_node` soft-deletes the owner rows "bevor Node gelöscht wird (FK RESTRICT)"
  (`routers/nodes.py:227`); the soft-deleted rows still restrict it;
* "The portal sends an HTTP POST to this URL once the job is finished": the path
  without a Proxmox token does not (`ansible_runner_service.py:136`);
* "Block deletion while a build is running" (`routers/packer.py:789`) looks for
  `running` rows: a build that is still `pending`, or was cancelled while its process
  runs on, loses its template;
* the docstring of `dispatch_webhook` says 3 attempts, the loop makes 4
  (`webhook_service.py:68`);
* two builds of one template are let through before either is `running`
  (`routers/packer.py:706`);
* `lifespan` recovers no job (`main.py:56`): what was `running` at a restart stays so;
* callers queued behind a cache fetch that fails fetch again, one after the other
  (`cluster_cache_service.py:96`), where its docstring promises one shared fetch.

In the administration of accounts and nodes:

* "Self-lockout protection: prevent reducing active admin count to zero"
  (`admin.py:114`) counts in one session and writes in another: two administrators who
  demote, disable or delete each other at the same time leave none;
* a login that has checked the account before it is disabled creates its session
  after the revocation (`admin.py:131`);
* a deletion refused because of ownerships has removed pins and assignments
  already (`admin.py:181`);
* `update_node` reads every column and writes every column back
  (`nodes_service.py:242`): of two edits at the same time the later one restores what
  the earlier one replaced, a secret included, under the comment "Preserve current
  secret when caller did not supply a new one";
* the deletion of the default node promotes another one but leaves
  the host in the configuration (`nodes_service.py:326`).

In the alerts:

* two checks that overlap, or a restart between the update of a state and its event, leave
  the user told something else than the state says, until the alert changes again
  (`alert_check_service.py:323`);
* a rule that is switched off or replaced by one of higher rank, or loses its threshold,
  is not checked any more and keeps its state: an alert that fires goes on firing, and
  `list_alert_states`, which joins the rules without asking whether they are enabled
  (`alert_rule_service.py:657`), goes on showing it;
* `assign_preset` and `remove_assignment` delete the states of the VM; a check under way
  writes that of the rule it had read back;
* `remove_assignment` deletes the states even when there was no assignment and the
  answer is 404 (`alert_rule_service.py:486`).

In the browser:

* a wrong current password is answered with 401 (`profile.py:251`); `SecurityTab.jsx:90`
  waits for 403, and `client.js:20` takes every 401 for the end of the session: a typing
  error signs the user out. The same holds for the confirmation in `disable_2fa`;
* with two tabs, one signed in with "remember me" and one without, tokens lie in
  both stores, against the invariant of `tokenStorage.js:11`, and a tab that shows
  one account makes its next call as the other;
* a late 401 of an earlier token clears the renewed one; a late answer to a password
  change or verification after the sign-out signs in again;
* a tab whose shared token another tab has cleared stays where it is: `client.js:24`
  leads to the login only if there is a token to give up;
* the token issued by a password change lacks the portal permissions (`profile.py:276`);
* the panel of a job keeps lines and status of the one chosen before, A, B, A shows
  the lines of A twice, and the cancel button, enabled by the earlier job's
  status, cancels the next job;
* a late `getJob` overwrites the final status; a lost websocket is not opened again,
  while `EventsPage.jsx:75` waits for it after a cancel; the close event of the
  previous socket says "getrennt" about the next;
* `useOwnerMutations.run` swallows errors: `AddCoOwnerModal` and `TransferOwnerModal`
  close although the portal refused, and a refused deletion request is shown as pending;
* `OwnerSection` starts its reload before `adopt` has ended;
* `WebhookAllowlistSection` offers its form while its first load is under way: the
  invalidation after an entry was added (`WebhookAllowlistSection.jsx:22`) joins that load, and
  the entry may be missing until the next reload;
* `useDependencyImpactGuard` promises that each action asked about is confirmed or cancelled
  (`useDependencyImpactGuard.jsx:11`), but has one slot for the warning (line 48): with stop
  and reboot clicked before the first warning is there, the second replaces the first,
  whose button stays busy; two deletions in `VmTable` share its slots in the same way, with
  one busy mark between them;
* effects without a clean-up (`usePackerNodes.jsx:28`, `useGroups.js:12` and others) show
  the subject selected before when its answer comes last;
* tables that keep the id of the row clicked last enable the other rows' buttons
  while the first is under way.

### Bounds

All bounds are constants of the modules. They are chosen so that the case a
property is about occurs; for each property a wrong variant of the code is known
that violates it within these bounds (`mutants` in `PROJECT.json`).

* ClusterCache: three callers are the fewest with a holder and two waiters, so
  that the order of the queue and "fetched by somebody else meanwhile" both
  occur. Keys do not interact but in `invalidate_all`, which empties them all at
  once and touches no lock, so one key is enough here; the proofs are for any
  number. `MaxNow = 2`, TTLs 1 and 2: an entry can be valid for one caller and
  expired for another. `MaxVersion = 2`: old, newer, newest.
* Owners: two handlers are enough for every race known, as each needs one handler
  between two statements of another. Two users of which one is an admin. Three VMs
  where the limit is the subject (with limit 1: one row that is allowed, one too
  many, one more that must not happen; with limit 2 a transfer can also meet a
  receiver who owns the VM already). `MaxRows` bounds how often a pair gets a row.
  `Ops` are the operations an instance exercises: all but the hand-over one at a
  time; concurrently those that meet a deletion or a reconciliation (deployment,
  refresh, node deletion, hand-over), and for the limit those that insert.
* Jobs: one job is of every kind in turn (`Kinds` is the set, the initial state
  chooses), two cancels so that they can overtake each other, one follower, one
  restart. Jobs meet only in the template, where `jobs_lifecycle` has two.
  `MaxPolls` (200 for HA, 3600 for lifecycle jobs) needs only be large enough that
  the poller polls again, sees the end, and gives up; `MaxLines = 1` line of output
  beside the runner's own; `Attempts = 4` is the code's.

* Accounts: two handlers, as every race named needs two; three requests, so that
  one follows the two that overlapped; three ids, with a limit of two users, so that an
  id is given out again. The initial states are all tables within the limit.
* Alerts: two checks, as every lost write needs two; two rules, one of them general, so
  that an edit or a change of the preset changes which one applies, or none yet, so that
  one is created; up to two
  polls asked for, so that `pending` occurs; a value that reaches no threshold and one
  that reaches both (a severity without a threshold is among the settings); one edit or restart, which may fall between any two statements. Measured values may change at any time.
* Session: one tab, as two tabs with different choices break the promise (see above);
  two accounts, one with a second factor; two sessions and two calls in flight are the
  fewest in which an answer to the earlier token meets the later one.
* JobView: two jobs and two sockets: every event of the first can come after the choice
  of the second.
* Views: two calls, one change of the subject, one tick: any two of the things that can
  overlap do. Screens do not interact, so that each initial state takes one of them.

### Fairness and deadlock

`ClusterCache!Fairness` is weak fairness of each caller's own steps: the event
loop runs every ready coroutine, a lock is handed to its first waiter, and a
fetch ends because the HTTP client has a timeout. Requests, time and the world
need not move. `Jobs!Fairness` is weak fairness of each runner's steps and of the
end of the work behind it: the event loop runs a task that is ready, and a started
process or Proxmox task ends. Cancels that have begun are carried on. There is
no fairness for the start of anything, nor for a particular outcome. Where a
poller gives up, liveness does not depend on the Proxmox task.

`Alerts!Fairness`: polls go on for ever (an open dashboard keeps asking, and the cache
expires), and each check takes its next step (its statements end). Which check gets to
write first is left open: liveness holds all the same, because a check writes one more than
the count it read, so that the smallest of the counts in the row and in the hands of
checks never falls while the threshold is breached, and grows as those checks end.

`Session!FairSpec`: the pages poll (react-query's interval), the portal answers or
axios times out, a browser told to load a page does so; and nobody reloads a tab for
ever, since a reload drops the calls in flight. `JobView!FairSpec`: a connection that
is not lost opens and delivers.

The runs of Views, JobView and Accounts do not check deadlock: requests are bounded, and
a screen whose dialog was closed stops. The Jobs runs do not check it either: jobs, cancels and restarts are bounded, and
a portal with nothing to do stops. The other runs do.

## What is proved

`ClusterCache_proofs`, for any sets of callers, keys and TTLs and any bounds:
`TypeCorrect`, `ReadsAreMonotone`, `FetchIsSingleFlight`, `StaleFlagCorrect`.
`MonotoneReads` is not inductive: that a caller's answer is not older than its
floor follows for a fetched version only if the world is at least as new as
everything ever handed out, and for a cached one only if the entry is the newest
version seen. The latter needs the lock: between the second check and
the store of the fetched version nobody else stores. The invariant therefore says
who is in the queue and who holds the lock at each place of the code, that the
holder is alone at the places behind the lock, and how `world`, `entries`,
`seen`, `old` and `got` are ordered.

`Owners_proofs`, for any users, nodes and VMs (finitely many or not), any number of
handlers and any operations: `TypeCorrect`, `KeysHold` and `ReconcileCorrect`.
`ForeignKeys` is not inductive because `DropUser` and `DropNode` look at `ever`
and `InsertRow` at `live`. The invariant `IInv` adds that every live row is counted in
`ever` (`LiveCounted`), and, for each handler, that the arguments a statement will
use are there by the time it is reached (`HasArguments`) and that a hand-over
without a target never gets to its loop (`NoTarget`). `Placed` says where a handler is: what
is left of its script is a suffix of it (`Rest`), and a reconciliation in its loop has
only VMs of its node left that its snapshot lacks (`Reconciles`); a VM that exists and is not
in such a snapshot is in `born`. From it `Forward` derives,
once for all scripts, which checks lie behind a handler at each place.

`OvershootBounded` is for any finite number of handlers; `"transfer_user"` must not be among
the operations, as the transfer that goes with deleting a user does not look at the limit. The argument is one
of reservations: a handler between its check and its INSERT counts as an ownership already
(`Passed`), and the ownerships of a user with these are never more than the limit and one
less than the handlers (`Reserved`), for whoever passes the check met a user below the limit,
and no more than all handlers are past it. `LimitCorrect` is the case of one handler.

`OrphanCorrect` and `TransferCorrect` are for one handler at a time (`Proc = {h}`), the
instance of `owners_sequential`: with two handlers, both removals of the last two owners may
pass the check, and the sender may lose the row after he was looked up. The invariant
`StillSo` says that what the check found is so until the write.

`Jobs_proofs`, for any jobs, cancel handlers and followers and any bounds:
`TypeCorrect`, `RegistryCorrect`, `SuccessCorrect`, `FollowerCorrect` and
`LifecycleImplemented`. The type invariant is proved first, with
`HandlersKnowJob` (a handler past its SELECT has a job), and the others on top
of it. `RegistryIsLive` needs that only a packer build is ever between Popen and
its registration. `SuccessIsReal` needs `OkIsReal`: a task that believes in
success has seen its work end well, and at the places before the launch there
is no work and no belief. `FollowerSawWholeLog` needs that a row is final only
once the runner has written its last line (`FinalIsSettled`), and that what a
follower has seen final stays so. The refinement needs `PhaseInv`: where nobody
cancels, the row says where its task is, and a callback was told what the row
says. With cancels it does not hold, as `jobs_cancel_race` shows.

The assumptions are those at the head of the modules, which TLC evaluates on
every instance: `NodeOf` maps VMs to nodes, the limit is positive, `None` is not
one of the sets' members.

`Views_proofs`, for any set of screens, subjects and rows and any number of calls:
`TypeCorrect`, `ShowsSelectedCorrect`, `FlagsCorrect`, `DialogCorrect` and
`OwnChangesCorrect`. `ShowsSelected` speaks of a quiet screen only; the invariant
says what holds on the way there: on a guarded screen, or with a patient user, every load that
still counts is for the subject selected (`LiveLoadsFit`), and while the screen shows
another subject such a load is under way unless one has failed (`Catching`). For a screen without a guard that
needs that a call of a patient user, whose reload takes the subject it was clicked
with, belongs to the subject selected (`CallsFit`).

The type invariant needs that calls and loads are numbered without a gap (`Ids`) and that the
loads stay finitely many. `FlagsAreBacked` and `DialogRunsOnce` share the invariant `FlagInv`:
a call that runs holds its flag while the screen is open (`Held`), a flag of the kinds that
exclude has one call (`Sole`), every flag has a call that will give it back (`Backed`), a
screen that is closed has none (`Closed`), and of two calls of a dialog the first
has failed and was told (`Once`, `Gone`). `FlagInv` knows of the guards that
a call waits only for one it goes through (`Warned`), and that, while a mark of the row clicked last
is set, one of its calls has kept the guard's slot (`LastSettled`). `OwnChangesShown` needs the
loads: one that was served after an answer has seen the call (`Fresh`), what the screen
shows lacks a call of the user only while a load that will bring it is under way
(`Caught`), both but for the calls in `missed`, and the one fetch of the subject a
query has selected is listened to (`Counting`).

`JobView_proofs`, for any jobs and any bounds on sockets, lines and losses: `TypeCorrect`,
`ConnectedCorrect` and `NoForeignLinesCorrect`. The invariant says that at most one socket
delivers (`AtMostOne`), that it is the one of the job chosen (`Follows`), and that a log is on the
panel at most once for each socket (`Accounted`).

`Session_proofs`, for any accounts and any bounds: `TypeCorrect` for any number of tabs,
with `Issued` (no call carries a token the portal did not record). `OneStoreCorrect` and
`ShownCorrect` are for a browser with one tab, the instance of the run: a second tab
shares `localStorage` and really breaks both (see the disagreements above).

`Alerts_proofs`, for any number of checks, rules, edits and any `sustained_polls`:
`TypeCorrect`, `StateFollowsPollsCorrect` and `ToldOnceCorrect`. Both properties speak of
moments without a check. `Agrees` says what a row, the number of polls asked for and the history
have to do with each other: the count is at least the number of breaching polls, and
exactly that number when a reset is known. `AlertsInv` says that this holds for
every rule no check is working on, and, in the middle of a check that runs alone, already
with its own poll for the severities it has done (`Done`) and still without it for the
others. That is enough since at most one check is alone (`OneAlone`), and one that is not ends by giving up what is known
of its rule, which agrees with any row (`NothingKnown`).

`Accounts_proofs`, for any number of handlers, accounts and requests and any limit:
`TypeCorrect`, `AdminStaysCorrect`, `DisabledIsSignedOutCorrect`,
`AssignmentsHaveUserCorrect` and `LimitHoldsCorrect`. Each property is about the
tables, and needs what a handler past its check may still rely on (`AdminFits`: another
administrator is there; `AssignFits`; `LimitFits`: there is room; `SignedFits`). That stays
true because `met` knows every pair of handlers that run at the same time (`MetKnown`), so
that an operation which could undo it has overlapped and the property claims nothing.
`SignedFits` also has to live with an id that is given to another account between the
two halves of an update, and with the name of the new one, which may have been used
before: names are unique among the accounts there are (`NamesInv`), and a creation that overlaps an
update is in the premise of the property.

## What is only model-checked

* Liveness (`EveryCallEnds`, `EveryJobFinishes`, `FinishedIsShown`,
  `DeadTokenLeavesScreen`, `StaysBreachedFires`, `StaysCalmClears`): fairness and ENABLED are beyond the
  proof system.
* Facts that need induction over data, or RECURSIVE operators: not provable with
  the installed backends; the modules avoid them.

## What is not modelled, and why

* Errors of the database or the file system other than constraint violations.
* A crash of the database, and transactions of other processes on it.
* The text of logs, audit entries and messages; permissions beyond the ones that
  decide whether an ownership may be managed.
* Inputs, filters, sorting and tabs of the screens, and the texts of the browser: they
  change nothing another party sees. Screens of the Plus edition are behind hooks.
* The recovery codes, the default node and the rate limiters of the backend: planned, see
  below; their hazards are listed. The refresh of node updates writes rows under a foreign
  key that refuses it once the node is gone.
* `PROJECT.json` lists every part with its status. Pure I/O (Proxmox client, the files
  of the catalogues) and audit have no protocol to check; the Plus edition's code is
  not in the repository, only the hooks it fills.

## Plan

Done, in this order: the cache, the ledger, the jobs with the abstract
lifecycle; the proofs about them; the browser's session, job panel and screens; the
administration of accounts; the proof about the screens; the alerts; the proofs about the
accounts and the alerts; the proofs about the session and the job panel, of the other
properties of the screens and of those of the ledger. Every invariant and action property
that holds is now a theorem.

Next, most important first:

1. `Installations`: last node, default node, `update_node`.
2. The recovery codes and the attempts of the second factor.
3. Compositions: the success hooks of `Jobs` with `Owners`; the callbacks of
   `ClusterCache` with the reconciliation in `Owners` and with `Alerts`.
