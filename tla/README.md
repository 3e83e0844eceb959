# A verification project for Rncasp

Rncasp is a shift-planning server: a Go API over PostgreSQL and Redis, and a
React client.  This directory holds TLA+ models of its services and of the pages
that use them, the TLC configurations that check the models, and TLAPS proofs
about them.  Paths below are relative to the repository; `service/` stands for
`src/api/internal/service/`, `web/` for `src/web/src/`.

## 1. Inventory

The server is a set of services over one database.  An HTTP request runs in its
own goroutine, passes the middleware (`server/middleware/auth.go`), a handler
that parses it (`handler/`), and one service method.  **No service method opens
a transaction or takes a lock**: a method is a sequence of SQL statements, each
atomic, with what the earlier ones returned held in local variables while other
requests run.  Only the migrations use transactions.  Side effects (audit log,
notifications, webhooks) run in goroutines started just before the reply;
changes are announced to browsers over Redis pub/sub and server-sent events.

The client keeps what it has read in TanStack Query's cache.  A page draws from
the cache, copies parts of it into forms and dialogs, sends requests made from
those copies, and learns of the outcome by an answer that may come late, or never.
**Almost every state of a page is a copy of something that may have changed since.**

| Component | State | Operations | What is hard | What makes it correct |
|---|---|---|---|---|
| Shift service (`service/shifts.go`) | `shifts` | Create, Update, Delete, grid | every check is made on rows read some statements before the write; the row is read again after it | ranges stay in order and inside the event; staffing limits; a lock takes effect; changes reach open grids |
| Coverage (`service/shifts.go`) | `coverage_requirements` | Create, Update, Delete, DeleteByTeam | read by the overbooking check while it changes | as above |
| Event service (`service/events.go`) | `events`, `event_admins`, hidden ranges, teams, pinned users | Create, Update, Delete, SetLocked, SetPublic, admins, SetHiddenRanges | partial updates merged by COALESCE; cascades; delete and inserts apart | range in order, lock drains and freezes, an edit of a list changes what was edited |
| Access (`server/middleware/auth.go`, `routes.go`) | role and id in the request context | Authenticate, RequireSuperAdmin, RequireEventAdminOrSuperAdmin | rights read once, used later | no write by somebody without the right |
| SSE broker (`sse/broker.go`, `handler/sse.go`) | client set, one buffered channel each | Subscribe, Publish, broadcast, cleanup, Close | full buffers drop messages, events between "connected" and Subscribe are missed, Close against cleanup | every client that stays learns of every change |
| Web live cache (`web/hooks/useSSE.ts`, `useShifts.ts`) | query cache, back-off, retries | message, error, reconnect, optimistic update | missed messages while disconnected, roll-back to an older snapshot | the view converges to the tables |
| Event page (`web/pages/EventPage.tsx`, `components/grid`, `components/shifts`) | view, day, focus, dialog, guesses in the cache | views, keyboard, click, drag, resize, create, edit, delete | three computations of one table; dialogs that outlive their row and their rights; updates that overtake each other | bars, blocks and statistics agree; a save changes what was edited; a refused guess goes away |
| Settings page (`web/pages/EventSettingsPage.tsx`, `hooks/useEvents.ts`) | a cached answer per section, forms, dialogs | details, slug, switches, teams, admins, pinned users, hidden hours, requirements | whole lists are sent from copies; the page moves when the slug changes | own changes are read back; one edit does not undo another |
| Availability (`service/availability.go`, `components/availability`) | rows per user and event, painted slots | replace all, paint, save, reopen | delete and inserts are separate; a save that is answered after the editor was closed | the result is one caller's set, and what was painted |
| Accounts and sessions (`service/auth.go`, `web/contexts/AuthContext.tsx`, login, registration and settings pages) | `users`, `sessions`, the user as the client knows it | Register, Login, Logout, UpdateProfile | check-then-insert, counting users to find the first one, a user that is read by one part and copied by others | an administrator from the first account on; what was saved is shown |
| Two-factor login (`service/totp.go`) | secret, switch, recovery codes, pending tokens in Redis | Setup, Enable, Disable, Verify, Regenerate | get-then-delete tokens, two-statement replacement, a secret replaced while it is confirmed | on only with a confirmed secret; the codes shown are the codes stored |
| OAuth (`service/oauth.go`) | connections, state tokens | authorize, callback, list, unlink | user and connection in two statements | no account without a way in; an unlinked connection is gone from the list |
| User management (`service/user.go`, `web/pages/UserManagementPage.tsx`) | `users`, a page of the list | UpdateUser, CreateUser, DeleteDummyAccount, AdminDisableTOTP, filters | conversions clear the password before the type changes; buttons of an old list | only placeholders are deleted; the last administrator is not lost by mistake |
| Audit, notifications, webhooks | log, inbox, outgoing calls | Log, NotifyEventUsers, Dispatch | run after the reply, read current tables | what happened is recorded, the right users are told |
| Cleanup and shutdown (`service/cleanup.go`, `server/server.go`) | timer, stop channel | Start, Stop, Shutdown | order of closing, streams that never end | nothing is used after it is closed |
| Migrations (`migrate/migrate.go`) | `schema_migrations` | Run | several instances, crash between files | each file once, in order |
| Rate limiter (`server/middleware/ratelimit.go`) | count and last time per address | allow, cleanup | the window moves with refused requests | at most `limit` per window, and again after it |
| Teams, app settings, SMTP, export, iCal, PDF, configuration | - | - | single statements or formatting | not modelled, see `PROJECT.json` |

`PROJECT.json` lists the hazards this brings, each at the line where it bites.

## 2. Plan

1. **Planning core** (done): shifts, coverage, event, access, all requests
   interleaved statement by statement, with theorems.
2. **SSE broker and live cache** (done, but for what section 7 names): server
   instances, Redis, client buffers, connect and disconnect, shutdown order, the
   optimistic update, with theorems.
3. **Availability** (done): replace-all against an abstract register, by
   refinement, with the editor and its cache, with theorems.
4. **Event page and settings page** (done): what a page draws and what it sends
   from its copies, with theorems.
5. **Accounts, two-factor login, sessions** (done): the account pages composed with
   the two-factor service, with theorems.  Left: logins that are refused because
   the account is inactive, the sessions of deleted accounts, the exchange with an
   OAuth provider.
6. **User management** (done), with theorems.
7. Left: the **side effects** after the reply; **migrations** with several
   instances and crashes, refining "each file once"; the **rate limiter** against a
   reference window; the pages for teams, app settings, the audit log and exports;
   the cleanup loop beside the shutdown; an abstract "every view has what was
   announced to it" that `LiveGrid` implements.

Order: what decides the plan people rely on first (1), then what makes it
visible (2), then what people enter (3, 4), then who may do so (5, 6), then the
smaller parts.  Proofs follow each component in a module of its own; modules with
theorems use no RECURSIVE operator.

## 3. Modules

| Module | Models | Depends on |
|---|---|---|
| `PlanningTables` | the tables of one event, the SQL predicates, the request record and its control steps | - |
| `ShiftService` | `service/shifts.go`: shift and coverage operations | `PlanningTables` |
| `EventService` | `service/events.go` Update, SetLocked, Delete, AddAdmin, RemoveAdmin; the two guards of `middleware/auth.go` | `PlanningTables` |
| `Planning` | clients' requests, `Init`, `Next`, `Spec`, `FairSpec`, the properties | both services |
| `MCPlanning` | what clients ask for in each TLC run | `Planning` |
| `PlanningProofs` | type correctness | `Planning`, `TLAPS` |
| `PlanningSafetyProofs` | theorems on locking, ranges, announcements and overbooking | `PlanningProofs` |
| `SseBroker` | `sse/broker.go`, `handler/sse.go`, the shutdown in `server/server.go`, on several instances behind Redis | - |
| `LiveGrid` | `hooks/useSSE.ts`, the grid query and `useUpdateShift` of `hooks/useShifts.ts`, composed with the broker; `Spec`, `FairSpec`, the properties | `SseBroker` |
| `MCLiveGrid` | symmetry and the events of each TLC run | `LiveGrid` |
| `LiveGridProofs` | theorems on channels, types, delivery and guesses | `LiveGrid`, `TLAPS` |
| `TimeSlots` | the calendar arithmetic of `web/lib/time.ts` | - |
| `AvailabilityRegister` | what "replace all" promises when saves overlap and break off | - |
| `Availability` | `service/availability.go` SetAvailability, `AvailabilityEditor.tsx`, the query "mine" of `useAvailability.ts` | `TimeSlots`, instance of `AvailabilityRegister` |
| `MCAvailability`, `AvailabilityProofs` | the TLC instance; the refinement theorem and those on types, round trip, overlaps and the cache | `Availability` |
| `GridView` | what `ShiftGrid.tsx`, `GridRow.tsx`, `CoverageBar.tsx`, `ShiftStats.tsx` draw, as operators | `TimeSlots` |
| `EventPage` | `EventPage.tsx`, `useViewParams.ts`, `useKeyboard.ts`, the shift dialogs and the time picker, the mutations of `useShifts.ts` | `GridView` |
| `MCEventPage`, `EventPageProofs` | tables, views and requests of the TLC instance; theorems on what is drawn and what is sent | `EventPage` |
| `EventSettings` | `EventSettingsPage.tsx`, the hooks of `useEvents.ts`, and on the server the methods of `service/events.go` and the coverage operations they call | - |
| `MCEventSettings`, `EventSettingsProofs` | the event to begin with; theorems on copies, exact edits of the hidden hours, and partial saves | `EventSettings` |
| `TwoFactor` | `service/totp.go` and the password login of `service/auth.go`, statement by statement | - |
| `AccountPages` | `AuthContext.tsx`, the login, registration and security settings pages, registration and profile on the server, composed with the calls of `TwoFactor` | `TwoFactor` |
| `MCAccountPages`, `AccountPagesProofs` | the TLC instance; the composition with `TwoFactor`, and theorems on the secret, the codes, the forms and what a device shows | `AccountPages` |
| `UserManagement` | `service/user.go` statement by statement, `UserManagementPage.tsx`, `useUsers.ts` | - |
| `MCUserManagement`, `UserManagementProofs` | the TLC instance; theorems on deletions, passwords, the last administrator and the pages of the list | `UserManagement` |

### The planning core

**State.**  `event`, `shifts`, `coverage`, `admins` are the rows of one event;
everything is scoped by event id, so several events do not interact here.  Row
ids count up to a bound and are never reused, like UUIDs.  Times are
`0..MaxTime`, the slots of the event.  `gridStale` says that a change is in the
tables which no announcement has followed yet.

**Requests.**  `reqs[r]` is a handler goroutine: `pc` names its next statement
(`gate`, `getShift`, `getEvent`, `isAdmin`, `listCoverage`, `count`, `write`,
`announce`), `old` and `ev` are the rows it has read, `todo` the requirements
its overbooking loop has still to count.  Each action is one SQL statement with
the checks the code makes between it and the next one; an early return is
`Reply`.  `Proceed` forgets the locals that the code no longer uses, which keeps
the state space small without changing what can happen.

**Merged steps.**  Lookup by slug and write by id are one step in the coverage
operations, `SetLocked`, `Delete`, `AddAdmin` and `RemoveAdmin`: the write uses
nothing of the lookup but the id, so the only difference an interleaving could
make is that the event is deleted in between, after which the write finds no row
or fails on its foreign key.  The overlap query of `Create` only fills the
warnings of the response.  `IsEventAdmin` for a caller whose role is not "user"
is not a step: its answer is used only for a super-admin, for whom the rule
holds anyway, because a read-only account was refused before.

**Database constraints** are part of the writes: the CHECK on shifts
(`migrations/001_initial_schema.sql:166`), the foreign key of shifts to events
and ON DELETE CASCADE.  COALESCE in `UpdateShift` and `UpdateEvent` merges the
input with the row as it is when the statement runs, not as it was read.

### The broker and the live grid

**State of the broker.**  `registered` is `Broker.clients`, `chan` the number of
messages in each client's channel, `cast[b]` the clients a broadcast in progress
has still to serve.  A broadcast runs on an instance's subscriber goroutine or, as
the fallback of `Publish`, in the handler that made a change, so `b` is an instance
or a change.  While `cast[b]` has a client of an instance, `Broker.mu` is read-locked
there and `Subscribe`, `Return` (the deferred cleanup) and `Close` wait (`CanLock`);
two broadcasts may run side by side, as the read lock allows.  `feed` counts what
Redis has sent to an instance, `linked` the instances whose subscription stands.
`announcer[v]` is the handler that wrote change `v` and has yet to publish it.

**State of a tab.** `hook` and `retries` are those of `useSSE`, `cur` the connection of
its EventSource, `fetch` the one request for the grid that may be in flight, `loaded`
whether any has been answered, `edits` the updates in flight, each with the grid it
would roll back to. `EventPage` mounts the grid's query and the stream side by side, so
a tab starts with both asked for and neither there; a sleeping tab has had its grid
before.

**Data.** All messages make a tab of one event do the same, so a queue is a number.  A
grid is the version of the tables it has seen (the server reads them in several
statements; the version is the one all of them have at least seen) and whether an
unconfirmed update is drawn into it.  `due` and `promised` are history: the latest
change announced to the tab's instance since the broker knows the tab, and since its
stream is open.  `due` starts anew with each connection, and when a broken Redis link
has lost messages: pub/sub promises nothing there. `missed` is history too: what was due
when the first request, which had read the tables before, took a message for its own; it
is void as soon as the grid is asked for again.

**Outside the repository.** Redis passes a message to those subscribed at the moment,
may take it and still report an error, and may lose what is on its way when a link
breaks. TanStack Query's `invalidateQueries` cancels a request in flight and sends a new
one if the query has data already; during the first load it joins the request that is
under way (`Joins`), whose answer then counts as the new one. `cancelQueries` only
cancels. These are marked external in `PROJECT.json`.

**Merged steps.**  Marshalling and un-marshalling are not steps.  A reader of a
channel and the flush of its message to the browser are one step, `Message`: what is
on the wire when the connection breaks is lost either way.

### Availability

**The service.**  `rows` are one user's entries for one event, each with the save
that inserted it (history).  `saves[s]` is a handler of `SetAvailability`: it
validates all entries, deletes what is stored, inserts one row after the other, and
may break off between any two statements (`BreakOff`: an error, or the server goes
down), which leaves what was done.

**The editor.** `editor[t]` is the slot map of the open editor, painted, erased and
cleared slot by slot; `ToEntries` turns runs of equal status into entries and
`Paintings` reads entries back, both as the code does.  `cache`, `stale` and `fetch` are
the query "mine" of a tab. An invalidation throws away a request under way and sends
another; one that hits while the editor is closed only marks the answer, and one that
hits during the first load, which does not keep the editor from being painted and saved,
joins the request under way (`Joins`).

**The promise.**  `AvailabilityRegister` knows the saves under way, those that were
acknowledged, those of which something is stored, and for each save its rivals, the
ones that were under way at the same time.  `Register` maps `Availability` to it.

### The event page

`GridView` holds the functions: columns that leave out hidden hours, where a block
begins and ends, what is counted under a column, which rows there are, the tables of
statistics, the list of a single user, what the time picker can return. Instants are
ticks of a quarter of an hour; a column is as wide as a slot is long. Hours in the
statistics are tenths, every figure rounded by itself as `hoursFromMs` does.

`EventPage` holds the state: `shifts` and `rights` on the server, `grid` and `seen`
cached of them, `page` (the view in the address), `focus` (the cell of the keyboard),
`dialog` and `requests`.  A dialog keeps the shift it was opened for (`base`), its form,
and the requests it waits for; it outlives changes of either.  An update is guessed
into the cached list at once (`Guess`), remembers the list before it and puts that
back when it fails.  A handler of the server is one step here, since its statements
are those of `ShiftService`; what is modelled of it is what it admits and merges.

### The settings page

`db` is the event, `asks` are requests: on their way, accepted, with `SetHiddenRanges`
taken apart into its deletion and one insertion per row.  Per admin, `cache` and
`fetch` are the queries of the sections, `ui` is the slug in the address, the details
form, the dialog that asks for confirmation and the requirement that is edited.  A
request is made from the copies of that moment: the whole list of hidden hours, the
opposite of a switch, the fields of the form that differ from the cached event.
`Invalidated` names the queries that each mutation has fetched again.  A save that
changes the slug moves the page to a new address, where nothing is cached.  `owed` is
history: queries that a page has not read since its own change was acknowledged.

### Accounts and the second factor

`TwoFactor` is the service for one account: `secret`, `enabled`, `codes`, pending
logins (`tokens`), and `calls`, each at one statement of its operation.  A secret and a
set of codes are named by the call that generated them; what is typed is the current
code of some secret, or a recovery code.  The secret a code is accepted for, to switch
the factor on, is recorded in `confirmed`.

`AccountPages` extends it with the browsers of that account (`Devices`): `user` is the
user of `AuthContext`, `page` the screen with its forms and the section for the second
factor, `list` the cached connections and whether they are marked stale, `wires` the
requests and answers under way other than calls, `caller` who waits for which call.
Opening the settings page *copies* the user into the profile form and the state of the
factor into its section; from then on the copies go their own way, while answers set the
user under them. Unlinking marks the list of connections; the list is fetched again, and
an answer under way dropped, only while the settings page is open, and the buttons of
that page stay disabled until the new list is there. When the page was left, nothing is
fetched before it is opened again, and an answer under way is kept and clears the mark.
A save of the profile is two statements, the password first.  First registrations count
the users, insert and open a session in separate statements, for names that end up in
`members`.

### User management

`users` is the table, `asks` the requests of all super admins, each at one statement of
`UpdateUser`, `CreateUser`, `DeleteDummyAccount` or `AdminDisableTOTP` (`read`, `name`,
`password`, `clear`, `write`, `codes`) with the account as it was read (`saw`); `Admit` is
the middleware, which reads the caller's role and activity once.  `pages` is what each
super admin sees: filters and page, the list as last answered, and a dialog with the row
of the list it was opened on.  What is typed into a form is chosen when it is submitted.
Names decide about uniqueness; display names, addresses and time zones decide nothing and
have no state.  The list and its total, two queries of one handler, are read in one step.

### What these four have in common

**Cached queries** follow TanStack Query's rules as the code relies on them: one request
per key, an invalidated query on the screen is fetched again and its request under way
is thrown away, unless it is the first one, which is waited for; one that is not on the
screen is only marked; an answer replaces the copy under whatever is open.  **Requests
fail** at any time, before or after they took effect: the server refuses, a statement
fails, or the answer is lost.  **Dialogs close** by an answer whatever dialog of the
kind is open by then.  **One at a time**: a behaviour works in one section or part of a
page (`section`, `part`, `session`, fixed in `Init`), as the sections have queries and
requests of their own.  What they share, such as the user of `AuthContext`, every part
reads and writes; one behaviour that goes from one part to another is not checked.

## 4. Properties

Each module has one type invariant, `TypeOK`.  The others:

The planning core (`Planning`):

* `ShiftsOrdered`, `ShiftsWithinEvent` - Update validates the range it *computed
  from an older row*; two edits of one end each may cross.  The first holds
  because of the CHECK.  The second has no constraint behind it and holds because
  each end is checked against the event by itself as well.
* `LockFreezesShifts` - `Frozen` is "locked, and every ordinary user's edit that
  was admitted before the lock is gone".  Until the lock is lifted it stays so,
  and shifts change only by a super-admin's hand.
* `LockEventuallyFreezes` - an event that stays locked becomes frozen.
* `StaleGridIsAnnounced` - when a grid misses a change, a handler is on its way
  to publish *and will not give up*: Create and Update do give up when the row
  they want to read again is gone.
* `BoundedOverbooking` - the count-then-insert check is overrun by at most one
  shift per other handler in flight.
* `EveryRequestAnswered` - every request ends in a reply.
* `EventOrdered` - the event ends after it starts; violated.

The broker and the live grid (`LiveGrid`, `SseBroker`):

* `ChannelsOpen` - no send on a closed channel and no second close, either of which
  would end the process.  Cleanup and `Close` both close; the lock, and `Close` coming
  after the handlers are gone, keep them apart.
* `NothingAnnouncedIsLost` - a registered tab that lacks an announced change has
  something on its way that will bring it.  It is not obvious: a full channel drops
  messages (but is full of others that will do), a message cancels a request, an update
  cancels one and asks for no other until it ends, and a failed update puts an older
  grid back. Excepted is what the first load has swallowed: a message that came when the
  first answer had been read already starts no request, so what was due by then is
  missing until the grid is asked for again.
* `GuessesAreReplaced` - a roll-back may bring back the guess of another update;
  whatever is drawn and not confirmed is still to be replaced.
* `GridCatchesUp` - under fairness the grid ends up with everything announced to it, but
  for what its first load has swallowed, although another tab sleeps on a full channel.
* `ConnectedClientsAreServed` - the same as `NothingAnnouncedIsLost` for every tab
  whose stream is open, which is what the documents say; violated.

Availability:

* `ReplacesAll` - the refinement: a save is acknowledged only when all that is stored
  comes from it or from its rivals.
* `StoresThePainting` - a save without rivals stores exactly what was painted: the way
  from slots to entries to rows and back loses nothing.
* `OverlapsNeedRivals` - overlapping entries, which no constraint excludes, only come
  from saves that ran at the same time.  This needs a table whose entries lie on the
  slots of the event (`OnTheGrid` in the proofs): once the event's start or granularity
  was moved, an old entry that is kept beside a new painting is written back off the
  slots and overlaps its neighbours.
* `OwnSaveIsSeen` - after a save that succeeded with the editor on screen, no answer
  older than it is taken for current, unless the save met the tab's very first request
  with its answer already on the way, which the code waits for.

The event page:

* `BarsAgreeWithBlocks` - two components compute from two lists, by two routines, what
  stands under a column and over it; they say the same in every view, on every day.
* `BlockWidthIsVisibleTime` - a block is as wide as the visible part of its shift,
  whatever hidden hours, midnights and ends of the range it crosses.  It takes the first
  two columns to follow each other, since the code reads the length of a slot off them.
* `StatsAddUp` - by team, by day and by user, the statistics come to one total in
  shifts. In hours they need not, since every figure is rounded by itself: they come to
  no less than the total shown, and to at most half a tenth of an hour more for each
  row, times being in quarters of an hour.
* `SavesOnlyChangedPeople` - a save from a dialog leaves the team and the user alone
  unless they were changed in it, whatever others did since it was opened.  Times are
  always sent, as the browser writes them differently; for them it is not true.
* `NoGuessSurvives` - with all answers in, a list that needs no fetching has no guess
  in it, in whatever order overlapping updates failed and put back their lists.

The settings page:

* `OwnChangesAreReadBack` - every section reads its rows again after its own change was
  acknowledged, and no older answer gets in between.
* `RangeEditsAreExact` - although the whole list is sent, an addition or removal that
  started from the current rows and had no rival changes exactly the one row that was
  typed, or that the dialog was opened for.
* `SaveKeepsOthersChanges` - a save of the details changes no field that was not edited,
  as long as the cached event is the one the form was filled from.
* `ConfirmedRemovalsAreValid` - what the removal dialog confirms can be carried out;
  violated for admins.

Accounts and the second factor:

* `EnabledSecretIsConfirmed` - the factor is only on with a secret for which a code was
  accepted, in spite of setups that come between the read and the write of `EnableTOTP`.
* `ShownCodesAreStored` - the recovery codes on a screen are the stored ones, but for used
  ones, as long as no two changes overlapped and no other device replaced them.
* `OwnSwitchIsSeen`, `OwnChangesAreShown` - a device that was the last to change
  something, and waits for nothing, shows it as stored: the switch, the profile, the
  connections.  Not when an answer was lost; of the user not when two reads of it were
  under way at once, the answer of a login among them; and of a connection not when the
  device was told that it is gone on another page than the settings, with an older list
  still under way. The page may otherwise be left while unlinking and opened again at
  any moment.
* `SavesSendOnlyTyped` - a profile form that was not redrawn sends only what was typed.
* `SomeoneAdministers` - however first registrations overlap, there is never a user
  without a super admin (there may be several).

User management:

* `OnlyDummiesAreDeleted` - however old the list is in which the button was, an account is
  deleted as a placeholder, or was written to between the look at it and its deletion.
* `LocalsHavePasswords` - an account that signs in by password has one, unless an update of
  it is under way, broke off, or overlapped another one.
* `LastAdminGoesKnowingly` - whoever takes away the last administrator was warned, or lost
  the right to do so while the request was under way.
* `PagesAreFilled` - filters never leave one on an empty page of the list.

## 5. Runs

| Run | Question | Bounds | Result |
|---|---|---|---|
| `planning_safety` | lock, admins, deletion and announcements against all shift operations, with edits of times | 2 handlers, 4 accounts (user, event admin, super-admin, read-only), times 0..3, event 1..3, 1 shift id, 2 coverage ids, one seat | holds, about 884,000 states |
| `planning_live` | answers, freezing and overbooking, under fairness | 2 handlers, 2 requirements (two seats all the time, one in the first slot), 3 shift ids, locks, shortening and deletion of the event | holds, about 188,000 states |
| `planning_event_range` | "end time must be after start time" for the event | 2 event admins | violated |
| `live_delivery` | channels, delivery and guesses under faults | 2 instances, 2 stream handlers, 1 tab from its first load on, 2 changes, 2 updates at once, channels of 1, any two of: lost connection, failing publish, broken Redis link, crash, shutdown, failing request, update | holds, about 1,923,000 states |
| `live_catch_up` | convergence, under fairness | 1 instance, 2 tabs of which one sleeps, 2 changes, any one of: lost connection, failing publish, update | holds, about 980,000 states |
| `live_gap` | "push shift changes to all connected clients instantly" | 1 tab, 1 instance, 1 change, no fault | violated |
| `availability` | painting, saving and reading back; refinement of the register | 1 tab, 2 saves, 2 statuses, 3 slots of which the last reaches over the event's end, an entry of before | holds, about 1,415,000 states |
| `event_page` | what is drawn, and what is sent from dialogs and drags | 2 users, 2 teams, 2 days of 4 hours with a hidden one; 55 tables in all views; or 1 shift, 2 requests and one change of rows or rights by others | holds, about 1,081,000 states |
| `event_settings` | two admins in one section | a super admin and an event admin, 2 requests, each of 7 sections | holds, about 430,000 states |
| `settings_admins` | "Remove {{name}} as event admin?" | the same, the section of admins | violated |
| `accounts` | one account on two devices; first registrations | 2 devices, 4 calls on the second factor, one recovery code each, 2 other requests per device, 3 visits to the connections | holds, about 1,684,000 states |
| `user_management` | two super admins over each other; conversions, creations, deletions; filters | 4 accounts and a created one, 2 requests, pages of 3 | holds, about 351,000 states |

**Bounds.** Two handlers, two saves and two requests suffice for every property about
one row, because a violation needs one actor's stale read and one other write; with two
handlers `BoundedOverbooking` allows one shift too many and that is reached, and the
theorem covers any number.  `MaxTime` 3 leaves room for a shift that fills the event and
for edits that move either end to the middle or out of it.  The second factor has four
calls: a setup, its confirmation, and two more that come between or undo them.  A set of
recovery codes is one code, as its codes are inserted in one step and only used one by
one.  Five kinds of shift in the tables of `event_page` cross the hidden hour, midnight,
the end of the columns, begin off the hour or lie in a hidden hour; every pair of them
is a table.  A page of three accounts has a second page for four.  `Asked`, `Sessions`,
`InUse` and `Worked` limit what is asked in one behaviour; interleaving, targets and
order stay free. A shift is created only while there is an id left (`RoomFor`), so that
no handler is stopped halfway. The settings page is opened three times in the part of
the connections: to unlink, to ask for the list again in the meantime, and to look at it
after the answer. Only the device's own requests are bounded there, two in a behaviour.

In `LiveGrid` a channel of one message is full with the first and drops the second,
which is all that matters of 64.  A dropped message needs two on their way, so there
are two changes, or one that Redis took and reported as failed.  A tab has one
connection at a time, so two stream handlers suffice for an old one that lingers.
`MaxEvents` bounds how often anything outside the normal course happens, in any
combination.

Interchangeable handlers, requests, devices, saves and statuses form symmetry sets in
the runs that check safety; the runs with liveness properties have no symmetry.  The runs
of the planning core check for deadlock.  The others do not, because their systems may
come to rest: users stop, and requests are bounded.

**Fairness.**  `FairSpec` of `Planning` gives weak fairness to each handler's own steps: a
goroutine that can run is scheduled, and the database answers.  Nothing is assumed of
clients, who may stop asking, or ask for ever.  `FairSpec` of `LiveGrid` is weakly fair to
goroutines that can run, to requests that were sent and to a tab that reads its stream; it
assumes nothing of a sleeping tab, of changes or of reconnects.  In `live_catch_up` no
server stops and no request for the grid fails: after such a failure the grid stays old
until the next message or the next visit.  The page modules state no fairness: what they
say about late and lost answers is safety.

**Findings.**  Three runs show that the code disagrees with what it says of itself, quoted in
`PROJECT.json`.  Two partial edits of an event can leave it ending before it starts.  A
tab that has been told "connected" misses what is published before the broker knows it.
And the settings page cannot remove an event admin: the server lists the user under `id`,
the page sends `user_id`, which is not there.

Seen while modelling, within what the models allow, and without a run of their own: two
sign-ups can take one last seat (`BoundedOverbooking` says how many can), and a shift
may be moved into a full window, as only Create looks at the requirements; an owner who
saves a shift while an admin hands it over takes it back; Enter on the row of a pinned
user without shifts does nothing, because the keyboard walks over fewer rows than are
drawn; a details form compared with an event fetched since can undo a change; one
pending login, or one recovery code, opens two sessions when two verifications overlap;
a message that arrives during the first load of the grid asks for nothing, so that the
grid can stay behind it until the next one; a save of availability before the first
answer leaves the entries of before on the screen in the same way; the hours of the
teams, days or users need not come to the total above them (0.3 and 0.3 under 0.5); a
connection that was unlinked while the page was left can be listed again, from an answer
that was under way; the stream fetches nothing after a reconnect and gives up after its
retries; an account converted to a placeholder keeps its sessions, and two conversions
that overlap can leave an account that signs in by password without one; the dialog to
edit an account lets super admins convert themselves with no more than the general
warning; deleting an account removes its shifts without announcing it.

## 6. Proofs

Every theorem holds for all values of the constants: any number of handlers, users,
teams, rows, instances, connections, tabs, devices, calls, saves and requests, any
granularity, table, coverage, channel capacity and sequence of faults.  What is assumed of
the constants is named in the modules: the five of `PlanningTables`, `BrokerAssumption`,
`LiveAssumption`, `AvailabilityAssumption`, `TwoFactorAssumption`,
`AccountPagesAssumption`, `UserManagementAssumption`, `EventSettingsAssumption`,
`EventPageAssumption`.  Most of it says that bounds are numbers, that a null value is no
value, and what is a subset of what.  What says more:

* `AvailabilityAssumption`: entries stored to begin with end by some time `Horizon`, not
  before the event's end.
* `UserManagementAssumption`: accounts that sign in by password have one to begin with.
* `AccountPagesAssumption`: not every address is taken.
* `EventPageAssumption`: the granularities are those that the form of an event offers, the
  shifts and the event's teams are finitely many.
* `EventSettingsAssumption`: hours typed run from 0 to 23, as the form admits them.

Four theorems have a hypothesis of their own, on what clients ask for (no move of the event,
sign-ups only) or on the initial rows (`OnTheGrid`).

Most invariants are not inductive by themselves.  Each section of a proof module names the
invariant that is (`...Inv`, `Shape`, `Switch`, ...), shows that it holds initially and is
kept by one lemma per group of actions, and derives the properties from it.

**Data of any length.**  Nothing here uses an induction theorem with an operator as its
parameter.  What is said of sequences, sets and sums is proved by a least counterexample:
a set of numbers that is not empty has a least element (`Least`, from the well-foundedness
of `<` and `WFMin` of the library), and it is refuted.  A library fold, `SumFunctionOnSet`,
is unfolded to its recursive function and used through what it is for one element more
(`SumTakes`).

### Planning

* `TypeCorrect` (`Spec => []TypeOK`).  `TypeOK` is not inductive: `TypeInv` adds
  `RequestOK`, which says that a handler's input fits its operation, because the
  row `Create` inserts is typed only if every field of the input is there.
* `LockFreezes` (`Spec => LockFreezesShifts`).  The invariant is `ControlInv`: the
  types, and that no shift operation waits at the routes' gate.  The argument is
  `Admission` - the only steps that take a handler past the lock check are those
  that read the event, and they look at the lock - together with the frame lemmas
  `OthersWait`, `OwnRequest` and `ShiftsWritten`.
* `ShiftsStayOrdered` (`Spec => []ShiftsOrdered`), with `RangesInv`: a handler of
  `Create` that is past its checks carries an ordered range.  `RowsWritten` says
  where a row can come from: it was there, `Create` made it, or `Update` merged it
  under the CHECK.
* `ShiftsStayInside` (`[]ShiftsWithinEvent` when nobody asks for `updateEvent`),
  with `InsideInv`: the event keeps its range; the event a handler remembers has
  that range (`EventCaptured`); an `Update` that is past its checks carries ends
  that are inside *each by itself* (`EndsChecked`), so whatever row they are merged
  with stays inside.
* `ChangesAreAnnounced` (`[]StaleGridIsAnnounced` when nobody asks for
  `updateEvent`).  `GridStep` classifies every step: it publishes, or its handler
  is now one that will, or it leaves grid and shifts alone and its handler was not
  one to rely on.  The last case is why a handler whose row has been deleted may
  give up: the deletion announces itself.
* `OverbookingIsBounded` (`[]BoundedOverbooking` when ordinary users sign up and
  off).  The inductive invariant counts, for each requirement, its staff *and* the
  handlers that have counted it and not inserted yet (`Claimants`); the sum never
  exceeds the requirement by as much as the number of handlers.  `ClaimStep` says
  what a step can do to the two sets, the rest is cardinality arithmetic.

### Broker and live grid

* `ChannelsStayOpen` (`[]ChannelsOpen`).  `BrokerInv` adds that the broker's map holds
  exactly the subscribed connections, that a broadcast has only clients of its own
  instance left to serve (`CastsStay`, which is what makes one instance's lock
  enough), and that a handler broadcasts only in the fallback of `Publish`.
  `NextIsBrokerStep` reduces the steps of the whole system to the broker's own.
* `LiveTypeCorrect` (`[]TypeOK`) needs `Hooked`: a tab has a connection only while its
  hook is open, so a failure never counts past the limit.
* `NothingIsLost` (`[]NothingAnnouncedIsLost`).  `DeliveryInv` adds that nothing is due
  to a tab the broker does not know (`Served`), and `Fresh`: an answer on its way is no
  older than the grid it replaces, and nothing is newer than the tables.  Without it an
  answer could take away a change the grid already had.  `Drawn`, that only a tab which has
  a grid draws updates into it, keeps a failed update's invalidation from being joined to a
  first request.  Every step is then a step of the tab's side, which leaves what is in
  transit (`ClientSide`), or of the broker's, which leaves the tab alone (`BrokerSide`), or
  loses the connection.
* `GuessesGetReplaced` (`[]GuessesAreReplaced`) is inductive given the types: whatever
  removes an update from a tab asks for the grid, and only an answer ends a request.

### Availability

* `SetAvailabilityReplaces` (`Spec => ReplacesAll`), the refinement.  `ReplaceInv` says
  that two handlers under way know of each other (`RivalsKnown`) and that since its
  deletion a save has seen only its own rows and its rivals' come in (`OldRowsGone`).  The
  second is what `Acknowledge` of the register asks for, and it needs the first: a row
  that comes in is inserted by a handler under way.  All other steps stutter.
* `EditorTypes` (`[]TypeOK`), `SavesStoreTheirPainting` (`Spec => StoresThePainting`).
  `EditorInv` adds that what a handler inserted and what it has left make up the painting
  it was sent (`LeftIsPainted`), that what was over before a save began stays deleted
  (`BeforeIsOver`), and that rows of two saves mean two rivals.  When a save ends, the rows
  are therefore the entries of its painting, and `RoundTrip` says that reading the entries
  back gives the painting: every painted slot lies in exactly one run (`EveryRun`,
  `OneRun`), for paintings of any length.
* `TabsSeeTheirSaves` (`[]OwnSaveIsSeen`).  Once a save has deleted, no read returns
  rows from before it (`StoredIsNew`), and a read that was sent earlier is thrown away
  when the answer of the save is heard, or has yet to be answered, or is the one the
  property excepts.
* `EntriesStayApart` (`OnTheGrid => (Spec => []OverlapsNeedRivals)`).  `GridInv` carries
  the alignment through the table, the caches, the editors and the requests; two runs of one
  painting lie apart (`EntriesApart`) only when its slots are a multiple of the granularity
  from each other.

### Accounts and the second factor

* `PagesUseTwoFactor` (`Spec => TwoFactorSpec` for `AccountPages`): each step of the pages,
  their requests and the sessions is a step of the two-factor service or leaves it alone.
  What holds of `TwoFactor` thereby holds of the composition.
* `SecretIsConfirmed` (`[]EnabledSecretIsConfirmed`).  `Justified` adds that an
  `EnableTOTP` about to write has a confirmed secret in hand, and that nothing else that
  writes leaves the factor on.  It is proved of `TwoFactor` and carried over by
  `PagesUseTwoFactor`.
* `SomebodyAdministers` (`[]SomeoneAdministers`).  `Administered` adds that a registration
  which has decided to become an ordinary user decided so because there was a user; users
  of this module only ever come.
* `PagesAreDrawn` (`[]TypeOK`).  `Shape` adds what every message and every call carries,
  that the screens fit the part that is worked in, and `OneAtATime`: a section waits for one
  call at most, and that call is the one its step and its visit say.  All that follows
  rests on `Shape`.
* `TypedFieldsAreSent` (`[]SavesSendOnlyTyped`), with `Untyped`: as long as a form was not
  drawn over a changed user, a field that differs from the user was typed into.
* `SwitchesAreSeen` (`[]OwnSwitchIsSeen`), with `Switch`: a section that was the last to
  write the switch shows it, or the call it waits for will tell it (`Tells`).
* `ShownCodesStay` (`[]ShownCodesAreStored`).  `CodesInv` says that while nothing crossed,
  one call at a time changes the second factor, and no screen shows codes that it is about
  to replace (`Alone`); and that not only the codes shown, but those offered in a setup and
  those an answer brings are the stored ones (`CodesFit`).
* `ChangesAreShown` (`[]OwnChangesAreShown`).  A device that was the last to change the
  account is owed a refresh (`Owed`), or *everything it is going to hear* of the user is
  what is stored (`InStep`): its reads under way, and the answers of logins. `ListFits`
  says the same of the connections it was told are gone, of answers under way and of a
  list that is not marked; and that a marked list is being fetched while the settings
  page is open, which is why opening the page has to fetch it (`EntersSettings`,
  `UnlinkedStep`).

### User management

* `TypeCorrect` of `UserManagement` (`[]TypeOK`): its types say which statements an
  operation comes to, and that a request under way has a target where it needs one.
* `DeletedWereDummies` (`Spec => OnlyDummiesAreDeleted`).  `Sighted` adds that a deletion
  past its look at the account has before it a placeholder, no account at all, or one that
  was written to since; and that no account is beyond those created, so that a new one
  never takes the place of one that is about to be deleted.
* `LastAdminWasWarned` (`Spec => LastAdminGoesKnowingly`).  `AllMeant` says what a request
  under way says of its sender's warning (`Meant`); a statement that takes the last
  administrator away then was warned about, or its sender is the one who is not
  administrator any more.
* `PasswordsAreThere` (`[]LocalsHavePasswords`).  `PassInv` adds that an update which is
  about to make an account sign in by password has set one, or that the account is excused
  by the update's having broken off or overlapped (`Excused`), and that excuses go only by
  the update's own step.
* `PagesStayFilled` (`[]PagesAreFilled`), with `Steady`: a list that is shown is the list of
  its view, and the view's page begins before the end of the list.  `PlaceTaken` leads from
  a number of accounts to an account at each place of the list.

### Settings page

* `SettingsAreTyped` (`[]TypeOK`) and `OwnChangesGetReadBack` (`[]OwnChangesAreReadBack`)
  from one invariant, `Shape /\ Exactness`.  `Shape` gives each dialog, request, form and
  cached answer the type of its section.  That a read of the hidden hours can always be
  answered is `RowsCanBeSorted`, by a least counterexample on the number of rows.
* `RangesChangeByOne` (`Spec => RangeEditsAreExact`).  `Exactness` says that the stored rows
  and those still to come make up the list that was sent (`Halfway`, row by row with
  multiplicity), and that only one replacement at a time knows what was stored when it
  began (`Alone`).  `CountOfOneMore` and `CountOfOneLess` are the arithmetic of lists.
* `SavesKeepTheRest` (`Spec => SaveKeepsOthersChanges`): the request carries no field that
  was not edited, and the merge leaves those alone.

### Event page

* `ThePageIsTyped` (`[]TypeOK`).  `Shape` adds what a request's body, form and dialog have to
  do with each other (`OnlyChanges`) and `GuessesPend`.
* `RefusedGuessesGo` (`[]NoGuessSurvives`): a cached list with a guess in it is stale or has
  an update under way (`GuessesPend`), whatever lists failing updates put back.
* `PeopleAreLeftAlone` (`Spec => SavesOnlyChangedPeople`): a body has a team or a user only if
  the form differs from the shift the dialog was opened for (`OnlyChanges`), and
  `TakenByAccept` takes that to the table.
* `BarsAndBlocksAgree` (`[]BarsAgreeWithBlocks`).  Columns rise (`ColumnsRise`) by a slot's
  length at least, so a block's ends lie in the first and the last of its columns
  (`FirstColumn`, `LastColumn`), and `FallsWhereDrawn` says that a shift falls into exactly
  the columns its block touches.
* `BlocksAreAsWide` (`[]BlockWidthIsVisibleTime`).  Visible ticks and ticks of the block are
  in bijection, column by column (`WidthIsVisibleTime`).  The property is about shifts that end
  after they start: a dialog may save others, and they are drawn until the server refuses.
* `TablesAddUp` (`[]StatsAddUp`).  A sum over a set is the sum of the sums over its
  groups (`SumByGroup`), a count is a sum of ones. A quarter of an hour is two tenths
  and a half, so a rounded figure is exact or half a tenth more (`Rounded`), and so are
  sums of them, once per row (`SumRounded`). `Ascending` and `InOrder` of `TimeSlots`
  put a set in order; the number of elements before one is its place, which is a
  bijection (`EachOnce`), so that picking from a list neither repeats nor drops
  (`PickedCount`, `DayList`).

## 7. What is only model-checked, and what is left out

**Only model-checked.**  Liveness is out of the prover's reach: `EveryRequestAnswered` and
`LockEventuallyFreezes` rest on `planning_live`, `GridCatchesUp` on `live_catch_up`.  The
three violated properties are counterexamples and have nothing to prove.  Every other
property of the runs is a theorem.  One theorem is narrower than its run: that on
`BoundedOverbooking` is about clients that only sign up and off, where `planning_live` adds
a moving event and requirements that are dropped.  With admins' sign-ups and
edits there is no bound on overbooking, since neither `Update` nor an admin's `Create` looks
at the requirements.  Of two things on the event page the proofs say no more than types:
the order and the labels of the rows, and what the time picker returns.

**Left out of the modelled parts.**

* Planning: several events, roles that change, accounts that are deleted, failing database
  connections, the payloads of announcements, the creation of events.
* Live grid: streams of other events and of all events, the other queries a message
  invalidates, the mutations without an optimistic update, the length of delays, the
  cleanup loop that the shutdown stops.
* Availability: the read-only listing of everybody's entries; clock changes.
* Event page: clock changes between summer and winter time, colours and layout, the
  calendar link and the export dialog that the page opens.
* Settings page: the event's location, which is handled as its description is; which
  users a search for a name offers.
* Accounts: logins refused for inactivity, the sessions of a deleted account, names and
  addresses beyond their being taken; the exchange with an OAuth provider and its state
  token, since what they do depends mostly on the provider.
* User management: `CreateDummyAccount` and `UpdateDummyAccount`, which the client does not
  call.

**Not modelled.**  Audit log, notifications and webhooks: they run after the reply and
nothing reads them back to decide anything.  Migrations: one transaction per file, and the
compose file runs one instance.  The rate limiter: one counter under a mutex.  Teams, app
settings and SMTP: single statements under unique indexes.  Export, iCal and PDF: read-only
formatting.  Configuration, logging, request ids: no state.  The pages for teams, app
settings and the audit log, which send one request per form.  `PROJECT.json` has each with
its reason.
