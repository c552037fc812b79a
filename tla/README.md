# A verification of the live streaming server

The repository is a Go server that turns a finite HLS manifest into an endless
"live" stream, for registered users, with a page that shows the stream and the
number of viewers. This directory models it in TLA+, checks the models with TLC
and proves their safety with TLAPS.

## The system

| Part | State | Operations | Talks to |
|---|---|---|---|
| Timeline (`stream/timeline.go`) | none (the manifest's prefix sums) | `WindowAt`, `publishAt`, `cacheNames` | the worker |
| Stream worker (`stream/service.go`, `cache.go`) | current file set and snapshot (two atomic pointers), subscriptions | `Run`/`publish` once per segment, `Subscribe`, `Ready` | the disk (loader), the hub (a channel of one), HTTP handlers (the two pointers) |
| Stream handlers (`stream/handler.go`) | none | playlist, segment | the worker's pointers |
| SSE hub (`web/hub.go`) | connections, last window, closed, pending timer | `Run`, `ServeHTTP`, debounce timer | the worker's broadcast, browsers |
| Pages and cookie (`web/server.go`, `auth/middleware.go`) | the browser's cookie | pages, forms, redirects, logout, `RequireSession` | sessions, browsers |
| Player (`web/static/player.js`) | last sequence, playback, event stream | restart detection, retries, return to the login | the hub's events, `RequireSession` |
| Sessions (`auth/service.go`, `session.go`, `janitor.go`, `db/sessions.go`) | the table; a cache of it per process | `Authenticate`, `openSession`, `Logout`, the janitor's sweep | the database, every request |
| Users (`auth/user.go`, `db/users.go`) | the table; the semaphore of bcrypt | `Register`, `Login` | the database, sessions |
| Migrations (`db/migrate.go`) | `schema_migrations`, an advisory lock | `Migrate` | other replicas |
| Process (`cmd/server/main.go`) | contexts | start-up, shutdown | all of the above |
| Configuration, manifest parser | none | pure functions | start-up |

What is hard about it is concurrency over small pieces of state: requests that
read two pointers stored one after the other, a hub whose channels are closed
by one goroutine and written by another, a cache invalidated in one order and
filled in another, several clocks, late and missed ticks, tabs that share a
cookie, and a restart at any point. `PROJECT.json` lists these hazards line by
line with the properties that would catch them. Three have none: requests that
miss the cache together all query the database (`auth/service.go:155`, against a
documented bound on queries that no decision depends on), a database that never
answers keeps `pool.Close` waiting (`main.go:58`), and `DB_MAX_CONNS` is narrowed
after its check (`config.go:55`).

## Plan

The order of the work: the stream first (its arithmetic, then the worker),
because it is what the program is for; then the two pieces of concurrent state
around it (the hub, the session cache); then what runs before and after them
(manifest, migrations, process) and the accounts. Modules are written to be
proved about: parameters are constants with named assumptions, every operation
is one action, invariants are conjunctions of named parts, and recursion is a
recursive function.

Done: all modules listed below, their runs, and proofs of every safety property
the runs check.

Left: the composition of `LivePlaylist` and `WindowFeed`, the hub being one of the
listeners (no viewer is shown a window before its playlist can be fetched); an
abstract specification of the session cache (a table of sessions with a bounded
delay of revocation) and one of the migrations (a log that only grows by its next
entry), with refinements.

## Modules

| Module | Models | Notes |
|---|---|---|
| `Timeline` | `timeline.go` | pure operators over a manifest given as a constant |
| `Manifest` | `manifest.go`, `VerifyFiles`, `NewTimeline` | from lines to what `Timeline` assumes |
| `TimelineCheck` | the start-up of the stream | `Manifest`, then `Timeline` on what was parsed, against summation and counting |
| `TimelineProofs` | | lemmas about `Timeline` for every manifest |
| `LivePlaylist` | | what a live playlist promises those who fetch it and those who are told of it: an abstract specification |
| `StreamService` | `service.go`, `cache.go`, `handler.go` | the worker, its subscribers and HTTP clients; implements `LivePlaylist` |
| `StreamServiceProofs` | | its safety and the refinement |
| `Hub` | `hub.go`, the window handler of `player.js` | connections, tabs that outlive the process, restarts; implements `WindowFeed` |
| `WindowFeed` | | what a feed of windows promises its viewers: an abstract specification |
| `HubProofs` | | its safety and the refinement |
| `Sessions` | `auth/service.go`, `session.go`, `janitor.go`, `db/sessions.go` | the table, the cache, clocks, restarts |
| `SessionsProofs` | | its safety |
| `Accounts` | `auth/service.go`, `user.go`, `db/users.go`, the forms of `web/server.go` | registration, login, the bcrypt semaphore |
| `AccountsProofs` | | its safety |
| `Site` | `web/server.go`, `auth/middleware.go`, `player.js` | pages and redirects, the cookie that tabs share, what the player does without a session |
| `SiteProofs` | | its safety |
| `Migrations` | `db/migrate.go` and the start-up around it | replicas, database sessions, the advisory lock |
| `MigrationsProofs` | | its safety |
| `Server` | `cmd/server/main.go` | the process: start, select, shutdown |
| `LifecycleProofs` | | the start-up of the stream (`Manifest`, `TimelineCheck`) and the safety of the process (`Server`) |

Modules whose name starts with `MC` give the constants values for TLC.
Operators named `...Mutant...` are wrong variants of the definition that
follows them; no specification uses them, and each run's property is violated
when the named definition is replaced by its mutant.

`StreamService` extends `Timeline` and refines `LivePlaylist`; `Hub` refines
`WindowFeed`. `TimelineCheck`
extends `Manifest` and instantiates `Timeline` with the segments it has parsed,
as `main.go` does: what `Manifest` calls ready satisfies `Timeline`'s
`SegmentsAssumption`, as `LifecycleProofs` proves. The other modules stand alone. Where one needs a neighbour
it has the neighbour's interface: `Hub` has the worker's broadcast (`Publish`),
`Accounts` a session that opens or does not, `Site` an `Authenticate` that
answers at once and forms that are accepted or not, `Server` the start and the
end of every part.

## How the models correspond to the code

**Timeline.** One operator per function. Times are naturals in an arbitrary
unit; sequences are 1-based, so that `acc[i]` is the code's `starts[i]`.
`mediaSequence` keeps the division by laps and the search among the starts
(the greatest start not after the remainder, which is what the binary search
returns on an increasing sequence). The divisions are natural numbers because
`WindowAt` clamps an instant before the epoch.

**StreamService.** `pc` is the place of `Run`: compute the window, build the
set, the two atomic stores of `publish` (two steps: clients run in between),
broadcast, arm the timer on a second reading of the clock, wait. A window, a
snapshot and an event are represented by their media sequence, from which
`WindowAt` computes everything else. Loads fail as long as the disk is not
readable, each prefetch on its own. The clock may move between any two steps.

**Hub.** Everything done under `h.mu` is one step. `pc` is the place of each
connection's `ServeHTTP`: writing the initial event, in the loop, and leaving
(the deferred `remove`). A failed write, a context that ends and a closed
channel lead to `leaving`. `lastSequence` is the variable of `player.js`; a tab
reconnects with it, also to the process that `Restart` starts, whose stream
begins again at 0. `seen` is history: the last window of the process that is
running. Only one direction holds. A player that reloads has seen a restart
(`ReloadsOnlyAfterRestart`); a restart is not always noticed: if the new process
has reached the tab's last sequence by the time it reconnects, the sequence does
not go back (`player.js:87`), and what HLS.js does then is not in the model.

**Sessions.** Each method is split where it takes the cache's lock, reads the
clock or calls the database. A token stands for its hash and its user. The
database has a clock of its own (`skew`). A call that fails may have had its
effect. `Restart` empties the cache.

**Accounts.** `pc` is the place of a request in `Register` or `Login`, or the
answer its handler gives. `used` is the number of values in the semaphore's
channel and `queue` the goroutines blocked on it: a receive from a full channel
lets the first one in, which is how Go's channels work and what makes the wait
finite. A password is what bcrypt reads of it, its first 72 bytes (`Login` does not
check the length, a registration with more is not acceptable), and a hash is
represented by its password; `Dummy` is the password behind `dummyHash`, which a
visitor may also type. `Normal` is the normalisation of e-mails by the application
and `Lower` the database's: rows may exist that were inserted without the first,
and a row whose `Lower` is nobody's `Normal` (it has blanks, say) is found by
nobody.

**Site.** A request with what its handler does is one step, and the arrival of
its answer another: `nav[t]` is the navigation of a tab on its way (`go`) or
answered (`page`, `redirect`), with the cookie the answer sets. All tabs share
`jar`. `Authenticate` is atomic here and accepts a cached token or, if the
database answers, a live one: every error of it is "no", which is what
`RequireSession` and `isLoggedIn` make of it. `hls` is the playback of
`player.js` (`loading`, `backoff` for two seconds, `stopped` once sent to the
login, `native` where HLS.js is not supported) and `sse` its `EventSource`. A
restart breaks every connection and empties the cache.

**Migrations.** `pc` is the place of a replica in `Migrate`. Database sessions
outlive their clients: `Abandon` leaves the statement in flight, after which the
server may still grant the lock (`LateLock`) or commit (`LateCommit`) before it
closes the session. A transaction is the migrations it has run and the rows it
has inserted; `schema` is the order in which migrations took effect.

**Server.** `main` is the place of `run`; goroutines are reduced to whether they
run. A connection is in a statement (`query`), an idle SSE stream (`sse`), a
blocked write of one (`stuck`) or a write of a playlist or segment
(`download`). `ShutdownExpires`, the end of the ten seconds of `shutdownGrace`, may
come at any point once `Shutdown` has closed the listener, whatever the hub and
the connections have done by then, and need not come at all.

**Manifest and TimelineCheck.** One step per scanned line; a line is what the parser makes of it.
Values are given in fractions of the unit so that truncation can be observed.
When the parse is over, and only if the server starts, the clock begins to run.

## What the runs show

| Run | Shows |
|---|---|
| `timeline` | from the lines of a manifest to the windows on air: the whole manifest or nothing, what `Timeline` assumes of it, and then `WindowAt` agrees with summation and counting: the segment on air, the next tick strictly in the future, discontinuities counted across any jump |
| `stream` | grace, bounded memory, prefetch, the health check, ticks that always advance, and the refinement of `LivePlaylist`: discontinuities counted, clients and subscribers given windows in order and only when published |
| `stream_liveness` | the stream recovers when its files are readable again; cancelling ends `Run` |
| `stream_grace` | finding: the previous playlist's files are not kept when ticks were missed |
| `hub` | no send on a closed channel, exact viewers, announcements; a sequence goes back only because of a restart; the refinement of `WindowFeed`; the shutdown ends every connection |
| `sessions` | a bounded cache, expiry by two clocks, revocation within the cache's TTL, no refusal without a cause |
| `sessions_logout` | finding: a logout does not always invalidate the cache |
| `accounts` | nobody is let in or refused wrongly, registrations stand, no slot is lost and every wait for one ends |
| `site` | a logout stands, whatever answers come late and whatever the database does; the redirects never go round in circles; a session that ends leaves the player |
| `migrations` | each migration once, in order, one at a time, before serving; the lock is given back |
| `server` | the first window reaches the hub, exit status; a signal, or a stream that cannot start, ends the process, and if clients read a signal ends it without the grace period |
| `server_grace` | finding: a client that does not read uses up the grace |

One run per module answers for its safety and, where its state space allows, for
its liveness too; the stream has a run of its own for liveness, without clients
and subscribers, on whom the worker does not depend. `TypeOK` is a theorem of
every module with proofs and no property of a run, and so is that the windows in a
subscription are in order (`SubscribersInOrder`), which `ImplementsLivePlaylist`
checks of what is received.

Deadlock is checked everywhere except where the system stops by itself: the
worker and the hub after a cancellation, the clocks at their bound, a manifest
that is refused. `Site` never stops, the database failing and healing for ever,
so that there deadlock would say nothing.

## Bounds

* `timeline`: every manifest of up to eight lines over four durations (one
  truncated to nothing, one not positive) and three names (one without a file,
  one that is a path): enough for three segments with two lines to spare, or for
  four. Laps of three to eight units, shorter than the cached range; a clock up
  to twelve, hence through more than one lap, with steps longer than a segment.
  `Second` is two units, so that the target is rounded.
* `stream`: seven segments of one to three units, a lap of eleven units of half a
  second; the first file comes again as the third, so that a file is grace and
  window at once; `MaxTime` lets a lap end and files be evicted. One subscriber
  and one client: neither affects the other or the worker, so more would repeat
  the same behaviours.
* `stream_liveness`: the same manifest and clock, no subscriber and no client.
* `hub`: two tabs, buffers of two, two windows for each process and any number of
  restarts: a buffer fills up, and a tab connects, falls behind, leaves and comes
  back, to the same process or to another.
* `sessions`: two sessions and two requests for a cache of one entry, with a skew
  of -1, 0 or 1; the cache's TTL is shorter than a session and a session ends
  within the bound on the clock.
* `accounts`: three requests, one slot (somebody computes, somebody waits,
  somebody leaves), two spellings of an address, and the forms that interfere:
  a registration under each, one of them with the password of the dummy hash, one
  that is not acceptable, and a login.
* `migrations`: two replicas and three sessions, releases {1} and {1, 2}: an owner
  of the lock, one that waits, and a session that was abandoned.
* `server`: three connections, each in any state.
* `site`: two tabs, so that one logs in or out under the other, and one session:
  it is opened, ends by logout or expiry, and every later request finds out. The
  order of answers for two sessions does not fit in the time of a run; `SiteProofs`
  proves it for any number of sessions and tabs.
  Outages, restarts and lost connections are not bounded.

## Fairness

* `StreamService`: the worker is a goroutine that is always runnable outside its
  select, and time passes. Nothing is assumed of the disk (the properties speak
  of after it heals) nor of clients.
* `Hub`: `Run` and each `ServeHTTP` are goroutines; a write ends because it has
  a deadline (`writeTimeout`).
* `Sessions`: none; only its safety is checked.
* `Site`: a request is answered and its answer arrives or fails; HLS.js goes on
  loading and the two seconds of its backoff pass. Nothing is assumed of users,
  of the event stream (a browser may wait as long as it likes to reconnect it) nor
  of the database: `NavigationsEnd` supposes that it does not fail and come back
  for ever, and `EndedSessionLeavesPlayer` that the process does not restart for
  ever; both premises are in the properties, and without them the properties do
  not hold, rightly.
* `Accounts`: bcrypt ends. Nothing is assumed of the database or of clients.
* `Migrations`: the context's deadline fires, the deferred unlock is answered
  (it has no deadline in the code) and the server notices a client that has gone.
  Nobody is assumed to finish a migration in time.
* `Server`: the goroutines run and the database answers. The timer of the grace
  period is not among them: that it fires is a premise (`GraceEnds`) of `SignalEnds`
  and `FailureEnds`, which hold whatever clients do. `ReadersDoNotNeedTheGrace`
  supposes instead that no client leaves a write blocked or a download unfinished
  for ever, and holds although the timer may never fire. Strong fairness of
  `ChannelClosed`, because a closed channel holds finitely many events, so that
  a client cannot stall for ever between two of them. Without an answer of the database the process would not end: `Close`
  waits for the pool.

## Proofs

TLAPS checks the safety properties for every value of the constants that
satisfies the assumptions named in the modules, in particular every manifest,
every number of clients, tabs, requests, sessions, replicas and connections, and
without the bounds on the clock (`MaxTime`), on its steps (`MaxStep`), on the length
of a manifest (`MaxLines`) and on sequences (`MaxSequence`), which are any natural
numbers; the `Epoch` is any instant.

* `TimelineProofs`. `acc` is a recursive function over 0..N; its existence,
  recursion and type are proved by induction in the form of a lemma about sets of
  naturals (`NatSetInduction`). It increases, so a lap has a unique segment on
  air at every instant (`MediaSequenceOnAir`), publication instants increase
  across laps, and the discontinuity sequence counts tags by induction on the
  number of segments that leave (`DiscontinuityCountsTags`). `AtMostFive`,
  `RequiredNext` and `TargetCovers` are what the service needs.
* `StreamServiceProofs`. The inductive invariant `IInv` adds to the types, for
  each place of `Run`, what has been computed so far: that `built` is for `w`, that
  `set` is for the snapshot (or for `w` between the two stores), that the timer
  is not earlier than the end of the window, and that everything a subscriber or a
  client holds is at most the snapshot. None of the properties is inductive
  without it: `GraceServed`, for instance, needs that the set contains what is
  required for the window it was built for. The refinement maps the second store
  to a publication of `LivePlaylist`, `servePlaylist` to a fetch, a receive from
  the subscription to a telling, and everything else to a stutter. Mapping a
  publication is where the discontinuity sequence of the code has to be the count
  of tags that left (`DiscontinuityCountsTags`); mapping a receive is where what
  waits in a buffer has to be newer than what was received last.
* `HubProofs`. The invariant relates each connection's place to its membership of
  `clients` and to its channel being closed, and orders the windows of the process
  that runs: the last one a tab saw of it, its initial event, those in its
  channel, the hub's last, the subscription, the one published last. A tab that
  has seen none of this process may hold any number, which is how a sequence can
  go back. From this order the hub is shown to implement `WindowFeed`
  (`Refinement`); that no feed goes back but by a restart is proved of `WindowFeed`
  alone (`FeedsGoBackOnlyAfterRestart`), and `WindowsInOrder` of the hub is put
  together from the two.
* `SessionsProofs`. The invariant says what each place of a request knows of its
  token: the entry it judges and the row it read carry the expiry fixed at login;
  the moment at which an entry was made is not after the last one at which its
  row was in the table or in a request's hands (`heldAt`), which is what makes the
  TTL a bound on revocation although a request may put back what a logout has
  deleted; a request that is opening a session is alone with its token. A row is
  missing only if somebody is leaving or it has expired.
* `AccountsProofs`. What a request has read of the table stays true of it, because
  rows are only added; a normal address has one account at most, in whatever
  spelling, because the unique index compares `Lower`; the slots taken are exactly the requests
  computing and the queue is free of duplicates, which is why giving up and
  releasing never count one twice. `Lower` is any function that leaves
  normal addresses alone; in the run both spellings have the same one.
* `SiteProofs`. A cookie on its way to a tab is not in the jar yet, is not on its
  way to another tab, and belongs to no session that an answered or unanswered
  logout ends (`Fresh`); the answer that ends a session takes its cookie away
  (`Clears`). From both it follows that no order of answers can bring a closed
  session back.
* `MigrationsProofs`. The invariant says that only the owner of the lock has a
  transaction or is past the lock, that owners are unique (a session belongs to at
  most one replica and is abandoned by none that uses it), that the transaction
  of a place holds just the migration the place is at, and that the table and the
  schema agree. `AppliedOnce` follows from the check of `versions` being made
  under the lock. `AppliedInOrder` needs a second invariant (`Order`), under the
  premise the property has, that releases only append: below every migration that
  is applied, or that an abandoned session is committing, all migrations of all
  releases are applied.
* `LifecycleProofs`, the start-up. `ManifestInv` says of the lines read so far
  that the segments are their names, in order, each with the duration declared for
  it (`SegmentsAreNames`), and that a duration is pending exactly when the line
  that declares it would still be the last one (`PendingIsDeclared`): a name can be
  given a duration twice, or none, only if this fails. `StagesPassed` keeps what
  each check has made sure of, `RejectedForCause` why a manifest was refused.
  `StreamIsTheManifest` and `ReadyMakesATimeline` follow, and from the second
  `TimelineAssumptionHolds`: `Timeline`'s `SegmentsAssumption`, from which all
  theorems about the stream are proved, holds of every stream that starts. With
  it the theorems of `TimelineProofs` are used for the segments that were parsed.
  `StartOf`, the sum the run compares with, is a recursive function, equal to the
  code's laps and prefix sums by induction on the sequence, so that `WindowOnAir`
  and `DiscontinuitySequenceCountsTags` are theorems in the form in which the
  run checks them.
* `LifecycleProofs`, the process. `ProcessInv` counts what was sent to `errCh`
  against the goroutines that have ended (so that two places are enough), says
  that whatever in it is not a failure follows a signal, and orders the stages of
  `run`. That the exit status tells the truth follows from the second part, that
  the first window reaches the hub from the third, and that an orderly exit cuts
  nobody (`OrderlyExit`) from the listener being closed to all who come later.

Only model-checked: the liveness properties (`Recovers`, `CancelStops`,
`ShutdownEndsConnections`, `LockIsFreed`, `WaitEnds`, `ReadersDoNotNeedTheGrace`,
`SignalEnds`, `FailureEnds`,
`NavigationsEnd`, `EndedSessionLeavesPlayer`): liveness under fairness, like
ENABLED, is out of the prover's reach. What a recursive definition computes for
every input cannot be proved where it would need an induction theorem with an
operator as a parameter; `Timeline` and `TimelineCheck` avoid this with induction
over sets of naturals. No module uses RECURSIVE operators.

## Not modelled

* Rendering of playlists, pages and events, headers, ETags, logging, routes:
  stateless formatting.
* int64 overflow of durations and instants (292 years).
* The configuration; the narrowing of `DB_MAX_CONNS` is listed as a hazard.
* The in-memory stores (test doubles) and the SQL schema, except the uniqueness
  of `lower(email)`.
* Static files, the health endpoint, templates, the middleware that logs and
  recovers from panics: they change no state.
* What HLS.js does inside, media errors, and the parts of `player.js` that draw.
  `startLoad` (`player.js:34`) is assumed to try again what failed, the first
  manifest included.
  Playback by the browser itself (`player.js:41-44`) ignores a 401;
  `EndedSessionLeavesPlayer` says nothing of it.
* Requests a browser sent and then abandoned for another navigation: `Site` takes
  them for unsent when the script navigates first. A logout so abandoned would
  still be handled; its answer would tell the browser nothing.

## Findings

Three places where the documentation says something else than what the code
does, each with a run whose counterexample shows it: the grace segment after a
missed tick (`stream_grace`), a logout overtaken by a check
(`sessions_logout`), and a shutdown that waits for a client that does not read
(`server_grace`). In the last one the model lets the grace end at any moment after
the hub has closed; that it can end while a write is blocked is the code's doing,
whose deadline for a write (30 s, `hub.go:24`) is longer than the grace (10 s).
